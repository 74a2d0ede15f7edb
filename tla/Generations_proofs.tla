------------------------- MODULE Generations_proofs -------------------------
(***************************************************************************)
(* Proofs about Generations for every value of its constants.              *)
(***************************************************************************)
EXTENDS Generations, FiniteSetTheorems, TLAPS

USE DEF past

Phases == {"none", "cold", "barred", "up", "failing", "ready", "fault", "closed"}
RecordType == [status : Gone \cup Failed \cup {"starting", "ready"}, gen : Nat, born : Nat, pid : Nat]
HandleType == [gen : Nat, phase : Phases, controls : Int]
Awaits == Stages \ {"idle"}
\* a call in progress; a slot without one is Idle
CallType ==
  [kind : AllKinds \cup {"scan", "close"}, at : Awaits, w : Worker, v : Worker, gen : Nat, handle : Nat,
   born : Nat, live : BOOLEAN, assign : BOOLEAN]
JobType == CallType \cup {Idle}

\* the types the other proofs need; that controls is never negative is not among them
Typed ==
  /\ main \in {"up", "closing", "draining", "closed", "held", "down"}
  /\ launched \in Nat /\ serial \in Job \cup {Nobody}
  /\ task \in Worker \cup {Nobody} /\ paused \in BOOLEAN
  /\ record \in [Worker -> RecordType] /\ handle \in [Worker -> HandleType] /\ job \in [Job -> JobType]
  /\ alive \subseteq Nat /\ overwritten \in BOOLEAN

\* Workers and slots are jobs, Nobody is neither, and the records of nothing have their types.
LEMMA Constants ==
  /\ Slot \subseteq Job /\ Worker \subseteq Job /\ Nobody \notin Job /\ Nobody \notin Worker
  /\ Idle.at = "idle" /\ Idle.w = Nobody /\ Idle.v = Nobody /\ NoHandle \in HandleType /\ NoRecord \in RecordType
  BY GenerationsAssumption DEF Job, Idle, NoHandle, NoRecord, HandleType, RecordType, Phases, Gone, Failed

\* Kinds of call and stages by name: the proofs never expand the two sets.
LEMMA Names ==
  /\ "start" \in AllKinds /\ "switch" \in AllKinds /\ "stop" \in AllKinds /\ "restart" \in AllKinds
  /\ "reset" \in AllKinds /\ "dispatch" \in AllKinds /\ "resume" \in AllKinds /\ "recover" \in AllKinds
  /\ "pause" \in AllKinds /\ "reconcile" \in AllKinds /\ "remove" \in AllKinds
  /\ "stop" \in Awaits /\ "exiting" \in Awaits /\ "choose" \in Awaits
  /\ "displace" \in Awaits /\ "reserve" \in Awaits /\ "reserving" \in Awaits /\ "building" \in Awaits
  /\ "launch" \in Awaits /\ "await" \in Awaits /\ "commit" \in Awaits /\ "failed" \in Awaits
  /\ "grant" \in Awaits /\ "interrupt" \in Awaits /\ "pause" \in Awaits /\ "contained" \in Awaits
  /\ "reset" \in Awaits /\ "discard" \in Awaits /\ "prove" \in Awaits /\ "accept" \in Awaits
  /\ "remove" \in Awaits /\ "archive" \in Awaits /\ "save" \in Awaits /\ "restore" \in Awaits
  BY DEF AllKinds, Awaits, Stages, StopStages

\* what the handlers do to a handle keeps its type
LEMMA HandleTypes ==
  ASSUME NEW h \in HandleType
  PROVE  /\ Revoked(h) \in HandleType /\ Ended(h) \in HandleType /\ Released(h) \in HandleType
         /\ Counted(h) \in HandleType /\ Aborted(h) \in HandleType
  BY DEF HandleType, Phases, Revoked, Ended, Released, Counted, Aborted

\* A call stays a call when one of its fields takes another value of its type.
LEMMA JobFields ==
  ASSUME NEW x \in CallType, NEW b \in BOOLEAN, NEW n \in Nat, NEW o \in Worker, NEW a \in Awaits
  PROVE  /\ [x EXCEPT !.assign = b] \in CallType /\ [x EXCEPT !.live = b] \in CallType
         /\ [x EXCEPT !.gen = n] \in CallType /\ [x EXCEPT !.handle = n] \in CallType
         /\ [x EXCEPT !.born = n] \in CallType /\ [x EXCEPT !.v = o] \in CallType
         /\ [x EXCEPT !.at = a] \in CallType
  BY DEF CallType

\* A call starts as one.
LEMMA NewTyped ==
  ASSUME Typed, NEW w \in Worker, NEW kind \in AllKinds \cup {"scan", "close"}, NEW stage \in Awaits
  PROVE  New(kind, stage, w) \in CallType
<1>1. record[w].born \in Nat /\ (stage \in {"stop", "pause", "reset"}) \in BOOLEAN
  BY DEF Typed, RecordType
<1> QED
  BY <1>1 DEF New, CallType, Idle

\* revoke() supersedes calls and makes none.
LEMMA SupersedeTyped ==
  ASSUME Typed, NEW W \in SUBSET Worker PROVE Supersede(W) \in [Job -> JobType]
<1>1. \A x \in CallType : [x EXCEPT !.live = FALSE] \in CallType
  BY DEF CallType
<1>2. ASSUME NEW k \in Job
      PROVE  Supersede(W)[k] \in JobType
  <2>1. job[k] = Idle => Subject(k) \notin W
    BY Constants DEF Subject, StopStages
  <2> QED
    BY <1>1, <2>1, Constants DEF Typed, Supersede, JobType
<1> QED
  BY <1>2 DEF Supersede

\* a job that is somewhere is a call about a worker
LEMMA JobTypes ==
  ASSUME Typed, NEW j \in Job
  PROVE  job[j].at # "idle" => job[j] \in CallType /\ job[j].w \in Worker /\ job[j].v \in Worker
<1>1. job[j].at # "idle" => job[j] \in CallType
  BY Constants DEF Typed, JobType
<1> QED
  BY <1>1 DEF CallType

\* A call stays a call as it moves on, takes up a control or goes back to its caller.
LEMMA StepTypes ==
  ASSUME Typed, NEW j \in Job, job[j].at # "idle", NEW w \in Worker, NEW stage \in Awaits
  PROVE  /\ To(j, stage) \in CallType /\ Control(j, w, stage) \in CallType /\ After(j) \in JobType
<1>1. job[j] \in CallType /\ handle[w].gen \in Nat /\ record[w].gen \in Nat
  BY JobTypes DEF Typed, HandleType, RecordType
<1>2. To(j, stage) \in CallType
  BY <1>1 DEF To, CallType
<1>3. Control(j, w, stage) \in CallType
  BY <1>1 DEF Control, CallType
<1>4. After(j) \in JobType
  <2>1. (job[j].kind \in {"reset", "restart"} /\ job[j].live) \in BOOLEAN /\ (job[j].kind = "recover") \in BOOLEAN
    BY <1>1 DEF CallType
  <2>2. {"discard", "remove", "reserve"} \subseteq Awaits
    BY Names
  <2>3. ASSUME NEW a \in Awaits, NEW b \in BOOLEAN, NEW c \in BOOLEAN
        PROVE  [job[j] EXCEPT !.at = a, !.v = job[j].w, !.gen = 0, !.handle = 0, !.assign = b, !.live = c] \in CallType
    BY <1>1 DEF CallType
  <2> QED
    BY <2>1, <2>2, <2>3 DEF After, JobType
<1> QED
  BY <1>2, <1>3, <1>4

------------------------------------------------------------------------------
(* Types.                                                                  *)

\* A call of the human or of Main keeps the types.
LEMMA CallTyped == ASSUME Typed, NEW j \in Slot, NEW w \in Worker, Call(j, w) PROVE Typed'
<1> USE DEF UnchangedByCall, work, Called
<1>0. /\ j \in Job /\ {w} \in SUBSET Worker /\ Revoked(handle[w]) \in HandleType
      /\ Supersede({w}) \in [Job -> JobType]
      /\ \A kind \in AllKinds, stage \in Awaits : New(kind, stage, w) \in CallType
  BY SupersedeTyped, NewTyped, HandleTypes, Constants DEF Typed
<1>1. ASSUME NEW next \in CallType, Go(j, next), UNCHANGED handle, UnchangedByCall PROVE Typed'
  BY <1>0, <1>1 DEF Go, Typed, JobType
<1>2. ASSUME NEW next \in CallType, Revoke(j, w, next), UnchangedByCall PROVE Typed'
  <2>1. job' \in [Job -> JobType] /\ handle' \in [Worker -> HandleType]
    BY <1>0, <1>2 DEF Revoke, Typed, JobType
  <2> QED
    BY <2>1, <1>2 DEF Typed
<1> USE Names
<1>3. CASE Start(j, w)
  BY <1>3, <1>0, <1>1 DEF Start
<1>4. CASE Switch(j, w)
  BY <1>4, <1>0, <1>1 DEF Switch
<1>5. CASE Stop(j, w)
  BY <1>5, <1>0, <1>2 DEF Stop
<1>6. CASE Restart(j, w)
  BY <1>6, <1>0, <1>2 DEF Restart
<1>7. CASE Reset(j, w)
  BY <1>7, <1>0, <1>2 DEF Reset
<1>8. CASE Dispatch(j, w)
  <2>1. [New("dispatch", "reserve", w) EXCEPT !.assign = TRUE] \in CallType
    BY <1>0, JobFields
  <2> QED
    BY <1>8, <1>0, <1>1, <2>1 DEF Dispatch
<1>9. CASE Resume(j, w)
  <2>1. [New("resume", "reserve", w) EXCEPT !.assign = TRUE] \in CallType
    BY <1>0, JobFields
  <2> QED
    BY <1>9, <1>0, <1>1, <2>1 DEF Resume
<1>10. CASE Recover(j, w)
  <2>1. \A stage \in Awaits : [New("recover", stage, w) EXCEPT !.assign = stage = "reserve"] \in CallType
    <3> TAKE stage \in Awaits
    <3>1. (stage = "reserve") \in BOOLEAN
      OBVIOUS
    <3> QED
      BY <3>1, <1>0, JobFields
  <2> QED
    BY <1>10, <1>0, <1>1, <1>2, <2>1 DEF Recover
<1>11. CASE Pause(j, w)
  BY <1>11, <1>0, <1>2 DEF Pause
<1>12. CASE Reconcile(j, w)
  BY <1>12, <1>0, <1>1 DEF Reconcile
<1>13. CASE Remove(j, w)
  BY <1>13, <1>0, <1>1, <1>2 DEF Remove
<1> QED
  BY <1>3, <1>4, <1>5, <1>6, <1>7, <1>8, <1>9, <1>10, <1>11, <1>12, <1>13 DEF Call

\* The interruption of a worker keeps the types.
LEMMA InterruptTyped ==
  ASSUME Typed, NEW j \in Job, NEW w \in Worker, NEW next \in CallType, InterruptBy(j, w, next)
  PROVE  /\ job' \in [Job -> JobType] /\ record' \in [Worker -> RecordType]
         /\ handle' \in [Worker -> HandleType] /\ paused' \in BOOLEAN
<1>1. \A h \in HandleType : Counted(Ended(h)) \in HandleType
  BY HandleTypes
<1>2. \A r \in RecordType : [r EXCEPT !.status = IF @ = "stopped" THEN @ ELSE "error"] \in RecordType
  BY DEF RecordType, Failed
<1>3. Supersede({w}) \in [Job -> JobType]
  BY SupersedeTyped
<1>4. job' \in [Job -> JobType]
  BY <1>3 DEF InterruptBy, JobType
<1>5. record' \in [Worker -> RecordType]
  <2>1. record' = [record EXCEPT ![w] = [record[w] EXCEPT !.status = IF @ = "stopped" THEN @ ELSE "error"]]
    BY DEF InterruptBy, Typed
  <2> QED
    BY <1>2, <2>1 DEF Typed
<1>6. handle' \in [Worker -> HandleType] /\ paused' \in BOOLEAN
  BY <1>1 DEF InterruptBy, Hold, Typed
<1> QED
  BY <1>4, <1>5, <1>6

\* A step of a call in progress keeps the types.
LEMMA JobStepTyped == ASSUME Typed, NEW j \in Job, JobStep(j) PROVE Typed'
<1> DEFINE Moves == /\ job' \in [Job -> JobType] /\ record' \in [Worker -> RecordType]
                    /\ handle' \in [Worker -> HandleType]
<1>0. /\ \A next \in CallType \cup {Idle} : Go(j, next) => job' \in [Job -> JobType]
      /\ \A next \in CallType \cup {Idle}, w \in Worker : Revoke(j, w, next) =>
           job' \in [Job -> JobType] /\ handle' \in [Worker -> HandleType]
  <2>1. \A w \in Worker : Supersede({w}) \in [Job -> JobType] /\ Revoked(handle[w]) \in HandleType
    BY SupersedeTyped, HandleTypes DEF Typed
  <2> QED
    BY <2>1 DEF Go, Revoke, Typed, JobType
<1>1. /\ \A w \in Worker, status \in Gone \cup Failed \cup {"starting", "ready"} :
           SetStatus(w, status) => record' \in [Worker -> RecordType]
      /\ UNCHANGED record => record' \in [Worker -> RecordType]
      /\ UNCHANGED handle => handle' \in [Worker -> HandleType]
  BY DEF SetStatus, Typed, RecordType
<1>2. job[j].at # "idle" =>
        /\ job[j] \in CallType /\ job[j].w \in Worker /\ job[j].v \in Worker
        /\ \A stage \in Awaits : To(j, stage) \in CallType
        /\ \A w \in Worker, stage \in Awaits : Control(j, w, stage) \in CallType
        /\ After(j) \in CallType \cup {Idle}
  <2> SUFFICES ASSUME job[j].at # "idle"
               PROVE  /\ job[j] \in CallType /\ job[j].w \in Worker /\ job[j].v \in Worker
                      /\ \A stage \in Awaits : To(j, stage) \in CallType
                      /\ \A w \in Worker, stage \in Awaits : Control(j, w, stage) \in CallType
                      /\ After(j) \in CallType \cup {Idle}
    OBVIOUS
  <2>1. job[j] \in CallType /\ job[j].w \in Worker /\ job[j].v \in Worker
    BY JobTypes
  <2>2. ASSUME NEW w \in Worker, NEW stage \in Awaits
        PROVE  To(j, stage) \in CallType /\ Control(j, w, stage) \in CallType /\ After(j) \in CallType \cup {Idle}
    BY <2>2, StepTypes DEF JobType
  <2>3. "stop" \in Awaits
    BY Names
  <2> QED
    BY <2>1, <2>2, <2>3
<1>3. overwritten' \in BOOLEAN
  <2>1. CASE Accept(j)
    <3>1. (overwritten \/ Overwrites(j)) \in BOOLEAN
      OBVIOUS
    <3> QED
      BY <2>1, <3>1 DEF Accept
  <2>2. CASE ~Accept(j)
    BY <2>2 DEF JobStep, Queued, Holding, Continues, Choose, ReserveRetained, ReserveFresh, ReserveRefused,
       StartCommit, StartHeld, Grant, Interrupt, PauseBegin, Contained, StopBegin, StopEnds, ResetBegin, Discard,
       RemoveArchived, RemoveUndone, ReserveFails, ReserveCommit, ReserveBuild, ReserveUndone, Displace, Launch, Started,
       StartFails, Prove, RemoveFenced, RemoveSaved, UnchangedByCall, Typed
  <2> QED
    BY <2>1, <2>2
<1>4. \A w \in Worker : ReleaseControl(j, w) => handle' \in [Worker -> HandleType]
  <2>1. \A h \in HandleType : Released(h) \in HandleType
    BY HandleTypes
  <2> QED
    BY <2>1 DEF ReleaseControl, Typed
<1>5. "error" \in Failed /\ "unproven" \in Failed /\ "stopped" \in Gone
  BY DEF Failed, Gone
<1>6. \A w \in Worker : handle[w] \in HandleType /\ record[w] \in RecordType /\ handle[w].gen \in Nat
        /\ record[w].gen \in Nat /\ record[w].born \in Nat
  BY DEF Typed, HandleType, RecordType
<1> USE Names DEF At, UnchangedByCall, work, Goto, Drop, Leave
<1>7. ASSUME Moves, main' \in {main, "held"}, launched' \in {launched, launched + 1}, serial' \in {serial, Nobody, j},
             task' \in {task} \cup Worker, paused' \in BOOLEAN, alive' = alive, overwritten' \in BOOLEAN
      PROVE  Typed'
  BY <1>7 DEF Typed
<1>8. main' \in {main, "held"} /\ launched' \in {launched, launched + 1} /\ serial' \in {serial, Nobody, j}
        /\ task' \in {task} \cup Worker /\ paused' \in BOOLEAN /\ alive' = alive
  BY <1>2 DEF JobStep, Queued, Holding, Continues, Choose, ReserveRetained, ReserveFresh, ReserveRefused, StartCommit,
     StartHeld, Grant, Interrupt, PauseBegin, Contained, StopBegin, StopEnds, ResetBegin, Discard, Accept, RemoveArchived,
     RemoveUndone, ReserveFails, ReserveCommit, ReserveBuild, ReserveUndone, Displace, Launch, Started, StartFails, Prove,
     RemoveFenced, RemoveSaved, Assign, InterruptBy, Hold, StopThrows, Typed, Undo
<1>9. ASSUME JobStep(j) PROVE Moves
  <2>1. CASE Choose(j)
    <3>1. \A o \in Others(job[j].w) : job[j].at # "idle" => [To(j, "displace") EXCEPT !.v = o] \in CallType
      BY <1>2, JobFields DEF Others
    <3> QED
      BY <2>1, <3>1, <1>0, <1>1, <1>2 DEF Choose
  <2>2. CASE ReserveRetained(j)
    <3>1. [To(j, "launch") EXCEPT !.gen = handle[job[j].w].gen, !.live = TRUE] \in CallType
      BY <2>2, <1>2, <1>6, JobFields DEF ReserveRetained
    <3> QED
      BY <2>2, <3>1, <1>0, <1>1 DEF ReserveRetained
  <2>3. CASE ReserveFresh(j)
    <3>1. [To(j, "reserving") EXCEPT !.live = TRUE] \in CallType
      BY <2>3, <1>2, JobFields DEF ReserveFresh
    <3> QED
      BY <2>3, <3>1, <1>0, <1>1 DEF ReserveFresh
  <2>4. CASE ReserveRefused(j)
    BY <2>4, <1>0, <1>1, <1>2, <1>4, <1>5, <1>6, HandleTypes DEF ReserveRefused
  <2>5. CASE StartCommit(j)
    <3>1. [To(j, "reserve") EXCEPT !.assign = TRUE] \in CallType
      BY <2>5, <1>2, JobFields DEF StartCommit
    <3>2. ASSUME NEW r \in RecordType, NEW g \in Nat
          PROVE  [r EXCEPT !.pid = g, !.status = IF @ = "starting" THEN "ready" ELSE @] \in RecordType
      BY DEF RecordType
    <3>3. job[j].gen \in Nat /\ job[j].w \in Worker
      BY <2>5, <1>2 DEF StartCommit, CallType
    <3>4. record' \in [Worker -> RecordType]
      <4> DEFINE next(r) == [r EXCEPT !.pid = job[j].gen, !.status = IF @ = "starting" THEN "ready" ELSE @]
      <4>1. record' = record \/ record' = [record EXCEPT ![job[j].w] = next(record[job[j].w])]
        BY <2>5, <3>3 DEF StartCommit, Typed
      <4>2. next(record[job[j].w]) \in RecordType
        BY <1>6, <3>2, <3>3
      <4> HIDE DEF next
      <4> QED
        BY <4>1, <4>2, <3>3 DEF Typed
    <3> QED
      BY <2>5, <3>1, <3>4, <1>0, <1>1, <1>2 DEF StartCommit
  <2>6. CASE StartHeld(j)
    BY <2>6, <1>0, <1>1, <1>2, <1>4, <1>5, <1>6, HandleTypes DEF StartHeld
  <2>7. CASE Grant(j)
    BY <2>7, <1>0, <1>1, <1>2, <1>4, <1>5, <1>6, HandleTypes DEF Grant
  <2>8. CASE Interrupt(j)
    <3>1. CASE LaunchCurrent(j) /\ task = job[j].w
      <4>1. job[j].w \in Worker /\ Control(j, job[j].w, "contained") \in CallType
        BY <2>8, <1>2 DEF Interrupt
      <4>2. InterruptBy(j, job[j].w, Control(j, job[j].w, "contained"))
        BY <2>8, <3>1 DEF Interrupt
      <4> QED
        BY <4>1, <4>2, InterruptTyped
    <3> QED
      BY <2>8, <3>1, <1>0, <1>1 DEF Interrupt
  <2>9. CASE PauseBegin(j)
    <3>1. job[j].w \in Worker /\ Control(j, job[j].w, "contained") \in CallType \cup {Idle}
      BY <2>9, <1>2 DEF PauseBegin
    <3>2. job' \in [Job -> JobType]
      BY <2>9, <3>1, <1>0 DEF PauseBegin
    <3>3. \A h \in HandleType : Counted(Aborted(h)) \in HandleType
      BY HandleTypes
    <3>4. handle' \in [Worker -> HandleType]
      BY <2>9, <3>1, <3>3 DEF PauseBegin, Typed
    <3>5. \A r \in RecordType : [r EXCEPT !.status = IF @ = "starting" THEN "ready" ELSE @] \in RecordType
      BY DEF RecordType
    <3>6. record' \in [Worker -> RecordType]
      BY <2>9, <3>1, <3>5 DEF PauseBegin, Typed, RecordType
    <3> QED
      BY <3>2, <3>4, <3>6
  <2>10. CASE Contained(j)
    BY <2>10, <1>0, <1>1, <1>2, <1>4, <1>5, <1>6, HandleTypes DEF Contained
  <2>11. CASE StopBegin(j)
    <3>1. job[j].v \in Worker /\ Control(j, job[j].v, "exiting") \in CallType /\ After(j) \in CallType \cup {Idle}
      BY <2>11, <1>2 DEF StopBegin
    <3>2. job' \in [Job -> JobType]
      BY <2>11, <3>1, <1>0 DEF StopBegin, StopThrows
    <3>3. \A h \in HandleType : Counted(Ended(h)) \in HandleType
      BY HandleTypes
    <3>4. handle' \in [Worker -> HandleType]
      BY <2>11, <3>1, <3>3 DEF StopBegin, Typed
    <3>5. record' \in [Worker -> RecordType]
      BY <2>11, <3>1, <1>1, <1>5 DEF StopBegin
    <3> QED
      BY <3>2, <3>4, <3>5
  <2>12. CASE StopEnds(j)
    <3>1. job[j].v \in Worker /\ After(j) \in CallType \cup {Idle}
      BY <2>12, <1>2 DEF StopEnds
    <3>2. job' \in [Job -> JobType]
      BY <2>12, <3>1, <1>0 DEF StopEnds, StopThrows
    <3>3. CASE Concluded(j, job[j].v)
      <4>1. SetStatus(job[j].v, "stopped") /\ handle' = [handle EXCEPT ![job[j].v] = NoHandle]
        BY <3>3 DEF Concluded, SetStatus
      <4> QED
        BY <4>1, <3>1, <3>2, <1>1, <1>5, Constants DEF Typed
    <3>4. CASE ReleaseControl(j, job[j].v) /\ (UNCHANGED record \/ SetStatus(job[j].v, "unproven"))
      BY <3>4, <3>1, <3>2, <1>1, <1>4, <1>5
    <3> QED
      BY <2>12, <3>3, <3>4 DEF StopEnds
  <2>13. CASE ResetBegin(j)
    <3>1. [To(j, "stop") EXCEPT !.born = record[job[j].w].born] \in CallType
      BY <2>13, <1>2, <1>6, JobFields DEF ResetBegin
    <3> QED
      BY <2>13, <3>1, <1>0, <1>1 DEF ResetBegin
  <2>14. CASE Discard(j)
    <3>1. record' \in [Worker -> RecordType]
      BY <2>14, Constants DEF Discard, Typed
    <3> QED
      BY <2>14, <3>1, <1>0, <1>1 DEF Discard
  <2>15. CASE Accept(j)
    <3>1. [To(j, "reserve") EXCEPT !.assign = TRUE] \in CallType
      BY <2>15, <1>2, JobFields DEF Accept
    <3> QED
      BY <2>15, <3>1, <1>0, <1>1, <1>2, <1>5 DEF Accept
  <2>16. CASE RemoveArchived(j)
    <3>1. record' \in [Worker -> RecordType]
      BY <2>16, Constants DEF RemoveArchived, Typed
    <3> QED
      BY <2>16, <3>1, <1>0, <1>1, <1>2 DEF RemoveArchived
  <2>17. CASE RemoveUndone(j)
    <3>1. [NoRecord EXCEPT !.status = "stopped", !.gen = job[j].gen, !.born = job[j].born] \in RecordType
      BY <2>17, <1>2, Constants DEF RemoveUndone, CallType, RecordType, Gone
    <3>2. record' \in [Worker -> RecordType]
      BY <2>17, <3>1 DEF RemoveUndone, Typed
    <3> QED
      BY <2>17, <3>2, <1>0, <1>1 DEF RemoveUndone
  <2>18. CASE ReserveFails(j)
    BY <2>18, <1>0, <1>1, <1>2, <1>4, <1>5, <1>6, HandleTypes DEF ReserveFails
  <2>19. CASE ReserveCommit(j)
    <3>0. launched + 1 \in Nat
      BY DEF Typed
    <3>1. [To(j, "building") EXCEPT !.gen = launched + 1] \in CallType
      BY <2>19, <3>0, <1>2, JobFields DEF ReserveCommit
    <3>2. record' \in [Worker -> RecordType]
      BY <2>19, <1>2 DEF ReserveCommit, NewGeneration, Typed, RecordType
    <3> QED
      BY <2>19, <3>1, <3>2, <1>0, <1>1 DEF ReserveCommit
  <2>20. CASE ReserveBuild(j)
    <3>1. [gen |-> job[j].gen, phase |-> "cold", controls |-> 0] \in HandleType
      BY <2>20, <1>2 DEF ReserveBuild, CallType, HandleType, Phases
    <3>2. handle' \in [Worker -> HandleType]
      BY <2>20, <3>1 DEF ReserveBuild, Typed
    <3> QED
      BY <2>20, <3>2, <1>0, <1>1, <1>2 DEF ReserveBuild
  <2>21. CASE ReserveUndone(j)
    BY <2>21, <1>0, <1>1, <1>2, <1>4, <1>5, <1>6, HandleTypes DEF ReserveUndone, Undo
  <2>22. CASE Displace(j)
    <3>1. [To(j, "stop") EXCEPT !.live = TRUE] \in CallType
      BY <2>22, <1>2, JobFields DEF Displace
    <3> QED
      BY <2>22, <3>1, <1>0, <1>1, <1>2 DEF Displace
  <2>23. CASE Launch(j)
    BY <2>23, <1>0, <1>1, <1>2, <1>4, <1>5, <1>6, HandleTypes DEF Launch
  <2>24. CASE Started(j)
    BY <2>24, <1>0, <1>1, <1>2, <1>4, <1>5, <1>6, HandleTypes DEF Started
  <2>25. CASE StartFails(j)
    <3>1. handle' \in [Worker -> HandleType]
      BY <2>25, <1>2, HandleTypes DEF StartFails, Typed
    <3> QED
      BY <2>25, <3>1, <1>0, <1>1, <1>2 DEF StartFails
  <2>26. CASE Prove(j)
    BY <2>26, <1>0, <1>1, <1>2, <1>4, <1>5, <1>6, HandleTypes DEF Prove
  <2>27. CASE RemoveFenced(j)
    <3>1. \A stage \in Awaits : [To(j, stage) EXCEPT !.live = TRUE, !.gen = record[job[j].w].gen, !.born = record[job[j].w].born] \in CallType
      BY <2>27, <1>2, <1>6, JobFields DEF RemoveFenced
    <3> QED
      BY <2>27, <3>1, <1>0, <1>1, <1>2 DEF RemoveFenced
  <2>28. CASE RemoveSaved(j)
    BY <2>28, <1>0, <1>1, <1>2, <1>4, <1>5, <1>6, HandleTypes DEF RemoveSaved
  <2> QED
    BY <1>9, <2>1, <2>2, <2>3, <2>4, <2>5, <2>6, <2>7, <2>8, <2>9, <2>10, <2>11, <2>12, <2>13, <2>14, <2>15,
       <2>16, <2>17, <2>18, <2>19, <2>20, <2>21, <2>22, <2>23, <2>24, <2>25, <2>26, <2>27, <2>28
       DEF JobStep, Queued, Holding, Continues
<1> QED
  BY <1>3, <1>7, <1>8, <1>9

\* The types hold at first.
LEMMA TypedInit == ASSUME Init PROVE Typed
<1>1. record \in [Worker -> RecordType] /\ handle \in [Worker -> HandleType] /\ job \in [Job -> JobType]
  BY Constants DEF Init, JobType
<1> QED
  BY <1>1 DEF Init, Typed

\* Every step keeps the types.
LEMMA TypedStep == ASSUME Typed, [Next]_vars PROVE Typed'
<1> USE DEF UnchangedByRuntime, calls, work
<1>1. \A j \in Job : JobStep(j) => Typed'
  BY JobStepTyped
<1>2. \A j \in Slot, w \in Worker : Call(j, w) => Typed'
  BY CallTyped
<1>3. ASSUME NEW j \in Slot, NEW w \in Worker, ScanFault(j, w) PROVE Typed'
  <2>1. [New("scan", "contained", w) EXCEPT !.live = TRUE, !.handle = handle[w].gen, !.gen = record[w].gen] \in CallType
    <3>1. handle[w].gen \in Nat /\ record[w].gen \in Nat
      BY DEF Typed, HandleType, RecordType
    <3> QED
      BY <3>1, NewTyped, JobFields, Names
  <2>2. /\ job' \in [Job -> JobType] /\ record' \in [Worker -> RecordType]
        /\ handle' \in [Worker -> HandleType] /\ paused' \in BOOLEAN
    BY <1>3, <2>1, InterruptTyped, Constants DEF ScanFault
  <2> QED
    BY <1>3, <2>2 DEF ScanFault, Typed
<1>4. \A h \in HandleType, p \in Phases : [h EXCEPT !.phase = p] \in HandleType
  BY DEF HandleType
<1>5. \A w \in Worker, p \in Phases : [handle EXCEPT ![w].phase = p] \in [Worker -> HandleType]
  BY <1>4 DEF Typed
<1>6. {"up", "closed", "ready", "fault"} \subseteq Phases
  BY DEF Phases
<1>7. ASSUME NEW w \in Worker, Runtime(w) PROVE Typed'
  <2>1. handle[w].gen \in Nat
    BY DEF Typed, HandleType
  <2> QED
    BY <1>5, <1>6, <1>7, <2>1 DEF Runtime, Spawn, SpawnFails, Ready, StartupEnds, Fault, Held, Typed
<1>8. ASSUME NEW g \in 1..launched, Exit(g) PROVE Typed'
  <2>1. handle' \in [Worker -> HandleType]
    BY <1>4, <1>6, <1>8 DEF Exit, Typed
  <2> QED
    BY <1>8, <2>1 DEF Exit, Typed
<1>9. ASSUME NEW g \in 1..launched, RecordPid(g) PROVE Typed'
  <2>1. \A r \in RecordType : [r EXCEPT !.pid = g] \in RecordType
    BY DEF RecordType, Typed
  <2>2. record' \in [Worker -> RecordType]
    BY <1>9, <2>1 DEF RecordPid, Typed
  <2> QED
    BY <1>9, <2>2 DEF RecordPid, Typed
<1>10. CASE TaskEnds
  BY <1>10 DEF TaskEnds, Typed
<1>11. \A h \in HandleType : Revoked(h) \in HandleType
  BY HandleTypes
<1>12. CASE Close
  <2> DEFINE W == {w \in Worker : handle[w] # NoHandle}
  <2>1. W \in SUBSET Worker /\ job' = Supersede(W)
    BY <1>12 DEF Close
  <2> HIDE DEF W
  <2>2. job' \in [Job -> JobType]
    BY <2>1, SupersedeTyped
  <2> QED
    BY <1>11, <1>12, <2>2 DEF Close, Typed
<1>13. CASE CloseStops
  <2> DEFINE W == {w \in Worker : record[w].status # "absent"}
  <2>1. W \in SUBSET Worker /\ handle' = [w \in Worker |-> IF w \in W THEN Revoked(handle[w]) ELSE handle[w]]
        /\ job' = [k \in Job |-> IF k \in W THEN New("close", "stop", k) ELSE Supersede(W)[k]]
    BY <1>13 DEF CloseStops
  <2> HIDE DEF W
  <2>2. Supersede(W) \in [Job -> JobType] /\ \A w \in Worker : New("close", "stop", w) \in JobType
    BY <2>1, SupersedeTyped, NewTyped, Names DEF JobType
  <2>3. job' \in [Job -> JobType]
    BY <2>1, <2>2
  <2>4. handle' \in [Worker -> HandleType]
    BY <1>11, <2>1 DEF Typed
  <2> QED
    BY <1>13, <2>3, <2>4 DEF CloseStops, Typed
<1>14. CASE CloseEnds
  BY <1>14 DEF CloseEnds, Typed
<1>15. CASE Crash
  BY <1>15, Constants DEF Crash, Typed, JobType
<1>16. CASE NextSession
  <2>1. \A r \in RecordType : [r EXCEPT !.status = "stopped"] \in RecordType /\ [r EXCEPT !.status = "unproven"] \in RecordType
    BY DEF RecordType, Gone, Failed
  <2>2. record' \in [Worker -> RecordType]
    <3>1. PICK proven \in SUBSET {w \in Worker : Provable(w)} :
            record' = [w \in Worker |-> IF record[w].status \in Gone THEN record[w]
                         ELSE [record[w] EXCEPT !.status = IF w \in proven THEN "stopped" ELSE "unproven"]]
      BY <1>16 DEF NextSession
    <3> QED
      BY <2>1, <3>1 DEF Typed
  <2>3. (task # Nobody) \in BOOLEAN
    OBVIOUS
  <2> QED
    BY <1>16, <2>2, <2>3 DEF NextSession, Typed
<1>17. CASE UNCHANGED vars
  BY <1>17 DEF vars, Typed
<1> QED
  BY <1>1, <1>2, <1>3, <1>7, <1>8, <1>9, <1>10, <1>12, <1>13, <1>14, <1>15, <1>16, <1>17 DEF Next, Session

------------------------------------------------------------------------------
(* What most steps keep: GenInv follows from it.                           *)

Quiet    == {"none", "cold", "barred", "closed"}
Reserves == {"reserving", "building"}

KeptMain ==
  /\ main' = "down" <=> main = "down"
  /\ main' = "down" => job' = job /\ handle' = handle
  /\ main' = "closed" => main = "closed" \/ AllStopped
  /\ launched' = launched /\ serial' = serial /\ alive' \subseteq alive

\* no runtime comes, goes or loses sight of its process
Softer(h, i) ==
  i.gen = h.gen /\ (h = NoHandle => i = NoHandle) /\ (i.phase \in Quiet => h.phase \in Quiet)
KeptHandles ==
  \A w \in Worker :
    \/ Softer(handle[w], handle'[w])
    \/ handle'[w] = [handle[w] EXCEPT !.phase = "closed"] /\ handle[w].gen \notin alive' /\ handle[w] # NoHandle

\* no record is settled or unsettled, and one without a runtime keeps its status
KeptRecord(w) ==
  LET r == record[w]  s == record'[w]
  IN /\ s.gen = r.gen /\ s.pid \in {0, r.gen} /\ (s.status \in Gone <=> r.status \in Gone)
     /\ handle[w] = NoHandle => s.status = r.status
KeptRecords == \A w \in Worker : KeptRecord(w)

\* a call goes on as it was, superseded perhaps, or moves outside the queue
SameCall(x, y) ==
  y.at = x.at /\ y.kind = x.kind /\ y.w = x.w /\ y.v = x.v /\ y.gen = x.gen /\ y.handle = x.handle
KeptJob(k) ==
  \/ SameCall(job[k], job'[k])
  \/ job[k].at \notin Reserves /\ job'[k].at \notin Reserves /\ Knows(k)'
KeptJobs == \A k \in Job : KeptJob(k)

Inv == Typed /\ GenInv

\* A step that keeps those four keeps the invariant.
LEMMA Kept ==
  ASSUME Inv, Typed', KeptMain, KeptHandles, KeptRecords, KeptJobs
  PROVE  GenInv'
<1> USE DEF Inv, GenInv
<1>1. ASSUME NEW w \in Worker
      PROVE  /\ handle'[w].gen = handle[w].gen /\ (handle'[w] = NoHandle <=> handle[w] = NoHandle)
             /\ handle'[w].phase \in Quiet => handle[w].phase \in Quiet \/ handle[w].gen \notin alive'
  <2>1. NoHandle.gen = 0 /\ (handle[w].gen = 0 => handle[w] = NoHandle) /\ handle[w] \in HandleType
    BY DEF NoHandle, InvNumbers, Typed
  <2> QED
    BY <2>1 DEF KeptHandles, Softer, HandleType
<1>2. ASSUME NEW w \in Worker
      PROVE  /\ record'[w].gen = record[w].gen /\ record'[w].pid \in {0, record[w].gen}
             /\ record'[w].status \in Gone <=> record[w].status \in Gone
             /\ handle[w] = NoHandle => record'[w].status = record[w].status
  BY DEF KeptRecords, KeptRecord
<1>3. launched' = launched /\ serial' = serial /\ alive' \subseteq alive
  BY DEF KeptMain
<1>4. InvNumbers'
  <2>1. alive' \subseteq 1..launched'
    BY <1>3 DEF InvNumbers
  <2>2. ASSUME NEW w \in Worker
        PROVE  /\ record'[w].gen <= launched' /\ record'[w].pid \in {0, record'[w].gen}
               /\ record'[w].status \notin Gone => record'[w].gen # 0
               /\ handle'[w].gen <= launched' /\ (handle'[w].gen = 0 => handle'[w] = NoHandle)
    BY <1>1, <1>2, <1>3 DEF InvNumbers
  <2> QED
    BY <2>1, <2>2 DEF InvNumbers
<1>5. InvRecords'
  BY <1>1, <1>2 DEF InvRecords
<1>6. InvProcesses'
  BY <1>1, <1>3 DEF InvProcesses, Quiet
<1>7. InvSerial'
  <2>1. ASSUME NEW j \in Job
        PROVE  job'[j].at \in Reserves => job[j].at \in Reserves /\ SameCall(job[j], job'[j])
    BY DEF KeptJobs, KeptJob, SameCall
  <2>2. serial' # Nobody => serial' \in Job /\ job'[serial'].at \in Reserves
    BY <1>3 DEF InvSerial, KeptJobs, KeptJob, SameCall, Reserves
  <2>3. ASSUME NEW j \in Job, job'[j].at = "reserving" PROVE \A w \in Worker : record'[w].status \in Gone
    BY <2>1, <2>3, <1>2 DEF InvSerial, AllStopped, SameCall, Reserves
  <2>4. ASSUME NEW j \in Job, job'[j].at = "building"
        PROVE  /\ record'[job'[j].w].status = "starting" /\ record'[job'[j].w].gen = job'[j].gen
               /\ handle'[job'[j].w] = NoHandle /\ job'[j].gen \notin alive'
    <3>1. SameCall(job[j], job'[j]) /\ job[j].at = "building" /\ job[j].w \in Worker
      BY <2>1, <2>4, JobTypes DEF SameCall, Reserves
    <3>2. record[job[j].w].status = "starting" /\ record[job[j].w].gen = job[j].gen
          /\ handle[job[j].w] = NoHandle /\ job[j].gen \notin alive
      BY <3>1 DEF InvSerial
    <3> QED
      BY <3>1, <3>2, <1>1, <1>2, <1>3 DEF SameCall
  <2>5. \A j \in Job : job'[j].at \in Reserves => serial' = j
    BY <2>1, <1>3 DEF InvSerial, Reserves
  <2> QED
    BY <2>2, <2>3, <2>4, <2>5 DEF InvSerial, AllStopped, Reserves
<1>8. InvJobs'
  <2>1. ASSUME NEW j \in Job, SameCall(job[j], job'[j]) PROVE Knows(j)'
    <3>1. Knows(j)
      BY DEF InvJobs
    <3>2. CASE job[j].at = "idle"
      BY <2>1, <3>1, <3>2, <1>3 DEF Knows, SameCall, Starting, Settling
    <3>3. CASE job[j].at # "idle"
      <4>1. job[j].w \in Worker /\ job[j].v \in Worker
        BY <3>3, JobTypes
      <4> QED
        BY <2>1, <3>1, <4>1, <1>1, <1>2, <1>3 DEF Knows, SameCall
    <3> QED
      BY <3>2, <3>3
  <2> QED
    BY <2>1 DEF InvJobs, KeptJobs, KeptJob
<1>9. InvDown'
  BY <1>3 DEF KeptMain, InvDown
<1>10. ProcessesAreKnown'
  <2>1. NoProcessForgotten'
    BY <1>2, <1>3 DEF ProcessesAreKnown, NoProcessForgotten
  <2>2. CloseReleases'
    <3>1. AllStopped => alive = {}
      BY DEF AllStopped, ProcessesAreKnown, NoProcessForgotten
    <3> QED
      BY <3>1, <1>3 DEF KeptMain, ProcessesAreKnown, CloseReleases
  <2>3. RecordHasOwner'
    <3> SUFFICES ASSUME main' # "down", NEW w \in Worker, record'[w].status \in {"starting", "ready", "error"}
                 PROVE  \/ handle'[w].gen = record'[w].gen
                        \/ serial' # Nobody /\ job'[serial'].at = "building" /\ job'[serial'].w = w
      BY DEF RecordHasOwner
    <3>1. CASE handle[w] # NoHandle
      BY <3>1, <1>1, <1>2 DEF InvRecords
    <3>2. CASE handle[w] = NoHandle
      <4>1. record[w].status \in {"starting", "ready", "error"} /\ main # "down"
        BY <3>2, <1>2 DEF KeptMain
      <4>2. \/ handle[w].gen = record[w].gen
            \/ serial # Nobody /\ job[serial].at = "building" /\ job[serial].w = w
        BY <4>1 DEF ProcessesAreKnown, RecordHasOwner
      <4>3. serial # Nobody /\ job[serial].at = "building" => SameCall(job[serial], job'[serial])
        BY DEF InvSerial, KeptJobs, KeptJob, Reserves
      <4> QED
        BY <4>2, <4>3, <1>1, <1>2, <1>3 DEF SameCall
    <3> QED
      BY <3>1, <3>2
  <2> QED
    BY <2>1, <2>2, <2>3 DEF ProcessesAreKnown
<1> QED
  BY <1>4, <1>5, <1>6, <1>7, <1>8, <1>9, <1>10

\* What a handler does to a runtime keeps it and its process in sight.
LEMMA SofterOps ==
  ASSUME NEW h \in HandleType, h.gen = 0 <=> h = NoHandle
  PROVE  /\ Softer(h, h) /\ Softer(h, Revoked(h)) /\ Softer(h, Ended(h))
         /\ h # NoHandle => Softer(h, Counted(Ended(h))) /\ Softer(h, Counted(Aborted(h))) /\ Softer(h, Released(h))
  BY DEF HandleType, Phases, Softer, Quiet, NoHandle, Revoked, Ended, Counted, Aborted, Released

\* Unchanged handles are kept, and so are revoked ones.
LEMMA SameHandles ==
  ASSUME Inv
  PROVE  /\ \A w \in Worker : handle[w] \in HandleType /\ (handle[w].gen = 0 <=> handle[w] = NoHandle)
         /\ handle' = handle => KeptHandles
         /\ \A w \in Worker : handle' = [handle EXCEPT ![w] = Revoked(@)] => KeptHandles
<1>1. \A w \in Worker : handle[w] \in HandleType /\ (handle[w].gen = 0 <=> handle[w] = NoHandle)
  BY DEF Inv, Typed, GenInv, InvNumbers, NoHandle
<1>2. handle \in [Worker -> HandleType]
  BY DEF Inv, Typed
<1> QED
  BY <1>1, <1>2, SofterOps DEF KeptHandles

\* Unchanged records are kept, and so are those of a worker with a runtime marked failed or ready.
LEMMA SameRecords ==
  ASSUME Inv
  PROVE  /\ record' = record => KeptRecords
         /\ \A w \in Worker, status \in {"error", "unproven", "ready"} :
              SetStatus(w, status) /\ handle[w] # NoHandle => KeptRecords
<1>1. \A w \in Worker : record[w].pid \in {0, record[w].gen}
  BY DEF Inv, GenInv, InvNumbers
<1>2. record \in [Worker -> RecordType]
  BY DEF Inv, Typed
<1>3. ASSUME NEW w \in Worker, NEW status \in {"error", "unproven", "ready"}, SetStatus(w, status), handle[w] # NoHandle
      PROVE  KeptRecords
  <2>1. record[w].status \notin Gone /\ status \notin Gone
    BY <1>3 DEF Inv, GenInv, InvRecords, Gone
  <2> QED
    BY <1>1, <1>2, <1>3, <2>1 DEF KeptRecords, KeptRecord, SetStatus, RecordType
<1> QED
  BY <1>1, <1>3 DEF KeptRecords, KeptRecord

\* what only the job of the step does
LEMMA OthersGoOn ==
  ASSUME Typed, NEW j \in Job, NEW next
  PROVE  /\ Go(j, next) => job'[j] = next /\ \A k \in Job \ {j} : SameCall(job[k], job'[k])
         /\ \A w \in Worker : job' = [Supersede({w}) EXCEPT ![j] = next] =>
              job'[j] = next /\ \A k \in Job \ {j} : SameCall(job[k], job'[k])
<1>1. job \in [Job -> JobType]
  BY DEF Typed
<1>2. \A w \in Worker : Supersede({w}) \in [Job -> JobType]
  BY SupersedeTyped
<1>3. \A x \in JobType : SameCall(x, x) /\ SameCall(x, [x EXCEPT !.live = FALSE])
  BY DEF SameCall, JobType, CallType, Idle
<1>4. \A w \in Worker, k \in Job : Supersede({w})[k] \in {job[k], [job[k] EXCEPT !.live = FALSE]}
  BY DEF Supersede
<1>5. ASSUME NEW f \in [Job -> JobType], \A k \in Job : SameCall(job[k], f[k]), job' = [f EXCEPT ![j] = next]
      PROVE  job'[j] = next /\ \A k \in Job \ {j} : SameCall(job[k], job'[k])
  BY <1>5
<1>6. ASSUME NEW w \in Worker, NEW k \in Job PROVE SameCall(job[k], Supersede({w})[k])
  BY <1>1, <1>3, <1>4
<1> QED
  BY <1>1, <1>2, <1>3, <1>5, <1>6 DEF Go

\* a call that is nowhere special knows nothing
LEMMA Plain ==
  ASSUME NEW j \in Job, job'[j].gen <= launched', job'[j].at \in Starting => job'[j].gen # 0,
         job'[j].at \notin Settling \cup {"contained", "exiting"}
  PROVE  Knows(j)'
  BY DEF Knows, Settling

\* A call knows nothing yet, but for a recovery or a reconciliation that is to prove an exit.
LEMMA CallKeeps ==
  ASSUME Inv, Typed', NEW j \in Slot, NEW w \in Worker, Call(j, w)
  PROVE  GenInv'
<1> USE DEF Called, UnchangedByCall, work
<1>1. /\ main = "up" /\ main' = "up" /\ j \in Job /\ job[j] = Idle /\ launched' = launched /\ record' = record
      /\ alive' = alive /\ serial' = serial
  BY Constants DEF Call, Start, Switch, Stop, Restart, Reset, Dispatch, Resume, Recover, Pause, Reconcile, Remove
<1>2. KeptMain
  BY <1>1 DEF KeptMain
<1>3. KeptRecords
  BY <1>1, SameRecords
<1> DEFINE Plainly(x)  == /\ x.gen = 0
                          /\ x.at \in {"reserve", "choose", "stop", "reset", "pause", "remove"}
           Proving(x) == x.kind \in {"recover", "reconcile"} /\ x.gen = 0 /\ x.at = "prove"
<1>4. \/ \E x : Plainly(x) /\ ((Go(j, x) /\ handle' = handle) \/ Revoke(j, w, x))
      \/ \E x : Proving(x) /\ Go(j, x) /\ handle' = handle
  <2> USE DEF New, Idle
  <2>1. CASE Start(j, w)
    BY <2>1 DEF Start
  <2>2. CASE Switch(j, w)
    BY <2>2 DEF Switch
  <2>3. CASE Stop(j, w)
    BY <2>3 DEF Stop
  <2>4. CASE Restart(j, w)
    BY <2>4 DEF Restart
  <2>5. CASE Reset(j, w)
    BY <2>5 DEF Reset
  <2>6. CASE Dispatch(j, w)
    BY <2>6 DEF Dispatch
  <2>7. CASE Resume(j, w)
    BY <2>7 DEF Resume
  <2>8. CASE Recover(j, w)
    BY <2>8 DEF Recover
  <2>9. CASE Pause(j, w)
    BY <2>9 DEF Pause
  <2>10. CASE Reconcile(j, w)
    BY <2>10 DEF Reconcile
  <2>11. CASE Remove(j, w)
    BY <2>11 DEF Remove
  <2> QED
    BY <2>1, <2>2, <2>3, <2>4, <2>5, <2>6, <2>7, <2>8, <2>9, <2>10, <2>11 DEF Call
<1>5. Typed /\ launched \in Nat /\ job[j].at \notin Reserves
  BY <1>1, Constants DEF Inv, Typed, Reserves
<1>6. CASE \E x : Plainly(x) /\ ((Go(j, x) /\ handle' = handle) \/ Revoke(j, w, x))
  <2>1. PICK x : Plainly(x) /\ ((Go(j, x) /\ handle' = handle) \/ Revoke(j, w, x))
    BY <1>6
  <2>2. job'[j] = x /\ \A k \in Job \ {j} : SameCall(job[k], job'[k])
    BY <2>1, <1>1, <1>5, OthersGoOn DEF Revoke
  <2>3. Knows(j)' /\ x.at \notin Reserves
    BY <2>1, <2>2, <1>1, <1>5, Plain DEF Reserves, Starting, Settling
  <2>4. KeptJobs
    BY <2>2, <2>3, <1>5 DEF KeptJobs, KeptJob
  <2>5. KeptHandles
    BY <2>1, SameHandles DEF Revoke
  <2> QED
    BY <2>4, <2>5, <1>2, <1>3, Kept
<1>7. CASE \E x : Proving(x) /\ Go(j, x) /\ handle' = handle
  <2>1. PICK x : Proving(x) /\ Go(j, x) /\ handle' = handle
    BY <1>7
  <2>2. job'[j] = x /\ \A k \in Job \ {j} : SameCall(job[k], job'[k])
    BY <2>1, <1>1, <1>5, OthersGoOn
  <2>3. Knows(j)' /\ x.at \notin Reserves
    BY <2>1, <2>2, <1>1, <1>5 DEF Reserves, Starting, Settling, Knows
  <2>4. KeptJobs
    BY <2>2, <2>3, <1>5 DEF KeptJobs, KeptJob
  <2> QED
    BY <2>1, <2>4, <1>2, <1>3, SameHandles, Kept
<1> QED
  BY <1>4, <1>6, <1>7

------------------------------------------------------------------------------
(* The steps that do more.                                                 *)

\* a record is settled: its process is gone, and its runtime with it
LEMMA Settles ==
  ASSUME Inv, Typed', NEW j \in Job, NEW v \in Worker,
         main # "down", main' = main, launched' = launched, alive' = alive, serial' = Nobody, serial \in {Nobody, j},
         serial = j => job[j].w = v,
         \A w \in Worker \ {v} : record'[w] = record[w] /\ handle'[w] = handle[w],
         handle'[v] = NoHandle, record'[v].status \in Gone,
         record'[v].gen <= launched, record'[v].pid \in {0, record'[v].gen},
         record[v].status \notin Gone => record[v].gen \notin alive,
         job'[j].at \notin Reserves, Knows(j)',
         \A k \in Job \ {j} : SameCall(job[k], job'[k])
  PROVE  GenInv'
<1> USE DEF Inv, GenInv
<1>1. InvNumbers'
  <2>1. NoHandle.gen = 0 /\ launched \in Nat
    BY DEF NoHandle, Typed
  <2> QED
    BY <2>1 DEF InvNumbers
<1>2. InvRecords'
  BY DEF InvRecords
<1>3. InvProcesses'
  <2>1. NoHandle.gen = 0 /\ 0 \notin alive
    BY DEF NoHandle, InvNumbers, Typed
  <2> QED
    BY <2>1 DEF InvProcesses
<1>4. ASSUME NEW k \in Job PROVE job'[k].at \notin Reserves
  BY Constants DEF InvSerial, SameCall, Reserves
<1>5. InvSerial'
  <2>1. Nobody \notin Job
    BY Constants
  <2> QED
    BY <1>4, <2>1 DEF InvSerial, Reserves
<1>6. ASSUME serial = j, NEW w \in Worker \ {v} PROVE record[w].status \in Gone
  <2>1. j # Nobody /\ job[j].at \in Reserves
    BY <1>6, Constants DEF InvSerial, Reserves
  <2>2. CASE job[j].at = "reserving"
    BY <2>2 DEF InvSerial, AllStopped
  <2>3. CASE job[j].at = "building"
    <3>1. record[v].status = "starting"
      BY <2>3, <1>6 DEF InvSerial
    <3> QED
      BY <3>1 DEF InvRecords, Gone
  <2> QED
    BY <2>1, <2>2, <2>3 DEF Reserves
<1>7. InvJobs'
  <2>1. ASSUME NEW k \in Job \ {j} PROVE Knows(k)'
    <3>1. Knows(k) /\ SameCall(job[k], job'[k])
      BY DEF InvJobs
    <3>2. CASE job[k].at = "idle"
      BY <3>1, <3>2 DEF Knows, SameCall, Starting, Settling
    <3>3. CASE job[k].at # "idle"
      <4>1. job[k].w \in Worker /\ job[k].v \in Worker
        BY <3>3, JobTypes
      <4>2. job[k].at = "accept" /\ handle'[job[k].w] = NoHandle /\ record'[job[k].w].status \notin Gone =>
              record'[job[k].w].gen \notin alive'
        BY <3>1, <4>1, <1>6 DEF Knows
      <4>3. job[k].at = "exiting" /\ job[k].handle = 0 /\ record'[job[k].v].gen = job[k].gen =>
              record'[job[k].v].status \in Gone
        BY <3>1, <4>1 DEF Knows
      <4> QED
        BY <3>1, <4>2, <4>3 DEF Knows, SameCall
    <3> QED
      BY <3>2, <3>3
  <2> QED
    BY <2>1 DEF InvJobs
<1>8. InvDown'
  BY DEF InvDown
<1>9. ProcessesAreKnown'
  <2>1. NoProcessForgotten'
    BY DEF ProcessesAreKnown, NoProcessForgotten
  <2>2. CloseReleases'
    BY DEF ProcessesAreKnown, CloseReleases
  <2>3. RecordHasOwner'
    <3> SUFFICES ASSUME NEW w \in Worker, record'[w].status \in {"starting", "ready", "error"}
                 PROVE  handle'[w].gen = record'[w].gen
      BY DEF RecordHasOwner
    <3>1. w # v /\ record[w].status \in {"starting", "ready", "error"}
      BY DEF Gone
    <3>2. serial = Nobody \/ job[serial].w # w
      BY <3>1
    <3> QED
      BY <3>1, <3>2 DEF ProcessesAreKnown, RecordHasOwner
  <2> QED
    BY <2>1, <2>2, <2>3 DEF ProcessesAreKnown
<1> QED
  BY <1>1, <1>2, <1>3, <1>5, <1>7, <1>8, <1>9

\* A call that moves to a stage where it knows nothing of its worker keeps the invariant.
LEMMA PlainMove ==
  ASSUME Inv, Typed', NEW j \in Job, NEW x,
         Go(j, x) \/ \E w \in Worker : job' = [Supersede({w}) EXCEPT ![j] = x],
         job[j].at \notin Reserves, x.at \notin Reserves \cup Settling \cup {"contained", "exiting"},
         x.kind \in {job[j].kind, "none"}, x.gen <= launched, x.at \in Starting => x.gen # 0,
         KeptMain, KeptHandles, KeptRecords
  PROVE  GenInv'
<1>1. job'[j] = x /\ \A k \in Job \ {j} : SameCall(job[k], job'[k])
  BY OthersGoOn DEF Inv
<1>2. Knows(j) /\ launched' = launched
  BY DEF Inv, GenInv, InvJobs, KeptMain
<1>3. Knows(j)'
  BY <1>1, <1>2, Plain DEF Knows
<1>4. KeptJobs
  BY <1>1, <1>3 DEF KeptJobs, KeptJob
<1> QED
  BY <1>4, Kept

\* An interruption holds a runtime that exists.
LEMMA InterruptKeeps ==
  ASSUME Inv, Typed', NEW j \in Job, NEW w \in Worker, NEW next, InterruptBy(j, w, next), KeptMain,
         handle[w] # NoHandle, job[j].at \notin Reserves, next.at = "contained", next.handle # 0, next.gen <= launched
  PROVE  GenInv'
<1>1. job'[j] = next /\ \A k \in Job \ {j} : SameCall(job[k], job'[k])
  BY OthersGoOn DEF Inv, InterruptBy
<1>2. Knows(j)'
  BY <1>1 DEF Knows, Starting, Settling, KeptMain
<1>3. KeptJobs
  BY <1>1, <1>2 DEF KeptJobs, KeptJob, Reserves
<1>4. KeptHandles
  <2>1. handle \in [Worker -> HandleType] /\ handle' = [handle EXCEPT ![w] = Counted(Ended(@))]
    BY DEF Inv, Typed, InterruptBy
  <2> QED
    BY <2>1, SameHandles, SofterOps DEF KeptHandles
<1>5. KeptRecords
  <2>1. record \in [Worker -> RecordType] /\ record' = [record EXCEPT ![w].status = IF @ = "stopped" THEN @ ELSE "error"]
    BY DEF Inv, Typed, InterruptBy
  <2>2. record[w].status \notin Gone /\ \A o \in Worker : record[o].pid \in {0, record[o].gen}
    BY DEF Inv, GenInv, InvRecords, InvNumbers
  <2> QED
    BY <2>1, <2>2 DEF KeptRecords, KeptRecord, RecordType, Gone
<1> QED
  BY <1>3, <1>4, <1>5, Kept

\* a call that takes up a control of a worker
LEMMA ControlKnows ==
  ASSUME Inv, NEW j \in Job, NEW next, Go(j, next), job[j].at \notin Reserves, KeptMain, Knows(j), next.gen <= launched,
         next.kind = job[j].kind,
         \/ next.at = "contained" /\ next.handle # 0
         \/ next.at = "exiting" /\ (next.handle = 0 => record'[next.v].status \in Gone)
  PROVE  Knows(j)' /\ KeptJobs
<1>1. job'[j] = next /\ \A k \in Job \ {j} : SameCall(job[k], job'[k])
  BY OthersGoOn DEF Inv
<1>2. Knows(j)'
  BY <1>1 DEF Knows, KeptMain, Starting, Settling
<1> QED
  BY <1>1, <1>2 DEF KeptJobs, KeptJob, Reserves

\* the steps of a call outside reserveStart that settle no record
Unsettling(j) ==
  \/ Choose(j) \/ ReserveRetained(j) \/ ReserveRefused(j) \/ StartCommit(j) \/ StartHeld(j) \/ Grant(j)
  \/ Interrupt(j) \/ PauseBegin(j) \/ Contained(j) \/ StopBegin(j) \/ ResetBegin(j) \/ Continues(j)

\* Those steps keep the invariant.
LEMMA UnsettlingKeeps ==
  ASSUME Inv, Typed', NEW j \in Job, Unsettling(j)
  PROVE  GenInv'
<1> USE DEF UnchangedByCall, work, At, Goto, Drop
<1>1. /\ job[j] \in CallType /\ job[j].w \in Worker /\ job[j].v \in Worker /\ main # "down" /\ job[j].at # "idle"
      /\ job[j].gen \in Nat /\ launched \in Nat /\ job[j].gen <= launched /\ Knows(j) /\ job[j].at \notin Reserves
  <2>1. job[j].at # "idle" /\ job[j].at \notin Reserves
    <3>1. ASSUME Choose(j) \/ ReserveRetained(j) \/ ReserveRefused(j) \/ StartCommit(j) \/ StartHeld(j) \/ Grant(j)
          PROVE  job[j].at \in {"choose", "reserve", "commit", "failed", "grant"}
      BY <3>1 DEF Choose, ReserveRetained, ReserveRefused, StartCommit, StartHeld, Grant
    <3>2. ASSUME Interrupt(j) \/ PauseBegin(j) \/ Contained(j) \/ StopBegin(j) \/ ResetBegin(j)
          PROVE  job[j].at \in {"interrupt", "pause", "contained", "stop", "reset"}
      BY <3>2 DEF Interrupt, PauseBegin, Contained, StopBegin, ResetBegin
    <3>3. ASSUME Continues(j)
          PROVE  job[j].at \in {"displace", "launch", "await", "prove", "remove", "save"}
      BY <3>3 DEF Continues, Displace, Launch, Started, StartFails, Prove, RemoveFenced, RemoveSaved
    <3> QED
      BY <3>1, <3>2, <3>3 DEF Unsettling, Reserves
  <2>2. main # "down"
    BY <2>1, Constants DEF Inv, GenInv, InvDown
  <2>3. Knows(j)
    BY DEF Inv, GenInv, InvJobs
  <2>4. job[j].gen <= launched
    BY <2>3 DEF Knows
  <2> QED
    BY <2>1, <2>2, <2>3, <2>4, JobTypes DEF Inv, Typed, CallType
<1>2. KeptMain
  BY <1>1 DEF Unsettling, Continues, Choose, ReserveRetained, ReserveRefused, StartCommit, StartHeld, Grant, Interrupt,
     PauseBegin, Contained, StopBegin, ResetBegin, Displace, Launch, Started, StartFails, Prove, RemoveFenced, RemoveSaved,
     StopThrows, KeptMain
<1>3. /\ Idle.at = "idle" /\ Idle.kind = "none" /\ Idle.gen = 0
      /\ \A stage : /\ To(j, stage).at = stage /\ To(j, stage).kind = job[j].kind /\ To(j, stage).gen = job[j].gen
                    /\ To(j, stage).handle = job[j].handle /\ To(j, stage).w = job[j].w
  BY <1>1 DEF Idle, To, CallType
<1>4. /\ handle' = handle => KeptHandles
      /\ record' = record => KeptRecords
      /\ \A w \in Worker : handle' = [handle EXCEPT ![w] = Revoked(@)] => KeptHandles
      /\ \A w \in Worker, status \in {"error", "unproven", "ready"} :
           SetStatus(w, status) /\ handle[w] # NoHandle => KeptRecords
  BY SameHandles, SameRecords
<1>5. \A w \in Worker : /\ handle[w] \in HandleType /\ handle[w].gen \in Nat /\ handle[w].gen <= launched
                        /\ (handle[w].gen = 0 <=> handle[w] = NoHandle)
                        /\ record[w] \in RecordType /\ record[w].gen \in Nat /\ record[w].gen <= launched
                        /\ record[w].pid \in {0, record[w].gen}
  BY SameHandles DEF Inv, GenInv, InvNumbers, Typed, HandleType, RecordType
<1>6. LaunchCurrent(j) => handle[job[j].w] # NoHandle /\ record[job[j].w].gen = job[j].gen
  BY <1>1, <1>5 DEF LaunchCurrent, RuntimeCurrent
<1> DEFINE Moves(x) == /\ x.at \notin Reserves \cup Settling \cup {"contained", "exiting"} /\ x.kind \in {job[j].kind, "none"}
                       /\ x.gen <= launched /\ (x.at \in Starting => x.gen # 0)
<1>7. /\ \A x : Moves(x) /\ Go(j, x) /\ KeptHandles /\ KeptRecords => GenInv'
      /\ \A w \in Worker : \A x : Moves(x) /\ Revoke(j, w, x) /\ KeptRecords => GenInv'
  BY <1>1, <1>2, <1>4, PlainMove DEF Revoke
<1>8. /\ Moves(Idle)
      /\ \A stage : stage \notin Reserves \cup Settling \cup Starting \cup {"contained", "exiting"} => Moves(To(j, stage))
      /\ \A stage \in Starting \ {"building"} : job[j].gen # 0 => Moves(To(j, stage))
      /\ job[j].at \in Starting => job[j].gen # 0
  BY <1>1, <1>3 DEF Starting, Settling, Reserves, Knows
<1> HIDE DEF Moves
<1>9. CASE Choose(j)
  <2>1. \A o \in Worker : Moves([To(j, "displace") EXCEPT !.v = o])
    BY <1>1, <1>3 DEF Moves, To, CallType, Starting, Settling, Reserves
  <2>2. Moves(To(j, "reserve"))
    BY <1>8 DEF Starting, Settling, Reserves
  <2> QED
    BY <1>4, <1>7, <1>8, <1>9, <2>1, <2>2 DEF Choose, Others
<1>10. CASE Displace(j)
  <2>1. Moves([To(j, "stop") EXCEPT !.live = TRUE])
    BY <1>1, <1>3 DEF Moves, To, CallType, Starting, Settling, Reserves
  <2>2. Revoke(j, job[j].v, [To(j, "stop") EXCEPT !.live = TRUE]) /\ KeptRecords
    BY <1>4, <1>10 DEF Displace
  <2> QED
    BY <1>1, <1>7, <2>1, <2>2
<1>11. CASE ReserveRetained(j)
  <2>1. handle[job[j].w].gen # 0 /\ handle[job[j].w].gen \in Nat /\ handle[job[j].w].gen <= launched
    BY <1>1, <1>5, <1>11 DEF ReserveRetained, Reusable
  <2>2. Moves([To(j, "launch") EXCEPT !.gen = handle[job[j].w].gen, !.live = TRUE])
    BY <1>1, <2>1 DEF Moves, To, CallType, Starting, Settling, Reserves
  <2> QED
    BY <1>4, <1>7, <1>11, <2>2 DEF ReserveRetained
<1>12. CASE ReserveRefused(j)
  BY <1>4, <1>7, <1>8, <1>12 DEF ReserveRefused
<1>13. CASE Launch(j)
  <2>1. Moves(To(j, "await"))
    BY <1>8, <1>13 DEF Launch, Starting
  <2> QED
    BY <1>4, <1>7, <1>8, <1>13, <2>1 DEF Launch
<1>14. CASE Started(j)
  <2>1. Moves(To(j, "commit"))
    BY <1>8, <1>14 DEF Started, Starting
  <2> QED
    BY <1>4, <1>7, <1>8, <1>14, <2>1 DEF Started
<1>15. CASE StartFails(j)
  <2>1. Moves(To(j, "failed"))
    BY <1>8, <1>15 DEF StartFails, Starting
  <2>2. KeptHandles
    <3>1. handle \in [Worker -> HandleType]
      BY DEF Inv, Typed
    <3> QED
      BY <1>1, <1>5, <1>15, <3>1, SofterOps DEF StartFails, KeptHandles
  <2> QED
    BY <1>4, <1>7, <1>8, <1>15, <2>1, <2>2 DEF StartFails
<1>16. CASE StartCommit(j)
  <2>1. Moves(To(j, "grant")) /\ Moves([To(j, "reserve") EXCEPT !.assign = TRUE])
    <3>1. Moves(To(j, "grant"))
      BY <1>8, <1>16 DEF StartCommit, Starting
    <3>2. Moves([To(j, "reserve") EXCEPT !.assign = TRUE])
      BY <1>1, <1>3 DEF Moves, To, CallType, Starting, Settling, Reserves
    <3> QED
      BY <3>1, <3>2
  <2>2. CASE LaunchCurrent(j)
    <3>1. KeptRecords
      <4>1. record \in [Worker -> RecordType] /\ record[job[j].w].gen = job[j].gen
        BY <1>6, <2>2 DEF Inv, Typed
      <4> QED
        BY <1>1, <1>5, <1>6, <1>16, <2>2, <4>1 DEF StartCommit, KeptRecords, KeptRecord, RecordType, Gone
    <3> QED
      BY <1>4, <1>7, <1>8, <1>16, <2>1, <2>2, <3>1 DEF StartCommit
  <2>3. CASE ~LaunchCurrent(j)
    BY <1>4, <1>7, <1>8, <1>16, <2>3 DEF StartCommit
  <2> QED
    BY <2>2, <2>3
<1>17. CASE StartHeld(j)
  <2>1. Moves(To(j, "interrupt")) /\ job[j].gen # 0
    BY <1>8, <1>17 DEF StartHeld, Starting
  <2>2. KeptRecords
    BY <1>1, <1>4, <1>5, <1>17, <2>1 DEF StartHeld
  <2> QED
    BY <1>4, <1>7, <1>8, <1>17, <2>1, <2>2 DEF StartHeld
<1>18. CASE Grant(j)
  <2>1. Moves(To(j, "interrupt"))
    BY <1>8, <1>18 DEF Grant, Starting
  <2> QED
    BY <1>1, <1>4, <1>6, <1>7, <1>8, <1>18, <2>1 DEF Grant
<1>19. CASE Interrupt(j)
  <2> DEFINE next == Control(j, job[j].w, "contained")
  <2>1. CASE LaunchCurrent(j) /\ task = job[j].w
    <3>1. next.at = "contained" /\ next.handle = handle[job[j].w].gen /\ next.gen = record[job[j].w].gen
          /\ next.kind = job[j].kind
      BY <1>1 DEF Control, CallType
    <3>2. InterruptBy(j, job[j].w, next)
      BY <1>19, <2>1 DEF Interrupt
    <3> HIDE DEF next
    <3> QED
      BY <1>1, <1>2, <1>5, <1>6, <2>1, <3>1, <3>2, InterruptKeeps
  <2>2. CASE ~(LaunchCurrent(j) /\ task = job[j].w)
    BY <1>4, <1>7, <1>8, <1>19, <2>2 DEF Interrupt
  <2> QED
    BY <2>1, <2>2
<1>20. CASE PauseBegin(j)
  <2> DEFINE w    == job[j].w
             next == Control(j, w, "contained")
  <2>1. next.at = "contained" /\ next.handle = handle[w].gen /\ next.gen = record[w].gen /\ next.kind = job[j].kind
    BY <1>1 DEF Control, CallType
  <2>2. handle \in [Worker -> HandleType] /\ record \in [Worker -> RecordType] /\ w \in Worker
    BY <1>1 DEF Inv, Typed
  <2>3. ASSUME ~(~job[j].live \/ task # w) PROVE KeptHandles /\ KeptRecords
    <3>1. KeptHandles
      BY <1>4, <1>5, <1>20, <2>2, <2>3, SofterOps DEF PauseBegin, KeptHandles
    <3>2. handle[w] = NoHandle => record[w].status # "starting"
      <4>1. serial = Nobody
        BY <1>20 DEF PauseBegin, Free
      <4>2. record[w].status = "starting" => handle[w].gen = record[w].gen
        BY <1>1, <2>2, <4>1 DEF Inv, GenInv, ProcessesAreKnown, RecordHasOwner
      <4>3. record[w].status = "starting" => record[w].gen # 0
        BY <2>2 DEF Inv, GenInv, InvNumbers, Gone
      <4> QED
        BY <1>5, <2>2, <4>2, <4>3
    <3>3. record' = [record EXCEPT ![w].status = IF @ = "starting" THEN "ready" ELSE @]
      BY <1>20, <2>3 DEF PauseBegin
    <3>4. KeptRecords
      BY <1>5, <2>2, <3>2, <3>3 DEF KeptRecords, KeptRecord, RecordType, Gone
    <3> QED
      BY <3>1, <3>4
  <2>4. CASE ~job[j].live \/ task # w
    BY <1>4, <1>7, <1>8, <1>20, <2>4 DEF PauseBegin
  <2>5. CASE ~(~job[j].live \/ task # w) /\ handle[w] = NoHandle
    BY <1>7, <1>8, <1>20, <2>3, <2>5 DEF PauseBegin
  <2>6. CASE ~(~job[j].live \/ task # w) /\ handle[w] # NoHandle
    <3>1. Go(j, next)
      BY <1>20, <2>6 DEF PauseBegin
    <3>2. next.handle # 0 /\ next.gen <= launched /\ next.gen \in Nat
      BY <1>5, <2>1, <2>2, <2>6
    <3> HIDE DEF next, w
    <3>3. Knows(j)' /\ KeptJobs
      BY <1>1, <1>2, <2>1, <3>1, <3>2, ControlKnows
    <3> QED
      BY <1>2, <2>3, <2>6, <3>3, Kept
  <2> QED
    BY <2>4, <2>5, <2>6
<1>21. CASE Contained(j)
  <2>1. job[j].handle # 0
    BY <1>1, <1>21 DEF Contained, Knows
  <2>2. KeptHandles
    <3>1. handle \in [Worker -> HandleType]
      BY DEF Inv, Typed
    <3> QED
      BY <1>1, <1>4, <1>5, <1>21, <2>1, <3>1, SofterOps DEF Contained, ReleaseControl, Owns, KeptHandles
  <2>3. KeptRecords
    BY <1>1, <1>4, <1>5, <1>21, <2>1 DEF Contained, ControlCurrent, Subject, StopStages
  <2> QED
    BY <1>7, <1>8, <1>21, <2>2, <2>3 DEF Contained
<1>22. CASE StopBegin(j)
  <2> DEFINE v    == job[j].v
             next == Control(j, v, "exiting")
  <2>1. next.at = "exiting" /\ next.handle = handle[v].gen /\ next.gen = record[v].gen /\ next.kind = job[j].kind
        /\ next.v = v
    BY <1>1 DEF Control, CallType
  <2>2. handle \in [Worker -> HandleType] /\ record \in [Worker -> RecordType] /\ v \in Worker
    BY <1>1 DEF Inv, Typed
  <2>3. Moves(After(j))
    BY <1>1, <1>8 DEF After, CallType, Moves, Starting, Settling, Reserves
  <2>4. CASE record[v].status = "absent" \/ ~job[j].live
    BY <1>4, <1>7, <1>22, <2>3, <2>4 DEF StopBegin
  <2>5. CASE ~(record[v].status = "absent" \/ ~job[j].live) /\ handle[v] = NoHandle /\ record[v].status # "stopped"
    BY <1>4, <1>7, <1>8, <1>22, <2>5 DEF StopBegin, StopThrows
  <2>6. CASE /\ ~(record[v].status = "absent" \/ ~job[j].live)
             /\ ~(handle[v] = NoHandle /\ record[v].status # "stopped")
    <3>1. Go(j, next)
      BY <1>22, <2>6 DEF StopBegin
    <3>2. KeptHandles /\ KeptRecords
      <4>1. CASE handle[v] = NoHandle
        BY <1>4, <1>22, <2>6, <4>1 DEF StopBegin
      <4>2. CASE handle[v] # NoHandle
        <5>1. SetStatus(v, "error") /\ handle' = [handle EXCEPT ![v] = Counted(Ended(@))]
          BY <1>22, <2>6, <4>2 DEF StopBegin
        <5>2. KeptHandles
          BY <1>5, <2>2, <4>2, <5>1, SofterOps DEF KeptHandles
        <5> QED
          BY <1>4, <2>2, <4>2, <5>1, <5>2
      <4> QED
        BY <4>1, <4>2
    <3>3. next.gen <= launched /\ next.gen \in Nat
      BY <1>5, <2>1, <2>2
    <3>4. next.handle = 0 => record'[v].status \in Gone
      <4>1. next.handle = 0 => handle[v] = NoHandle /\ record[v].status = "stopped"
        BY <1>5, <2>1, <2>2, <2>6
      <4>2. handle[v] = NoHandle => record'[v].status = record[v].status
        BY <2>2, <3>2 DEF KeptRecords, KeptRecord
      <4> QED
        BY <4>1, <4>2 DEF Gone
    <3> HIDE DEF next
    <3>5. Knows(j)' /\ KeptJobs
      BY <1>1, <1>2, <2>1, <3>1, <3>3, <3>4, ControlKnows
    <3> QED
      BY <1>2, <3>2, <3>5, Kept
  <2> QED
    BY <2>4, <2>5, <2>6
<1>23. CASE ResetBegin(j)
  <2>1. Moves([To(j, "stop") EXCEPT !.born = record[job[j].w].born])
    BY <1>1, <1>3 DEF Moves, To, CallType, Starting, Settling, Reserves
  <2> QED
    BY <1>4, <1>7, <1>8, <1>23, <2>1 DEF ResetBegin
<1>24. CASE Prove(j)
  <2>1. CASE Drop(j)
    BY <1>4, <1>7, <1>8, <1>24, <2>1 DEF Prove
  <2>2. CASE Goto(j, "accept") /\ (Provable(job[j].w) \/ Vouched(j))
    <3>1. record[job[j].w].gen \notin alive
      BY <1>1, <1>5, <2>2 DEF Provable, Vouched
    <3>2. job'[j] = To(j, "accept") /\ \A k \in Job \ {j} : SameCall(job[k], job'[k])
      BY <2>2, OthersGoOn DEF Inv
    <3>3. record' = record /\ handle' = handle /\ alive' = alive /\ launched' = launched
      BY <1>24 DEF Prove
    <3>4. job[j].at = "prove"
      BY <1>24 DEF Prove
    <3>5. Knows(j)'
      BY <1>1, <1>3, <3>1, <3>2, <3>3, <3>4 DEF Knows, Starting, Settling
    <3>6. KeptJobs
      BY <1>1, <1>3, <3>2, <3>5 DEF KeptJobs, KeptJob, Reserves
    <3> QED
      BY <1>2, <1>4, <3>3, <3>6, Kept
  <2> QED
    BY <1>24, <2>1, <2>2 DEF Prove
<1>25. CASE RemoveFenced(j)
  <2>1. \A stage \in {"save", "archive"} :
          Moves([To(j, stage) EXCEPT !.live = TRUE, !.gen = record[job[j].w].gen, !.born = record[job[j].w].born])
    BY <1>1, <1>5 DEF Moves, To, CallType, Starting, Settling, Reserves
  <2> QED
    BY <1>4, <1>7, <1>8, <1>25, <2>1 DEF RemoveFenced
<1>26. CASE RemoveSaved(j)
  <2>1. Moves(To(j, "restore"))
    BY <1>8 DEF Starting, Settling, Reserves
  <2> QED
    BY <1>4, <1>7, <1>8, <1>26, <2>1 DEF RemoveSaved
<1> QED
  BY <1>9, <1>10, <1>11, <1>12, <1>13, <1>14, <1>15, <1>16, <1>17, <1>18, <1>19, <1>20, <1>21, <1>22, <1>23, <1>24,
     <1>25, <1>26 DEF Unsettling, Continues

\* the steps of a call that may settle a record
Settle(j) ==
  \/ StopEnds(j) \/ Discard(j) \/ RemoveArchived(j) \/ RemoveUndone(j) \/ Accept(j)
  \/ ReserveFails(j) \/ ReserveUndone(j)

\* Those steps settle a record only when its process is gone: the stop has seen the exit, the recovery
\* or the reconciliation has its proof of what it still finds there, the reservation has built nothing.
LEMMA SettleKeeps ==
  ASSUME Inv, Typed', NEW j \in Job, Settle(j), ~overwritten'
  PROVE  GenInv'
<1> USE DEF work, At, Goto, Drop
<1>1. /\ job[j] \in CallType /\ job[j].w \in Worker /\ job[j].v \in Worker /\ main # "down" /\ job[j].gen \in Nat
      /\ launched \in Nat /\ job[j].gen <= launched /\ Knows(j)
  <2>1. job[j].at # "idle"
    BY DEF Settle, StopEnds, Discard, RemoveArchived, RemoveUndone, Accept, ReserveFails, ReserveUndone
  <2>2. main # "down"
    BY <2>1, Constants DEF Inv, GenInv, InvDown
  <2>3. Knows(j)
    BY DEF Inv, GenInv, InvJobs
  <2>4. job[j].gen <= launched
    BY <2>3 DEF Knows
  <2> QED
    BY <2>1, <2>2, <2>3, <2>4, JobTypes DEF Inv, Typed, CallType
<1>2. KeptMain \/ ReserveFails(j) \/ ReserveUndone(j)
  BY <1>1 DEF Settle, StopEnds, Discard, RemoveArchived, RemoveUndone, Accept, StopThrows, KeptMain
<1>3. /\ Idle.at = "idle" /\ Idle.kind = "none" /\ Idle.gen = 0
      /\ \A stage : /\ To(j, stage).at = stage /\ To(j, stage).kind = job[j].kind /\ To(j, stage).gen = job[j].gen
                    /\ To(j, stage).handle = job[j].handle /\ To(j, stage).w = job[j].w
  BY <1>1 DEF Idle, To, CallType
<1>4. /\ handle' = handle => KeptHandles
      /\ record' = record => KeptRecords
      /\ \A w \in Worker, status \in {"error", "unproven", "ready"} :
           SetStatus(w, status) /\ handle[w] # NoHandle => KeptRecords
  BY SameHandles, SameRecords
<1>5. \A w \in Worker : /\ handle[w] \in HandleType /\ handle[w].gen \in Nat /\ handle[w].gen <= launched
                        /\ (handle[w].gen = 0 <=> handle[w] = NoHandle)
                        /\ record[w] \in RecordType /\ record[w].gen \in Nat /\ record[w].gen <= launched
                        /\ record[w].pid \in {0, record[w].gen}
  BY SameHandles DEF Inv, GenInv, InvNumbers, Typed, HandleType, RecordType
<1>6. /\ handle \in [Worker -> HandleType] /\ record \in [Worker -> RecordType] /\ serial \in Job \cup {Nobody}
      /\ j # Nobody
  BY Constants DEF Inv, Typed
<1> DEFINE Moves(x) == /\ x.at \notin Reserves \cup Settling \cup Starting \cup {"contained", "exiting"}
                       /\ x.kind \in {job[j].kind, "none"} /\ x.gen <= launched
\* where the call goes, and what the other calls were about
<1>7. ASSUME NEW x, Go(j, x), Moves(x), launched' = launched
      PROVE  /\ job'[j] = x /\ Knows(j)' /\ x.at \notin Reserves
             /\ \A k \in Job \ {j} : SameCall(job[k], job'[k])
  <2>1. job'[j] = x /\ \A k \in Job \ {j} : SameCall(job[k], job'[k])
    BY <1>7, OthersGoOn DEF Inv
  <2> QED
    BY <1>1, <1>7, <2>1, Plain DEF Knows
<1>8. /\ Moves(Idle)
      /\ \A stage : stage \notin Reserves \cup Settling \cup Starting \cup {"contained", "exiting"} => Moves(To(j, stage))
  BY <1>1, <1>3 DEF Starting, Settling, Reserves
<1>9. Moves(After(j))
  BY <1>1, <1>3 DEF After, CallType, Starting, Settling, Reserves
<1>10. Moves([To(j, "reserve") EXCEPT !.assign = TRUE])
  BY <1>1, <1>3 DEF To, CallType, Starting, Settling, Reserves
<1> HIDE DEF Moves
<1>11. ASSUME NEW x, Go(j, x), Moves(x), KeptMain, KeptHandles, KeptRecords, job[j].at \notin Reserves
       PROVE  GenInv'
  <2>1. launched' = launched
    BY <1>11 DEF KeptMain
  <2>2. KeptJobs
    BY <1>7, <1>11, <2>1 DEF KeptJobs, KeptJob
  <2> QED
    BY <1>11, <2>2, Kept
<1>12. ASSUME NEW x, Go(j, x), Moves(x), NEW v \in Worker, serial = Nobody, main' = main, launched' = launched, alive' = alive,
              serial' = serial, \A w \in Worker \ {v} : record'[w] = record[w] /\ handle'[w] = handle[w],
              handle'[v] = NoHandle, record'[v].status \in Gone, record'[v].gen <= launched,
              record'[v].pid \in {0, record'[v].gen}, record[v].status \notin Gone => record[v].gen \notin alive
       PROVE  GenInv'
  <2>1. job'[j].at \notin Reserves /\ Knows(j)' /\ \A k \in Job \ {j} : SameCall(job[k], job'[k])
    BY <1>7, <1>12
  <2> QED
    BY <1>1, <1>6, <1>12, <2>1, Settles
<1>14. CASE StopEnds(j)
  <2> DEFINE v == job[j].v
  <2>1. job[j].at = "exiting" /\ job[j].at \notin Reserves /\ KeptMain /\ v \in Worker
    BY <1>1, <1>2, <1>14 DEF StopEnds, Reserves, ReserveFails, ReserveUndone
  <2>2. ASSUME ReleaseControl(j, v) PROVE KeptHandles
    BY <1>4, <1>5, <1>6, <2>1, <2>2, SofterOps DEF ReleaseControl, Owns, KeptHandles
  <2>3. CASE MayConclude(j) /\ Go(j, After(j)) /\ UNCHANGED main /\ ControlCurrent(j) /\ Concluded(j, v)
    <3>1. handle[v].gen = job[j].handle /\ record[v].gen = job[j].gen
      BY <2>1, <2>3 DEF ControlCurrent, Subject, StopStages
    <3>2. handle[v] = NoHandle => record[v].status \in Gone
      BY <1>1, <1>5, <2>1, <3>1 DEF Knows
    <3>3. handle[v] # NoHandle => handle[v].gen \notin alive /\ record[v].gen = handle[v].gen
      <4>1. handle[v] # NoHandle => handle[v].phase = "closed" /\ record[v].gen = handle[v].gen
        BY <1>5, <2>1, <2>3, <3>1 DEF MayConclude, Over, Owns, Inv, GenInv, InvRecords
      <4> QED
        BY <2>1, <4>1 DEF Inv, GenInv, InvProcesses
    <3>4. /\ handle'[v] = NoHandle /\ record'[v] = [record[v] EXCEPT !.status = "stopped"]
          /\ \A w \in Worker \ {v} : record'[w] = record[w] /\ handle'[w] = handle[w]
      BY <1>6, <2>1, <2>3 DEF Concluded
    <3>5. record'[v].status \in Gone /\ record'[v].gen <= launched /\ record'[v].pid \in {0, record'[v].gen}
      BY <1>5, <2>1, <3>4 DEF RecordType, Gone
    <3>7. serial = Nobody /\ UNCHANGED <<main, launched, alive, serial>>
      BY <1>14, <2>3 DEF StopEnds, Free
    <3> HIDE DEF v
    <3> QED
      BY <1>9, <1>12, <2>1, <2>3, <3>2, <3>3, <3>4, <3>5, <3>7
  <2>4. CASE Go(j, After(j)) /\ UNCHANGED record /\ ReleaseControl(j, v)
    BY <1>4, <1>9, <1>11, <2>1, <2>2, <2>4
  <2>5. CASE /\ job[j].handle # 0 /\ StopThrows(j) /\ ReleaseControl(j, v)
             /\ IF ControlCurrent(j) THEN SetStatus(v, "unproven") ELSE UNCHANGED record
    <3>1. KeptRecords
      <4>1. ControlCurrent(j) => handle[v] # NoHandle
        BY <1>5, <2>1, <2>5 DEF ControlCurrent, Subject, StopStages
      <4> QED
        BY <1>4, <2>1, <2>5, <4>1
    <3> QED
      BY <1>8, <1>11, <2>1, <2>2, <2>5, <3>1 DEF StopThrows
  <2> QED
    BY <1>14, <2>3, <2>4, <2>5 DEF StopEnds
\* a stopped record is forgotten
<1>15. ASSUME NEW w \in Worker, NEW x, Go(j, x), Moves(x), serial = Nobody, job[j].at \notin Reserves,
              record[w].status = "stopped", handle[w] = NoHandle, record' = [record EXCEPT ![w] = NoRecord],
              UNCHANGED <<main, launched, handle, serial, alive>>
       PROVE  GenInv'
  <2>1. /\ record'[w] = NoRecord /\ handle'[w] = NoHandle
        /\ \A v \in Worker \ {w} : record'[v] = record[v] /\ handle'[v] = handle[v]
    BY <1>6, <1>15
  <2>2. NoRecord.gen = 0 /\ NoRecord.pid = 0 /\ NoRecord.status \in Gone /\ record[w].status \in Gone
    BY <1>15 DEF NoRecord, Gone
  <2> QED
    BY <1>1, <1>12, <1>15, <2>1, <2>2
<1>16. CASE Discard(j)
  <2>1. job[j].at \notin Reserves
    BY <1>16 DEF Discard, Reserves
  <2>2. CASE record' = record
    BY <1>2, <1>4, <1>8, <1>11, <1>16, <2>1, <2>2 DEF Discard, ReserveFails, ReserveUndone, Reserves
  <2>3. CASE record' # record
    BY <1>1, <1>8, <1>15, <1>16, <2>1, <2>3 DEF Discard, Free
  <2> QED
    BY <2>2, <2>3
<1>17. CASE RemoveArchived(j)
  <2>1. job[j].at \notin Reserves /\ Moves(To(j, "save")) /\ KeptMain
    BY <1>2, <1>8, <1>17 DEF RemoveArchived, Reserves, Settling, Starting, ReserveFails, ReserveUndone
  <2>2. CASE record' = record
    BY <1>4, <1>8, <1>11, <1>17, <2>1, <2>2 DEF RemoveArchived
  <2>3. CASE record' # record
    BY <1>1, <1>15, <1>17, <2>1, <2>3 DEF RemoveArchived, Free
  <2> QED
    BY <2>2, <2>3
<1>18. CASE RemoveUndone(j)
  <2> DEFINE w == job[j].w
             r == [NoRecord EXCEPT !.status = "stopped", !.gen = job[j].gen, !.born = job[j].born]
  <2>1. job[j].at \notin Reserves /\ KeptMain
    BY <1>2, <1>18 DEF RemoveUndone, Reserves, ReserveFails, ReserveUndone
  <2>2. CASE record' = record
    BY <1>4, <1>8, <1>11, <1>18, <2>1, <2>2 DEF RemoveUndone
  <2>3. CASE record' # record
    <3>1. record[w] = NoRecord /\ record' = [record EXCEPT ![w] = r] /\ Go(j, Idle) /\ serial = Nobody
          /\ UNCHANGED <<main, launched, handle, serial, alive>>
      BY <1>18, <2>3 DEF RemoveUndone, Free
    <3>2. r.status \in Gone /\ r.gen = job[j].gen /\ r.pid = 0 /\ record[w].status \in Gone
      BY <3>1 DEF NoRecord, Gone
    <3>3. handle[w] = NoHandle
      BY <1>1, <3>2 DEF Inv, GenInv, InvRecords
    <3>4. /\ record'[w] = r /\ handle'[w] = NoHandle
          /\ \A v \in Worker \ {w} : record'[v] = record[v] /\ handle'[v] = handle[v]
      BY <1>1, <1>6, <3>1, <3>3
    <3> HIDE DEF r, w
    <3>5. w \in Worker
      BY <1>1 DEF w
    <3> QED
      BY <1>1, <1>8, <1>12, <3>1, <3>2, <3>4, <3>5
  <2> QED
    BY <2>2, <2>3
<1>19. CASE Accept(j)
  <2> DEFINE w == job[j].w
  <2>1. job[j].at = "accept" /\ job[j].at \notin Reserves /\ KeptMain /\ serial = Nobody /\ w \in Worker
        /\ UNCHANGED <<main, launched, handle, serial, alive>>
    BY <1>1, <1>2, <1>19 DEF Accept, Free, Reserves, ReserveFails, ReserveUndone
  <2>2. ASSUME NEW x, Go(j, x), Moves(x), record' = record PROVE GenInv'
    BY <1>4, <1>11, <2>1, <2>2
  <2>3. ASSUME NEW x, Go(j, x), Moves(x), SetStatus(w, "stopped"), handle[w] = NoHandle,
               job[j].kind \in {"recover", "reconcile"}
        PROVE  GenInv'
    <3>1. record[w].status \notin Gone => record[w].gen \notin alive
      BY <1>1, <2>1, <2>3 DEF Knows
    <3>2. /\ record'[w] = [record[w] EXCEPT !.status = "stopped"] /\ handle'[w] = NoHandle
          /\ \A v \in Worker \ {w} : record'[v] = record[v] /\ handle'[v] = handle[v]
      BY <1>6, <2>1, <2>3 DEF SetStatus
    <3>3. record'[w].status \in Gone /\ record'[w].gen <= launched /\ record'[w].pid \in {0, record'[w].gen}
      BY <1>5, <2>1, <3>2 DEF RecordType, Gone
    <3> HIDE DEF w
    <3> QED
      BY <1>12, <2>1, <2>3, <3>1, <3>2, <3>3
  <2>4. CASE job[j].kind = "reconcile"
    <3>1. Go(j, Idle) /\ (record' = record \/ (ReconcileFence(j) /\ SetStatus(w, "stopped")))
      BY <1>19, <2>4 DEF Accept
    <3> QED
      BY <1>8, <2>2, <2>3, <2>4, <3>1 DEF ReconcileFence
  <2>5. CASE job[j].kind # "reconcile"
    <3>1. job[j].kind = "recover"
      BY <1>1, <2>1, <2>5 DEF Knows, Settling
    <3>2. Go(j, [To(j, "reserve") EXCEPT !.assign = TRUE])
          /\ (record' = record \/ (SetStatus(w, "stopped") /\ handle[w] = NoHandle))
      BY <1>19, <2>5, <3>1 DEF Accept, Overwrites
    <3> QED
      BY <1>10, <2>2, <2>3, <3>1, <3>2
  <2> QED
    BY <2>4, <2>5
\* the reservation ends without a runtime
<1>20. ASSUME NEW w \in Worker, w = job[j].w, Drop(j), serial' = Nobody, job[j].at \in Reserves,
              SetStatus(w, "stopped") \/ (record' = record /\ AllStopped), UNCHANGED <<main, launched, handle, alive>>
       PROVE  GenInv'
  <2>1. serial = j /\ handle[w] = NoHandle /\ (record[w].status \notin Gone => record[w].gen \notin alive)
        /\ (job[j].at = "building" => record[w].status = "starting")
        /\ (job[j].at = "reserving" => record[w].status \in Gone)
    <3>1. CASE job[j].at = "reserving"
      BY <1>20, <3>1 DEF Inv, GenInv, InvSerial, InvRecords, AllStopped
    <3>2. CASE job[j].at = "building"
      BY <1>20, <3>2 DEF Inv, GenInv, InvSerial
    <3> QED
      BY <1>20, <3>1, <3>2 DEF Reserves
  <2>2. /\ record'[w].status \in Gone /\ record'[w].gen = record[w].gen /\ record'[w].pid = record[w].pid
        /\ \A v \in Worker \ {w} : record'[v] = record[v] /\ handle'[v] = handle[v]
        /\ handle'[w] = NoHandle
    <3>1. CASE SetStatus(w, "stopped")
      <4>1. record'[w] = [record[w] EXCEPT !.status = "stopped"] /\ \A v \in Worker \ {w} : record'[v] = record[v]
        BY <1>6, <3>1 DEF SetStatus
      <4>2. record[w] \in RecordType
        BY <1>5
      <4> QED
        BY <1>20, <2>1, <4>1, <4>2 DEF RecordType, Gone
    <3>2. CASE record' = record /\ AllStopped
      BY <1>20, <2>1, <3>2 DEF AllStopped
    <3> QED
      BY <1>20, <3>1, <3>2
  <2>4. job'[j].at \notin Reserves /\ Knows(j)' /\ \A k \in Job \ {j} : SameCall(job[k], job'[k])
    BY <1>7, <1>8, <1>20
  <2> QED
    BY <1>1, <1>5, <1>20, <2>1, <2>2, <2>4, Settles
<1>21. CASE ReserveFails(j)
  <2>1. AllStopped
    BY <1>21 DEF ReserveFails, Inv, GenInv, InvSerial
  <2> QED
    BY <1>1, <1>20, <1>21, <2>1 DEF ReserveFails, Leave, Reserves
<1>22. CASE ReserveUndone(j)
  BY <1>1, <1>20, <1>22 DEF ReserveUndone, Undo, Leave, Reserves
<1> QED
  BY <1>14, <1>16, <1>17, <1>18, <1>19, <1>21, <1>22 DEF Settle

\* while every record is settled there is no process and no runtime
LEMMA NothingRuns ==
  ASSUME Inv, AllStopped
  PROVE  alive = {} /\ \A w \in Worker : handle[w] = NoHandle
  BY DEF Inv, GenInv, AllStopped, ProcessesAreKnown, NoProcessForgotten, InvRecords

\* reserveStart takes the queue, writes the record and builds the runtime
LEMMA ReserveKeeps ==
  ASSUME Inv, Typed', NEW j \in Job, ReserveFresh(j) \/ ReserveCommit(j) \/ ReserveBuild(j)
  PROVE  GenInv'
<1> USE DEF work, At, Goto, Drop
<1>1. /\ job[j] \in CallType /\ job[j].w \in Worker /\ main = "up" /\ main' = "up" /\ job[j].gen \in Nat /\ launched \in Nat
      /\ Knows(j) /\ alive' = alive /\ Nobody \notin Job
  <2>1. job[j].at # "idle" /\ main = "up" /\ main' = "up" /\ alive' = alive
    BY DEF ReserveFresh, ReserveCommit, ReserveBuild, MayReserve
  <2> QED
    BY <2>1, JobTypes, Constants DEF Inv, Typed, GenInv, InvJobs, CallType
<1>2. ASSUME NEW x, Go(j, x)
      PROVE  job'[j] = x /\ \A k \in Job \ {j} : SameCall(job[k], job'[k])
  BY <1>2, OthersGoOn DEF Inv
<1>3. /\ Idle.at = "idle" /\ Idle.kind = "none" /\ Idle.gen = 0
      /\ \A stage : /\ To(j, stage).at = stage /\ To(j, stage).kind = job[j].kind /\ To(j, stage).gen = job[j].gen
                    /\ To(j, stage).handle = job[j].handle /\ To(j, stage).w = job[j].w
  BY <1>1 DEF Idle, To, CallType
<1>4. \A w \in Worker : handle[w].gen \in Nat /\ record[w].gen \in Nat /\ record[w] \in RecordType
  BY DEF Inv, Typed, HandleType, RecordType
<1>5. /\ handle \in [Worker -> HandleType] /\ record \in [Worker -> RecordType] /\ job \in [Job -> JobType]
  BY DEF Inv, Typed
<1>6. InvDown' /\ CloseReleases'
  BY <1>1 DEF InvDown, CloseReleases
<1>7. \A k \in Job : Knows(k) /\ (job[k].at # "idle" => job[k].w \in Worker /\ job[k].v \in Worker)
  BY JobTypes DEF Inv, GenInv, InvJobs
<1>8. CASE ReserveFresh(j)
  <2> DEFINE x == [To(j, "reserving") EXCEPT !.live = TRUE]
  <2>1. /\ x.at = "reserving" /\ x.kind = job[j].kind /\ x.gen = job[j].gen /\ x.w = job[j].w
        /\ job'[j] = x /\ \A k \in Job \ {j} : SameCall(job[k], job'[k])
    BY <1>1, <1>2, <1>8 DEF ReserveFresh, To, CallType
  <2>2. serial = Nobody /\ serial' = j /\ AllStopped /\ UNCHANGED <<record, launched, handle>>
    BY <1>8 DEF ReserveFresh, Free, Launchable
  <2> HIDE DEF x
  <2>3. alive = {} /\ \A w \in Worker : handle[w] = NoHandle
    BY <2>2, NothingRuns
  <2>4. InvNumbers' /\ InvRecords' /\ InvProcesses'
    BY <1>1, <2>2 DEF Inv, GenInv, InvNumbers, InvRecords, InvProcesses
  <2>5. InvSerial'
    <3>1. \A k \in Job \ {j} : job'[k].at \notin Reserves
      BY <1>1, <2>1, <2>2 DEF Inv, GenInv, InvSerial, SameCall, Reserves
    <3> QED
      BY <2>1, <2>2, <3>1 DEF InvSerial, AllStopped, Reserves
  <2>6. InvJobs'
    <3>1. Knows(j)'
      BY <1>1, <2>1, <2>2, Plain DEF Knows, Starting, Settling
    <3>2. ASSUME NEW k \in Job \ {j} PROVE Knows(k)'
      <4>1. Knows(k) /\ SameCall(job[k], job'[k])
        BY <1>7, <2>1
      <4> QED
        BY <1>1, <2>2, <4>1 DEF Knows, SameCall
    <3> QED
      BY <3>1, <3>2 DEF InvJobs
  <2>7. NoProcessForgotten' /\ RecordHasOwner'
    BY <1>1, <2>2, <2>3 DEF NoProcessForgotten, RecordHasOwner, AllStopped, Gone
  <2> QED
    BY <1>6, <2>4, <2>5, <2>6, <2>7 DEF GenInv, ProcessesAreKnown
<1>9. CASE ReserveCommit(j)
  <2> DEFINE w == job[j].w
             n == launched + 1
             x == [To(j, "building") EXCEPT !.gen = n]
  <2>1. /\ x.at = "building" /\ x.kind = job[j].kind /\ x.gen = n /\ x.w = w
        /\ job'[j] = x /\ \A k \in Job \ {j} : SameCall(job[k], job'[k])
    BY <1>1, <1>2, <1>9 DEF ReserveCommit, To, CallType
  <2>2. /\ serial = j /\ serial' = j /\ AllStopped /\ launched' = n /\ handle' = handle /\ job[j].at = "reserving"
        /\ w \in Worker
    BY <1>1, <1>9 DEF ReserveCommit, Inv, GenInv, InvSerial
  <2>3. /\ record'[w].status = "starting" /\ record'[w].gen = n /\ record'[w].pid = 0
        /\ \A v \in Worker \ {w} : record'[v] = record[v]
    BY <1>5, <1>9, <2>2 DEF ReserveCommit, NewGeneration
  <2>4. alive = {} /\ \A v \in Worker : handle[v] = NoHandle
    BY <2>2, NothingRuns
  <2>5. n \in Nat /\ n # 0 /\ NoHandle.gen = 0 /\ \A v \in Worker : record[v].gen <= launched /\ record[v].gen \in Nat
    BY <1>1, <1>4 DEF NoHandle, Inv, GenInv, InvNumbers
  <2> HIDE DEF x, w, n
  <2>6. n > launched
    BY <1>1 DEF n
  <2>7. InvNumbers'
    <3>1. alive' \subseteq 1..launched'
      BY <1>1, <2>4
    <3>2. ASSUME NEW v \in Worker
          PROVE  /\ record'[v].gen <= launched' /\ record'[v].pid \in {0, record'[v].gen}
                 /\ record'[v].status \notin Gone => record'[v].gen # 0
                 /\ handle'[v].gen <= launched' /\ (handle'[v].gen = 0 => handle'[v] = NoHandle)
      <4>1. CASE v = w
        BY <2>2, <2>3, <2>4, <2>5, <4>1
      <4>2. CASE v # w
        <5>1. record'[v] = record[v] /\ record[v].status \in Gone /\ record[v].pid \in {0, record[v].gen}
          BY <2>2, <2>3, <4>2 DEF AllStopped, Inv, GenInv, InvNumbers
        <5>2. record[v].gen <= n
          BY <1>1, <2>5, <2>6
        <5> QED
          BY <2>2, <2>4, <2>5, <5>1, <5>2
      <4> QED
        BY <4>1, <4>2
    <3> QED
      BY <3>1, <3>2 DEF InvNumbers
  <2>8. InvRecords'
    BY <2>2, <2>3, <2>4 DEF InvRecords, AllStopped
  <2>9. InvProcesses'
    BY <1>1, <2>4 DEF InvProcesses
  <2>10. InvSerial'
    <3>1. \A k \in Job \ {j} : job'[k].at \notin Reserves
      BY <1>1, <2>1, <2>2 DEF Inv, GenInv, InvSerial, SameCall, Reserves
    <3>2. handle'[w] = NoHandle /\ n \notin alive'
      BY <1>1, <2>2, <2>4
    <3> QED
      BY <2>1, <2>2, <2>3, <3>1, <3>2 DEF InvSerial, Reserves
  <2>11. InvJobs'
    <3>1. Knows(j)'
      BY <1>1, <2>1, <2>2, <2>5, Plain DEF Knows, Starting, Settling
    <3>2. ASSUME NEW k \in Job \ {j} PROVE Knows(k)'
      <4>1. Knows(k) /\ SameCall(job[k], job'[k])
        BY <1>7, <2>1
      <4>2. job[k].gen <= launched' /\ (job[k].gen <= launched => job[k].gen # n)
        <5>1. job[k].gen \in Nat /\ job[k].gen <= launched
          BY <1>5, <4>1 DEF Knows, JobType, CallType, Idle
        <5> QED
          BY <1>1, <2>2, <2>5, <2>6, <5>1
      <4>3. serial' # Nobody
        BY <1>1, <2>2
      <4>4. job[k].at = "exiting" /\ job[k].handle = 0 /\ record'[job[k].v].gen = job[k].gen =>
              record'[job[k].v].status \in Gone
        BY <1>7, <2>2, <2>3, <4>1, <4>2 DEF AllStopped, Knows
      <4> QED
        BY <4>1, <4>2, <4>3, <4>4 DEF Knows, SameCall
    <3> QED
      BY <3>1, <3>2 DEF InvJobs
  <2>12. NoProcessForgotten'
    BY <1>1, <2>4 DEF NoProcessForgotten
  <2>13. RecordHasOwner'
    BY <1>1, <2>1, <2>2, <2>3 DEF RecordHasOwner, AllStopped, Gone
  <2> QED
    BY <1>6, <2>7, <2>8, <2>9, <2>10, <2>11, <2>12, <2>13 DEF GenInv, ProcessesAreKnown
<1>10. CASE ReserveBuild(j)
  <2> DEFINE w == job[j].w
             h == [gen |-> job[j].gen, phase |-> "cold", controls |-> 0]
  <2>1. /\ serial = j /\ serial' = Nobody /\ UNCHANGED <<record, launched>> /\ job[j].at = "building" /\ w \in Worker
        /\ record[w].status = "starting" /\ record[w].gen = job[j].gen /\ handle[w] = NoHandle /\ job[j].gen \notin alive
    BY <1>1, <1>10 DEF ReserveBuild, Inv, GenInv, InvSerial
  <2>2. handle'[w] = h /\ \A v \in Worker \ {w} : handle'[v] = handle[v]
    BY <1>5, <1>10, <2>1 DEF ReserveBuild
  <2>3. h.gen = job[j].gen /\ h.phase = "cold" /\ job[j].gen # 0 /\ NoHandle.gen = 0 /\ h # NoHandle
    BY <1>1, <2>1 DEF Knows, Starting, NoHandle
  <2>4. /\ \/ job'[j].at = "launch" /\ job'[j].gen = job[j].gen
           \/ job'[j].at = "idle" /\ job'[j].gen = 0
        /\ job'[j].kind \in {job[j].kind, "none"}
        /\ \A k \in Job \ {j} : SameCall(job[k], job'[k])
    BY <1>2, <1>3, <1>10 DEF ReserveBuild
  <2> HIDE DEF h, w
  \* every other record is settled
  <2>5. \A v \in Worker \ {w} : record[v].status \in Gone /\ handle[v] = NoHandle
    <3>1. \A v \in Worker \ {w} : record[v].status \in Gone
      BY <2>1 DEF Inv, GenInv, InvRecords, Gone
    <3> QED
      BY <3>1 DEF Inv, GenInv, InvRecords
  <2>6. InvNumbers'
    <3>1. h.gen <= launched
      BY <1>1, <2>3 DEF Knows
    <3> QED
      BY <1>1, <2>1, <2>2, <2>3, <3>1 DEF Inv, GenInv, InvNumbers
  <2>7. InvRecords'
    <3>1. record[w].status \notin Gone
      BY <2>1 DEF Gone
    <3> QED
      BY <2>1, <2>2, <2>3, <2>5, <3>1 DEF InvRecords
  <2>8. InvProcesses'
    BY <1>1, <2>1, <2>2, <2>3 DEF Inv, GenInv, InvProcesses
  <2>9. InvSerial'
    <3>1. \A k \in Job : job'[k].at \notin Reserves
      BY <1>1, <2>1, <2>4 DEF Inv, GenInv, InvSerial, SameCall, Reserves
    <3> QED
      BY <2>1, <3>1 DEF InvSerial, Reserves
  <2>10. InvJobs'
    <3>1. Knows(j)'
      BY <1>1, <2>1, <2>3, <2>4, Plain DEF Knows, Starting, Settling
    <3>2. ASSUME NEW k \in Job \ {j} PROVE Knows(k)'
      <4>1. Knows(k) /\ SameCall(job[k], job'[k])
        BY <1>7, <2>4
      <4>2. job[k].at = "accept" /\ handle'[job[k].w] = NoHandle => record[job[k].w].status \in Gone
        BY <1>7, <2>2, <2>3, <2>5
      <4> QED
        BY <1>1, <2>1, <4>1, <4>2 DEF Knows, SameCall
    <3> QED
      BY <3>1, <3>2 DEF InvJobs
  <2>11. NoProcessForgotten'
    BY <1>1, <2>1 DEF Inv, GenInv, ProcessesAreKnown, NoProcessForgotten
  <2>12. RecordHasOwner'
    BY <2>1, <2>2, <2>3, <2>5 DEF RecordHasOwner, Gone
  <2> QED
    BY <1>6, <2>6, <2>7, <2>8, <2>9, <2>10, <2>11, <2>12 DEF GenInv, ProcessesAreKnown
<1> QED
  BY <1>8, <1>9, <1>10

\* The process that is spawned is that of the one record that is not settled.
LEMMA SpawnKeeps ==
  ASSUME Inv, Typed', NEW w \in Worker, Spawn(w)
  PROVE  GenInv'
<1> USE DEF UnchangedByRuntime, calls, work
<1>1. /\ main = "up" /\ handle[w].phase = "cold" /\ handle[w].gen = record[w].gen /\ handle[w].gen # 0 /\ handle[w] # NoHandle
      /\ UNCHANGED <<main, record, launched, job, serial>> /\ alive' = alive \cup {handle[w].gen}
      /\ handle[w] \in HandleType
  BY DEF Spawn, RuntimeCurrent, NoHandle, Inv, Typed
<1>2. handle'[w] = [handle[w] EXCEPT !.phase = "up"] /\ \A v \in Worker \ {w} : handle'[v] = handle[v]
  BY DEF Spawn, Inv, Typed
<1>3. handle'[w].gen = handle[w].gen /\ handle'[w].phase = "up" /\ handle'[w] # NoHandle
  BY <1>1, <1>2 DEF HandleType, NoHandle
\* the record of w is the only one that is not settled
<1>4. record[w].status \notin Gone /\ \A v \in Worker \ {w} : record[v].status \in Gone /\ handle[v] = NoHandle
  <2>1. record[w].status \notin Gone
    BY <1>1 DEF Inv, GenInv, InvRecords
  <2> QED
    BY <2>1 DEF Inv, GenInv, InvRecords
<1>5. InvNumbers'
  <2>1. handle[w].gen \in 1..launched
    BY <1>1 DEF Inv, GenInv, InvNumbers, Typed, HandleType
  <2> QED
    BY <1>1, <1>2, <1>3, <2>1 DEF Inv, GenInv, InvNumbers
<1>6. InvRecords'
  BY <1>1, <1>2, <1>3, <1>4 DEF InvRecords
<1>7. InvProcesses'
  <2>1. NoHandle.gen = 0 /\ 0 \notin alive
    BY DEF NoHandle, Inv, GenInv, InvNumbers, Typed
  <2> QED
    BY <1>1, <1>2, <1>3, <1>4, <2>1 DEF InvProcesses
<1>8. InvSerial'
  <2>1. ASSUME NEW j \in Job, job[j].at = "building" PROVE FALSE
    <3>1. job[j].w \in Worker /\ record[job[j].w].status = "starting" /\ handle[job[j].w] = NoHandle
      BY <2>1, JobTypes DEF Inv, GenInv, InvSerial
    <3> QED
      BY <1>1, <1>4, <3>1 DEF Gone
  <2> QED
    BY <1>1, <2>1 DEF Inv, GenInv, InvSerial, AllStopped
<1>9. InvJobs'
  <2>1. ASSUME NEW j \in Job PROVE Knows(j)'
    <3>1. Knows(j)
      BY DEF Inv, GenInv, InvJobs
    <3>2. job[j].at \in Settling => job[j].w \in Worker
      BY JobTypes DEF Inv, Settling
    <3>3. job[j].at = "accept" /\ handle'[job[j].w] = NoHandle => record[job[j].w].status \in Gone
      BY <1>3, <1>4, <3>2 DEF Settling
    <3> QED
      BY <1>1, <3>1, <3>3 DEF Knows
  <2> QED
    BY <2>1 DEF InvJobs
<1>10. InvDown'
  BY <1>1 DEF InvDown
<1>11. ProcessesAreKnown'
  BY <1>1, <1>2, <1>3, <1>4 DEF Inv, GenInv, ProcessesAreKnown, NoProcessForgotten, CloseReleases, RecordHasOwner, Gone
<1> QED
  BY <1>5, <1>6, <1>7, <1>8, <1>9, <1>10, <1>11 DEF GenInv

\* What a runtime does by itself keeps the invariant.
LEMMA RuntimeKeeps ==
  ASSUME Inv, Typed', NEW w \in Worker, Runtime(w)
  PROVE  GenInv'
<1> USE DEF UnchangedByRuntime, calls, work
<1>1. CASE Spawn(w)
  BY <1>1, SpawnKeeps
<1>2. ASSUME NEW phase \in {"closed", "ready", "fault"}, handle' = [handle EXCEPT ![w].phase = phase],
             handle[w].phase \in {"cold", "up", "failing", "ready"}, handle[w].phase = "cold" \/ phase # "closed",
             UNCHANGED <<main, record, launched, job, serial, alive>>
      PROVE  GenInv'
  <2>1. handle \in [Worker -> HandleType] /\ handle[w] # NoHandle
    BY <1>2 DEF Inv, Typed, NoHandle
  <2>2. main # "down"
    BY <2>1 DEF Inv, GenInv, InvDown
  <2>3. KeptMain /\ KeptRecords
    BY <1>2, <2>2, SameRecords DEF KeptMain
  <2>4. KeptHandles
    BY <1>2, <2>1, SameHandles, SofterOps DEF KeptHandles, Softer, HandleType, Quiet
  <2>5. KeptJobs
    BY <1>2 DEF KeptJobs, KeptJob, SameCall
  <2> QED
    BY <2>3, <2>4, <2>5, Kept
<1> QED
  BY <1>1, <1>2 DEF Runtime, SpawnFails, Ready, StartupEnds, Fault, Held

\* The exit of a process and the transaction that records its ID keep the invariant.
LEMMA ProcessKeeps ==
  ASSUME Inv, Typed', NEW g \in 1..launched, Exit(g) \/ RecordPid(g)
  PROVE  GenInv'
<1> USE DEF UnchangedByRuntime, calls, work
<1>1. handle \in [Worker -> HandleType] /\ record \in [Worker -> RecordType] /\ launched \in Nat /\ g # 0
  BY DEF Inv, Typed
<1>2. KeptJobs
  BY DEF KeptJobs, KeptJob, SameCall, Exit, RecordPid
<1>3. CASE Exit(g)
  <2>1. ASSUME NEW w \in Worker
        PROVE  \/ Softer(handle[w], handle'[w])
               \/ handle'[w] = [handle[w] EXCEPT !.phase = "closed"] /\ handle[w].gen \notin alive' /\ handle[w] # NoHandle
    <3>1. CASE handle[w].gen = g
      BY <1>1, <1>3, <3>1 DEF Exit, NoHandle
    <3>2. CASE handle[w].gen # g
      BY <1>3, <3>2, SameHandles, SofterOps DEF Exit
    <3> QED
      BY <3>1, <3>2
  <2>2. main = "down" => handle' = handle
    <3>1. ASSUME main = "down" PROVE \A w \in Worker : handle[w].gen # g
      BY <1>1, <3>1 DEF Inv, GenInv, InvDown, NoHandle
    <3> QED
      BY <1>1, <1>3, <3>1 DEF Exit
  <2>3. KeptMain
    BY <1>3, <2>2 DEF Exit, KeptMain
  <2>4. KeptRecords
    BY <1>3, SameRecords DEF Exit
  <2> QED
    BY <1>2, <2>1, <2>3, <2>4, Kept DEF KeptHandles
<1>4. CASE RecordPid(g)
  <2>1. KeptMain /\ KeptHandles
    BY <1>4, SameHandles DEF RecordPid, KeptMain, Free
  <2>2. ASSUME NEW w \in Worker PROVE KeptRecord(w)
    <3>1. record[w].pid \in {0, record[w].gen} /\ record[w] \in RecordType
      BY <1>1 DEF Inv, GenInv, InvNumbers
    <3>2. record'[w] \in {record[w], [record[w] EXCEPT !.pid = g]} /\ (record'[w] # record[w] => record[w].gen = g)
      BY <1>4 DEF RecordPid
    <3> QED
      BY <3>1, <3>2 DEF KeptRecord, RecordType
  <2> QED
    BY <1>2, <2>1, <2>2, Kept DEF KeptRecords
<1> QED
  BY <1>3, <1>4

\* The invariant survives close, the death of Main and the session after it.
LEMMA SessionKeeps ==
  ASSUME Inv, Typed', Session
  PROVE  GenInv'
<1> USE DEF work, calls
<1>1. handle \in [Worker -> HandleType] /\ record \in [Worker -> RecordType] /\ job \in [Job -> JobType] /\ launched \in Nat
      /\ Worker \subseteq Job
  BY Constants DEF Inv, Typed
<1>2. ASSUME NEW W \in SUBSET Worker, NEW k \in Job PROVE SameCall(job[k], Supersede(W)[k])
  <2>1. \A x \in JobType : SameCall(x, x) /\ SameCall(x, [x EXCEPT !.live = FALSE])
    BY DEF SameCall, JobType, CallType, Idle
  <2> QED
    BY <1>1, <2>1 DEF Supersede
<1>3. \A w \in Worker : Softer(handle[w], handle[w]) /\ Softer(handle[w], Revoked(handle[w]))
  BY SameHandles, SofterOps
<1>4. CASE Close
  <2>1. KeptMain /\ KeptRecords
    BY <1>4, SameRecords DEF Close, KeptMain
  <2>2. KeptHandles
    BY <1>3, <1>4 DEF Close, KeptHandles
  <2>3. KeptJobs
    <3> DEFINE W == {w \in Worker : handle[w] # NoHandle}
    <3>1. W \in SUBSET Worker /\ job' = Supersede(W)
      BY <1>4 DEF Close
    <3> HIDE DEF W
    <3> QED
      BY <1>2, <3>1 DEF KeptJobs, KeptJob
  <2> QED
    BY <2>1, <2>2, <2>3, Kept
<1>5. CASE CloseStops
  <2> DEFINE W == {w \in Worker : record[w].status # "absent"}
  <2>1. /\ W \in SUBSET Worker /\ handle' = [w \in Worker |-> IF w \in W THEN Revoked(handle[w]) ELSE handle[w]]
        /\ job' = [k \in Job |-> IF k \in W THEN New("close", "stop", k) ELSE Supersede(W)[k]]
        /\ serial = Nobody /\ KeptMain /\ record' = record /\ launched' = launched
    BY <1>5 DEF CloseStops, KeptMain, Free
  <2> HIDE DEF W
  <2>2. KeptHandles
    BY <1>3, <2>1 DEF KeptHandles
  <2>3. KeptJobs
    <3>1. ASSUME NEW k \in W PROVE KeptJob(k)
      <4>1. k \in Job /\ job'[k].at = "stop" /\ job'[k].kind = "close" /\ job'[k].gen = 0
        BY <1>1, <2>1 DEF New, Idle
      <4>2. job[k].at \notin Reserves
        BY <2>1, <4>1, Constants DEF Inv, GenInv, InvSerial, Reserves
      <4>3. Knows(k)'
        BY <1>1, <2>1, <4>1, Plain DEF Starting, Settling
      <4> QED
        BY <4>1, <4>2, <4>3 DEF KeptJob, Reserves
    <3>2. ASSUME NEW k \in Job \ W PROVE KeptJob(k)
      BY <1>2, <2>1 DEF KeptJob
    <3> QED
      BY <3>1, <3>2 DEF KeptJobs
  <2> QED
    BY <2>1, <2>2, <2>3, SameRecords, Kept
<1>6. CASE CloseEnds
  <2>1. KeptMain
    BY <1>6 DEF CloseEnds, KeptMain
  <2>2. KeptJobs
    BY <1>6 DEF CloseEnds, KeptJobs, KeptJob, SameCall
  <2> QED
    BY <1>6, <2>1, <2>2, SameHandles, SameRecords, Kept DEF CloseEnds
<1>7. CASE Crash
  <2>1. /\ main' = "down" /\ serial' = Nobody /\ UNCHANGED <<record, launched, alive>>
        /\ \A w \in Worker : handle'[w] = NoHandle
        /\ \A j \in Job : job'[j] = Idle
    BY <1>7 DEF Crash
  <2>2. NoHandle.gen = 0 /\ 0 \notin alive /\ Idle.at = "idle" /\ Idle.gen = 0 /\ Idle.kind = "none"
    BY DEF NoHandle, Idle, Inv, GenInv, InvNumbers, Typed
  <2>3. InvNumbers' /\ InvRecords' /\ InvProcesses' /\ InvSerial' /\ InvDown'
    BY <1>1, <2>1, <2>2 DEF Inv, GenInv, InvNumbers, InvRecords, InvProcesses, InvSerial, InvDown
  <2>4. InvJobs'
    BY <1>1, <2>1, <2>2 DEF InvJobs, Knows, Starting, Settling
  <2>5. ProcessesAreKnown'
    BY <2>1 DEF Inv, GenInv, ProcessesAreKnown, NoProcessForgotten, CloseReleases, RecordHasOwner
  <2> QED
    BY <2>3, <2>4, <2>5 DEF GenInv
<1>8. CASE NextSession
  <2>1. PICK proven \in SUBSET {w \in Worker : Provable(w)} :
          record' = [w \in Worker |-> IF record[w].status \in Gone THEN record[w]
                       ELSE [record[w] EXCEPT !.status = IF w \in proven THEN "stopped" ELSE "unproven"]]
    BY <1>8 DEF NextSession
  <2>2. /\ main' = "up" /\ UNCHANGED <<launched, handle, job, serial, alive>> /\ serial = Nobody
        /\ \A w \in Worker : handle[w] = NoHandle
        /\ \A j \in Job : job[j] = Idle
    BY <1>8 DEF NextSession, Inv, GenInv, InvDown
  <2>3. ASSUME NEW w \in Worker
        PROVE  /\ record'[w].gen = record[w].gen /\ record'[w].pid = record[w].pid
               /\ record'[w].status \notin Gone => record[w].status \notin Gone /\ record'[w].status = "unproven"
               /\ record[w].status \notin Gone /\ record'[w].status \in Gone => record[w].gen \notin alive
    <3>1. record[w] \in RecordType /\ record[w].pid \in {0, record[w].gen}
      BY <1>1 DEF Inv, GenInv, InvNumbers
    <3>2. w \in proven => record[w].gen \notin alive
      BY <2>1, <3>1 DEF Provable
    <3> QED
      BY <2>1, <3>1, <3>2 DEF RecordType, Gone
  <2>4. NoHandle.gen = 0 /\ 0 \notin alive /\ Idle.at = "idle" /\ Idle.gen = 0 /\ Idle.kind = "none"
    BY DEF NoHandle, Idle, Inv, GenInv, InvNumbers, Typed
  <2>5. InvNumbers' /\ InvRecords' /\ InvProcesses'
    BY <2>2, <2>3, <2>4 DEF Inv, GenInv, InvNumbers, InvRecords, InvProcesses
  <2>6. InvSerial' /\ InvDown'
    BY <2>2, <2>4 DEF InvSerial, InvDown
  <2>7. InvJobs'
    BY <1>1, <2>2, <2>4 DEF InvJobs, Knows, Starting, Settling
  <2>8. NoProcessForgotten'
    BY <2>2, <2>3 DEF Inv, GenInv, ProcessesAreKnown, NoProcessForgotten
  <2>9. CloseReleases' /\ RecordHasOwner'
    BY <2>2, <2>3 DEF CloseReleases, RecordHasOwner, Gone
  <2> QED
    BY <2>5, <2>6, <2>7, <2>8, <2>9 DEF GenInv, ProcessesAreKnown
<1> QED
  BY <1>4, <1>5, <1>6, <1>7, <1>8 DEF Session

\* Every step keeps the invariant, unless it is the recovery that overwrites a record.
LEMMA InvStep ==
  ASSUME Inv, [Next]_vars, ~overwritten'
  PROVE  Inv'
<1>1. Typed'
  BY TypedStep DEF Inv
<1>2. ASSUME NEW j \in Job, JobStep(j) PROVE GenInv'
  <2>1. Unsettling(j) \/ Settle(j) \/ ReserveFresh(j) \/ ReserveCommit(j) \/ ReserveBuild(j)
    BY <1>2 DEF JobStep, Queued, Holding, Unsettling, Settle
  <2> QED
    BY <1>1, <2>1, UnsettlingKeeps, SettleKeeps, ReserveKeeps
<1>3. ASSUME NEW j \in Slot, NEW w \in Worker, Call(j, w) PROVE GenInv'
  BY <1>1, <1>3, CallKeeps
<1>4. ASSUME NEW j \in Slot, NEW w \in Worker, ScanFault(j, w) PROVE GenInv'
  <2> DEFINE next == [New("scan", "contained", w) EXCEPT !.live = TRUE, !.handle = handle[w].gen, !.gen = record[w].gen]
  <2>1. /\ job[j] = Idle /\ main = "up" /\ InterruptBy(j, w, next) /\ j \in Job /\ handle[w].phase \in {"fault", "closed"}
        /\ UNCHANGED <<main, launched, serial, alive>>
    BY <1>4, Constants DEF ScanFault
  <2>2. next.at = "contained" /\ next.handle = handle[w].gen /\ next.gen = record[w].gen /\ next.kind = "scan"
    BY DEF New, Idle
  <2>3. handle[w] # NoHandle /\ handle[w].gen # 0 /\ record[w].gen <= launched
    BY <2>1 DEF NoHandle, Inv, GenInv, InvNumbers
  <2>4. KeptMain /\ job[j].at \notin Reserves
    BY <2>1, Constants DEF KeptMain, Reserves
  <2> HIDE DEF next
  <2> QED
    BY <1>1, <2>1, <2>2, <2>3, <2>4, InterruptKeeps
<1>5. ASSUME NEW w \in Worker, Runtime(w) PROVE GenInv'
  BY <1>1, <1>5, RuntimeKeeps
<1>6. ASSUME NEW g \in 1..launched, Exit(g) \/ RecordPid(g) PROVE GenInv'
  BY <1>1, <1>6, ProcessKeeps
<1>7. ASSUME TaskEnds \/ UNCHANGED vars PROVE GenInv'
  <2>1. UNCHANGED <<main, launched, record, handle, job, serial, alive>>
    BY <1>7 DEF TaskEnds, calls, vars
  <2>2. KeptMain /\ KeptJobs
    BY <2>1 DEF KeptMain, KeptJobs, KeptJob, SameCall
  <2> QED
    BY <1>1, <2>1, <2>2, SameHandles, SameRecords, Kept
<1>8. ASSUME Session PROVE GenInv'
  BY <1>1, <1>8, SessionKeeps
<1>9. GenInv'
  BY <1>2, <1>3, <1>4, <1>5, <1>6, <1>7, <1>8 DEF Next
<1> QED
  BY <1>1, <1>9 DEF Inv

\* The invariant holds at first.
LEMMA InvInit == ASSUME Init PROVE Inv
<1>1. /\ NoRecord.status = "absent" /\ NoRecord.gen = 0 /\ NoRecord.pid = 0 /\ NoHandle.gen = 0
      /\ Idle.at = "idle" /\ Idle.gen = 0 /\ Idle.kind = "none"
  BY DEF NoRecord, NoHandle, Idle
<1>2. /\ \A w \in Worker : record[w] = NoRecord /\ handle[w] = NoHandle
      /\ \A j \in Job : job[j] = Idle
      /\ main = "up" /\ launched = 0 /\ serial = Nobody /\ alive = {}
  BY DEF Init
<1>3. InvNumbers /\ InvRecords /\ InvProcesses /\ InvSerial /\ InvDown
  BY <1>1, <1>2 DEF InvNumbers, InvRecords, InvProcesses, InvSerial, InvDown, Gone
<1>4. InvJobs
  BY <1>1, <1>2 DEF InvJobs, Knows, Starting, Settling
<1>5. ProcessesAreKnown
  BY <1>1, <1>2 DEF ProcessesAreKnown, NoProcessForgotten, CloseReleases, RecordHasOwner
<1> QED
  BY <1>3, <1>4, <1>5, TypedInit DEF Inv, GenInv

------------------------------------------------------------------------------
(* Nobody waits for what cannot come.                                      *)

\* a runtime with no phase is of no generation
Fits(h) == h.phase = "none" => h.gen = 0
HandlesFit == \A w \in Worker : Fits(handle[w])
\* a start that is under way has its generation
Numbered(x) == x.at \in {"building", "launch", "await"} => x.gen # 0
QueueIsHeld ==
  /\ serial # Nobody => job[serial].at \in Reserves
  /\ \A j \in Job : Numbered(job[j])
WaitInv == Typed /\ HandlesFit /\ QueueIsHeld

\* What the handlers do to a runtime never takes its phase from it.
LEMMA FitOps ==
  ASSUME NEW h \in HandleType, Fits(h)
  PROVE  Fits(Revoked(h)) /\ Fits(Ended(h)) /\ Fits(Released(h)) /\ Fits(Counted(h)) /\ Fits(Aborted(h))
BY DEF HandleType, Phases, Fits, Revoked, Ended, Released, Counted, Aborted

\* What a call or a job does to the runtimes.
LEMMA FitMoves ==
  ASSUME Typed, HandlesFit
  PROVE  /\ Fits(NoHandle)
         /\ handle' = handle => HandlesFit'
         /\ \A w \in Worker, h \in HandleType : Fits(h) /\ handle' = [handle EXCEPT ![w] = h] => HandlesFit'
         /\ \A next : \A j \in Job, w \in Worker : Revoke(j, w, next) => HandlesFit'
         /\ \A next : \A j \in Job, w \in Worker : InterruptBy(j, w, next) => HandlesFit'
         /\ \A j \in Job, w \in Worker : ReleaseControl(j, w) => HandlesFit'
<1>1. Fits(NoHandle) /\ (handle' = handle => HandlesFit')
  BY DEF Fits, NoHandle, HandlesFit
<1>2. \A w \in Worker, h \in HandleType : Fits(h) /\ handle' = [handle EXCEPT ![w] = h] => HandlesFit'
  BY DEF Typed, HandlesFit
<1>3. \A w \in Worker :
        /\ Revoked(handle[w]) \in HandleType /\ Fits(Revoked(handle[w]))
        /\ Released(handle[w]) \in HandleType /\ Fits(Released(handle[w]))
        /\ Counted(Ended(handle[w])) \in HandleType /\ Fits(Counted(Ended(handle[w])))
  <2> TAKE w \in Worker
  <2>1. handle[w] \in HandleType /\ Fits(handle[w])
    BY DEF Typed, HandlesFit
  <2>2. Ended(handle[w]) \in HandleType /\ Fits(Ended(handle[w]))
    BY <2>1, HandleTypes, FitOps
  <2> QED
    BY <2>1, <2>2, HandleTypes, FitOps
<1>4. \A next : \A j \in Job, w \in Worker : Revoke(j, w, next) => HandlesFit'
  BY <1>2, <1>3 DEF Revoke
<1>5. \A next : \A j \in Job, w \in Worker : InterruptBy(j, w, next) => HandlesFit'
  BY <1>2, <1>3 DEF InterruptBy
<1>6. \A j \in Job, w \in Worker : ReleaseControl(j, w) => HandlesFit'
  BY <1>1, <1>2, <1>3 DEF ReleaseControl
<1> QED
  BY <1>1, <1>2, <1>4, <1>5, <1>6

\* Every step keeps runtimes and phases together.
LEMMA FitStep == ASSUME Typed, HandlesFit, [Next]_vars PROVE HandlesFit'
<1> USE FitMoves DEF UnchangedByCall, UnchangedByRuntime
<1>0. \A w \in Worker : handle[w] \in HandleType /\ Fits(handle[w])
  BY DEF Typed, HandlesFit
<1>1. ASSUME NEW j \in Job, JobStep(j) PROVE HandlesFit'
  <2>0. job[j].at # "idle" => job[j].w \in Worker /\ job[j].v \in Worker /\ job[j].gen \in Nat
    BY JobTypes DEF CallType
  <2> USE <1>0, <2>0 DEF At
  <2>1. CASE ReserveBuild(j)
    <3>1. LET h == [gen |-> job[j].gen, phase |-> "cold", controls |-> 0] IN h \in HandleType /\ Fits(h)
      BY <2>1 DEF ReserveBuild, HandleType, Phases, Fits
    <3> QED
      BY <2>1, <3>1 DEF ReserveBuild
  <2>2. CASE StartFails(j)
    <3>1. job[j].w \in Worker
      BY <2>2 DEF StartFails
    <3>2. Ended(handle[job[j].w]) \in HandleType /\ Fits(Ended(handle[job[j].w]))
      BY <3>1, HandleTypes, FitOps
    <3> QED
      BY <2>2, <3>1, <3>2 DEF StartFails
  <2>3. CASE PauseBegin(j)
    <3>1. job[j].w \in Worker
      BY <2>3 DEF PauseBegin
    <3>2. Aborted(handle[job[j].w]) \in HandleType /\ Fits(Aborted(handle[job[j].w]))
      BY <3>1, HandleTypes, FitOps
    <3>3. Counted(Aborted(handle[job[j].w])) \in HandleType /\ Fits(Counted(Aborted(handle[job[j].w])))
      BY <3>2, HandleTypes, FitOps
    <3> QED
      BY <2>3, <3>1, <3>3 DEF PauseBegin
  <2>4. CASE StopBegin(j)
    <3>1. job[j].v \in Worker
      BY <2>4 DEF StopBegin
    <3>2. Ended(handle[job[j].v]) \in HandleType /\ Fits(Ended(handle[job[j].v]))
      BY <3>1, HandleTypes, FitOps
    <3>3. Counted(Ended(handle[job[j].v])) \in HandleType /\ Fits(Counted(Ended(handle[job[j].v])))
      BY <3>2, HandleTypes, FitOps
    <3> QED
      BY <2>4, <3>1, <3>3 DEF StopBegin
  <2>5. CASE StopEnds(j)
    <3>1. job[j].v \in Worker
      BY <2>5 DEF StopEnds
    <3>2. NoHandle \in HandleType
      BY Constants
    <3> QED
      BY <2>5, <3>1, <3>2 DEF StopEnds, Concluded
  <2>6. CASE Interrupt(j) \/ Contained(j) \/ Displace(j)
    BY <2>6 DEF Interrupt, Contained, Displace
  <2>7. CASE ~(ReserveBuild(j) \/ StartFails(j) \/ PauseBegin(j) \/ StopBegin(j) \/ StopEnds(j)
               \/ Interrupt(j) \/ Contained(j) \/ Displace(j))
    <3>1. handle' = handle
      BY <1>1, <2>7 DEF JobStep, Queued, Holding, Continues, Choose, ReserveRetained, ReserveFresh, ReserveRefused,
         StartCommit, StartHeld, Grant, ResetBegin, Discard, Accept, RemoveArchived, RemoveUndone, ReserveFails,
         ReserveCommit, ReserveUndone, Launch, Started, Prove, RemoveFenced, RemoveSaved
    <3> QED
      BY <3>1
  <2> QED
    BY <2>1, <2>2, <2>3, <2>4, <2>5, <2>6, <2>7
<1>2. ASSUME NEW j \in Slot, NEW w \in Worker, Call(j, w) \/ ScanFault(j, w) PROVE HandlesFit'
  BY <1>2, Constants DEF Call, ScanFault, Start, Switch, Stop, Restart, Reset, Dispatch, Resume, Recover, Pause, Reconcile, Remove
<1>3. ASSUME NEW w \in Worker, Runtime(w) PROVE HandlesFit'
  <2>1. \A p \in {"up", "closed", "ready", "fault"} : handle' = [handle EXCEPT ![w].phase = p] => HandlesFit'
    <3> TAKE p \in {"up", "closed", "ready", "fault"}
    <3>1. [handle[w] EXCEPT !.phase = p] \in HandleType /\ Fits([handle[w] EXCEPT !.phase = p])
      BY <1>0 DEF HandleType, Phases, Fits
    <3>2. handle' = [handle EXCEPT ![w].phase = p] => handle' = [handle EXCEPT ![w] = [handle[w] EXCEPT !.phase = p]]
      BY DEF Typed
    <3> QED
      BY <3>1, <3>2
  <2> QED
    BY <1>3, <2>1 DEF Runtime, Spawn, SpawnFails, Ready, StartupEnds, Fault, Held
<1>4. ASSUME NEW g \in 1..launched, Exit(g) \/ RecordPid(g) PROVE HandlesFit'
  <2>1. \A w \in Worker : Fits([handle[w] EXCEPT !.phase = "closed"])
    BY <1>0 DEF HandleType, Fits
  <2> QED
    BY <1>0, <1>4, <2>1 DEF Exit, RecordPid, HandlesFit
<1>5. CASE TaskEnds \/ Session
  <2>1. \A w \in Worker : Fits(Revoked(handle[w]))
    BY <1>0, FitOps
  <2> QED
    BY <1>0, <1>5, <2>1 DEF TaskEnds, Session, Close, CloseStops, CloseEnds, Crash, NextSession, HandlesFit
<1>6. CASE UNCHANGED vars
  BY <1>6 DEF vars
<1> QED
  BY <1>1, <1>2, <1>3, <1>4, <1>5, <1>6 DEF Next

\* What a step of one job leaves of the others.
Alone(j) == \A k \in Job \ {j} : job'[k] = job[k] \/ job'[k] = [job[k] EXCEPT !.live = FALSE]
LEMMA AloneMoves ==
  ASSUME Typed, NEW j \in Job
  PROVE  /\ \A next : Go(j, next) => Alone(j) /\ job'[j] = next
         /\ \A next : \A w \in Worker : Revoke(j, w, next) => Alone(j) /\ job'[j] = next
         /\ \A next : \A w \in Worker : InterruptBy(j, w, next) => Alone(j) /\ job'[j] = next
<1>1. ASSUME NEW next, NEW w \in Worker, job' = [Supersede({w}) EXCEPT ![j] = next] PROVE Alone(j) /\ job'[j] = next
  BY <1>1 DEF Supersede, Alone
<1>2. \A next : Go(j, next) => Alone(j) /\ job'[j] = next
  BY DEF Go, Alone, Typed
<1> QED
  BY <1>1, <1>2 DEF Revoke, InterruptBy

\* A call that begins, or a job that moves on, keeps what is known of the queue.
LEMMA QueueMoves ==
  ASSUME Typed, QueueIsHeld, NEW j \in Job, Alone(j), Numbered(job'[j]),
         \/ serial' = Nobody
         \/ serial' = j /\ job'[j].at \in Reserves
         \/ serial' = serial /\ job[j].at \notin Reserves
  PROVE  QueueIsHeld'
<1>1. \A k \in Job \ {j} : job'[k].at = job[k].at /\ job'[k].gen = job[k].gen
  <2>1. \A x \in JobType : [x EXCEPT !.live = FALSE].at = x.at /\ [x EXCEPT !.live = FALSE].gen = x.gen
    BY DEF JobType, CallType, Idle
  <2> QED
    BY <2>1 DEF Alone, Typed
<1>2. \A k \in Job : Numbered(job'[k])
  BY <1>1 DEF QueueIsHeld, Numbered
<1>3. serial' # Nobody => job'[serial'].at \in Reserves
  <2>1. CASE serial' = serial /\ job[j].at \notin Reserves /\ serial # Nobody
    BY <1>1, <2>1 DEF QueueIsHeld, Typed
  <2> QED
    BY <2>1
<1> QED
  BY <1>2, <1>3 DEF QueueIsHeld

\* Every step leaves the queue to one who is about to leave it, and a start its generation.
LEMMA QueueStep == ASSUME Typed, QueueIsHeld, [Next]_vars PROVE QueueIsHeld'
<1> USE DEF UnchangedByCall, UnchangedByRuntime, calls
<1>0. job' = job /\ serial' = serial => QueueIsHeld'
  BY DEF QueueIsHeld
<1>1. ASSUME NEW j \in Job, JobStep(j) PROVE QueueIsHeld'
  <2>0. /\ \A next : Go(j, next) => Alone(j) /\ job'[j] = next
        /\ \A next : \A w \in Worker : Revoke(j, w, next) => Alone(j) /\ job'[j] = next
        /\ \A next : \A w \in Worker : InterruptBy(j, w, next) => Alone(j) /\ job'[j] = next
    BY AloneMoves
  <2>1. job[j].at # "idle" /\ job[j] \in CallType /\ job[j].w \in Worker /\ job[j].v \in Worker /\ job[j].gen \in Nat
    <3>1. job[j].at # "idle"
      BY <1>1 DEF JobStep, Queued, Holding, Continues, Choose, ReserveRetained, ReserveFresh, ReserveRefused, StartCommit,
         StartHeld, Grant, Interrupt, PauseBegin, Contained, StopBegin, StopEnds, ResetBegin, Discard, Accept, RemoveArchived,
         RemoveUndone, ReserveFails, ReserveCommit, ReserveBuild, ReserveUndone, Displace, Launch, Started, StartFails, Prove,
         RemoveFenced, RemoveSaved, At
    <3> QED
      BY <3>1, JobTypes DEF CallType
  <2>2. Numbered(Idle) /\ Numbered(job[j])
    BY Constants DEF Numbered, QueueIsHeld
  \* the job moves to a stage that is not part of a start
  <2>3. ASSUME Alone(j), job'[j].at \notin Reserves \cup {"launch", "await"},
               serial' = Nobody \/ (serial' = serial /\ job[j].at \notin Reserves)
        PROVE  QueueIsHeld'
    <3>1. Numbered(job'[j])
      BY <2>3 DEF Numbered, Reserves
    <3> QED
      BY <2>3, <3>1, QueueMoves
  <2>4. \A a \in Awaits : To(j, a).at = a /\ To(j, a).gen = job[j].gen
    BY <2>1 DEF To, CallType
  <2>5. \A w \in Worker, a \in Awaits : Control(j, w, a).at = a
    BY <2>1 DEF Control, CallType
  <2>6. After(j).at \in {"idle", "discard", "remove", "reserve"}
    BY <2>1, Constants DEF After, CallType
  <2> USE Names DEF At, Goto, Drop, Leave
  <2>10. CASE Choose(j)
    <3>1. \A o : [To(j, "displace") EXCEPT !.v = o].at = "displace"
      BY <2>1 DEF To, CallType
    <3> DEFINE Steps(o) == [To(j, "displace") EXCEPT !.v = o]
    <3>2. Go(j, To(j, "reserve")) \/ Go(j, Idle) \/ \E o \in Worker : Go(j, Steps(o))
      <4>1. CASE Goto(j, "reserve")
        BY <4>1
      <4>2. CASE ~Goto(j, "reserve")
        <5>1. PICK o \in Others(job[j].w) : Go(j, IF main # "up" \/ task = o \/ handle[o] = NoHandle THEN Idle ELSE Steps(o))
          BY <2>10, <4>2 DEF Choose
        <5>2. o \in Worker
          BY DEF Others
        <5> HIDE DEF Steps
        <5> QED
          BY <5>1, <5>2 DEF Go
      <4> QED
        BY <4>1, <4>2
    <3>3. \A o : Steps(o).at = "displace"
      BY <3>1
    <3> HIDE DEF Steps
    <3>4. Alone(j) /\ job'[j].at \in {"idle", "displace", "reserve"}
      BY <2>0, <2>4, <3>2, <3>3, Constants
    <3>5. serial' = serial /\ job[j].at = "choose"
      BY <2>10 DEF Choose
    <3> QED
      BY <2>3, <3>4, <3>5 DEF Reserves
  <2>11. CASE ReserveRetained(j)
    <3>1. LET x == [To(j, "launch") EXCEPT !.gen = handle[job[j].w].gen, !.live = TRUE] IN
            x.at = "launch" /\ x.gen = handle[job[j].w].gen
      BY <2>1 DEF To, CallType
    <3>2. handle[job[j].w].gen # 0
      BY <2>11 DEF ReserveRetained, Reusable, RuntimeCurrent
    <3>3. Alone(j) /\ Numbered(job'[j]) /\ serial' = serial /\ job[j].at \notin Reserves
      BY <2>0, <2>11, <3>1, <3>2 DEF ReserveRetained, Numbered, Reserves
    <3> QED
      BY <3>3, QueueMoves
  <2>12. CASE ReserveFresh(j)
    <3>1. [To(j, "reserving") EXCEPT !.live = TRUE].at = "reserving"
      BY <2>1 DEF To, CallType
    <3>2. Alone(j) /\ Numbered(job'[j]) /\ serial' = j /\ job'[j].at \in Reserves
      BY <2>0, <2>12, <3>1 DEF ReserveFresh, Numbered, Reserves
    <3> QED
      BY <3>2, QueueMoves
  <2>13. CASE ReserveFails(j) \/ ReserveUndone(j)
    <3>1. Alone(j) /\ job'[j] = Idle /\ serial' = Nobody
      BY <2>0, <2>13 DEF ReserveFails, ReserveUndone
    <3> QED
      BY <2>2, <3>1, QueueMoves
  <2>14. CASE ReserveCommit(j)
    <3>1. LET x == [To(j, "building") EXCEPT !.gen = launched + 1] IN x.at = "building" /\ x.gen = launched + 1
      BY <2>1 DEF To, CallType
    <3>2. launched + 1 # 0
      BY DEF Typed
    <3>3. Alone(j) /\ Numbered(job'[j]) /\ job'[j].at \in Reserves /\ serial' = serial
      BY <2>0, <2>14, <3>1, <3>2 DEF ReserveCommit, Numbered, Reserves
    <3>4. job[j].at \in Reserves
      BY <2>14 DEF ReserveCommit, Reserves
    <3>5. QueueIsHeld' \/ (serial # j /\ serial # Nobody)
      BY <3>3, QueueMoves
    <3>6. CASE serial # j
      <4>1. job'[serial].at = job[serial].at \/ serial = Nobody
        <5>1. \A x \in JobType : [x EXCEPT !.live = FALSE].at = x.at
          BY DEF JobType, CallType, Idle
        <5> QED
          BY <3>3, <3>6, <5>1 DEF Alone, Typed
      <4>2. \A k \in Job : Numbered(job'[k])
        <5>1. \A x \in JobType : Numbered(x) => Numbered([x EXCEPT !.live = FALSE])
          BY DEF JobType, CallType, Idle, Numbered
        <5> QED
          BY <3>3, <5>1 DEF Alone, Typed, QueueIsHeld
      <4> QED
        BY <3>3, <4>1, <4>2 DEF QueueIsHeld
    <3> QED
      BY <3>5, <3>6
  <2>15. CASE ReserveBuild(j)
    <3>1. Alone(j) /\ Numbered(job'[j]) /\ serial' = Nobody
      BY <2>0, <2>2, <2>4, <2>15 DEF ReserveBuild, Numbered
    <3> QED
      BY <3>1, QueueMoves
  <2>16. CASE Launch(j)
    <3>1. Alone(j) /\ Numbered(job'[j]) /\ serial' = serial /\ job[j].at \notin Reserves
      BY <2>0, <2>2, <2>4, <2>16 DEF Launch, Numbered, Reserves
    <3> QED
      BY <3>1, QueueMoves
  <2>17. CASE StartCommit(j) \/ Accept(j)
    <3>1. [To(j, "reserve") EXCEPT !.assign = TRUE].at = "reserve"
      BY <2>1 DEF To, CallType
    <3>2. \E next \in {Idle, To(j, "grant"), [To(j, "reserve") EXCEPT !.assign = TRUE]} : Go(j, next)
      <4>1. CASE StartCommit(j)
        BY <4>1 DEF StartCommit
      <4>2. CASE Accept(j)
        BY <4>2 DEF Accept
      <4> QED
        BY <2>17, <4>1, <4>2
    <3>3. PICK next \in {Idle, To(j, "grant"), [To(j, "reserve") EXCEPT !.assign = TRUE]} : Go(j, next)
      BY <3>2
    <3>4. next.at \in {"idle", "grant", "reserve"} /\ Alone(j) /\ job'[j] = next
      BY <2>0, <2>4, <3>1, <3>3, Constants
    <3>5. serial' = serial /\ job[j].at \in {"commit", "accept"}
      BY <2>17 DEF StartCommit, Accept
    <3> QED
      BY <2>3, <3>4, <3>5 DEF Reserves
  <2>18. CASE Displace(j) \/ ResetBegin(j) \/ RemoveFenced(j)
    <3> DEFINE displaced  == [To(j, "stop") EXCEPT !.live = TRUE]
               resets     == [To(j, "stop") EXCEPT !.born = record[job[j].w].born]
               removes(a) == [To(j, a) EXCEPT !.live = TRUE, !.gen = record[job[j].w].gen, !.born = record[job[j].w].born]
    <3>1. displaced.at = "stop" /\ resets.at = "stop" /\ \A a \in Awaits : removes(a).at = a
      BY <2>1 DEF To, CallType
    <3>2. /\ Displace(j) => Revoke(j, job[j].v, displaced)
          /\ ResetBegin(j) => Go(j, Idle) \/ Go(j, resets)
          /\ RemoveFenced(j) => Go(j, Idle) \/ Go(j, removes("save")) \/ Go(j, removes("archive"))
      <4>1. Displace(j) => Revoke(j, job[j].v, displaced)
        BY DEF Displace
      <4>2. ResetBegin(j) => Go(j, Idle) \/ Go(j, resets)
        BY DEF ResetBegin, Go
      <4>3. RemoveFenced(j) => Go(j, Idle) \/ Go(j, removes("save")) \/ Go(j, removes("archive"))
        BY DEF RemoveFenced, Go
      <4> QED
        BY <4>1, <4>2, <4>3
    <3> HIDE DEF displaced, resets, removes
    <3>4. Alone(j) /\ job'[j].at \in {"idle", "stop", "save", "archive"}
      BY <2>0, <2>1, <2>18, <3>1, <3>2, Constants
    <3>3. serial' = serial /\ job[j].at \in {"displace", "reset", "remove"}
      BY <2>18 DEF Displace, ResetBegin, RemoveFenced
    <3> QED
      BY <2>3, <3>3, <3>4 DEF Reserves
  <2>19. CASE Interrupt(j) \/ PauseBegin(j) \/ StopBegin(j) \/ StopEnds(j)
    <3>1. /\ Alone(j) /\ job'[j].at \in {"idle", "contained", "exiting", "discard", "remove", "reserve"} /\ serial' = serial
          /\ job[j].at \in {"interrupt", "pause", "stop", "exiting"}
      BY <2>0, <2>1, <2>5, <2>6, <2>19, Constants DEF Interrupt, PauseBegin, StopBegin, StopEnds, StopThrows
    <3> QED
      BY <2>3, <3>1 DEF Reserves
  <2>20. CASE \/ ReserveRefused(j) \/ StartHeld(j) \/ Grant(j) \/ Contained(j) \/ Discard(j) \/ RemoveArchived(j)
              \/ RemoveUndone(j) \/ Started(j) \/ StartFails(j) \/ Prove(j) \/ RemoveSaved(j)
    <3>1. /\ Alone(j) /\ job'[j].at \in {"idle", "interrupt", "commit", "failed", "accept", "save", "restore"}
          /\ serial' = serial /\ job[j].at \notin Reserves
      BY <2>0, <2>4, <2>20, Constants DEF ReserveRefused, StartHeld, Grant, Contained, Discard, RemoveArchived,
         RemoveUndone, Started, StartFails, Prove, RemoveSaved, Reserves
    <3> QED
      BY <2>3, <3>1 DEF Reserves
  <2> QED
    BY <1>1, <2>10, <2>11, <2>12, <2>13, <2>14, <2>15, <2>16, <2>17, <2>18, <2>19, <2>20
       DEF JobStep, Queued, Holding, Continues
<1>2. ASSUME NEW j \in Slot, NEW w \in Worker, Call(j, w) \/ ScanFault(j, w) PROVE QueueIsHeld'
  <2>0. j \in Job
    BY Constants
  <2>1. /\ \A next : Go(j, next) => Alone(j) /\ job'[j] = next
        /\ \A next : Revoke(j, w, next) => Alone(j) /\ job'[j] = next
        /\ \A next : InterruptBy(j, w, next) => Alone(j) /\ job'[j] = next
    BY <2>0, AloneMoves
  <2> DEFINE new(stage, kind) == New(kind, stage, w)
             assigned(stage, kind) == [New(kind, stage, w) EXCEPT !.assign = TRUE]
             recovers(stage) == [New("recover", stage, w) EXCEPT !.assign = stage = "reserve"]
             scanned == [New("scan", "contained", w) EXCEPT !.live = TRUE, !.handle = handle[w].gen, !.gen = record[w].gen]
             Begun == job'[j].at \in {"reserve", "choose", "stop", "reset", "prove", "pause", "remove", "contained"}
  <2>2. /\ scanned.at = "contained" /\ \A stage : recovers(stage).at = stage
        /\ \A stage, kind : new(stage, kind).at = stage /\ assigned(stage, kind).at = stage
    BY DEF New, Idle
  <2>5. Call(j, w) =>
          \/ \E stage \in {"reserve", "choose", "prove", "remove"}, kind \in AllKinds : Go(j, new(stage, kind))
          \/ \E stage \in {"stop", "reset", "pause"}, kind \in AllKinds : Revoke(j, w, new(stage, kind))
          \/ \E kind \in AllKinds : Go(j, assigned("reserve", kind))
          \/ \E stage \in {"prove", "reserve"} : Go(j, recovers(stage))
          \/ Revoke(j, w, recovers("stop"))
    <3> USE Names
    <3> HIDE DEF assigned, recovers
    <3>1. Start(j, w) \/ Switch(j, w) \/ Reconcile(j, w) =>
            \E stage \in {"reserve", "choose", "prove", "remove"}, kind \in AllKinds : Go(j, new(stage, kind))
      BY DEF Start, Switch, Reconcile
    <3>2. Stop(j, w) \/ Restart(j, w) \/ Reset(j, w) \/ Pause(j, w) =>
            \E stage \in {"stop", "reset", "pause"}, kind \in AllKinds : Revoke(j, w, new(stage, kind))
      BY DEF Stop, Restart, Reset, Pause
    <3>3. Dispatch(j, w) => Go(j, new("choose", "dispatch")) \/ Go(j, assigned("reserve", "dispatch"))
      BY DEF Dispatch, Go, assigned
    <3>4. Resume(j, w) => Go(j, assigned("reserve", "resume"))
      BY DEF Resume, assigned
    <3>5. Recover(j, w) => Go(j, recovers("prove")) \/ Go(j, recovers("reserve")) \/ Revoke(j, w, recovers("stop"))
      BY DEF Recover, recovers
    <3>6. Remove(j, w) => Go(j, new("remove", "remove")) \/ Revoke(j, w, new("stop", "remove"))
      BY DEF Remove
    <3> HIDE DEF new
    <3> QED
      BY <3>1, <3>2, <3>3, <3>4, <3>5, <3>6 DEF Call
  <2>6. ScanFault(j, w) => InterruptBy(j, w, scanned)
    BY DEF ScanFault
  <2> HIDE DEF new, assigned, recovers, scanned
  <2>7. Alone(j) /\ Begun
    <3>1. CASE Call(j, w)
      BY <2>1, <2>2, <2>5, <3>1
    <3>2. CASE ScanFault(j, w)
      BY <2>1, <2>2, <2>6, <3>2
    <3> QED
      BY <1>2, <3>1, <3>2
  <2>3. /\ Alone(j) /\ Begun
        /\ serial' = serial /\ job[j] = Idle
    BY <1>2, <2>7 DEF Call, ScanFault, Called, Start, Switch, Stop, Restart, Reset, Dispatch, Resume, Recover, Pause,
       Reconcile, Remove
  <2>4. Numbered(job'[j]) /\ job[j].at \notin Reserves
    BY <2>3, Constants DEF Numbered, Reserves
  <2> QED
    BY <2>0, <2>3, <2>4, QueueMoves
<1>3. ASSUME NEW w \in Worker, Runtime(w) PROVE QueueIsHeld'
  BY <1>0, <1>3 DEF Runtime, Spawn, SpawnFails, Ready, StartupEnds, Fault, Held
<1>4. ASSUME NEW g \in 1..launched, Exit(g) \/ RecordPid(g) PROVE QueueIsHeld'
  BY <1>0, <1>4 DEF Exit, RecordPid
<1>5. CASE TaskEnds \/ CloseEnds \/ NextSession
  BY <1>0, <1>5 DEF TaskEnds, CloseEnds, NextSession
<1>6. CASE Close \/ CloseStops
  <2>1. PICK W \in SUBSET Worker : \A k \in Job :
          job'[k].at = "stop" \/ job'[k] = job[k] \/ job'[k] = [job[k] EXCEPT !.live = FALSE]
    <3>1. CASE Close
      <4>1. PICK W \in SUBSET Worker : job' = Supersede(W)
        BY <3>1 DEF Close
      <4> QED
        BY <4>1 DEF Supersede
    <3>2. CASE CloseStops
      <4>1. PICK W \in SUBSET Worker : job' = [k \in Job |-> IF k \in W THEN New("close", "stop", k) ELSE Supersede(W)[k]]
        BY <3>2 DEF CloseStops
      <4>2. \A k : New("close", "stop", k).at = "stop"
        BY DEF New, Idle
      <4> QED
        BY <4>1, <4>2 DEF Supersede
    <3> QED
      BY <1>6, <3>1, <3>2
  <2>2. \A x \in JobType : [x EXCEPT !.live = FALSE].at = x.at /\ [x EXCEPT !.live = FALSE].gen = x.gen
    BY DEF JobType, CallType, Idle
  <2>3. \A k \in Job : Numbered(job'[k])
    BY <2>1, <2>2 DEF QueueIsHeld, Numbered, Typed
  <2>4. serial' # Nobody => Close /\ serial' = serial
    BY <1>6 DEF Close, CloseStops, Free
  <2>5. serial' # Nobody => job'[serial].at = job[serial].at
    <3> SUFFICES ASSUME serial' # Nobody PROVE job'[serial].at = job[serial].at
      OBVIOUS
    <3>1. PICK X \in SUBSET Worker : job' = Supersede(X)
      BY <2>4 DEF Close
    <3>2. serial \in Job
      BY <2>4 DEF Typed
    <3> QED
      BY <2>2, <3>1, <3>2 DEF Supersede, Typed
  <2> QED
    BY <2>3, <2>4, <2>5 DEF QueueIsHeld
<1>7. CASE Crash
  BY <1>7, Constants DEF Crash, QueueIsHeld, Numbered
<1>8. CASE UNCHANGED vars
  BY <1>0, <1>8 DEF vars
<1> QED
  BY <1>1, <1>2, <1>3, <1>4, <1>5, <1>6, <1>7, <1>8 DEF Next, Session

------------------------------------------------------------------------------
\* Types: every call in progress is about a worker it names, every record and every
\* runtime has one of its statuses and phases.
THEOREM GenerationsTyped == Spec => []Typed
<1>1. Init => Typed
  BY TypedInit
<1>2. Typed /\ [Next]_vars => Typed'
  BY TypedStep
<1> QED
  BY <1>1, <1>2, PTL DEF Spec

\* What a recovery has overwritten stays overwritten.
LEMMA OverwrittenStays == ASSUME [Next]_vars, overwritten PROVE overwritten'
<1>1. ASSUME NEW j \in Slot, NEW w \in Worker, Call(j, w) \/ ScanFault(j, w) PROVE overwritten'
  BY <1>1 DEF Call, ScanFault, UnchangedByCall, Start, Switch, Stop, Restart, Reset, Dispatch, Resume, Recover, Pause,
     Reconcile, Remove
<1>2. ASSUME NEW j \in Job, Queued(j) PROVE overwritten'
  <2>1. CASE Accept(j)
    BY <2>1 DEF Accept
  <2>2. CASE ~Accept(j)
    BY <1>2, <2>2 DEF Queued, Choose, ReserveRetained, ReserveFresh, ReserveRefused, StartCommit, StartHeld, Grant,
       Interrupt, PauseBegin, Contained, StopBegin, StopEnds, ResetBegin, Discard, RemoveArchived, RemoveUndone
  <2> QED
    BY <2>1, <2>2
<1>3. ASSUME NEW j \in Job, Holding(j) \/ Continues(j) PROVE overwritten'
  BY <1>3 DEF Holding, ReserveFails, ReserveCommit, ReserveBuild, ReserveUndone, Continues, Displace, Launch, Started,
     StartFails, Prove, RemoveFenced, RemoveSaved, UnchangedByCall
<1>4. ASSUME NEW w \in Worker, Runtime(w) PROVE overwritten'
  BY <1>4 DEF Runtime, Spawn, SpawnFails, Ready, StartupEnds, Fault, Held, UnchangedByRuntime
<1>5. ASSUME NEW g \in 1..launched, Exit(g) \/ RecordPid(g) PROVE overwritten'
  BY <1>5 DEF Exit, RecordPid, UnchangedByRuntime
<1>6. CASE TaskEnds \/ Session
  BY <1>6 DEF TaskEnds, Session, Close, CloseStops, CloseEnds, Crash, NextSession
<1>7. CASE UNCHANGED vars
  BY <1>7 DEF vars
<1> QED
  BY <1>1, <1>2, <1>3, <1>4, <1>5, <1>6, <1>7 DEF Next, JobStep

\* The inductive invariant, for any workers, calls in progress, recoveries beside one another, generations and
\* sessions of Main: it holds until recover() (controller.js 3077) writes stopped over the record of a process
\* that was started since its proof, and no other step of any call, runtime or session breaks it.
THEOREM GenerationInvariant == Spec => [](overwritten \/ Inv)
<1>1. Init => overwritten \/ Inv
  BY InvInit
<1>2. (overwritten \/ Inv) /\ [Next]_vars => (overwritten \/ Inv)'
  BY InvStep, OverwrittenStays
<1> QED
  BY <1>1, <1>2, PTL DEF Spec

\* What PairController reserves, stops, recovers and hands over: however calls, exits, deaths of Main and later
\* sessions interleave, one worker process lives at most, and a second one takes a recovery that has overwritten
\* the record of the first (the finding of the run gen_recover).
THEOREM OneWriterHolds == Spec => [](overwritten \/ OneWriter)
<1>1. Inv => OneWriter
  <2> SUFFICES ASSUME Inv PROVE OneWriter
    OBVIOUS
  <2>1. \A g, h \in alive : g = h
    BY DEF Inv, GenInv, InvRecords, ProcessesAreKnown, NoProcessForgotten
  <2>2. CASE alive = {}
    BY <2>2, FS_EmptySet DEF OneWriter
  <2>3. CASE alive # {}
    <3>1. PICK g \in alive : TRUE
      BY <2>3
    <3>2. alive = {g}
      BY <2>1, <3>1
    <3> QED
      BY <3>2, FS_Singleton DEF OneWriter
  <2> QED
    BY <2>2, <2>3
<1> QED
  BY <1>1, GenerationInvariant, PTL

\* Every process that lives is named by a record that asks a later session for a proof, the owner lock outlives
\* every process, and while Main runs every record that claims a process has the runtime that will end it, until
\* a recovery overwrites the record of a process started since its proof.
THEOREM ProcessesAreKnownHolds == Spec => [](overwritten \/ ProcessesAreKnown)
<1>1. Inv => ProcessesAreKnown
  BY DEF Inv, GenInv
<1> QED
  BY <1>1, GenerationInvariant, PTL

\* A call that awaits a startup is answered once the runtime has nothing more to do, and who holds the queue is
\* about to leave it (reserveStart, startReserved: controller.js 568-688; PiRuntime.ensureStarted): for any workers,
\* calls, recoveries beside one another, generations and sessions of Main.
THEOREM NobodyIsStuckHolds == Spec => []NobodyIsStuck
<1>1. Init => WaitInv
  <2> SUFFICES ASSUME Init PROVE WaitInv
    OBVIOUS
  <2>1. HandlesFit
    BY DEF Init, HandlesFit, Fits, NoHandle
  <2>2. QueueIsHeld
    BY Constants DEF Init, QueueIsHeld, Numbered
  <2> QED
    BY <2>1, <2>2, TypedInit DEF WaitInv
<1>2. WaitInv /\ [Next]_vars => WaitInv'
  BY TypedStep, FitStep, QueueStep DEF WaitInv
<1>3. WaitInv => NobodyIsStuck
  <2> SUFFICES ASSUME WaitInv, NEW j \in Job, At(j, "await"), handle[job[j].w].phase \notin {"cold", "up", "failing"}
               PROVE  Resolves(j) \/ Rejects(j)
    BY DEF WaitInv, QueueIsHeld, Reserves, NobodyIsStuck
  <2>1. job[j].w \in Worker /\ job[j].gen # 0
    BY JobTypes DEF WaitInv, At, QueueIsHeld, Numbered
  <2>2. handle[job[j].w].phase \in Phases /\ Fits(handle[job[j].w])
    BY <2>1 DEF WaitInv, Typed, HandleType, HandlesFit
  <2> QED
    BY <2>1, <2>2 DEF Resolves, Rejects, StartupOver, Fits, Phases
<1> QED
  BY <1>1, <1>2, <1>3, PTL DEF Spec
=============================================================================
