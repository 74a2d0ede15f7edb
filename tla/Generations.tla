----------------------------- MODULE Generations -----------------------------
(***************************************************************************)
(* Who may have a worker process: PairController's starts, stops,          *)
(* restarts, switches, resets, removals, dispatches, recoveries and         *)
(* reconciliations, the death of Main and the session that takes over.     *)
(*                                                                         *)
(* A generation is one reservation of one worker record; it gets a runtime *)
(* handle, the handle a process.  Calls are jobs: each is at one of the    *)
(* awaits of its function.  A job that needs the queue of transactions     *)
(* waits for it; reserveStart alone keeps it across awaits.                *)
(***************************************************************************)
EXTENDS Integers, FiniteSets

CONSTANTS
  Worker,      \* the configured workers
  Slot,        \* bound: calls of the human and of Main in progress at once
  Kinds,       \* the kinds of call each slot makes in this run
  Nobody,      \* in place of a worker
  MaxGen,      \* bound: generations ever reserved (a start past it is refused)
  MaxEpoch     \* bound: sessions of Main

AllKinds == {"start", "switch", "stop", "restart", "reset", "dispatch", "resume",
             "recover", "pause", "reconcile", "remove"}

ASSUME GenerationsAssumption ==
  /\ Slot \cap Worker = {} /\ Nobody \notin Worker \cup Slot
  /\ \A s \in Slot : Kinds[s] \subseteq AllKinds
  /\ MaxGen \in Nat /\ MaxEpoch \in Nat

VARIABLES
  main,       \* up, closing, draining, closed, held (close failed), or down
  epoch,      \* state.ownerEpoch
  record,     \* state.workers, "absent" where there is none; survives Main
  launched,   \* generations reserved so far: the next gets a number of its own
  task, paused,   \* the unresolved assignment, and whether it must be resumed
  handle,     \* handles and runtimeData
  job,        \* the calls in progress; close has one per worker
  serial,     \* the job that holds the queue across awaits
  alive,      \* generations whose process lives
  unrecorded, \* generations whose onSpawn transaction is queued
  overwritten \* history: a recovery has called stopped what was started since its proof

vars == <<main, epoch, record, launched, task, paused, handle, job, serial, alive, unrecorded, overwritten>>
calls == <<job, serial>>
work  == <<task, paused>>
past  == <<launched, overwritten>>

Job      == Slot \cup Worker
NoRecord == [status |-> "absent", gen |-> 0, born |-> 0, pid |-> 0]
NoHandle == [gen |-> 0, phase |-> "none", controls |-> 0]
Idle     == [kind |-> "none", at |-> "idle", w |-> Nobody, v |-> Nobody, gen |-> 0,
             handle |-> 0, born |-> 0, live |-> FALSE, assign |-> FALSE]
StopStages == {"stop", "exiting"}
Stages   == StopStages \cup
  {"idle", "choose", "displace", "reserve", "reserving", "building", "launch", "await",
   "commit", "failed", "grant", "interrupt", "pause", "contained", "reset", "discard",
   "prove", "accept", "remove", "archive", "save", "restore"}
Failed   == {"error", "unproven"}       \* unproven: error with EXIT_UNCONFIRMED
Gone     == {"absent", "stopped"}

\* Types of every variable.
TypeOK ==
  /\ main \in {"up", "closing", "draining", "closed", "held", "down"}
  /\ epoch \in Nat /\ launched \in Nat
  /\ record \in [Worker -> [status : Gone \cup Failed \cup {"starting", "ready"},
                            gen : Nat, born : Nat, pid : Nat]]
  /\ task \in Worker \cup {Nobody} /\ paused \in BOOLEAN
  /\ handle \in [Worker -> [gen : Nat, controls : Nat,
       phase : {"none", "cold", "barred", "up", "failing", "ready", "fault", "closed"}]]
  /\ job \in [Job -> [kind : AllKinds \cup {"none", "scan", "close"}, at : Stages,
       w : Worker \cup {Nobody}, v : Worker \cup {Nobody}, gen : Nat, handle : Nat,
       born : Nat, live : BOOLEAN, assign : BOOLEAN]]
  /\ serial \in Job \cup {Nobody}
  /\ alive \subseteq Nat /\ unrecorded \subseteq Nat /\ overwritten \in BOOLEAN

Init ==
  /\ main = "up" /\ epoch = 1 /\ launched = 0
  /\ record = [w \in Worker |-> NoRecord] /\ handle = [w \in Worker |-> NoHandle]
  /\ task = Nobody /\ paused = FALSE
  /\ job = [j \in Job |-> Idle] /\ serial = Nobody /\ alive = {} /\ unrecorded = {}
  /\ overwritten = FALSE

------------------------------------------------------------------------------
(* What the guards ask, and parts of actions.                              *)

Free == serial = Nobody /\ main # "down"
At(j, stage) == job[j].at = stage
Restarting(w) == \E j \in Job : job[j].kind = "restart" /\ job[j].w = w
\* the worker whose intent the job compares
Subject(j) == IF job[j].at \in StopStages THEN job[j].v ELSE job[j].w

\* isCurrent as the runtime asks it: this handle is the record's generation
RuntimeCurrent(w) == main = "up" /\ handle[w].gen # 0 /\ handle[w].gen = record[w].gen
LaunchCurrent(j) ==
  LET w == job[j].w IN job[j].live /\ handle[w].gen = job[j].gen /\ RuntimeCurrent(w)
ControlCurrent(j) ==
  LET v == Subject(j)
  IN job[j].live /\ handle[v].gen = job[j].handle /\ record[v].gen = job[j].gen

\* PiRuntime.revoke: a runtime that is not ready never becomes it
Revoked(h) ==
  [h EXCEPT !.phase = IF @ = "cold" THEN "barred" ELSE IF @ = "up" THEN "failing" ELSE @]
\* PiRuntime.abortAndStop: nothing was spawned, or the process is told to end
Ended(h) ==
  [h EXCEPT !.phase = IF @ \in {"cold", "barred"} THEN "closed"
                      ELSE IF @ \in {"up", "failing", "ready"} THEN "fault" ELSE @]
Released(h) == [h EXCEPT !.controls = @ - 1]

\* revoke() for the workers W: their jobs are superseded
Supersede(W) ==
  [k \in Job |-> IF Subject(k) \in W THEN [job[k] EXCEPT !.live = FALSE] ELSE job[k]]
Revoke(j, w, next) == /\ job' = [Supersede({w}) EXCEPT ![j] = next]
                      /\ handle' = [handle EXCEPT ![w] = Revoked(@)]
Go(j, next)   == job' = [job EXCEPT ![j] = next]
To(j, stage)  == [job[j] EXCEPT !.at = stage]
Goto(j, stage) == Go(j, To(j, stage))
Drop(j) == Go(j, Idle)
New(kind, stage, w) ==
  [Idle EXCEPT !.kind = kind, !.at = stage, !.w = w, !.v = w,
               !.live = stage \in {"stop", "pause", "reset"},
               !.born = IF stage = "prove" THEN record[w].born ELSE 0]

SetStatus(w, status) == record' = [record EXCEPT ![w].status = status]
Hold(w) == paused' = (paused \/ task = w)

------------------------------------------------------------------------------
(* Calls.                                                                  *)

Called(j, kind) == main = "up" /\ j \in Slot /\ job[j] = Idle /\ kind \in Kinds[j]
UnchangedByCall == UNCHANGED <<main, epoch, record, past, work, serial, alive, unrecorded>>

Start(j, w) ==
  /\ Called(j, "start") /\ ~Restarting(w)
  /\ Go(j, New("start", "reserve", w)) /\ UNCHANGED handle /\ UnchangedByCall

Switch(j, w) ==
  /\ Called(j, "switch")
  /\ Go(j, New("switch", "choose", w)) /\ UNCHANGED handle /\ UnchangedByCall

\* stop, restart, reset and pause revoke before anything is queued
Stop(j, w) ==
  /\ Called(j, "stop") /\ record[w].status # "absent"
  /\ Revoke(j, w, New("stop", "stop", w)) /\ UnchangedByCall

Restart(j, w) ==
  /\ Called(j, "restart") /\ ~Restarting(w)
  /\ Revoke(j, w, New("restart", "stop", w)) /\ UnchangedByCall

Reset(j, w) ==
  /\ Called(j, "reset") /\ task # w
  /\ Revoke(j, w, New("reset", "reset", w)) /\ UnchangedByCall

Others(w) == {o \in Worker \ {w} : handle[o] # NoHandle \/ record[o].status \notin Gone}
\* standDownForDispatch, then the dispatch itself
Dispatch(j, w) ==
  /\ Called(j, "dispatch") /\ (handle[w] = NoHandle => task = Nobody)
  /\ Go(j, IF handle[w] = NoHandle /\ Others(w) # {} THEN New("dispatch", "choose", w)
           ELSE [New("dispatch", "reserve", w) EXCEPT !.assign = TRUE])
  /\ UNCHANGED handle /\ UnchangedByCall

Resume(j, w) ==
  /\ Called(j, "resume") /\ task = w /\ paused
  /\ Go(j, [New("resume", "reserve", w) EXCEPT !.assign = TRUE])
  /\ UNCHANGED handle /\ UnchangedByCall

\* recover(): prove the exit of a lost process, stop a held runtime, or resume at once
Recover(j, w) ==
  /\ Called(j, "recover") /\ task = w /\ paused
  /\ LET new(stage) == [New("recover", stage, w) EXCEPT !.assign = stage = "reserve"]
     IN \/ /\ record[w].status = "unproven" /\ handle[w] = NoHandle
           /\ Go(j, new("prove")) /\ UNCHANGED handle
        \/ record[w].status = "error" /\ Revoke(j, w, new("stop"))
        \/ record[w].status \notin Failed /\ Go(j, new("reserve")) /\ UNCHANGED handle
  /\ UnchangedByCall

Pause(j, w) ==
  /\ Called(j, "pause") /\ record[w].status # "absent"
  /\ Revoke(j, w, New("pause", "pause", w)) /\ UnchangedByCall

Reconcile(j, w) ==
  /\ Called(j, "reconcile") /\ record[w].status \notin Gone /\ handle[w] = NoHandle
  /\ Go(j, New("reconcile", "prove", w)) /\ UNCHANGED handle /\ UnchangedByCall

\* removeWorker: a running worker is stopped first; a task it holds was cancelled
Remove(j, w) ==
  /\ Called(j, "remove") /\ task # w
  /\ IF handle[w] = NoHandle THEN Go(j, New("remove", "remove", w)) /\ UNCHANGED handle
     ELSE Revoke(j, w, New("remove", "stop", w))
  /\ UnchangedByCall

Call(j, w) ==
  \/ Start(j, w) \/ Switch(j, w) \/ Stop(j, w) \/ Restart(j, w) \/ Reset(j, w)
  \/ Dispatch(j, w) \/ Resume(j, w) \/ Recover(j, w) \/ Pause(j, w) \/ Reconcile(j, w)
  \/ Remove(j, w)

------------------------------------------------------------------------------
(* switchTo and standDownForDispatch: who must step down.                  *)

Choose(j) ==
  /\ At(j, "choose") /\ Free
  /\ LET w == job[j].w
         refused(o) == main # "up" \/ task = o \/ handle[o] = NoHandle
     IN \/ Others(w) = {} /\ Goto(j, "reserve")
        \/ \E o \in Others(w) :
             Go(j, IF refused(o) THEN Idle ELSE [To(j, "displace") EXCEPT !.v = o])
  /\ UNCHANGED <<main, epoch, record, past, work, handle, serial, alive, unrecorded>>

Displace(j) ==
  /\ At(j, "displace")
  /\ Revoke(j, job[j].v, [To(j, "stop") EXCEPT !.live = TRUE]) /\ UnchangedByCall

------------------------------------------------------------------------------
(* reserveStart.                                                           *)

AllStoppedOrUnproven == \A w \in Worker : record[w].status \in Gone \cup {"unproven"}
AllStopped == \A w \in Worker : record[w].status \in Gone
HandlesClosed == \A w \in Worker : handle[w].phase \in {"none", "closed"}

\* what the caller's transaction asserts first
MayReserve(j) ==
  LET w == job[j].w  kind == job[j].kind IN
  /\ main = "up"
  /\ IF kind = "restart" THEN job[j].live /\ handle[w] = NoHandle ELSE ~Restarting(w)
  /\ job[j].assign => IF kind = "dispatch" THEN task = Nobody ELSE task = w /\ paused

Reusable(w) ==
  /\ handle[w] # NoHandle /\ handle[w].phase \notin {"fault", "closed"}
  /\ record[w].status \notin Failed /\ RuntimeCurrent(w) /\ handle[w].controls = 0
Launchable(w) == handle[w] = NoHandle /\ AllStopped /\ HandlesClosed /\ launched < MaxGen

\* the caller's transaction ends with its task on this runtime
Assign(j) ==
  IF job[j].assign THEN task' = job[j].w /\ paused' = FALSE ELSE UNCHANGED work

ReserveRetained(j) ==
  /\ At(j, "reserve") /\ Free /\ MayReserve(j) /\ Reusable(job[j].w)
  /\ Go(j, [To(j, "launch") EXCEPT !.gen = handle[job[j].w].gen, !.live = TRUE])
  /\ Assign(j)
  /\ UNCHANGED <<main, epoch, record, past, handle, serial, alive, unrecorded>>

ReserveFresh(j) ==
  /\ At(j, "reserve") /\ Free /\ MayReserve(j) /\ Launchable(job[j].w)
  /\ Go(j, [To(j, "reserving") EXCEPT !.live = TRUE]) /\ serial' = j
  /\ UNCHANGED <<main, epoch, record, past, work, handle, alive, unrecorded>>

ReserveRefused(j) ==
  /\ At(j, "reserve") /\ Free
  /\ ~(MayReserve(j) /\ (Reusable(job[j].w) \/ Launchable(job[j].w)))
  /\ Drop(j)
  /\ UNCHANGED <<main, epoch, record, past, work, handle, serial, alive, unrecorded>>

\* a transaction that throws leaves the queue to the next one
LeaveStuck == UNCHANGED serial
Leave == serial' = Nobody

\* the profile or the repository was refused, or the start was revoked meanwhile
ReserveFails(j) ==
  /\ At(j, "reserving") /\ main # "down"
  /\ Drop(j) /\ Leave
  /\ UNCHANGED <<main, epoch, record, past, work, handle, alive, unrecorded>>

NewGeneration(j) ==
  record' = [record EXCEPT ![job[j].w] =
    [status |-> "starting", gen |-> launched + 1, pid |-> 0,
     born |-> IF @ = NoRecord THEN launched + 1 ELSE @.born]]
ReserveCommit(j) ==
  /\ At(j, "reserving") /\ job[j].live /\ main = "up"
  /\ NewGeneration(j) /\ launched' = launched + 1
  /\ Go(j, [To(j, "building") EXCEPT !.gen = launched + 1])
  /\ UNCHANGED <<main, epoch, work, handle, serial, alive, unrecorded, overwritten>>

\* the runtime exists; a dispatch or a resume may still throw behind it
ReserveBuild(j) ==
  /\ At(j, "building") /\ job[j].live /\ main = "up"
  /\ handle' = [handle EXCEPT ![job[j].w] = [gen |-> job[j].gen, phase |-> "cold", controls |-> 0]]
  /\ serial' = Nobody
  /\ \/ Goto(j, "launch") /\ Assign(j)
     \/ job[j].assign /\ Drop(j) /\ UNCHANGED work
  /\ UNCHANGED <<main, epoch, record, past, alive, unrecorded>>

UndoKeepingStatus(j) == UNCHANGED record
Undo(j) == SetStatus(job[j].w, "stopped")
ReserveUndone(j) ==
  /\ At(j, "building") /\ main # "down"
  /\ Undo(j) /\ Drop(j) /\ Leave
  /\ UNCHANGED <<main, epoch, past, work, handle, alive, unrecorded>>

------------------------------------------------------------------------------
(* startReserved.                                                          *)

Launch(j) ==
  /\ At(j, "launch")
  /\ Go(j, IF LaunchCurrent(j) THEN To(j, "await") ELSE Idle)
  /\ UNCHANGED handle /\ UnchangedByCall

\* ensureStarted resolves
Resolves(j) == LET h == handle[job[j].w] IN h.gen = job[j].gen /\ h.phase = "ready"
Started(j) ==
  /\ At(j, "await") /\ Resolves(j)
  /\ Go(j, IF LaunchCurrent(j) THEN To(j, "commit") ELSE Idle)
  /\ UNCHANGED handle /\ UnchangedByCall

StartupOverUnlessGone(h) == h.phase \in {"barred", "fault"}
StartupOver(h) == h.phase \in {"barred", "fault", "closed"}
\* ensureStarted rejects: a startup still current is stopped, any other left alone
Rejects(j) == LET h == handle[job[j].w] IN h.gen = job[j].gen => StartupOver(h)
StartFails(j) ==
  LET w == job[j].w IN
  /\ At(j, "await") /\ Rejects(j)
  /\ handle' = IF handle[w].gen = job[j].gen THEN [handle EXCEPT ![w] = Ended(@)] ELSE handle
  /\ Go(j, IF LaunchCurrent(j) THEN To(j, "failed") ELSE Idle)
  /\ UnchangedByCall

\* a start by switchTo for a dispatch is followed by the dispatch
StartCommit(j) ==
  /\ At(j, "commit") /\ Free
  /\ IF ~LaunchCurrent(j) THEN Drop(j) /\ UNCHANGED record
     ELSE /\ record' = [record EXCEPT ![job[j].w].pid = job[j].gen,
                               ![job[j].w].status = IF @ = "starting" THEN "ready" ELSE @]
          /\ Go(j, IF job[j].assign THEN To(j, "grant")
                   ELSE IF job[j].kind = "dispatch" THEN [To(j, "reserve") EXCEPT !.assign = TRUE]
                   ELSE Idle)
  /\ UNCHANGED <<main, epoch, past, work, handle, serial, alive, unrecorded>>

\* after abortAndStop: an exit, or behind SIGKILL an exit unconfirmed
StartHeld(j) ==
  /\ At(j, "failed") /\ Free
  /\ LET w == job[j].w IN
     IF job[j].live /\ handle[w].gen = job[j].gen /\ record[w].gen = job[j].gen
     THEN SetStatus(w, "error") ELSE UNCHANGED record
  /\ Go(j, IF job[j].assign THEN To(j, "interrupt") ELSE Idle)
  /\ UNCHANGED <<main, epoch, past, work, handle, serial, alive, unrecorded>>

------------------------------------------------------------------------------
(* interrupt, pause and contain.                                           *)

Control(j, w, stage) ==
  [job[j] EXCEPT !.at = stage, !.live = TRUE, !.handle = handle[w].gen, !.gen = record[w].gen, !.assign = FALSE]
Counted(h) == [h EXCEPT !.controls = @ + 1]
\* abortCurrent: a runtime that cannot be retained is ended; one that can may still
\* fail to come to rest, which is a Fault like any other
Aborted(h) == IF h.phase = "ready" THEN h ELSE Ended(h)

InterruptBy(j, w, next) ==
  /\ job' = [Supersede({w}) EXCEPT ![j] = next]
  /\ handle' = [handle EXCEPT ![w] = Counted(Ended(@))]
  /\ record' = [record EXCEPT ![w].status = IF @ = "stopped" THEN @ ELSE "error"]
  /\ Hold(w)

\* activate(): the worker is given its lease, or the activation fails
Grant(j) ==
  LET w == job[j].w IN
  /\ At(j, "grant") /\ Free
  /\ \/ LaunchCurrent(j) /\ task = w /\ ~paused /\ SetStatus(w, "ready") /\ Drop(j)
     \/ Goto(j, "interrupt") /\ UNCHANGED record
  /\ UNCHANGED <<main, epoch, past, work, handle, serial, alive, unrecorded>>

\* activationFailed
Interrupt(j) ==
  /\ At(j, "interrupt") /\ Free
  /\ IF LaunchCurrent(j) /\ task = job[j].w
     THEN InterruptBy(j, job[j].w, Control(j, job[j].w, "contained"))
     ELSE Drop(j) /\ UNCHANGED <<handle, record, paused>>
  /\ UNCHANGED <<main, epoch, past, task, serial, alive, unrecorded>>

\* #scanWorker finds the runtime faulted or its process gone
ScanFault(j, w) ==
  /\ j \in Slot /\ job[j] = Idle /\ Free /\ main = "up"
  /\ handle[w].phase \in {"fault", "closed"} /\ record[w].status \notin Failed
  /\ InterruptBy(j, w, [New("scan", "contained", w) EXCEPT !.live = TRUE, !.handle = handle[w].gen, !.gen = record[w].gen])
  /\ UNCHANGED <<main, epoch, past, task, serial, alive, unrecorded>>

PauseBegin(j) ==
  LET w == job[j].w IN
  /\ At(j, "pause") /\ Free
  /\ IF ~job[j].live \/ task # w
     THEN Drop(j) /\ UNCHANGED <<record, handle, paused>>
     ELSE /\ Go(j, IF handle[w] = NoHandle THEN Idle ELSE Control(j, w, "contained"))
          /\ handle' = IF handle[w] = NoHandle THEN handle ELSE [handle EXCEPT ![w] = Counted(Aborted(@))]
          /\ record' = [record EXCEPT ![w].status = IF @ = "starting" THEN "ready" ELSE @]
          /\ paused' = TRUE
  /\ UNCHANGED <<main, epoch, past, task, serial, alive, unrecorded>>

Owns(j, w) == job[j].handle # 0 /\ handle[w].gen = job[j].handle
Over(j, w) == ~Owns(j, w) \/ handle[w].phase = "closed"
ReleaseControl(j, w) ==
  handle' = IF Owns(j, w) THEN [handle EXCEPT ![w] = Released(@)] ELSE handle

Contained(j) ==
  LET w == job[j].w IN
  /\ At(j, "contained") /\ Free
  /\ \E failed \in BOOLEAN :
       /\ failed \/ job[j].kind = "pause" \/ Over(j, w)
       /\ IF ~ControlCurrent(j) THEN UNCHANGED record
          ELSE IF failed THEN SetStatus(w, "unproven")
          ELSE IF handle[w].phase = "closed" THEN SetStatus(w, "error") ELSE UNCHANGED record
  /\ ReleaseControl(j, w) /\ Drop(j)
  /\ UNCHANGED <<main, epoch, past, work, serial, alive, unrecorded>>

------------------------------------------------------------------------------
(* stopReserved, and what follows it in the function that called it.       *)

After(j) ==
  LET kind == job[j].kind IN
  IF kind \in {"stop", "close"} THEN Idle
  ELSE [job[j] EXCEPT !.at = CASE kind = "reset" -> "discard" [] kind = "remove" -> "remove"
                               [] OTHER -> "reserve",
          !.v = job[j].w, !.gen = 0, !.handle = 0, !.assign = kind = "recover",
          !.live = kind \in {"reset", "restart"} /\ @]

\* the stop throws: close keeps the lock, every other call just fails
StopThrows(j) == Drop(j) /\ main' = IF job[j].kind = "close" THEN "held" ELSE main

StopBegin(j) ==
  LET v == job[j].v IN
  /\ At(j, "stop") /\ Free
  /\ IF record[v].status = "absent" \/ ~job[j].live
     THEN Go(j, After(j)) /\ UNCHANGED <<main, record, handle, paused>>
     ELSE IF handle[v] = NoHandle /\ record[v].status # "stopped"
     THEN StopThrows(j) /\ UNCHANGED <<record, handle, paused>>
     ELSE /\ Go(j, Control(j, v, "exiting")) /\ Hold(v)
          /\ IF handle[v] = NoHandle THEN UNCHANGED <<record, handle>>
             ELSE SetStatus(v, "error") /\ handle' = [handle EXCEPT ![v] = Counted(Ended(@))]
          /\ UNCHANGED main
  /\ UNCHANGED <<epoch, past, task, serial, alive, unrecorded>>

MayConcludeUnproven(j) == TRUE
MayConclude(j) == Over(j, job[j].v)
Concluded(j, v) ==
  /\ record' = [record EXCEPT ![v].status = "stopped"]
  /\ handle' = [handle EXCEPT ![v] = NoHandle]
StopEnds(j) ==
  LET v == job[j].v IN
  /\ At(j, "exiting") /\ Free
  /\ \/ /\ MayConclude(j) /\ Go(j, After(j)) /\ UNCHANGED main
        /\ IF ControlCurrent(j) THEN Concluded(j, v)
           ELSE UNCHANGED record /\ ReleaseControl(j, v)
     \/ /\ job[j].handle # 0 /\ StopThrows(j) /\ ReleaseControl(j, v)
        /\ IF ControlCurrent(j) THEN SetStatus(v, "unproven") ELSE UNCHANGED record
  /\ UNCHANGED <<epoch, past, work, serial, alive, unrecorded>>

------------------------------------------------------------------------------
(* reset, removeWorker, reconcile and recover.                             *)

ResetBegin(j) ==
  LET w == job[j].w IN
  /\ At(j, "reset") /\ Free
  /\ Go(j, IF record[w].status # "absent" /\ task # w
                /\ (handle[w] # NoHandle \/ record[w].status = "stopped")
           THEN [To(j, "stop") EXCEPT !.born = record[w].born] ELSE Idle)
  /\ UNCHANGED <<main, epoch, record, past, work, handle, serial, alive, unrecorded>>

Discard(j) ==
  LET w == job[j].w IN
  /\ At(j, "discard") /\ Free /\ Drop(j)
  /\ record' = IF job[j].live /\ record[w].born = job[j].born /\ record[w].status = "stopped"
                    /\ handle[w] = NoHandle
               THEN [record EXCEPT ![w] = NoRecord] ELSE record
  /\ UNCHANGED <<main, epoch, past, work, handle, serial, alive, unrecorded>>

\* removeWorker: its assertions, and what it fences the deletion with
RemoveFenced(j) ==
  LET w == job[j].w  r == record[w] IN
  /\ At(j, "remove")
  /\ Go(j, IF handle[w] # NoHandle \/ task = w \/ r.status \notin Gone THEN Idle
           ELSE [To(j, IF r = NoRecord THEN "save" ELSE "archive")
                   EXCEPT !.live = TRUE, !.gen = r.gen, !.born = r.born])
  /\ UNCHANGED handle /\ UnchangedByCall

RemoveArchived(j) ==
  LET w == job[j].w IN
  /\ At(j, "archive") /\ Free
  /\ IF /\ job[j].live /\ record[w].born = job[j].born /\ record[w].status = "stopped"
        /\ handle[w] = NoHandle
     THEN record' = [record EXCEPT ![w] = NoRecord] /\ Goto(j, "save")
     ELSE UNCHANGED record /\ Drop(j)
  /\ UNCHANGED <<main, epoch, past, work, handle, serial, alive, unrecorded>>

\* the caller saves the configuration without the worker, outside the queue; a worker
\* that is gone from it may be added again at once
RemoveSaved(j) ==
  /\ At(j, "save") /\ (Drop(j) \/ (job[j].gen # 0 /\ Goto(j, "restore")))
  /\ UNCHANGED handle /\ UnchangedByCall

\* the save failed: the record comes back, unless the worker has another by now; the
\* process ID of a stopped record is not read again
RemoveUndone(j) ==
  LET w == job[j].w IN
  /\ At(j, "restore") /\ Free /\ Drop(j)
  /\ record' = IF record[w] # NoRecord \/ ~job[j].live THEN record
               ELSE [record EXCEPT ![w] =
                       [NoRecord EXCEPT !.status = "stopped", !.gen = job[j].gen, !.born = job[j].born]]
  /\ UNCHANGED <<main, epoch, past, work, handle, serial, alive, unrecorded>>

\* exitProof without a handle: the recorded process is gone
Provable(w) == record[w].pid # 0 /\ record[w].pid \notin alive
\* reconcile with force: the human has looked
Vouched(j) == job[j].kind = "reconcile" /\ record[job[j].w].gen \notin alive
Prove(j) ==
  /\ At(j, "prove")
  /\ \/ (Provable(job[j].w) \/ Vouched(j)) /\ Goto(j, "accept")
     \/ Drop(j)
  /\ UNCHANGED handle /\ UnchangedByCall

ReconcileFenceByRecord(j) == main = "up" /\ record[job[j].w].born = job[j].born
ReconcileFence(j) == /\ main = "up" /\ record[job[j].w].born = job[j].born
                     /\ handle[job[j].w] = NoHandle
\* recover() compares the worker's identity only: the record it settles may be that of
\* a process started since the proof
Overwrites(j) ==
  LET w == job[j].w
  IN /\ job[j].kind = "recover" /\ record[w].born = job[j].born
     /\ handle[w] # NoHandle \/ record[w].status \notin Gone \cup {"unproven"}
Accept(j) ==
  LET w == job[j].w IN
  /\ At(j, "accept") /\ Free
  /\ \/ /\ job[j].kind = "reconcile" /\ Drop(j)
        /\ IF ReconcileFence(j) THEN SetStatus(w, "stopped") /\ Hold(w)
           ELSE UNCHANGED <<record, paused>>
     \/ /\ job[j].kind = "recover" /\ Go(j, [To(j, "reserve") EXCEPT !.assign = TRUE])
        /\ IF record[w].born = job[j].born THEN SetStatus(w, "stopped") ELSE UNCHANGED record
        /\ UNCHANGED paused
  /\ overwritten' = (overwritten \/ Overwrites(j))
  /\ UNCHANGED <<main, epoch, launched, task, handle, serial, alive, unrecorded>>

------------------------------------------------------------------------------
(* The runtime and its process.                                            *)

UnchangedByRuntime == UNCHANGED <<main, epoch, record, past, work, calls>>
Awaited(w) == \E j \in Job : At(j, "await") /\ job[j].w = w /\ job[j].gen = handle[w].gen

Spawn(w) ==
  /\ handle[w].phase = "cold" /\ Awaited(w) /\ RuntimeCurrent(w)
  /\ handle' = [handle EXCEPT ![w].phase = "up"]
  /\ alive' = alive \cup {handle[w].gen} /\ unrecorded' = unrecorded \cup {handle[w].gen}
  /\ UnchangedByRuntime

\* startup ends before the process exists
SpawnFails(w) ==
  /\ handle[w].phase = "cold" /\ Awaited(w)
  /\ handle' = [handle EXCEPT ![w].phase = "closed"]
  /\ UNCHANGED <<alive, unrecorded>> /\ UnchangedByRuntime

Ready(w) ==
  /\ handle[w].phase = "up" /\ RuntimeCurrent(w)
  /\ handle' = [handle EXCEPT ![w].phase = "ready"]
  /\ UNCHANGED <<alive, unrecorded>> /\ UnchangedByRuntime

\* #hold: an error or the deadline of the startup, or a fault later on
Held(w, phases) ==
  /\ handle[w].phase \in phases
  /\ handle' = [handle EXCEPT ![w].phase = "fault"]
  /\ UNCHANGED <<alive, unrecorded>> /\ UnchangedByRuntime
StartupEnds(w) == Held(w, {"up", "failing"})
Fault(w) == Held(w, {"ready"})

Exit(g) ==
  /\ g \in alive /\ alive' = alive \ {g}
  /\ handle' = [w \in Worker |->
       IF handle[w].gen = g THEN [handle[w] EXCEPT !.phase = "closed"] ELSE handle[w]]
  /\ UNCHANGED unrecorded /\ UnchangedByRuntime

\* onSpawn's transaction
RecordPid(g) ==
  /\ g \in unrecorded /\ Free /\ unrecorded' = unrecorded \ {g}
  /\ record' = [w \in Worker |->
       IF record[w].gen = g THEN [record[w] EXCEPT !.pid = g] ELSE record[w]]
  /\ UNCHANGED <<main, epoch, past, work, handle, calls, alive>>

\* the task is completed or cancelled
TaskEnds ==
  /\ main = "up" /\ Free /\ task # Nobody /\ task' = Nobody /\ paused' = FALSE
  /\ UNCHANGED <<main, epoch, record, past, handle, calls, alive, unrecorded>>

------------------------------------------------------------------------------
(* Main: close, death, and the next session.                               *)

Close ==
  /\ main = "up" /\ main' = "closing"
  /\ job' = Supersede({w \in Worker : handle[w] # NoHandle})
  /\ handle' = [w \in Worker |-> Revoked(handle[w])]
  /\ UNCHANGED <<epoch, record, past, work, serial, alive, unrecorded>>

\* every recorded worker is stopped
CloseStops ==
  /\ main = "closing" /\ Free /\ main' = "draining"
  /\ LET W == {w \in Worker : record[w].status # "absent"}
     IN /\ job' = [k \in Job |-> IF k \in W THEN New("close", "stop", k) ELSE Supersede(W)[k]]
        /\ handle' = [w \in Worker |-> IF w \in W THEN Revoked(handle[w]) ELSE handle[w]]
  /\ UNCHANGED <<epoch, record, past, work, serial, alive, unrecorded>>

CloseEnds ==
  /\ main = "draining" /\ Free /\ unrecorded = {} /\ \A w \in Worker : job[w] = Idle
  /\ main' = IF AllStopped /\ HandlesClosed THEN "closed" ELSE "held"
  /\ UNCHANGED <<epoch, record, past, work, handle, calls, alive, unrecorded>>

\* Main's process ends; its workers see the end of stdin and go when they go
Crash ==
  /\ main # "down" /\ main' = "down"
  /\ handle' = [w \in Worker |-> NoHandle] /\ job' = [j \in Job |-> Idle]
  /\ serial' = Nobody /\ unrecorded' = {}
  /\ UNCHANGED <<epoch, record, past, work, alive>>

\* init(): a record that is not stopped needs a proof
NextSession ==
  /\ main = "down" /\ epoch < MaxEpoch /\ main' = "up" /\ epoch' = epoch + 1
  /\ \E proven \in SUBSET {w \in Worker : Provable(w)} :
       record' = [w \in Worker |->
         IF record[w].status \in Gone THEN record[w]
         ELSE [record[w] EXCEPT !.status = IF w \in proven THEN "stopped" ELSE "unproven"]]
  /\ paused' = (task # Nobody)
  /\ UNCHANGED <<past, task, handle, calls, alive, unrecorded>>

------------------------------------------------------------------------------
Queued(j) ==
  \/ Choose(j) \/ ReserveRetained(j) \/ ReserveFresh(j) \/ ReserveRefused(j) \/ StartCommit(j)
  \/ StartHeld(j) \/ Grant(j) \/ Interrupt(j) \/ PauseBegin(j) \/ Contained(j) \/ StopBegin(j) \/ StopEnds(j)
  \/ ResetBegin(j) \/ Discard(j) \/ Accept(j) \/ RemoveArchived(j) \/ RemoveUndone(j)
Holding(j) == ReserveFails(j) \/ ReserveCommit(j) \/ ReserveBuild(j) \/ ReserveUndone(j)
Continues(j) ==
  \/ Displace(j) \/ Launch(j) \/ Started(j) \/ StartFails(j) \/ Prove(j)
  \/ RemoveFenced(j) \/ RemoveSaved(j)

JobStep(j) == Queued(j) \/ Holding(j) \/ Continues(j)
Runtime(w) == Spawn(w) \/ SpawnFails(w) \/ Ready(w) \/ StartupEnds(w) \/ Fault(w)
Session    == Close \/ CloseStops \/ CloseEnds \/ Crash \/ NextSession

Next ==
  \/ \E j \in Job : JobStep(j)
  \/ \E j \in Slot, w \in Worker : Call(j, w) \/ ScanFault(j, w)
  \/ \E w \in Worker : Runtime(w)
  \/ \E g \in 1..launched : Exit(g) \/ RecordPid(g)
  \/ TaskEnds \/ Session

Spec == Init /\ [][Next]_vars

------------------------------------------------------------------------------
\* At most one worker process is alive, over all workers and all sessions of Main.
OneWriter == Cardinality(alive) <= 1

\* A live process is never forgotten: the record of its worker names its generation
\* and does not say stopped, so that a later session will ask for a proof.
NoProcessForgotten ==
  \A g \in alive : \E w \in Worker : record[w].gen = g /\ record[w].status \notin Gone

\* The owner lock is released only when every process is gone, and none starts after.
CloseReleases == main = "closed" => alive = {}

\* While Main runs, a record that is neither stopped nor held as unproven has its
\* runtime, or a start in the queue that is about to build it.
RecordHasOwner ==
  main # "down" => \A w \in Worker :
    record[w].status \in {"starting", "ready", "error"} =>
      \/ handle[w].gen = record[w].gen
      \/ serial # Nobody /\ job[serial].at = "building" /\ job[serial].w = w

\* Nobody waits for what cannot come: who holds the queue is about to leave it, and a
\* call that awaits a startup is answered as soon as the runtime has nothing more to do.
NobodyIsStuck ==
  /\ serial # Nobody => job[serial].at \in {"reserving", "building"}
  /\ \A j \in Job :
       At(j, "await") /\ handle[job[j].w].phase \notin {"cold", "up", "failing"}
         => Resolves(j) \/ Rejects(j)

\* Every process that lives, and every record that claims one, is somebody's to end.
ProcessesAreKnown == NoProcessForgotten /\ CloseReleases /\ RecordHasOwner
------------------------------------------------------------------------------
(* The inductive invariant behind OneWriter and ProcessesAreKnown.         *)

\* generations are numbered as they are reserved, and a pid is that of its generation
InvNumbers ==
  /\ alive \subseteq 1..launched
  /\ \A w \in Worker :
       /\ record[w].gen <= launched /\ record[w].pid \in {0, record[w].gen}
       /\ record[w].status \notin Gone => record[w].gen # 0
       /\ handle[w].gen <= launched /\ (handle[w].gen = 0 => handle[w] = NoHandle)

\* one record at most is not settled, and every runtime is the one its record names
InvRecords ==
  /\ \A v, w \in Worker : record[v].status \notin Gone /\ record[w].status \notin Gone => v = w
  /\ \A w \in Worker : handle[w] # NoHandle =>
       record[w].gen = handle[w].gen /\ record[w].status \notin Gone

\* a runtime that has spawned nothing, or is closed, has no process
InvProcesses ==
  \A w \in Worker : handle[w].phase \in {"none", "cold", "barred", "closed"} => handle[w].gen \notin alive

\* the queue is held by a reservation: nothing runs while one is under way
InvSerial ==
  /\ serial # Nobody => serial \in Job /\ job[serial].at \in {"reserving", "building"}
  /\ \A j \in Job :
       /\ job[j].at \in {"reserving", "building"} => serial = j
       /\ job[j].at = "reserving" => AllStopped
       /\ job[j].at = "building" =>
            LET w == job[j].w
            IN /\ record[w].status = "starting" /\ record[w].gen = job[j].gen
               /\ handle[w] = NoHandle /\ job[j].gen \notin alive

Starting == {"building", "launch", "await", "commit", "failed", "grant", "interrupt"}
Settling == {"prove", "accept"}
\* what a call in progress still knows of the worker it is about
Knows(j) ==
  LET a == job[j].at  w == job[j].w  v == job[j].v IN
  /\ job[j].gen <= launched /\ (a \in Starting => job[j].gen # 0)
  /\ a = "contained" => job[j].handle # 0
  /\ a = "exiting" /\ job[j].handle = 0 /\ record[v].gen = job[j].gen => record[v].status \in Gone
  /\ a = "accept" /\ serial = Nobody /\ handle[w] = NoHandle /\ record[w].status \notin Gone =>
       record[w].gen \notin alive
  /\ a \in Settling => job[j].kind \in {"recover", "reconcile"}
InvJobs == \A j \in Job : Knows(j)

InvDown ==
  main = "down" =>
    /\ serial = Nobody
    /\ \A w \in Worker : handle[w] = NoHandle
    /\ \A j \in Job : job[j] = Idle

\* all of which holds until a recovery overwrites the record of what was started since
GenInv ==
  /\ InvNumbers /\ InvRecords /\ InvProcesses /\ InvSerial /\ InvJobs /\ InvDown
  /\ ProcessesAreKnown
==============================================================================
