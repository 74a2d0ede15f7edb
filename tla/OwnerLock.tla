------------------------------ MODULE OwnerLock ------------------------------
(***************************************************************************)
(* acquireLock (util.js): the directory lock that keeps two Mains from     *)
(* owning one session (.owner-lock) or writing one repository              *)
(* (.writer-lock).  A staged directory is renamed over the lock, which     *)
(* fails while the lock holds an owner.json; the contender then reads the  *)
(* owner, and removes the lock when that owner is dead.  Every filesystem  *)
(* call is a step of its own: nothing ties the removal to the owner read.  *)
(***************************************************************************)
EXTENDS Naturals

CONSTANTS
  Procs,       \* the processes that contend
  SessionOf    \* the state directory each of them records in its owner.json

ASSUME LockAssumption ==
  /\ DOMAIN SessionOf = Procs
  /\ {"absent", "empty"} \cap Procs = {}

VARIABLES
  purpose,    \* session (.owner-lock, no takeover) or repository (.writer-lock)
  lock,    \* absent, empty (owner.json is gone, the directory is not) or its owner
  pc,      \* where each process is
  seen,    \* the owner each contender judges or removes; "absent" when there was none
  tries,   \* failed attempts of the acquisition in progress
  task,    \* what each session's saved state has on the repository: none, an open
           \* task, or one recorded by a Main that had lost the lock
  blind,   \* contenders that could not read the saved state of the owner they judged
  robbed,  \* history: who lost the lock to a removal that was not meant for it
  beaten   \* history: contenders during whose attempts another acquired the lock

attempt  == <<seen, tries, blind, beaten>>
lockVars == <<purpose, lock, pc, attempt, task, robbed>>

Attempts == 3
Sessions == {SessionOf[p] : p \in Procs}
Trying   == {"rename", "read", "stat", "judge", "unlink", "rmdir"}

\* Types of every variable.
LockTypeOK ==
  /\ purpose \in {"session", "repository"}
  /\ lock \in {"absent", "empty"} \cup Procs
  /\ pc \in [Procs -> Trying \cup {"idle", "held", "freeing", "freed", "dead"}]
  /\ seen \in [Procs -> {"absent"} \cup Procs]
  /\ tries \in [Procs -> Nat]
  /\ task \in [Sessions -> {"none", "open", "stray"}]
  /\ blind \subseteq Procs /\ robbed \subseteq Procs /\ beaten \subseteq Procs

LockInit ==
  /\ purpose \in {"session", "repository"} /\ lock = "absent"
  /\ pc = [p \in Procs |-> "idle"] /\ seen = [p \in Procs |-> "absent"]
  /\ tries = [p \in Procs |-> 0] /\ task = [s \in Sessions |-> "none"]
  /\ blind = {} /\ robbed = {} /\ beaten = {}

LockGoto(p, place) == pc' = [pc EXCEPT ![p] = place]

\* the acquisition is over, one way or the other
Leave(p, place) ==
  /\ LockGoto(p, place)
  /\ seen' = [seen EXCEPT ![p] = "absent"] /\ tries' = [tries EXCEPT ![p] = 0]
  /\ blind' = blind \ {p}

\* the staging directory is ready; nothing keeps another contender from trying too
StageLock(p) ==
  /\ pc[p] = "idle"
  /\ LockGoto(p, "rename") /\ UNCHANGED <<purpose, lock, attempt, task, robbed>>

\* rename(2) replaces an absent or empty directory, and nothing else
RenameLock(p) ==
  /\ pc[p] = "rename"
  /\ IF lock \in Procs
     THEN LockGoto(p, "read") /\ UNCHANGED <<lock, attempt>>
     ELSE /\ Leave(p, "held") /\ lock' = p
          /\ beaten' = {q \in Procs \ {p} : pc[q] \in Trying}
  /\ UNCHANGED <<purpose, task, robbed>>

OwnerRead(there) == IF there \in Procs THEN there ELSE "absent"

Read(p) ==
  /\ pc[p] = "read" /\ seen' = [seen EXCEPT ![p] = OwnerRead(lock)]
  /\ LockGoto(p, IF lock \in Procs THEN "judge" ELSE "stat")
  /\ UNCHANGED <<purpose, lock, tries, task, blind, robbed, beaten>>

\* there was no owner.json: a directory that is gone is no obstacle, one that is there
\* is removed when it is older than ORPHAN_LOCK_MS, and otherwise respected
Stat(p) ==
  /\ pc[p] = "stat"
  /\ \/ LockGoto(p, "unlink") /\ UNCHANGED attempt
     \/ lock # "absent" /\ Leave(p, "idle") /\ beaten' = beaten \ {p}
  /\ UNCHANGED <<purpose, lock, task, robbed>>

\* ownerAlive refuses; so does takeover() of a repository when the saved state of the
\* dead owner, if it can be read, has an unresolved task of another session
Unresolved(p, owner) ==
  purpose = "repository" /\ SessionOf[owner] # SessionOf[p] /\ task[SessionOf[owner]] # "none"
RemovableWhenSilent(p, owner) == ~Unresolved(p, owner)
RemovableWhenDead(p, owner) == pc[owner] = "dead"
Removable(p, owner) == pc[owner] = "dead" /\ ~Unresolved(p, owner)

Judge(p) ==
  /\ pc[p] = "judge"
  /\ IF Removable(p, seen[p])
     THEN LockGoto(p, "unlink") /\ blind' = blind \ {p} /\ UNCHANGED <<seen, tries, beaten>>
     ELSE Leave(p, "idle") /\ beaten' = beaten \ {p}
  /\ UNCHANGED <<purpose, lock, task, robbed>>

\* state.json of the dead owner cannot be read, which counts as no task
JudgeBlind(p) ==
  /\ pc[p] = "judge" /\ pc[seen[p]] = "dead" /\ Unresolved(p, seen[p])
  /\ blind' = blind \cup {p} /\ LockGoto(p, "unlink")
  /\ UNCHANGED <<purpose, lock, seen, tries, task, robbed, beaten>>

\* rm -r: owner.json first, whoever wrote it, then the directory if still empty
UnlinkedNothing(there) == there
Unlinked(there) == IF there \in Procs THEN "empty" ELSE there
Removed(there) == IF there = "empty" THEN "absent" ELSE there

\* the owner removed here is not the one the removal was meant for
RobbedBy(meant) ==
  robbed' = robbed \cup {p \in Procs \ {meant} : lock = p /\ pc[p] # "dead"}

Unlink(p) ==
  /\ pc[p] = "unlink" /\ lock' = Unlinked(lock) /\ LockGoto(p, "rmdir")
  /\ RobbedBy(seen[p]) /\ UNCHANGED <<purpose, attempt, task>>

\* another owner came between: rm fails, and so does the acquisition
Rmdir(p) ==
  /\ pc[p] = "rmdir" /\ lock' = Removed(lock)
  /\ IF lock \in Procs \/ tries[p] + 1 = Attempts
     THEN Leave(p, "idle") /\ beaten' = beaten \ {p}
     ELSE /\ LockGoto(p, "rename") /\ tries' = [tries EXCEPT ![p] = @ + 1]
          /\ seen' = [seen EXCEPT ![p] = "absent"] /\ UNCHANGED <<blind, beaten>>
  /\ UNCHANGED <<purpose, task, robbed>>

\* the release handed to the holder removes the lock by path, in the same steps
Release(p) ==
  /\ pc[p] = "held" /\ LockGoto(p, "freeing")
  /\ UNCHANGED <<purpose, lock, attempt, task, robbed>>

ReleaseUnlink(p) ==
  /\ pc[p] = "freeing" /\ lock' = Unlinked(lock) /\ LockGoto(p, "freed") /\ RobbedBy(p)
  /\ UNCHANGED <<purpose, attempt, task>>

ReleaseRmdir(p) ==
  /\ pc[p] = "freed" /\ lock' = Removed(lock) /\ LockGoto(p, "idle")
  /\ robbed' = robbed \ {p} /\ UNCHANGED <<purpose, attempt, task>>

\* the holder's session records a task on the repository
TaskOpened(p) ==
  /\ pc[p] = "held" /\ task[SessionOf[p]] = "none"
  /\ task' = [task EXCEPT ![SessionOf[p]] = IF p \in robbed THEN "stray" ELSE "open"]
  /\ UNCHANGED <<purpose, lock, pc, attempt, robbed>>

\* a Main of the session finishes or cancels it, which needs no lock
TaskResolved(p) ==
  /\ pc[p] # "dead" /\ task' = [task EXCEPT ![SessionOf[p]] = "none"]
  /\ UNCHANGED <<purpose, lock, pc, attempt, robbed>>

HolderCrash(p) ==
  /\ pc[p] # "dead" /\ Leave(p, "dead") /\ beaten' = beaten \ {p}
  /\ robbed' = robbed \ {p} /\ UNCHANGED <<purpose, lock, task>>

Step(p) ==
  \/ StageLock(p) \/ RenameLock(p) \/ Read(p) \/ Stat(p) \/ Judge(p) \/ JudgeBlind(p)
  \/ Unlink(p) \/ Rmdir(p) \/ Release(p) \/ ReleaseUnlink(p) \/ ReleaseRmdir(p)
  \/ TaskOpened(p) \/ TaskResolved(p) \/ HolderCrash(p)

LockNext == \E p \in Procs : Step(p)
LockSpec == LockInit /\ [][LockNext]_lockVars

-----------------------------------------------------------------------------
\* "Never attach two controllers to one session": two live processes both believe
\* that they own the lock only if one of them was robbed of it, by a contender that
\* had judged another owner (or none), or by the release of one robbed before.
SoleOwner ==
  \A p, q \in Procs : pc[p] = "held" /\ pc[q] = "held" => p = q \/ {p, q} \cap robbed # {}

\* "Two workers must not write one repository": while the session of a crashed Main
\* has an unresolved task, its lock goes only to a process of that session, to one
\* that could not read its state, or to a removal that was meant for another owner.
UnresolvedKeepsLock ==
  [][\A p \in Procs :
       purpose = "repository" /\ lock = p /\ pc[p] = "dead" /\ task[SessionOf[p]] = "open"
           /\ lock' # p
         => \E q \in Procs :
              \/ pc[q] = "unlink" /\ pc'[q] = "rmdir"
                   /\ (SessionOf[q] = SessionOf[p] \/ q \in blind \/ seen[q] # p)
              \/ pc[q] = "freeing" /\ pc'[q] = "freed" /\ q \in robbed]_lockVars

\* A dead owner never locks the others out: an acquisition that has removed a lock
\* ends without it only if another process acquired it meanwhile.
TakeoverSucceeds ==
  [][\A p \in Procs :
       pc[p] \in Trying /\ (pc[p] = "rmdir" \/ tries[p] > 0) /\ pc'[p] = "idle"
         => p \in beaten]_lockVars

\* A lock found behind is taken over at once, and only by who may have it.
TakeoversAreRight == UnresolvedKeepsLock /\ TakeoverSucceeds

-----------------------------------------------------------------------------
(* The inductive invariant behind the three, in named parts. *)

\* an owner that was not robbed has its name on the lock
InvNamed == \A p \in Procs : pc[p] \in {"held", "freeing"} /\ p \notin robbed => lock = p

\* what a contender judged removable is dead, and while its name is still on the lock
\* its session has recorded no task that the contender should have respected
InvJudged ==
  \A q \in Procs :
    /\ pc[q] = "judge" => seen[q] \in Procs
    /\ pc[q] = "stat" => seen[q] = "absent"
    /\ pc[q] = "unlink" /\ seen[q] \in Procs =>
         /\ pc[seen[q]] = "dead"
         /\ purpose = "repository" /\ SessionOf[q] # SessionOf[seen[q]] /\ q \notin blind
              /\ lock = seen[q] => task[SessionOf[seen[q]]] # "open"

\* who has removed a lock finds no owner on it, or was beaten to it
InvBeaten ==
  \A p \in Procs :
    /\ pc[p] = "rmdir" \/ (pc[p] = "rename" /\ tries[p] > 0) => lock \notin Procs \/ p \in beaten
    /\ pc[p] \in Trying \ {"rename"} /\ tries[p] > 0 => p \in beaten
    /\ pc[p] \notin Trying => tries[p] = 0

LockInv == InvNamed /\ InvJudged /\ InvBeaten
=============================================================================
