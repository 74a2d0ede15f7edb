------------------------- MODULE Checkpoint_proofs -------------------------
(* Proofs about Checkpoint: the inductive invariant CheckpointInv, and from *)
(* it what Main may rely on when it decides.                                *)
EXTENDS Checkpoint, FiniteSetTheorems, TLAPS

-----------------------------------------------------------------------------
(* Shapes: which record an operation and a task are. *)

\* A tree has files, unlike the marker of a tree that was not captured yet.
LEMMA TreesHaveFiles == \A t \in Trees : t # Pending /\ DOMAIN t = Files
<1>1. 1 \in Files
  BY CheckpointAssumption DEF Files
<1>2. \A t \in Trees : DOMAIN t = Files
  BY DEF Trees
<1>3. DOMAIN Pending = {}
  BY DEF Pending
<1>4. QED
  BY <1>1, <1>2, <1>3

\* An operation is there when it has a step to take.
LEMMA OpShape == ASSUME TypeOK PROVE /\ op.pc = "none" <=> op = NoOp
                                     /\ op # NoOp => op \in OpType
<1>1. NoOp.pc = "none"
  BY DEF NoOp
<1>2. ASSUME op \in OpType PROVE op.pc # "none"
  BY <1>2 DEF OpType
<1>3. QED
  BY <1>1, <1>2 DEF TypeOK

\* A task is there when it has a status.
LEMMA TaskShape == ASSUME TypeOK PROVE /\ task.status = "none" <=> task = NoTask
                                       /\ task # NoTask => task \in TaskType
                                       /\ Active => task \in TaskType
                                       /\ NoTask.status = "none" /\ NoTask.id = 0
<1>1. NoTask.status = "none" /\ NoTask.id = 0
  BY DEF NoTask
<1>2. ASSUME task \in TaskType PROVE task.status # "none"
  BY <1>2 DEF TaskType, Moving
<1>3. QED
  BY <1>1, <1>2 DEF TypeOK, Active, Moving

\* While no transaction is held by the collection, only its flag may be up.
LEMMA SweepShape == ASSUME TypeOK, Idle PROVE sweep \in [pc : {"idle"}, due : BOOLEAN]
  BY DEF TypeOK, SweepType, Idle

\* A decision has an action and the tree it was made on.
LEMMA DealShape == ASSUME TypeOK, deal.action \in {"approve", "fix", "continue"}
                   PROVE deal # NoDeal /\ deal.live \in Trees
<1>1. NoDeal.action = "none"
  BY DEF NoDeal
<1>2. QED
  BY <1>1 DEF TypeOK

\* A report that is there is a record of the worker's.
LEMMA ReportShape == ASSUME TypeOK, InvTask, task.status = "waiting"
                     PROVE task \in TaskType /\ task.report \in ReportType
<1>1. task \in TaskType
  BY TaskShape DEF Active
<1>2. QED
  BY <1>1 DEF InvTask, TaskType

-----------------------------------------------------------------------------
(* What the steps of an operation do to it. *)

Identity == /\ op'.kind = op.kind /\ op'.task = op.task /\ op'.of = op.of
            /\ op'.base = op.base /\ op'.dead = op.dead
Findings == op'.verdict = op.verdict /\ op'.ran = op.ran
Frame    == UNCHANGED <<tree, task, deal, sweep, n, accepted, frozen, seen>>

\* What a capture has read so far.
LEMMA CaptureShape == ASSUME TypeOK, op.pc = "capture"
                      PROVE /\ op \in OpType /\ op.acc \in Partial /\ DOMAIN op.acc \subseteq Files
                            /\ \A f \in DOMAIN op.acc : op.acc[f] \in Contents
                            /\ DOMAIN op.acc = Files => op.acc \in Trees
<1>1. op \in OpType /\ op.acc \in Partial
  BY OpShape DEF OpType
<1>2. PICK D \in SUBSET Files : op.acc \in [D -> Contents]
  BY <1>1 DEF Partial
<1>3. QED
  BY <1>1, <1>2 DEF Trees

\* One more file is read, as it is now.
LEMMA ReadFileOp == ASSUME TypeOK, ReadFile
  PROVE /\ op \in OpType /\ op' \in OpType /\ Identity /\ Findings /\ op.pc = "capture" /\ op'.pc = "capture"
        /\ op'.why = op.why /\ op'.snap = op.snap
        /\ \A f \in DOMAIN op'.acc : \/ f \in DOMAIN op.acc /\ op'.acc[f] = op.acc[f]
                                     \/ f \in Files /\ op'.acc[f] = tree[f]
<1> DEFINE f == NextFile
           a == [g \in DOMAIN op.acc \cup {f} |-> IF g = f THEN tree[f] ELSE op.acc[g]]
<1>1. op.pc = "capture" /\ f \in Files /\ op' = [op EXCEPT !.acc = a]
  BY DEF ReadFile
<1>2. op \in OpType /\ DOMAIN op.acc \subseteq Files /\ \A g \in DOMAIN op.acc : op.acc[g] \in Contents
  BY <1>1, CaptureShape
<1>3. tree[f] \in Contents
  BY <1>1 DEF TypeOK, Trees
<1>4. /\ a \in Partial /\ DOMAIN a = DOMAIN op.acc \cup {f}
      /\ \A g \in DOMAIN a : a[g] = IF g = f THEN tree[f] ELSE op.acc[g]
  <2> HIDE DEF f
  <2>1. DOMAIN op.acc \cup {f} \in SUBSET Files
    BY <1>1, <1>2
  <2>2. a \in [DOMAIN op.acc \cup {f} -> Contents]
    BY <1>2, <1>3
  <2>3. QED
    BY <2>1, <2>2 DEF Partial
<1> HIDE DEF a, f
<1>5. op' \in OpType
  BY <1>1, <1>2, <1>4 DEF OpType
<1>6. /\ Identity /\ Findings /\ op'.pc = "capture" /\ op'.why = op.why /\ op'.snap = op.snap /\ op'.acc = a
  BY <1>1, <1>2 DEF OpType, Identity, Findings
<1>7. \A g \in DOMAIN op'.acc : \/ g \in DOMAIN op.acc /\ op'.acc[g] = op.acc[g]
                                \/ g \in Files /\ op'.acc[g] = tree[g]
  BY <1>1, <1>4, <1>6
<1>8. QED
  BY <1>1, <1>2, <1>5, <1>6, <1>7

\* Nothing is read yet.
LEMMA PendingIsPartial == Pending \in Partial
<1>1. Pending \in [{} -> Contents] /\ {} \in SUBSET Files
  BY DEF Pending
<1>2. QED
  BY <1>1 DEF Partial

\* An operation starts on the task as it is, with nothing read.
LEMMA FreezeOp ==
  ASSUME TypeOK, task \in TaskType, NEW kind \in {"base", "report", "fix"}, NEW of \in Nat, Freeze(kind, of)
  PROVE  /\ op = NoOp /\ op' \in OpType /\ op' # NoOp /\ UNCHANGED <<store, known>> /\ Frame
         /\ op'.kind = kind /\ op'.of = of /\ op'.task = task.id /\ op'.base = task.base /\ op'.dead = FALSE
         /\ op'.pc = "capture" /\ op'.why = "first" /\ op'.acc = Pending /\ op'.snap = Pending
         /\ op'.verdict = "none" /\ op'.ran = {}
<1> DEFINE o == [kind |-> kind, task |-> task.id, of |-> of, base |-> task.base, dead |-> FALSE,
                 pc |-> "capture", why |-> "first", acc |-> Pending, snap |-> Pending, verdict |-> "none",
                 ran |-> {}, checks |-> 0, attempt |-> 1]
<1>1. op' = o /\ op.pc = "none" /\ UNCHANGED <<store, known>> /\ Frame
  BY DEF Freeze, Pending, Frame
<1>2. task.id \in Nat /\ task.base \in Trees \cup {Pending}
  BY CheckpointAssumption DEF TaskType
<1>3. o \in OpType
  BY <1>2, PendingIsPartial DEF OpType
<1>4. o # NoOp
  BY <1>3 DEF OpType, NoOp
<1>5. QED
  BY <1>1, <1>3, <1>4, OpShape

\* A finished capture: all files are read.
LEMMA CapturedOp == ASSUME TypeOK, NEW why, Captured(why)
  PROVE op \in OpType /\ op # NoOp /\ op.acc \in Trees /\ op.pc = "capture" /\ op.why = why /\ ~op.dead
        /\ UNCHANGED <<store, known>> /\ Frame
<1>1. op # NoOp
  BY DEF Captured, NoOp
<1>2. QED
  BY <1>1, CaptureShape, OpShape DEF Captured, Frame

\* The first capture is the tree to be frozen.
LEMMA FirstOp == ASSUME TypeOK, First
  PROVE /\ op \in OpType /\ op' \in OpType /\ Identity /\ Findings /\ UNCHANGED <<store, known>> /\ Frame
        /\ op.pc = "capture" /\ op.why = "first" /\ op'.acc = op.acc /\ op'.snap = op.acc /\ op.acc \in Trees
        /\ op'.pc \in {"check", "save"} /\ ~op.dead
<1>1. op \in OpType /\ op.acc \in Trees /\ op.pc = "capture" /\ op.why = "first" /\ ~op.dead
      /\ UNCHANGED <<store, known>> /\ Frame
  BY CapturedOp DEF First
<1>2. PICK pc \in {"check", "save"} : op' = [op EXCEPT !.snap = op.acc, !.pc = pc]
  BY DEF First
<1>3. op' \in OpType
  BY <1>1, <1>2 DEF OpType
<1>4. Identity /\ Findings /\ op'.acc = op.acc /\ op'.snap = op.acc /\ op'.pc = pc
  BY <1>1, <1>2 DEF OpType, Identity, Findings
<1>5. QED
  BY <1>1, <1>2, <1>3, <1>4

\* A check runs on the tree that was captured last; one that fails is not forgotten.
LEMMA RunCheckOp == ASSUME TypeOK, InvStages, NEW ok \in BOOLEAN, RunCheck(ok)
  PROVE /\ op \in OpType /\ op' \in OpType /\ Identity /\ UNCHANGED <<store, known>> /\ Frame
        /\ op.pc = "check" /\ op.snap \in Trees /\ op'.acc = Pending /\ op'.snap = op.snap
        /\ op'.ran = op.ran \cup {op.snap} /\ op'.verdict \in {"pass", "fail"}
        /\ op'.verdict = "pass" => op.verdict \in {"none", "pass"}
        /\ op'.pc = "capture" /\ op'.why = "after"
<1>1. op.pc = "check" /\ op # NoOp /\ op \in OpType /\ UNCHANGED <<store, known>> /\ Frame
  BY OpShape DEF RunCheck, NoOp, Frame
<1>2. op.snap \in Trees
  BY <1>1 DEF InvStages, Reading, OpType
<1> DEFINE r == op.ran \cup {op.snap}
           c == op.checks + 1
           v == IF ok /\ op.verdict # "fail" THEN "pass" ELSE "fail"
<1> DEFINE o == [op EXCEPT !.ran = r, !.checks = c, !.verdict = v]
<1>3. op' = [o EXCEPT !.pc = "capture", !.why = "after", !.acc = Pending]
  BY DEF RunCheck, Capture, Pending
<1>4. v \in {"pass", "fail"} /\ (v = "pass" => op.verdict \in {"none", "pass"})
  BY <1>1 DEF OpType
<1>5. r \in SUBSET Trees /\ c \in Nat
  BY <1>1, <1>2 DEF OpType
<1> HIDE DEF v, r, c
<1>6. /\ o \in OpType /\ o.ran = r /\ o.verdict = v
      /\ o.kind = op.kind /\ o.task = op.task /\ o.of = op.of /\ o.base = op.base /\ o.dead = op.dead
      /\ o.snap = op.snap
  BY <1>1, <1>4, <1>5 DEF OpType
<1> HIDE DEF o
<1>7. op' \in OpType
  BY <1>3, <1>6, PendingIsPartial DEF OpType
<1>8. /\ Identity /\ op'.acc = Pending /\ op'.snap = op.snap /\ op'.ran = r
      /\ op'.verdict = v /\ op'.pc = "capture" /\ op'.why = "after"
  BY <1>3, <1>6 DEF OpType, Identity
<1>9. QED
  BY <1>1, <1>2, <1>4, <1>7, <1>8 DEF r

\* The next capture: the rest of the operation stays.
LEMMA Captures ==
  ASSUME NEW o \in OpType, NEW why \in {"first", "after", "again", "recapture"}
  PROVE  LET p == Capture(o, why) IN
         /\ p \in OpType /\ p # NoOp
         /\ p.kind = o.kind /\ p.task = o.task /\ p.of = o.of /\ p.base = o.base /\ p.dead = o.dead
         /\ p.pc = "capture" /\ p.why = why /\ p.acc = Pending /\ p.snap = o.snap /\ p.verdict = o.verdict
         /\ p.ran = o.ran
<1> DEFINE p == [o EXCEPT !.pc = "capture", !.why = why, !.acc = Pending]
<1>1. Capture(o, why) = p
  BY DEF Capture, Pending
<1>2. p \in OpType
  BY PendingIsPartial DEF OpType
<1>3. /\ p.kind = o.kind /\ p.task = o.task /\ p.of = o.of /\ p.base = o.base /\ p.dead = o.dead
      /\ p.pc = "capture" /\ p.why = why /\ p.acc = Pending /\ p.snap = o.snap /\ p.verdict = o.verdict
      /\ p.ran = o.ran
  BY DEF OpType
<1>4. p # NoOp
  BY <1>2 DEF OpType, NoOp
<1>5. QED
  BY <1>1, <1>2, <1>3, <1>4

\* After a check the tree is captured; one that drifted fails the checks.
LEMMA AfterOp == ASSUME TypeOK, After
  PROVE /\ op \in OpType /\ op.acc \in Trees /\ op.pc = "capture" /\ op.why = "after" /\ ~op.dead
        /\ UNCHANGED <<store, known>> /\ Frame
        /\ \/ op' = NoOp
           \/ /\ op' \in OpType /\ Identity /\ op'.acc = op.acc /\ op'.snap = op.acc
              /\ op'.ran = op.ran \cup {op.acc} /\ op'.pc \in {"check", "save"}
              /\ op'.verdict = IF op.acc # op.snap THEN "fail" ELSE op.verdict
<1>1. op \in OpType /\ op.acc \in Trees /\ op.pc = "capture" /\ op.why = "after" /\ ~op.dead
      /\ UNCHANGED <<store, known>> /\ Frame
  BY CapturedOp DEF After
<1> DEFINE r == op.ran \cup {op.acc}
           v == IF op.acc # op.snap THEN "fail" ELSE op.verdict
           o == [op EXCEPT !.snap = op.acc, !.ran = r, !.verdict = v]
<1>2. \/ op' = NoOp
      \/ \E pc \in {"check", "save"} : op' = [o EXCEPT !.pc = pc]
  BY DEF After
<1>3. r \in SUBSET Trees /\ v \in {"none", "pass", "fail"}
  BY <1>1 DEF OpType
<1> HIDE DEF r, v
<1>4. /\ o \in OpType /\ o.ran = r /\ o.verdict = v /\ o.acc = op.acc /\ o.snap = op.acc
      /\ o.kind = op.kind /\ o.task = op.task /\ o.of = op.of /\ o.base = op.base /\ o.dead = op.dead
  BY <1>1, <1>3 DEF OpType
<1> HIDE DEF o
<1>5. CASE op' = NoOp
  BY <1>1, <1>5
<1>6. ASSUME NEW pc \in {"check", "save"}, op' = [o EXCEPT !.pc = pc]
      PROVE  /\ op' \in OpType /\ Identity /\ op'.acc = op.acc /\ op'.snap = op.acc
             /\ op'.ran = r /\ op'.pc = pc /\ op'.verdict = v
  BY <1>4, <1>6 DEF OpType, Identity
<1>7. QED
  BY <1>1, <1>2, <1>5, <1>6 DEF r, v

\* The tree to be frozen, and the base, are saved.
LEMMA SaveSnapshotsOp == ASSUME TypeOK, InvStages, SaveSnapshots
  PROVE /\ op \in OpType /\ op' \in OpType /\ Identity /\ Findings /\ known' = known /\ Frame
        /\ op.pc = "save" /\ op.snap \in Trees /\ op'.snap = op.snap /\ op'.acc = op.acc
        /\ op'.pc = IF op.kind = "base" THEN "commit" ELSE "manifest"
        /\ store' \in StoreType /\ store'.blobs = store.blobs /\ store'.manifests = store.manifests
        /\ store'.snaps = store.snaps \cup ({op.snap, op.base} \ {Pending})
<1>1. op.pc = "save" /\ op # NoOp /\ op \in OpType /\ known' = known /\ Frame
  BY OpShape DEF SaveSnapshots, NoOp, Frame
<1>2. op.snap \in Trees /\ op.base \in Trees \cup {Pending}
  BY <1>1 DEF InvStages, Reading, OpType
<1> DEFINE pc == IF op.kind = "base" THEN "commit" ELSE "manifest"
           s == store.snaps \cup ({op.snap, op.base} \ {Pending})
<1>3. op' = [op EXCEPT !.pc = pc] /\ store' = [store EXCEPT !.snaps = s]
  BY DEF SaveSnapshots
<1>4. s \in SUBSET Trees
  BY <1>2 DEF TypeOK, StoreType
<1>5. pc \in {"manifest", "commit"}
  OBVIOUS
<1> HIDE DEF pc, s
<1>6. /\ store' \in StoreType /\ store'.blobs = store.blobs /\ store'.manifests = store.manifests
      /\ store'.snaps = s
  BY <1>3, <1>4 DEF TypeOK, StoreType
<1>7. /\ op' \in OpType /\ Identity /\ Findings /\ op'.snap = op.snap /\ op'.acc = op.acc /\ op'.pc = pc
  BY <1>1, <1>3, <1>5 DEF OpType, Identity, Findings
<1>8. QED
  BY <1>1, <1>2, <1>6, <1>7 DEF pc, s

\* The manifest replaces an earlier one of the same report or fix.
LEMMA SaveManifestOp == ASSUME TypeOK, InvStages, SaveManifest
  PROVE /\ op \in OpType /\ op' \in OpType /\ Identity /\ Findings /\ known' = known /\ Frame
        /\ op.pc = "manifest" /\ op.kind # "base" /\ op.snap \in Trees /\ op'.snap = op.snap /\ op'.acc = Pending
        /\ op'.pc = "capture" /\ op'.why = "again"
        /\ store' \in StoreType /\ store'.blobs = store.blobs /\ store'.snaps = store.snaps
        /\ LET m == [task |-> op.task, of |-> <<op.kind, op.of>>, base |-> op.base, tree |-> op.snap] IN
           store'.manifests = {x \in store.manifests : x.task # m.task \/ x.of # m.of} \cup {m}
<1>1. op.pc = "manifest" /\ op # NoOp /\ op \in OpType /\ known' = known /\ Frame
  BY OpShape DEF SaveManifest, NoOp, Frame
<1>2. op.kind # "base" /\ op.snap \in Trees /\ op.base \in Trees
  BY <1>1 DEF InvStages, Reading, OpType
<1> DEFINE m == [task |-> op.task, of |-> <<op.kind, op.of>>, base |-> op.base, tree |-> op.snap]
           ms == {x \in store.manifests : x.task # m.task \/ x.of # m.of} \cup {m}
<1>3. op' = Capture(op, "again") /\ store' = [store EXCEPT !.manifests = ms]
  BY DEF SaveManifest
<1>4. <<op.kind, op.of>> \in Frozen
  BY <1>1, <1>2 DEF OpType, Frozen
<1>5. m \in [task : Nat, of : Frozen, base : Trees, tree : Trees]
  BY <1>1, <1>2, <1>4 DEF OpType
<1>6. ms \in SUBSET [task : Nat, of : Frozen, base : Trees, tree : Trees]
  BY <1>5 DEF TypeOK, StoreType
<1> HIDE DEF ms
<1>7. /\ store' \in StoreType /\ store'.blobs = store.blobs /\ store'.snaps = store.snaps
      /\ store'.manifests = ms
  BY <1>3, <1>6 DEF TypeOK, StoreType
<1>8. /\ op' \in OpType /\ Identity /\ Findings /\ op'.snap = op.snap /\ op'.acc = Pending
      /\ op'.pc = "capture" /\ op'.why = "again"
  BY <1>1, <1>3, Captures DEF Identity, Findings
<1>9. QED
  BY <1>1, <1>2, <1>7, <1>8 DEF ms

\* Read once more, the tree is frozen when it is still the same.
LEMMA AgainOp == ASSUME TypeOK, Again
  PROVE /\ op \in OpType /\ op' \in OpType /\ Identity /\ Findings /\ UNCHANGED <<store, known>> /\ Frame
        /\ op.pc = "capture" /\ op.why = "again" /\ op.acc \in Trees /\ op'.snap = op.snap /\ ~op.dead
        /\ \/ op'.pc = "commit" /\ op.acc = op.snap /\ op'.acc = op.acc
           \/ op'.pc = "capture" /\ op'.why = "recapture" /\ op'.acc = Pending
<1>1. op \in OpType /\ op.acc \in Trees /\ op.pc = "capture" /\ op.why = "again" /\ ~op.dead
      /\ UNCHANGED <<store, known>> /\ Frame
  BY CapturedOp DEF Again
<1> DEFINE o == [op EXCEPT !.attempt = @ + 1]
<1>2. \/ op.acc = op.snap /\ op' = [op EXCEPT !.pc = "commit"]
      \/ op' = Capture(o, "recapture")
  BY DEF Again
<1>3. ASSUME op' = [op EXCEPT !.pc = "commit"]
      PROVE  /\ op' \in OpType /\ Identity /\ Findings /\ op'.snap = op.snap /\ op'.acc = op.acc /\ op'.pc = "commit"
  BY <1>1, <1>3 DEF OpType, Identity, Findings
<1>4. op.attempt + 1 \in Nat
  BY <1>1 DEF OpType
<1>5. /\ o \in OpType /\ o.snap = op.snap /\ o.verdict = op.verdict /\ o.ran = op.ran
      /\ o.kind = op.kind /\ o.task = op.task /\ o.of = op.of /\ o.base = op.base /\ o.dead = op.dead
  BY <1>1, <1>4 DEF OpType
<1> HIDE DEF o
<1>6. ASSUME op' = Capture(o, "recapture")
      PROVE  /\ op' \in OpType /\ Identity /\ Findings /\ op'.snap = op.snap /\ op'.acc = Pending
             /\ op'.pc = "capture" /\ op'.why = "recapture"
  BY <1>5, <1>6, Captures DEF Identity, Findings
<1>7. QED
  BY <1>1, <1>2, <1>3, <1>6

\* What is captured after a change is frozen next; checks that passed do not describe it.
LEMMA RecapturedOp == ASSUME TypeOK, Recaptured
  PROVE /\ op \in OpType /\ op' \in OpType /\ Identity /\ UNCHANGED <<store, known>> /\ Frame
        /\ op.pc = "capture" /\ op.why = "recapture" /\ op.acc \in Trees /\ op'.snap = op.acc /\ op'.acc = op.acc
        /\ op'.pc = "save" /\ op'.ran = op.ran /\ ~op.dead
        /\ op'.verdict = IF op.kind = "report" /\ op.verdict # "none" THEN "fail" ELSE op.verdict
<1>1. op \in OpType /\ op.acc \in Trees /\ op.pc = "capture" /\ op.why = "recapture" /\ ~op.dead
      /\ UNCHANGED <<store, known>> /\ Frame
  BY CapturedOp DEF Recaptured
<1> DEFINE o == [op EXCEPT !.snap = op.acc, !.pc = "save"]
<1>2. op' = IF o.kind = "report" /\ o.verdict # "none" THEN [o EXCEPT !.verdict = "fail"] ELSE o
  BY DEF Recaptured, MarkDrift
<1>3. /\ o \in OpType /\ o.pc = "save" /\ o.ran = op.ran /\ o.verdict = op.verdict /\ o.acc = op.acc /\ o.snap = op.acc
      /\ o.kind = op.kind /\ o.task = op.task /\ o.of = op.of /\ o.base = op.base /\ o.dead = op.dead
  BY <1>1 DEF OpType
<1> HIDE DEF o
<1>4. CASE o.kind = "report" /\ o.verdict # "none"
  <2>1. op' = [o EXCEPT !.verdict = "fail"]
    BY <1>2, <1>4
  <2>2. /\ op' \in OpType /\ op'.pc = "save" /\ op'.ran = op.ran /\ op'.acc = op.acc /\ op'.snap = op.acc
        /\ Identity /\ op'.verdict = "fail"
    BY <1>3, <2>1 DEF OpType, Identity
  <2>3. QED
    BY <1>1, <1>3, <1>4, <2>2
<1>5. CASE ~(o.kind = "report" /\ o.verdict # "none")
  BY <1>1, <1>2, <1>3, <1>5 DEF Identity
<1>6. QED
  BY <1>4, <1>5

\* The steps an operation takes between its start and its end.
Progress == \/ ReadFile \/ First \/ After \/ SaveSnapshots \/ SaveManifest \/ Again \/ Recaptured
            \/ \E ok \in BOOLEAN : RunCheck(ok)

\* A step of the operation changes nothing but the operation and the store; it goes on with the same task, or ends.
LEMMA ProgressOp == ASSUME TypeOK, InvStages, Progress
  PROVE op \in OpType /\ op # NoOp /\ Frame /\ (op' = NoOp \/ (op' \in OpType /\ op' # NoOp /\ Identity))
<1>1. op \in OpType /\ Frame /\ (op' = NoOp \/ (op' \in OpType /\ Identity))
  <2>1. CASE ReadFile
    BY <2>1, ReadFileOp DEF ReadFile, Frame
  <2>2. CASE First \/ After \/ Again \/ Recaptured
    BY <2>2, FirstOp, AfterOp, AgainOp, RecapturedOp
  <2>3. CASE SaveSnapshots \/ SaveManifest
    BY <2>3, SaveSnapshotsOp, SaveManifestOp
  <2>4. CASE \E ok \in BOOLEAN : RunCheck(ok)
    BY <2>4, RunCheckOp
  <2>5. QED
    BY <2>1, <2>2, <2>3, <2>4 DEF Progress
<1>2. \A o \in OpType : o # NoOp
  BY DEF OpType, NoOp
<1>3. QED
  BY <1>1, <1>2

\* An operation that is revoked only learns that it is.
LEMMA KilledOp == ASSUME TypeOK, Killed
  PROVE \/ op = NoOp /\ op' = NoOp
        \/ /\ op \in OpType /\ op' \in OpType /\ op # NoOp /\ op' # NoOp /\ Findings
           /\ op'.kind = op.kind /\ op'.task = op.task /\ op'.of = op.of /\ op'.base = op.base /\ op'.dead = TRUE
           /\ op'.pc = op.pc /\ op'.why = op.why /\ op'.acc = op.acc /\ op'.snap = op.snap
<1>1. CASE op = NoOp
  BY <1>1, OpShape DEF Killed
<1>2. CASE op # NoOp
  <2>1. op \in OpType /\ op' = [op EXCEPT !.dead = TRUE]
    BY <1>2, OpShape DEF Killed
  <2>2. op' \in OpType
    BY <2>1 DEF OpType
  <2>3. op' # NoOp
    BY <2>2 DEF OpType, NoOp
  <2>4. QED
    BY <1>2, <2>1, <2>2, <2>3 DEF OpType, Findings
<1>3. QED
  BY <1>1, <1>2

-----------------------------------------------------------------------------
(* What the steps do to the other variables. *)

\* What is stored stays, and what is known to be stored is stored.
LEMMA StoringIs == ASSUME TypeOK, known \subseteq store.blobs, NEW cs \in SUBSET Contents, Storing(cs)
  PROVE /\ store' \in StoreType /\ known' \subseteq Contents /\ known' \subseteq store'.blobs
        /\ store'.snaps = store.snaps /\ store'.manifests = store.manifests
        /\ store.blobs \subseteq store'.blobs /\ cs \subseteq store'.blobs
<1> DEFINE b == store.blobs \cup {c \in cs : ~HasBlob(c)}
<1>1. store' = [store EXCEPT !.blobs = b] /\ known' = known \cup cs
  BY DEF Storing
<1>2. b \in SUBSET Contents /\ store \in StoreType /\ known \subseteq Contents
  BY DEF TypeOK, StoreType
<1>3. cs \subseteq b /\ store.blobs \subseteq b
  BY DEF HasBlob
<1> HIDE DEF b
<1>4. store' \in StoreType /\ store'.blobs = b /\ store'.snaps = store.snaps /\ store'.manifests = store.manifests
  BY <1>1, <1>2 DEF StoreType
<1>5. QED
  BY <1>1, <1>2, <1>3, <1>4

\* The contents of a tree.
LEMMA TreeContents == \A t \in Trees : Range(t) \subseteq Contents
  BY DEF Trees, Range

\* An event is counted.
LEMMA HappensIs == ASSUME TypeOK, Happens
  PROVE n' \in Counts /\ n'.tasks = n.tasks /\ n'.reports = n.reports /\ n'.writes = n.writes
<1>1. n \in Counts /\ n.events < MaxEvents /\ n' = [n EXCEPT !.events = @ + 1]
  BY DEF TypeOK, Happens
<1>2. n.events + 1 \in 0..MaxEvents
  BY <1>1, CheckpointAssumption DEF Counts
<1>3. QED
  BY <1>1, <1>2 DEF Counts

\* A write puts a content in a file that no file ever had.
LEMMA WriteIs == ASSUME TypeOK, InvReads, Write
  PROVE /\ tree' \in Trees /\ seen' = seen \cup {tree'} /\ \A f \in Files : tree[f] <= tree'[f] /\ tree'[f] <= n'.writes
        /\ n' \in Counts /\ n'.tasks = n.tasks /\ n'.reports = n.reports /\ n'.writes = n.writes + 1
        /\ UNCHANGED <<store, known, task, op, deal, sweep, accepted, frozen>>
<1>1. PICK f \in Files : tree' = [tree EXCEPT ![f] = n.writes + 1]
  BY DEF Write
<1>2. /\ n \in Counts /\ n.writes < MaxWrites /\ n' = [n EXCEPT !.writes = @ + 1] /\ seen' = seen \cup {tree'}
      /\ UNCHANGED <<store, known, task, op, deal, sweep, accepted, frozen>>
  BY DEF TypeOK, Write
<1>3. n.writes + 1 \in 0..MaxWrites /\ n.writes \in Nat
  BY <1>2, CheckpointAssumption DEF Counts
<1>4. tree' \in Trees
  BY <1>1, <1>3 DEF TypeOK, Trees, Contents
<1>5. n' \in Counts /\ n'.tasks = n.tasks /\ n'.reports = n.reports /\ n'.writes = n.writes + 1
  BY <1>2, <1>3 DEF Counts
<1>6. \A g \in Files : tree[g] \in Nat /\ tree[g] <= n.writes /\ tree'[g] = IF g = f THEN n.writes + 1 ELSE tree[g]
  BY <1>1 DEF InvReads, TypeOK, Trees, Contents
<1>7. QED
  BY <1>2, <1>3, <1>4, <1>5, <1>6

-----------------------------------------------------------------------------
(* What the steps do to the task. *)

TaskKeeps == task'.id = task.id /\ task'.base = task.base /\ task'.report = task.report

\* An operation that was not revoked works for a task that is on.
LEMMA AliveIs == ASSUME TypeOK, InvWork, InvSweep, Alive PROVE op \in OpType /\ Active /\ Idle /\ task \in TaskType
<1>1. op \in OpType
  BY OpShape DEF Alive
<1>2. op.kind \in {"base", "report", "fix"}
  BY <1>1 DEF OpType
<1>3. Active
  BY <1>2 DEF InvWork, Active, Moving
<1>4. QED
  BY <1>1, <1>3, TaskShape DEF InvSweep, Idle

\* A failed operation holds the task, or leaves it to Main when it was Main's fix.
LEMMA FailingIs == ASSUME TypeOK, InvWork, InvSweep, Alive, Failing
  PROVE /\ Active /\ Idle /\ task \in TaskType /\ task' \in TaskType /\ TaskKeeps /\ task'.fixing = task.fixing
        /\ IF op.kind = "fix" THEN task' = task ELSE task'.status = "held"
<1>1. task \in TaskType /\ Active /\ Idle
  BY AliveIs
<1>2. CASE op.kind = "fix"
  BY <1>1, <1>2 DEF Failing, TaskKeeps
<1>3. CASE op.kind # "fix"
  BY <1>1, <1>3 DEF Failing, TaskKeeps, TaskType
<1>4. QED
  BY <1>2, <1>3

\* A dispatched task begins at its first step.
LEMMA DispatchIs == ASSUME TypeOK, Dispatch
  PROVE /\ task' \in TaskType /\ task'.id = n.tasks + 1 /\ task'.status = "activating" /\ task'.base = Pending
        /\ n' \in Counts /\ n'.tasks = n.tasks + 1 /\ n'.reports = n.reports /\ n'.writes = n.writes
        /\ accepted' = Pending /\ ~Active /\ Idle
        /\ UNCHANGED <<tree, store, known, op, deal, sweep, frozen, seen>>
<1>1. n \in Counts /\ n.tasks < MaxTasks /\ n' = [n EXCEPT !.tasks = @ + 1]
  BY DEF TypeOK, Dispatch
<1>2. n.tasks + 1 \in 1..MaxTasks /\ n.tasks + 1 \in 0..MaxTasks
  BY <1>1, CheckpointAssumption DEF Counts
<1>3. 1 \in 1..Plan
  BY CheckpointAssumption
<1> DEFINE t == [id |-> n.tasks + 1, status |-> "activating", why |-> "dispatch", on |-> Pending, step |-> 1,
                 base |-> Pending, kind |-> "review", report |-> NoReport, fixing |-> FALSE, repairs |-> 0]
<1>4. task' = t
  BY DEF Dispatch
<1>5. t \in TaskType
  BY <1>2, <1>3 DEF TaskType, Moving
<1>6. n' \in Counts /\ n'.tasks = n.tasks + 1 /\ n'.reports = n.reports /\ n'.writes = n.writes
  BY <1>1, <1>2 DEF Counts
<1>7. QED
  BY <1>4, <1>5, <1>6 DEF Dispatch

\* An activation runs, or holds, the task.
LEMMA ActivateIs == ASSUME TypeOK, known \subseteq store.blobs, Activate
  PROVE /\ task \in TaskType /\ task' \in TaskType /\ TaskKeeps /\ task'.fixing = task.fixing
        /\ task.status = "activating" /\ task.base # Pending /\ task'.status \in {"running", "held"} /\ op = NoOp
        /\ store' \in StoreType /\ known' \subseteq Contents /\ known' \subseteq store'.blobs
        /\ store'.snaps = store.snaps /\ store'.manifests = store.manifests /\ store.blobs \subseteq store'.blobs
        /\ UNCHANGED <<tree, op, deal, sweep, n, accepted, frozen, seen>>
<1>1. task.status = "activating" /\ task.base # Pending /\ op = NoOp /\ task \in TaskType
      /\ UNCHANGED <<tree, op, deal, sweep, n, accepted, frozen, seen>>
  BY OpShape, TaskShape DEF Activate, Active, Moving
<1> DEFINE cs == IF task.why = "decision" THEN Range(tree) ELSE {}
           st == IF StillCurrent THEN "running" ELSE "held"
<1>2. Storing(cs) /\ task' = [task EXCEPT !.status = st]
  BY DEF Activate
<1>3. cs \in SUBSET Contents
  BY TreeContents DEF TypeOK
<1>4. st \in {"running", "held"}
  OBVIOUS
<1> HIDE DEF cs, st
<1>5. /\ store' \in StoreType /\ known' \subseteq Contents /\ known' \subseteq store'.blobs
      /\ store'.snaps = store.snaps /\ store'.manifests = store.manifests /\ store.blobs \subseteq store'.blobs
  BY <1>2, <1>3, StoringIs
<1>6. task' \in TaskType /\ TaskKeeps /\ task'.fixing = task.fixing /\ task'.status = st
  BY <1>1, <1>2, <1>4 DEF TaskType, TaskKeeps, Moving
<1>7. QED
  BY <1>1, <1>4, <1>5, <1>6

\* A report settles the task's step.
LEMMA ReportIs == ASSUME TypeOK, NEW kind \in {"review", "question"}, Report(kind)
  PROVE /\ task \in TaskType /\ task' \in TaskType /\ TaskKeeps /\ task'.fixing = task.fixing
        /\ task.status = "running" /\ task'.status = "settling"
        /\ n' \in Counts /\ n'.tasks = n.tasks /\ n'.reports = n.reports + 1 /\ n'.writes = n.writes
        /\ UNCHANGED <<tree, store, known, op, deal, sweep, accepted, frozen, seen>>
<1>1. task.status = "running" /\ task \in TaskType /\ task' = [task EXCEPT !.status = "settling", !.kind = kind]
      /\ UNCHANGED <<tree, store, known, op, deal, sweep, accepted, frozen, seen>>
  BY TaskShape DEF Report, Active, Moving
<1>2. n \in Counts /\ n.reports < MaxReports /\ n' = [n EXCEPT !.reports = @ + 1]
  BY DEF TypeOK, Report
<1>3. n.reports + 1 \in 0..MaxReports
  BY <1>2, CheckpointAssumption DEF Counts
<1>4. task' \in TaskType /\ TaskKeeps /\ task'.fixing = task.fixing /\ task'.status = "settling"
  BY <1>1 DEF TaskType, TaskKeeps, Moving
<1>5. n' \in Counts /\ n'.tasks = n.tasks /\ n'.reports = n.reports + 1 /\ n'.writes = n.writes
  BY <1>2, <1>3 DEF Counts
<1>6. QED
  BY <1>1, <1>4, <1>5

\* A pause holds the task and revokes its operation.
LEMMA PauseIs == ASSUME TypeOK, Pause
  PROVE /\ task \in TaskType /\ task' \in TaskType /\ TaskKeeps /\ task'.fixing = task.fixing
        /\ task.status \in Moving /\ task'.status = "held" /\ Killed /\ Idle
        /\ n' \in Counts /\ n'.tasks = n.tasks /\ n'.reports = n.reports /\ n'.writes = n.writes
        /\ UNCHANGED <<tree, store, known, deal, sweep, accepted, frozen, seen>>
<1>1. task.status \in Moving /\ task \in TaskType /\ task' = [task EXCEPT !.status = "held"]
  BY TaskShape DEF Pause, Active
<1>2. task' \in TaskType /\ TaskKeeps /\ task'.fixing = task.fixing /\ task'.status = "held"
  BY <1>1 DEF TaskType, TaskKeeps
<1>3. QED
  BY <1>1, <1>2, HappensIs DEF Pause

\* A held task is activated again.
LEMMA ResumeIs == ASSUME TypeOK, Resume
  PROVE /\ task \in TaskType /\ task' \in TaskType /\ TaskKeeps /\ task'.fixing = task.fixing
        /\ task.status = "held" /\ task'.status = "activating" /\ Idle
        /\ UNCHANGED <<tree, store, known, op, deal, sweep, n, accepted, frozen, seen>>
<1>1. task.status = "held" /\ task \in TaskType /\ task' = [task EXCEPT !.status = "activating", !.why = "resume"]
  BY TaskShape DEF Resume, Active
<1>2. task' \in TaskType /\ TaskKeeps /\ task'.fixing = task.fixing /\ task'.status = "activating"
  BY <1>1 DEF TaskType, TaskKeeps, Moving
<1>3. QED
  BY <1>1, <1>2 DEF Resume

\* A cancelled task is over, and so is what was under way for it.
LEMMA CancelIs == ASSUME TypeOK, Cancel
  PROVE /\ task \in TaskType /\ task' \in TaskType /\ TaskKeeps /\ Active /\ task'.status = "cancelled" /\ Killed
        /\ Idle /\ deal' = NoDeal /\ sweep' \in SweepType /\ sweep'.pc = "idle"
        /\ UNCHANGED <<tree, store, known, n, accepted, frozen, seen>>
<1>1. task \in TaskType /\ task' = [task EXCEPT !.status = "cancelled", !.fixing = FALSE] /\ Active /\ Idle
      /\ sweep' = [sweep EXCEPT !.due = TRUE]
  BY TaskShape DEF Cancel
<1>2. task' \in TaskType /\ TaskKeeps /\ task'.status = "cancelled"
  BY <1>1 DEF TaskType, TaskKeeps
<1>3. sweep' \in SweepType /\ sweep'.pc = "idle"
  BY <1>1, SweepShape DEF SweepType
<1>4. QED
  BY <1>1, <1>2, <1>3 DEF Cancel

\* A write that does not end leaves the blob of a symlink behind, and touches nothing else.
StoreKeeps == /\ store' \in StoreType /\ store.blobs \subseteq store'.blobs
              /\ store'.snaps = store.snaps /\ store'.manifests = store.manifests
LEMMA TearsIs == ASSUME TypeOK, NEW fs, Tears(fs)
  PROVE StoreKeeps /\ store'.torn \subseteq store.torn \cup {tree[f] : f \in Links}
<1>1. store \in StoreType
  BY DEF TypeOK
<1>2. CASE UNCHANGED store
  BY <1>1, <1>2 DEF StoreKeeps
<1>3. ASSUME NEW f \in Links, store' = [store EXCEPT !.blobs = @ \cup {tree[f]}, !.torn = @ \cup {tree[f]}]
      PROVE StoreKeeps /\ store'.torn \subseteq store.torn \cup {tree[g] : g \in Links}
  <2>1. tree[f] \in Contents
    BY CheckpointAssumption DEF TypeOK, Trees, Files
  <2>2. QED
    BY <1>1, <1>3, <2>1 DEF StoreType, StoreKeeps
<1>4. QED
  BY <1>2, <1>3 DEF Tears

\* A restart forgets what was in memory; a task that was moving is held.
LEMMA RestartIs == ASSUME TypeOK, Restart
  PROVE /\ \/ task' = task /\ task.status \notin Moving
           \/ /\ task.status \in Moving /\ task \in TaskType /\ task' \in TaskType /\ TaskKeeps
              /\ task'.fixing = task.fixing /\ task'.status = "held"
        /\ n' \in Counts /\ n'.tasks = n.tasks /\ n'.reports = n.reports /\ n'.writes = n.writes
        /\ op' = NoOp /\ deal' = NoDeal /\ known' = {} /\ sweep' \in SweepType /\ sweep'.pc = "idle"
        /\ sweep'.due = FALSE
        /\ UNCHANGED <<tree, accepted, frozen, seen>>
        /\ StoreKeeps /\ store'.torn \subseteq store.torn \cup {tree[f] : f \in Links}
<1>0. StoreKeeps /\ store'.torn \subseteq store.torn \cup {tree[f] : f \in Links}
  BY TearsIs DEF Restart
<1>1. sweep' \in SweepType /\ sweep'.pc = "idle" /\ sweep'.due = FALSE
  BY DEF Restart, SweepType
<1>2. CASE task.status \in Moving
  <2>1. task \in TaskType /\ task' = [task EXCEPT !.status = "held"]
    BY <1>2, TaskShape DEF Restart, Active
  <2>2. task' \in TaskType /\ TaskKeeps /\ task'.fixing = task.fixing /\ task'.status = "held"
    BY <2>1 DEF TaskType, TaskKeeps
  <2>3. QED
    BY <1>0, <1>1, <1>2, <2>1, <2>2, HappensIs DEF Restart
<1>3. CASE task.status \notin Moving
  BY <1>0, <1>1, <1>3, HappensIs DEF Restart
<1>4. QED
  BY <1>2, <1>3

\* The reported state is put back.
LEMMA RestoreIs == ASSUME TypeOK, InvTask, Restore
  PROVE /\ op = NoOp /\ task.status = "waiting" /\ tree' = task.report.tree /\ tree' \in Trees
        /\ seen' = seen \cup {tree'}
        /\ n' \in Counts /\ n'.tasks = n.tasks /\ n'.reports = n.reports /\ n'.writes = n.writes
        /\ UNCHANGED <<store, known, task, op, deal, sweep, accepted, frozen>>
<1>1. op = NoOp /\ task.status = "waiting"
  BY OpShape DEF Restore
<1>2. task.report.tree \in Trees
  BY <1>1, ReportShape DEF ReportType
<1>3. QED
  BY <1>1, <1>2, HappensIs DEF Restore

\* An inspection is remembered with the report.
LEMMA InspectIs == ASSUME TypeOK, InvTask, Inspect
  PROVE /\ task \in TaskType /\ task' \in TaskType /\ task.status = "waiting" /\ task'.status = "waiting"
        /\ task'.id = task.id /\ task'.base = task.base /\ task'.fixing = task.fixing
        /\ task'.report \in ReportType /\ task'.report.id = task.report.id /\ task'.report.tree = task.report.tree
        /\ UNCHANGED <<tree, store, known, op, deal, sweep, n, accepted, frozen, seen>>
<1>1. task.status = "waiting" /\ task \in TaskType /\ task.report \in ReportType
  BY ReportShape DEF Inspect
<1> DEFINE r == [task.report EXCEPT !.inspected = TRUE]
<1>2. r \in ReportType /\ r.id = task.report.id /\ r.tree = task.report.tree
  BY <1>1 DEF ReportType
<1>3. task' = [task EXCEPT !.report = r]
  BY DEF Inspect
<1> HIDE DEF r
<1>4. /\ task' \in TaskType /\ task'.report = r /\ task'.status = "waiting"
      /\ task'.id = task.id /\ task'.base = task.base /\ task'.fixing = task.fixing
  BY <1>1, <1>2, <1>3 DEF TaskType
<1>5. QED
  BY <1>1, <1>2, <1>4 DEF Inspect

\* A decision is made on the tree of the moment, which is stored.
LEMMA DecideIs ==
  ASSUME TypeOK, known \subseteq store.blobs, NEW action \in Exact \cup {"answer", "revise"}, Decide(action)
  PROVE /\ task.status = "waiting" /\ ~task.fixing /\ deal = NoDeal
        /\ deal' \in [action : {"approve", "fix", "continue"}, live : Trees] \cup {NoDeal}
        /\ store' \in StoreType /\ known' \subseteq Contents /\ known' \subseteq store'.blobs
        /\ store'.snaps = store.snaps /\ store'.manifests = store.manifests /\ store.blobs \subseteq store'.blobs
        /\ UNCHANGED <<tree, task, op, sweep, n, accepted, frozen, seen>>
<1>1. task.status = "waiting" /\ ~task.fixing /\ deal = NoDeal
      /\ UNCHANGED <<tree, task, op, sweep, n, accepted, frozen, seen>>
  BY DEF Decide
<1>2. Storing(Range(tree)) /\ Range(tree) \in SUBSET Contents
  BY TreeContents DEF Decide, TypeOK
<1>3. /\ store' \in StoreType /\ known' \subseteq Contents /\ known' \subseteq store'.blobs
      /\ store'.snaps = store.snaps /\ store'.manifests = store.manifests /\ store.blobs \subseteq store'.blobs
  BY <1>2, StoringIs
<1>4. deal' \in [action : {"approve", "fix", "continue"}, live : Trees] \cup {NoDeal}
  BY DEF Decide, TypeOK
<1>5. QED
  BY <1>1, <1>3, <1>4

\* The step moves on, on what Main accepted.
LEMMA AcceptingIs ==
  ASSUME TypeOK, task \in TaskType, Idle, NEW t \in Trees, NEW last \in BOOLEAN, NEW moves \in BOOLEAN,
         ~last /\ moves => task.step # Plan, Accepting(t, last, moves)
  PROVE  /\ accepted' = t /\ task' \in TaskType /\ task'.id = task.id /\ task'.base = t /\ task'.report = task.report
         /\ ~task'.fixing /\ task'.status \in {"completed", "activating"}
         /\ sweep' \in SweepType /\ sweep'.pc = "idle"
<1>1. accepted' = t /\ sweep' = [sweep EXCEPT !.due = @ \/ last]
  BY DEF Accepting
<1>2. sweep' \in SweepType /\ sweep'.pc = "idle"
  <2>1. (sweep.due \/ last) \in BOOLEAN
    OBVIOUS
  <2>2. QED
    BY <1>1, <2>1, SweepShape DEF SweepType
<1>3. CASE last
  <2>1. task' = [task EXCEPT !.base = t, !.status = "completed", !.fixing = FALSE]
    BY <1>3 DEF Accepting
  <2>2. QED
    BY <1>1, <1>2, <2>1 DEF TaskType
<1>4. CASE ~last
  <2> DEFINE step    == IF moves THEN task.step + 1 ELSE task.step
             repairs == IF moves THEN 0 ELSE task.repairs
  <2>1. task' = [task EXCEPT !.base = t, !.status = "activating", !.why = "decision", !.on = t, !.fixing = FALSE,
                             !.step = step, !.repairs = repairs]
    BY <1>4 DEF Accepting
  <2>2. step \in 1..Plan
    BY <1>4, CheckpointAssumption DEF TaskType
  <2>3. repairs \in Nat
    BY DEF TaskType
  <2> HIDE DEF step, repairs
  <2>4. QED
    BY <1>1, <1>2, <2>1, <2>2, <2>3 DEF TaskType, Moving
<1>5. QED
  BY <1>3, <1>4

\* An approval accepts the reported tree.
LEMMA ApproveIs == ASSUME TypeOK, InvWork, InvTask, NEW complete \in BOOLEAN, Approve(complete)
  PROVE /\ task \in TaskType /\ task.status = "waiting" /\ ~task.fixing /\ task.report.tree \in Trees
        /\ accepted' = task.report.tree /\ task'.base = task.report.tree
        /\ task' \in TaskType /\ task'.id = task.id /\ task'.report = task.report
        /\ ~task'.fixing /\ task'.status \in {"completed", "activating"} /\ Idle
        /\ sweep' \in SweepType /\ sweep'.pc = "idle" /\ deal' = NoDeal
        /\ UNCHANGED <<tree, store, known, op, n, frozen, seen>>
<1>1. deal # NoDeal /\ Idle /\ deal' = NoDeal /\ UNCHANGED <<tree, store, known, op, n, frozen, seen>>
      /\ Accepting(task.report.tree, complete /\ task.step = Plan, complete)
  BY DealShape DEF Approve, Settles
<1>2. task.status = "waiting" /\ ~task.fixing
  BY <1>1 DEF InvWork
<1>3. task \in TaskType /\ task.report.tree \in Trees
  BY <1>2, ReportShape DEF ReportType
<1> DEFINE last == complete /\ task.step = Plan
           t == task.report.tree
<1>4. last \in BOOLEAN /\ (~last /\ complete => task.step # Plan) /\ Accepting(t, last, complete)
  BY <1>1
<1> HIDE DEF last
<1>5. /\ accepted' = t /\ task' \in TaskType /\ task'.id = task.id /\ task'.base = t /\ task'.report = task.report
      /\ ~task'.fixing /\ task'.status \in {"completed", "activating"}
      /\ sweep' \in SweepType /\ sweep'.pc = "idle"
  BY <1>1, <1>3, <1>4, AcceptingIs
<1>6. QED
  BY <1>1, <1>2, <1>3, <1>5

\* An answer or a revision sends the worker on.
LEMMA ContinueIs == ASSUME TypeOK, InvWork, Continue
  PROVE /\ task \in TaskType /\ task' \in TaskType /\ TaskKeeps /\ task'.fixing = task.fixing
        /\ task.status = "waiting" /\ ~task.fixing /\ task'.status = "activating" /\ deal' = NoDeal
        /\ UNCHANGED <<tree, store, known, op, sweep, n, accepted, frozen, seen>>
<1>1. deal # NoDeal /\ deal.live \in Trees /\ deal' = NoDeal
      /\ UNCHANGED <<tree, store, known, op, sweep, n, accepted, frozen, seen>>
      /\ task' = [task EXCEPT !.status = "activating", !.why = "decision", !.on = deal.live]
  BY DealShape DEF Continue, Settles
<1>2. task.status = "waiting" /\ ~task.fixing /\ task \in TaskType
  BY <1>1, TaskShape DEF InvWork, Active
<1>3. task' \in TaskType /\ TaskKeeps /\ task'.fixing = task.fixing /\ task'.status = "activating"
  BY <1>1, <1>2 DEF TaskType, TaskKeeps, Moving
<1>4. QED
  BY <1>1, <1>2, <1>3

\* Main fixes the step itself.
LEMMA FixIs == ASSUME TypeOK, InvWork, Fix
  PROVE /\ task \in TaskType /\ task' \in TaskType /\ TaskKeeps /\ task'.fixing = TRUE
        /\ task.status = "waiting" /\ ~task.fixing /\ task'.status = "waiting" /\ deal' = NoDeal
        /\ UNCHANGED <<tree, store, known, op, sweep, n, accepted, frozen, seen>>
<1>1. deal # NoDeal /\ deal' = NoDeal /\ UNCHANGED <<tree, store, known, op, sweep, n, accepted, frozen, seen>>
      /\ task' = [task EXCEPT !.fixing = TRUE]
  BY DealShape DEF Fix, Settles
<1>2. task.status = "waiting" /\ ~task.fixing /\ task \in TaskType
  BY <1>1, TaskShape DEF InvWork, Active
<1>3. task' \in TaskType /\ TaskKeeps /\ task'.fixing = TRUE /\ task'.status = "waiting"
  BY <1>1, <1>2 DEF TaskType, TaskKeeps
<1>4. QED
  BY <1>1, <1>2, <1>3

\* An operation that commits is at its end and was not revoked.
LEMMA CommitsIs == ASSUME TypeOK, InvStages, InvWork, InvSweep, NEW kind, Commits(kind)
  PROVE /\ op \in OpType /\ op # NoOp /\ op.pc = "commit" /\ op.kind = kind /\ ~op.dead /\ op' = NoOp /\ Alive /\ Idle
        /\ op.snap \in Trees /\ task \in TaskType /\ Active
<1>1. op.pc = "commit" /\ op.kind = kind /\ ~op.dead /\ op' = NoOp /\ op # NoOp /\ Idle
  BY DEF Commits, NoOp
<1>2. op \in OpType /\ task \in TaskType /\ Active /\ Alive
  BY <1>1, AliveIs DEF Alive
<1>3. op.snap \in Trees
  BY <1>1, <1>2 DEF InvStages, Reading, OpType
<1>4. QED
  BY <1>1, <1>2, <1>3

\* The first base of a task.
LEMMA CommitBaseIs == ASSUME TypeOK, InvStages, InvWork, InvSweep, CommitBase
  PROVE /\ op \in OpType /\ op.pc = "commit" /\ op.kind = "base" /\ op' = NoOp /\ Alive /\ op.snap \in Trees
        /\ task \in TaskType /\ task' \in TaskType /\ task'.id = task.id /\ task'.base = op.snap
        /\ task'.report = task.report /\ task'.fixing = task.fixing /\ task.status = "activating"
        /\ task'.status = "activating" /\ accepted' = op.snap /\ Idle
        /\ UNCHANGED <<tree, store, known, deal, sweep, n, frozen, seen>>
<1>1. /\ op \in OpType /\ op.pc = "commit" /\ op.kind = "base" /\ op' = NoOp /\ Alive /\ op.snap \in Trees /\ Idle
      /\ task \in TaskType
  BY CommitsIs DEF CommitBase
<1>2. task.status = "activating"
  BY <1>1 DEF InvWork
<1>3. task' = [task EXCEPT !.base = op.snap]
  BY DEF CommitBase
<1>4. /\ task' \in TaskType /\ task'.id = task.id /\ task'.base = op.snap
      /\ task'.report = task.report /\ task'.fixing = task.fixing /\ task'.status = task.status
  BY <1>1, <1>3 DEF TaskType
<1>5. QED
  BY <1>1, <1>2, <1>4 DEF CommitBase

\* What is recorded of a checkpoint.
LEMMA RecordedIs == ASSUME TypeOK, InvStages, op \in OpType, op # NoOp, op.snap \in Trees, op.kind # "base"
  PROVE Recorded \in RecordType
<1>1. op.base \in Trees /\ op.kind \in {"report", "fix"}
  BY DEF InvStages, OpType
<1>2. <<op.kind, op.of>> \in Frozen
  BY <1>1 DEF OpType, Frozen
<1>3. QED
  BY <1>1, <1>2 DEF Recorded, RecordType, OpType

\* A report waits for Main.
LEMMA PublishIs == ASSUME TypeOK, InvStages, InvWork, InvSweep, Publish
  PROVE /\ op \in OpType /\ op.pc = "commit" /\ op.kind = "report" /\ op' = NoOp /\ Alive /\ op.snap \in Trees
        /\ task \in TaskType /\ task' \in TaskType /\ task'.id = task.id /\ task'.base = task.base
        /\ task'.report \in ReportType /\ task'.report.id = op.of /\ task'.report.tree = op.snap
        /\ task'.fixing = task.fixing /\ task.status = "settling" /\ task'.status = "waiting" /\ Idle
        /\ frozen' = frozen \cup {Recorded} /\ Recorded \in RecordType
        /\ UNCHANGED <<tree, store, known, deal, sweep, n, accepted, seen>>
<1>1. /\ op \in OpType /\ op.pc = "commit" /\ op.kind = "report" /\ op' = NoOp /\ Alive /\ op.snap \in Trees /\ Idle
      /\ task \in TaskType /\ op # NoOp
  BY CommitsIs DEF Publish
<1>2. task.status = "settling"
  BY <1>1 DEF InvWork
<1> DEFINE r == [id |-> op.of, tree |-> op.snap, verdict |-> op.verdict, inspected |-> FALSE]
<1>3. task' = [task EXCEPT !.status = "waiting", !.report = r]
  BY DEF Publish
<1>4. r \in ReportType /\ r.id = op.of /\ r.tree = op.snap
  BY <1>1 DEF ReportType, OpType
<1> HIDE DEF r
<1>5. /\ task' \in TaskType /\ task'.id = task.id /\ task'.base = task.base
      /\ task'.report = r /\ task'.fixing = task.fixing /\ task'.status = "waiting"
  BY <1>1, <1>3, <1>4 DEF TaskType
<1>6. Recorded \in RecordType
  BY <1>1, RecordedIs
<1>7. QED
  BY <1>1, <1>2, <1>4, <1>5, <1>6 DEF Publish

\* A report whose checks failed goes back to the worker.
LEMMA AutoRepairIs == ASSUME TypeOK, InvStages, InvWork, InvSweep, AutoRepair
  PROVE /\ op \in OpType /\ op.pc = "commit" /\ op.kind = "report" /\ op' = NoOp /\ Alive
        /\ task \in TaskType /\ task' \in TaskType /\ TaskKeeps /\ task'.fixing = task.fixing
        /\ task.status = "settling" /\ task'.status = "activating" /\ Idle
        /\ UNCHANGED <<tree, store, known, deal, sweep, n, accepted, frozen, seen>>
<1>1. /\ op \in OpType /\ op.pc = "commit" /\ op.kind = "report" /\ op' = NoOp /\ Alive /\ op.snap \in Trees /\ Idle
      /\ task \in TaskType
  BY CommitsIs DEF AutoRepair
<1>2. task.status = "settling"
  BY <1>1 DEF InvWork
<1> DEFINE repairs == task.repairs + 1
<1>3. task' = [task EXCEPT !.status = "activating", !.why = "repair", !.on = op.snap, !.repairs = repairs]
  BY DEF AutoRepair
<1>4. repairs \in Nat
  BY <1>1 DEF TaskType
<1> HIDE DEF repairs
<1>5. task' \in TaskType /\ TaskKeeps /\ task'.fixing = task.fixing /\ task'.status = "activating"
  BY <1>1, <1>3, <1>4 DEF TaskType, TaskKeeps, Moving
<1>6. QED
  BY <1>1, <1>2, <1>5 DEF AutoRepair

\* Main's own fix is accepted as it is frozen.
LEMMA CommitFixIs == ASSUME TypeOK, InvStages, InvWork, InvSweep, CommitFix
  PROVE /\ op \in OpType /\ op.pc = "commit" /\ op.kind = "fix" /\ op' = NoOp /\ Alive /\ op.snap \in Trees
        /\ task \in TaskType /\ task' \in TaskType /\ task'.id = task.id /\ task'.base = op.snap
        /\ task'.report = task.report /\ ~task'.fixing /\ task.status = "waiting" /\ task.fixing
        /\ task'.status \in {"completed", "activating"} /\ Idle /\ accepted' = op.snap
        /\ sweep' \in SweepType /\ sweep'.pc = "idle"
        /\ frozen' = frozen \cup {Recorded} /\ Recorded \in RecordType
        /\ UNCHANGED <<tree, store, known, deal, n, seen>>
<1>1. /\ op \in OpType /\ op.pc = "commit" /\ op.kind = "fix" /\ op' = NoOp /\ Alive /\ op.snap \in Trees /\ Idle
      /\ task \in TaskType /\ op # NoOp
  BY CommitsIs DEF CommitFix
<1>2. task.status = "waiting" /\ task.fixing
  BY <1>1 DEF InvWork
<1> DEFINE last == task.step = Plan
           t == op.snap
<1>3. last \in BOOLEAN /\ (~last /\ TRUE => task.step # Plan) /\ Accepting(t, last, TRUE)
      /\ t \in Trees /\ TRUE \in BOOLEAN
  BY <1>1 DEF CommitFix
<1> HIDE DEF last
<1>4. /\ accepted' = t /\ task' \in TaskType /\ task'.id = task.id /\ task'.base = t /\ task'.report = task.report
      /\ ~task'.fixing /\ task'.status \in {"completed", "activating"}
      /\ sweep' \in SweepType /\ sweep'.pc = "idle"
  BY <1>1, <1>3, AcceptingIs
<1>5. Recorded \in RecordType
  BY <1>1, RecordedIs
<1>6. QED
  BY <1>1, <1>2, <1>4, <1>5 DEF CommitFix

\* An operation that fails is over.
LEMMA EndedIs == ASSUME TypeOK, InvWork, InvSweep, KeptChanging \/ FreezeFails
  PROVE /\ op \in OpType /\ Alive /\ op' = NoOp /\ Failing
        /\ n' \in Counts /\ n'.tasks = n.tasks /\ n'.reports = n.reports /\ n'.writes = n.writes
        /\ UNCHANGED <<tree, known, deal, sweep, accepted, frozen, seen>>
        /\ StoreKeeps /\ store'.torn \subseteq store.torn \cup {tree[f] : f \in Links}
<1>1. op # NoOp /\ ~op.dead /\ op' = NoOp /\ Failing
      /\ UNCHANGED <<tree, known, deal, sweep, accepted, frozen, seen>>
  BY DEF KeptChanging, FreezeFails, NoOp
<1>5. StoreKeeps /\ store'.torn \subseteq store.torn \cup {tree[f] : f \in Links}
  <2>1. CASE KeptChanging
    BY <2>1 DEF KeptChanging, StoreKeeps, TypeOK
  <2>2. CASE FreezeFails
    BY <2>2, TearsIs DEF FreezeFails
  <2>3. QED
    BY <2>1, <2>2
<1>2. Happens \/ n' = n
  BY DEF KeptChanging, FreezeFails
<1>3. n' \in Counts /\ n'.tasks = n.tasks /\ n'.reports = n.reports /\ n'.writes = n.writes
  BY <1>2, HappensIs DEF TypeOK
<1>4. QED
  BY <1>1, <1>3, <1>5, AliveIs DEF Alive

\* How an operation of a kind starts.
Starts(kind) == \/ kind = "base" /\ PrepareBase
                \/ kind = "report" /\ FinalizeReport
                \/ kind = "fix" /\ Fixed

\* An operation starts for a task at the status it needs, with the base of the task.
LEMMA StartsIs == ASSUME TypeOK, NEW kind \in {"base", "report", "fix"}, Starts(kind)
  PROVE /\ task \in TaskType /\ op = NoOp /\ op' \in OpType /\ op' # NoOp /\ UNCHANGED <<store, known>> /\ Frame
        /\ op'.kind = kind /\ op'.task = task.id /\ op'.base = task.base /\ op'.dead = FALSE
        /\ op'.pc = "capture" /\ op'.why = "first" /\ op'.acc = Pending /\ op'.snap = Pending
        /\ op'.verdict = "none" /\ op'.ran = {}
        /\ kind = "base" => task.status = "activating" /\ task.base = Pending
        /\ kind = "report" => task.status = "settling" /\ op'.of = n.reports
        /\ kind = "fix" => task.status = "waiting" /\ task.fixing /\ op'.of = n.reports
<1>1. task.status \in {"activating", "settling", "waiting"} /\ task \in TaskType
  BY TaskShape DEF Starts, PrepareBase, FinalizeReport, Fixed, Active, Moving
<1>2. 0 \in Nat /\ n.reports \in Nat
  BY CheckpointAssumption DEF TypeOK, Counts
<1>3. CASE kind = "base"
  <2>1. Freeze("base", 0) /\ task.status = "activating" /\ task.base = Pending
    BY <1>3 DEF Starts, PrepareBase
  <2>2. QED
    BY <1>1, <1>2, <1>3, <2>1, FreezeOp
<1>4. CASE kind = "report"
  <2>1. Freeze("report", n.reports) /\ task.status = "settling"
    BY <1>4 DEF Starts, FinalizeReport
  <2>2. QED
    BY <1>1, <1>2, <1>4, <2>1, FreezeOp
<1>5. CASE kind = "fix"
  <2>1. Freeze("fix", n.reports) /\ task.status = "waiting" /\ task.fixing
    BY <1>5 DEF Starts, Fixed
  <2>2. QED
    BY <1>1, <1>2, <1>5, <2>1, FreezeOp
<1>6. QED
  BY <1>3, <1>4, <1>5

-----------------------------------------------------------------------------
(* What the collection does. *)

\* A manifest is of a report or a fix, with its two trees.
LEMMA StoreShape == ASSUME TypeOK
  PROVE /\ store \in StoreType /\ store.blobs \subseteq Contents /\ store.torn \subseteq Contents
        /\ store.snaps \subseteq Trees
        /\ \A m \in store.manifests : m.base \in Trees /\ m.tree \in Trees
  BY DEF TypeOK, StoreType

\* First the manifests of the tasks that are not kept go, and what the rest needs is noted.
LEMMA SweepReportsIs == ASSUME TypeOK, InvSweep, SweepReports
  PROVE /\ UNCHANGED <<tree, known, task, op, deal, n, accepted, frozen, seen>> /\ sweep' \in SweepType
        /\ store' \in StoreType
        /\ store'.blobs = store.blobs /\ store'.snaps = store.snaps /\ sweep'.due = FALSE
        /\ \/ Active /\ store' = store /\ sweep'.pc = "idle"
           \/ /\ ~Active /\ store'.manifests = {m \in store.manifests : m.task \in Kept} /\ sweep'.pc = "snaps"
              /\ \A m \in store'.manifests : {m.base, m.tree} \subseteq sweep'.live
<1>1. sweep.due /\ Idle /\ UNCHANGED <<tree, known, task, op, deal, n, accepted, frozen, seen>>
  BY DEF SweepReports
<1>2. CASE Active
  <2>1. store' = store /\ sweep' = [sweep EXCEPT !.due = FALSE]
    BY <1>2 DEF SweepReports
  <2>2. sweep' \in SweepType /\ sweep'.pc = "idle" /\ sweep'.due = FALSE
    BY <1>1, <2>1, SweepShape DEF SweepType
  <2>3. QED
    BY <1>1, <1>2, <2>1, <2>2, StoreShape
<1>3. CASE ~Active
  <2> DEFINE left == {m \in store.manifests : m.task \in Kept}
             rep  == IF task.report = NoReport THEN {} ELSE {task.report.tree}
             live == {m.tree : m \in left} \cup {m.base : m \in left} \cup {task.base} \cup rep
  <2>1. store' = [store EXCEPT !.manifests = left] /\ sweep' = [pc |-> "snaps", due |-> FALSE, live |-> live]
    BY <1>3 DEF SweepReports
  <2>2. task \in TaskType
    BY <1>1, TaskShape DEF InvSweep
  <2>3. task.base \in Trees \cup {Pending} /\ rep \subseteq Trees
    BY <2>2 DEF TaskType, ReportType
  <2>4. \A m \in left : m.base \in Trees /\ m.tree \in Trees
    BY StoreShape
  <2>5. live \in SUBSET (Trees \cup {Pending}) /\ \A m \in left : {m.base, m.tree} \subseteq live
    BY <2>3, <2>4
  <2>6. left \in SUBSET store.manifests
    OBVIOUS
  <2> HIDE DEF live, left
  <2>7. sweep' \in SweepType /\ sweep'.pc = "snaps" /\ sweep'.live = live /\ sweep'.due = FALSE
    BY <2>1, <2>5 DEF SweepType
  <2>8. /\ store' \in StoreType /\ store'.blobs = store.blobs /\ store'.snaps = store.snaps
        /\ store'.manifests = left
    BY <2>1, <2>6, StoreShape DEF StoreType
  <2>9. QED
    BY <1>1, <1>3, <2>5, <2>7, <2>8 DEF left
<1>4. QED
  BY <1>2, <1>3

\* Then the snapshots that none of them needs; the blobs of the rest are noted.
LEMMA SweepSnapshotsIs == ASSUME TypeOK, SweepSnapshots
  PROVE /\ UNCHANGED <<tree, known, task, op, deal, n, accepted, frozen, seen>> /\ sweep' \in SweepType
        /\ store' \in StoreType
        /\ sweep.pc = "snaps" /\ sweep'.pc = "blobs" /\ sweep'.due = FALSE
        /\ store'.blobs = store.blobs /\ store'.manifests = store.manifests
        /\ store'.snaps = store.snaps \cap sweep.live
        /\ \A t \in store.snaps \cap sweep.live : Range(t) \subseteq sweep'.live
<1> DEFINE kept == store.snaps \cap sweep.live
           live == UNION {Range(t) : t \in kept}
<1>1. /\ UNCHANGED <<tree, known, task, op, deal, n, accepted, frozen, seen>> /\ sweep.pc = "snaps"
      /\ store' = [store EXCEPT !.snaps = kept] /\ sweep' = [pc |-> "blobs", due |-> FALSE, live |-> live]
  BY DEF SweepSnapshots
<1>2. kept \in SUBSET Trees
  BY StoreShape
<1>3. live \in SUBSET Contents /\ \A t \in kept : Range(t) \subseteq live
  BY <1>2, TreeContents
<1> HIDE DEF kept, live
<1>4. sweep' \in SweepType /\ sweep'.pc = "blobs" /\ sweep'.live = live /\ sweep'.due = FALSE
  BY <1>1, <1>3 DEF SweepType
<1>5. store' \in StoreType /\ store'.blobs = store.blobs /\ store'.manifests = store.manifests /\ store'.snaps = kept
  BY <1>1, <1>2, StoreShape DEF StoreType
<1>6. QED
  BY <1>1, <1>3, <1>4, <1>5 DEF kept

\* At last the blobs; what was known to be stored is asked again.
LEMMA SweepBlobsIs == ASSUME TypeOK, SweepBlobs
  PROVE /\ UNCHANGED <<tree, task, op, deal, n, accepted, frozen, seen>> /\ sweep' \in SweepType /\ store' \in StoreType
        /\ known' = {} /\ sweep.pc = "blobs" /\ sweep'.pc = "idle" /\ sweep'.due = FALSE
        /\ store'.snaps = store.snaps /\ store'.manifests = store.manifests
        /\ store'.blobs = store.blobs \cap sweep.live /\ store'.torn \subseteq store.torn
<1> DEFINE b == store.blobs \cap sweep.live
           t == store.torn \cap sweep.live
<1>1. /\ UNCHANGED <<tree, task, op, deal, n, accepted, frozen, seen>> /\ sweep.pc = "blobs" /\ known' = {}
      /\ store' = [store EXCEPT !.blobs = b, !.torn = t] /\ sweep' = [pc |-> "idle", due |-> FALSE]
  BY DEF SweepBlobs
<1>2. b \in SUBSET Contents /\ t \in SUBSET Contents /\ t \subseteq store.torn
  BY StoreShape
<1> HIDE DEF b, t
<1>3. /\ store' \in StoreType /\ store'.snaps = store.snaps /\ store'.manifests = store.manifests /\ store'.blobs = b
      /\ store'.torn = t
  BY <1>1, <1>2, StoreShape DEF StoreType
<1>4. sweep' \in SweepType /\ sweep'.pc = "idle" /\ sweep'.due = FALSE
  BY <1>1 DEF SweepType
<1>5. QED
  BY <1>1, <1>2, <1>3, <1>4 DEF b

\* A file that is read is stored.
LEMMA ReadFileStores == ASSUME TypeOK, known \subseteq store.blobs, ReadFile
  PROVE /\ store' \in StoreType /\ known' \subseteq Contents /\ known' \subseteq store'.blobs
        /\ store'.snaps = store.snaps /\ store'.manifests = store.manifests /\ store.blobs \subseteq store'.blobs
        /\ Range(op.acc) \subseteq store.blobs => Range(op'.acc) \subseteq store'.blobs
        /\ Frame
<1> DEFINE f == NextFile
           a == [g \in DOMAIN op.acc \cup {f} |-> IF g = f THEN tree[f] ELSE op.acc[g]]
<1>1. op.pc = "capture" /\ f \in Files /\ op' = [op EXCEPT !.acc = a] /\ Storing({tree[f]}) /\ Frame
  BY DEF ReadFile, Frame
<1>2. {tree[f]} \in SUBSET Contents
  BY <1>1 DEF TypeOK, Trees
<1>3. op \in OpType
  BY <1>1, CaptureShape
<1>4. Range(a) \subseteq Range(op.acc) \cup {tree[f]}
  BY DEF Range
<1> HIDE DEF a
<1>5. op'.acc = a
  BY <1>1, <1>3 DEF OpType
<1> HIDE DEF f
<1>6. /\ store' \in StoreType /\ known' \subseteq Contents /\ known' \subseteq store'.blobs
      /\ store'.snaps = store.snaps /\ store'.manifests = store.manifests
      /\ store.blobs \subseteq store'.blobs /\ {tree[f]} \subseteq store'.blobs
  BY <1>1, <1>2, StoringIs
<1>7. QED
  BY <1>1, <1>4, <1>5, <1>6

-----------------------------------------------------------------------------
(* The parts of the inductive invariant, one by one. *)

\* Every step keeps the types.
LEMMA TypeKept == ASSUME CheckpointInv, [Next]_vars PROVE TypeOK'
<1> USE DEF CheckpointInv
<1>1. known \subseteq store.blobs
  BY DEF InvStored
<1>2. CASE UNCHANGED vars
  BY <1>2 DEF vars, TypeOK, StoreType
<1>3. CASE Progress
  <2>1. Frame /\ op' \in OpType \cup {NoOp}
    BY <1>3, ProgressOp
  <2>2. store' \in StoreType /\ known' \subseteq Contents
    <3>1. CASE ReadFile
      BY <1>1, <3>1, ReadFileStores
    <3>2. CASE First \/ After \/ Again \/ Recaptured \/ \E ok \in BOOLEAN : RunCheck(ok)
      BY <3>2, FirstOp, AfterOp, AgainOp, RecapturedOp, RunCheckOp DEF TypeOK
    <3>3. CASE SaveSnapshots \/ SaveManifest
      BY <3>3, SaveSnapshotsOp, SaveManifestOp DEF TypeOK
    <3>4. QED
      BY <1>3, <3>1, <3>2, <3>3 DEF Progress
  <2>3. QED
    BY <2>1, <2>2 DEF TypeOK, Frame
<1>4. CASE KeptChanging \/ FreezeFails
  <2>1. /\ op' = NoOp /\ n' \in Counts /\ Failing /\ Alive /\ store' \in StoreType
        /\ UNCHANGED <<tree, known, deal, sweep, accepted, frozen, seen>>
    BY <1>4, EndedIs DEF StoreKeeps
  <2>2. task' \in TaskType
    BY <2>1, FailingIs
  <2>3. QED
    BY <2>1, <2>2 DEF TypeOK
<1>5. CASE Revoked
  BY <1>5 DEF TypeOK, Revoked
<1>6. CASE PrepareBase \/ FinalizeReport \/ Fixed
  <2>1. PICK kind \in {"base", "report", "fix"} : Starts(kind)
    BY <1>6 DEF Starts
  <2>2. op' \in OpType /\ UNCHANGED <<store, known>> /\ Frame
    BY <2>1, StartsIs
  <2>3. QED
    BY <2>2 DEF TypeOK, Frame
<1>7. CASE CommitBase
  BY <1>7, CommitBaseIs DEF TypeOK
<1>8. CASE Publish
  BY <1>8, PublishIs DEF TypeOK
<1>9. CASE AutoRepair
  BY <1>9, AutoRepairIs DEF TypeOK
<1>10. CASE CommitFix
  BY <1>10, CommitFixIs DEF TypeOK
<1>11. CASE Activate
  BY <1>1, <1>11, ActivateIs DEF TypeOK
<1>12. CASE \E k \in {"review", "question"} : Report(k)
  BY <1>12, ReportIs DEF TypeOK
<1>13. CASE Pause
  <2>1. op' \in OpType \cup {NoOp}
    BY <1>13, PauseIs, KilledOp
  <2>2. QED
    BY <1>13, <2>1, PauseIs DEF TypeOK
<1>14. CASE Resume
  BY <1>14, ResumeIs DEF TypeOK
<1>15. CASE Cancel
  <2>1. op' \in OpType \cup {NoOp}
    BY <1>15, CancelIs, KilledOp
  <2>2. QED
    BY <1>15, <2>1, CancelIs DEF TypeOK
<1>16. CASE Restart
  BY <1>16, RestartIs DEF TypeOK, StoreKeeps
<1>17. CASE Inspect
  BY <1>17, InspectIs DEF TypeOK
<1>18. CASE \E a \in Exact \cup {"answer", "revise"} : Decide(a)
  BY <1>1, <1>18, DecideIs DEF TypeOK
<1>19. CASE \E c \in BOOLEAN : Approve(c)
  BY <1>19, ApproveIs DEF TypeOK
<1>20. CASE Continue
  BY <1>20, ContinueIs DEF TypeOK
<1>21. CASE Fix
  BY <1>21, FixIs DEF TypeOK
<1>22. CASE Dispatch
  BY <1>22, DispatchIs DEF TypeOK
<1>23. CASE SweepReports
  BY <1>23, SweepReportsIs DEF TypeOK
<1>24. CASE SweepSnapshots
  BY <1>24, SweepSnapshotsIs DEF TypeOK
<1>25. CASE SweepBlobs
  BY <1>25, SweepBlobsIs DEF TypeOK
<1>26. CASE Write
  BY <1>26, WriteIs DEF TypeOK
<1>27. CASE Restore
  BY <1>27, RestoreIs DEF TypeOK
<1>28. QED
  BY <1>2, <1>3, <1>4, <1>5, <1>6, <1>7, <1>8, <1>9, <1>10, <1>11, <1>12, <1>13, <1>14, <1>15, <1>16, <1>17, <1>18,
     <1>19, <1>20, <1>21, <1>22, <1>23, <1>24, <1>25, <1>26, <1>27
     DEF Next, Freezing, Sweeping, Main, People, Worker, Progress

\* What a step can do to an operation: go on with it, start one, end it, revoke it, or leave it alone.
LEMMA OpSteps == ASSUME [Next]_vars
  PROVE Progress \/ (\E kind \in {"base", "report", "fix"} : Starts(kind)) \/ op' = op \/ op' = NoOp \/ Killed
<1>1. KeptChanging \/ FreezeFails \/ Revoked \/ Restart => op' = NoOp
  BY DEF KeptChanging, FreezeFails, Revoked, Restart
<1>2. CommitBase \/ Publish \/ AutoRepair \/ CommitFix => op' = NoOp
  BY DEF CommitBase, Publish, AutoRepair, CommitFix, Commits
<1>3. Pause \/ Cancel => Killed
  BY DEF Pause, Cancel
<1>4. Activate \/ Resume \/ Inspect \/ Continue \/ Fix \/ Dispatch \/ Write \/ Restore => op' = op
  BY DEF Activate, Resume, Inspect, Continue, Fix, Dispatch, Write, Restore
<1>5. SweepReports \/ SweepSnapshots \/ SweepBlobs => op' = op
  BY DEF SweepReports, SweepSnapshots, SweepBlobs
<1>6. (\E k \in {"review", "question"} : Report(k)) => op' = op
  BY DEF Report
<1>7. (\E a \in Exact \cup {"answer", "revise"} : Decide(a)) \/ (\E c \in BOOLEAN : Approve(c)) => op' = op
  BY DEF Decide, Approve
<1>8. PrepareBase \/ FinalizeReport \/ Fixed => \E kind \in {"base", "report", "fix"} : Starts(kind)
  BY DEF Starts
<1>9. UNCHANGED vars => op' = op
  BY DEF vars
<1>10. QED
  BY <1>1, <1>2, <1>3, <1>4, <1>5, <1>6, <1>7, <1>8, <1>9
     DEF Next, Freezing, Sweeping, Main, People, Worker, Progress

\* There is something to freeze, and something to compare it with.
LEMMA StagesKept == ASSUME CheckpointInv, [Next]_vars PROVE InvStages'
<1> USE DEF CheckpointInv
<1>2. CASE op' = op \/ op' = NoOp
  BY <1>2 DEF InvStages, Reading, NoOp, Pending
<1>3. CASE Killed
  BY <1>3, KilledOp DEF InvStages, Reading
<1>4. ASSUME NEW kind \in {"base", "report", "fix"}, Starts(kind) PROVE InvStages'
  <2>1. kind # "base" => task.base # Pending
    BY <1>4, StartsIs DEF InvTask
  <2>2. QED
    BY <1>4, <2>1, StartsIs DEF InvStages, Reading
<1>5. CASE ReadFile
  BY <1>5, ReadFileOp, ProgressOp DEF InvStages, Reading, Identity, Progress
<1>6. CASE First
  BY <1>6, FirstOp, TreesHaveFiles, ProgressOp DEF InvStages, Reading, Identity, Progress
<1>7. CASE After
  BY <1>7, AfterOp, TreesHaveFiles, ProgressOp DEF InvStages, Reading, Identity, Progress
<1>8. CASE SaveSnapshots
  BY <1>8, SaveSnapshotsOp, TreesHaveFiles, ProgressOp DEF InvStages, Reading, Identity, Progress
<1>9. CASE SaveManifest
  BY <1>9, SaveManifestOp, TreesHaveFiles, ProgressOp DEF InvStages, Reading, Identity, Progress
<1>10. CASE Again
  BY <1>10, AgainOp, TreesHaveFiles, ProgressOp DEF InvStages, Reading, Identity, Progress
<1>11. CASE Recaptured
  BY <1>11, RecapturedOp, TreesHaveFiles, ProgressOp DEF InvStages, Reading, Identity, Progress
<1>12. CASE \E ok \in BOOLEAN : RunCheck(ok)
  BY <1>12, RunCheckOp, TreesHaveFiles, ProgressOp DEF InvStages, Reading, Identity, Progress
<1>13. QED
  BY <1>2, <1>3, <1>4, <1>5, <1>6, <1>7, <1>8, <1>9, <1>10, <1>11, <1>12, OpSteps DEF Progress

\* What the checks that passed ran on.
LEMMA VerdictKept == ASSUME CheckpointInv, [Next]_vars PROVE InvVerdict'
<1> USE DEF CheckpointInv
<1>2. CASE op' = op \/ op' = NoOp
  BY <1>2 DEF InvVerdict, Reading, NoOp, Pending
<1>3. CASE Killed
  BY <1>3, KilledOp DEF InvVerdict, Reading, Findings
<1>4. ASSUME NEW kind \in {"base", "report", "fix"}, Starts(kind) PROVE InvVerdict'
  BY <1>4, StartsIs DEF InvVerdict, Reading
<1>5. CASE ReadFile
  <2>1. op # NoOp /\ op'.pc = op.pc /\ op'.why = op.why /\ op'.snap = op.snap /\ op'.kind = op.kind /\ Findings
    BY <1>5, ReadFileOp, ProgressOp DEF Identity, Progress, ReadFile
  <2>2. QED
    BY <2>1 DEF InvVerdict, Reading, Findings
<1>6. CASE First
  BY <1>6, FirstOp, ProgressOp DEF InvVerdict, Reading, Identity, Findings, Progress
<1>7. CASE After
  BY <1>7, AfterOp, ProgressOp DEF InvVerdict, Reading, Identity, Progress
<1>8. CASE SaveSnapshots
  BY <1>8, SaveSnapshotsOp, ProgressOp DEF InvVerdict, Reading, Identity, Findings, Progress
<1>9. CASE SaveManifest
  BY <1>9, SaveManifestOp, ProgressOp DEF InvVerdict, Reading, Identity, Findings, Progress
<1>10. CASE Again
  BY <1>10, AgainOp, ProgressOp DEF InvVerdict, Reading, Identity, Findings, Progress
<1>11. CASE Recaptured
  BY <1>11, RecapturedOp, ProgressOp DEF InvVerdict, Reading, Identity, Progress
<1>12. CASE \E ok \in BOOLEAN : RunCheck(ok)
  BY <1>12, RunCheckOp, ProgressOp DEF InvVerdict, Reading, Identity, Progress
<1>13. QED
  BY <1>2, <1>3, <1>4, <1>5, <1>6, <1>7, <1>8, <1>9, <1>10, <1>11, <1>12, OpSteps DEF Progress

\* No tree there was has a content newer than the last write.
LEMMA Bounded == ASSUME TypeOK, InvReads, NEW t \in seen
                 PROVE  t \in Trees /\ \A f \in Files : t[f] \in Nat /\ t[f] <= n.writes
  BY DEF TypeOK, InvReads, Trees, Contents

\* The trees there were, and what an operation read of them: InvReads by its parts.
SeenFits  == tree \in seen /\ \A t \in seen : \A f \in Files : t[f] <= n.writes
ReadFits  == op # NoOp => /\ \A f \in DOMAIN op.acc : op.acc[f] <= tree[f]
                          /\ op.snap # Pending => \A f \in Files : op.snap[f] <= tree[f]
AgainFits == op # NoOp => /\ Reading("again") => \E t \in seen : Between(t)
                          /\ op.pc = "commit" /\ op.kind # "base" => op.snap \in seen

\* The tree is written by a write and by a restoration only.
LEMMA TreeSteps == ASSUME CheckpointInv, [Next]_vars
  PROVE Write \/ Restore \/ (tree' = tree /\ seen' = seen /\ n'.writes = n.writes)
<1> USE DEF CheckpointInv
<1>1. CASE Progress
  BY <1>1, ProgressOp DEF Frame
<1>2. CASE KeptChanging \/ FreezeFails
  BY <1>2, EndedIs
<1>3. CASE Restart \/ Pause \/ Dispatch \/ \E k \in {"review", "question"} : Report(k)
  BY <1>3, RestartIs, PauseIs, DispatchIs, ReportIs
<1>4. CASE Revoked \/ PrepareBase \/ FinalizeReport \/ Fixed
  BY <1>4 DEF Revoked, PrepareBase, FinalizeReport, Fixed, Freeze
<1>5. CASE CommitBase \/ Publish \/ AutoRepair \/ CommitFix
  BY <1>5 DEF CommitBase, Publish, AutoRepair, CommitFix
<1>6. CASE Activate \/ Resume \/ Cancel \/ Inspect \/ Continue \/ Fix
  BY <1>6 DEF Activate, Resume, Cancel, Inspect, Continue, Fix
<1>7. CASE (\E a \in Exact \cup {"answer", "revise"} : Decide(a)) \/ (\E c \in BOOLEAN : Approve(c))
  BY <1>7 DEF Decide, Approve
<1>8. CASE SweepReports \/ SweepSnapshots \/ SweepBlobs
  BY <1>8 DEF SweepReports, SweepSnapshots, SweepBlobs
<1>9. CASE UNCHANGED vars
  BY <1>9 DEF vars
<1>10. QED
  BY <1>1, <1>2, <1>3, <1>4, <1>5, <1>6, <1>7, <1>8, <1>9
     DEF Next, Freezing, Sweeping, Main, People, Worker, Progress

\* The tree is one of those there were, and no content is newer than the last write.
LEMMA SeenKept == ASSUME CheckpointInv, [Next]_vars PROVE SeenFits'
<1> USE DEF CheckpointInv
<1>1. SeenFits /\ n.writes \in Nat /\ \A t \in seen : \A f \in Files : t[f] \in Nat
  BY Bounded DEF InvReads, SeenFits, TypeOK, Counts
<1>2. CASE Write
  <2>1. /\ tree' \in seen' /\ seen' = seen \cup {tree'} /\ n'.writes = n.writes + 1
        /\ \A f \in Files : tree'[f] <= n'.writes
    BY <1>2, WriteIs
  <2>2. \A t \in seen : \A f \in Files : t[f] <= n'.writes
    BY <1>1, <2>1 DEF SeenFits
  <2>3. QED
    BY <2>1, <2>2 DEF SeenFits
<1>3. CASE Restore
  <2>1. task.status = "waiting" /\ tree' = task.report.tree /\ seen' = seen \cup {tree'} /\ n'.writes = n.writes
    BY <1>3, RestoreIs
  <2>2. task.report.tree \in seen
    BY <2>1 DEF ReviewsTile, CheckpointsAreReal, FrozenExisted
  <2>3. QED
    BY <1>1, <2>1, <2>2 DEF SeenFits
<1>4. CASE tree' = tree /\ seen' = seen /\ n'.writes = n.writes
  BY <1>1, <1>4 DEF SeenFits
<1>5. QED
  BY <1>2, <1>3, <1>4, TreeSteps

\* While an operation is there, contents only grow.
LEMMA Grows == ASSUME CheckpointInv, [Next]_vars
  PROVE seen \subseteq seen' /\ (op # NoOp => \A f \in Files : tree[f] <= tree'[f])
                            /\ \A f \in Files : tree[f] \in Nat /\ tree'[f] \in Nat
<1> USE DEF CheckpointInv
<1>1. tree \in Trees /\ tree' \in Trees
  BY TypeKept DEF TypeOK
<1>2. \A f \in Files : tree[f] \in Nat /\ tree'[f] \in Nat
  BY <1>1 DEF Trees, Contents
<1>3. CASE Write
  BY <1>2, <1>3, WriteIs
<1>4. CASE Restore
  BY <1>2, <1>4, RestoreIs
<1>5. CASE tree' = tree /\ seen' = seen /\ n'.writes = n.writes
  BY <1>2, <1>5
<1>6. QED
  BY <1>3, <1>4, <1>5, TreeSteps

\* What an operation has read is not newer than what is there.
LEMMA ReadKept == ASSUME CheckpointInv, [Next]_vars PROVE ReadFits'
<1> USE DEF CheckpointInv
<1>1. ReadFits
  BY DEF InvReads, ReadFits
<1>2. /\ op # NoOp => /\ DOMAIN op.acc \subseteq Files /\ \A f \in DOMAIN op.acc : op.acc[f] \in Nat
                      /\ op.snap # Pending => \A f \in Files : op.snap[f] \in Nat
  <2>1. ASSUME op # NoOp PROVE op.acc \in Partial /\ op.snap \in Trees \cup {Pending}
    BY <2>1, OpShape DEF OpType
  <2>2. QED
    BY <2>1 DEF Partial, Trees, Contents
<1>3. Pending = << >> /\ DOMAIN Pending = {}
  BY DEF Pending
<1>4. CASE op' = op \/ op' = NoOp
  BY <1>1, <1>2, <1>4, Grows DEF ReadFits, NoOp, Pending
<1>5. CASE Killed
  <2>1. op' = NoOp \/ (op # NoOp /\ op'.acc = op.acc /\ op'.snap = op.snap)
    BY <1>5, KilledOp
  <2>2. QED
    BY <1>1, <1>2, <1>4, <2>1, Grows DEF ReadFits, Pending
<1>6. ASSUME NEW kind \in {"base", "report", "fix"}, Starts(kind) PROVE ReadFits'
  BY <1>3, <1>6, StartsIs DEF ReadFits, Pending
<1>7. CASE ReadFile
  <2>1. op # NoOp /\ tree' = tree /\ op'.snap = op.snap
        /\ \A f \in DOMAIN op'.acc : \/ f \in DOMAIN op.acc /\ op'.acc[f] = op.acc[f]
                                     \/ f \in Files /\ op'.acc[f] = tree[f]
    BY <1>7, ReadFileOp, ProgressOp DEF Progress, Frame
  <2>2. QED
    BY <1>1, <1>2, <2>1, Grows DEF ReadFits, Pending
<1>8. CASE First \/ After \/ Recaptured
  <2>1. op' = NoOp \/ (op'.snap = op.acc /\ op'.acc = op.acc)
    BY <1>8, FirstOp, AfterOp, RecapturedOp
  <2>2. op # NoOp /\ tree' = tree /\ op.acc \in Trees /\ DOMAIN op.acc = Files
    BY <1>8, ProgressOp, FirstOp, AfterOp, RecapturedOp, TreesHaveFiles DEF Progress, Frame
  <2>3. QED
    BY <1>1, <1>4, <2>1, <2>2 DEF ReadFits
<1>9. CASE SaveSnapshots
  <2>1. op # NoOp /\ tree' = tree /\ op'.snap = op.snap /\ op'.acc = op.acc
    BY <1>9, SaveSnapshotsOp, ProgressOp DEF Progress, Frame
  <2>2. QED
    BY <1>1, <2>1 DEF ReadFits, Pending
<1>10. CASE SaveManifest \/ \E ok \in BOOLEAN : RunCheck(ok)
  <2>1. op # NoOp /\ tree' = tree /\ op'.snap = op.snap /\ op'.acc = Pending
    BY <1>10, SaveManifestOp, RunCheckOp, ProgressOp DEF Progress, Frame
  <2>2. QED
    BY <1>1, <1>3, <2>1 DEF ReadFits, Pending
<1>11. CASE Again
  <2>1. op # NoOp /\ tree' = tree /\ op'.snap = op.snap /\ (op'.acc = op.acc \/ op'.acc = Pending)
    BY <1>11, AgainOp, ProgressOp DEF Progress, Frame
  <2>2. QED
    BY <1>1, <1>3, <2>1 DEF ReadFits, Pending
<1>12. QED
  BY <1>4, <1>5, <1>6, <1>7, <1>8, <1>9, <1>10, <1>11, OpSteps DEF Progress

\* Between two captures that agree there was a moment at which the tree was as captured.
LEMMA Pinned ==
  ASSUME TypeOK, InvReads, NEW t \in seen, Between(t), op \in OpType, op.acc = op.snap, op.snap \in Trees
  PROVE  op.snap \in seen
<1>1. t \in Trees /\ DOMAIN op.acc = Files
  BY Bounded, TreesHaveFiles
<1>2. \A f \in Files : t[f] \in Nat /\ op.snap[f] \in Nat
  BY <1>1 DEF Trees, Contents
<1>3. \A f \in Files : op.snap[f] <= t[f] /\ t[f] <= op.snap[f]
  BY <1>1 DEF Between
<1>4. \A f \in Files : op.snap[f] = t[f]
  BY <1>2, <1>3
<1>5. op.snap = t
  BY <1>1, <1>4 DEF Trees
<1>6. QED
  BY <1>5

\* While the tree is read once more there is such a moment.
LEMMA AgainKept == ASSUME CheckpointInv, [Next]_vars PROVE AgainFits'
<1> USE DEF CheckpointInv
<1>1. AgainFits /\ ReadFits
  BY DEF InvReads, AgainFits, ReadFits
<1>2. ASSUME op # NoOp, op'.kind = op.kind, op'.pc = op.pc, op'.why = op.why, op'.acc = op.acc, op'.snap = op.snap
      PROVE  AgainFits'
  <2>1. ASSUME NEW t \in seen, Between(t) PROVE t \in seen' /\ Between(t)'
    <3>1. \A f \in Files : tree[f] <= tree'[f] /\ tree[f] \in Nat /\ tree'[f] \in Nat /\ t[f] \in Nat
      BY <1>2, Grows, Bounded
    <3>2. QED
      BY <1>2, <2>1, <3>1, Grows DEF Between
  <2>2. op.snap \in seen => op'.snap \in seen'
    BY <1>2, Grows
  <2>3. QED
    BY <1>1, <1>2, <2>1, <2>2 DEF AgainFits, Reading
<1>3. CASE op' = op \/ op' = NoOp
  BY <1>2, <1>3 DEF AgainFits, NoOp
<1>4. CASE Killed
  BY <1>2, <1>3, <1>4, KilledOp
<1>5. ASSUME NEW kind \in {"base", "report", "fix"}, Starts(kind) PROVE AgainFits'
  BY <1>5, StartsIs DEF AgainFits, Reading
<1>6. CASE ReadFile
  <2>1. /\ op # NoOp /\ tree' = tree /\ seen' = seen /\ op.pc = "capture" /\ op'.pc = "capture" /\ op'.why = op.why
        /\ op'.snap = op.snap
        /\ \A f \in DOMAIN op'.acc : \/ f \in DOMAIN op.acc /\ op'.acc[f] = op.acc[f]
                                     \/ f \in Files /\ op'.acc[f] = tree[f]
    BY <1>6, ReadFileOp, ProgressOp DEF Progress, Frame
  <2>2. ASSUME NEW t \in seen, Between(t) PROVE t \in seen' /\ Between(t)'
    BY <2>1, <2>2 DEF Between
  <2>3. QED
    BY <1>1, <2>1, <2>2 DEF AgainFits, Reading
<1>7. CASE First \/ After \/ Recaptured
  <2>1. op' = NoOp \/ op'.pc \in {"check", "save"}
    BY <1>7, FirstOp, AfterOp, RecapturedOp
  <2>2. QED
    BY <1>3, <2>1 DEF AgainFits, Reading
<1>8. CASE SaveSnapshots
  <2>1. op'.pc \in {"commit", "manifest"} /\ (op'.pc = "commit" => op'.kind = "base")
    BY <1>8, SaveSnapshotsOp DEF Identity
  <2>2. QED
    BY <2>1 DEF AgainFits, Reading
<1>9. CASE \E ok \in BOOLEAN : RunCheck(ok)
  BY <1>9, RunCheckOp DEF AgainFits, Reading
<1>10. CASE SaveManifest
  <2>1. /\ op # NoOp /\ tree' = tree /\ seen' = seen /\ op'.acc = Pending /\ op'.snap = op.snap /\ op.snap \in Trees
        /\ op'.pc = "capture"
    BY <1>10, SaveManifestOp, ProgressOp DEF Progress, Frame
  <2>2. tree \in seen' /\ \A f \in Files : op'.snap[f] <= tree[f] /\ tree[f] <= tree'[f]
    BY <1>1, <2>1, TreesHaveFiles, Grows DEF ReadFits, InvReads
  <2>3. Pending = << >> /\ DOMAIN Pending = {}
    BY DEF Pending
  <2>4. Between(tree)'
    BY <2>1, <2>2, <2>3 DEF Between
  <2>5. QED
    BY <2>1, <2>2, <2>4 DEF AgainFits, Reading
<1>11. CASE Again
  <2>1. /\ op \in OpType /\ op # NoOp /\ op.pc = "capture" /\ op.why = "again" /\ seen' = seen /\ op'.snap = op.snap
        /\ op.acc \in Trees
        /\ \/ op'.pc = "commit" /\ op.acc = op.snap
           \/ op'.pc = "capture" /\ op'.why = "recapture"
    BY <1>11, AgainOp, ProgressOp DEF Progress, Frame
  <2>2. CASE op'.pc = "commit" /\ op.acc = op.snap
    <3>1. PICK t \in seen : Between(t)
      BY <1>1, <2>1 DEF AgainFits, Reading
    <3>2. op.snap \in seen
      BY <2>1, <2>2, <3>1, Pinned
    <3>3. QED
      BY <2>1, <2>2, <3>2 DEF AgainFits, Reading
  <2>3. CASE op'.pc = "capture" /\ op'.why = "recapture"
    BY <2>3 DEF AgainFits, Reading
  <2>4. QED
    BY <2>1, <2>2, <2>3
<1>12. QED
  BY <1>3, <1>4, <1>5, <1>6, <1>7, <1>8, <1>9, <1>10, <1>11, OpSteps DEF Progress

\* The three together.
LEMMA ReadsKept == ASSUME CheckpointInv, [Next]_vars PROVE InvReads'
<1>1. SeenFits' /\ ReadFits' /\ AgainFits'
  BY SeenKept, ReadKept, AgainKept
<1>2. QED
  BY <1>1 DEF SeenFits, ReadFits, AgainFits, InvReads

\* An operation that was not revoked has the task at the status it began in.
LEMMA AliveAt == ASSUME TypeOK, InvWork, Alive
  PROVE /\ task.status \in {"activating", "settling", "waiting"} /\ (task.status = "waiting" => task.fixing)
        /\ op \in OpType /\ op.kind \in {"base", "report", "fix"}
<1>1. op \in OpType
  BY OpShape DEF Alive
<1>2. op.kind \in {"base", "report", "fix"}
  BY <1>1 DEF OpType
<1>3. QED
  BY <1>1, <1>2 DEF InvWork

\* An operation belongs to the task as it is.
LEMMA WorkKept == ASSUME CheckpointInv, [Next]_vars PROVE InvWork'
<1> USE DEF CheckpointInv
<1>1. ASSUME op' = NoOp, deal' = NoDeal PROVE InvWork'
  BY <1>1 DEF InvWork, Alive, NoOp, NoDeal
<1>2. ASSUME op' = NoOp, deal' = deal, (task' = task \/ deal = NoDeal) PROVE InvWork'
  BY <1>2 DEF InvWork, Alive, NoOp, NoDeal
<1>3. ASSUME op' = op, task' = task, deal' = deal, n'.reports = n.reports PROVE InvWork'
  BY <1>3 DEF InvWork, Alive, NoOp, NoDeal
<1>4. ASSUME op' = op, ~Alive, deal' = NoDeal PROVE InvWork'
  BY <1>4 DEF InvWork, Alive, NoOp, NoDeal
<1>5. CASE UNCHANGED vars \/ Write \/ SweepReports \/ SweepSnapshots \/ SweepBlobs
  <2>1. op' = op /\ task' = task /\ deal' = deal /\ n'.reports = n.reports
    BY <1>5, WriteIs DEF vars, Write, SweepReports, SweepSnapshots, SweepBlobs
  <2>2. QED
    BY <1>3, <2>1
<1>6. CASE Restore
  BY <1>3, <1>6, RestoreIs
<1>7. CASE Progress
  <2>1. /\ op # NoOp /\ (op' = NoOp \/ (op' # NoOp /\ Identity))
        /\ task' = task /\ deal' = deal /\ n' = n
    BY <1>7, ProgressOp DEF Frame
  <2>2. CASE op' = NoOp
    BY <1>2, <2>1, <2>2
  <2>3. CASE op' # NoOp
    BY <2>1, <2>3 DEF InvWork, Alive, NoOp, NoDeal, Identity
  <2>4. QED
    BY <2>2, <2>3
<1>8. CASE KeptChanging \/ FreezeFails
  <2>1. Alive /\ op' = NoOp /\ Failing /\ deal' = deal
    BY <1>8, EndedIs
  <2>2. task' = task \/ deal = NoDeal
    BY <2>1, FailingIs, AliveAt DEF InvWork
  <2>3. QED
    BY <1>2, <2>1, <2>2
<1>9. CASE Revoked
  BY <1>2, <1>9 DEF Revoked
<1>10. ASSUME NEW kind \in {"base", "report", "fix"}, Starts(kind) PROVE InvWork'
  BY <1>10, StartsIs DEF InvWork, Alive, Frame, NoDeal
<1>11. CASE CommitBase \/ Publish \/ AutoRepair \/ CommitFix
  <2>1. Alive /\ op' = NoOp /\ deal' = deal
    BY <1>11, CommitBaseIs, PublishIs, AutoRepairIs, CommitFixIs
  <2>2. deal = NoDeal
    BY <2>1, AliveAt DEF InvWork
  <2>3. QED
    BY <1>1, <2>1, <2>2
<1>12. CASE Activate
  <2>1. op' = NoOp /\ deal' = deal /\ task.status = "activating"
    BY <1>12, ActivateIs DEF InvStored
  <2>2. QED
    BY <1>1, <2>1 DEF InvWork
<1>13. CASE (\E k \in {"review", "question"} : Report(k)) \/ Resume
  <2>1. op' = op /\ deal' = deal /\ task.status \in {"running", "held"}
    BY <1>13, ReportIs, ResumeIs
  <2>2. ~Alive /\ deal = NoDeal
    BY <2>1, AliveAt DEF InvWork
  <2>3. QED
    BY <1>4, <2>1, <2>2
<1>14. CASE Pause \/ Cancel
  <2>1. /\ deal' = NoDeal
        /\ op' = NoOp \/ (op' # NoOp /\ op'.dead = TRUE)
    BY <1>14, PauseIs, CancelIs, KilledOp DEF InvWork, Moving
  <2>2. ~Alive'
    BY <2>1 DEF Alive, NoOp
  <2>3. QED
    BY <2>1, <2>2 DEF InvWork, NoDeal
<1>15. CASE Restart
  BY <1>1, <1>15, RestartIs
<1>16. CASE Inspect
  BY <1>16, InspectIs DEF InvWork, Alive, NoOp, NoDeal
<1>17. CASE \E a \in Exact \cup {"answer", "revise"} : Decide(a)
  BY <1>17 DEF Decide, InvWork, Alive, NoOp, NoDeal
<1>18. CASE (\E c \in BOOLEAN : Approve(c)) \/ Continue \/ Fix
  <2>1. op' = op /\ deal' = NoDeal /\ task.status = "waiting" /\ ~task.fixing
    BY <1>18, ApproveIs, ContinueIs, FixIs
  <2>2. QED
    BY <1>4, <2>1, AliveAt
<1>19. CASE Dispatch
  <2>1. op' = op /\ deal' = deal /\ ~Active
    BY <1>19, DispatchIs
  <2>2. ~Alive /\ deal = NoDeal
    BY <2>1, AliveIs DEF InvWork, Active
  <2>3. QED
    BY <1>4, <2>1, <2>2
<1>20. QED
  BY <1>5, <1>6, <1>7, <1>8, <1>9, <1>10, <1>11, <1>12, <1>13, <1>14, <1>15, <1>16, <1>17, <1>18, <1>19
     DEF Next, Freezing, Sweeping, Main, People, Worker, Progress, Starts

\* The base of the task is what Main accepted last.
LEMMA TaskKept == ASSUME CheckpointInv, [Next]_vars PROVE InvTask'
<1> USE DEF CheckpointInv
<1>1. ASSUME task' = task, n'.tasks = n.tasks, accepted' = accepted PROVE InvTask'
  BY <1>1 DEF InvTask, NoTask, NoReport
<1>2. ASSUME task \in TaskType, task' \in TaskType, TaskKeeps, n'.tasks = n.tasks, accepted' = accepted,
             task'.status \in {"running", "settling", "waiting"} => task.base # Pending,
             task'.status = "waiting" => task.report # NoReport
      PROVE  InvTask'
  <2>1. task # NoTask
    BY <1>2, TaskShape DEF TaskType, NoTask
  <2>2. QED
    BY <1>2, <2>1 DEF InvTask, TaskKeeps, NoReport, Pending
<1>3. CASE UNCHANGED vars \/ Write \/ SweepReports \/ SweepSnapshots \/ SweepBlobs
  <2>1. task' = task /\ n'.tasks = n.tasks /\ accepted' = accepted
    BY <1>3, WriteIs DEF vars, Write, SweepReports, SweepSnapshots, SweepBlobs
  <2>2. QED
    BY <1>1, <2>1
<1>4. CASE Restore
  BY <1>1, <1>4, RestoreIs
<1>5. CASE Progress
  BY <1>1, <1>5, ProgressOp DEF Frame
<1>6. CASE KeptChanging \/ FreezeFails
  <2>1. Alive /\ Failing /\ n'.tasks = n.tasks /\ accepted' = accepted
    BY <1>6, EndedIs
  <2>2. QED
    BY <1>1, <1>2, <2>1, FailingIs
<1>7. CASE Revoked
  BY <1>1, <1>7 DEF Revoked
<1>8. ASSUME NEW kind \in {"base", "report", "fix"}, Starts(kind) PROVE InvTask'
  BY <1>1, <1>8, StartsIs DEF Frame
<1>9. CASE CommitBase
  BY <1>9, CommitBaseIs DEF InvTask, NoTask, NoReport, TaskType
<1>10. CASE Publish
  <2>1. task # NoTask
    BY <1>10, PublishIs, TaskShape
  <2>2. task'.report # NoReport
    BY <1>10, PublishIs DEF ReportType, NoReport
  <2>3. task'.base # Pending
    BY <1>10, PublishIs DEF InvTask
  <2>4. QED
    BY <1>10, <2>1, <2>2, <2>3, PublishIs DEF InvTask, NoReport, Pending
<1>11. CASE AutoRepair
  BY <1>2, <1>11, AutoRepairIs
<1>12. CASE CommitFix
  <2>1. task # NoTask
    BY <1>12, CommitFixIs, TaskShape
  <2>2. QED
    BY <1>12, <2>1, CommitFixIs DEF InvTask
<1>13. CASE Activate
  <2>1. known \subseteq store.blobs
    BY DEF InvStored
  <2>2. QED
    BY <1>2, <1>13, <2>1, ActivateIs
<1>14. CASE \E k \in {"review", "question"} : Report(k)
  BY <1>2, <1>14, ReportIs DEF InvTask
<1>15. CASE Pause
  BY <1>2, <1>15, PauseIs
<1>16. CASE Resume
  BY <1>2, <1>16, ResumeIs
<1>17. CASE Cancel
  BY <1>2, <1>17, CancelIs
<1>18. CASE Restart
  BY <1>1, <1>2, <1>18, RestartIs
<1>19. CASE Inspect
  <2>1. task # NoTask
    BY <1>19, InspectIs, TaskShape
  <2>2. task'.report # NoReport
    BY <1>19, InspectIs DEF ReportType, NoReport
  <2>3. QED
    BY <1>19, <2>1, <2>2, InspectIs DEF InvTask, NoReport, Pending
<1>20. CASE \E a \in Exact \cup {"answer", "revise"} : Decide(a)
  BY <1>1, <1>20 DEF Decide
<1>21. CASE \E c \in BOOLEAN : Approve(c)
  <2>1. task # NoTask
    BY <1>21, ApproveIs, TaskShape
  <2>2. QED
    BY <1>21, <2>1, ApproveIs DEF InvTask
<1>22. CASE Continue
  BY <1>2, <1>22, ContinueIs
<1>23. CASE Fix
  BY <1>2, <1>23, FixIs DEF InvTask
<1>24. CASE Dispatch
  BY <1>24, DispatchIs DEF InvTask, Pending
<1>25. QED
  BY <1>3, <1>4, <1>5, <1>6, <1>7, <1>8, <1>9, <1>10, <1>11, <1>12, <1>13, <1>14, <1>15, <1>16, <1>17, <1>18, <1>19,
     <1>20, <1>21, <1>22, <1>23, <1>24
     DEF Next, Freezing, Sweeping, Main, People, Worker, Progress, Starts

\* A recorded checkpoint is of a report or a fix of a task.
LEMMA FrozenShape == ASSUME TypeOK, NEW f \in frozen
  PROVE /\ f.task \in Nat /\ f.of \in Frozen /\ f.of[1] \in {"report", "fix"} /\ f.of[2] \in Nat
        /\ f.base \in Trees /\ f.tree \in Trees
<1>1. f \in RecordType
  BY DEF TypeOK
<1>2. f.of \in Frozen /\ f.task \in Nat /\ f.base \in Trees /\ f.tree \in Trees
  BY <1>1 DEF RecordType
<1>3. QED
  BY <1>2 DEF Frozen

\* What is recorded of an operation is recorded under what it is of.
LEMMA RecordedFields ==
  Recorded.task = op.task /\ Recorded.of = <<op.kind, op.of>> /\ Recorded.base = op.base /\ Recorded.tree = op.snap
  /\ Recorded.verdict = op.verdict /\ Recorded.ran = op.ran
  BY DEF Recorded

\* Nothing is recorded twice.
LEMMA FreshKept == ASSUME CheckpointInv, [Next]_vars PROVE InvFresh'
<1> USE DEF CheckpointInv
<1>1. n.tasks \in Nat /\ n.reports \in Nat
  BY CheckpointAssumption DEF TypeOK, Counts
<1>2. ASSUME frozen' = frozen, n'.tasks = n.tasks, n'.reports = n.reports, task'.id = task.id,
             op' = NoOp \/ (op # NoOp /\ op'.task = op.task /\ op'.kind = op.kind /\ op'.of = op.of),
             task'.status = "settling" => task.status = "settling",
             task'.status = "waiting" => task.status \in {"settling", "waiting"}
      PROVE  InvFresh'
  BY <1>2 DEF InvFresh, Recorded1, NoOp
<1>3. ASSUME frozen' = frozen, n'.tasks = n.tasks, n'.reports = n.reports, task' = task, op' = op \/ op' = NoOp
      PROVE  InvFresh'
  BY <1>3 DEF InvFresh, Recorded1, NoOp
<1>4. CASE UNCHANGED vars \/ Write \/ SweepReports \/ SweepSnapshots \/ SweepBlobs
  <2>1. frozen' = frozen /\ n'.tasks = n.tasks /\ n'.reports = n.reports /\ task' = task /\ op' = op
    BY <1>4, WriteIs DEF vars, Write, SweepReports, SweepSnapshots, SweepBlobs
  <2>2. QED
    BY <1>3, <2>1
<1>5. CASE Restore
  BY <1>3, <1>5, RestoreIs
<1>6. CASE Progress
  <2>1. /\ frozen' = frozen /\ n' = n /\ task' = task
        /\ op' = NoOp \/ (op # NoOp /\ op'.task = op.task /\ op'.kind = op.kind /\ op'.of = op.of)
    BY <1>6, ProgressOp DEF Frame, Identity
  <2>2. QED
    BY <1>2, <2>1
<1>7. CASE KeptChanging \/ FreezeFails
  <2>1. /\ Alive /\ Failing /\ n'.tasks = n.tasks /\ n'.reports = n.reports /\ frozen' = frozen /\ op' = NoOp
    BY <1>7, EndedIs
  <2>2. task'.id = task.id /\ (task' = task \/ task'.status = "held")
    BY <2>1, FailingIs DEF TaskKeeps
  <2>3. QED
    BY <1>2, <2>1, <2>2
<1>8. CASE Revoked
  BY <1>3, <1>8 DEF Revoked
<1>9. ASSUME NEW kind \in {"base", "report", "fix"}, Starts(kind) PROVE InvFresh'
  <2>1. /\ task \in TaskType /\ op'.kind = kind /\ op'.task = task.id /\ UNCHANGED <<task, n, frozen>>
        /\ kind = "report" => task.status = "settling" /\ op'.of = n.reports
        /\ kind = "fix" => task.status = "waiting" /\ op'.of = n.reports
    BY <1>9, StartsIs DEF Frame
  <2>2. ~Recorded1(op'.task, op'.kind, op'.of)
    <3>1. CASE kind = "base"
      BY <2>1, <3>1, FrozenShape DEF Recorded1
    <3>2. CASE kind # "base"
      BY <2>1, <3>2 DEF InvFresh
    <3>3. QED
      BY <3>1, <3>2
  <2>3. op'.task <= n.tasks
    BY <1>1, <2>1 DEF InvTask
  <2>4. QED
    BY <2>1, <2>2, <2>3 DEF InvFresh, Recorded1
<1>10. CASE CommitBase
  BY <1>2, <1>10, CommitBaseIs
<1>11. CASE AutoRepair
  BY <1>2, <1>11, AutoRepairIs DEF TaskKeeps
<1>12. CASE Publish \/ CommitFix
  <2>1. /\ Alive /\ op' = NoOp /\ frozen' = frozen \cup {Recorded} /\ n' = n /\ op.kind \in {"report", "fix"}
        /\ task'.id = task.id
        /\ task'.status # "settling" /\ (task'.status = "waiting" => op.kind = "report" /\ task.status = "settling")
    BY <1>12, PublishIs, CommitFixIs
  <2>2. op.task = n.tasks /\ op.of = n.reports
    BY <2>1 DEF InvWork, InvTask
  <2>3. Recorded.task <= n.tasks /\ Recorded.of[2] <= n.reports
    BY <1>1, <2>2, RecordedFields
  <2>4. \A f \in frozen' : f.task <= n'.tasks /\ f.of[2] <= n'.reports
    BY <2>1, <2>3 DEF InvFresh
  <2>5. task'.status = "waiting" => Recorded.of # <<"fix", n.reports>>
    BY <2>1, RecordedFields
  <2>6. task'.status = "waiting" => ~Recorded1(task.id, "fix", n.reports)'
    BY <2>1, <2>5 DEF InvFresh, Recorded1
  <2>7. QED
    BY <2>1, <2>4, <2>6 DEF InvFresh, Recorded1, NoOp
<1>13. CASE Activate
  <2>1. known \subseteq store.blobs
    BY DEF InvStored
  <2>2. QED
    BY <1>2, <1>13, <2>1, ActivateIs DEF TaskKeeps
<1>14. CASE \E k \in {"review", "question"} : Report(k)
  <2>1. /\ frozen' = frozen /\ n'.tasks = n.tasks /\ n'.reports = n.reports + 1 /\ op' = op /\ task'.id = task.id
    BY <1>14, ReportIs DEF TaskKeeps
  <2>2. \A f \in frozen : f.of[2] <= n.reports /\ f.of[2] \in Nat /\ f.task <= n.tasks
    BY FrozenShape DEF InvFresh
  <2>3. \A id : \A kind \in {"report", "fix"} : ~Recorded1(id, kind, n.reports + 1)
    BY <1>1, <2>2 DEF Recorded1
  <2>4. \A f \in frozen' : f.task <= n'.tasks /\ f.of[2] <= n'.reports
    BY <1>1, <2>1, <2>2
  <2>5. QED
    BY <2>1, <2>3, <2>4 DEF InvFresh, Recorded1, NoOp
<1>15. CASE Pause
  <2>1. op' = NoOp \/ (op # NoOp /\ op'.task = op.task /\ op'.kind = op.kind /\ op'.of = op.of)
    BY <1>15, PauseIs, KilledOp
  <2>2. QED
    BY <1>2, <1>15, <2>1, PauseIs DEF TaskKeeps
<1>16. CASE Resume
  <2>1. /\ frozen' = frozen /\ n' = n /\ op' = op /\ task'.id = task.id /\ task'.status = "activating"
    BY <1>16, ResumeIs DEF TaskKeeps
  <2>2. QED
    BY <1>2, <2>1
<1>17. CASE Cancel
  <2>1. op' = NoOp \/ (op # NoOp /\ op'.task = op.task /\ op'.kind = op.kind /\ op'.of = op.of)
    BY <1>17, CancelIs, KilledOp
  <2>2. QED
    BY <1>2, <1>17, <2>1, CancelIs DEF TaskKeeps
<1>18. CASE Restart
  <2>1. task'.id = task.id /\ (task' = task \/ task'.status = "held")
    BY <1>18, RestartIs DEF TaskKeeps
  <2>2. QED
    BY <1>2, <1>18, <2>1, RestartIs
<1>19. CASE Inspect
  <2>1. frozen' = frozen /\ n' = n /\ op' = op /\ task'.id = task.id /\ task.status = "waiting"
        /\ task'.status = "waiting"
    BY <1>19, InspectIs
  <2>2. QED
    BY <1>2, <2>1
<1>20. CASE \E a \in Exact \cup {"answer", "revise"} : Decide(a)
  BY <1>3, <1>20 DEF Decide
<1>21. CASE (\E c \in BOOLEAN : Approve(c)) \/ Continue \/ Fix
  <2>1. /\ frozen' = frozen /\ n' = n /\ op' = op /\ task'.id = task.id /\ task.status = "waiting"
        /\ task'.status # "settling"
    BY <1>21, ApproveIs, ContinueIs, FixIs DEF TaskKeeps
  <2>2. QED
    BY <1>2, <2>1
<1>22. CASE Dispatch
  <2>1. frozen' = frozen /\ n'.tasks = n.tasks + 1 /\ n'.reports = n.reports /\ op' = op /\ task'.status = "activating"
    BY <1>22, DispatchIs
  <2>2. \A f \in frozen : f.task <= n.tasks + 1
    BY <1>1, FrozenShape DEF InvFresh
  <2>3. op # NoOp => op.task <= n.tasks + 1
    <3>1. op # NoOp => op.task \in Nat
      BY OpShape DEF OpType
    <3>2. QED
      BY <1>1, <3>1 DEF InvFresh
  <2>4. QED
    BY <2>1, <2>2, <2>3 DEF InvFresh, Recorded1, NoOp
<1>23. QED
  BY <1>4, <1>5, <1>6, <1>7, <1>8, <1>9, <1>10, <1>11, <1>12, <1>13, <1>14, <1>15, <1>16, <1>17, <1>18, <1>19,
     <1>20, <1>21, <1>22
     DEF Next, Freezing, Sweeping, Main, People, Worker, Progress, Starts

\* What an operation needs is in the store.
LEMMA StoredKept == ASSUME CheckpointInv, [Next]_vars PROVE InvStored'
<1> USE DEF CheckpointInv
<1>1. known \subseteq store.blobs
  BY DEF InvStored
<1>2. Pending = << >> /\ DOMAIN Pending = {} /\ Range(Pending) = {}
  BY DEF Pending, Range
<1>3. ASSUME known' \subseteq store'.blobs, ~Alive' PROVE InvStored'
  BY <1>3 DEF InvStored
<1>4. ASSUME known' \subseteq store'.blobs, op' = op, store.blobs \subseteq store'.blobs,
             store.snaps \subseteq store'.snaps,
             store.manifests \subseteq store'.manifests
      PROVE  InvStored'
  BY <1>4 DEF InvStored, Alive, Reading, NoOp, Pending
<1>5. ASSUME UNCHANGED <<store, known>>, op' = op \/ op' = NoOp PROVE InvStored'
  BY <1>1, <1>3, <1>4, <1>5 DEF Alive, NoOp
<1>6. CASE UNCHANGED vars \/ Write \/ Resume \/ Inspect \/ Continue \/ Fix \/ Dispatch \/ Restore
  BY <1>5, <1>6 DEF vars, Write, Resume, Inspect, Continue, Fix, Dispatch, Restore
<1>7. CASE (\E k \in {"review", "question"} : Report(k)) \/ (\E c \in BOOLEAN : Approve(c))
  BY <1>5, <1>7 DEF Report, Approve
<1>8. CASE KeptChanging \/ Revoked \/ CommitBase \/ Publish \/ AutoRepair \/ CommitFix
  BY <1>5, <1>8 DEF KeptChanging, Revoked, CommitBase, Publish, AutoRepair, CommitFix, Commits
<1>23. CASE FreezeFails
  <2>1. op' = NoOp /\ known' \subseteq store'.blobs
    BY <1>1, <1>23, EndedIs DEF StoreKeeps
  <2>2. QED
    BY <1>3, <2>1 DEF Alive, NoOp
<1>9. CASE Restart
  BY <1>3, <1>9, RestartIs DEF Alive, NoOp
<1>10. CASE Pause \/ Cancel
  <2>1. UNCHANGED <<store, known>> /\ (op' = NoOp \/ op'.dead = TRUE)
    BY <1>10, PauseIs, CancelIs, KilledOp
  <2>2. QED
    BY <1>1, <1>3, <2>1 DEF Alive, NoOp
<1>11. CASE Activate
  <2>1. op' = NoOp /\ known' \subseteq store'.blobs
    BY <1>1, <1>11, ActivateIs
  <2>2. QED
    BY <1>3, <2>1 DEF Alive, NoOp
<1>12. CASE \E a \in Exact \cup {"answer", "revise"} : Decide(a)
  <2>1. /\ op' = op /\ known' \subseteq store'.blobs /\ store'.snaps = store.snaps /\ store'.manifests = store.manifests
        /\ store.blobs \subseteq store'.blobs
    BY <1>1, <1>12, DecideIs
  <2>2. QED
    BY <1>4, <2>1
<1>13. CASE SweepReports
  <2>1. op' = op /\ known' = known /\ store'.blobs = store.blobs /\ (store' = store \/ ~Active)
    BY <1>13, SweepReportsIs
  <2>2. QED
    BY <1>1, <1>3, <1>5, <2>1, AliveIs DEF Alive
<1>14. CASE SweepSnapshots \/ SweepBlobs
  <2>1. op' = op /\ sweep.pc # "idle" /\ known' \subseteq store'.blobs
    BY <1>1, <1>14, SweepSnapshotsIs, SweepBlobsIs
  <2>2. ~Alive
    BY <2>1, AliveIs DEF Idle
  <2>3. QED
    BY <1>3, <2>1, <2>2 DEF Alive
<1>15. ASSUME NEW kind \in {"base", "report", "fix"}, Starts(kind) PROVE InvStored'
  BY <1>1, <1>2, <1>15, StartsIs DEF InvStored, Reading
<1>16. CASE ReadFile
  <2>1. /\ op # NoOp /\ op' # NoOp /\ Identity /\ op.pc = "capture" /\ op'.pc = "capture" /\ op'.why = op.why
        /\ op'.snap = op.snap
    BY <1>16, ReadFileOp, ProgressOp DEF Progress, OpType, NoOp
  <2>2. /\ known' \subseteq store'.blobs /\ store'.snaps = store.snaps /\ store'.manifests = store.manifests
        /\ store.blobs \subseteq store'.blobs
        /\ Range(op.acc) \subseteq store.blobs => Range(op'.acc) \subseteq store'.blobs
    BY <1>1, <1>16, ReadFileStores
  <2>3. Alive' => Alive
    BY <2>1 DEF Alive, Identity
  <2>4. CASE ~Alive'
    BY <1>3, <2>2, <2>4
  <2>5. CASE Alive'
    <3>1. /\ Range(op'.acc) \subseteq store'.blobs /\ (op'.snap # Pending' => Range(op'.snap) \subseteq store'.blobs)
          /\ op'.why = "again" => op'.snap \in store'.snaps
      BY <2>1, <2>2, <2>3, <2>5 DEF InvStored, Reading, Pending
    <3>2. op'.kind # "base" /\ op'.why = "again" =>
            [task |-> op'.task, of |-> <<op'.kind, op'.of>>, base |-> op'.base, tree |-> op'.snap] \in store'.manifests
      BY <2>1, <2>2, <2>3, <2>5 DEF InvStored, Reading, Identity
    <3>3. QED
      BY <2>1, <2>2, <3>1, <3>2 DEF InvStored, Reading
  <2>6. QED
    BY <2>4, <2>5
<1>17. CASE First \/ After \/ Recaptured
  <2>1. /\ op # NoOp /\ ~op.dead /\ UNCHANGED <<store, known>>
        /\ op' = NoOp \/ (op'.pc \in {"check", "save"} /\ op'.snap = op.acc /\ op'.acc = op.acc)
    BY <1>17, FirstOp, AfterOp, RecapturedOp DEF OpType, NoOp
  <2>2. QED
    BY <1>5, <2>1 DEF InvStored, Alive, Reading, Pending
<1>18. CASE \E ok \in BOOLEAN : RunCheck(ok)
  <2>1. /\ op # NoOp /\ Identity /\ UNCHANGED <<store, known>> /\ op'.acc = Pending /\ op'.snap = op.snap
        /\ op'.pc = "capture" /\ op'.why = "after"
    BY <1>18, RunCheckOp, ProgressOp DEF Progress
  <2>2. QED
    BY <1>2, <2>1 DEF InvStored, Alive, Reading, Identity, Pending
<1>19. CASE SaveSnapshots
  <2>1. /\ op # NoOp /\ Identity /\ known' = known /\ op'.acc = op.acc /\ op'.snap = op.snap /\ op.snap \in Trees
        /\ store'.blobs = store.blobs /\ op.snap \in store'.snaps
        /\ op'.pc \in {"manifest", "commit"} /\ (op'.pc = "commit" => op.kind = "base")
    BY <1>19, SaveSnapshotsOp, TreesHaveFiles, ProgressOp DEF Progress
  <2>2. QED
    BY <2>1 DEF InvStored, Alive, Reading, Identity, Pending
<1>20. CASE SaveManifest
  <2>1. /\ op # NoOp /\ Identity /\ known' = known /\ op'.acc = Pending /\ op'.snap = op.snap /\ op.pc = "manifest"
        /\ store'.blobs = store.blobs /\ store'.snaps = store.snaps /\ op'.pc = "capture" /\ op'.why = "again"
        /\ [task |-> op.task, of |-> <<op.kind, op.of>>, base |-> op.base, tree |-> op.snap] \in store'.manifests
    BY <1>20, SaveManifestOp, ProgressOp DEF Progress
  <2>2. QED
    BY <1>2, <2>1 DEF InvStored, Alive, Reading, Identity, Pending
<1>21. CASE Again
  <2>1. /\ op # NoOp /\ Identity /\ UNCHANGED <<store, known>> /\ op'.snap = op.snap /\ op.pc = "capture"
        /\ op.why = "again"
        /\ \/ op'.pc = "commit" /\ op'.acc = op.acc
           \/ op'.pc = "capture" /\ op'.why = "recapture" /\ op'.acc = Pending
    BY <1>21, AgainOp, ProgressOp DEF Progress
  <2>2. QED
    BY <1>2, <2>1 DEF InvStored, Alive, Reading, Identity, Pending
<1>22. QED
  BY <1>6, <1>7, <1>8, <1>9, <1>10, <1>11, <1>12, <1>13, <1>14, <1>15, <1>16, <1>17, <1>18, <1>19, <1>20, <1>21,
     <1>23
     DEF Next, Freezing, Sweeping, Main, People, Worker, Progress, Starts

\* The collection and the tasks.
LEMMA SweepKept == ASSUME CheckpointInv, [Next]_vars PROVE InvSweep'
<1> USE DEF CheckpointInv
<1>1. Active => Idle
  BY DEF InvSweep, Idle
<1>2. \A t \in TaskType : t # NoTask
  BY DEF TaskType, NoTask
<1>3. ASSUME sweep'.pc = "idle", sweep'.due => task' # NoTask PROVE InvSweep'
  BY <1>3 DEF InvSweep, NoTask
<1>4. ASSUME sweep' = sweep, frozen' = frozen, n'.tasks = n.tasks, task' = task PROVE InvSweep'
  BY <1>4 DEF InvSweep, NoTask, Kept, Active, Moving
<1>5. ASSUME Idle, sweep' = sweep, task' \in TaskType PROVE InvSweep'
  BY <1>2, <1>3, <1>5 DEF Idle, NoTask
<1>6. CASE UNCHANGED vars \/ Write \/ Revoked \/ \E a \in Exact \cup {"answer", "revise"} : Decide(a)
  <2>1. sweep' = sweep /\ frozen' = frozen /\ n'.tasks = n.tasks /\ task' = task
    BY <1>6, WriteIs DEF vars, Write, Revoked, Decide
  <2>2. QED
    BY <1>4, <2>1
<1>7. CASE Restore
  BY <1>4, <1>7, RestoreIs
<1>8. CASE Progress
  BY <1>4, <1>8, ProgressOp DEF Frame
<1>9. ASSUME NEW kind \in {"base", "report", "fix"}, Starts(kind) PROVE InvSweep'
  BY <1>4, <1>9, StartsIs DEF Frame
<1>10. CASE KeptChanging \/ FreezeFails
  <2>1. Alive /\ Failing /\ sweep' = sweep
    BY <1>10, EndedIs
  <2>2. QED
    BY <1>5, <2>1, FailingIs
<1>11. CASE CommitBase \/ Publish \/ AutoRepair
  BY <1>5, <1>11, CommitBaseIs, PublishIs, AutoRepairIs
<1>12. CASE CommitFix \/ (\E c \in BOOLEAN : Approve(c)) \/ Cancel
  <2>1. sweep'.pc = "idle" /\ task' \in TaskType
    BY <1>12, CommitFixIs, ApproveIs, CancelIs
  <2>2. QED
    BY <1>2, <1>3, <2>1 DEF NoTask
<1>13. CASE Activate \/ (\E k \in {"review", "question"} : Report(k)) \/ Inspect \/ Continue \/ Fix \/ Pause \/ Resume
  <2>1. known \subseteq store.blobs
    BY DEF InvStored
  <2>2. sweep' = sweep /\ task' \in TaskType /\ task.status \in Moving \cup {"waiting", "held"}
    BY <1>13, <2>1, ActivateIs, ReportIs, InspectIs, ContinueIs, FixIs, PauseIs, ResumeIs DEF Moving
  <2>3. QED
    BY <1>1, <1>5, <2>2 DEF Active
<1>14. CASE Restart
  BY <1>3, <1>14, RestartIs
<1>15. CASE Dispatch
  BY <1>5, <1>15, DispatchIs
<1>16. CASE SweepReports
  <2>1. /\ task' = task /\ n' = n /\ frozen' = frozen /\ sweep'.due = FALSE
        /\ \/ Active /\ sweep'.pc = "idle"
           \/ /\ ~Active /\ store'.manifests = {m \in store.manifests : m.task \in Kept} /\ sweep'.pc = "snaps"
              /\ \A m \in store'.manifests : {m.base, m.tree} \subseteq sweep'.live
    BY <1>16, SweepReportsIs
  <2>2. CASE sweep'.pc = "idle"
    BY <1>3, <2>1, <2>2
  <2>3. CASE sweep'.pc = "snaps"
    <3>1. ASSUME NEW f \in frozen, f.task \in Kept PROVE {f.base, f.tree} \subseteq sweep'.live
      <4> DEFINE m == [task |-> f.task, of |-> f.of, base |-> f.base, tree |-> f.tree]
      <4>1. m \in store.manifests
        BY <3>1 DEF EvidenceKept, Inspectable
      <4>2. m.task = f.task /\ m.base = f.base /\ m.tree = f.tree
        OBVIOUS
      <4>3. m \in store'.manifests
        BY <2>1, <2>3, <3>1, <4>1, <4>2
      <4> HIDE DEF m
      <4>4. QED
        BY <2>1, <2>3, <4>2, <4>3
    <3>2. ~Active'
      BY <2>1, <2>3 DEF Active, Moving
    <3>3. Kept' = Kept
      BY <2>1 DEF Kept
    <3>4. QED
      BY <2>1, <2>3, <3>1, <3>2, <3>3 DEF InvSweep
  <2>4. QED
    BY <2>1, <2>2, <2>3
<1>17. CASE SweepSnapshots
  <2>1. /\ task' = task /\ n' = n /\ frozen' = frozen /\ sweep'.due = FALSE /\ sweep.pc = "snaps" /\ sweep'.pc = "blobs"
        /\ \A t \in store.snaps \cap sweep.live : Range(t) \subseteq sweep'.live
    BY <1>17, SweepSnapshotsIs
  <2>2. ASSUME NEW f \in frozen, f.task \in Kept PROVE Range(f.base) \cup Range(f.tree) \subseteq sweep'.live
    <3>1. f.base \in store.snaps /\ f.tree \in store.snaps
      BY <2>2 DEF EvidenceKept, Inspectable, Stored
    <3>2. f.base \in sweep.live /\ f.tree \in sweep.live
      BY <2>1, <2>2 DEF InvSweep
    <3>3. QED
      BY <2>1, <3>1, <3>2
  <2>3. ~Active' /\ Kept' = Kept
    BY <2>1 DEF InvSweep, Active, Moving, Kept
  <2>4. QED
    BY <2>1, <2>2, <2>3 DEF InvSweep
<1>18. CASE SweepBlobs
  BY <1>3, <1>18, SweepBlobsIs
<1>19. QED
  BY <1>6, <1>7, <1>8, <1>9, <1>10, <1>11, <1>12, <1>13, <1>14, <1>15, <1>16, <1>17, <1>18
     DEF Next, Freezing, Sweeping, Main, People, Worker, Progress, Starts

\* A checkpoint is recorded when a report is published or a fix accepted, and at no other step.
LEMMA FrozenSteps == ASSUME [Next]_vars PROVE Publish \/ CommitFix \/ frozen' = frozen
<1>1. CASE UNCHANGED vars \/ Progress
  BY <1>1 DEF vars, Progress, ReadFile, First, After, SaveSnapshots, SaveManifest, Again, Recaptured, RunCheck, Captured
<1>2. CASE KeptChanging \/ FreezeFails \/ Revoked \/ PrepareBase \/ FinalizeReport \/ Fixed \/ CommitBase \/ AutoRepair
  BY <1>2 DEF KeptChanging, FreezeFails, Revoked, PrepareBase, FinalizeReport, Fixed, Freeze, CommitBase, AutoRepair
<1>3. CASE Activate \/ Pause \/ Resume \/ Cancel \/ Restart \/ Inspect \/ Continue \/ Fix \/ Dispatch
           \/ Write \/ Restore
  BY <1>3 DEF Activate, Pause, Resume, Cancel, Restart, Inspect, Continue, Fix, Dispatch, Write, Restore
<1>4. CASE (\E k \in {"review", "question"} : Report(k)) \/ (\E c \in BOOLEAN : Approve(c))
  BY <1>4 DEF Report, Approve
<1>5. CASE (\E a \in Exact \cup {"answer", "revise"} : Decide(a)) \/ SweepReports \/ SweepSnapshots \/ SweepBlobs
  BY <1>5 DEF Decide, SweepReports, SweepSnapshots, SweepBlobs
<1>6. QED
  BY <1>1, <1>2, <1>3, <1>4, <1>5 DEF Next, Freezing, Sweeping, Main, People, Worker, Progress

\* Checkpoints are of trees that were there, and checks that passed ran on them.
LEMMA RealKept == ASSUME CheckpointInv, [Next]_vars PROVE CheckpointsAreReal'
<1> USE DEF CheckpointInv
<1>1. CASE frozen' = frozen
  BY <1>1, Grows DEF CheckpointsAreReal, FrozenExisted, ChecksDescribe
<1>2. CASE Publish \/ CommitFix
  <2>1. /\ frozen' = frozen \cup {Recorded} /\ seen' = seen /\ op # NoOp /\ op.pc = "commit"
        /\ op.kind \in {"report", "fix"}
    BY <1>2, PublishIs, CommitFixIs DEF Alive
  <2>2. op.snap \in seen /\ (op.kind = "report" /\ op.verdict = "pass" => op.ran = {op.snap})
    BY <2>1 DEF InvReads, InvVerdict
  <2>3. /\ Recorded.tree \in seen
        /\ (Recorded.of[1] = "report" /\ Recorded.verdict = "pass" => Recorded.ran = {Recorded.tree})
    BY <2>2, RecordedFields
  <2>4. QED
    BY <2>1, <2>3 DEF CheckpointsAreReal, FrozenExisted, ChecksDescribe
<1>3. QED
  BY <1>1, <1>2, FrozenSteps

\* What Main is shown begins where it accepted last.
LEMMA TileKept == ASSUME CheckpointInv, [Next]_vars PROVE ReviewsTile'
<1> USE DEF CheckpointInv
<1>1. ASSUME task'.status # "waiting" PROVE ReviewsTile'
  BY <1>1 DEF ReviewsTile
<1>2. ASSUME frozen \subseteq frozen', accepted' = accepted, task'.id = task.id, task.status = "waiting",
             task'.report.id = task.report.id, task'.report.tree = task.report.tree
      PROVE  ReviewsTile'
  BY <1>2 DEF ReviewsTile
<1>3. ASSUME frozen' = frozen, accepted' = accepted, task' = task PROVE ReviewsTile'
  BY <1>3 DEF ReviewsTile
<1>4. CASE UNCHANGED vars \/ Write \/ Revoked \/ SweepReports \/ SweepSnapshots \/ SweepBlobs
  BY <1>3, <1>4 DEF vars, Write, Revoked, SweepReports, SweepSnapshots, SweepBlobs
<1>5. CASE Restore \/ \E a \in Exact \cup {"answer", "revise"} : Decide(a)
  BY <1>3, <1>5 DEF Restore, Decide
<1>6. CASE Progress
  BY <1>3, <1>6, ProgressOp DEF Frame
<1>7. ASSUME NEW kind \in {"base", "report", "fix"}, Starts(kind) PROVE ReviewsTile'
  BY <1>3, <1>7, StartsIs DEF Frame
<1>8. CASE KeptChanging \/ FreezeFails
  <2>1. Alive /\ Failing /\ frozen' = frozen /\ accepted' = accepted
    BY <1>8, EndedIs
  <2>2. task' = task \/ task'.status = "held"
    BY <2>1, FailingIs
  <2>3. QED
    BY <1>1, <1>3, <2>1, <2>2
<1>9. CASE CommitBase \/ AutoRepair \/ CommitFix \/ (\E c \in BOOLEAN : Approve(c)) \/ Continue
  <2>1. task'.status \in {"activating", "completed"}
    BY <1>9, CommitBaseIs, AutoRepairIs, CommitFixIs, ApproveIs, ContinueIs
  <2>2. QED
    BY <1>1, <2>1
<1>10. CASE Publish
  <2>1. /\ Alive /\ op.kind = "report" /\ task'.id = task.id /\ task'.report.id = op.of /\ task'.report.tree = op.snap
        /\ frozen' = frozen \cup {Recorded} /\ accepted' = accepted /\ task # NoTask
    BY <1>10, PublishIs, TaskShape
  <2>2. op.task = task.id /\ op.base = accepted
    BY <2>1 DEF InvWork, InvTask
  <2>3. /\ Recorded \in frozen' /\ Recorded.task = task'.id /\ Recorded.of = <<"report", task'.report.id>>
        /\ Recorded.tree = task'.report.tree /\ Recorded.base = accepted'
    BY <2>1, <2>2, RecordedFields
  <2>4. QED
    BY <2>3 DEF ReviewsTile
<1>11. CASE Activate \/ (\E k \in {"review", "question"} : Report(k)) \/ Pause \/ Resume \/ Cancel \/ Dispatch
  <2>1. known \subseteq store.blobs
    BY DEF InvStored
  <2>2. task'.status \in {"running", "held", "settling", "activating", "cancelled"}
    BY <1>11, <2>1, ActivateIs, ReportIs, PauseIs, ResumeIs, CancelIs, DispatchIs
  <2>3. QED
    BY <1>1, <2>2
<1>12. CASE Restart
  <2>1. frozen' = frozen /\ accepted' = accepted /\ (task' = task \/ task'.status = "held")
    BY <1>12, RestartIs
  <2>2. QED
    BY <1>1, <1>3, <2>1
<1>13. CASE Inspect
  BY <1>2, <1>13, InspectIs
<1>14. CASE Fix
  BY <1>2, <1>14, FixIs DEF TaskKeeps
<1>15. QED
  BY <1>4, <1>5, <1>6, <1>7, <1>8, <1>9, <1>10, <1>11, <1>12, <1>13, <1>14
     DEF Next, Freezing, Sweeping, Main, People, Worker, Progress, Starts

\* Tasks are counted up, so that of the tasks there were fewer and fewer are kept.
LEMMA KeptShrinks == ASSUME CheckpointInv, [Next]_vars, NEW f \in frozen, f.task \in Kept' PROVE f.task \in Kept
<1> USE DEF CheckpointInv
<1>1. n.tasks \in Nat /\ n'.tasks \in Nat /\ Retained \in Nat
  BY TypeKept, CheckpointAssumption DEF TypeOK, Counts
<1>2. task.id = n.tasks /\ task'.id = n'.tasks
  BY TaskKept DEF InvTask
<1>3. n'.tasks = n.tasks \/ n'.tasks = n.tasks + 1
  <2>1. CASE Progress \/ \E kind \in {"base", "report", "fix"} : Starts(kind)
    BY <2>1, ProgressOp, StartsIs DEF Frame
  <2>2. CASE KeptChanging \/ FreezeFails \/ Write \/ Restore \/ Restart \/ Pause \/ Dispatch
    BY <2>2, EndedIs, WriteIs, RestoreIs, RestartIs, PauseIs, DispatchIs
  <2>3. CASE \E k \in {"review", "question"} : Report(k)
    BY <2>3, ReportIs
  <2>4. CASE Revoked \/ CommitBase \/ Publish \/ AutoRepair \/ CommitFix \/ Activate \/ Resume \/ Cancel \/ Inspect
    BY <2>4 DEF Revoked, CommitBase, Publish, AutoRepair, CommitFix, Activate, Resume, Cancel, Inspect
  <2>5. CASE Continue \/ Fix \/ SweepReports \/ SweepSnapshots \/ SweepBlobs \/ UNCHANGED vars
    BY <2>5 DEF Continue, Fix, SweepReports, SweepSnapshots, SweepBlobs, vars
  <2>6. CASE (\E a \in Exact \cup {"answer", "revise"} : Decide(a)) \/ (\E c \in BOOLEAN : Approve(c))
    BY <2>6 DEF Decide, Approve
  <2>7. QED
    BY <2>1, <2>2, <2>3, <2>4, <2>5, <2>6 DEF Next, Freezing, Sweeping, Main, People, Worker, Progress, Starts
<1>4. f.task \in Nat /\ f.task <= n.tasks
  BY FrozenShape DEF InvFresh
<1>5. QED
  BY <1>1, <1>2, <1>3, <1>4 DEF Kept

\* Nothing is removed from the store.
StoreGrows == store.blobs \subseteq store'.blobs /\ store.snaps \subseteq store'.snaps
              /\ store.manifests \subseteq store'.manifests

\* The store grows, but for a manifest that is replaced and for the collection.
LEMMA StoreSteps == ASSUME CheckpointInv, [Next]_vars
  PROVE StoreGrows \/ SaveManifest \/ (SweepReports /\ ~Active) \/ SweepSnapshots \/ SweepBlobs
<1> USE DEF CheckpointInv
<1>1. store' = store \/ StoreKeeps => StoreGrows
  BY DEF StoreGrows, StoreKeeps
<1>2. known \subseteq store.blobs
  BY DEF InvStored
<1>3. CASE ReadFile
  BY <1>2, <1>3, ReadFileStores DEF StoreGrows
<1>4. CASE SaveSnapshots
  BY <1>4, SaveSnapshotsOp DEF StoreGrows
<1>5. CASE Activate
  BY <1>2, <1>5, ActivateIs DEF StoreGrows
<1>6. CASE \E a \in Exact \cup {"answer", "revise"} : Decide(a)
  BY <1>2, <1>6, DecideIs DEF StoreGrows
<1>7. CASE SweepReports
  BY <1>1, <1>7, SweepReportsIs
<1>8. CASE First \/ After \/ Again \/ Recaptured \/ \E ok \in BOOLEAN : RunCheck(ok)
  BY <1>1, <1>8 DEF First, After, Again, Recaptured, RunCheck, Captured
<1>9. CASE KeptChanging \/ Revoked \/ PrepareBase \/ FinalizeReport \/ Fixed
  BY <1>1, <1>9 DEF KeptChanging, Revoked, PrepareBase, FinalizeReport, Fixed, Freeze
<1>14. CASE FreezeFails \/ Restart
  BY <1>1, <1>14, EndedIs, RestartIs
<1>10. CASE CommitBase \/ Publish \/ AutoRepair \/ CommitFix \/ UNCHANGED vars
  BY <1>1, <1>10 DEF CommitBase, Publish, AutoRepair, CommitFix, vars
<1>11. CASE Pause \/ Resume \/ Cancel \/ Inspect \/ Continue \/ Fix \/ Dispatch \/ Write \/ Restore
  BY <1>1, <1>11 DEF Pause, Resume, Cancel, Inspect, Continue, Fix, Dispatch, Write, Restore
<1>12. CASE (\E k \in {"review", "question"} : Report(k)) \/ (\E c \in BOOLEAN : Approve(c))
  BY <1>1, <1>12 DEF Report, Approve
<1>13. QED
  BY <1>3, <1>4, <1>5, <1>6, <1>7, <1>8, <1>9, <1>10, <1>11, <1>12, <1>14
     DEF Next, Freezing, Sweeping, Main, People, Worker

\* What is half written is the target of a symlink.
LinkContents == {t[f] : t \in seen, f \in Links}
LEMMA TornKept == ASSUME CheckpointInv, [Next]_vars PROVE store'.torn \subseteq LinkContents'
<1> USE DEF CheckpointInv
<1>1. store.torn \subseteq LinkContents /\ seen \subseteq seen' /\ store \in StoreType /\ tree \in seen
  BY Grows DEF EvidenceKept, OnlyLinksTorn, LinkContents, TypeOK, InvReads
<1>2. store.torn \subseteq LinkContents' /\ {tree[f] : f \in Links} \subseteq LinkContents'
  BY <1>1 DEF LinkContents
<1>3. ASSUME store' = store \/ store'.torn \subseteq store.torn \cup {tree[f] : f \in Links}
      PROVE store'.torn \subseteq LinkContents'
  BY <1>2, <1>3
<1>4. CASE FreezeFails \/ Restart \/ SweepBlobs
  BY <1>3, <1>4, EndedIs, RestartIs, SweepBlobsIs
<1>5. ASSUME NEW cs, Storing(cs) PROVE store'.torn = store.torn
  BY <1>1, <1>5 DEF Storing, StoreType
<1>6. CASE ReadFile \/ Activate \/ \E a \in Exact \cup {"answer", "revise"} : Decide(a)
  BY <1>3, <1>5, <1>6 DEF ReadFile, Activate, Decide
<1>7. CASE SaveSnapshots \/ SaveManifest \/ SweepReports \/ SweepSnapshots
  <2>1. store'.torn = store.torn
    BY <1>1, <1>7 DEF SaveSnapshots, SaveManifest, SweepReports, SweepSnapshots, StoreType
  <2>2. QED
    BY <1>3, <2>1
<1>8. CASE First \/ After \/ Again \/ Recaptured \/ \E ok \in BOOLEAN : RunCheck(ok)
  BY <1>3, <1>8 DEF First, After, Again, Recaptured, RunCheck, Captured
<1>9. CASE KeptChanging \/ Revoked \/ PrepareBase \/ FinalizeReport \/ Fixed
  BY <1>3, <1>9 DEF KeptChanging, Revoked, PrepareBase, FinalizeReport, Fixed, Freeze
<1>10. CASE CommitBase \/ Publish \/ AutoRepair \/ CommitFix \/ UNCHANGED vars
  BY <1>3, <1>10 DEF CommitBase, Publish, AutoRepair, CommitFix, vars
<1>11. CASE Pause \/ Resume \/ Cancel \/ Inspect \/ Continue \/ Fix \/ Dispatch \/ Write \/ Restore
  BY <1>3, <1>11 DEF Pause, Resume, Cancel, Inspect, Continue, Fix, Dispatch, Write, Restore
<1>12. CASE (\E k \in {"review", "question"} : Report(k)) \/ (\E c \in BOOLEAN : Approve(c))
  BY <1>3, <1>12 DEF Report, Approve
<1>13. QED
  BY <1>4, <1>6, <1>7, <1>8, <1>9, <1>10, <1>11, <1>12 DEF Next, Freezing, Sweeping, Main, People, Worker

\* What can be inspected stays so while its task is kept.
LEMMA StaysInspectable ==
  ASSUME CheckpointInv, [Next]_vars, NEW f \in frozen, f.task \in Kept
  PROVE  /\ [task |-> f.task, of |-> f.of, base |-> f.base, tree |-> f.tree] \in store'.manifests
         /\ {f.base, f.tree} \subseteq store'.snaps /\ Range(f.base) \cup Range(f.tree) \subseteq store'.blobs
<1> USE DEF CheckpointInv
<1> DEFINE mf == [task |-> f.task, of |-> f.of, base |-> f.base, tree |-> f.tree]
<1>1. mf \in store.manifests /\ {f.base, f.tree} \subseteq store.snaps
      /\ Range(f.base) \cup Range(f.tree) \subseteq store.blobs
  BY DEF EvidenceKept, Inspectable, Stored
<1>2. mf.task = f.task /\ mf.of = f.of
  OBVIOUS
<1> HIDE DEF mf
<1>3. SUFFICES mf \in store'.manifests /\ {f.base, f.tree} \subseteq store'.snaps
               /\ Range(f.base) \cup Range(f.tree) \subseteq store'.blobs
  BY DEF mf
<1>4. CASE StoreGrows
  BY <1>1, <1>4 DEF StoreGrows
<1>5. CASE SaveManifest
  <2>1. op # NoOp
    BY <1>5, ProgressOp DEF Progress
  <2>2. f.task # op.task \/ f.of # <<op.kind, op.of>>
    BY <2>1 DEF InvFresh, Recorded1
  <2> DEFINE m == [task |-> op.task, of |-> <<op.kind, op.of>>, base |-> op.base, tree |-> op.snap]
  <2>3. m.task = op.task /\ m.of = <<op.kind, op.of>>
    OBVIOUS
  <2>4. store'.manifests = {x \in store.manifests : x.task # m.task \/ x.of # m.of} \cup {m}
        /\ store'.blobs = store.blobs /\ store'.snaps = store.snaps
    BY <1>5, SaveManifestOp
  <2> HIDE DEF m
  <2>5. QED
    BY <1>1, <1>2, <2>2, <2>3, <2>4
<1>6. CASE SweepReports /\ ~Active
  <2>1. /\ store'.manifests = {m \in store.manifests : m.task \in Kept}
        /\ store'.blobs = store.blobs /\ store'.snaps = store.snaps
    BY <1>6, SweepReportsIs
  <2>2. QED
    BY <1>1, <1>2, <2>1
<1>7. CASE SweepSnapshots
  <2>1. {f.base, f.tree} \subseteq sweep.live
    BY <1>7, SweepSnapshotsIs DEF InvSweep
  <2>2. QED
    BY <1>1, <1>7, <2>1, SweepSnapshotsIs
<1>8. CASE SweepBlobs
  <2>1. Range(f.base) \cup Range(f.tree) \subseteq sweep.live
    BY <1>8, SweepBlobsIs DEF InvSweep
  <2>2. QED
    BY <1>1, <1>8, <2>1, SweepBlobsIs
<1>9. QED
  BY <1>4, <1>5, <1>6, <1>7, <1>8, StoreSteps

\* While a task is on nothing that can be read is lost.
LEMMA StaysStored ==
  ASSUME CheckpointInv, [Next]_vars, Active, NEW t, Stored(t)
  PROVE  t \in store'.snaps /\ Range(t) \subseteq store'.blobs
<1> USE DEF CheckpointInv
<1>1. CASE StoreGrows
  BY <1>1 DEF StoreGrows, Stored
<1>2. CASE SaveManifest
  BY <1>2, SaveManifestOp DEF Stored
<1>3. CASE SweepSnapshots \/ SweepBlobs
  <2>1. sweep.pc # "idle"
    BY <1>3, SweepSnapshotsIs, SweepBlobsIs
  <2>2. QED
    BY <2>1 DEF InvSweep
<1>4. QED
  BY <1>1, <1>2, <1>3, StoreSteps

\* An operation that commits can read what it froze, and its manifest is written.
LEMMA CommitStored == ASSUME CheckpointInv, Alive, op.pc = "commit"
  PROVE /\ Stored(op.snap)
        /\ op.kind # "base" =>
             [task |-> op.task, of |-> <<op.kind, op.of>>, base |-> op.base, tree |-> op.snap] \in store.manifests
<1> USE DEF CheckpointInv
<1>1. op.snap # Pending
  BY DEF InvStages, Reading, Alive
<1>2. QED
  BY <1>1 DEF InvStored, Stored

\* The base of a task that is on can be read.
LEMMA BaseKept == ASSUME CheckpointInv, [Next]_vars
  PROVE Active' /\ task'.base # Pending => task'.base \in store'.snaps /\ Range(task'.base) \subseteq store'.blobs
<1> USE DEF CheckpointInv
<1> DEFINE Goal == Active' /\ task'.base # Pending =>
                     task'.base \in store'.snaps /\ Range(task'.base) \subseteq store'.blobs
<1>1. ASSUME Active, task'.base = task.base PROVE Goal
  BY <1>1, StaysStored DEF EvidenceKept
<1>2. ASSUME task' = task PROVE Goal
  <2>1. Active' => Active
    BY <1>2 DEF Active, Moving
  <2>2. QED
    BY <1>1, <1>2, <2>1
<1>3. CASE UNCHANGED vars \/ Write \/ Revoked \/ SweepReports \/ SweepSnapshots \/ SweepBlobs
  BY <1>2, <1>3 DEF vars, Write, Revoked, SweepReports, SweepSnapshots, SweepBlobs
<1>4. CASE Restore \/ \E a \in Exact \cup {"answer", "revise"} : Decide(a)
  BY <1>2, <1>4 DEF Restore, Decide
<1>5. CASE Progress
  BY <1>2, <1>5, ProgressOp DEF Frame
<1>6. ASSUME NEW kind \in {"base", "report", "fix"}, Starts(kind) PROVE Goal
  BY <1>2, <1>6, StartsIs DEF Frame
<1>7. CASE KeptChanging \/ FreezeFails
  <2>1. Alive /\ Failing
    BY <1>7, EndedIs
  <2>2. QED
    BY <1>1, <2>1, FailingIs DEF TaskKeeps
<1>8. CASE CommitBase \/ CommitFix
  <2>1. task'.base = op.snap /\ store' = store /\ Alive /\ op.pc = "commit"
    BY <1>8, CommitBaseIs, CommitFixIs
  <2>2. QED
    BY <2>1, CommitStored DEF Stored
<1>9. CASE \E c \in BOOLEAN : Approve(c)
  <2>1. task'.base = task.report.tree /\ store' = store /\ task.status = "waiting" /\ task \in TaskType
    BY <1>9, ApproveIs
  <2>2. PICK f \in frozen : f.task = task.id /\ f.tree = task.report.tree
    BY <2>1 DEF ReviewsTile
  <2>3. f.task \in Kept
    BY <2>1, <2>2, CheckpointAssumption DEF InvTask, Kept, TaskType
  <2>4. QED
    BY <2>1, <2>2, <2>3 DEF EvidenceKept, Inspectable, Stored
<1>10. CASE Publish \/ AutoRepair
  <2>1. Alive /\ task'.base = task.base
    BY <1>10, PublishIs, AutoRepairIs DEF TaskKeeps
  <2>2. QED
    BY <1>1, <2>1, AliveIs
<1>11. CASE Activate \/ (\E k \in {"review", "question"} : Report(k)) \/ Inspect \/ Continue \/ Fix \/ Pause \/ Resume
  <2>1. known \subseteq store.blobs
    BY DEF InvStored
  <2>2. task'.base = task.base /\ task.status \in Moving \cup {"waiting", "held"}
    BY <1>11, <2>1, ActivateIs, ReportIs, InspectIs, ContinueIs, FixIs, PauseIs, ResumeIs DEF Moving, TaskKeeps
  <2>3. QED
    BY <1>1, <2>2 DEF Active
<1>12. CASE Cancel
  <2>1. ~Active'
    BY <1>12, CancelIs DEF Active, Moving
  <2>2. QED
    BY <2>1
<1>13. CASE Restart
  BY <1>1, <1>2, <1>13, RestartIs DEF TaskKeeps, Active
<1>14. CASE Dispatch
  BY <1>14, DispatchIs
<1>15. QED
  BY <1>3, <1>4, <1>5, <1>6, <1>7, <1>8, <1>9, <1>10, <1>11, <1>12, <1>13, <1>14
     DEF Next, Freezing, Sweeping, Main, People, Worker, Progress, Starts

\* The evidence of the retained tasks is kept.
LEMMA EvidenceStays == ASSUME CheckpointInv, [Next]_vars PROVE EvidenceKept'
<1> USE DEF CheckpointInv
<1>1. ASSUME NEW f \in frozen, f.task \in Kept' PROVE Inspectable(f)'
  <2>1. f.task \in Kept
    BY <1>1, KeptShrinks
  <2>2. QED
    BY <2>1, StaysInspectable DEF Inspectable, Stored
<1>2. ASSUME Publish \/ CommitFix PROVE frozen' = frozen \cup {Recorded} /\ \A f : f = Recorded => Inspectable(f)'
  <2>1. /\ frozen' = frozen \cup {Recorded} /\ store' = store /\ Alive /\ op.pc = "commit"
        /\ op.kind \in {"report", "fix"}
        /\ Active
    BY <1>2, PublishIs, CommitFixIs, AliveIs
  <2>2. op.base = task.base /\ op.base # Pending
    BY <2>1 DEF InvWork, InvStages, Alive
  <2>3. Stored(op.base)
    BY <2>1, <2>2 DEF EvidenceKept
  <2>4. /\ Stored(op.snap)
        /\ [task |-> op.task, of |-> <<op.kind, op.of>>, base |-> op.base, tree |-> op.snap] \in store.manifests
    BY <2>1, CommitStored
  <2>5. /\ [task |-> Recorded.task, of |-> Recorded.of, base |-> Recorded.base, tree |-> Recorded.tree]
             \in store'.manifests
        /\ {Recorded.base, Recorded.tree} \subseteq store'.snaps
        /\ Range(Recorded.base) \cup Range(Recorded.tree) \subseteq store'.blobs
    BY <2>1, <2>3, <2>4, RecordedFields DEF Stored
  <2>6. ASSUME NEW f, f = Recorded PROVE Inspectable(f)'
    BY <2>5, <2>6 DEF Inspectable, Stored
  <2>7. QED
    BY <2>1, <2>6
<1>3. \A f \in frozen' : f.task \in Kept' => Inspectable(f)'
  BY <1>1, <1>2, FrozenSteps
<1>4. QED
  BY <1>3, BaseKept, TornKept DEF EvidenceKept, Stored, Pending, OnlyLinksTorn, LinkContents

-----------------------------------------------------------------------------
(* The theorems. *)

\* At the beginning nothing is frozen, stored or decided.
LEMMA InitInv == Init => CheckpointInv
<1> SUFFICES ASSUME Init PROVE CheckpointInv
  OBVIOUS
<1>1. n = [tasks |-> 0, reports |-> 0, writes |-> 0, events |-> 0] /\ n \in Counts
  BY CheckpointAssumption DEF Init, Counts
<1>2. tree \in Trees /\ \A f \in Files : tree[f] = 0
  BY CheckpointAssumption DEF Init, Trees, Contents
<1>3. TypeOK
  <2>1. sweep \in SweepType /\ store \in StoreType
    BY DEF Init, SweepType, StoreType
  <2>2. QED
    BY <1>1, <1>2, <2>1 DEF Init, TypeOK
<1>4. task = NoTask /\ task.status = "none" /\ task.id = 0 /\ op = NoOp /\ deal = NoDeal /\ frozen = {} /\ ~Active
  BY DEF Init, NoTask, Active, Moving
<1>5. InvStages /\ InvVerdict /\ InvWork /\ InvTask /\ InvFresh
  BY <1>1, <1>4 DEF InvStages, InvVerdict, InvWork, InvTask, InvFresh, Alive
<1>6. InvReads
  BY <1>1, <1>2, <1>4 DEF Init, InvReads
<1>7. InvStored /\ InvSweep
  BY <1>4 DEF Init, InvStored, InvSweep, Alive
<1>8. CheckpointsAreReal /\ ReviewsTile /\ EvidenceKept
  <2>1. OnlyLinksTorn
    BY DEF Init, OnlyLinksTorn
  <2>2. QED
    BY <1>4, <2>1 DEF CheckpointsAreReal, FrozenExisted, ChecksDescribe, ReviewsTile, EvidenceKept
<1>9. QED
  BY <1>3, <1>5, <1>6, <1>7, <1>8 DEF CheckpointInv

\* Every step keeps all of it.
LEMMA StepInv == CheckpointInv /\ [Next]_vars => CheckpointInv'
<1> SUFFICES ASSUME CheckpointInv, [Next]_vars PROVE CheckpointInv'
  OBVIOUS
<1>1. TypeOK' /\ InvStages' /\ InvReads' /\ InvVerdict' /\ InvWork' /\ InvTask'
  BY TypeKept, StagesKept, ReadsKept, VerdictKept, WorkKept, TaskKept
<1>2. InvFresh' /\ InvStored' /\ InvSweep' /\ CheckpointsAreReal' /\ ReviewsTile' /\ EvidenceKept'
  BY FreshKept, StoredKept, SweepKept, RealKept, TileKept, EvidenceStays
<1>3. QED
  BY <1>1, <1>2 DEF CheckpointInv

\* The inductive invariant holds, whatever is written to the workspace and whenever Main dies.
THEOREM CheckpointInvariant == Spec => []CheckpointInv
  BY InitInv, StepInv, PTL DEF Spec

\* Types of every variable: TypeOK.
THEOREM CheckpointTyped == Spec => []TypeOK
<1>1. CheckpointInv => TypeOK
  BY DEF CheckpointInv
<1>2. QED
  BY <1>1, CheckpointInvariant, PTL

\* Main decides on evidence of a workspace that was there at one moment, although its files were read one after the
\* other, and checks that passed ran on that very tree.
THEOREM CheckpointsAreRealHolds == Spec => []CheckpointsAreReal
<1>1. CheckpointInv => CheckpointsAreReal
  BY DEF CheckpointInv
<1>2. QED
  BY <1>1, CheckpointInvariant, PTL

\* What Main is shown starts where its last acceptance ended: no change to the workspace goes unreviewed.
THEOREM ReviewsTileHolds == Spec => []ReviewsTile
<1>1. CheckpointInv => ReviewsTile
  BY DEF CheckpointInv
<1>2. QED
  BY <1>1, CheckpointInvariant, PTL

\* Every recorded checkpoint of a retained task and the base of the current one have their manifest, snapshots and
\* blobs at every moment of a collection, after a Main that died in the middle of one, and beside revoked operations;
\* only the target of a symlink, whose write did not end, can be there and not be readable.
THEOREM EvidenceKeptHolds == Spec => []EvidenceKept
<1>1. CheckpointInv => EvidenceKept
  BY DEF CheckpointInv
<1>2. QED
  BY <1>1, CheckpointInvariant, PTL
=============================================================================
