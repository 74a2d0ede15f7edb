----------------------------- MODULE Files_proofs -----------------------------
(***************************************************************************)
(* Proofs about what outlives a process as a file.  OwnerLock: for any     *)
(* processes and sessions, whose attempts overlap in any way.  Settings:   *)
(* for any fields, values, sessions, edits and crashes.  Records: for any  *)
(* plan, limits, failures, events and restarts.  What the code breaks is   *)
(* an exception named in the property, not a hypothesis of its theorem.    *)
(* The three share no variable.                                            *)
(***************************************************************************)
EXTENDS OwnerLock, Settings, Records, FiniteSetTheorems, TLAPS

-----------------------------------------------------------------------------
(* OwnerLock.                                                              *)

\* Every variable of the lock keeps its type.
THEOREM LockTypeCorrect == LockSpec => []LockTypeOK
<1> USE LockAssumption DEF LockTypeOK, Attempts, Trying, Sessions, LockGoto, Leave, attempt
<1>1. LockInit => LockTypeOK
  BY DEF LockInit
<1>2. LockTypeOK /\ [LockNext]_lockVars => LockTypeOK'
  <2> SUFFICES ASSUME LockTypeOK, [LockNext]_lockVars PROVE LockTypeOK'
    OBVIOUS
  <2>1. ASSUME NEW p \in Procs, Step(p) PROVE LockTypeOK'
    <3>1. CASE StageLock(p)
      BY <3>1 DEF StageLock
    <3>2. CASE RenameLock(p)
      BY <3>2 DEF RenameLock
    <3>3. CASE Read(p)
      BY <3>3 DEF Read, OwnerRead
    <3>4. CASE Stat(p)
      BY <3>4 DEF Stat
    <3>5. CASE Judge(p)
      BY <3>5 DEF Judge
    <3>6. CASE JudgeBlind(p)
      BY <3>6 DEF JudgeBlind
    <3>7. CASE Unlink(p)
      BY <3>7 DEF Unlink, Unlinked, RobbedBy
    <3>8. CASE Rmdir(p)
      BY <3>8 DEF Rmdir, Removed
    <3>9. CASE Release(p)
      BY <3>9 DEF Release
    <3>10. CASE ReleaseUnlink(p)
      BY <3>10 DEF ReleaseUnlink, Unlinked, RobbedBy
    <3>11. CASE ReleaseRmdir(p)
      BY <3>11 DEF ReleaseRmdir, Removed
    <3>12. CASE TaskOpened(p)
      BY <3>12 DEF TaskOpened
    <3>13. CASE TaskResolved(p)
      BY <3>13 DEF TaskResolved
    <3>14. CASE HolderCrash(p)
      BY <3>14 DEF HolderCrash
    <3> QED
      BY <2>1, <3>1, <3>2, <3>3, <3>4, <3>5, <3>6, <3>7, <3>8, <3>9, <3>10, <3>11, <3>12,
         <3>13, <3>14 DEF Step
  <2>2. CASE UNCHANGED lockVars
    BY <2>2 DEF lockVars
  <2> QED
    BY <2>1, <2>2 DEF LockNext
<1> QED
  BY <1>1, <1>2, PTL DEF LockSpec

\* Every step of one process keeps the names on the lock, what the others judged and
\* who was beaten.
LEMMA LockInvStep ==
  ASSUME LockTypeOK, LockInv, [LockNext]_lockVars
  PROVE  LockInv'
<1> USE LockAssumption DEF LockTypeOK, LockInv, InvNamed, InvJudged, InvBeaten, Attempts, Trying,
        Sessions, LockGoto, Leave, attempt
<1>1. ASSUME NEW p \in Procs, Step(p) PROVE LockInv'
  <2>1. CASE StageLock(p)
    BY <2>1 DEF StageLock
  <2>2. CASE RenameLock(p)
    <3>1. CASE lock \in Procs
      BY <2>2, <3>1 DEF RenameLock
    <3>2. CASE lock \notin Procs
      <4>1. lock' = p /\ Leave(p, "held") /\ UNCHANGED <<purpose, task, robbed>>
              /\ beaten' = {q \in Procs \ {p} : pc[q] \in Trying}
        BY <2>2, <3>2 DEF RenameLock
      <4>2. InvNamed'
        <5>1. \A q \in Procs : pc[q] \in {"held", "freeing"} => q \in robbed
          BY <3>2
        <5>2. \A q \in Procs : pc'[q] \in {"held", "freeing"} => q = p \/ pc[q] = pc'[q]
          BY <4>1
        <5> QED
          BY <4>1, <5>1, <5>2
      <4>3. InvJudged'
        <5>1. \A q \in Procs : q # p => UNCHANGED <<pc[q], seen[q]>> /\ (q \in blind <=> q \in blind')
          BY <4>1
        <5>2. pc'[p] = "held" /\ pc[p] = "rename"
          BY <2>2, <4>1 DEF RenameLock
        <5>3. ASSUME NEW q \in Procs, pc'[q] = "unlink", seen'[q] \in Procs
              PROVE  pc[seen[q]] = "dead" /\ seen'[q] = seen[q] /\ seen[q] # p /\ q # p
          BY <5>1, <5>2, <5>3
        <5>4. ASSUME NEW q \in Procs, pc'[q] = "unlink", seen'[q] \in Procs
              PROVE  pc'[seen'[q]] = "dead" /\ lock' # seen'[q]
          BY <4>1, <5>1, <5>3, <5>4
        <5>5. \A q \in Procs : /\ pc'[q] = "judge" => seen'[q] \in Procs
                               /\ pc'[q] = "stat" => seen'[q] = "absent"
          BY <5>1, <5>2
        <5> QED
          BY <5>4, <5>5
      <4>4. InvBeaten'
        BY <4>1
      <4> QED
        BY <4>2, <4>3, <4>4
    <3> QED
      BY <3>1, <3>2
  <2>3. CASE Read(p)
    BY <2>3 DEF Read, OwnerRead
  <2>4. CASE Stat(p)
    BY <2>4 DEF Stat
  <2>5. CASE Judge(p)
    <3>1. CASE Removable(p, seen[p])
      BY <2>5, <3>1 DEF Judge, Removable, Unresolved
    <3>2. CASE ~Removable(p, seen[p])
      BY <2>5, <3>2 DEF Judge
    <3> QED
      BY <3>1, <3>2
  <2>6. CASE JudgeBlind(p)
    BY <2>6 DEF JudgeBlind
  <2>7. CASE Unlink(p)
    BY <2>7 DEF Unlink, Unlinked, RobbedBy
  <2>8. CASE Rmdir(p)
    BY <2>8 DEF Rmdir, Removed
  <2>9. CASE Release(p)
    BY <2>9 DEF Release
  <2>10. CASE ReleaseUnlink(p)
    BY <2>10 DEF ReleaseUnlink, Unlinked, RobbedBy
  <2>11. CASE ReleaseRmdir(p)
    BY <2>11 DEF ReleaseRmdir, Removed
  <2>12. CASE TaskOpened(p)
    BY <2>12 DEF TaskOpened
  <2>13. CASE TaskResolved(p)
    BY <2>13 DEF TaskResolved
  <2>14. CASE HolderCrash(p)
    BY <2>14 DEF HolderCrash
  <2> QED
    BY <1>1, <2>1, <2>2, <2>3, <2>4, <2>5, <2>6, <2>7, <2>8, <2>9, <2>10, <2>11, <2>12, <2>13,
       <2>14 DEF Step
<1>2. CASE UNCHANGED lockVars
  BY <1>2 DEF lockVars
<1> QED
  BY <1>1, <1>2 DEF LockNext

\* The inductive invariant of any number of attempts, releases and crashes at once.
THEOREM LockInvariant == LockSpec => []LockInv
<1>1. LockInit => LockInv
  BY LockAssumption DEF LockInit, LockInv, InvNamed, InvJudged, InvBeaten, Trying
<1>2. LockTypeOK /\ LockInv /\ [LockNext]_lockVars => LockInv'
  BY LockInvStep
<1> QED
  BY <1>1, <1>2, LockTypeCorrect, PTL DEF LockSpec

\* Two live processes believe that they own the lock only if one of them was robbed of it.
THEOREM SoleOwnerHolds == LockSpec => []SoleOwner
<1>1. LockInv => SoleOwner
  BY DEF LockInv, InvNamed, SoleOwner
<1> QED
  BY <1>1, LockInvariant, PTL

\* While a crashed Main's session has an unresolved task, only that session takes the
\* repository over, but for the named removals.
THEOREM UnresolvedKeepsLockHolds == LockSpec => UnresolvedKeepsLock
<1> DEFINE Taken(q, p) ==
             \/ pc[q] = "unlink" /\ pc'[q] = "rmdir"
                  /\ (SessionOf[q] = SessionOf[p] \/ q \in blind \/ seen[q] # p)
             \/ pc[q] = "freeing" /\ pc'[q] = "freed" /\ q \in robbed
           Kept == \A p \in Procs :
             purpose = "repository" /\ lock = p /\ pc[p] = "dead" /\ task[SessionOf[p]] = "open"
                 /\ lock' # p
               => \E q \in Procs : Taken(q, p)
<1>1. LockTypeOK /\ LockInv /\ [LockNext]_lockVars => Kept
  <2> SUFFICES ASSUME LockTypeOK, LockInv, [LockNext]_lockVars, NEW p \in Procs,
                      purpose = "repository", lock = p, pc[p] = "dead",
                      task[SessionOf[p]] = "open", lock' # p
               PROVE  \E q \in Procs : Taken(q, p)
    OBVIOUS
  <2>1. PICK q \in Procs : Step(q)
    BY DEF LockNext, lockVars
  <2>2. CASE Unlink(q)
    BY <2>2 DEF Unlink, LockGoto, LockTypeOK, LockInv, InvJudged
  <2>3. CASE ReleaseUnlink(q)
    BY <2>3 DEF ReleaseUnlink, LockGoto, LockTypeOK, LockInv, InvNamed
  <2>4. CASE ~Unlink(q) /\ ~ReleaseUnlink(q)
    BY <2>1, <2>4, LockAssumption DEF Step, StageLock, RenameLock, Read, Stat, Judge, JudgeBlind,
       Rmdir, Removed, Release, ReleaseRmdir, TaskOpened, TaskResolved, HolderCrash
  <2> QED
    BY <2>2, <2>3, <2>4
<1> QED
  BY <1>1, LockInvariant, LockTypeCorrect, PTL DEF LockSpec, UnresolvedKeepsLock

\* An acquisition that has removed a lock ends without it only if another acquired it.
THEOREM TakeoverSucceedsHolds == LockSpec => TakeoverSucceeds
<1> DEFINE Beaten == \A p \in Procs :
       pc[p] \in Trying /\ (pc[p] = "rmdir" \/ tries[p] > 0) /\ pc'[p] = "idle" => p \in beaten
<1>1. LockTypeOK /\ LockInv /\ [LockNext]_lockVars => Beaten
  <2> SUFFICES ASSUME LockTypeOK, LockInv, [LockNext]_lockVars, NEW p \in Procs,
                      pc[p] \in Trying, pc[p] = "rmdir" \/ tries[p] > 0, pc'[p] = "idle"
               PROVE  p \in beaten
    OBVIOUS
  <2>1. PICK q \in Procs : Step(q)
    BY DEF LockNext, lockVars, Trying
  <2> USE DEF LockTypeOK, LockGoto, Leave, Trying
  <2>2. CASE Rmdir(q)
    BY <2>2 DEF Rmdir, LockInv, InvBeaten, Attempts
  <2>3. CASE Stat(q) \/ Judge(q)
    BY <2>3 DEF Stat, Judge, LockInv, InvBeaten
  <2>4. CASE ~Rmdir(q) /\ ~Stat(q) /\ ~Judge(q)
    BY <2>1, <2>4 DEF Step, StageLock, RenameLock, Read, JudgeBlind, Unlink, ReleaseUnlink,
       Release, ReleaseRmdir, TaskOpened, TaskResolved, HolderCrash
  <2> QED
    BY <2>2, <2>3, <2>4
<1> QED
  BY <1>1, LockInvariant, LockTypeCorrect, PTL DEF LockSpec, TakeoverSucceeds

\* A lock found behind is taken over at once, and only by who may have it.
THEOREM TakeoversAreRightHolds == LockSpec => TakeoversAreRight
BY UnresolvedKeepsLockHolds, TakeoverSucceedsHolds, PTL DEF TakeoversAreRight

-----------------------------------------------------------------------------
(* Settings. *)


Disk == [canon : Canon, legacy : Legacy, baks : SUBSET File]

\* The inductive invariant by its owners: what it says of the files, of what a session loaded, of its controller
\* and of its operation on the files.
DiskFits(dk, told) == ~told => \A sc \in Scope : ~FileTurnsOn(dk[sc].canon)
LoadFits(l, dk, told) ==
  /\ ~told => \A sc \in Scope : ~TurnsOn(l.layers[sc])
  /\ \A sc \in Scope : Unsaved(dk[sc]) /\ l.up => l.pending[sc] = "canon"
CtlFits(c, told) ==
  /\ c.worker = "ready" => c.conf = Shape(c.config)
  /\ ~told => c.config.enabled # 1 /\ c.staged.enabled # 1
Applied(l, c) == l.up => Effective(l.layers) = IF c.staged # NoConfig THEN c.staged ELSE c.config
OpFits(o, dk, told) ==
  /\ ~told => ~TurnsOn(o.layer) /\ ~FileTurnsOn(o.base) /\ ~(o.field = "enabled" /\ o.val = 1)
  /\ Unsaved(dk[o.scope]) /\ o.kind \in {"edit", "import"} => o.at \in {"reread", "rename"} /\ o.mig = "canon"
  /\ o.at \in {"reread", "rename", "publish", "restore"} => o.kind = "edit"
  /\ o.at = "write" => o.kind # "none"
  /\ o.at \in {"publish", "restore"} => o.base \in dk[o.scope].baks /\ (o.mig = "legacy" => o.base \in Legacy)
  /\ o.at = "confirm" => o.base.kind = "v2" /\ o.kind = "import" /\ AgreeBut({o.field}, o.base.layer, o.layer)
  /\ o.at = "write" /\ o.kind = "whole" => AgreeBut({o.field}, o.base.layer, o.layer)
  /\ o.at \in {"write", "rename"} /\ o.kind # "whole" /\ Replaces(o, dk[o.scope]) =>
       AgreeBut({o.field} \cup o.raced, LayerOf(dk[o.scope]), o.layer)
  /\ o.at = "publish" => AgreeBut({o.field} \cup o.raced, LayerIn(o.base), o.layer)
  /\ \/ o.at = "publish" /\ dk[o.scope].canon # NoFile
     \/ o.at \in {"write", "rename"} /\ o.kind = "edit" /\ dk[o.scope].canon # NoFile /\ dk[o.scope].legacy # NoFile
     => o.raced = Fields
AllFit ==
  /\ TypeOK /\ DiskFits(disk, consent)
  /\ \A s \in Session : /\ LoadFits(loaded[s], disk, consent) /\ CtlFits(ctl[s], consent)
                        /\ Applied(loaded[s], ctl[s]) /\ OpFits(op[s], disk, consent)

-----------------------------------------------------------------------------
(* Layers and configurations. *)

\* What a layer has: some of the fields, each with a value.
LEMMA LayerIs ==
  ASSUME NEW l \in Layer PROVE DOMAIN l \subseteq Fields /\ \A f \in DOMAIN l : l[f] \in {0, 1}
  BY DEF Layer

\* the layer without a field
LEMMA EmptyIs == Empty \in Layer /\ DOMAIN Empty = {} /\ ~TurnsOn(Empty)
<1>1. Empty \in [{} -> {0, 1}] /\ {} \in SUBSET Fields
  BY DEF Empty
<1> QED
  BY <1>1 DEF Layer, Empty, TurnsOn

\* Layers that agree with one that agrees with a third agree with it, where both do.
LEMMA AgreeIs ==
  /\ \A F, l : AgreeBut(F, l, l)
  /\ \A F, G, one, other : F \subseteq G /\ AgreeBut(F, one, other) => AgreeBut(G, one, other)
  /\ \A one, other : AgreeBut(Fields, one, other)
  /\ \A F, before, after, mine : AgreeBut(F, before, mine) =>
       AgreeBut(F \cup {f \in Fields : ~Agree(f, before, after)}, after, mine)
  BY DEF AgreeBut, Agree

\* Setting a field of a layer sets that field and keeps the others.
LEMMA WithIs ==
  ASSUME NEW l \in Layer, NEW f \in Fields, NEW v \in {0, 1}
  PROVE  /\ With(f, v, l) \in Layer /\ AgreeBut({f}, l, With(f, v, l))
         /\ TurnsOn(With(f, v, l)) => (f = "enabled" /\ v = 1) \/ (f # "enabled" /\ TurnsOn(l))
<1>1. DOMAIN With(f, v, l) = DOMAIN l \cup {f} /\ DOMAIN l \cup {f} \in SUBSET Fields
  BY LayerIs DEF With
<1>2. \A g \in DOMAIN l \cup {f} : With(f, v, l)[g] = IF g = f THEN v ELSE l[g]
  BY DEF With
<1>3. With(f, v, l) \in [DOMAIN l \cup {f} -> {0, 1}]
  BY LayerIs DEF With
<1> QED
  BY <1>1, <1>2, <1>3 DEF Layer, AgreeBut, Agree, TurnsOn

\* A layer without one of its fields is a layer.
LEMMA WithoutIs ==
  ASSUME NEW l \in Layer, NEW f
  PROVE  /\ [g \in DOMAIN l \ {f} |-> l[g]] \in Layer /\ AgreeBut({f}, l, [g \in DOMAIN l \ {f} |-> l[g]])
         /\ TurnsOn([g \in DOMAIN l \ {f} |-> l[g]]) => TurnsOn(l)
<1>1. [g \in DOMAIN l \ {f} |-> l[g]] \in [DOMAIN l \ {f} -> {0, 1}] /\ DOMAIN l \ {f} \in SUBSET Fields
  BY LayerIs
<1> QED
  BY <1>1 DEF Layer, AgreeBut, Agree, TurnsOn

\* A layer over a configuration is a configuration.
LEMMA OverlayIs ==
  ASSUME NEW l \in Layer, NEW c \in Config
  PROVE  /\ Overlay(l, c) \in Config
         /\ \A f \in Fields : Overlay(l, c)[f] = IF f \in DOMAIN l THEN l[f] ELSE c[f]
<1>1. DOMAIN l \cup DOMAIN c = Fields
  BY LayerIs DEF Config
<1> QED
  BY <1>1, LayerIs DEF Overlay, Config

\* The defaults are a configuration without consent; the record of no configuration is none.
LEMMA DefaultsAre ==
  /\ Defaults \in Config /\ Defaults.enabled = 0 /\ "enabled" \in Fields /\ "limit" \in Fields
  /\ NoConfig \notin Config /\ NoConfig.enabled = 2
  BY DEF Defaults, Config, NoConfig, Fields

\* What a session runs on is a configuration, and turns Pair on only if one of its layers does.
LEMMA EffectiveIs ==
  ASSUME NEW layers \in [Scope -> Layer]
  PROVE  /\ Effective(layers) \in Config
         /\ Effective(layers).enabled = 1 => \E sc \in Scope : TurnsOn(layers[sc])
<1>1. layers["global"] \in Layer /\ layers["project"] \in Layer /\ Scope = {"global", "project"}
  BY DEF Scope
<1>2. Overlay(layers["global"], Defaults) \in Config
  BY <1>1, OverlayIs, DefaultsAre
<1>3. Effective(layers) \in Config
  BY <1>1, <1>2, OverlayIs DEF Effective
<1>4. ASSUME Effective(layers).enabled = 1 PROVE TurnsOn(layers["global"]) \/ TurnsOn(layers["project"])
  <2>1. Effective(layers).enabled = IF "enabled" \in DOMAIN layers["project"] THEN layers["project"]["enabled"]
                                    ELSE Overlay(layers["global"], Defaults)["enabled"]
    BY <1>1, <1>2, OverlayIs, DefaultsAre DEF Effective
  <2>2. Overlay(layers["global"], Defaults)["enabled"] =
          IF "enabled" \in DOMAIN layers["global"] THEN layers["global"]["enabled"] ELSE 0
    BY <1>1, OverlayIs, DefaultsAre
  <2> QED
    BY <1>4, <2>1, <2>2 DEF TurnsOn
<1> QED
  BY <1>1, <1>3, <1>4

\* The layer of a scope's files turns Pair on only if its current file does: a migration does not.
LEMMA LayerOfIs ==
  ASSUME NEW d \in Disk
  PROVE  /\ LayerOf(d) \in Layer /\ Pending(d) \in Sources
         /\ TurnsOn(LayerOf(d)) => FileTurnsOn(d.canon)
         /\ Unsaved(d) => Pending(d) = "canon"
         /\ d.canon # NoFile /\ d.canon.kind = "v2" => LayerOf(d) = d.canon.layer
<1>1. d.canon \in Canon /\ d.legacy \in Legacy /\ NoFile.kind = "none" /\ NoFile.layer = Empty
  BY DEF Disk, NoFile
<1>2. \A file \in File : file.layer \in Layer /\ file.kind \in {"v1", "handoff", "v2"}
  BY DEF File
<1>3. \A file \in Legacy : file.layer \in Layer /\ (file = NoFile \/ file.kind = "handoff")
  BY <1>1, EmptyIs DEF Legacy
<1>4. ASSUME NEW file, file.layer \in Layer
      PROVE  Migrated(file) \in Layer /\ ~TurnsOn(Migrated(file))
  <2>1. With("readOnly", 0, file.layer) \in Layer
    BY <1>4, WithIs DEF Fields
  <2> DEFINE l == IF file.kind = "handoff" THEN With("readOnly", 0, file.layer) ELSE file.layer
  <2>2. l \in Layer
    BY <1>4, <2>1
  <2> HIDE DEF l
  <2>a. "enabled" \in Fields /\ 0 \in {0, 1} /\ 0 # 1
    BY DefaultsAre
  <2>b. /\ With("enabled", 0, l) \in Layer
        /\ TurnsOn(With("enabled", 0, l)) => ("enabled" = "enabled" /\ 0 = 1) \/ ("enabled" # "enabled" /\ TurnsOn(l))
    BY ONLY <2>2, <2>a, WithIs
  <2>3. With("enabled", 0, l) \in Layer /\ ~TurnsOn(With("enabled", 0, l))
    BY <2>a, <2>b
  <2> QED
    BY <2>3 DEF l, Migrated
<1>5. Source(d).layer \in Layer /\ (Source(d) = NoFile \/ Source(d).kind \in {"v1", "handoff", "v2"})
  BY <1>1, <1>2, <1>3 DEF Source, Canon
<1>6. LayerOf(d) \in Layer
  BY <1>4, <1>5 DEF LayerOf, LayerIn
<1>7. TurnsOn(LayerOf(d)) => FileTurnsOn(d.canon)
  <2> SUFFICES ASSUME TurnsOn(LayerOf(d)) PROVE FileTurnsOn(d.canon)
    OBVIOUS
  <2>1. Source(d).kind \in {"none", "v2"} /\ TurnsOn(Source(d).layer)
    BY <1>4, <1>5 DEF LayerOf, LayerIn
  <2>2. Source(d) # NoFile
    BY <1>1, <2>1, EmptyIs
  <2>3. Source(d).kind = "v2"
    BY <1>5, <2>1, <2>2
  <2>4. Source(d) = d.canon
    BY <1>3, <1>1, <2>2, <2>3 DEF Source
  <2> QED
    BY <2>1, <2>3, <2>4 DEF FileTurnsOn
<1>8. Pending(d) \in Sources
  BY DEF Pending, Sources
<1>9. Unsaved(d) => Pending(d) = "canon"
  BY <1>1 DEF Unsaved, Pending, Source
<1>10. d.canon # NoFile /\ d.canon.kind = "v2" => LayerOf(d) = d.canon.layer
  BY DEF LayerOf, LayerIn, Source
<1> QED
  BY <1>6, <1>7, <1>8, <1>9, <1>10

\* What updateConfig makes of the settings it is given: they are held or staged, a worker that is up keeps its
\* shape, and consent is that of the settings.
LEMMA UpdatedIs ==
  ASSUME NEW c \in Ctl, NEW next \in Config
  PROVE  /\ Updated(c, next) \in Ctl
         /\ next = IF Updated(c, next).staged # NoConfig THEN Updated(c, next).staged ELSE Updated(c, next).config
         /\ \A told \in BOOLEAN : CtlFits(c, told) /\ (~told => next.enabled # 1) => CtlFits(Updated(c, next), told)
<1>1. c.config \in Config /\ next # NoConfig /\ NoConfig.enabled = 2 /\ "enabled" \in Fields
  BY DefaultsAre DEF Ctl
<1> DEFINE kept == [next EXCEPT !.readOnly = c.config.readOnly, !.low = c.config.low]
<1>2. kept \in Config /\ kept.enabled = next.enabled /\ Shape(kept) = Shape(c.config)
  BY <1>1 DEF Config, Fields, Shape
<1> HIDE DEF kept
<1>3. CASE Shape(next) # Shape(c.config) /\ Retained(c)
  <2>1. Updated(c, next) = [c EXCEPT !.staged = next, !.config = kept]
    BY <1>3 DEF Updated, kept
  <2> QED
    BY <1>1, <1>2, <2>1 DEF Ctl, CtlFits
<1>4. CASE ~(Shape(next) # Shape(c.config) /\ Retained(c))
  <2>1. Updated(c, next) = [c EXCEPT !.staged = NoConfig, !.config = next]
    BY <1>4 DEF Updated
  <2>2. c.worker = "ready" => Shape(next) = Shape(c.config)
    BY <1>4 DEF Retained
  <2>3. Updated(c, next) \in Ctl
    BY <1>1, <2>1 DEF Ctl
  <2>4. /\ Updated(c, next).staged = NoConfig /\ Updated(c, next).config = next
        /\ Updated(c, next).worker = c.worker /\ Updated(c, next).conf = c.conf
    BY <2>1 DEF Ctl
  <2> QED
    BY <1>1, <2>2, <2>3, <2>4 DEF CtlFits
<1> QED
  BY <1>3, <1>4

-----------------------------------------------------------------------------
(* The invariant, session by session. *)

\* The types, one session and one scope at a time.
LEMMA TypesOf ==
  ASSUME TypeOK
  PROVE  /\ \A s \in Session : loaded[s] \in Reading /\ ctl[s] \in Ctl /\ op[s] \in Op /\ rec[s] \in Rec
         /\ \A sc \in Scope : disk[sc] \in Disk
         /\ OnDisk \in [Scope -> Layer] /\ Loaded \in Reading
<1>1. \A sc \in Scope : disk[sc] \in Disk
  BY DEF TypeOK, Disk
<1>2. OnDisk \in [Scope -> Layer] /\ \A sc \in Scope : Pending(disk[sc]) \in Sources
  BY <1>1, LayerOfIs DEF OnDisk
<1> QED
  BY <1>1, <1>2 DEF TypeOK, Loaded, Reading

\* The records of nothing.
LEMMA NothingIs ==
  /\ NoLoad \in Reading /\ NoCtl \in Ctl /\ NoOp \in Op /\ NoRec \in Rec
  /\ \A told \in BOOLEAN : CtlFits(NoCtl, told) /\ \A dk : OpFits(NoOp, dk, told) /\ LoadFits(NoLoad, dk, told)
  /\ ~NoLoad.up /\ NoOp.at = "none" /\ NoOp.kind = "none"
<1>1. NoFile \in Canon /\ ~FileTurnsOn(NoFile)
  BY DEF Canon, FileTurnsOn, NoFile
<1>2. Shape(Defaults) \in {0, 1} \X {0, 1} /\ {"global", "project"} = Scope
  BY DefaultsAre DEF Shape, Config, Fields, Scope
<1>3. NoOp \in Op /\ NoOp.at = "none" /\ NoOp.kind = "none" /\ NoOp.layer = Empty /\ NoOp.base = NoFile
  BY <1>1, <1>2, EmptyIs DEF NoOp, Op, Stage, Sources
<1>4. NoCtl \in Ctl /\ NoRec \in Rec /\ \A told \in BOOLEAN : CtlFits(NoCtl, told)
  BY <1>2, DefaultsAre DEF NoCtl, Ctl, NoRec, Rec, CtlFits
<1>5. NoLoad \in Reading /\ ~NoLoad.up /\ \A sc \in Scope : NoLoad.layers[sc] = Empty
  BY EmptyIs DEF NoLoad, Reading, Sources
<1>6. ASSUME NEW told \in BOOLEAN, NEW dk PROVE OpFits(NoOp, dk, told) /\ LoadFits(NoLoad, dk, told)
  <2>1. NoOp.val = 0
    BY DEF NoOp
  <2>2. OpFits(NoOp, dk, told)
    BY <1>1, <1>3, <2>1, EmptyIs DEF OpFits
  <2>3. LoadFits(NoLoad, dk, told)
    BY <1>5, EmptyIs DEF LoadFits
  <2> QED
    BY <2>2, <2>3
<1> QED
  BY <1>3, <1>4, <1>5, <1>6

\* The invariant is what its parts say of each session, before a step and after it.
LEMMA Parts == SettingsInv <=> AllFit
<1> USE DEF AllFit
<1>1. ASSUME SettingsInv
      PROVE  /\ TypeOK /\ DiskFits(disk, consent)
             /\ \A s \in Session : /\ LoadFits(loaded[s], disk, consent) /\ CtlFits(ctl[s], consent)
                                   /\ Applied(loaded[s], ctl[s]) /\ OpFits(op[s], disk, consent)
  <2>1. TypeOK /\ DiskFits(disk, consent)
    BY <1>1 DEF SettingsInv, InvConsent, DiskFits
  <2>2. ASSUME NEW s \in Session PROVE LoadFits(loaded[s], disk, consent)
    BY <1>1 DEF SettingsInv, InvConsent, InvUnsaved, LoadFits, Up
  <2>3. ASSUME NEW s \in Session PROVE CtlFits(ctl[s], consent)
    BY <1>1 DEF SettingsInv, InvConsent, WorkerKeepsShape, CtlFits
  <2>4. ASSUME NEW s \in Session PROVE Applied(loaded[s], ctl[s])
    BY <1>1 DEF SettingsInv, AppliedOrStaged, Applied, Up, Staged
  <2>5. ASSUME NEW s \in Session PROVE OpFits(op[s], disk, consent)
    <3>1. op[s].scope \in Scope
      BY <2>1 DEF TypeOK, Op
    <3>2. ~consent => ~TurnsOn(op[s].layer) /\ ~FileTurnsOn(op[s].base) /\ ~(op[s].field = "enabled" /\ op[s].val = 1)
      BY <1>1 DEF SettingsInv, InvConsent
    <3>3. Unsaved(disk[op[s].scope]) /\ op[s].kind \in {"edit", "import"} =>
            op[s].at \in {"reread", "rename"} /\ op[s].mig = "canon"
      BY <1>1, <3>1 DEF SettingsInv, InvUnsaved
    <3>4. /\ op[s].at \in {"reread", "rename", "publish", "restore"} => op[s].kind = "edit"
          /\ op[s].at = "write" => op[s].kind # "none"
      BY <1>1 DEF SettingsInv, InvKinds
    <3>5. op[s].at \in {"publish", "restore"} =>
            op[s].base \in disk[op[s].scope].baks /\ (op[s].mig = "legacy" => op[s].base \in Legacy)
      BY <1>1 DEF SettingsInv, InvBacked
    <3>6. InvUnraced
      BY <1>1 DEF SettingsInv
    <3> QED
      BY <3>2, <3>3, <3>4, <3>5, <3>6 DEF InvUnraced, OpFits
  <2> QED
    BY <2>1, <2>2, <2>3, <2>4, <2>5
<1>2. ASSUME /\ TypeOK /\ DiskFits(disk, consent)
             /\ \A s \in Session : /\ LoadFits(loaded[s], disk, consent) /\ CtlFits(ctl[s], consent)
                                   /\ Applied(loaded[s], ctl[s]) /\ OpFits(op[s], disk, consent)
      PROVE  SettingsInv
  <2>1. WorkerKeepsShape
    BY <1>2 DEF WorkerKeepsShape, CtlFits
  <2>2. AppliedOrStaged
    BY <1>2 DEF AppliedOrStaged, Applied, Up, Staged
  <2>3. InvConsent
    BY <1>2 DEF InvConsent, DiskFits, LoadFits, CtlFits, OpFits
  <2>4. InvUnsaved
    BY <1>2 DEF InvUnsaved, LoadFits, OpFits, Up
  <2>5. InvKinds /\ InvBacked
    BY <1>2 DEF InvKinds, InvBacked, OpFits
  <2>6. InvUnraced
    BY <1>2 DEF InvUnraced, OpFits
  <2> QED
    BY <1>2, <2>1, <2>2, <2>3, <2>4, <2>5, <2>6 DEF SettingsInv
<1> QED
  BY <1>1, <1>2

\* A human's consent is never taken back, and what fits without it fits with it.
LEMMA ToldFits ==
  ASSUME NEW told \in BOOLEAN, NEW now \in BOOLEAN, told => now, NEW dk
  PROVE  /\ DiskFits(dk, told) => DiskFits(dk, now)
         /\ \A l : LoadFits(l, dk, told) => LoadFits(l, dk, now)
         /\ \A c : CtlFits(c, told) => CtlFits(c, now)
         /\ \A o : OpFits(o, dk, told) => OpFits(o, dk, now)
  BY DEF DiskFits, LoadFits, CtlFits, OpFits

\* A step of one session that leaves the files alone keeps the invariant if what it makes of the session fits.
LEMMA SessionStep ==
  ASSUME SettingsInv, NEW s \in Session, disk' = disk,
         NEW l \in Reading, loaded' = [loaded EXCEPT ![s] = l], NEW c \in Ctl, ctl' = [ctl EXCEPT ![s] = c],
         NEW o \in Op, op' = [op EXCEPT ![s] = o], NEW r \in Rec, rec' = [rec EXCEPT ![s] = r],
         edits' \in 0..MaxEdits, faults' \in 0..MaxFaults, consent' \in BOOLEAN, consent => consent',
         LoadFits(l, disk, consent'), CtlFits(c, consent'), Applied(l, c), OpFits(o, disk, consent')
  PROVE  SettingsInv'
<1>0. TypeOK /\ TypeOK'
  <2>1. TypeOK
    BY Parts DEF AllFit
  <2> QED
    BY <2>1 DEF TypeOK
<1>1. consent \in BOOLEAN /\ \A t \in Session : t # s => /\ loaded'[t] = loaded[t] /\ ctl'[t] = ctl[t] /\ op'[t] = op[t]
  BY <1>0 DEF TypeOK
<1>2. loaded'[s] = l /\ ctl'[s] = c /\ op'[s] = o
  BY <1>0 DEF TypeOK
<1>3. ASSUME NEW t \in Session
      PROVE  /\ LoadFits(loaded'[t], disk, consent') /\ CtlFits(ctl'[t], consent')
             /\ Applied(loaded'[t], ctl'[t]) /\ OpFits(op'[t], disk, consent')
  <2>1. CASE t = s
    BY <1>2, <2>1
  <2>2. CASE t # s
    BY <1>1, <2>2, Parts, ToldFits DEF AllFit
  <2> QED
    BY <2>1, <2>2
<1>4. DiskFits(disk, consent')
  BY <1>1, Parts, ToldFits DEF AllFit
<1>5. SettingsInv' <=> AllFit'
  BY Parts, PTL
<1> QED
  BY <1>0, <1>3, <1>4, <1>5 DEF AllFit

\* A session that only turns to its files keeps the invariant if its operation fits.
LEMMA OpStep ==
  ASSUME SettingsInv, NEW s \in Session, NEW o \in Op, op' = [op EXCEPT ![s] = o],
         UNCHANGED <<disk, loaded, ctl, rec>>, edits' \in 0..MaxEdits, faults' \in 0..MaxFaults,
         consent' \in BOOLEAN, consent => consent', OpFits(o, disk, consent')
  PROVE  SettingsInv'
<1>1. AllFit
  BY Parts
<1>2. consent \in BOOLEAN /\ loaded[s] \in Reading /\ ctl[s] \in Ctl /\ rec[s] \in Rec
  BY <1>1, TypesOf DEF AllFit, TypeOK
<1>3. /\ loaded' = [loaded EXCEPT ![s] = loaded[s]] /\ ctl' = [ctl EXCEPT ![s] = ctl[s]]
      /\ rec' = [rec EXCEPT ![s] = rec[s]]
  BY <1>1 DEF AllFit, TypeOK
<1>4. LoadFits(loaded[s], disk, consent') /\ CtlFits(ctl[s], consent') /\ Applied(loaded[s], ctl[s])
  BY <1>1, <1>2, ToldFits DEF AllFit
<1> QED
  BY <1>2, <1>3, <1>4, SessionStep

\* So does a step of its worker.
LEMMA WorkStep ==
  ASSUME SettingsInv, NEW s \in Session, NEW c \in Ctl, Sets(s, c), NEW r \in Rec, rec' = [rec EXCEPT ![s] = r],
         CtlFits(c, consent), Applied(loaded[s], c)
  PROVE  SettingsInv'
<1>1. AllFit
  BY Parts
<1>2. consent \in BOOLEAN /\ loaded[s] \in Reading /\ op[s] \in Op /\ edits \in 0..MaxEdits /\ faults \in 0..MaxFaults
  BY <1>1, TypesOf DEF AllFit, TypeOK
<1>3. loaded' = [loaded EXCEPT ![s] = loaded[s]] /\ op' = [op EXCEPT ![s] = op[s]] /\ ctl' = [ctl EXCEPT ![s] = c]
  BY <1>1 DEF AllFit, TypeOK, Sets
<1>4. disk' = disk /\ edits' = edits /\ faults' = faults /\ consent' = consent
  BY DEF Sets, counts
<1>5. LoadFits(loaded[s], disk, consent) /\ OpFits(op[s], disk, consent)
  BY <1>1 DEF AllFit
<1> QED
  BY <1>2, <1>3, <1>4, <1>5, SessionStep

\* A step that writes to the files keeps the invariant if the operations fit the files as they are then.
LEMMA DiskStep ==
  ASSUME SettingsInv, UNCHANGED <<loaded, ctl, rec, counts, consent>>,
         disk' \in [Scope -> Disk], op' \in [Session -> Op], DiskFits(disk', consent),
         \A sc \in Scope : Unsaved(disk'[sc]) => Unsaved(disk[sc]),
         \A t \in Session : OpFits(op'[t], disk', consent)
  PROVE  SettingsInv'
<1>1. AllFit
  BY Parts
<1>2. TypeOK'
  BY <1>1 DEF AllFit, TypeOK, counts, Disk
<1>3. ASSUME NEW t \in Session PROVE LoadFits(loaded[t], disk', consent)
  BY <1>1 DEF AllFit, LoadFits
<1>4. AllFit'
  BY <1>1, <1>2, <1>3 DEF AllFit
<1>5. SettingsInv' <=> AllFit'
  BY Parts, PTL
<1> QED
  BY <1>4, <1>5

-----------------------------------------------------------------------------
(* Saving. *)

\* What a session reads from the files fits them.
LEMMA LoadedFits ==
  ASSUME SettingsInv
  PROVE  /\ Loaded \in Reading /\ Loaded.up /\ Loaded.layers = OnDisk /\ LoadFits(Loaded, disk, consent)
         /\ Effective(OnDisk) \in Config /\ (~consent => Effective(OnDisk).enabled # 1)
<1>1. AllFit
  BY Parts
<1>2. /\ \A sc \in Scope : disk[sc] \in Disk
      /\ OnDisk \in [Scope -> Layer] /\ Loaded \in Reading
  BY <1>1, TypesOf DEF AllFit
<1>3. /\ Loaded.up /\ Loaded.layers = OnDisk
      /\ \A sc \in Scope : OnDisk[sc] = LayerOf(disk[sc]) /\ Loaded.pending[sc] = Pending(disk[sc])
  BY DEF Loaded, OnDisk
<1>4. ~consent => \A sc \in Scope : ~TurnsOn(OnDisk[sc])
  BY <1>1, <1>2, <1>3, LayerOfIs DEF AllFit, DiskFits
<1> QED
  BY <1>2, <1>3, <1>4, LayerOfIs, EffectiveIs DEF LoadFits

\* A session that asks for something is up, has no operation, and is counted.
LEMMA AskedIs ==
  ASSUME SettingsInv, NEW s \in Session, Asked(s)
  PROVE  /\ Up(s) /\ op[s] = NoOp /\ edits' \in 0..MaxEdits /\ faults' \in 0..MaxFaults
         /\ UNCHANGED <<disk, loaded, ctl, rec>> /\ consent \in BOOLEAN
         /\ loaded[s] \in Reading /\ LoadFits(loaded[s], disk, consent)
<1>1. AllFit
  BY Parts
<1> QED
  BY <1>1, SettingsAssumption DEF AllFit, TypeOK, Asked, Free

\* An edit is one of a field, or a migration alone, and starts from what the session knows of the files.
LEMMA EditKeeps ==
  ASSUME SettingsInv, NEW s \in Session, Asked(s), NEW o \in Op, op' = [op EXCEPT ![s] = o],
         o.at = "reread", o.kind = "edit", o.mig = loaded[s].pending[o.scope], o.layer = Empty, o.base = NoFile,
         consent' \in BOOLEAN, consent => consent', o.field = "enabled" /\ o.val = 1 => consent'
  PROVE  SettingsInv'
<1>1. o.scope \in Scope
  BY DEF Op
<1>2. Unsaved(disk[o.scope]) => o.mig = "canon"
  BY <1>1, AskedIs DEF LoadFits, Up
<1>3. ~TurnsOn(Empty) /\ ~FileTurnsOn(NoFile)
  BY EmptyIs DEF FileTurnsOn, NoFile
<1>4. OpFits(o, disk, consent')
  BY <1>2, <1>3 DEF OpFits
<1> QED
  BY <1>4, AskedIs, OpStep

\* A save of a whole layer.
LEMMA WholeKeeps ==
  ASSUME SettingsInv, NEW s \in Session, NEW sc \in Scope, NEW f \in Fields, NEW layer \in Layer,
         SaveWhole(s, sc, f, layer), AgreeBut({f}, loaded[s].layers[sc], layer),
         consent' \in BOOLEAN, consent => consent', TurnsOn(layer) => consent'
  PROVE  SettingsInv'
<1> DEFINE draft == [kind |-> "v2", layer |-> loaded[s].layers[sc]]
           o == [NoOp EXCEPT !.at = "write", !.kind = "whole", !.scope = sc, !.field = f, !.layer = layer,
                             !.base = draft]
<1>1. Asked(s) /\ op' = [op EXCEPT ![s] = o]
  BY DEF SaveWhole
<1>a. loaded[s].layers[sc] \in Layer /\ (~consent => ~TurnsOn(loaded[s].layers[sc]))
  BY <1>1, AskedIs DEF Reading, LoadFits
<1>b. draft \in Canon /\ draft.layer = loaded[s].layers[sc] /\ (~consent => ~FileTurnsOn(draft))
  BY <1>a DEF Canon, File, FileTurnsOn
<1> HIDE DEF draft
<1>2. o \in Op
  BY <1>b, NothingIs DEF Op, Stage
<1>3. /\ o.at = "write" /\ o.kind = "whole" /\ o.scope = sc /\ o.val = 0 /\ o.layer = layer /\ o.base = draft
      /\ o.field = f
  BY DEF NoOp
<1> HIDE DEF o
<1>4. AgreeBut({o.field}, o.base.layer, o.layer)
  BY <1>b, <1>3
<1>5. OpFits(o, disk, consent')
  BY <1>b, <1>3, <1>4 DEF OpFits
<1> QED
  BY <1>1, <1>2, <1>5, AskedIs, OpStep

\* What is asked of a session.
LEMMA AsksKeep ==
  ASSUME SettingsInv, NEW s \in Session, NEW sc \in Scope, Asks(s, sc) PROVE SettingsInv'
<1>0. AllFit /\ consent \in BOOLEAN
  BY Parts DEF AllFit, TypeOK
<1>a. ASSUME Asked(s)
      PROVE  loaded[s].layers[sc] \in Layer /\ (TurnsOn(loaded[s].layers[sc]) => consent)
  BY <1>0, <1>a, AskedIs DEF Reading, LoadFits
<1>b. ASSUME Asked(s) PROVE loaded[s].pending[sc] \in Sources
  BY <1>b, AskedIs DEF Reading
<1>1. ASSUME NEW f \in Fields, NEW v \in {0, 1}, Edit(s, sc, f, v) PROVE SettingsInv'
  <2> DEFINE o == [NoOp EXCEPT !.at = "reread", !.kind = "edit", !.scope = sc, !.field = f, !.val = v,
                               !.mig = loaded[s].pending[sc]]
  <2>1. /\ Asked(s) /\ op' = [op EXCEPT ![s] = o]
        /\ consent' \in BOOLEAN /\ (consent => consent') /\ (f = "enabled" /\ v = 1 => consent')
    BY <1>0, <1>1 DEF Edit, Consents
  <2>2. o \in Op
    BY <1>b, <2>1, NothingIs DEF Op, Stage
  <2>3. /\ o.at = "reread" /\ o.kind = "edit" /\ o.scope = sc /\ o.field = f /\ o.val = v
        /\ o.mig = loaded[s].pending[sc] /\ o.layer = Empty /\ o.base = NoFile
    BY DEF NoOp
  <2> HIDE DEF o
  <2> QED
    BY <2>1, <2>2, <2>3, EditKeeps
<1>2. ASSUME NEW f \in Fields, NEW v \in {0, 1}, EditJson(s, sc, f, v) PROVE SettingsInv'
  <2>1. /\ SaveWhole(s, sc, f, With(f, v, loaded[s].layers[sc])) /\ Asked(s)
        /\ consent' \in BOOLEAN /\ (consent => consent') /\ (f = "enabled" /\ v = 1 => consent')
    BY <1>0, <1>2 DEF EditJson, SaveWhole, Consents
  <2>2. /\ With(f, v, loaded[s].layers[sc]) \in Layer
        /\ AgreeBut({f}, loaded[s].layers[sc], With(f, v, loaded[s].layers[sc]))
        /\ TurnsOn(With(f, v, loaded[s].layers[sc])) => consent'
    BY <1>a, <2>1, WithIs
  <2> QED
    BY <2>1, <2>2, WholeKeeps
<1>3. ASSUME NEW f \in Fields, Reset(s, sc, f) PROVE SettingsInv'
  <2> DEFINE rest == [g \in DOMAIN loaded[s].layers[sc] \ {f} |-> loaded[s].layers[sc][g]]
  <2>1. SaveWhole(s, sc, f, rest) /\ Asked(s) /\ consent' = consent
    BY <1>3 DEF Reset, SaveWhole
  <2>2. rest \in Layer /\ (TurnsOn(rest) => consent) /\ AgreeBut({f}, loaded[s].layers[sc], rest)
    BY <1>a, <2>1, WithoutIs
  <2> HIDE DEF rest
  <2> QED
    BY <1>0, <2>1, <2>2, WholeKeeps
<1>4. ASSUME NEW bak \in disk[sc].baks, Preview(s, sc, bak) PROVE SettingsInv'
  <2> DEFINE next == With("limit", bak.layer["limit"], disk[sc].canon.layer)
             o == [NoOp EXCEPT !.at = "confirm", !.kind = "import", !.scope = sc,
                               !.field = "limit", !.layer = next, !.base = disk[sc].canon]
  <2>1. /\ Asked(s) /\ op' = [op EXCEPT ![s] = o] /\ consent' = consent
        /\ disk[sc].canon.kind = "v2" /\ "limit" \in DOMAIN bak.layer
    BY <1>4 DEF Preview
  <2>2. disk[sc] \in Disk /\ disk[sc].canon \in Canon /\ disk[sc].canon.layer \in Layer /\ bak.layer["limit"] \in {0, 1}
    <3>1. disk[sc] \in Disk /\ bak \in File
      BY <1>0, TypesOf DEF AllFit, Disk
    <3>2. disk[sc].canon \in File
      BY <2>1, <3>1 DEF Disk, Canon, NoFile
    <3> QED
      BY <2>1, <3>1, <3>2, LayerIs DEF File, Canon
  <2>3. /\ next \in Layer /\ AgreeBut({"limit"}, disk[sc].canon.layer, next)
        /\ TurnsOn(next) => TurnsOn(disk[sc].canon.layer)
    BY <2>2, WithIs, DefaultsAre
  <2>4. ~Unsaved(disk[sc]) /\ (~consent => ~FileTurnsOn(disk[sc].canon))
    BY <1>0, <2>1 DEF Unsaved, AllFit, DiskFits
  <2>5. ~consent => ~TurnsOn(next)
    BY <2>1, <2>3, <2>4 DEF FileTurnsOn
  <2> HIDE DEF next
  <2>6. o \in Op
    BY <2>2, <2>3, NothingIs, DefaultsAre DEF Op, Stage
  <2>7. /\ o.at = "confirm" /\ o.kind = "import" /\ o.scope = sc /\ o.field = "limit" /\ o.val = 0 /\ o.layer = next
        /\ o.base = disk[sc].canon
    BY DEF NoOp
  <2> HIDE DEF o
  <2>8. OpFits(o, disk, consent)
    BY <2>1, <2>3, <2>4, <2>5, <2>7 DEF OpFits
  <2> QED
    BY <1>0, <2>1, <2>6, <2>8, AskedIs, OpStep
<1>5. ASSUME Migrate(s, sc) PROVE SettingsInv'
  <2> DEFINE o == [NoOp EXCEPT !.at = "reread", !.kind = "edit", !.scope = sc, !.mig = loaded[s].pending[sc]]
  <2>1. Asked(s) /\ op' = [op EXCEPT ![s] = o] /\ consent' = consent
    BY <1>5 DEF Migrate
  <2>2. o \in Op
    BY <1>b, <2>1, NothingIs DEF Op, Stage
  <2>3. /\ o.at = "reread" /\ o.kind = "edit" /\ o.scope = sc /\ o.field = "none"
        /\ o.mig = loaded[s].pending[sc] /\ o.layer = Empty /\ o.base = NoFile
    BY DEF NoOp
  <2> HIDE DEF o
  <2> QED
    BY <1>0, <2>1, <2>2, <2>3, EditKeeps
<1> QED
  BY <1>1, <1>2, <1>3, <1>4, <1>5 DEF Asks

\* A session that goes on with its operation or drops it, without a word to the files.
LEMMA OpMoves ==
  ASSUME SettingsInv, NEW s \in Session, UNCHANGED <<disk, loaded, ctl, rec, edits, consent>>,
         faults' \in 0..MaxFaults, NEW o \in Op, op' = [op EXCEPT ![s] = o], OpFits(o, disk, consent)
  PROVE  SettingsInv'
  BY Parts, OpStep DEF AllFit, TypeOK

\* The field of an operation is set, if it has one, and the others are kept.
LEMMA ChangedIs ==
  ASSUME NEW s \in Session, op[s] \in Op, NEW fresh \in Layer
  PROVE  /\ Changed(s, fresh) \in Layer /\ AgreeBut({op[s].field}, fresh, Changed(s, fresh))
         /\ TurnsOn(Changed(s, fresh)) => TurnsOn(fresh) \/ (op[s].field = "enabled" /\ op[s].val = 1)
<1>1. op[s].field \in Fields \cup {"none"} /\ op[s].val \in {0, 1}
  BY DEF Op
<1>2. CASE op[s].field = "none"
  BY <1>2, AgreeIs DEF Changed
<1>3. CASE op[s].field # "none"
  BY <1>1, <1>3, WithIs DEF Changed
<1> QED
  BY <1>2, <1>3

\* An edit takes the layer as it is on disk now.
LEMMA RereadKeeps == ASSUME SettingsInv, NEW s \in Session, Reread(s) PROVE SettingsInv'
<1>0. AllFit /\ op[s] \in Op /\ OpFits(op[s], disk, consent) /\ faults \in 0..MaxFaults
  BY Parts, TypesOf DEF AllFit, TypeOK
<1>1. UNCHANGED <<disk, loaded, ctl, rec, edits, faults, consent>> /\ op[s].at = "reread"
  BY DEF Reread, counts
<1> DEFINE fresh == LayerOf(disk[op[s].scope])
           next == Changed(s, fresh)
<1>2. disk[op[s].scope] \in Disk
  BY <1>0, TypesOf DEF AllFit, Op
<1>3. fresh \in Layer /\ (TurnsOn(fresh) => consent)
  BY <1>0, <1>2, LayerOfIs DEF AllFit, DiskFits, Op
<1> HIDE DEF fresh
<1>4. /\ next \in Layer /\ AgreeBut({op[s].field}, fresh, next)
      /\ TurnsOn(next) => TurnsOn(fresh) \/ (op[s].field = "enabled" /\ op[s].val = 1)
  BY <1>0, <1>3, ChangedIs
<1> HIDE DEF next
<1>a. AgreeBut({op[s].field} \cup op[s].raced, fresh, next)
  BY <1>4, AgreeIs
<1>5. CASE /\ op' = [op EXCEPT ![s].layer = next, ![s].at = IF op[s].mig = "none" THEN "write" ELSE "rename"]
           /\ Loads
  <2> DEFINE o == [op[s] EXCEPT !.layer = next, !.at = IF op[s].mig = "none" THEN "write" ELSE "rename"]
  <2>1. op' = [op EXCEPT ![s] = o]
    BY <1>0, <1>5 DEF AllFit, TypeOK, Op
  <2>2. /\ o \in Op /\ o.layer = next /\ o.at = IF op[s].mig = "none" THEN "write" ELSE "rename"
        /\ o.scope = op[s].scope /\ o.kind = op[s].kind /\ o.field = op[s].field /\ o.val = op[s].val
        /\ o.mig = op[s].mig /\ o.base = op[s].base /\ o.raced = op[s].raced
    BY <1>0, <1>4 DEF Op, Stage
  <2> HIDE DEF o
  <2>a. ~(disk[o.scope].canon # NoFile /\ disk[o.scope].legacy # NoFile) /\ o.kind = "edit"
    BY <1>0, <1>1, <1>5, <2>2 DEF OpFits, Loads, Readable, Op
  <2>b. AgreeBut({o.field} \cup o.raced, LayerOf(disk[o.scope]), o.layer)
    BY <1>a, <2>2 DEF fresh
  <2>3. OpFits(o, disk, consent)
    BY <1>0, <1>1, <1>3, <1>4, <2>2, <2>a, <2>b DEF OpFits, fresh
  <2> QED
    BY <1>0, <1>1, <2>1, <2>2, <2>3, OpMoves
<1>6. CASE Over(s)
  BY <1>0, <1>1, <1>6, NothingIs, OpMoves DEF Over, AllFit, TypeOK
<1> QED
  BY <1>5, <1>6 DEF Reread, next, fresh

\* A confirmed import goes on over the file that was previewed only.
LEMMA ImportKeeps == ASSUME SettingsInv, NEW s \in Session, ImportSave(s) PROVE SettingsInv'
<1>0. AllFit /\ op[s] \in Op /\ OpFits(op[s], disk, consent) /\ faults \in 0..MaxFaults /\ consent \in BOOLEAN
  BY Parts, TypesOf DEF AllFit, TypeOK
<1>1. UNCHANGED <<disk, loaded, ctl, rec, edits, faults, consent>> /\ op[s].at = "confirm"
  BY DEF ImportSave, counts
<1>2. CASE Over(s)
  BY <1>0, <1>1, <1>2, NothingIs, OpMoves DEF Over, AllFit, TypeOK
<1>3. ASSUME SameFile(s), NEW a \in {"reload", "write"}, Goto(s, a) PROVE SettingsInv'
  <2> DEFINE o == [op[s] EXCEPT !.at = a]
  <2>1. op' = [op EXCEPT ![s] = o]
    BY <1>0, <1>3 DEF Goto, AllFit, TypeOK, Op
  <2>2. /\ o \in Op /\ o.at = a /\ o.layer = op[s].layer /\ o.base = op[s].base
        /\ o.scope = op[s].scope /\ o.kind = op[s].kind /\ o.field = op[s].field /\ o.val = op[s].val
        /\ o.mig = op[s].mig /\ o.raced = op[s].raced
    BY <1>0 DEF Op, Stage
  <2> HIDE DEF o
  <2>3. disk[op[s].scope] \in Disk /\ disk[op[s].scope].canon = op[s].base /\ op[s].base.kind = "v2"
    BY <1>0, <1>1, <1>3, TypesOf DEF AllFit, Op, SameFile, OpFits
  <2>4. ~Unsaved(disk[op[s].scope]) /\ LayerOf(disk[op[s].scope]) = op[s].base.layer
    BY <2>3, LayerOfIs DEF Unsaved, NoFile
  <2>a. o.kind = "import" /\ AgreeBut({o.field} \cup o.raced, LayerOf(disk[o.scope]), o.layer)
    BY <1>0, <1>1, <2>2, <2>4, AgreeIs DEF OpFits
  <2>5. OpFits(o, disk, consent)
    BY <1>0, <1>1, <1>3, <2>2, <2>3, <2>4, <2>a DEF OpFits
  <2> QED
    BY <1>0, <1>1, <2>1, <2>2, <2>5, OpMoves
<1> QED
  BY <1>2, <1>3 DEF ImportSave

\* A publication that fails leaves the source among the backups.
LEMMA PublishFailsKeeps == ASSUME SettingsInv, NEW s \in Session, PublishFails(s) PROVE SettingsInv'
<1>0. AllFit /\ op[s] \in Op /\ OpFits(op[s], disk, consent) /\ faults \in 0..MaxFaults /\ faults' \in 0..MaxFaults
  BY Parts, TypesOf, SettingsAssumption DEF AllFit, TypeOK, PublishFails
<1>1. UNCHANGED <<disk, loaded, ctl, rec, edits, consent>> /\ op[s].at = "publish" /\ Goto(s, "restore")
  BY DEF PublishFails
<1> DEFINE o == [op[s] EXCEPT !.at = "restore"]
<1>2. op' = [op EXCEPT ![s] = o]
  BY <1>0, <1>1 DEF Goto, AllFit, TypeOK, Op
<1>3. /\ o \in Op /\ o.at = "restore" /\ o.layer = op[s].layer /\ o.base = op[s].base
      /\ o.scope = op[s].scope /\ o.kind = op[s].kind /\ o.field = op[s].field /\ o.val = op[s].val
      /\ o.mig = op[s].mig
  BY <1>0 DEF Op, Stage
<1> HIDE DEF o
<1>4. OpFits(o, disk, consent)
  BY <1>0, <1>1, <1>3 DEF OpFits
<1> QED
  BY <1>0, <1>1, <1>2, <1>3, <1>4, OpMoves

\* What a save makes of the operations of the other sessions: only that something has changed since.
LEMMA RaceIs ==
  ASSUME SettingsInv, NEW s \in Session, NEW mine \in Op, NEW changed \in SUBSET Fields, Race(s, mine, changed)
  PROVE  /\ op' \in [Session -> Op] /\ op'[s] = mine
         /\ \A t \in Session \ {s} :
              /\ op'[t].at = op[t].at /\ op'[t].kind = op[t].kind /\ op'[t].scope = op[t].scope
              /\ op'[t].field = op[t].field /\ op'[t].val = op[t].val /\ op'[t].layer = op[t].layer
              /\ op'[t].base = op[t].base /\ op'[t].mig = op[t].mig
              /\ op[t].raced \subseteq op'[t].raced
              /\ op[t].scope = op[s].scope /\ op[t].kind # "whole" /\ op[t].at \in {"write", "rename", "publish"} =>
                   changed \subseteq op'[t].raced
<1>1. \A t \in Session : op[t] \in Op
  BY Parts, TypesOf DEF AllFit
<1>2. op'[s] = mine /\ op' = [t \in Session |-> op'[t]]
  BY DEF Race
<1>3. ASSUME NEW t \in Session \ {s}
      PROVE  /\ op'[t] \in Op
             /\ op'[t].at = op[t].at /\ op'[t].kind = op[t].kind /\ op'[t].scope = op[t].scope
             /\ op'[t].field = op[t].field /\ op'[t].val = op[t].val /\ op'[t].layer = op[t].layer
             /\ op'[t].base = op[t].base /\ op'[t].mig = op[t].mig
             /\ op[t].raced \subseteq op'[t].raced
             /\ op[t].scope = op[s].scope /\ op[t].kind # "whole" /\ op[t].at \in {"write", "rename", "publish"} =>
                  changed \subseteq op'[t].raced
  <2>1. op'[t] = [op[t] EXCEPT !.raced = op[t].raced \cup changed] \/ op'[t] = op[t]
    BY DEF Race
  <2>2. op[t].scope = op[s].scope /\ op[t].kind # "whole" /\ op[t].at \in {"write", "rename", "publish"} =>
          op'[t] = [op[t] EXCEPT !.raced = op[t].raced \cup changed]
    BY DEF Race
  <2>3. op[t].raced \cup changed \in SUBSET Fields
    BY <1>1 DEF Op
  <2> QED
    BY <1>1, <2>1, <2>2, <2>3 DEF Op
<1> QED
  BY <1>2, <1>3

\* An operation fits files of another scope as it did before, and those of its own if it is noted what has changed.
LEMMA FitsOn ==
  ASSUME NEW o \in Op, NEW p \in Op, NEW dk, NEW after, NEW told \in BOOLEAN, OpFits(o, dk, told),
         p.at = o.at, p.kind = o.kind, p.scope = o.scope, p.field = o.field, p.val = o.val, p.layer = o.layer,
         p.base = o.base, p.mig = o.mig, o.raced \subseteq p.raced,
         dk[o.scope].baks \subseteq after[o.scope].baks, Unsaved(after[o.scope]) => Unsaved(dk[o.scope]),
         \/ after[o.scope] = dk[o.scope]
         \/ o.kind # "whole" /\ o.at \in {"write", "rename", "publish"} => p.raced = Fields
         \/ /\ dk[o.scope].canon # NoFile /\ after[o.scope].legacy = dk[o.scope].legacy
            /\ o.kind # "whole" /\ o.at \in {"write", "rename", "publish"} =>
                 {f \in Fields : ~Agree(f, LayerOf(dk[o.scope]), LayerOf(after[o.scope]))} \subseteq p.raced
  PROVE  OpFits(p, after, told)
<1> DEFINE mine == {o.field} \cup o.raced
           theirs == {p.field} \cup p.raced
           x == dk[o.scope]
           y == after[o.scope]
           writing == o.at \in {"write", "rename"} /\ o.kind # "whole"
<1>1. mine \subseteq theirs /\ p.raced \subseteq Fields /\ o.raced \subseteq Fields
  BY DEF Op
<1>2. o.at = "publish" => o.kind = "edit" /\ AgreeBut(theirs, LayerIn(p.base), p.layer)
  BY <1>1, AgreeIs DEF OpFits
<1>3. writing /\ Replaces(p, y) => AgreeBut(theirs, LayerOf(y), p.layer)
  <2> SUFFICES ASSUME writing, Replaces(p, y) PROVE AgreeBut(theirs, LayerOf(y), o.layer)
    OBVIOUS
  <2>1. CASE y = x
    <3>1. AgreeBut(mine, LayerOf(x), o.layer)
      BY <2>1 DEF OpFits, Replaces
    <3> QED
      BY <1>1, <2>1, <3>1, AgreeIs
  <2>2. CASE p.raced = Fields
    BY <2>2, AgreeIs
  <2>3. CASE x.canon # NoFile /\ {f \in Fields : ~Agree(f, LayerOf(x), LayerOf(y))} \subseteq p.raced
    <3> DEFINE changed == {f \in Fields : ~Agree(f, LayerOf(x), LayerOf(y))}
    <3>1. AgreeBut(mine, LayerOf(x), o.layer)
      BY <2>3 DEF OpFits, Replaces
    <3>2. AgreeBut(mine \cup changed, LayerOf(y), o.layer) /\ mine \cup changed \subseteq theirs
      BY <1>1, <2>3, <3>1, AgreeIs
    <3> HIDE DEF changed, theirs, mine
    <3> QED
      BY <3>2, AgreeIs
  <2> QED
    BY <2>1, <2>2, <2>3
<1>4. \/ p.at = "publish" /\ y.canon # NoFile
      \/ p.at \in {"write", "rename"} /\ p.kind = "edit" /\ y.canon # NoFile /\ y.legacy # NoFile
      => p.raced = Fields
  <2>1. \/ o.at = "publish" /\ x.canon # NoFile
        \/ o.at \in {"write", "rename"} /\ o.kind = "edit" /\ x.canon # NoFile /\ x.legacy # NoFile
        => p.raced = Fields
    BY <1>1 DEF OpFits
  <2> QED
    BY <1>2, <2>1
<1> QED
  BY <1>2, <1>3, <1>4 DEF OpFits

\* A file replaces the one of its scope: the other scope's files are as they were.
LEMMA DiskIs ==
  ASSUME SettingsInv, NEW sc \in Scope, NEW d \in Disk, disk' = [disk EXCEPT ![sc] = d]
  PROVE  /\ disk' \in [Scope -> Disk] /\ disk'[sc] = d /\ \A x \in Scope \ {sc} : disk'[x] = disk[x]
  BY Parts DEF AllFit, TypeOK, Disk

\* What is saved is the layer of the operation, and every session about to save the scope is overtaken.
LEMMA WrittenKeeps ==
  ASSUME SettingsInv, NEW s \in Session, op[s].at \in {"write", "publish"}, Written(s),
         UNCHANGED <<loaded, ctl, rec, counts, consent>>
  PROVE  SettingsInv'
<1>0. AllFit /\ consent \in BOOLEAN /\ \A t \in Session : op[t] \in Op /\ OpFits(op[t], disk, consent)
  BY Parts, TypesOf DEF AllFit, TypeOK
<1> DEFINE sc == op[s].scope
           file == [kind |-> "v2", layer |-> op[s].layer]
           d == [disk[sc] EXCEPT !.canon = file]
           mine == [op[s] EXCEPT !.at = "reload"]
<1>1. sc \in Scope /\ disk[sc] \in Disk /\ file \in Canon /\ file.kind = "v2" /\ (~consent => ~FileTurnsOn(file))
  BY <1>0, TypesOf DEF AllFit, Op, Canon, File, OpFits, FileTurnsOn
<1>2. disk' = [disk EXCEPT ![sc] = d]
  BY <1>0 DEF Written, AllFit, TypeOK
<1>3. /\ mine \in Op /\ mine.at = "reload" /\ mine.scope = sc /\ mine.layer = op[s].layer /\ mine.base = op[s].base
      /\ mine.field = op[s].field /\ mine.val = op[s].val
  BY <1>0 DEF Op, Stage
<1> HIDE DEF file
<1>4. d \in Disk /\ d.canon = file /\ d.baks = disk[sc].baks
  BY <1>1 DEF Disk
<1> HIDE DEF d
<1>5. ~Unsaved(d)
  BY <1>1, <1>4 DEF Unsaved
<1> HIDE DEF mine, sc
<1>6. disk' \in [Scope -> Disk] /\ disk'[sc] = d /\ \A x \in Scope \ {sc} : disk'[x] = disk[x]
  BY <1>1, <1>2, <1>4, DiskIs
<1>7. \A x \in Scope : Unsaved(disk'[x]) => Unsaved(disk[x])
  BY <1>5, <1>6
<1>8. DiskFits(disk', consent)
  BY <1>0, <1>1, <1>4, <1>6 DEF AllFit, DiskFits
<1> DEFINE changed == IF disk[sc].canon = NoFile THEN Fields ELSE {f \in Fields : ~Agree(f, LayerOf(disk[sc]), LayerOf(d))}
<1>a. LayerOf(d) = op[s].layer
  BY <1>1, <1>4, LayerOfIs DEF NoFile, file
<1>9. Race(s, mine, changed) /\ changed \in SUBSET Fields
  BY <1>a DEF Written, Overwrites, mine, sc
<1>b. disk[sc].canon = NoFile => changed = Fields
  OBVIOUS
<1>c. disk[sc].canon # NoFile => changed = {f \in Fields : ~Agree(f, LayerOf(disk[sc]), LayerOf(d))}
  OBVIOUS
<1>d. d.legacy = disk[sc].legacy
  BY <1>1 DEF d, Disk
<1> HIDE DEF changed
<1>10. ASSUME NEW t \in Session PROVE OpFits(op'[t], disk', consent)
  <2>1. CASE t = s
    <3>1. op'[t] = mine
      BY <1>3, <1>9, <2>1, RaceIs
    <3> QED
      BY <1>0, <1>3, <1>5, <1>6, <3>1 DEF OpFits
  <2>2. CASE t # s
    <3>1. op'[t] \in Op /\ op[t].scope \in Scope
      BY <1>0, <1>3, <1>9, RaceIs DEF Op
    <3>2. disk[op[t].scope].baks \subseteq disk'[op[t].scope].baks
      BY <1>4, <1>6, <3>1
    <3>4. /\ op'[t].at = op[t].at /\ op'[t].kind = op[t].kind /\ op'[t].scope = op[t].scope
          /\ op'[t].field = op[t].field /\ op'[t].val = op[t].val /\ op'[t].layer = op[t].layer
          /\ op'[t].base = op[t].base /\ op'[t].mig = op[t].mig /\ op[t].raced \subseteq op'[t].raced
          /\ op[t].scope = sc /\ op[t].kind # "whole" /\ op[t].at \in {"write", "rename", "publish"} =>
               changed \subseteq op'[t].raced
      BY <1>3, <1>9, <2>2, RaceIs DEF sc
    <3>5. op[t] \in Op /\ OpFits(op[t], disk, consent) /\ (Unsaved(disk'[op[t].scope]) => Unsaved(disk[op[t].scope]))
      BY <1>0, <1>7, <3>1
    <3>6. CASE op[t].scope # sc
      <4>1. disk'[op[t].scope] = disk[op[t].scope]
        BY <1>6, <3>1, <3>6
      <4> QED
        BY <1>0, <3>1, <3>2, <3>4, <3>5, <4>1, FitsOn
    <3>7. CASE op[t].scope = sc /\ disk[sc].canon = NoFile
      <4>1. op[t].kind # "whole" /\ op[t].at \in {"write", "rename", "publish"} => op'[t].raced = Fields
        BY <1>b, <3>1, <3>4, <3>7 DEF Op
      <4> QED
        BY <1>0, <3>1, <3>2, <3>4, <3>5, <4>1, FitsOn
    <3>8. CASE op[t].scope = sc /\ disk[sc].canon # NoFile
      <4>1. /\ disk[op[t].scope].canon # NoFile /\ disk'[op[t].scope].legacy = disk[op[t].scope].legacy
            /\ op[t].kind # "whole" /\ op[t].at \in {"write", "rename", "publish"} =>
                 {f \in Fields : ~Agree(f, LayerOf(disk[op[t].scope]), LayerOf(disk'[op[t].scope]))} \subseteq op'[t].raced
        BY <1>6, <1>c, <1>d, <3>4, <3>8
      <4> QED
        BY <1>0, <3>1, <3>2, <3>4, <3>5, <4>1, FitsOn
    <3> QED
      BY <3>6, <3>7, <3>8
  <2> QED
    BY <2>1, <2>2
<1>11. op' \in [Session -> Op]
  BY <1>3, <1>9, RaceIs
<1> QED
  BY <1>6, <1>7, <1>8, <1>10, <1>11, DiskStep

\* A restoration puts back what is among the backups, if the place is free.
LEMMA RestoreKeeps == ASSUME SettingsInv, NEW s \in Session, Restore(s) PROVE SettingsInv'
<1>0. AllFit /\ consent \in BOOLEAN /\ \A t \in Session : op[t] \in Op /\ OpFits(op[t], disk, consent)
  BY Parts, TypesOf DEF AllFit, TypeOK
<1> DEFINE sc == op[s].scope
           d == Restored(disk[sc], op[s].mig, op[s].base)
<1>1. /\ op[s].at = "restore" /\ disk' = [disk EXCEPT ![sc] = d]
      /\ IF d = disk[sc] THEN Over(s) ELSE Race(s, NoOp, Fields)
      /\ UNCHANGED <<loaded, ctl, rec, counts, consent>>
  BY DEF Restore
<1>2. /\ sc \in Scope /\ disk[sc] \in Disk /\ op[s].base \in disk[sc].baks /\ op[s].base \in File
      /\ (op[s].mig = "legacy" => op[s].base \in Legacy) /\ (~consent => ~FileTurnsOn(op[s].base))
  BY <1>0, <1>1, TypesOf DEF AllFit, Op, OpFits, Disk
<1>3. /\ d \in Disk /\ d.baks = disk[sc].baks
      /\ d.canon = disk[sc].canon \/ d.canon = op[s].base
  BY <1>2 DEF Restored, Disk, Canon
<1> HIDE DEF d
<1>4. Unsaved(d) => Unsaved(disk[sc])
  BY <1>2, <1>3 DEF Unsaved
<1>5. disk' \in [Scope -> Disk] /\ disk'[sc] = d /\ \A x \in Scope \ {sc} : disk'[x] = disk[x]
  BY <1>1, <1>2, <1>3, DiskIs
<1>6. \A x \in Scope : Unsaved(disk'[x]) => Unsaved(disk[x])
  BY <1>4, <1>5
<1>7. DiskFits(disk', consent)
  BY <1>0, <1>2, <1>3, <1>5 DEF AllFit, DiskFits
<1>8. CASE d = disk[sc]
  <2>1. op' = [op EXCEPT ![s] = NoOp] /\ disk' = disk
    BY <1>0, <1>1, <1>8 DEF Over, AllFit, TypeOK
  <2> QED
    BY <1>0, <1>1, <2>1, NothingIs, OpMoves DEF AllFit, TypeOK, counts
<1>9. CASE d # disk[sc]
  <2>1. Race(s, NoOp, Fields) /\ NoOp \in Op
    BY <1>1, <1>9, NothingIs
  <2> HIDE DEF sc
  <2>2. ASSUME NEW t \in Session PROVE OpFits(op'[t], disk', consent)
    <3>1. CASE t = s
      BY <1>0, <2>1, <3>1, RaceIs, NothingIs
    <3>2. CASE t # s
      <4>1. op'[t] \in Op /\ op[t].scope \in Scope
        BY <1>0, <2>1, RaceIs DEF Op
      <4>2. disk[op[t].scope].baks \subseteq disk'[op[t].scope].baks
        BY <1>3, <1>5, <4>1
      <4>3. disk'[op[t].scope] = disk[op[t].scope] \/ op[t].scope = sc
        BY <1>5, <4>1
      <4>4. /\ op'[t].at = op[t].at /\ op'[t].kind = op[t].kind /\ op'[t].scope = op[t].scope
            /\ op'[t].field = op[t].field /\ op'[t].val = op[t].val /\ op'[t].layer = op[t].layer
            /\ op'[t].base = op[t].base /\ op'[t].mig = op[t].mig /\ op[t].raced \subseteq op'[t].raced
            /\ op[t].scope = sc /\ op[t].kind # "whole" /\ op[t].at \in {"write", "rename", "publish"} =>
                 Fields \subseteq op'[t].raced
        BY <2>1, <3>2, RaceIs DEF sc
      <4>5. op[t] \in Op /\ OpFits(op[t], disk, consent) /\ (Unsaved(disk'[op[t].scope]) => Unsaved(disk[op[t].scope]))
        BY <1>0, <1>6, <4>1
      <4>6. \/ disk'[op[t].scope] = disk[op[t].scope]
            \/ op[t].kind # "whole" /\ op[t].at \in {"write", "rename", "publish"} => op'[t].raced = Fields
        BY <4>1, <4>3, <4>4 DEF Op
      <4> QED
        BY <1>0, <4>1, <4>2, <4>4, <4>5, <4>6, FitsOn
    <3> QED
      BY <3>1, <3>2
  <2>3. op' \in [Session -> Op]
    BY <2>1, RaceIs
  <2> QED
    BY <1>1, <1>5, <1>6, <1>7, <2>2, <2>3, DiskStep
<1> QED
  BY <1>8, <1>9

\* A migration renames its source to a backup: no current file is left, and nothing that was saved is lost.
LEMMA RenamedKeeps ==
  ASSUME SettingsInv, NEW s \in Session, op[s].at = "rename", UNCHANGED <<loaded, ctl, rec, counts, consent>>,
         NEW d \in Disk, disk' = [disk EXCEPT ![op[s].scope] = d], NEW file \in File,
         op' = [op EXCEPT ![s].at = "publish", ![s].base = file],
         d.canon = NoFile, d.baks = disk[op[s].scope].baks \cup {file},
         file \in {disk[op[s].scope].canon, disk[op[s].scope].legacy}, op[s].mig = "legacy" => file \in Legacy,
         file = Source(disk[op[s].scope]), Replaces(op[s], disk[op[s].scope]),
         d.legacy # NoFile => disk[op[s].scope].canon # NoFile /\ d.legacy = disk[op[s].scope].legacy
  PROVE  SettingsInv'
<1>0. AllFit /\ consent \in BOOLEAN /\ \A t \in Session : op[t] \in Op /\ OpFits(op[t], disk, consent)
  BY Parts, TypesOf DEF AllFit, TypeOK
<1> DEFINE sc == op[s].scope
           o == [op[s] EXCEPT !.at = "publish", !.base = file]
<1>1. sc \in Scope /\ disk[sc] \in Disk /\ NoFile.kind = "none"
  BY <1>0, TypesOf DEF AllFit, Op, NoFile
<1>2. disk' \in [Scope -> Disk] /\ disk'[sc] = d /\ \A x \in Scope \ {sc} : disk'[x] = disk[x]
  BY <1>1, DiskIs
<1>3. ~Unsaved(d)
  BY <1>1 DEF Unsaved
<1>4. \A x \in Scope : Unsaved(disk'[x]) => Unsaved(disk[x])
  BY <1>2, <1>3
<1>5. ~FileTurnsOn(NoFile) /\ (~consent => ~FileTurnsOn(file))
  <2>1. \A f \in Legacy : ~FileTurnsOn(f)
    BY <1>1 DEF Legacy, FileTurnsOn
  <2> QED
    BY <1>0, <1>1, <2>1 DEF AllFit, DiskFits, Disk, FileTurnsOn
<1>6. DiskFits(disk', consent)
  BY <1>0, <1>2, <1>5 DEF AllFit, DiskFits
<1>7. op' = [op EXCEPT ![s] = o]
  BY <1>0 DEF AllFit, TypeOK, Op
<1>8. /\ o \in Op /\ o.at = "publish" /\ o.scope = sc /\ o.layer = op[s].layer /\ o.base = file /\ o.mig = op[s].mig
      /\ o.field = op[s].field /\ o.val = op[s].val /\ o.kind = op[s].kind /\ o.raced = op[s].raced
  BY <1>0 DEF Op, Stage, Canon
<1> HIDE DEF o
<1>9. op' \in [Session -> Op] /\ op'[s] = o /\ \A t \in Session \ {s} : op'[t] = op[t]
  BY <1>0, <1>7, <1>8 DEF AllFit, TypeOK
<1>10. ASSUME NEW t \in Session PROVE OpFits(op'[t], disk', consent)
  <2>1. CASE t = s
    <3>a. op[s].kind = "edit" /\ AgreeBut({op[s].field} \cup op[s].raced, LayerOf(disk[op[s].scope]), op[s].layer)
      BY <1>0 DEF OpFits
    <3>b. LayerOf(disk[op[s].scope]) = LayerIn(file)
      BY DEF LayerOf
    <3>1. op[s].kind = "edit" /\ AgreeBut({o.field} \cup o.raced, LayerIn(o.base), o.layer)
      BY <1>8, <3>a, <3>b
    <3>2. ~consent => ~TurnsOn(o.layer) /\ ~FileTurnsOn(o.base) /\ ~(o.field = "enabled" /\ o.val = 1)
      BY <1>0, <1>5, <1>8 DEF OpFits
    <3>3. disk'[o.scope].canon = NoFile /\ ~Unsaved(disk'[o.scope]) /\ o.base \in disk'[o.scope].baks
      BY <1>2, <1>3, <1>8
    <3>4. OpFits(o, disk', consent)
      BY <1>8, <3>1, <3>2, <3>3 DEF OpFits
    <3> QED
      BY <1>9, <2>1, <3>4
  <2>2. CASE t # s
    <3>1. op'[t] = op[t] /\ op[t].scope \in Scope
      BY <1>0, <1>9, <2>2 DEF Op
    <3>2. disk[op[t].scope].baks \subseteq disk'[op[t].scope].baks
      BY <1>2, <3>1
    <3>3. disk'[op[t].scope] = disk[op[t].scope] \/ (op[t].scope = sc /\ disk'[op[t].scope] = d)
      BY <1>2, <3>1
    <3>4. op[t] \in Op /\ OpFits(op[t], disk, consent) /\ (Unsaved(disk'[op[t].scope]) => Unsaved(disk[op[t].scope]))
      BY <1>0, <1>4, <3>1
    <3>a. CASE op[t].scope = sc /\ disk'[op[t].scope] = d
      <4>1. ASSUME op[t].at \in {"write", "rename"}, op[t].kind # "whole", Replaces(op[t], d)
            PROVE  AgreeBut({op[t].field} \cup op[t].raced, LayerOf(d), op[t].layer)
        <5>1. op[t].kind = "edit" /\ disk[op[t].scope].canon # NoFile /\ disk[op[t].scope].legacy # NoFile
          BY <3>a, <4>1 DEF Replaces
        <5>2. op[t].raced = Fields
          BY <3>4, <4>1, <5>1 DEF OpFits
        <5>3. Fields \subseteq {op[t].field} \cup op[t].raced
          BY <5>2
        <5> QED
          BY <5>3, AgreeIs
      <4>2. disk'[op[t].scope].canon = NoFile /\ ~Unsaved(disk'[op[t].scope])
        BY <1>3, <3>a
      <4>3. op[t].at \in {"publish", "restore"} => op[t].base \in disk'[op[t].scope].baks
        BY <3>2, <3>4 DEF OpFits
      <4> QED
        BY <3>1, <3>4, <3>a, <4>1, <4>2, <4>3 DEF OpFits
    <3>b. CASE disk'[op[t].scope] = disk[op[t].scope]
      BY <3>1, <3>4, <3>b DEF OpFits
    <3> QED
      BY <3>3, <3>a, <3>b
  <2> QED
    BY <2>1, <2>2
<1> QED
  BY <1>2, <1>4, <1>6, <1>9, <1>10, DiskStep

\* A rename happens as the migration expects, or the save is dropped.
LEMMA RenameKeeps == ASSUME SettingsInv, NEW s \in Session, Rename(s) PROVE SettingsInv'
<1>0. AllFit /\ op[s] \in Op /\ consent \in BOOLEAN /\ faults \in 0..MaxFaults
  BY Parts, TypesOf DEF AllFit, TypeOK
<1> DEFINE sc == op[s].scope
           x == disk[sc]
<1>1. x \in Disk /\ x.canon \in Canon /\ x.legacy \in Legacy /\ NoFile.kind = "none"
  BY <1>0, TypesOf DEF AllFit, Op, Disk, NoFile
<1>2. op[s].at = "rename" /\ UNCHANGED <<loaded, ctl, rec, counts, consent>>
  BY DEF Rename
<1>3. CASE /\ op[s].mig = "legacy" /\ x.legacy # NoFile /\ x.canon = NoFile
           /\ disk' = [disk EXCEPT ![sc] = Archive([x EXCEPT !.legacy = NoFile], x.legacy)]
           /\ op' = [op EXCEPT ![s].at = "publish", ![s].base = x.legacy]
  <2> DEFINE d == Archive([x EXCEPT !.legacy = NoFile], x.legacy)
  <2>1. x.legacy \in File
    BY <1>1, <1>3 DEF Legacy, File
  <2>2. d \in Disk /\ d.canon = NoFile /\ d.legacy = NoFile /\ d.baks = x.baks \cup {x.legacy}
    BY <1>1, <1>3, <2>1 DEF Archive, Disk, Legacy
  <2>3. disk' = [disk EXCEPT ![sc] = d]
    BY <1>3
  <2>4. x.legacy = Source(x) /\ Replaces(op[s], x)
    BY <1>0, <1>2, <1>3 DEF Source, Replaces, AllFit, OpFits
  <2> HIDE DEF d
  <2> QED
    BY <1>1, <1>2, <1>3, <2>1, <2>2, <2>3, <2>4, RenamedKeeps
<1>4. CASE /\ op[s].mig = "canon" /\ x.canon # NoFile
           /\ disk' = [disk EXCEPT ![sc] = Archive([x EXCEPT !.canon = NoFile], x.canon)]
           /\ op' = [op EXCEPT ![s].at = "publish", ![s].base = x.canon]
  <2> DEFINE d == Archive([x EXCEPT !.canon = NoFile], x.canon)
  <2>1. x.canon \in File
    BY <1>1, <1>4 DEF Canon
  <2>2. d \in Disk /\ d.canon = NoFile /\ d.legacy = x.legacy /\ d.baks = x.baks \cup {x.canon}
    BY <1>1, <2>1 DEF Archive, Disk, Canon
  <2>3. disk' = [disk EXCEPT ![sc] = d]
    BY <1>4
  <2>4. x.canon = Source(x) /\ Replaces(op[s], x)
    BY <1>4 DEF Source, Replaces
  <2> HIDE DEF d
  <2> QED
    BY <1>1, <1>2, <1>4, <2>1, <2>2, <2>3, <2>4, RenamedKeeps
<1>5. CASE Over(s) /\ UNCHANGED disk
  BY <1>0, <1>2, <1>5, NothingIs, OpMoves DEF Over, counts
<1> QED
  BY <1>3, <1>4, <1>5 DEF Rename

-----------------------------------------------------------------------------
(* Loading, and the worker. *)

\* A session is bound to what it reads, and holds exactly that.
LEMMA BindKeeps == ASSUME SettingsInv, NEW s \in Session, Bind(s) PROVE SettingsInv'
<1>0. /\ AllFit /\ consent \in BOOLEAN /\ op[s] \in Op /\ rec[s] \in Rec /\ OpFits(op[s], disk, consent)
      /\ edits \in 0..MaxEdits /\ faults \in 0..MaxFaults
  BY Parts, TypesOf DEF AllFit, TypeOK
<1> DEFINE c == [NoCtl EXCEPT !.config = Effective(OnDisk)]
<1>1. /\ loaded' = [loaded EXCEPT ![s] = Loaded] /\ ctl' = [ctl EXCEPT ![s] = c]
      /\ disk' = disk /\ op' = op /\ rec' = rec /\ edits' = edits /\ faults' = faults /\ consent' = consent
  BY DEF Bind, counts
<1>2. op' = [op EXCEPT ![s] = op[s]] /\ rec' = [rec EXCEPT ![s] = rec[s]]
  BY <1>0, <1>1 DEF AllFit, TypeOK
<1>3. /\ Loaded \in Reading /\ Loaded.layers = OnDisk /\ LoadFits(Loaded, disk, consent)
      /\ Effective(OnDisk) \in Config /\ (~consent => Effective(OnDisk).enabled # 1)
  BY LoadedFits
<1>4. c \in Ctl /\ c.config = Effective(OnDisk) /\ c.staged = NoConfig /\ c.worker = "none"
  BY <1>3, NothingIs DEF NoCtl, Ctl
<1> HIDE DEF c
<1>5. CtlFits(c, consent) /\ Applied(Loaded, c)
  BY <1>3, <1>4, DefaultsAre DEF CtlFits, Applied
<1> QED
  BY <1>0, <1>1, <1>2, <1>3, <1>4, <1>5, SessionStep

\* A session that loads again holds what it read or stages it.
LEMMA ReloadKeeps == ASSUME SettingsInv, NEW s \in Session, Reload(s) PROVE SettingsInv'
<1>0. /\ AllFit /\ consent \in BOOLEAN /\ rec[s] \in Rec /\ ctl[s] \in Ctl /\ CtlFits(ctl[s], consent)
      /\ edits \in 0..MaxEdits /\ faults \in 0..MaxFaults
  BY Parts, TypesOf DEF AllFit, TypeOK
<1>1. /\ op' = [op EXCEPT ![s] = NoOp]
      /\ disk' = disk /\ rec' = rec /\ edits' = edits /\ faults' = faults /\ consent' = consent
  BY DEF Reload, Over, counts
<1>2. NoOp \in Op /\ OpFits(NoOp, disk, consent)
  BY <1>0, NothingIs
<1>3. CASE Loads
  <2> DEFINE c == Updated(ctl[s], Effective(OnDisk))
  <2>1. loaded' = [loaded EXCEPT ![s] = Loaded] /\ ctl' = [ctl EXCEPT ![s] = c]
    BY <1>3 DEF Reload
  <2>2. /\ Loaded \in Reading /\ Loaded.layers = OnDisk /\ LoadFits(Loaded, disk, consent)
        /\ Effective(OnDisk) \in Config /\ (~consent => Effective(OnDisk).enabled # 1)
    BY LoadedFits
  <2>3. c \in Ctl /\ CtlFits(c, consent) /\ Effective(OnDisk) = IF c.staged # NoConfig THEN c.staged ELSE c.config
    BY <1>0, <2>2, UpdatedIs
  <2> HIDE DEF c
  <2>4. Applied(Loaded, c)
    BY <2>2, <2>3 DEF Applied
  <2>5. rec' = [rec EXCEPT ![s] = rec[s]]
    BY <1>0, <1>1 DEF AllFit, TypeOK
  <2> QED
    BY <1>0, <1>1, <1>2, <2>1, <2>2, <2>3, <2>4, <2>5, SessionStep
<1>4. CASE ~Loads
  <2>1. loaded' = loaded /\ ctl' = ctl
    BY <1>4 DEF Reload
  <2> QED
    BY <1>0, <1>1, <1>2, <2>1, OpMoves
<1> QED
  BY <1>3, <1>4

\* A session that dies leaves the files.
LEMMA CrashKeeps == ASSUME SettingsInv, NEW s \in Session, Crash(s) PROVE SettingsInv'
<1>0. AllFit /\ consent \in BOOLEAN /\ edits \in 0..MaxEdits /\ faults \in 0..MaxFaults
  BY Parts DEF AllFit, TypeOK
<1>1. /\ loaded' = [loaded EXCEPT ![s] = NoLoad] /\ ctl' = [ctl EXCEPT ![s] = NoCtl]
      /\ op' = [op EXCEPT ![s] = NoOp] /\ rec' = [rec EXCEPT ![s] = NoRec]
      /\ disk' = disk /\ edits' = edits /\ consent' = consent
  BY DEF Crash
<1>2. faults' \in 0..MaxFaults
  BY <1>0, SettingsAssumption DEF Crash
<1>3. Applied(NoLoad, NoCtl)
  BY NothingIs DEF Applied
<1> QED
  BY <1>0, <1>1, <1>2, <1>3, NothingIs, SessionStep

\* A worker that starts, works and is reconciled keeps what its controller holds, or takes what is staged.
LEMMA WorksKeep == ASSUME SettingsInv, NEW s \in Session, Works(s) PROVE SettingsInv'
<1> DEFINE c == ctl[s]
<1>0. /\ AllFit /\ c \in Ctl /\ rec[s] \in Rec /\ CtlFits(c, consent) /\ Applied(loaded[s], c)
      /\ rec = [rec EXCEPT ![s] = rec[s]]
  BY Parts, TypesOf DEF AllFit, TypeOK
<1>a. ASSUME NEW d \in Ctl, Sets(s, d), UNCHANGED rec, d.config = c.config, d.staged = c.staged,
             d.worker = "ready" => d.conf = Shape(c.config)
      PROVE  SettingsInv'
  <2>1. CtlFits(d, consent) /\ Applied(loaded[s], d) /\ rec' = [rec EXCEPT ![s] = rec[s]]
    BY <1>0, <1>a DEF CtlFits, Applied
  <2> QED
    BY <1>0, <1>a, <2>1, WorkStep
<1>1. ASSUME ReserveStart(s) PROVE SettingsInv'
  <2> DEFINE d == [c EXCEPT !.worker = "reserving", !.conf = Shape(c.config)]
  <2>1. Sets(s, d) /\ UNCHANGED rec
    BY <1>1 DEF ReserveStart
  <2>2. Shape(c.config) \in {0, 1} \X {0, 1}
    BY <1>0 DEF Ctl, Shape, Config, Fields
  <2>3. d \in Ctl /\ d.config = c.config /\ d.staged = c.staged /\ d.worker = "reserving"
    BY <1>0, <2>2 DEF Ctl
  <2> HIDE DEF d
  <2> QED
    BY <1>a, <2>1, <2>3
<1>2. ASSUME Launch(s) PROVE SettingsInv'
  <2> DEFINE d == [c EXCEPT !.worker = IF SameShape(c) THEN "starting" ELSE "none"]
  <2>1. Sets(s, d) /\ UNCHANGED rec
    BY <1>2 DEF Launch
  <2>2. d \in Ctl /\ d.config = c.config /\ d.staged = c.staged /\ d.worker \in {"starting", "none"}
    BY <1>0 DEF Ctl
  <2> HIDE DEF d
  <2> QED
    BY <1>a, <2>1, <2>2
<1>3. ASSUME Started(s) PROVE SettingsInv'
  <2> DEFINE d == [c EXCEPT !.worker = IF SameShape(c) THEN "ready" ELSE "none"]
  <2>1. Sets(s, d) /\ UNCHANGED rec
    BY <1>3 DEF Started
  <2>2. /\ d \in Ctl /\ d.config = c.config /\ d.staged = c.staged /\ d.conf = c.conf
        /\ d.worker = "ready" => SameShape(c)
    BY <1>0 DEF Ctl
  <2> HIDE DEF d
  <2> QED
    BY <1>a, <2>1, <2>2 DEF SameShape
<1>4. ASSUME Dispatch(s) \/ TaskEnds(s) PROVE SettingsInv'
  <2>1. PICK b \in BOOLEAN : Sets(s, [c EXCEPT !.busy = b]) /\ UNCHANGED rec
    BY <1>4 DEF Dispatch, TaskEnds
  <2> DEFINE d == [c EXCEPT !.busy = b]
  <2>2. d \in Ctl /\ d.config = c.config /\ d.staged = c.staged /\ d.conf = c.conf /\ d.worker = c.worker
    BY <1>0 DEF Ctl
  <2>3. Sets(s, d)
    BY <2>1
  <2> HIDE DEF d
  <2> QED
    BY <1>0, <1>a, <2>1, <2>2, <2>3 DEF CtlFits
<1>5. ASSUME Reconcile(s) PROVE SettingsInv'
  <2>1. /\ Sets(s, c) /\ rec' = [rec EXCEPT ![s] = [at |-> "stop", target |-> c.staged]]
        /\ [at |-> "stop", target |-> c.staged] \in Rec
    BY <1>0, <1>5 DEF Reconcile, Rec, Ctl
  <2> QED
    BY <1>0, <2>1, WorkStep
<1>6. ASSUME StopRetained(s) PROVE SettingsInv'
  <2> DEFINE d == [c EXCEPT !.worker = "none"]
             r == [rec[s] EXCEPT !.at = "adopt"]
  <2>1. Sets(s, d) /\ rec' = [rec EXCEPT ![s] = r]
    BY <1>0, <1>6 DEF StopRetained, AllFit, TypeOK, Rec
  <2>2. d \in Ctl /\ d.config = c.config /\ d.staged = c.staged /\ d.worker = "none" /\ r \in Rec
    BY <1>0 DEF Ctl, Rec
  <2> HIDE DEF d, r
  <2>3. CtlFits(d, consent) /\ Applied(loaded[s], d)
    BY <1>0, <2>2 DEF CtlFits, Applied
  <2> QED
    BY <2>1, <2>2, <2>3, WorkStep
<1>7. ASSUME Adopt(s) PROVE SettingsInv'
  <2>1. rec' = [rec EXCEPT ![s] = NoRec] /\ NoRec \in Rec
    BY <1>7, NothingIs DEF Adopt
  <2>2. CASE Sets(s, c)
    BY <1>0, <2>1, <2>2, WorkStep
  <2>3. CASE Sets(s, [c EXCEPT !.config = Latest(s), !.staged = NoConfig]) /\ c.worker = "none" /\ Staged(s)
    <3> DEFINE d == [c EXCEPT !.config = Latest(s), !.staged = NoConfig]
    <3>1. c.staged \in Config /\ Latest(s) = c.staged /\ c.staged # NoConfig
      BY <1>0, <2>3 DEF Ctl, Staged, Latest
    <3>2. d \in Ctl /\ d.config = c.staged /\ d.staged = NoConfig /\ d.worker = "none"
      BY <1>0, <2>3, <3>1 DEF Ctl
    <3>3. Sets(s, d)
      BY <2>3
    <3> HIDE DEF d
    <3>4. CtlFits(d, consent) /\ Applied(loaded[s], d)
      BY <1>0, <3>1, <3>2, DefaultsAre DEF CtlFits, Applied
    <3> QED
      BY <2>1, <3>2, <3>3, <3>4, WorkStep
  <2> QED
    BY <1>7, <2>2, <2>3 DEF Adopt
<1> QED
  BY <1>1, <1>2, <1>3, <1>4, <1>5, <1>6, <1>7 DEF Works

-----------------------------------------------------------------------------
(* The invariant. *)

\* The files a session first finds are older than any consent but that in a current file.
LEMMA SettingsInit == Init => SettingsInv
<1> SUFFICES ASSUME Init PROVE SettingsInv
  OBVIOUS
<1>1. disk \in [Scope -> [canon : Canon, legacy : Legacy, baks : {{}}]]
  BY SettingsAssumption DEF Init
<1>2. disk \in [Scope -> Disk]
  BY <1>1 DEF Disk
<1>3. TypeOK
  BY <1>2, NothingIs, SettingsAssumption DEF Init, TypeOK, Disk
<1>4. DiskFits(disk, consent)
  <2> SUFFICES ASSUME NEW sc \in Scope, FileTurnsOn(disk[sc].canon) PROVE consent
    BY DEF DiskFits
  <2>1. disk[sc].canon.kind = "v2" /\ disk[sc].canon \in Canon
    BY <1>1 DEF FileTurnsOn
  <2>2. disk[sc].canon.layer \in Layer
    BY <2>1 DEF Canon, File, NoFile
  <2>3. Overlay(disk[sc].canon.layer, Defaults)["enabled"] = 1
    BY <2>2, OverlayIs, DefaultsAre DEF FileTurnsOn, TurnsOn
  <2> QED
    BY <2>1, <2>3 DEF Init
<1>5. ASSUME NEW s \in Session
      PROVE  /\ LoadFits(loaded[s], disk, consent) /\ CtlFits(ctl[s], consent)
             /\ Applied(loaded[s], ctl[s]) /\ OpFits(op[s], disk, consent)
  <2>1. consent \in BOOLEAN /\ loaded[s] = NoLoad /\ ctl[s] = NoCtl /\ op[s] = NoOp
    BY <1>3 DEF Init, TypeOK
  <2> QED
    BY <2>1, NothingIs DEF Applied
<1> QED
  BY <1>3, <1>4, <1>5, Parts DEF AllFit

\* Every step keeps the invariant.
LEMMA SettingsStep == SettingsInv /\ [Next]_vars => SettingsInv'
<1> SUFFICES ASSUME SettingsInv, [Next]_vars PROVE SettingsInv'
  OBVIOUS
<1>1. CASE UNCHANGED vars
  <2>1. AllFit' <=> AllFit
    BY <1>1 DEF vars, AllFit, TypeOK
  <2>2. (SettingsInv <=> AllFit) /\ (SettingsInv' <=> AllFit')
    BY Parts, PTL
  <2> QED
    BY <2>1, <2>2
<1>2. ASSUME NEW s \in Session, Bind(s) PROVE SettingsInv'
  BY <1>2, BindKeeps
<1>3. ASSUME NEW s \in Session, Saves(s) PROVE SettingsInv'
  <2>1. CASE Write(s)
    BY <2>1, WrittenKeeps DEF Write
  <2>2. CASE Publish(s)
    BY <2>2, WrittenKeeps DEF Publish
  <2> QED
    BY <1>3, <2>1, <2>2, RereadKeeps, RenameKeeps, PublishFailsKeeps, RestoreKeeps, ImportKeeps, ReloadKeeps DEF Saves
<1>4. ASSUME NEW s \in Session, Works(s) PROVE SettingsInv'
  BY <1>4, WorksKeep
<1>5. ASSUME NEW s \in Session, AskReload(s) PROVE SettingsInv'
  <2> DEFINE o == [NoOp EXCEPT !.at = "reload"]
  <2>1. AllFit /\ Asked(s) /\ consent' = consent /\ op[s] = NoOp /\ op' = [op EXCEPT ![s].at = "reload"]
    BY <1>5, Parts, AskedIs DEF AskReload, Goto
  <2>2. op' = [op EXCEPT ![s] = o]
    BY <2>1 DEF AllFit, TypeOK, Op
  <2>3. /\ o \in Op /\ o.at = "reload" /\ o.kind = "none" /\ o.layer = Empty /\ o.base = NoFile /\ o.val = 0
    BY NothingIs DEF NoOp, Op, Stage
  <2> HIDE DEF o
  <2>4. OpFits(o, disk, consent)
    BY <2>3, EmptyIs DEF OpFits, FileTurnsOn, NoFile
  <2> QED
    BY <2>1, <2>2, <2>3, <2>4, AskedIs, OpStep
<1>6. ASSUME NEW s \in Session, Crash(s) PROVE SettingsInv'
  BY <1>6, CrashKeeps
<1>7. ASSUME NEW s \in Session, NEW sc \in Scope, Asks(s, sc) PROVE SettingsInv'
  BY <1>7, AsksKeep
<1> QED
  BY <1>1, <1>2, <1>3, <1>4, <1>5, <1>6, <1>7 DEF Next

\* The inductive invariant: workers keep their shape, what is loaded is applied or staged, nothing turns Pair on
\* without consent, an older file without a backup is known to every session, and a save that no other has overtaken
\* agrees with the file.
THEOREM SettingsInvariant == Spec => []SettingsInv
<1> QED
  BY SettingsInit, SettingsStep, PTL DEF Spec

\* Every variable has its type, in every state.
THEOREM SettingsTyped == Spec => []TypeOK
<1>1. SettingsInv => TypeOK
  BY DEF SettingsInv
<1> QED
  BY <1>1, SettingsInvariant, PTL

\* Every session acts on what it last read, and every worker on what it was started with, or the change waits:
\* for any number of sessions, edits, imports, reloads and deaths.
THEOREM SettingsAreInForceHolds == Spec => []SettingsAreInForce
<1>1. SettingsInv => SettingsAreInForce
  BY DEF SettingsInv, SettingsAreInForce
<1> QED
  BY <1>1, SettingsInvariant, PTL

\* Pair is on only where a human turned it on in a current file.
THEOREM ConsentIsExplicitHolds == Spec => []ConsentIsExplicit
<1>1. SettingsInv => ConsentIsExplicit
  <2> SUFFICES ASSUME SettingsInv, ~consent PROVE ConsentIsExplicit
    BY DEF ConsentIsExplicit
  <2>1. AllFit
    BY Parts
  <2>2. ASSUME NEW s \in Session PROVE ctl[s].config.enabled # 1
    BY <2>1 DEF AllFit, CtlFits
  <2>3. ASSUME NEW sc \in Scope PROVE Overlay(LayerOf(disk[sc]), Defaults).enabled # 1
    <3>1. LayerOf(disk[sc]) \in Layer /\ ~TurnsOn(LayerOf(disk[sc]))
      BY <2>1, TypesOf, LayerOfIs DEF AllFit, DiskFits
    <3>2. Overlay(LayerOf(disk[sc]), Defaults)["enabled"] =
            IF "enabled" \in DOMAIN LayerOf(disk[sc]) THEN LayerOf(disk[sc])["enabled"] ELSE 0
      BY <3>1, OverlayIs, DefaultsAre
    <3> QED
      BY <3>1, <3>2 DEF TurnsOn
  <2> QED
    BY <2>2, <2>3 DEF ConsentIsExplicit
<1> QED
  BY <1>1, SettingsInvariant, PTL

-----------------------------------------------------------------------------
(* What is on disk. *)

\* Which steps write to the files, and how.
LEMMA Writers ==
  ASSUME SettingsInv, [Next]_vars, disk' # disk
  PROVE  \E s \in Session :
           \/ Write(s) \/ Publish(s)
           \/ Rename(s) \/ Restore(s)
<1>1. CASE UNCHANGED vars
  BY <1>1 DEF vars
<1>2. CASE Next
  <2>1. PICK s \in Session :
          Bind(s) \/ Saves(s) \/ Works(s) \/ AskReload(s) \/ Crash(s) \/ \E sc \in Scope : Asks(s, sc)
    BY <1>2 DEF Next
  <2>2. ~Bind(s) /\ ~AskReload(s) /\ ~Crash(s)
    BY DEF Bind, AskReload, Asked, Crash
  <2>3. ~Works(s)
    BY DEF Works, ReserveStart, Launch, Started, Dispatch, TaskEnds, Reconcile, StopRetained, Adopt, Sets
  <2>4. ~\E sc \in Scope : Asks(s, sc)
    BY DEF Asks, Edit, EditJson, Reset, Preview, Migrate, SaveWhole, Asked
  <2>5. ~Reread(s) /\ ~PublishFails(s) /\ ~ImportSave(s) /\ ~Reload(s)
    BY DEF Reread, PublishFails, ImportSave, Reload
  <2> QED
    BY <2>1, <2>2, <2>3, <2>4, <2>5 DEF Saves
<1> QED
  BY <1>1, <1>2

\* A step that writes a current file over another: what it does to the older files of its scope.
LEMMA WrittenKeepsOlder ==
  ASSUME SettingsInv, NEW s \in Session, op[s].at \in {"write", "publish"}, Written(s), NEW sc \in Scope,
         NEW file \in Older(disk[sc]) \ Older(disk'[sc])
  PROVE  file = disk[sc].canon /\ Published(s) /\ op[s].kind = "whole" /\ op[s].scope = sc
<1>0. AllFit /\ op[s] \in Op /\ OpFits(op[s], disk, consent) /\ \A x \in Scope : disk[x] \in Disk
  BY Parts, TypesOf DEF AllFit
<1>1. op[s].scope \in Scope /\ [op[s] EXCEPT !.at = "reload"] \in Op
  BY <1>0 DEF Op, Stage
<1>2. Published(s)
  <2>1. [op[s] EXCEPT !.at = "reload"].at = "reload" /\ Overwrites(s) \in SUBSET Fields
    BY <1>0 DEF Op, Overwrites
  <2> QED
    BY <1>1, <2>1, RaceIs DEF Written, Published
<1>3. sc = op[s].scope
  BY <1>0 DEF Written, AllFit, TypeOK
<1>4. disk'[sc] = [disk[sc] EXCEPT !.canon = [kind |-> "v2", layer |-> op[s].layer]]
  BY <1>0, <1>1, <1>3 DEF Written, AllFit, TypeOK
<1>5. disk'[sc].baks = disk[sc].baks /\ disk'[sc].legacy = disk[sc].legacy
  BY <1>0, <1>4 DEF Disk
<1>6. file = disk[sc].canon /\ file \notin disk[sc].baks /\ file.kind \in {"v1", "handoff"}
  BY <1>5 DEF Older
<1>7. op[s].kind \in {"edit", "import", "whole"}
  BY <1>0 DEF Op, OpFits
<1>8. Unsaved(disk[sc])
  BY <1>6 DEF Unsaved
<1> QED
  BY <1>0, <1>2, <1>3, <1>6, <1>7, <1>8 DEF OpFits

\* What an older version of Pair left is kept by every step, in its place or as a backup, but for the file a whole
\* layer is saved over.
LEMMA OlderKept ==
  ASSUME SettingsInv, [Next]_vars, NEW sc \in Scope, NEW file \in Older(disk[sc]) \ Older(disk'[sc])
  PROVE  file = disk[sc].canon /\ \E s \in Session : Published(s) /\ op[s].kind = "whole" /\ op[s].scope = sc
<1>0. AllFit /\ \A x \in Scope : disk[x] \in Disk
  BY Parts, TypesOf DEF AllFit
<1>1. disk' # disk
  OBVIOUS
<1>2. PICK s \in Session : Write(s) \/ Publish(s) \/ Rename(s) \/ Restore(s)
  BY <1>1, Writers
<1>3. op[s] \in Op /\ op[s].scope \in Scope /\ disk[op[s].scope] \in Disk /\ OpFits(op[s], disk, consent)
  BY <1>0, TypesOf DEF AllFit, Op
<1>4. CASE Write(s) \/ Publish(s)
  BY <1>4, WrittenKeepsOlder DEF Write, Publish
<1>5. ASSUME NEW d, disk' = [disk EXCEPT ![op[s].scope] = d], Older(disk[op[s].scope]) \subseteq Older(d)
      PROVE  FALSE
  <2>1. disk'[sc] = IF sc = op[s].scope THEN d ELSE disk[sc]
    BY <1>0, <1>5 DEF AllFit, TypeOK
  <2> QED
    BY <1>5, <2>1
<1>6. ~Rename(s)
  <2> SUFFICES ASSUME Rename(s) PROVE FALSE
    OBVIOUS
  <2> DEFINE x == disk[op[s].scope]
  <2>1. CASE disk' = [disk EXCEPT ![op[s].scope] = Archive([x EXCEPT !.legacy = NoFile], x.legacy)]
    <3>1. Older(x) \subseteq Older(Archive([x EXCEPT !.legacy = NoFile], x.legacy))
      BY <1>3 DEF Older, Archive, Disk
    <3> QED
      BY <1>5, <2>1, <3>1
  <2>2. CASE disk' = [disk EXCEPT ![op[s].scope] = Archive([x EXCEPT !.canon = NoFile], x.canon)]
    <3>1. Older(x) \subseteq Older(Archive([x EXCEPT !.canon = NoFile], x.canon))
      BY <1>3 DEF Older, Archive, Disk
    <3> QED
      BY <1>5, <2>2, <3>1
  <2> QED
    BY <1>1, <2>1, <2>2 DEF Rename
<1>7. ~Restore(s)
  <2> SUFFICES ASSUME Restore(s) PROVE FALSE
    OBVIOUS
  <2> DEFINE x == disk[op[s].scope]
  <2>1. disk' = [disk EXCEPT ![op[s].scope] = Restored(x, op[s].mig, op[s].base)]
    BY DEF Restore
  <2>2. NoFile.kind = "none"
    BY DEF NoFile
  <2>3. Older(x) \subseteq Older(Restored(x, op[s].mig, op[s].base))
    BY <1>3, <2>2 DEF Older, Restored, Disk
  <2> QED
    BY <1>5, <2>1, <2>3
<1> QED
  BY <1>2, <1>4, <1>6, <1>7

\* A session publishes by a write or by the publication of a migration, and no other step does.
LEMMA PublishedIs ==
  ASSUME SettingsInv, [Next]_vars, NEW s \in Session, Published(s) PROVE Write(s) \/ Publish(s)
<1>0. AllFit /\ \A t \in Session : op[t] \in Op
  BY Parts, TypesOf DEF AllFit
<1>1. op[s].at \in {"write", "publish"} /\ op'[s].at = "reload"
  BY DEF Published
<1>2. CASE UNCHANGED vars
  BY <1>1, <1>2 DEF vars
<1>3. ASSUME NEW t \in Session, t # s, NEW o, op' = [op EXCEPT ![t] = o] PROVE FALSE
  BY <1>0, <1>1, <1>3 DEF AllFit, TypeOK
<1>4. ASSUME NEW t \in Session, t # s, NEW mine \in Op, NEW changed \in SUBSET Fields, Race(t, mine, changed) PROVE FALSE
  BY <1>1, <1>4, RaceIs
<1>5. ASSUME op' = op PROVE FALSE
  BY <1>1, <1>5
<1>6. ASSUME NEW t \in Session,
             Bind(t) \/ Saves(t) \/ Works(t) \/ AskReload(t) \/ Crash(t) \/ \E sc \in Scope : Asks(t, sc)
      PROVE  t = s
  <2> SUFFICES ASSUME t # s PROVE FALSE
    OBVIOUS
  <2>1. ~Bind(t) /\ ~Works(t)
    BY <1>5 DEF Bind, Works, ReserveStart, Launch, Started, Dispatch, TaskEnds, Reconcile, StopRetained, Adopt, Sets
  <2>2. ~Crash(t) /\ ~Reload(t)
    BY <1>3 DEF Crash, Reload, Over
  <2>3. ~AskReload(t) /\ ~PublishFails(t)
    <3>1. ASSUME NEW a, Goto(t, a) PROVE FALSE
      <4>1. op' = [op EXCEPT ![t] = [op[t] EXCEPT !.at = a]]
        BY <1>0, <3>1 DEF Goto, AllFit, TypeOK
      <4> QED
        BY <1>3, <4>1
    <3> QED
      BY <3>1 DEF AskReload, PublishFails
  <2>4. ~\E sc \in Scope : Asks(t, sc)
    BY <1>3 DEF Asks, Edit, EditJson, Reset, Preview, Migrate, SaveWhole
  <2>5. ~Reread(t) /\ ~ImportSave(t)
    <3>1. op' # [op EXCEPT ![t] = op'[t]]
      BY <1>3
    <3> QED
      BY <1>0, <3>1 DEF Reread, ImportSave, Over, Goto, AllFit, TypeOK
  <2>6. ~Write(t) /\ ~Publish(t) /\ ~Restore(t)
    <3>1. [op[t] EXCEPT !.at = "reload"] \in Op /\ NoOp \in Op
      BY <1>0, NothingIs DEF Op, Stage
    <3>2. ~Over(t)
      BY <1>3 DEF Over
    <3>3. Overwrites(t) \in SUBSET Fields /\ Fields \in SUBSET Fields
      BY DEF Overwrites
    <3> QED
      BY <1>4, <3>1, <3>2, <3>3 DEF Write, Publish, Restore, Written
  <2>7. ~Rename(t)
    <3>1. op' # [op EXCEPT ![t] = op'[t]]
      BY <1>3
    <3> QED
      BY <1>0, <3>1 DEF Rename, Over, AllFit, TypeOK
  <2> QED
    BY <1>6, <2>1, <2>2, <2>3, <2>4, <2>5, <2>6, <2>7 DEF Saves
<1>7. CASE Next
  <2>1. Bind(s) \/ Saves(s) \/ Works(s) \/ AskReload(s) \/ Crash(s) \/ \E sc \in Scope : Asks(s, sc)
    BY <1>6, <1>7 DEF Next
  <2>2. ~Bind(s) /\ ~Works(s)
    BY <1>5 DEF Bind, Works, ReserveStart, Launch, Started, Dispatch, TaskEnds, Reconcile, StopRetained, Adopt, Sets
  <2>3. ~AskReload(s) /\ ~\E sc \in Scope : Asks(s, sc)
    <3>1. ~Asked(s)
      BY <1>1, AskedIs, NothingIs
    <3> QED
      BY <3>1 DEF AskReload, Asks, Edit, EditJson, Reset, Preview, Migrate, SaveWhole
  <2>4. ~Crash(s)
    BY <1>0, <1>1, NothingIs DEF Crash, AllFit, TypeOK
  <2>5. ~Reread(s) /\ ~ImportSave(s) /\ ~Reload(s) /\ ~Rename(s) /\ ~Restore(s)
    BY <1>1 DEF Reread, ImportSave, Reload, Rename, Restore
  <2>6. ~PublishFails(s)
    BY <1>0, <1>1 DEF PublishFails, Goto, AllFit, TypeOK, Op
  <2> QED
    BY <2>1, <2>2, <2>3, <2>4, <2>5, <2>6 DEF Saves
<1> QED
  BY <1>2, <1>7

\* What Pair writes on disk is lost only where a save could not know of it: an older file stays, in its place or as
\* a backup, but for the one a whole layer is saved over; and of another field a save undoes only what others
\* saved since it read, or, if it is of a whole layer, since its session loaded.
THEOREM FilesKeepTheirsHolds == Spec => FilesKeepTheirs
<1> DEFINE OlderStep == \A sc \in Scope : \A file \in Older(disk[sc]) \ Older(disk'[sc]) :
             file = disk[sc].canon /\ \E s \in Session : Published(s) /\ op[s].kind = "whole" /\ op[s].scope = sc
           EditStep == \A s \in Session : Published(s) => KeepsOthers(s)
<1>1. SettingsInv /\ [Next]_vars => [OlderStep]_vars
  BY OlderKept
<1>2. SettingsInv /\ [Next]_vars => [EditStep]_vars
  <2> SUFFICES ASSUME SettingsInv, [Next]_vars, NEW s \in Session, Published(s) PROVE KeepsOthers(s)
    OBVIOUS
  <2> DEFINE o == op[s]
             d == disk[o.scope]
  <2>1. AllFit /\ o \in Op /\ OpFits(o, disk, consent) /\ o.at \in {"write", "publish"}
    BY Parts, TypesOf DEF AllFit, Published
  <2>2. Written(s)
    BY PublishedIs DEF Write, Publish
  <2>3. o.scope \in Scope /\ d \in Disk
    BY <2>1, TypesOf DEF AllFit, Op
  <2>4. disk'[o.scope].canon.layer = o.layer
    BY <2>1, <2>2, <2>3 DEF Written, AllFit, TypeOK, Disk
  <2>5. CASE o.kind = "whole"
    <3>1. o.at = "write" /\ AgreeBut({o.field}, o.base.layer, o.layer)
      BY <2>1, <2>5 DEF OpFits
    <3>2. \A f \in Fields : Agree(f, o.base.layer, o.layer) /\ ~ChangedSince(s, f) => Agree(f, BeforeSave(s), o.layer)
      BY <2>5 DEF ChangedSince, Agree
    <3> QED
      BY <2>4, <3>1, <3>2 DEF KeepsOthers, AgreeBut
  <2>6. CASE o.kind # "whole"
    <3>1. d.canon # NoFile \/ o.at = "publish" => AgreeBut({o.field} \cup o.raced, BeforeSave(s), o.layer)
      BY <2>1, <2>6 DEF OpFits, BeforeSave, Replaces
    <3>2. \A f \in Fields : ChangedSince(s, f) <=> f \in o.raced
      BY <2>6 DEF ChangedSince
    <3> QED
      BY <2>4, <3>1, <3>2 DEF KeepsOthers, AgreeBut
  <2> QED
    BY <2>5, <2>6
<1>3. Spec => [][OlderStep]_vars
  BY <1>1, SettingsInvariant, PTL DEF Spec
<1>4. Spec => [][EditStep]_vars
  BY <1>2, SettingsInvariant, PTL DEF Spec
<1> QED
  BY <1>3, <1>4 DEF FilesKeepTheirs, OlderFilesKept, EditsKeepOthers

-----------------------------------------------------------------------------
(* Records: the invariant.  A task carries enough of its past for every    *)
(* handler to leave a state the contract accepts: which report waits for   *)
(* Main and is about where the task is (InvAwaits), which was not yet        *)
(* published (InvPending), what was decided (InvDecided) and which step    *)
(* each decision ended (InvEnded).  It holds of the state in memory and of *)
(* the one on disk, and InvWork says how the two differ.                   *)

\* The types.  k holds the counters: what has been handed out so far.
StepType   == [id : 1..MaxIds, text : {1, 2}]
ReportType == [id : 1..MaxReports, kind : Kinds, attempt : Nat, plan : Nat, step : 1..MaxIds,
               complete : BOOLEAN, inspected : BOOLEAN]
Reported   == ReportType \cup {NoReport}
VerdictType == [action : Actions, attempt : Nat, at : Nat, moved : BOOLEAN]
NoticeType == [task : Nat, attempt : Nat, status : {"pending", "resolved", "superseded"}]
Maps(S)    == UNION {[D -> S] : D \in SUBSET (1..MaxReports)}
BookType   == [step : Nat, used : Nat, kept : Nat]
TaskType   == [id : 1..MaxTasks, status : Statuses, prev : Statuses \cup {"none"}, steps : Seq(StepType),
               index : Nat, plan : Nat, attempt : Nat, pending : Reported, report : Reported,
               decisions : Maps(VerdictType), last : [report : Nat, action : Actions \cup {"none"}],
               fix : Nat, revisions : Nat, stepRevisions : Nat,
               replans : [index : Nat, count : Nat], repairs : BookType]
StateType  == [task : TaskType \cup {NoTask}, history : Seq(1..MaxTasks), notices : Maps(NoticeType)]
CountType  == [tasks : 0..MaxTasks, attempts : Nat, reports : 0..MaxReports, events : 0..MaxEvents]

\* A task waits for Main, now or once its pause ends; the report is about where the task is.
AwaitsMain(t) == t.status \in Waiting \/ (t.status = "paused" /\ t.prev \in Waiting)
AwaitsAs(t)   == IF t.status = "paused" THEN t.prev ELSE t.status
IsOf(r, t) == /\ r.attempt = t.attempt /\ r.plan = t.plan /\ r.step = t.steps[t.index].id
              /\ FinalOnly => r.kind # "checkpoint"
              /\ r.kind = "final_review" => FinalOnly \/ t.index = Len(t.steps)

\* Numbers are handed out once.
InvIds(t, k) ==
  /\ t.index \in 1..Len(t.steps) /\ t.id <= k.tasks /\ t.attempt <= k.attempts
  /\ \A r \in {t.report, t.pending} \ {NoReport} : r.id <= k.reports /\ r.attempt <= k.attempts
  /\ \A r \in DOMAIN t.decisions : r <= k.reports
\* While a task waits for Main its report is the last one, and is decided only if a fix could not continue.
InvAwaits(t) ==
  /\ AwaitsMain(t) => /\ t.report # NoReport /\ t.pending = NoReport /\ AwaitsAs(t) = StatusFor(t.report.kind)
                      /\ t.report.id \notin DOMAIN t.decisions => IsOf(t.report, t)
                      /\ t.report.id \in DOMAIN t.decisions => t.decisions[t.report.id].action = "fixed"
  /\ t.prev \in Waiting => t.status = "paused" \/ t.status \in Terminal
  /\ t.report # NoReport /\ t.report.attempt = t.attempt => t.report.plan = t.plan /\ (AwaitsMain(t) \/ t.status \in Terminal)
\* A report not yet published is of the attempt the task is at, and nobody knows it.
InvPending(t) ==
  t.pending # NoReport => /\ t.status \in {"awaiting_settle", "paused", "interrupted", "cancelled"}
                          /\ t.pending.id \notin DOMAIN t.decisions /\ t.pending.id # t.report.id
                          /\ IsOf(t.pending, t)
\* What was decided on the report retained, and last.
InvDecided(t) ==
  /\ t.report # NoReport => DecisionAgrees(t, t.report, FALSE)
  /\ t.last.report # 0 => t.last.report \in DOMAIN t.decisions /\ t.decisions[t.last.report].action = t.last.action
  /\ t.fix # 0 => t.fix = t.report.id /\ (AwaitsMain(t) \/ t.status \in Terminal)
\* Each step behind the current one was ended by one decision, and no other.
Behind(t, i) == i < t.index \/ (t.status = "completed" /\ i = t.index)
InvEnded(t) ==
  /\ t.status = "completed" /\ ~FinalOnly => t.index = Len(t.steps)
  /\ ~FinalOnly => \A i \in Nat \ {0} : IF Behind(t, i) THEN \E r \in DOMAIN t.decisions : EndedAt(t, i) = {r}
                                                         ELSE EndedAt(t, i) = {}
\* The steps are kept apart, and the report retained is about one of them unless a revise replaced it.
InvSteps(t) ==
  /\ \A i, j \in DOMAIN t.steps : t.steps[i].id = t.steps[j].id => i = j
  /\ t.report # NoReport => t.report.step \in StepIds(t) \/ StepReplaced(t)
\* The last entry of the repairs of a step is added to no more than are retained.
InvBooks(t) ==
  /\ t.replans.index \in 1..t.index /\ t.replans.count <= MaxReplans
  /\ t.repairs.used <= AutoRepairs /\ t.repairs.kept <= t.repairs.used /\ t.repairs.kept <= RepairsKept + 1
TaskInv(t, k) ==
  InvIds(t, k) /\ InvAwaits(t) /\ InvPending(t) /\ InvDecided(t) /\ InvEnded(t) /\ InvSteps(t) /\ InvBooks(t)
InvNotices(m, k) ==
  /\ \A id \in DOMAIN m.notices : id <= k.reports
  /\ NoticesAgree(m)
  /\ m.task # NoTask => m.task.pending = NoReport \/ m.task.pending.id \notin DOMAIN m.notices
StateInv(m, k) ==
  /\ m \in StateType /\ Len(m.history) <= HistoryKept
  /\ m.task # NoTask => TaskInv(m.task, k)
  /\ InvNotices(m, k)
\* What runs was saved; what was saved is allowed.
InvWork ==
  /\ worker \in {"live", "error", "stopped"} /\ work \in Nat
  /\ work # 0 => mem = saved /\ mem.task # NoTask /\ mem.task.status = "activating" /\ mem.task.attempt = work
  /\ mem.task.status = "running" => mem = saved
  /\ mem.task.status = "activating" /\ work = 0 => ~Contract(mem)
  /\ Contract(saved)
RecordsInv == n \in CountType /\ StateInv(mem, n) /\ StateInv(saved, n) /\ InvWork

-----------------------------------------------------------------------------
(* Maps, and the fields a step of a task leaves alone. *)

\* Maps, and the map with one more entry.
LEMMA MapFacts ==
  ASSUME NEW S, NEW f \in Maps(S)
  PROVE  /\ DOMAIN f \subseteq 1..MaxReports /\ f = [x \in DOMAIN f |-> f[x]]
         /\ \A x \in DOMAIN f : f[x] \in S /\ x \in Nat /\ x # 0
BY RecordsAssumption DEF Maps

LEMMA MapIs ==
  ASSUME NEW S, NEW f, DOMAIN f \subseteq 1..MaxReports, f = [x \in DOMAIN f |-> f[x]], \A x \in DOMAIN f : f[x] \in S
  PROVE  f \in Maps(S)
<1>1. f \in [DOMAIN f -> S]
  BY Zenon
<1> QED
  BY <1>1 DEF Maps

LEMMA AddingFacts ==
  ASSUME NEW S, NEW f \in Maps(S), NEW id \in 1..MaxReports, NEW e \in S
  PROVE  /\ Adding(f, id, e) \in Maps(S) /\ DOMAIN Adding(f, id, e) = DOMAIN f \cup {id}
         /\ Adding(f, id, e)[id] = e /\ \A x \in DOMAIN f : x # id => Adding(f, id, e)[x] = f[x]
<1>1. /\ DOMAIN Adding(f, id, e) = DOMAIN f \cup {id} /\ Adding(f, id, e)[id] = e
      /\ \A x \in DOMAIN f : x # id => Adding(f, id, e)[x] = f[x]
      /\ Adding(f, id, e) = [x \in DOMAIN Adding(f, id, e) |-> Adding(f, id, e)[x]]
  BY DEF Adding
<1>2. Adding(f, id, e) \in Maps(S)
  BY <1>1, MapFacts, MapIs
<1> QED
  BY <1>1, <1>2

LEMMA NoEntriesIs == ASSUME NEW S PROVE NoEntries \in Maps(S) /\ DOMAIN NoEntries = {}
<1>1. NoEntries = [x \in {} |-> 0] /\ DOMAIN NoEntries = {}
  BY DEF NoEntries
<1>2. NoEntries \in [{} -> S]
  BY <1>1
<1> QED
  BY <1>1, <1>2 DEF Maps

\* u differs from t in its status, what it was before a pause and the report not yet published.
Alike(t, u) == /\ u.id = t.id /\ u.steps = t.steps /\ u.index = t.index /\ u.plan = t.plan /\ u.attempt = t.attempt
               /\ u.report = t.report /\ u.decisions = t.decisions /\ u.last = t.last /\ u.fix = t.fix
               /\ u.replans = t.replans /\ u.repairs = t.repairs

\* The types of what a task holds.
LEMMA TaskFacts ==
  ASSUME NEW t \in TaskType
  PROVE  /\ t.id \in 1..MaxTasks /\ t.status \in Statuses /\ t.prev \in Statuses \cup {"none"}
         /\ t.steps \in Seq(StepType) /\ t.index \in Nat /\ t.plan \in Nat /\ t.attempt \in Nat
         /\ t.pending \in Reported /\ t.report \in Reported /\ t.decisions \in Maps(VerdictType)
         /\ t.last \in [report : Nat, action : Actions \cup {"none"}] /\ t.fix \in Nat
         /\ t.revisions \in Nat /\ t.stepRevisions \in Nat
         /\ t.replans \in [index : Nat, count : Nat] /\ t.repairs \in BookType
         /\ t # NoTask /\ t.id # 0
BY RecordsAssumption DEF TaskType, NoTask

\* A task with another status, or another report to publish, is still a task.
LEMMA SetStatus ==
  ASSUME NEW t \in TaskType, NEW s \in Statuses, NEW u, u = [t EXCEPT !.status = s]
  PROVE  u \in TaskType /\ u.status = s /\ u.prev = t.prev /\ u.pending = t.pending /\ Alike(t, u)
BY DEF TaskType, Alike

LEMMA SetPending ==
  ASSUME NEW t \in TaskType, NEW s \in Statuses, NEW r \in Reported, NEW u, u = [t EXCEPT !.pending = r, !.status = s]
  PROVE  u \in TaskType /\ u.status = s /\ u.prev = t.prev /\ u.pending = r /\ Alike(t, u)
BY DEF TaskType, Alike

\* A step that leaves what was reported, decided and planned alone.
LEMMA StatusMoves ==
  ASSUME NEW t \in TaskType, NEW u \in TaskType, NEW k, TaskInv(t, k), Alike(t, u), u.pending = t.pending,
         u.status = "completed" <=> t.status = "completed",
         AwaitsMain(u) => AwaitsMain(t) /\ AwaitsAs(u) = AwaitsAs(t),
         AwaitsMain(t) => AwaitsMain(u) \/ u.status \in Terminal,
         t.status \in Terminal => u.status \in Terminal,
         t.pending # NoReport => u.status \in {"awaiting_settle", "paused", "interrupted", "cancelled"},
         u.prev \in Waiting => u.status = "paused" \/ u.status \in Terminal
  PROVE  TaskInv(u, k)
<1> USE DEF Alike
<1>1. InvIds(u, k)
  BY DEF TaskInv, InvIds
<1>2. InvAwaits(u)
  BY DEF TaskInv, InvAwaits, IsOf
<1>3. InvPending(u)
  BY DEF TaskInv, InvPending, IsOf
<1>4. InvDecided(u)
  BY DEF TaskInv, InvDecided, DecisionAgrees
<1>5. InvEnded(u)
  BY DEF TaskInv, InvEnded, EndedAt, Behind
<1>6. InvSteps(u) /\ InvBooks(u)
  BY DEF TaskInv, InvSteps, InvBooks, StepIds, StepReplaced
<1> QED
  BY <1>1, <1>2, <1>3, <1>4, <1>5, <1>6 DEF TaskInv

\* What was handed out stays handed out.
Later(k, l) == k.tasks <= l.tasks /\ k.attempts <= l.attempts /\ k.reports <= l.reports

\* The numbers handed out only grow: what held of a task, and of a state, under fewer still holds.
LEMMA LaterTask ==
  ASSUME NEW t \in TaskType, NEW k \in CountType, NEW l \in CountType, Later(k, l), TaskInv(t, k)
  PROVE  TaskInv(t, l)
<1>1. InvIds(t, l)
  <2>1. /\ t.id \in Nat /\ t.attempt \in Nat /\ \A r \in DOMAIN t.decisions : r \in Nat
        /\ \A r \in {t.report, t.pending} \ {NoReport} : r.id \in Nat /\ r.attempt \in Nat
    BY TaskFacts, MapFacts DEF Reported, ReportType
  <2>2. k.tasks \in Nat /\ k.attempts \in Nat /\ k.reports \in Nat /\ l.tasks \in Nat /\ l.attempts \in Nat /\ l.reports \in Nat
    BY DEF CountType
  <2> QED
    BY <2>1, <2>2 DEF TaskInv, InvIds, Later
<1> QED
  BY <1>1 DEF TaskInv

\* A new attempt: no report is of it yet.
LEMMA RotateMoves ==
  ASSUME NEW t \in TaskType, NEW k \in CountType, NEW l \in CountType, Later(k, l), l.attempts = k.attempts + 1,
         NEW u \in TaskType, u.id = t.id, u.steps = t.steps, u.index = t.index, u.report = t.report,
         u.decisions = t.decisions, u.last = t.last, u.fix = 0, u.replans = t.replans, u.repairs = t.repairs,
         u.prev \notin Waiting, u.pending = NoReport, u.attempt = l.attempts, u.status = "activating",
         InvIds(t, k), InvDecided(t), InvEnded(t), InvSteps(t), InvBooks(t), t.status # "completed"
  PROVE  TaskInv(u, l)
<1>0. /\ t.id \in Nat /\ t.attempt \in Nat /\ \A r \in DOMAIN t.decisions : r \in Nat
      /\ \A r \in {t.report, t.pending} \ {NoReport} : r.id \in Nat /\ r.attempt \in Nat
  BY TaskFacts, MapFacts DEF Reported, ReportType
<1>k. k.tasks \in Nat /\ k.attempts \in Nat /\ k.reports \in Nat /\ l.tasks \in Nat /\ l.attempts \in Nat /\ l.reports \in Nat
  BY DEF CountType
<1>1. InvIds(u, l)
  BY <1>0, <1>k DEF InvIds, Later
<1>2. InvAwaits(u)
  <2>1. ~AwaitsMain(u)
    BY DEF AwaitsMain, Waiting
  <2>2. u.report # NoReport => u.report.attempt # u.attempt
    BY <1>0, <1>k DEF InvIds
  <2> QED
    BY <2>1, <2>2 DEF InvAwaits
<1>3. InvPending(u)
  BY DEF InvPending
<1>4. InvDecided(u)
  BY DEF InvDecided, DecisionAgrees
<1>5. InvEnded(u)
  BY DEF InvEnded, EndedAt, Behind
<1>6. InvSteps(u) /\ InvBooks(u)
  BY DEF InvSteps, InvBooks, StepIds, StepReplaced
<1> QED
  BY <1>1, <1>2, <1>3, <1>4, <1>5, <1>6 DEF TaskInv

-----------------------------------------------------------------------------
(* The state around a task, and saving it. *)

\* The types of what a state holds.
LEMMA StateFacts ==
  ASSUME NEW m \in StateType
  PROVE  /\ m.task \in TaskType \cup {NoTask} /\ m.history \in Seq(1..MaxTasks) /\ m.notices \in Maps(NoticeType)
         /\ \A t \in TaskType \cup {NoTask}, h \in Seq(1..MaxTasks), f \in Maps(NoticeType) :
              [m EXCEPT !.task = t, !.history = h, !.notices = f] \in StateType
         /\ \A t \in TaskType \cup {NoTask} :
              LET w == [m EXCEPT !.task = t] IN
              w \in StateType /\ w.task = t /\ w.history = m.history /\ w.notices = m.notices
         /\ \A f \in Maps(NoticeType) :
              LET w == [m EXCEPT !.notices = f] IN
              w \in StateType /\ w.task = m.task /\ w.history = m.history /\ w.notices = f
BY DEF StateType

LEMMA CountFacts ==
  ASSUME NEW k \in CountType
  PROVE  k.tasks \in Nat /\ k.attempts \in Nat /\ k.reports \in Nat /\ k.events \in Nat
BY RecordsAssumption DEF CountType

LEMMA LaterState ==
  ASSUME NEW m, NEW k \in CountType, NEW l \in CountType, Later(k, l), StateInv(m, k)
  PROVE  StateInv(m, l)
<1>1. m \in StateType /\ m.task # NoTask => m.task \in TaskType
  BY StateFacts DEF StateInv
<1>2. m.task # NoTask => TaskInv(m.task, l)
  BY <1>1, LaterTask DEF StateInv
<1>3. InvNotices(m, l)
  <2>0. m.notices \in Maps(NoticeType)
    BY StateFacts DEF StateInv
  <2>1. \A id \in DOMAIN m.notices : id \in Nat
    BY <2>0, MapFacts
  <2> QED
    BY <2>1, CountFacts DEF StateInv, InvNotices, Later
<1> QED
  BY <1>2, <1>3 DEF StateInv

\* The notices are those there were, but for their status; the task is the same one.
LEMMA NoticesMove ==
  ASSUME NEW m \in StateType, NEW w \in StateType, NEW k \in CountType, NEW l \in CountType, Later(k, l),
         InvNotices(m, k), m.task # NoTask, w.task # NoTask, w.task.id = m.task.id,
         DOMAIN w.notices \subseteq DOMAIN m.notices,
         \A id \in DOMAIN w.notices : w.notices[id].task = m.notices[id].task /\ w.notices[id].attempt = m.notices[id].attempt,
         w.task.report.id = m.task.report.id, w.task.report.id # 0 => w.task.report.attempt = m.task.report.attempt,
         w.task.pending = NoReport \/ w.task.pending = m.task.pending \/ w.task.pending.id > k.reports,
         \A id \in DOMAIN w.task.decisions :
           \/ id \in DOMAIN m.task.decisions /\ w.task.decisions[id] = m.task.decisions[id]
           \/ id = m.task.report.id /\ id # 0 /\ w.task.decisions[id].attempt = m.task.report.attempt
  PROVE  InvNotices(w, l)
<1>0. m.notices \in Maps(NoticeType)
  BY StateFacts
<1>1. \A id \in DOMAIN m.notices : id \in Nat /\ id # 0 /\ id <= k.reports /\ id <= l.reports
  BY <1>0, MapFacts, CountFacts DEF InvNotices, Later
<1>2. w.task.pending = NoReport \/ w.task.pending.id \notin DOMAIN m.notices
  <2>1. w.task.pending \in Reported
    BY StateFacts, TaskFacts
  <2>2. w.task.pending # NoReport => w.task.pending.id \in Nat
    BY <2>1 DEF Reported, ReportType
  <2> QED
    BY <1>1, <2>2, CountFacts DEF InvNotices
<1>3. ASSUME NEW id \in DOMAIN w.notices
      PROVE  /\ id \in {w.task.report.id, w.task.pending.id} =>
                  LET r == IF w.task.report.id = id THEN w.task.report ELSE w.task.pending IN
                  w.notices[id].task = w.task.id /\ w.notices[id].attempt = r.attempt
             /\ id \in DOMAIN w.task.decisions =>
                  /\ w.notices[id].task = w.task.id
                  /\ w.task.decisions[id].action # "cancel" => w.notices[id].attempt = w.task.decisions[id].attempt
  <2>1. id \in DOMAIN m.notices /\ id # 0 /\ m.task.id # 0
    BY <1>1, StateFacts, TaskFacts
  <2>2. w.task.pending.id # id
    BY <1>2, <2>1 DEF NoReport
  <2>3. id = m.task.report.id => m.notices[id].task = m.task.id /\ m.notices[id].attempt = m.task.report.attempt
    BY <2>1 DEF InvNotices, NoticesAgree
  <2>4. id \in DOMAIN m.task.decisions =>
          /\ m.notices[id].task = m.task.id
          /\ m.task.decisions[id].action # "cancel" => m.notices[id].attempt = m.task.decisions[id].attempt
    BY <2>1 DEF InvNotices, NoticesAgree
  <2> QED
    BY <2>1, <2>2, <2>3, <2>4
<1>4. NoticesAgree(w)
  BY <1>3 DEF NoticesAgree
<1> QED
  BY <1>1, <1>2, <1>4 DEF InvNotices

\* The same notices about the same report of the same task.
LEMMA SameNotices ==
  ASSUME NEW m, NEW k \in CountType, StateInv(m, k), m.task # NoTask, NEW u \in TaskType, NEW l \in CountType, Later(k, l),
         TaskInv(u, l), u.id = m.task.id, u.decisions = m.task.decisions,
         u.report.id = m.task.report.id, u.report.id # 0 => u.report.attempt = m.task.report.attempt,
         u.pending = NoReport \/ u.pending = m.task.pending \/ u.pending.id > k.reports
  PROVE  StateInv([m EXCEPT !.task = u], l)
<1> DEFINE w == [m EXCEPT !.task = u]
<1>1. m \in StateType /\ w \in StateType /\ w.task = u /\ w.history = m.history /\ w.notices = m.notices
  BY StateFacts DEF StateInv
<1>2. u # NoTask
  BY TaskFacts
<1>3. InvNotices(w, l)
  BY <1>1, <1>2, NoticesMove DEF StateInv
<1> QED
  BY <1>1, <1>3 DEF StateInv

LEMMA StatusKeepsState ==
  ASSUME NEW m, NEW k \in CountType, StateInv(m, k), m.task # NoTask, NEW u \in TaskType, NEW l \in CountType, Later(k, l),
         TaskInv(u, k), Alike(m.task, u), u.pending = m.task.pending
  PROVE  StateInv([m EXCEPT !.task = u], l)
BY SameNotices, LaterTask DEF Alike

\* Every way a transaction ends: the state is saved, or memory alone has changed.
LEMMA Moves ==
  ASSUME RecordsInv, NEW m, mem' = m, saved' = saved \/ (saved' = m /\ Contract(m)),
         n' \in CountType, Later(n, n'), StateInv(m, n'), work' = 0,
         worker' \in {"live", "error", "stopped"}, m.task.status \notin {"activating", "running"}
  PROVE  RecordsInv'
<1>1. StateInv(mem, n)' /\ StateInv(saved, n)'
  <2>1. StateInv(saved, n')
    BY LaterState DEF RecordsInv
  <2> QED
    BY <2>1
<1>2. InvWork'
  BY DEF RecordsInv, InvWork
<1> QED
  BY <1>1, <1>2 DEF RecordsInv

LEMMA ActivatesMoves ==
  ASSUME RecordsInv, NEW m, Activates(m), n' \in CountType, Later(n, n'), StateInv(m, n'),
         m.task # NoTask, m.task.status = "activating", m.task.attempt # 0
  PROVE  RecordsInv'
<1>1. StateInv(mem, n)' /\ StateInv(saved, n)'
  <2>1. StateInv(saved, n')
    BY LaterState DEF RecordsInv
  <2> QED
    BY <2>1 DEF Activates, Stored
<1>2. m.task.attempt \in Nat
  BY StateFacts, TaskFacts DEF StateInv
<1>3. InvWork'
  BY <1>2 DEF RecordsInv, InvWork, Activates, Stored
<1> QED
  BY <1>1, <1>3 DEF RecordsInv

\* What an action starts from.
LEMMA MemFacts ==
  ASSUME RecordsInv
  PROVE  /\ n \in CountType /\ Later(n, n) /\ StateInv(mem, n) /\ mem \in StateType /\ InvNotices(mem, n)
         /\ worker \in {"live", "error", "stopped"}
         /\ mem.task = NoTask \/ (mem.task \in TaskType /\ TaskInv(mem.task, n))
         /\ mem.task.status # "activating" => work = 0
         /\ NoTask.status = "completed" /\ NoTask.id = 0
<1>1. n \in CountType /\ StateInv(mem, n) /\ InvWork
  BY DEF RecordsInv
<1>2. Later(n, n)
  BY <1>1, CountFacts DEF Later
<1>3. mem \in StateType /\ InvNotices(mem, n) /\ (mem.task # NoTask => TaskInv(mem.task, n))
  BY <1>1 DEF StateInv
<1>4. mem.task = NoTask \/ mem.task \in TaskType
  BY <1>3, StateFacts
<1>5. NoTask.status = "completed" /\ NoTask.id = 0
  BY DEF NoTask
<1> QED
  BY <1>1, <1>2, <1>3, <1>4, <1>5 DEF InvWork

\* Counting an attempt, a report or an event.
LEMMA Counted ==
  ASSUME n \in CountType, NEW what \in {"tasks", "attempts", "reports", "events"}, Count(what),
         what = "tasks" => n.tasks < MaxTasks, what = "reports" => n.reports < MaxReports,
         what = "events" => n.events < MaxEvents
  PROVE  /\ n' \in CountType /\ Later(n, n')
         /\ n'.attempts = IF what = "attempts" THEN n.attempts + 1 ELSE n.attempts
         /\ n'.reports = IF what = "reports" THEN n.reports + 1 ELSE n.reports
         /\ n'.tasks = IF what = "tasks" THEN n.tasks + 1 ELSE n.tasks
<1>1. n' = [n EXCEPT ![what] = @ + 1]
  BY DEF Count
<1>2. CASE what = "tasks"
  BY <1>1, <1>2, RecordsAssumption DEF CountType, Later
<1>3. CASE what = "attempts"
  BY <1>1, <1>3, RecordsAssumption DEF CountType, Later
<1>4. CASE what = "reports"
  BY <1>1, <1>4, RecordsAssumption DEF CountType, Later
<1>5. CASE what = "events"
  BY <1>1, <1>5, RecordsAssumption DEF CountType, Later
<1> QED
  BY <1>2, <1>3, <1>4, <1>5

-----------------------------------------------------------------------------
(* Steps that change how a task is held, and nothing else of it. *)

LEMMA StoredMoves ==
  ASSUME RecordsInv, NEW m, Stored(m), n' \in CountType, Later(n, n'), StateInv(m, n'), work' = 0,
         worker' \in {"live", "error", "stopped"}, m.task.status \notin {"activating", "running"}
  PROVE  RecordsInv'
BY Moves DEF Stored

LEMMA ControlMoves ==
  ASSUME RecordsInv, NEW m, ControlStored(m), n' \in CountType, Later(n, n'), StateInv(m, n'),
         m.task.status \notin {"activating", "running"}
  PROVE  RecordsInv'
<1>1. worker' \in {"live", "error", "stopped"} /\ work' = 0 /\ Stored(m)
  BY MemFacts DEF ControlStored
<1> QED
  BY <1>1, StoredMoves

\* interruptActive and recordInterruption.
LEMMA InterruptedState ==
  ASSUME NEW m, NEW k \in CountType, NEW l \in CountType, Later(k, l), StateInv(m, k)
  PROVE  LET w == [m EXCEPT !.task = Interrupted(m.task)] IN
         StateInv(w, l) /\ w.task.status \notin {"activating", "running"}
<1> DEFINE u == Interrupted(m.task)
<1>1. m \in StateType /\ m.task \in TaskType \cup {NoTask}
  BY StateFacts DEF StateInv
<1>2. CASE m.task.status \notin Unwaiting
  <2>1. u = m.task
    BY <1>2 DEF Interrupted
  <2>2. [m EXCEPT !.task = u] = m
    BY <1>1, <2>1 DEF StateType
  <2>3. u.status \notin {"activating", "running"}
    BY <1>2, <2>1 DEF Unwaiting
  <2>4. [m EXCEPT !.task = u].task = u
    BY <1>1, <2>1, <2>2
  <2> QED
    BY <2>1, <2>2, <2>3, <2>4, LaterState
<1>3. CASE m.task.status \in Unwaiting
  <2>0. m.task # NoTask
    BY <1>3 DEF NoTask, Unwaiting
  <2>1. m.task \in TaskType /\ TaskInv(m.task, k)
    BY <1>1, <2>0 DEF StateInv
  <2>2. u \in TaskType /\ u.status = "interrupted" /\ u.prev = m.task.prev /\ u.pending = m.task.pending /\ Alike(m.task, u)
    BY <1>3, <2>1, SetStatus DEF Interrupted, Statuses, Unwaiting
  <2>3. TaskInv(u, k)
    BY <1>3, <2>1, <2>2, StatusMoves DEF AwaitsMain, Unwaiting, Waiting, Terminal, TaskInv, InvAwaits
  <2>4. StateInv([m EXCEPT !.task = u], l)
    BY <2>0, <2>1, <2>2, <2>3, StatusKeepsState
  <2>5. [m EXCEPT !.task = u].task = u
    BY <1>1, <2>2, StateFacts
  <2> QED
    BY <2>2, <2>4, <2>5
<1> QED
  BY <1>2, <1>3

LEMMA GrantStep == ASSUME RecordsInv, Grant PROVE RecordsInv'
<1> DEFINE t == mem.task
           u == [t EXCEPT !.status = "running"]
           m == WithTask(u)
<1>1. n' = n /\ work' = 0 /\ t.status = "activating" /\ worker' \in {"live", "error", "stopped"}
  BY MemFacts DEF Grant, WorkCurrent
<1>2. t \in TaskType /\ TaskInv(t, n) /\ t # NoTask
  BY <1>1, MemFacts, TaskFacts
<1>3. u \in TaskType /\ u.status = "running" /\ u.prev = t.prev /\ u.pending = t.pending /\ Alike(t, u)
  BY <1>2, SetStatus DEF Statuses, Unwaiting
<1>4. TaskInv(u, n)
  BY <1>1, <1>2, <1>3, StatusMoves DEF AwaitsMain, Waiting, Terminal, TaskInv, InvAwaits, InvPending
<1>5. StateInv(m, n)
  BY <1>2, <1>3, <1>4, MemFacts, StatusKeepsState DEF WithTask
<1>6. m.task = u /\ m \in StateType
  BY <1>3, MemFacts, StateFacts DEF WithTask
<1>7. CASE Contract(m)
  <2>1. mem' = m /\ saved' = m /\ Contract(m)
    BY <1>7 DEF Grant, Stored
  <2>2. InvWork'
    BY <1>1, <1>3, <1>6, <2>1 DEF InvWork
  <2> QED
    BY <1>1, <1>5, <2>1, <2>2 DEF RecordsInv
<1>8. CASE ~Contract(m)
  <2>1. mem' = WithTask(Interrupted(m.task)) /\ saved' = saved
    BY <1>8 DEF Grant
  <2>2. WithTask(Interrupted(m.task)) = [m EXCEPT !.task = Interrupted(m.task)]
    BY <1>6, MemFacts DEF WithTask, StateType
  <2>3. StateInv(mem', n) /\ mem'.task.status \notin {"activating", "running"}
    BY <1>5, <2>1, <2>2, MemFacts, InterruptedState
  <2> QED
    BY <1>1, <2>1, <2>3, MemFacts, Moves
<1> QED
  BY <1>7, <1>8

LEMMA HoldsAtLimitStep == ASSUME RecordsInv, HoldsAtLimit PROVE RecordsInv'
<1> DEFINE t == mem.task
           u == [t EXCEPT !.status = "paused"]
           m == WithTask(u)
<1>1. n' = n /\ work' = 0 /\ t.status = "activating" /\ worker' \in {"live", "error", "stopped"} /\ Stored(m)
  BY MemFacts DEF HoldsAtLimit, WorkCurrent
<1>2. t \in TaskType /\ TaskInv(t, n) /\ t # NoTask
  BY <1>1, MemFacts, TaskFacts
<1>3. u \in TaskType /\ u.status = "paused" /\ u.prev = t.prev /\ u.pending = t.pending /\ Alike(t, u)
  BY <1>2, SetStatus DEF Statuses
<1>4. TaskInv(u, n)
  <2>1. t.prev \notin Waiting
    BY <1>1, <1>2 DEF TaskInv, InvAwaits, Terminal
  <2> QED
    BY <1>1, <1>2, <1>3, <2>1, StatusMoves DEF AwaitsMain, Waiting, Terminal
<1>5. StateInv(m, n)
  BY <1>2, <1>3, <1>4, MemFacts, StatusKeepsState DEF WithTask
<1>6. m.task = u
  BY <1>3, MemFacts, StateFacts DEF WithTask
<1> QED
  BY <1>1, <1>3, <1>5, <1>6, MemFacts, StoredMoves

LEMMA InterruptMoves ==
  ASSUME RecordsInv, Stored(WithTask(Interrupted(mem.task))), work' = 0, worker' \in {"live", "error", "stopped"},
         n' \in CountType, Later(n, n')
  PROVE  RecordsInv'
<1>1. LET w == WithTask(Interrupted(mem.task)) IN StateInv(w, n') /\ w.task.status \notin {"activating", "running"}
  BY MemFacts, InterruptedState DEF WithTask
<1> QED
  BY <1>1, StoredMoves

LEMMA FailsStep == ASSUME RecordsInv, ActivationFails \/ ProcessEnds \/ Stop PROVE RecordsInv'
<1>1. CASE ActivationFails
  BY <1>1, MemFacts, InterruptMoves DEF ActivationFails
<1>2. CASE ProcessEnds
  <2>1. n' \in CountType /\ Later(n, n')
    BY <1>2, MemFacts, Counted DEF ProcessEnds, Event
  <2> QED
    BY <1>2, <2>1, InterruptMoves DEF ProcessEnds
<1>3. CASE Stop
  <2>1. n' \in CountType /\ Later(n, n')
    BY <1>3, MemFacts, Counted DEF Stop, Event
  <2> QED
    BY <1>3, <2>1, InterruptMoves DEF Stop
<1> QED
  BY <1>1, <1>2, <1>3

LEMMA UnfrozenStep == ASSUME RecordsInv, Unfrozen PROVE RecordsInv'
<1> DEFINE t == mem.task
           u == [t EXCEPT !.status = "interrupted"]
           m == WithTask(u)
<1>1. n' = n /\ t.status = "awaiting_settle" /\ ControlStored(m)
  BY DEF Unfrozen, Freezing
<1>2. t \in TaskType /\ TaskInv(t, n) /\ t # NoTask
  BY <1>1, MemFacts, TaskFacts
<1>3. u \in TaskType /\ u.status = "interrupted" /\ u.prev = t.prev /\ u.pending = t.pending /\ Alike(t, u)
  BY <1>2, SetStatus DEF Statuses, Unwaiting
<1>4. TaskInv(u, n)
  <2>1. t.prev \notin Waiting
    BY <1>1, <1>2 DEF TaskInv, InvAwaits, Terminal
  <2> QED
    BY <1>1, <1>2, <1>3, <2>1, StatusMoves DEF AwaitsMain, Waiting, Terminal
<1>5. StateInv(m, n)
  BY <1>2, <1>3, <1>4, MemFacts, StatusKeepsState DEF WithTask
<1>6. m.task = u
  BY <1>3, MemFacts, StateFacts DEF WithTask
<1> QED
  BY <1>1, <1>3, <1>5, <1>6, MemFacts, ControlMoves

LEMMA PauseStep == ASSUME RecordsInv, Pause PROVE RecordsInv'
<1> DEFINE t == mem.task
           p == IF t.status = "paused" THEN t.prev ELSE t.status
           u == [t EXCEPT !.prev = p, !.status = "paused"]
           m == WithTask(u)
<1>0. m = WithTask([mem.task EXCEPT !.prev = IF mem.task.status = "paused" THEN @ ELSE mem.task.status, !.status = "paused"])
  OBVIOUS
<1>1. n' \in CountType /\ Later(n, n') /\ t.status \notin Terminal /\ ControlStored(m)
  BY <1>0, MemFacts, Counted DEF Pause, Event, Active
<1>2. t \in TaskType /\ TaskInv(t, n) /\ t # NoTask
  BY <1>1, MemFacts, TaskFacts DEF Terminal
<1>3. u \in TaskType /\ u.status = "paused" /\ u.prev = p /\ u.pending = t.pending /\ Alike(t, u)
  <2>a. "paused" \in Statuses
    BY DEF Statuses
  <2>b. t.prev \in Statuses \cup {"none"} /\ t.status \in Statuses
    BY <1>2, TaskFacts
  <2>1. p \in Statuses \cup {"none"} /\ "paused" \in Statuses
    BY <2>a, <2>b
  <2>2. t \in TaskType
    BY <1>2
  <2> HIDE DEF p, t
  <2> QED
    BY <2>1, <2>2 DEF TaskType, Alike
<1>4. TaskInv(u, n)
  <2>1. AwaitsMain(u) <=> AwaitsMain(t)
    BY <1>3 DEF AwaitsMain, Waiting
  <2>2. AwaitsMain(t) => AwaitsAs(u) = AwaitsAs(t)
    BY <1>3 DEF AwaitsAs
  <2> QED
    BY <1>1, <1>2, <1>3, <2>1, <2>2, StatusMoves DEF Terminal
<1>5. StateInv(m, n')
  BY <1>1, <1>2, <1>3, <1>4, MemFacts, StatusKeepsState DEF WithTask
<1>6. m.task = u
  <2> HIDE DEF u
  <2> QED
    BY <1>3, MemFacts, StateFacts DEF WithTask
<1> QED
  BY <1>1, <1>3, <1>5, <1>6, ControlMoves

\* cancelUnlocked, and resume: the notices of the task are settled, those of others left.
LEMMA SettledNotices ==
  ASSUME NEW m \in StateType, NEW w, w = Notices(m, "resolved") \/ w = Superseded(m) \/ w = Resolved(m)
  PROVE  /\ w \in StateType /\ w.task = m.task /\ w.history = m.history /\ DOMAIN w.notices = DOMAIN m.notices
         /\ \A id \in DOMAIN m.notices : w.notices[id].task = m.notices[id].task /\ w.notices[id].attempt = m.notices[id].attempt
<1>1. m.notices \in Maps(NoticeType)
  BY StateFacts
<1> DEFINE New(f) ==
             /\ w = [m EXCEPT !.notices = f] /\ DOMAIN f = DOMAIN m.notices /\ f = [id \in DOMAIN f |-> f[id]]
             /\ \A id \in DOMAIN f :
                  \/ f[id] = m.notices[id]
                  \/ f[id] = [m.notices[id] EXCEPT !.status = "resolved"]
                  \/ f[id] = [m.notices[id] EXCEPT !.status = "superseded"]
<1>2. \E f : New(f)
  <2>1. CASE w = Notices(m, "resolved")
    <3> DEFINE f == [id \in DOMAIN m.notices |->
          IF m.notices[id].task = m.task.id THEN [m.notices[id] EXCEPT !.status = "resolved"] ELSE m.notices[id]]
    <3>1. w = [m EXCEPT !.notices = f]
      BY <2>1 DEF Notices
    <3>2. New(f)
      BY <3>1
    <3> QED
      BY <3>2
  <2>2. CASE w = Superseded(m)
    <3> DEFINE f == [id \in DOMAIN m.notices |->
          IF m.notices[id].task = m.task.id /\ m.notices[id].status # "resolved"
          THEN [m.notices[id] EXCEPT !.status = "superseded"] ELSE m.notices[id]]
    <3>1. w = [m EXCEPT !.notices = f]
      BY <2>2 DEF Superseded
    <3>2. New(f)
      BY <3>1
    <3> QED
      BY <3>2
  <2>3. CASE w = Resolved(m)
    <3> DEFINE f == [id \in DOMAIN m.notices |->
          IF id = m.task.report.id THEN [m.notices[id] EXCEPT !.status = "resolved"] ELSE m.notices[id]]
    <3>1. w = [m EXCEPT !.notices = f]
      BY <2>3 DEF Resolved
    <3>2. New(f)
      BY <3>1
    <3> QED
      BY <3>2
  <2> QED
    BY <2>1, <2>2, <2>3
<1>p. PICK f : New(f)
  BY <1>2
<1>3. ASSUME NEW id \in DOMAIN f
      PROVE  f[id] \in NoticeType /\ f[id].task = m.notices[id].task /\ f[id].attempt = m.notices[id].attempt
  <2>1. m.notices[id] \in NoticeType
    BY <1>1, <1>p, MapFacts
  <2>2. \A e \in NoticeType : \A s \in {"resolved", "superseded"} :
          LET d == [e EXCEPT !.status = s] IN d \in NoticeType /\ d.task = e.task /\ d.attempt = e.attempt
    BY DEF NoticeType
  <2> QED
    BY <1>p, <2>1, <2>2
<1>4. f \in Maps(NoticeType)
  BY <1>1, <1>p, <1>3, MapFacts, MapIs
<1> QED
  BY <1>p, <1>3, <1>4, StateFacts

\* The same, with a task that has moved: its report, and what was decided on it, agree with the notice.
Follows(t, u, k) ==
  /\ u.id = t.id
  /\ \A id \in DOMAIN u.decisions :
       \/ id \in DOMAIN t.decisions /\ u.decisions[id] = t.decisions[id]
       \/ id = t.report.id /\ id # 0 /\ u.decisions[id].attempt = t.report.attempt
  /\ u.report.id = t.report.id /\ (u.report.id # 0 => u.report.attempt = t.report.attempt)
  /\ u.pending = NoReport \/ u.pending = t.pending \/ u.pending.id > k.reports

LEMMA MovedState ==
  ASSUME NEW m, NEW k \in CountType, StateInv(m, k), m.task # NoTask, NEW u \in TaskType, NEW l \in CountType, Later(k, l),
         TaskInv(u, l), Follows(m.task, u, k),
         NEW z \in StateType, z.task = u, z.notices = m.notices, Len(z.history) <= HistoryKept,
         NEW w, w = z \/ w = Notices(z, "resolved") \/ w = Superseded(z) \/ w = Resolved(z)
  PROVE  StateInv(w, l) /\ w.task = u
<1>1. /\ w \in StateType /\ w.task = u /\ w.history = z.history /\ DOMAIN w.notices = DOMAIN m.notices
      /\ \A id \in DOMAIN m.notices : w.notices[id].task = m.notices[id].task /\ w.notices[id].attempt = m.notices[id].attempt
  BY SettledNotices
<1>2. u # NoTask /\ m \in StateType
  BY TaskFacts DEF StateInv
<1>3. InvNotices(w, l)
  BY <1>1, <1>2, NoticesMove DEF StateInv, Follows
<1> QED
  BY <1>1, <1>3, <1>2 DEF StateInv

\* A whole state with another status, or with its notices settled.
LEMMA SettledState ==
  ASSUME RecordsInv, mem.task # NoTask, NEW u \in TaskType, n' \in CountType, Later(n, n'), TaskInv(u, n'), Follows(mem.task, u, n)
  PROVE  /\ StateInv(WithTask(u), n') /\ WithTask(u).task = u
         /\ StateInv(Resolved(WithTask(u)), n') /\ Resolved(WithTask(u)).task = u
         /\ StateInv(Notices(WithTask(u), "resolved"), n') /\ Notices(WithTask(u), "resolved").task = u
<1>1. /\ WithTask(u) \in StateType /\ WithTask(u).task = u /\ WithTask(u).notices = mem.notices
      /\ Len(WithTask(u).history) <= HistoryKept
  BY MemFacts, StateFacts DEF WithTask, StateInv
<1> QED
  BY <1>1, MemFacts, MovedState

\* A cancelled task, whatever it was.
LEMMA CancelledTask ==
  ASSUME NEW t \in TaskType, NEW k, TaskInv(t, k), t.status \notin Terminal, NEW u, u = [t EXCEPT !.status = "cancelled"]
  PROVE  u \in TaskType /\ TaskInv(u, k) /\ Alike(t, u) /\ u.pending = t.pending /\ u.status = "cancelled"
<1>1. u \in TaskType /\ u.status = "cancelled" /\ u.prev = t.prev /\ u.pending = t.pending /\ Alike(t, u)
  BY SetStatus DEF Statuses, Terminal
<1> QED
  BY <1>1, StatusMoves DEF AwaitsMain, Waiting, Terminal

LEMMA CancelStep == ASSUME RecordsInv, Cancel PROVE RecordsInv'
<1> DEFINE t == mem.task
           u == [t EXCEPT !.status = "cancelled"]
           w == Notices(WithTask(u), "resolved")
<1>1. n' \in CountType /\ Later(n, n') /\ t.status \notin Terminal /\ ControlStored(w)
  BY MemFacts, Counted DEF Cancel, Event, Active, Cancelled
<1>2. t \in TaskType /\ TaskInv(t, n) /\ t # NoTask
  BY <1>1, MemFacts, TaskFacts DEF Terminal
<1>3. u \in TaskType /\ TaskInv(u, n) /\ Alike(t, u) /\ u.pending = t.pending /\ u.status = "cancelled"
  <2> HIDE DEF t
  <2> QED
    BY <1>1, <1>2, CancelledTask
<1>5. StateInv(w, n') /\ w.task = u
  <2>1. TaskInv(u, n')
    BY <1>1, <1>3, MemFacts, LaterTask
  <2> HIDE DEF u
  <2>2. Follows(t, u, n)
    BY <1>3 DEF Alike, Follows
  <2> QED
    BY <1>1, <1>2, <1>3, <2>1, <2>2, SettledState
<1> QED
  BY <1>1, <1>3, <1>5, ControlMoves

\* finalizeReport, acceptReport: the report
LEMMA ReportFacts ==
  ASSUME NEW r \in Reported, r # NoReport
  PROVE  r \in ReportType /\ r.id \in 1..MaxReports /\ r.kind \in Kinds /\ r.attempt \in Nat /\ r.plan \in Nat /\ r.id # 0
BY DEF Reported, ReportType

LEMMA AcceptStep ==
  ASSUME RecordsInv, NEW kind \in Kinds, NEW complete \in BOOLEAN, Accept(kind, complete)
  PROVE  RecordsInv'
<1> DEFINE t == mem.task
           r == [id |-> n.reports + 1, kind |-> kind, attempt |-> t.attempt, plan |-> t.plan,
                 step |-> t.steps[t.index].id, complete |-> complete, inspected |-> FALSE]
           u == [t EXCEPT !.pending = r, !.status = "awaiting_settle"]
           m == WithTask(u)
<1>1. /\ t.status = "running" /\ n.reports < MaxReports /\ Count("reports") /\ ControlStored(m) /\ t.pending = NoReport
      /\ FinalOnly => kind # "checkpoint"
      /\ kind = "final_review" => FinalOnly \/ t.index = Len(t.steps)
      /\ t.report # NoReport => t.report.attempt # t.attempt
  BY DEF Accept
<1>2. t \in TaskType /\ TaskInv(t, n) /\ t # NoTask
  BY <1>1, MemFacts, TaskFacts
<1>3. n' \in CountType /\ Later(n, n') /\ n'.reports = n.reports + 1 /\ n'.attempts = n.attempts
  BY <1>1, MemFacts, Counted
<1>4. r \in ReportType /\ r \in Reported /\ r # NoReport
  <2>1. t.index \in 1..Len(t.steps) /\ t.steps \in Seq(StepType) /\ t.attempt \in Nat /\ t.plan \in Nat
    BY <1>2, TaskFacts DEF TaskInv, InvIds
  <2>2. t.steps[t.index].id \in 1..MaxIds
    <3>1. t.steps[t.index] \in StepType
      BY <2>1
    <3> QED
      BY <3>1 DEF StepType
  <2>3. n.reports + 1 \in 1..MaxReports
    BY <1>1, MemFacts, CountFacts, RecordsAssumption
  <2> QED
    BY <2>1, <2>2, <2>3 DEF ReportType, Reported, NoReport
<1> HIDE DEF r
<1>5. u \in TaskType /\ u.status = "awaiting_settle" /\ u.prev = t.prev /\ u.pending = r /\ Alike(t, u)
  BY <1>2, <1>4, SetPending DEF Statuses, Unwaiting
<1>6. TaskInv(u, n')
  <2> USE DEF Alike
  <2>a. TaskInv(t, n')
    BY <1>2, <1>3, MemFacts, LaterTask
  <2>b. r.id = n.reports + 1 /\ IsOf(r, t)
    BY <1>1 DEF r, IsOf
  <2>c. n.reports \in Nat /\ t.attempt \in Nat /\ \A x \in DOMAIN t.decisions : x \in Nat
    <3>1. t.decisions \in Maps(VerdictType)
      BY <1>2, TaskFacts
    <3> QED
      BY <1>2, <3>1, MemFacts, CountFacts, TaskFacts, MapFacts
  <2>1. InvIds(u, n')
    <3>1. r.id <= n'.reports /\ r.attempt <= n'.attempts
      BY <1>3, <2>a, <2>b, <2>c DEF TaskInv, InvIds, IsOf
    <3> QED
      BY <1>5, <2>a, <3>1 DEF TaskInv, InvIds
  <2>2. InvAwaits(u)
    BY <1>1, <1>2, <1>5 DEF TaskInv, InvAwaits, AwaitsMain, Waiting, Terminal
  <2>3. InvPending(u)
    <3>1. r.id \notin DOMAIN u.decisions
      BY <1>2, <1>5, <2>b, <2>c DEF TaskInv, InvIds
    <3>2. r.id # u.report.id
      <4>1. u.report = NoReport => u.report.id = 0
        BY DEF NoReport
      <4>2. u.report # NoReport => u.report.id <= n.reports /\ u.report.id \in Nat
        BY <1>2, <1>5, TaskFacts, ReportFacts, RecordsAssumption DEF TaskInv, InvIds
      <4> QED
        BY <4>1, <4>2, <2>b, <2>c
    <3> QED
      BY <1>5, <2>b, <3>1, <3>2 DEF InvPending, IsOf
  <2>4. InvDecided(u)
    BY <1>2, <1>5, <1>1 DEF TaskInv, InvDecided, DecisionAgrees, AwaitsMain, Waiting, Terminal
  <2>5. InvEnded(u)
    BY <1>1, <1>2, <1>5 DEF TaskInv, InvEnded, EndedAt, Behind
  <2>6. InvSteps(u) /\ InvBooks(u)
    BY <1>2, <1>5 DEF TaskInv, InvSteps, InvBooks, StepIds, StepReplaced
  <2> QED
    BY <2>1, <2>2, <2>3, <2>4, <2>5, <2>6 DEF TaskInv
<1> HIDE DEF u
<1>7. StateInv(m, n')
  <2>1. u.pending.id > n.reports
    BY <1>5, MemFacts, CountFacts DEF r
  <2> QED
    BY <1>2, <1>3, <1>5, <1>6, <2>1, MemFacts, SameNotices DEF WithTask, Alike
<1>8. m.task = u
  BY <1>5, MemFacts, StateFacts DEF WithTask
<1> QED
  BY <1>1, <1>3, <1>5, <1>7, <1>8, ControlMoves

LEMMA PublishStep == ASSUME RecordsInv, PublishReport PROVE RecordsInv'
<1> DEFINE t == mem.task
           r == t.pending
           u == [t EXCEPT !.report = r, !.pending = NoReport, !.status = StatusFor(r.kind)]
           e == [task |-> t.id, attempt |-> t.attempt, status |-> "pending"]
           f == Adding(mem.notices, r.id, e)
           m == [mem EXCEPT !.task = u, !.notices = f]
<1>1. Stored(m) /\ t.status = "awaiting_settle" /\ r # NoReport /\ n' = n /\ UNCHANGED <<worker, work>>
  BY DEF PublishReport, Publishes, Freezing
<1>2. t \in TaskType /\ TaskInv(t, n) /\ t # NoTask /\ work = 0
  BY <1>1, MemFacts, TaskFacts
<1>3. r \in Reported /\ r \in ReportType /\ r.id \in 1..MaxReports /\ r.kind \in Kinds /\ r.id # 0 /\ NoReport \in Reported
  <2>1. r \in Reported
    BY <1>2, TaskFacts
  <2> QED
    BY <1>1, <2>1, ReportFacts DEF Reported
<1>4. StatusFor(r.kind) \in Waiting /\ StatusFor(r.kind) \in Statuses
  BY DEF StatusFor, Waiting, Statuses
<1>5. /\ u \in TaskType /\ u.status = StatusFor(r.kind) /\ u.report = r /\ u.pending = NoReport /\ u.prev = t.prev
      /\ u.id = t.id /\ u.steps = t.steps /\ u.index = t.index /\ u.plan = t.plan /\ u.attempt = t.attempt
      /\ u.decisions = t.decisions /\ u.last = t.last /\ u.fix = t.fix /\ u.replans = t.replans /\ u.repairs = t.repairs
  BY <1>2, <1>3, <1>4 DEF TaskType
<1>6. e \in NoticeType
  BY <1>2, TaskFacts, RecordsAssumption DEF NoticeType
<1>7. /\ f \in Maps(NoticeType) /\ DOMAIN f = DOMAIN mem.notices \cup {r.id} /\ f[r.id] = e
      /\ \A x \in DOMAIN mem.notices : x # r.id => f[x] = mem.notices[x]
  <2>1. mem.notices \in Maps(NoticeType)
    BY MemFacts, StateFacts
  <2>2. r.id \in 1..MaxReports
    BY <1>3
  <2> DEFINE g == mem.notices
             i == r.id
  <2>3. g \in Maps(NoticeType) /\ i \in 1..MaxReports
    BY <2>1, <2>2
  <2> HIDE DEF e, g, i
  <2>4. /\ Adding(g, i, e) \in Maps(NoticeType) /\ DOMAIN Adding(g, i, e) = DOMAIN g \cup {i}
        /\ Adding(g, i, e)[i] = e /\ \A x \in DOMAIN g : x # i => Adding(g, i, e)[x] = g[x]
    BY <1>6, <2>3, AddingFacts
  <2> QED
    BY <2>4 DEF g, i
<1> HIDE DEF f, e, u
<1>8. m \in StateType /\ m.task = u /\ m.notices = f /\ m.history = mem.history
  BY <1>5, <1>7, MemFacts DEF StateType
<1>9. r.id \notin DOMAIN t.decisions /\ IsOf(r, t) /\ r.id \notin DOMAIN mem.notices
  BY <1>1, <1>2, MemFacts DEF TaskInv, InvPending, InvNotices
<1>10. TaskInv(u, n)
  <2>0. AwaitsMain(u) /\ AwaitsAs(u) = StatusFor(r.kind) /\ ~AwaitsMain(t)
    BY <1>1, <1>2, <1>4, <1>5 DEF AwaitsMain, AwaitsAs, StatusFor, Waiting
  <2>1. InvIds(u, n)
    BY <1>1, <1>2, <1>5 DEF TaskInv, InvIds
  <2>2. InvAwaits(u)
    <3>1. u.prev \notin Waiting
      BY <1>1, <1>2, <1>5 DEF TaskInv, InvAwaits, Terminal
    <3> QED
      BY <1>1, <1>5, <1>9, <2>0, <3>1 DEF InvAwaits, IsOf
  <2>3. InvPending(u)
    BY <1>5 DEF InvPending
  <2>4. InvDecided(u)
    BY <1>1, <1>2, <1>5, <1>9, <2>0 DEF TaskInv, InvDecided, DecisionAgrees, Terminal
  <2>5. InvEnded(u)
    BY <1>1, <1>2, <1>4, <1>5 DEF TaskInv, InvEnded, EndedAt, Behind, Waiting
  <2>6. InvSteps(u) /\ InvBooks(u)
    <3>1. t.index \in DOMAIN t.steps /\ r.step = t.steps[t.index].id
      BY <1>2, <1>9, TaskFacts DEF TaskInv, InvIds, IsOf
    <3> QED
      BY <1>2, <1>5, <3>1 DEF TaskInv, InvSteps, InvBooks, StepIds
  <2> QED
    BY <2>1, <2>2, <2>3, <2>4, <2>5, <2>6 DEF TaskInv
<1>11. InvNotices(m, n)
  <2>1. \A id \in DOMAIN f : id <= n.reports
    BY <1>1, <1>2, <1>7, MemFacts DEF TaskInv, InvIds, InvNotices
  <2>2. ASSUME NEW id \in DOMAIN f
        PROVE  /\ id \in {u.report.id, u.pending.id} =>
                    LET z == IF u.report.id = id THEN u.report ELSE u.pending IN f[id].task = u.id /\ f[id].attempt = z.attempt
               /\ id \in DOMAIN u.decisions =>
                    /\ f[id].task = u.id
                    /\ u.decisions[id].action # "cancel" => f[id].attempt = u.decisions[id].attempt
    <3>1. CASE id = r.id
      BY <1>5, <1>7, <1>9, <3>1 DEF e, IsOf
    <3>2. CASE id # r.id
      <4>1. id \in DOMAIN mem.notices /\ f[id] = mem.notices[id] /\ id # 0
        <5>1. mem.notices \in Maps(NoticeType)
          BY MemFacts, StateFacts
        <5>2. id \in DOMAIN mem.notices /\ f[id] = mem.notices[id]
          BY <1>7, <3>2
        <5> QED
          BY <5>1, <5>2, MapFacts
      <4>2. id # u.report.id /\ id # u.pending.id
        BY <1>5, <3>2, <4>1 DEF NoReport
      <4>3. t.id # 0
        BY <1>2, TaskFacts
      <4>4. id \in DOMAIN t.decisions => /\ mem.notices[id].task = t.id
                                         /\ t.decisions[id].action # "cancel" => mem.notices[id].attempt = t.decisions[id].attempt
        BY <4>1, <4>3, MemFacts DEF InvNotices, NoticesAgree
      <4> QED
        BY <1>5, <4>1, <4>2, <4>4
    <3> QED
      BY <3>1, <3>2
  <2>3. NoticesAgree(m)
    BY <1>8, <2>2 DEF NoticesAgree
  <2> QED
    BY <1>5, <1>8, <2>1, <2>3 DEF InvNotices
<1>12. StateInv(m, n)
  BY <1>8, <1>10, <1>11, MemFacts DEF StateInv
<1> QED
  BY <1>1, <1>2, <1>4, <1>5, <1>8, <1>12, MemFacts, StoredMoves DEF Waiting

LEMMA InspectStep == ASSUME RecordsInv, Inspect PROVE RecordsInv'
<1> DEFINE t == mem.task
           u == [t EXCEPT !.report.inspected = TRUE]
<1>1. Stored(WithTask(u)) /\ t # NoTask /\ t.report # NoReport /\ t.status \in Waiting /\ n' = n /\ UNCHANGED <<worker, work>>
  BY MemFacts DEF Inspect
<1>2. t \in TaskType /\ TaskInv(t, n) /\ work = 0
  BY <1>1, MemFacts DEF Waiting
<1>3. t.report \in ReportType
  BY <1>1, <1>2, TaskFacts, ReportFacts
<1>4. /\ u.report \in ReportType /\ u.report.id = t.report.id /\ u.report.kind = t.report.kind
      /\ u.report.attempt = t.report.attempt /\ u.report.plan = t.report.plan /\ u.report.step = t.report.step
      /\ u.report # NoReport /\ u.report.id # 0
  <2>1. u.report = [t.report EXCEPT !.inspected = TRUE]
    BY <1>2 DEF TaskType
  <2>2. u.report \in ReportType /\ u.report.id = t.report.id /\ u.report.kind = t.report.kind
        /\ u.report.attempt = t.report.attempt /\ u.report.plan = t.report.plan /\ u.report.step = t.report.step
    BY <1>3, <2>1 DEF ReportType
  <2>3. u.report.id # 0
    BY <2>2, RecordsAssumption DEF ReportType
  <2> QED
    BY <2>2, <2>3 DEF NoReport
<1>5. /\ u \in TaskType /\ u.status = t.status /\ u.pending = t.pending /\ u.prev = t.prev
      /\ u.id = t.id /\ u.steps = t.steps /\ u.index = t.index /\ u.plan = t.plan /\ u.attempt = t.attempt
      /\ u.decisions = t.decisions /\ u.last = t.last /\ u.fix = t.fix /\ u.replans = t.replans /\ u.repairs = t.repairs
  <2>1. u.report \in Reported
    BY <1>4 DEF Reported
  <2>2. u = [t EXCEPT !.report = u.report]
    BY <1>2 DEF TaskType
  <2>3. \A z \in Reported : LET d == [t EXCEPT !.report = z] IN
          /\ d \in TaskType /\ d.status = t.status /\ d.pending = t.pending /\ d.prev = t.prev
          /\ d.id = t.id /\ d.steps = t.steps /\ d.index = t.index /\ d.plan = t.plan /\ d.attempt = t.attempt
          /\ d.decisions = t.decisions /\ d.last = t.last /\ d.fix = t.fix /\ d.replans = t.replans /\ d.repairs = t.repairs
    BY <1>2 DEF TaskType
  <2> QED
    BY <2>1, <2>2, <2>3
<1> HIDE DEF u
<1>6. TaskInv(u, n)
  <2>1. InvIds(u, n)
    BY <1>1, <1>2, <1>4, <1>5 DEF TaskInv, InvIds
  <2>2. InvAwaits(u)
    BY <1>1, <1>2, <1>4, <1>5 DEF TaskInv, InvAwaits, AwaitsMain, AwaitsAs, IsOf
  <2>3. InvPending(u)
    BY <1>2, <1>4, <1>5 DEF TaskInv, InvPending, IsOf
  <2>4. InvDecided(u)
    BY <1>1, <1>2, <1>4, <1>5 DEF TaskInv, InvDecided, DecisionAgrees, AwaitsMain
  <2>5. InvEnded(u)
    BY <1>2, <1>5 DEF TaskInv, InvEnded, EndedAt, Behind
  <2>6. InvSteps(u) /\ InvBooks(u)
    BY <1>1, <1>2, <1>4, <1>5 DEF TaskInv, InvSteps, InvBooks, StepIds, StepReplaced
  <2> QED
    BY <2>1, <2>2, <2>3, <2>4, <2>5, <2>6 DEF TaskInv
<1>7. StateInv(WithTask(u), n) /\ WithTask(u).task = u
  BY <1>1, <1>4, <1>5, <1>6, MemFacts, SettledState DEF Follows
<1> QED
  BY <1>1, <1>2, <1>5, <1>7, MemFacts, StoredMoves DEF Waiting

LEMMA FixStep == ASSUME RecordsInv, Fix PROVE RecordsInv'
<1> DEFINE t == mem.task
           u == [t EXCEPT !.fix = t.report.id]
<1>1. Stored(WithTask(u)) /\ t.report # NoReport /\ t.status \in Waiting /\ n' = n /\ UNCHANGED <<worker, work>>
  BY DEF Fix, MayDecide
<1>2. t \in TaskType /\ TaskInv(t, n) /\ t # NoTask /\ work = 0
  BY <1>1, MemFacts, TaskFacts DEF Waiting
<1>3. t.report.id \in Nat
  BY <1>1, <1>2, TaskFacts, ReportFacts, RecordsAssumption
<1>5. /\ u \in TaskType /\ u.status = t.status /\ u.pending = t.pending /\ u.prev = t.prev /\ u.report = t.report
      /\ u.id = t.id /\ u.steps = t.steps /\ u.index = t.index /\ u.plan = t.plan /\ u.attempt = t.attempt
      /\ u.decisions = t.decisions /\ u.last = t.last /\ u.fix = t.report.id /\ u.replans = t.replans /\ u.repairs = t.repairs
  BY <1>2, <1>3 DEF TaskType
<1> HIDE DEF u
<1>6. TaskInv(u, n)
  <2>1. InvIds(u, n)
    BY <1>2, <1>5 DEF TaskInv, InvIds
  <2>2. InvAwaits(u)
    BY <1>2, <1>5 DEF TaskInv, InvAwaits, AwaitsMain, AwaitsAs, IsOf
  <2>3. InvPending(u)
    BY <1>2, <1>5 DEF TaskInv, InvPending, IsOf
  <2>4. InvDecided(u)
    BY <1>1, <1>2, <1>5 DEF TaskInv, InvDecided, DecisionAgrees, AwaitsMain
  <2>5. InvEnded(u)
    BY <1>2, <1>5 DEF TaskInv, InvEnded, EndedAt, Behind
  <2>6. InvSteps(u) /\ InvBooks(u)
    BY <1>2, <1>5 DEF TaskInv, InvSteps, InvBooks, StepIds, StepReplaced
  <2> QED
    BY <2>1, <2>2, <2>3, <2>4, <2>5, <2>6 DEF TaskInv
<1>7. StateInv(WithTask(u), n) /\ WithTask(u).task = u
  BY <1>1, <1>2, <1>5, <1>6, MemFacts, SettledState DEF Follows
<1> QED
  BY <1>1, <1>2, <1>5, <1>7, MemFacts, StoredMoves DEF Waiting

-----------------------------------------------------------------------------
(* Steps that begin an attempt. *)

\* A rotation keeps what was decided and begins an attempt with nothing reported.
LEMMA RotatedFacts ==
  ASSUME n \in CountType, NEW t \in TaskType
  PROVE  LET u == Rotated(t) IN
         /\ u \in TaskType /\ u.id = t.id /\ u.steps = t.steps /\ u.index = t.index /\ u.report = t.report
         /\ u.decisions = t.decisions /\ u.last = t.last /\ u.fix = t.fix /\ u.replans = t.replans /\ u.repairs = t.repairs
         /\ u.prev = t.prev /\ u.pending = t.pending /\ u.attempt = n.attempts + 1 /\ u.status = "activating"
<1>1. n.attempts + 1 \in Nat /\ "activating" \in Statuses
  BY CountFacts DEF Statuses, Unwaiting
<1> QED
  BY <1>1 DEF Rotated, TaskType

\* The task between a decision, or a repair, and the attempt it leads to.
Turns(t, k) == /\ t.pending = NoReport /\ t.prev \notin Waiting /\ t.fix = 0 /\ t.status # "completed"
               /\ InvIds(t, k) /\ InvDecided(t) /\ InvEnded(t) /\ InvSteps(t) /\ InvBooks(t)

LEMMA RotatedTask ==
  ASSUME RecordsInv, n' \in CountType, Later(n, n'), n'.attempts = n.attempts + 1, NEW t \in TaskType, Turns(t, n)
  PROVE  /\ TaskInv(Rotated(t), n') /\ Rotated(t) \in TaskType /\ Rotated(t).status = "activating"
         /\ Rotated(t).attempt # 0 /\ Rotated(t) # NoTask
<1>1. n \in CountType /\ n.attempts \in Nat
  BY MemFacts, CountFacts
<1> DEFINE u == Rotated(t)
<1>2. /\ u \in TaskType /\ u.id = t.id /\ u.steps = t.steps /\ u.index = t.index /\ u.report = t.report
      /\ u.decisions = t.decisions /\ u.last = t.last /\ u.fix = t.fix /\ u.replans = t.replans /\ u.repairs = t.repairs
      /\ u.prev = t.prev /\ u.pending = t.pending /\ u.attempt = n.attempts + 1 /\ u.status = "activating"
  BY <1>1, RotatedFacts
<1> HIDE DEF u
<1>3. TaskInv(u, n')
  BY <1>1, <1>2, RotateMoves DEF Turns
<1>4. u.attempt # 0 /\ u # NoTask
  BY <1>1, <1>2, TaskFacts
<1> QED
  BY <1>2, <1>3, <1>4 DEF u

LEMMA RotatedState ==
  ASSUME RecordsInv, mem.task # NoTask, n' \in CountType, Later(n, n'), n'.attempts = n.attempts + 1,
         NEW t \in TaskType, Turns(t, n), Follows(mem.task, t, n), NEW w,
         w = WithTask(Rotated(t)) \/ w = Resolved(WithTask(Rotated(t))), Activates(w)
  PROVE  RecordsInv'
<1> DEFINE u == Rotated(t)
<1>1. TaskInv(u, n') /\ u \in TaskType /\ u.status = "activating" /\ u.attempt # 0 /\ u # NoTask
  BY RotatedTask
<1>2. Follows(mem.task, u, n)
  BY MemFacts, RotatedFacts DEF Follows
<1>3. StateInv(w, n') /\ w.task = u
  BY <1>1, <1>2, SettledState
<1> HIDE DEF u
<1> QED
  BY <1>1, <1>3, ActivatesMoves

\* setWatchdog: the entries of a step, and one more, stay within one of what is retained.
BooksWithin(b) == b.used <= AutoRepairs /\ b.kept <= b.used /\ b.kept <= RepairsKept + 1
LEMMA BookedFacts ==
  ASSUME NEW t \in TaskType, BooksWithin(t.repairs)
  PROVE  /\ Booked(t, 0) \in BookType /\ BooksWithin(Booked(t, 0))
         /\ RepairsUsed(t) < AutoRepairs => Booked(t, 1) \in BookType /\ BooksWithin(Booked(t, 1))
<1>1. t.repairs.used \in Nat /\ t.repairs.kept \in Nat /\ t.index \in Nat /\ AutoRepairs \in Nat /\ RepairsKept \in Nat
  BY TaskFacts, RecordsAssumption DEF BookType
<1>2. /\ RepairsUsed(t) \in Nat /\ RepairEntries(t) \in Nat /\ RepairsUsed(t) <= AutoRepairs
      /\ RepairEntries(t) <= RepairsUsed(t) /\ RepairEntries(t) <= RepairsKept
  BY <1>1 DEF RepairsUsed, RepairEntries, BooksWithin
<1> QED
  BY <1>1, <1>2 DEF Booked, BookType, BooksWithin

LEMMA RepairedTask ==
  ASSUME NEW t \in TaskType, t.status = "awaiting_settle", MayRepair(t), NEW k, TaskInv(t, k)
  PROVE  LET u == Repairing(t) IN
         /\ u \in TaskType /\ u.status = t.status /\ u.pending = NoReport /\ u.prev = t.prev /\ u.plan = t.plan /\ u.attempt = t.attempt
         /\ u.id = t.id /\ u.report = t.report /\ u.decisions = t.decisions
         /\ TaskInv(u, k) /\ Turns(u, k)
<1> DEFINE r == Booked(t, 1)
           u == [t EXCEPT !.repairs = r, !.pending = NoReport]
<1>1. u = Repairing(t)
  BY DEF Repairing
<1>2. r \in BookType /\ BooksWithin(r)
  <2>1. BooksWithin(t.repairs)
    BY DEF TaskInv, InvBooks, BooksWithin
  <2> QED
    BY <2>1, BookedFacts DEF MayRepair
<1>3. NoReport \in Reported
  BY DEF Reported
<1> HIDE DEF r
<1>4. /\ u \in TaskType /\ u.status = t.status /\ u.pending = NoReport /\ u.prev = t.prev /\ u.report = t.report
      /\ u.id = t.id /\ u.steps = t.steps /\ u.index = t.index /\ u.plan = t.plan /\ u.attempt = t.attempt
      /\ u.decisions = t.decisions /\ u.last = t.last /\ u.fix = t.fix /\ u.replans = t.replans /\ u.repairs = r
  BY <1>2, <1>3 DEF TaskType
<1> HIDE DEF u
<1>5. InvIds(u, k)
  BY <1>4 DEF TaskInv, InvIds
<1>6. InvAwaits(u)
  BY <1>4 DEF TaskInv, InvAwaits, AwaitsMain, Waiting, Terminal
<1>7. InvPending(u)
  BY <1>4 DEF InvPending
<1>8. InvDecided(u)
  BY <1>4 DEF TaskInv, InvDecided, DecisionAgrees, AwaitsMain
<1>9. InvEnded(u)
  BY <1>4 DEF TaskInv, InvEnded, EndedAt, Behind
<1>10. InvSteps(u) /\ InvBooks(u)
  BY <1>2, <1>4 DEF TaskInv, InvSteps, InvBooks, StepIds, StepReplaced, BooksWithin
<1>11. u.prev \notin Waiting /\ u.fix = 0
  BY <1>4 DEF TaskInv, InvAwaits, InvDecided, AwaitsMain, Waiting, Terminal
<1> QED
  BY <1>1, <1>4, <1>5, <1>6, <1>7, <1>8, <1>9, <1>10, <1>11 DEF TaskInv, Turns

LEMMA AutoRepairStep == ASSUME RecordsInv, AutoRepair \/ AutoRepairRefused PROVE RecordsInv'
<1> DEFINE t == mem.task
           u == Repairing(t)
<1>1. t.status = "awaiting_settle" /\ MayRepair(t)
  BY DEF AutoRepair, AutoRepairRefused, Freezing
<1>2. t \in TaskType /\ TaskInv(t, n) /\ t # NoTask /\ work = 0
  BY <1>1, MemFacts, TaskFacts
<1>3. /\ u \in TaskType /\ u.status = t.status /\ u.pending = NoReport /\ u.prev = t.prev /\ u.plan = t.plan /\ u.attempt = t.attempt
      /\ u.id = t.id /\ u.report = t.report /\ u.decisions = t.decisions
      /\ TaskInv(u, n) /\ Turns(u, n)
  BY <1>1, <1>2, RepairedTask
<1>4. Follows(t, u, n)
  BY <1>3 DEF Follows
<1> HIDE DEF u
<1>5. CASE AutoRepair
  <2>1. n' \in CountType /\ Later(n, n') /\ n'.attempts = n.attempts + 1
    BY <1>5, MemFacts, Counted DEF AutoRepair
  <2>2. Activates(WithTask(Rotated(u)))
    BY <1>5 DEF AutoRepair, u
  <2> QED
    BY <1>2, <1>3, <1>4, <2>1, <2>2, RotatedState
<1>6. CASE AutoRepairRefused
  <2>1. mem' = WithTask(u) /\ saved' = saved /\ worker' = worker /\ work' = work /\ n' = n
    BY <1>6 DEF AutoRepairRefused, u
  <2>2. StateInv(WithTask(u), n) /\ WithTask(u).task = u
    BY <1>2, <1>3, <1>4, <2>1, MemFacts, SettledState
  <2> QED
    BY <1>1, <1>2, <1>3, <2>1, <2>2, MemFacts, Moves
<1> QED
  BY <1>5, <1>6

\* Sequences with one entry replaced, or one more.
LEMMA EntryOf == ASSUME NEW S, NEW s \in Seq(S), NEW i \in 1..Len(s) PROVE s[i] \in S
OBVIOUS

\* What is retained of ended tasks, and of resumed ones.
LEMMA RetainedFacts ==
  ASSUME NEW h \in Seq(1..MaxTasks), NEW id \in 1..MaxTasks
  PROVE  RetainedIn(h, id) \in Seq(1..MaxTasks) /\ Len(RetainedIn(h, id)) <= HistoryKept
<1> DEFINE all == Append(h, id)
<1>1. all \in Seq(1..MaxTasks) /\ Len(all) \in Nat /\ Len(all) > 0 /\ HistoryKept \in Nat
  BY RecordsAssumption
<1> DEFINE from == IF Len(all) > HistoryKept THEN Len(all) - HistoryKept + 1 ELSE 1
<1>2. from \in 1..(Len(all) + 1)
  BY <1>1
<1>3. SubSeq(all, from, Len(all)) \in Seq(1..MaxTasks) /\ Len(SubSeq(all, from, Len(all))) = Len(all) - from + 1
  <2>0. from \in Nat /\ from >= 1 /\ from <= Len(all) + 1
    BY <1>1, <1>2
  <2> HIDE DEF all, from
  <2>1. \A i \in from..Len(all) : all[i] \in 1..MaxTasks
    <3> TAKE i \in from..Len(all)
    <3>1. i \in 1..Len(all)
      BY <1>1, <2>0
    <3> QED
      BY <1>1, <3>1, EntryOf
  <2> QED
    BY <1>1, <2>0, <2>1
<1>4. RetainedIn(h, id) = SubSeq(all, from, Len(all))
  BY DEF RetainedIn
<1> HIDE DEF all
<1> QED
  BY <1>1, <1>3, <1>4

LEMMA ResumeStep == ASSUME RecordsInv, Resume PROVE RecordsInv'
<1> DEFINE t == mem.task
<1>1. t.status \in {"paused", "interrupted"} /\ Event("resume")
  BY DEF Resume
<1>2. t \in TaskType /\ TaskInv(t, n) /\ t # NoTask /\ work = 0
  BY <1>1, MemFacts, TaskFacts
<1>3. CASE Restorable(t)
  <2> DEFINE u == [t EXCEPT !.status = t.prev, !.prev = "none"]
  <2>1. Stored(WithTask(u)) /\ Count("events") /\ UNCHANGED <<worker, work>>
    BY <1>3 DEF Resume, RestoredTask
  <2>2. n' \in CountType /\ Later(n, n')
    BY <1>1, <2>1, MemFacts, Counted DEF Event
  <2>3. t.prev \in Waiting /\ t.status = "paused"
    BY <1>1, <1>2, <1>3 DEF Restorable, TaskInv, InvAwaits, Terminal
  <2>4. u \in TaskType /\ u.status = t.prev /\ u.prev = "none" /\ u.pending = t.pending /\ Alike(t, u)
    <3>1. t.prev \in Statuses
      BY <2>3 DEF Statuses
    <3>2. t \in TaskType
      BY <1>2
    <3> HIDE DEF t
    <3> QED
      BY <3>1, <3>2 DEF TaskType, Alike
  <2> HIDE DEF u
  <2>5. TaskInv(u, n)
    <3>1. AwaitsMain(u) /\ AwaitsMain(t) /\ AwaitsAs(u) = AwaitsAs(t)
      BY <2>3, <2>4 DEF AwaitsMain, AwaitsAs, Waiting
    <3>2. t.pending = NoReport
      BY <1>3 DEF Restorable
    <3> QED
      BY <1>2, <2>3, <2>4, <3>1, <3>2, StatusMoves DEF Waiting, Terminal
  <2>6. StateInv(WithTask(u), n')
    BY <1>2, <2>2, <2>4, <2>5, MemFacts, StatusKeepsState DEF WithTask
  <2>7. WithTask(u).task = u
    BY <2>4, MemFacts, StateFacts DEF WithTask
  <2> QED
    BY <1>2, <2>1, <2>2, <2>3, <2>4, <2>6, <2>7, MemFacts, StoredMoves DEF Waiting
<1>4. CASE ~Restorable(t)
  <2> DEFINE v == [t EXCEPT !.pending = NoReport]
             h == IF t.pending = NoReport THEN mem.history ELSE RetainedIn(mem.history, t.id)
             z == [mem EXCEPT !.task = Rotated(v), !.history = h]
  <2>1. Activates(Resumed(mem)) /\ CountBoth("events", "attempts")
    BY <1>4 DEF Resume
  <2>2. n' \in CountType /\ Later(n, n') /\ n'.attempts = n.attempts + 1
    <3>1. n' = [n EXCEPT !.events = @ + 1, !.attempts = @ + 1]
      BY <2>1 DEF CountBoth
    <3>2. n \in CountType /\ n.events < MaxEvents /\ n.events \in Nat /\ n.attempts \in Nat /\ MaxEvents \in Nat
      BY <1>1, MemFacts, CountFacts, RecordsAssumption DEF Event
    <3>3. n.events + 1 \in 0..MaxEvents /\ n.attempts + 1 \in Nat
      BY <3>2
    <3>4. \A x \in 0..MaxEvents, y \in Nat : LET k == [n EXCEPT !.events = x, !.attempts = y] IN
            k \in CountType /\ k.events = x /\ k.attempts = y /\ k.tasks = n.tasks /\ k.reports = n.reports
      BY <3>2 DEF CountType
    <3>5. n' \in CountType /\ n'.attempts = n.attempts + 1 /\ n'.tasks = n.tasks /\ n'.reports = n.reports
      BY <3>1, <3>3, <3>4
    <3> QED
      BY <3>2, <3>5, CountFacts DEF Later
  <2>3. /\ v \in TaskType /\ v.status = t.status /\ v.pending = NoReport /\ v.prev = t.prev /\ v.report = t.report
        /\ v.id = t.id /\ v.steps = t.steps /\ v.index = t.index /\ v.plan = t.plan /\ v.attempt = t.attempt
        /\ v.decisions = t.decisions /\ v.last = t.last /\ v.fix = t.fix /\ v.replans = t.replans /\ v.repairs = t.repairs
    BY <1>2 DEF TaskType, Reported
  <2> HIDE DEF v
  <2>4. ~AwaitsMain(t)
    BY <1>1, <1>2, <1>4 DEF Restorable, TaskInv, InvAwaits, AwaitsMain, Waiting
  <2>5. Turns(v, n)
    <3>1. v.prev \notin Waiting
      BY <1>1, <1>2, <2>3, <2>4 DEF TaskInv, InvAwaits, AwaitsMain, Terminal
    <3>2. v.fix = 0
      BY <1>1, <1>2, <2>3, <2>4 DEF TaskInv, InvDecided, Terminal
    <3>3. InvIds(v, n) /\ InvSteps(v) /\ InvBooks(v)
      BY <1>2, <2>3 DEF TaskInv, InvIds, InvSteps, InvBooks, StepIds, StepReplaced
    <3>4. InvDecided(v)
      BY <1>2, <2>3, <3>2 DEF TaskInv, InvDecided, DecisionAgrees
    <3>5. InvEnded(v)
      BY <1>2, <2>3 DEF TaskInv, InvEnded, EndedAt, Behind
    <3> QED
      BY <1>1, <2>3, <3>1, <3>2, <3>3, <3>4, <3>5 DEF Turns
  <2>6. /\ TaskInv(Rotated(v), n') /\ Rotated(v) \in TaskType /\ Rotated(v).status = "activating"
        /\ Rotated(v).attempt # 0 /\ Rotated(v) # NoTask
    BY <2>2, <2>3, <2>5, RotatedTask
  <2>7. Follows(t, Rotated(v), n)
    BY <2>3, MemFacts, RotatedFacts DEF Follows
  <2>8. h \in Seq(1..MaxTasks) /\ Len(h) <= HistoryKept
    BY <1>2, MemFacts, StateFacts, TaskFacts, RetainedFacts DEF StateInv
  <2>9. z \in StateType /\ z.task = Rotated(v) /\ z.notices = mem.notices /\ z.history = h
    <3> HIDE DEF h
    <3> QED
      BY <2>6, <2>8, MemFacts DEF StateType
  <2>10. Resumed(mem) = Superseded(z)
    BY DEF Resumed, v
  <2> HIDE DEF z, h
  <2>11. StateInv(Superseded(z), n') /\ Superseded(z).task = Rotated(v)
    BY <1>2, <2>2, <2>6, <2>7, <2>8, <2>9, MemFacts, MovedState
  <2> QED
    BY <2>1, <2>2, <2>6, <2>10, <2>11, ActivatesMoves
<1> QED
  BY <1>3, <1>4

LEMMA BookRecoveryStep == ASSUME RecordsInv, BookRecovery PROVE RecordsInv'
<1> DEFINE t == mem.task
           b == Booked(t, 0)
           u == [t EXCEPT !.repairs = b]
<1>1. t.status = "interrupted" /\ Stored(WithTask(u)) /\ UNCHANGED <<worker, work>> /\ n' \in CountType /\ Later(n, n')
  BY MemFacts, Counted DEF BookRecovery, Event
<1>2. t \in TaskType /\ TaskInv(t, n) /\ t # NoTask /\ work = 0
  BY <1>1, MemFacts, TaskFacts
<1>3. b \in BookType /\ BooksWithin(b)
  <2>1. BooksWithin(t.repairs)
    BY <1>2 DEF TaskInv, InvBooks, BooksWithin
  <2> QED
    BY <1>2, <2>1, BookedFacts
<1> HIDE DEF b
<1>4. /\ u \in TaskType /\ u.status = t.status /\ u.pending = t.pending /\ u.prev = t.prev /\ u.report = t.report
      /\ u.id = t.id /\ u.steps = t.steps /\ u.index = t.index /\ u.plan = t.plan /\ u.attempt = t.attempt
      /\ u.decisions = t.decisions /\ u.last = t.last /\ u.fix = t.fix /\ u.replans = t.replans /\ u.repairs = b
  BY <1>2, <1>3 DEF TaskType
<1> HIDE DEF u
<1>5. TaskInv(u, n)
  <2>1. InvIds(u, n) /\ InvAwaits(u) /\ InvPending(u)
    BY <1>2, <1>4 DEF TaskInv, InvIds, InvAwaits, InvPending, AwaitsMain, AwaitsAs, IsOf
  <2>2. InvDecided(u) /\ InvEnded(u)
    BY <1>2, <1>4 DEF TaskInv, InvDecided, DecisionAgrees, AwaitsMain, InvEnded, EndedAt, Behind
  <2>3. InvSteps(u) /\ InvBooks(u)
    BY <1>2, <1>3, <1>4 DEF TaskInv, InvSteps, InvBooks, StepIds, StepReplaced, BooksWithin
  <2> QED
    BY <2>1, <2>2, <2>3 DEF TaskInv
<1>6. StateInv(WithTask(u), n') /\ WithTask(u).task = u
  <2>1. TaskInv(u, n')
    BY <1>1, <1>4, <1>5, MemFacts, LaterTask
  <2> QED
    BY <1>1, <1>2, <1>4, <2>1, MemFacts, SettledState DEF Follows
<1> QED
  BY <1>1, <1>2, <1>4, <1>6, MemFacts, StoredMoves

-----------------------------------------------------------------------------
(* A restart of Main, and a dispatch. *)

\* What init makes of a saved state.
LEMMA RestartedState ==
  ASSUME NEW m, NEW k \in CountType, NEW l \in CountType, Later(k, l), StateInv(m, k)
  PROVE  LET w == [m EXCEPT !.task = Restarted(@)] IN
         /\ StateInv(w, l) /\ w.task.status \notin {"activating", "running"}
         /\ w.history = m.history /\ (m.task = NoTask => w = m)
         /\ m.task # NoTask => /\ w.task # NoTask /\ Alike(m.task, w.task) /\ w.task.pending = m.task.pending
<1> DEFINE t == m.task
           u == Restarted(t)
           w == [m EXCEPT !.task = u]
<1>1. m \in StateType /\ t \in TaskType \cup {NoTask}
  BY StateFacts DEF StateInv
<1>2. CASE u = t
  <2>1. w = m
    BY <1>1, <1>2 DEF StateType
  <2>2. t.status \notin {"activating", "running"}
    <3>1. t \in TaskType => t = [t EXCEPT !.status = t.status]
      BY DEF TaskType
    <3>2. t \in TaskType => \A s \in Statuses : [t EXCEPT !.status = s].status = s
      BY DEF TaskType
    <3>3. t \in TaskType /\ t.status \in {"activating", "running"} => u.status = "interrupted"
      BY <3>2 DEF Restarted, Statuses, Unwaiting
    <3>4. NoTask.status = "completed"
      BY DEF NoTask
    <3> QED
      BY <1>1, <1>2, <3>3, <3>4
  <2>3. StateInv(m, l)
    BY LaterState
  <2>4. Alike(t, t)
    BY DEF Alike
  <2> QED
    BY <2>1, <2>2, <2>3, <2>4
<1>3. CASE u # t
  <2>1. /\ u = [t EXCEPT !.status = "interrupted"]
        /\ \/ t.status \in {"activating", "running", "awaiting_settle"}
           \/ t.status = "paused" /\ t.prev \notin Waiting
    BY <1>3 DEF Restarted
  <2>2. t \in TaskType /\ t # NoTask /\ TaskInv(t, k)
    BY <1>1, <2>1 DEF NoTask, StateInv
  <2>3. u \in TaskType /\ u.status = "interrupted" /\ u.prev = t.prev /\ u.pending = t.pending /\ Alike(t, u)
    BY <2>1, <2>2, SetStatus DEF Statuses, Unwaiting
  <2>4. TaskInv(u, k)
    <3>1. t.prev \notin Waiting
      BY <2>1, <2>2 DEF TaskInv, InvAwaits, Terminal
    <3> QED
      BY <2>1, <2>2, <2>3, <3>1, StatusMoves DEF AwaitsMain, Waiting, Terminal
  <2> HIDE DEF u
  <2>5. StateInv(w, l)
    BY <2>2, <2>3, <2>4, StatusKeepsState
  <2>6. w.task = u /\ w.history = m.history
    BY <1>1, <2>3, StateFacts
  <2>7. u # NoTask
    BY <2>3, TaskFacts
  <2> QED
    BY <2>2, <2>3, <2>5, <2>6, <2>7 DEF u
<1> QED
  BY <1>2, <1>3

LEMMA RestartStep == ASSUME RecordsInv, Restart PROVE RecordsInv'
<1>1. n' \in CountType /\ Later(n, n')
  BY MemFacts, Counted DEF Restart, Event
<1>2. worker' \in {"live", "error", "stopped"} /\ Stored(LoadedState) /\ work' = 0
  BY MemFacts DEF Restart
<1>3. StateInv(LoadedState, n') /\ LoadedState.task.status \notin {"activating", "running"}
  BY <1>1, RestartedState DEF RecordsInv, LoadedState
<1> HIDE DEF LoadedState
<1> QED
  BY <1>1, <1>2, <1>3, StoredMoves

\* archiveNotices
LEMMA ArchivedState ==
  ASSUME NEW m, NEW k \in CountType, StateInv(m, k)
  PROVE  LET w == Archived(m) IN StateInv(w, k) /\ w.task = m.task /\ w.history = m.history
<1> DEFINE waiting == {id \in DOMAIN m.notices : m.notices[id].status = "pending"}
           f == [id \in waiting |-> m.notices[id]]
           w == [m EXCEPT !.notices = f]
<1>1. m \in StateType /\ m.notices \in Maps(NoticeType) /\ InvNotices(m, k)
  BY StateFacts DEF StateInv
<1>2. f \in Maps(NoticeType) /\ DOMAIN f \subseteq DOMAIN m.notices /\ \A id \in DOMAIN f : f[id] = m.notices[id]
  <2>1. DOMAIN f \subseteq DOMAIN m.notices /\ (\A id \in DOMAIN f : f[id] = m.notices[id]) /\ f = [id \in DOMAIN f |-> f[id]]
    OBVIOUS
  <2> HIDE DEF f
  <2>2. DOMAIN f \subseteq 1..MaxReports /\ \A id \in DOMAIN f : f[id] \in NoticeType
    BY <1>1, <2>1, MapFacts
  <2> QED
    BY <2>1, <2>2, MapIs
<1>3. w = Archived(m)
  BY DEF Archived
<1> HIDE DEF f
<1>4. w \in StateType /\ w.task = m.task /\ w.history = m.history /\ w.notices = f
  BY <1>1, <1>2, StateFacts
<1> HIDE DEF w
<1>5. InvNotices(w, k)
  <2>1. CASE m.task = NoTask
    BY <1>1, <1>2, <1>4, <2>1 DEF InvNotices, NoticesAgree, NoTask
  <2>2. CASE m.task # NoTask
    <3>1. Later(k, k)
      BY CountFacts DEF Later
    <3>2. w.task.pending = NoReport \/ w.task.pending = m.task.pending \/ w.task.pending.id > k.reports
      BY <1>4
    <3>3. \A id \in DOMAIN w.task.decisions : id \in DOMAIN m.task.decisions /\ w.task.decisions[id] = m.task.decisions[id]
      BY <1>4
    <3> QED
      BY <1>1, <1>2, <1>4, <2>2, <3>1, <3>2, <3>3, NoticesMove
  <2> QED
    BY <2>1, <2>2
<1> QED
  BY <1>3, <1>4, <1>5 DEF StateInv

\* A task that was just dispatched.
LEMMA NewTaskFacts ==
  ASSUME NEW id \in 1..MaxTasks, NEW a \in Nat, NEW k, id <= k.tasks, a <= k.attempts
  PROVE  LET t == NewTask(id, a) IN
         /\ t \in TaskType /\ TaskInv(t, k) /\ t.status = "activating" /\ t.id = id /\ t.attempt = a
         /\ t.report = NoReport /\ t.pending = NoReport /\ DOMAIN t.decisions = {}
<1> DEFINE t == NewTask(id, a)
           steps == [i \in 1..Plan |-> [id |-> i, text |-> 1]]
<1>1. steps \in Seq(StepType) /\ Len(steps) = Plan /\ Plan \in Nat /\ Plan >= 1
      /\ DOMAIN steps = 1..Plan /\ \A i \in 1..Plan : steps[i].id = i
  <2>1. Plan \in Nat /\ Plan >= 1 /\ Plan <= MaxIds /\ MaxIds \in Nat
    BY RecordsAssumption
  <2>2. \A i \in 1..Plan : [id |-> i, text |-> 1] \in StepType
    BY <2>1 DEF StepType
  <2>3. steps \in [1..Plan -> StepType]
    BY <2>2
  <2> QED
    BY <2>1, <2>3
<1>2. NoReport \in Reported /\ NoEntries \in Maps(VerdictType) /\ DOMAIN NoEntries = {}
  BY NoEntriesIs DEF Reported
<1>3. /\ t.status = "activating" /\ t.id = id /\ t.attempt = a /\ t.report = NoReport /\ t.pending = NoReport
      /\ t.decisions = NoEntries /\ t.prev = "none" /\ t.steps = steps /\ t.index = 1 /\ t.fix = 0
      /\ t.last = [report |-> 0, action |-> "none"]
      /\ t.replans = [index |-> 1, count |-> 0] /\ t.repairs = [step |-> 1, used |-> 0, kept |-> 0]
  BY DEF NewTask
<1>4. t \in TaskType
  <2> HIDE DEF steps
  <2>1. t = [id |-> id, status |-> "activating", prev |-> "none", steps |-> steps, index |-> 1, plan |-> 1,
             attempt |-> a, pending |-> NoReport, report |-> NoReport, decisions |-> NoEntries,
             last |-> [report |-> 0, action |-> "none"], fix |-> 0, revisions |-> 0, stepRevisions |-> 0,
             replans |-> [index |-> 1, count |-> 0], repairs |-> [step |-> 1, used |-> 0, kept |-> 0]]
    BY DEF NewTask, steps
  <2>2. "activating" \in Statuses
    BY DEF Statuses, Unwaiting
  <2> QED
    BY <1>1, <1>2, <2>1, <2>2 DEF TaskType, BookType
<1> HIDE DEF t, steps
<1>5. InvIds(t, k)
  BY <1>1, <1>2, <1>3 DEF InvIds
<1>6. InvAwaits(t)
  BY <1>3 DEF InvAwaits, AwaitsMain, Waiting
<1>7. InvPending(t) /\ InvDecided(t)
  BY <1>3 DEF InvPending, InvDecided
<1>8. InvEnded(t)
  <2>1. \A i \in Nat \ {0} : EndedAt(t, i) = {}
    BY <1>2, <1>3 DEF EndedAt
  <2>2. \A i \in Nat \ {0} : ~Behind(t, i)
    BY <1>3 DEF Behind
  <2> QED
    BY <1>3, <2>1, <2>2 DEF InvEnded
<1>9. InvSteps(t) /\ InvBooks(t)
  <2>1. /\ t.replans.index = 1 /\ t.replans.count = 0 /\ t.repairs.used = 0 /\ t.repairs.kept = 0
        /\ 0 <= MaxReplans /\ 0 <= RepairsKept + 1 /\ 0 <= AutoRepairs
    BY <1>3, RecordsAssumption
  <2> QED
    BY <1>1, <1>3, <2>1 DEF InvSteps, InvBooks
<1> QED
  BY <1>2, <1>3, <1>4, <1>5, <1>6, <1>7, <1>8, <1>9 DEF TaskInv, t

LEMMA DispatchStep == ASSUME RecordsInv, DispatchTask PROVE RecordsInv'
<1> DEFINE id == n.tasks + 1
           a == n.attempts + 1
           t == NewTask(id, a)
           c == Archived(mem)
           m == Succeeded(c, t)
<1>1. mem.task.status \in Terminal /\ n.tasks < MaxTasks /\ n' = [n EXCEPT !.tasks = @ + 1, !.attempts = @ + 1] /\ work = 0
  BY MemFacts DEF DispatchTask, Active, CountBoth, Terminal
<1>2. /\ n.tasks \in Nat /\ n.attempts \in Nat /\ id \in 1..MaxTasks /\ a \in Nat /\ a # 0 /\ MaxTasks \in Nat
      /\ n \in CountType
  BY <1>1, MemFacts, CountFacts, RecordsAssumption
<1>3. n' \in CountType /\ n'.tasks = id /\ n'.attempts = a /\ n'.reports = n.reports /\ Later(n, n')
  <2>1. \A x \in 0..MaxTasks, y \in Nat : LET k == [n EXCEPT !.tasks = x, !.attempts = y] IN
          k \in CountType /\ k.tasks = x /\ k.attempts = y /\ k.reports = n.reports
    BY <1>2 DEF CountType
  <2>2. id \in 0..MaxTasks
    BY <1>2
  <2>3. n' \in CountType /\ n'.tasks = id /\ n'.attempts = a /\ n'.reports = n.reports
    BY <1>1, <1>2, <2>1, <2>2
  <2> QED
    BY <1>2, <2>3, CountFacts DEF Later
<1>4. StateInv(c, n) /\ c.task = mem.task /\ c.history = mem.history
  BY MemFacts, ArchivedState
<1> HIDE DEF id, a
<1>5. /\ t \in TaskType /\ TaskInv(t, n') /\ t.status = "activating" /\ t.attempt = a
      /\ t.report = NoReport /\ t.pending = NoReport /\ DOMAIN t.decisions = {} /\ t # NoTask
  <2>1. id <= n'.tasks /\ a <= n'.attempts
    BY <1>2, <1>3
  <2>2. id \in 1..MaxTasks /\ a \in Nat
    BY <1>2
  <2>3. /\ t \in TaskType /\ TaskInv(t, n') /\ t.status = "activating" /\ t.attempt = a
        /\ t.report = NoReport /\ t.pending = NoReport /\ DOMAIN t.decisions = {}
    BY <2>1, <2>2, NewTaskFacts
  <2> QED
    BY <2>3, TaskFacts
<1> HIDE DEF t, c
<1>6. StateInv(m, n') /\ m.task = t
  <2>1. c \in StateType /\ c.notices \in Maps(NoticeType) /\ c.history \in Seq(1..MaxTasks) /\ Len(c.history) <= HistoryKept
        /\ InvNotices(c, n)
    BY <1>4, StateFacts DEF StateInv
  <2> DEFINE h == IF c.task.id = 0 THEN c.history ELSE RetainedIn(c.history, c.task.id)
  <2>2. h \in Seq(1..MaxTasks) /\ Len(h) <= HistoryKept
    <3>1. c.task.id # 0 => c.task.id \in 1..MaxTasks
      BY <1>4, MemFacts, TaskFacts
    <3> QED
      BY <2>1, <3>1, RetainedFacts
  <2>3. m = [c EXCEPT !.task = t, !.history = h]
    BY DEF Succeeded
  <2> HIDE DEF m, h
  <2>4. m \in StateType /\ m.task = t /\ m.history = h /\ m.notices = c.notices
    BY <1>5, <2>1, <2>2, <2>3 DEF StateType
  <2>5. InvNotices(m, n')
    <3>1. \A i \in DOMAIN c.notices : i \in Nat /\ i # 0 /\ i <= n'.reports
      BY <1>3, <2>1, MapFacts DEF InvNotices
    <3>2. NoReport.id = 0
      BY DEF NoReport
    <3> QED
      BY <1>5, <2>4, <3>1, <3>2 DEF InvNotices, NoticesAgree
  <2> QED
    BY <1>5, <2>2, <2>4, <2>5 DEF StateInv
<1>7. CASE Contract(m)
  <2>1. Stored(m) /\ worker' = "live" /\ work' = m.task.attempt
    BY <1>7 DEF DispatchTask, m, c, t, id, a
  <2>2. Activates(m)
    BY <1>7, <2>1 DEF Activates
  <2> HIDE DEF m
  <2> QED
    BY <1>2, <1>3, <1>5, <1>6, <2>2, ActivatesMoves
<1>8. CASE ~Contract(m)
  <2>1. mem' = c /\ saved' = saved /\ worker' = worker /\ work' = work
    BY <1>8 DEF DispatchTask, m, c, t, id, a
  <2>2. StateInv(c, n')
    BY <1>2, <1>3, <1>4, LaterState
  <2>3. c.task.status \notin {"activating", "running"}
    BY <1>1, <1>4 DEF Terminal
  <2> QED
    BY <1>1, <1>3, <2>1, <2>2, <2>3, MemFacts, Moves
<1> QED
  BY <1>7, <1>8

-----------------------------------------------------------------------------
(* Decisions. *)

\* A report that waits for Main, and what decide adds to the task.
Undecided(t) == t.status \in Waiting /\ t.report # NoReport /\ t.report.id \notin DOMAIN t.decisions
Decisions(t, action) == Adding(t.decisions, t.report.id, Verdict(t, action))

LEMMA UndecidedFacts ==
  ASSUME NEW t \in TaskType, NEW k \in CountType, TaskInv(t, k), Undecided(t)
  PROVE  /\ t.report \in ReportType /\ t.report.id \in 1..MaxReports /\ t.report.id # 0 /\ t.report.id <= k.reports
         /\ t.report.complete \in BOOLEAN
         /\ t.pending = NoReport /\ t.prev \notin Waiting /\ IsOf(t.report, t) /\ t.status = StatusFor(t.report.kind)
         /\ t.index \in 1..Len(t.steps) /\ t.index # 0 /\ t.status # "completed" /\ t.status \notin Terminal
<1>1. t.report \in ReportType /\ t.report.id \in 1..MaxReports /\ t.report.id # 0
  BY TaskFacts, ReportFacts DEF Undecided
<1>2. t.report.complete \in BOOLEAN
  BY <1>1 DEF ReportType
<1>3. t.report.id <= k.reports /\ t.index \in 1..Len(t.steps)
  BY DEF TaskInv, InvIds, Undecided
<1>4. t.status \notin Terminal /\ t.status # "completed" /\ t.status # "paused"
  BY DEF Undecided, Waiting, Terminal
<1>5. t.pending = NoReport /\ t.prev \notin Waiting /\ IsOf(t.report, t) /\ t.status = StatusFor(t.report.kind)
  BY <1>4 DEF TaskInv, InvAwaits, Undecided, AwaitsMain, AwaitsAs
<1> QED
  BY <1>1, <1>2, <1>3, <1>4, <1>5

\* What one more decision adds.
LEMMA VerdictFacts ==
  ASSUME NEW t \in TaskType, NEW k \in CountType, TaskInv(t, k), Undecided(t), NEW action \in Actions
  PROVE  LET v == Verdict(t, action)  f == Decisions(t, action) IN
         /\ v \in VerdictType /\ v.action = action /\ v.attempt = t.attempt /\ v.at = t.index /\ v.moved \in BOOLEAN
         /\ f \in Maps(VerdictType) /\ DOMAIN f = DOMAIN t.decisions \cup {t.report.id} /\ f[t.report.id] = v
         /\ \A r \in DOMAIN t.decisions : f[r] = t.decisions[r]
         /\ \A i : {r \in DOMAIN f : f[r].moved /\ f[r].at = i}
                   = IF v.moved /\ i = t.index THEN EndedAt(t, i) \cup {t.report.id} ELSE EndedAt(t, i)
<1> DEFINE v == Verdict(t, action)
           f == Decisions(t, action)
           r0 == t.report.id
           g == t.decisions
<1>1. v.action = action /\ v.attempt = t.attempt /\ v.at = t.index /\ v.moved \in BOOLEAN
      /\ v = [action |-> v.action, attempt |-> v.attempt, at |-> v.at, moved |-> v.moved]
  BY DEF Verdict
<1>2. t.attempt \in Nat /\ t.index \in Nat /\ g \in Maps(VerdictType)
  BY TaskFacts
<1> HIDE DEF v
<1>3. v \in VerdictType
  BY <1>1, <1>2 DEF VerdictType
<1>4. r0 \in 1..MaxReports /\ r0 \notin DOMAIN g
  BY UndecidedFacts DEF Undecided
<1>f. f = Adding(g, r0, v)
  BY DEF Decisions, v
<1> HIDE DEF f, r0, g
<1>5. f \in Maps(VerdictType) /\ DOMAIN f = DOMAIN g \cup {r0} /\ f[r0] = v
      /\ \A r \in DOMAIN g : r # r0 => f[r] = g[r]
  <2> DEFINE a == Adding(g, r0, v)
  <2>1. a \in Maps(VerdictType) /\ DOMAIN a = DOMAIN g \cup {r0} /\ a[r0] = v
        /\ \A r \in DOMAIN g : r # r0 => a[r] = g[r]
    BY <1>2, <1>3, <1>4, AddingFacts
  <2> HIDE DEF a
  <2>2. f = a
    BY <1>f DEF a
  <2> QED
    BY <2>1, <2>2
<1>6. \A r \in DOMAIN g : f[r] = g[r]
  BY <1>4, <1>5
<1>7. ASSUME NEW i
      PROVE  {r \in DOMAIN f : f[r].moved /\ f[r].at = i}
             = IF v.moved /\ i = t.index THEN EndedAt(t, i) \cup {r0} ELSE EndedAt(t, i)
  <2>1. EndedAt(t, i) = {r \in DOMAIN g : g[r].moved /\ g[r].at = i}
    BY DEF EndedAt, g
  <2> QED
    BY <1>1, <1>4, <1>5, <1>6, <2>1
<1> QED
  BY <1>1, <1>3, <1>5, <1>6, <1>7 DEF v, f, r0, g

\* After the decision the task begins an attempt, at its step or the next one.
LEMMA DecidedTurns ==
  ASSUME NEW t \in TaskType, NEW k \in CountType, TaskInv(t, k), Undecided(t), NEW action \in Actions \ {"cancel"},
         action = "answer" => t.report.kind = "question", action = "approve" => t.status = "review",
         NEW u \in TaskType, u.id = t.id, u.status = t.status, u.prev = t.prev, u.attempt = t.attempt,
         u.pending = t.pending, u.report = t.report, u.fix = 0,
         u.decisions = Decisions(t, action), u.last = [report |-> t.report.id, action |-> action],
         u.index \in 1..Len(u.steps), u.index = IF Verdict(t, action).moved THEN t.index + 1 ELSE t.index,
         InvSteps(u), InvBooks(u)
  PROVE  Turns(u, k) /\ Follows(t, u, k)
<1> DEFINE v == Verdict(t, action)
           f == Decisions(t, action)
<1>1. /\ t.report.id # 0 /\ t.report.id <= k.reports /\ t.pending = NoReport /\ t.prev \notin Waiting
      /\ t.report.attempt = t.attempt /\ t.status = StatusFor(t.report.kind) /\ t.report.kind \in Kinds
      /\ t.status # "completed" /\ t.index \in Nat /\ t.index # 0
  BY UndecidedFacts, TaskFacts, ReportFacts DEF IsOf, Undecided
<1>2. /\ v.action = action /\ v.attempt = t.attempt /\ v.at = t.index
      /\ DOMAIN f = DOMAIN t.decisions \cup {t.report.id} /\ f[t.report.id] = v
      /\ \A r \in DOMAIN t.decisions : f[r] = t.decisions[r]
      /\ \A i : {r \in DOMAIN f : f[r].moved /\ f[r].at = i}
                = IF v.moved /\ i = t.index THEN EndedAt(t, i) \cup {t.report.id} ELSE EndedAt(t, i)
  BY VerdictFacts
<1> HIDE DEF v, f
<1>f. u.decisions = f /\ u.index = IF v.moved THEN t.index + 1 ELSE t.index
  BY DEF f, v
<1>3. InvIds(u, k)
  BY <1>1, <1>2, <1>f DEF TaskInv, InvIds
<1>4. InvDecided(u)
  <2>1. action = "approve" => t.report.kind \in {"checkpoint", "final_review"}
    BY <1>1 DEF StatusFor, Kinds
  <2>2. DecisionAgrees(u, u.report, FALSE)
    BY <1>1, <1>2, <1>f, <2>1 DEF DecisionAgrees
  <2>3. u.last.report = t.report.id /\ u.last.action = action
    OBVIOUS
  <2>4. u.last.report \in DOMAIN u.decisions /\ u.decisions[u.last.report].action = u.last.action
    BY <1>2, <1>f, <2>3
  <2> QED
    BY <2>2, <2>4 DEF InvDecided
<1>5. InvEnded(u)
  <2>1. \A i : EndedAt(u, i) = IF v.moved /\ i = t.index THEN EndedAt(t, i) \cup {t.report.id} ELSE EndedAt(t, i)
    BY <1>2, <1>f DEF EndedAt
  <2>2. ASSUME ~FinalOnly, NEW i \in Nat \ {0}
        PROVE  IF Behind(u, i) THEN \E r \in DOMAIN u.decisions : EndedAt(u, i) = {r} ELSE EndedAt(u, i) = {}
    <3>1. IF Behind(t, i) THEN \E r \in DOMAIN t.decisions : EndedAt(t, i) = {r} ELSE EndedAt(t, i) = {}
      BY <2>2 DEF TaskInv, InvEnded
    <3>2. CASE v.moved /\ i = t.index
      <4>1. Behind(u, i) /\ ~Behind(t, i)
        BY <1>1, <1>f, <3>2 DEF Behind
      <4> QED
        BY <1>2, <1>f, <2>1, <3>1, <3>2, <4>1
    <3>3. CASE ~(v.moved /\ i = t.index)
      <4>1. Behind(u, i) <=> Behind(t, i)
        BY <1>1, <1>f, <3>3 DEF Behind
      <4>2. EndedAt(u, i) = EndedAt(t, i)
        BY <2>1, <3>3
      <4> QED
        BY <1>2, <1>f, <3>1, <4>1, <4>2
    <3> QED
      BY <3>2, <3>3
  <2> QED
    BY <1>1, <2>2 DEF InvEnded
<1>6. Follows(t, u, k)
  BY <1>1, <1>2, <1>f DEF Follows
<1> QED
  BY <1>1, <1>3, <1>4, <1>5, <1>6 DEF Turns

\* The report that is decided is about the step the task is at; it stays in a plan that keeps that step.
LEMMA DecidedInPlan ==
  ASSUME NEW t \in TaskType, NEW k \in CountType, TaskInv(t, k), Undecided(t), NEW u, u.steps = t.steps, u.report = t.report
  PROVE  InvSteps(u)
<1>1. t.report.step = t.steps[t.index].id /\ t.index \in DOMAIN t.steps
  BY UndecidedFacts, TaskFacts DEF IsOf
<1> QED
  BY <1>1 DEF TaskInv, InvSteps, StepIds

\* The decision that completes the plan.
LEMMA DecidedCompletes ==
  ASSUME NEW t \in TaskType, NEW k \in CountType, TaskInv(t, k), Undecided(t), NEW action \in {"approve", "fixed"},
         action = "approve" => t.status = "review", Verdict(t, action).moved, FinalOnly \/ t.index = Len(t.steps),
         NEW u \in TaskType, u.id = t.id, u.status = "completed", u.prev = t.prev, u.attempt = t.attempt, u.plan = t.plan,
         u.pending = t.pending, u.report = t.report, u.fix = 0 \/ u.fix = t.fix, u.index = t.index, u.steps = t.steps,
         u.replans = t.replans, u.repairs = t.repairs,
         u.decisions = Decisions(t, action), u.last = [report |-> t.report.id, action |-> action]
  PROVE  TaskInv(u, k) /\ Follows(t, u, k)
<1> DEFINE v == Verdict(t, action)
           f == Decisions(t, action)
<1>0. action \in Actions /\ action # "cancel" /\ action # "answer"
  BY DEF Actions
<1>1. /\ t.report.id # 0 /\ t.report.id <= k.reports /\ t.pending = NoReport /\ t.prev \notin Waiting
      /\ t.report.attempt = t.attempt /\ t.status = StatusFor(t.report.kind) /\ t.report.kind \in Kinds
      /\ t.status # "completed" /\ t.index \in Nat /\ t.index # 0 /\ t.report.plan = t.plan
  BY UndecidedFacts, TaskFacts, ReportFacts DEF IsOf, Undecided
<1>2. /\ v.action = action /\ v.attempt = t.attempt /\ v.at = t.index
      /\ DOMAIN f = DOMAIN t.decisions \cup {t.report.id} /\ f[t.report.id] = v
      /\ \A r \in DOMAIN t.decisions : f[r] = t.decisions[r]
      /\ \A i : {r \in DOMAIN f : f[r].moved /\ f[r].at = i}
                = IF v.moved /\ i = t.index THEN EndedAt(t, i) \cup {t.report.id} ELSE EndedAt(t, i)
  BY <1>0, VerdictFacts
<1> HIDE DEF v, f
<1>f. u.decisions = f /\ v.moved
  BY DEF f, v
<1>3. InvIds(u, k)
  BY <1>1, <1>2, <1>f DEF TaskInv, InvIds
<1>4. InvDecided(u)
  <2>1. action = "approve" => t.report.kind \in {"checkpoint", "final_review"}
    BY <1>1 DEF StatusFor, Kinds
  <2>2. DecisionAgrees(u, u.report, FALSE)
    BY <1>0, <1>1, <1>2, <1>f, <2>1 DEF DecisionAgrees
  <2>3. u.fix # 0 => u.fix = u.report.id
    BY DEF TaskInv, InvDecided
  <2>4. u.last.report = t.report.id /\ u.last.action = action
    OBVIOUS
  <2>5. u.last.report \in DOMAIN u.decisions /\ u.decisions[u.last.report].action = u.last.action
    BY <1>2, <1>f, <2>4
  <2> QED
    BY <2>2, <2>3, <2>5 DEF InvDecided, Terminal
<1>5. InvEnded(u)
  <2>1. \A i : EndedAt(u, i) = IF i = t.index THEN EndedAt(t, i) \cup {t.report.id} ELSE EndedAt(t, i)
    BY <1>2, <1>f DEF EndedAt
  <2>2. ASSUME ~FinalOnly, NEW i \in Nat \ {0}
        PROVE  IF Behind(u, i) THEN \E r \in DOMAIN u.decisions : EndedAt(u, i) = {r} ELSE EndedAt(u, i) = {}
    <3>1. IF Behind(t, i) THEN \E r \in DOMAIN t.decisions : EndedAt(t, i) = {r} ELSE EndedAt(t, i) = {}
      BY <2>2 DEF TaskInv, InvEnded
    <3>2. CASE i = t.index
      <4>1. Behind(u, i) /\ ~Behind(t, i)
        BY <1>1, <1>f, <3>2 DEF Behind
      <4> QED
        BY <1>2, <1>f, <2>1, <3>1, <3>2, <4>1
    <3>3. CASE i # t.index
      <4>1. Behind(u, i) <=> Behind(t, i)
        BY <1>1, <1>f, <3>3 DEF Behind
      <4>2. EndedAt(u, i) = EndedAt(t, i)
        BY <2>1, <3>3
      <4> QED
        BY <1>2, <1>f, <3>1, <4>1, <4>2
    <3> QED
      BY <3>2, <3>3
  <2> QED
    BY <2>2 DEF InvEnded
<1>6. InvAwaits(u)
  BY <1>1 DEF InvAwaits, AwaitsMain, Waiting, Terminal
<1>7. InvPending(u)
  BY <1>1 DEF InvPending
<1>8. InvSteps(u) /\ InvBooks(u)
  BY DecidedInPlan DEF TaskInv, InvBooks
<1>9. Follows(t, u, k)
  BY <1>1, <1>2, <1>f DEF Follows
<1> QED
  BY <1>3, <1>4, <1>5, <1>6, <1>7, <1>8, <1>9 DEF TaskInv

LEMMA DecidedFields ==
  ASSUME NEW t \in TaskType, NEW k \in CountType, TaskInv(t, k), Undecided(t), NEW action \in Actions
  PROVE  LET u == Decided(t, action) IN
         /\ u \in TaskType /\ u.id = t.id /\ u.status = t.status /\ u.prev = t.prev /\ u.attempt = t.attempt /\ u.plan = t.plan
         /\ u.pending = t.pending /\ u.report = t.report /\ u.fix = t.fix /\ u.index = t.index /\ u.steps = t.steps
         /\ u.replans = t.replans /\ u.repairs = t.repairs /\ u.revisions = t.revisions /\ u.stepRevisions = t.stepRevisions
         /\ u.decisions = Decisions(t, action) /\ u.last = [report |-> t.report.id, action |-> action]
<1> DEFINE f == Decisions(t, action)
           e == [report |-> t.report.id, action |-> action]
           u == [t EXCEPT !.decisions = f, !.last = e]
<1>1. f \in Maps(VerdictType) /\ e \in [report : Nat, action : Actions \cup {"none"}]
  <2>1. f \in Maps(VerdictType)
    BY VerdictFacts
  <2>2. t.report.id \in Nat
    BY UndecidedFacts, RecordsAssumption
  <2> QED
    BY <2>1, <2>2
<1>2. u = Decided(t, action)
  BY DEF Decided, Decisions
<1> HIDE DEF f, e
<1>3. /\ u \in TaskType /\ u.id = t.id /\ u.status = t.status /\ u.prev = t.prev /\ u.attempt = t.attempt /\ u.plan = t.plan
      /\ u.pending = t.pending /\ u.report = t.report /\ u.fix = t.fix /\ u.index = t.index /\ u.steps = t.steps
      /\ u.replans = t.replans /\ u.repairs = t.repairs /\ u.revisions = t.revisions /\ u.stepRevisions = t.stepRevisions
      /\ u.decisions = f /\ u.last = e
  BY <1>1 DEF TaskType
<1> QED
  BY <1>2, <1>3 DEF f, e

LEMMA ContinuesMoves ==
  ASSUME RecordsInv, mem.task # NoTask, NEW u \in TaskType, Turns(u, n), Follows(mem.task, u, n), Continues(u)
  PROVE  RecordsInv'
<1>1. n' \in CountType /\ Later(n, n') /\ n'.attempts = n.attempts + 1
  BY MemFacts, Counted DEF Continues
<1>2. Activates(Resolved(WithTask(Rotated(u))))
  BY DEF Continues
<1> QED
  BY <1>1, <1>2, RotatedState

LEMMA CompletedMoves ==
  ASSUME RecordsInv, mem.task # NoTask, NEW t \in TaskType, NEW u, u = [t EXCEPT !.status = "completed"],
         TaskInv(u, n), Follows(mem.task, u, n), Completed(t)
  PROVE  RecordsInv'
<1>1. u \in TaskType /\ u.status = "completed"
  BY SetStatus DEF Statuses, Terminal
<1>2. Stored(Resolved(WithTask(u))) /\ work' = 0 /\ worker' = worker /\ n' = n
  BY DEF Completed
<1>3. StateInv(Resolved(WithTask(u)), n') /\ Resolved(WithTask(u)).task = u
  BY <1>1, <1>2, MemFacts, SettledState
<1> QED
  BY <1>1, <1>2, <1>3, MemFacts, StoredMoves

\* decide: what holds when it may decide
LEMMA MayDecideFacts ==
  ASSUME RecordsInv, NEW action, MayDecide(action)
  PROVE  /\ mem.task \in TaskType /\ mem.task # NoTask /\ TaskInv(mem.task, n) /\ Undecided(mem.task) /\ work = 0
         /\ action \notin {"fixed", "cancel"} => mem.task.fix = 0
<1>1. mem.task.status \in Waiting
  BY DEF MayDecide
<1>2. mem.task # NoTask /\ work = 0
  BY <1>1, MemFacts DEF Waiting
<1> QED
  BY <1>1, <1>2, MemFacts DEF MayDecide, Undecided

LEMMA SendBackStep == ASSUME RecordsInv, NEW action \in {"answer", "repair"}, SendBack(action) PROVE RecordsInv'
<1> DEFINE t == mem.task
           u == Decided(t, action)
<1>1. MayDecide(action) /\ Continues(u) /\ (action = "answer" => t.report.kind = "question")
  BY DEF SendBack
<1>2. t \in TaskType /\ t # NoTask /\ TaskInv(t, n) /\ Undecided(t) /\ t.fix = 0
  BY <1>1, MayDecideFacts
<1>3. action \in Actions \ {"cancel"} /\ action # "approve"
  BY DEF Actions
<1>4. /\ u \in TaskType /\ u.id = t.id /\ u.status = t.status /\ u.prev = t.prev /\ u.attempt = t.attempt /\ u.plan = t.plan
      /\ u.pending = t.pending /\ u.report = t.report /\ u.fix = t.fix /\ u.index = t.index /\ u.steps = t.steps
      /\ u.replans = t.replans /\ u.repairs = t.repairs
      /\ u.decisions = Decisions(t, action) /\ u.last = [report |-> t.report.id, action |-> action]
  BY <1>2, <1>3, MemFacts, DecidedFields
<1>5. ~Verdict(t, action).moved
  BY DEF Verdict
<1>6. u.index \in 1..Len(u.steps) /\ InvSteps(u) /\ InvBooks(u)
  BY <1>2, <1>4, MemFacts, DecidedInPlan DEF TaskInv, InvIds, InvBooks
<1> HIDE DEF u
<1>7. Turns(u, n) /\ Follows(t, u, n)
  BY <1>1, <1>2, <1>3, <1>4, <1>5, <1>6, MemFacts, DecidedTurns
<1> QED
  BY <1>1, <1>2, <1>4, <1>7, ContinuesMoves

LEMMA NextStepFacts ==
  ASSUME NEW t \in TaskType
  PROVE  LET u == NextStep(t) IN
         /\ u \in TaskType /\ u.id = t.id /\ u.status = t.status /\ u.prev = t.prev /\ u.attempt = t.attempt /\ u.plan = t.plan
         /\ u.pending = t.pending /\ u.report = t.report /\ u.fix = t.fix /\ u.index = t.index + 1 /\ u.steps = t.steps
         /\ u.replans = t.replans /\ u.repairs = t.repairs /\ u.decisions = t.decisions /\ u.last = t.last
<1>1. t.index + 1 \in Nat
  BY TaskFacts
<1> QED
  BY <1>1 DEF NextStep, TaskType

LEMMA ApproveStep == ASSUME RecordsInv, Approve PROVE RecordsInv'
<1> DEFINE t == mem.task
           u == Decided(t, "approve")
<1>1. MayDecide("approve") /\ t.status = "review"
  BY DEF Approve, MayApprove
<1>2. t \in TaskType /\ t # NoTask /\ TaskInv(t, n) /\ Undecided(t) /\ t.fix = 0
  BY <1>1, MayDecideFacts
<1>3. "approve" \in Actions \ {"cancel"} /\ "approve" \in Actions
  BY DEF Actions
<1>4. /\ u \in TaskType /\ u.id = t.id /\ u.status = t.status /\ u.prev = t.prev /\ u.attempt = t.attempt /\ u.plan = t.plan
      /\ u.pending = t.pending /\ u.report = t.report /\ u.fix = t.fix /\ u.index = t.index /\ u.steps = t.steps
      /\ u.replans = t.replans /\ u.repairs = t.repairs
      /\ u.decisions = Decisions(t, "approve") /\ u.last = [report |-> t.report.id, action |-> "approve"]
  BY <1>2, <1>3, MemFacts, DecidedFields
<1>5. Verdict(t, "approve").moved <=> t.report.complete \/ Finishes(t)
  BY DEF Verdict
<1>6. t.index \in 1..Len(t.steps) /\ t.index \in Nat /\ Len(t.steps) \in Nat /\ t.report.complete \in BOOLEAN /\ IsOf(t.report, t)
  BY <1>2, MemFacts, TaskFacts, UndecidedFacts
<1>7. CASE Finishes(t)
  <2> DEFINE w == [u EXCEPT !.status = "completed"]
  <2>1. Completed(u)
    BY <1>7 DEF Approve
  <2>2. FinalOnly \/ t.index = Len(t.steps)
    BY <1>6, <1>7 DEF Finishes, IsOf
  <2> HIDE DEF u
  <2>3. w \in TaskType /\ w.status = "completed" /\ w.prev = u.prev /\ w.pending = u.pending /\ Alike(u, w)
    BY <1>4, SetStatus DEF Statuses, Terminal
  <2> HIDE DEF w
  <2>4. TaskInv(w, n) /\ Follows(t, w, n)
    <3>1. Verdict(t, "approve").moved
      BY <1>5, <1>7
    <3>2. /\ w.id = t.id /\ w.prev = t.prev /\ w.attempt = t.attempt /\ w.plan = t.plan
          /\ w.pending = t.pending /\ w.report = t.report /\ w.fix = 0 /\ w.index = t.index /\ w.steps = t.steps
          /\ w.replans = t.replans /\ w.repairs = t.repairs
          /\ w.decisions = Decisions(t, "approve") /\ w.last = [report |-> t.report.id, action |-> "approve"]
      BY <1>2, <1>4, <2>3 DEF Alike
    <3> QED
      BY <1>1, <1>2, <2>2, <2>3, <3>1, <3>2, MemFacts, DecidedCompletes
  <2> QED
    BY <1>2, <1>4, <2>1, <2>4, CompletedMoves DEF w
<1>8. CASE ~Finishes(t) /\ t.report.complete
  <2> DEFINE w == NextStep(u)
  <2>1. Continues(w)
    BY <1>8 DEF Approve
  <2> HIDE DEF u
  <2>2. /\ w \in TaskType /\ w.id = u.id /\ w.status = u.status /\ w.prev = u.prev /\ w.attempt = u.attempt
        /\ w.pending = u.pending /\ w.report = u.report /\ w.fix = u.fix /\ w.index = u.index + 1 /\ w.steps = u.steps
        /\ w.replans = u.replans /\ w.repairs = u.repairs /\ w.decisions = u.decisions /\ w.last = u.last
    BY <1>4, NextStepFacts
  <2> HIDE DEF w
  <2>3. w.index \in 1..Len(w.steps) /\ InvSteps(w) /\ InvBooks(w)
    <3>1. t.index # Len(t.steps)
      BY <1>8 DEF Finishes
    <3>2. InvSteps(w)
      BY <1>2, <1>4, <2>2, MemFacts, DecidedInPlan
    <3>3. InvBooks(w)
      BY <1>2, <1>4, <1>6, <2>2 DEF TaskInv, InvBooks
    <3> QED
      BY <1>4, <1>6, <2>2, <3>1, <3>2, <3>3
  <2>4. w.index = IF Verdict(t, "approve").moved THEN t.index + 1 ELSE t.index
    BY <1>4, <1>5, <1>8, <2>2
  <2>5. Turns(w, n) /\ Follows(t, w, n)
    BY <1>1, <1>2, <1>3, <1>4, <2>2, <2>3, <2>4, MemFacts, DecidedTurns
  <2> QED
    BY <1>2, <2>1, <2>2, <2>5, ContinuesMoves
<1>9. CASE ~Finishes(t) /\ ~t.report.complete
  <2>1. Continues(u)
    BY <1>9 DEF Approve
  <2>2. u.index \in 1..Len(u.steps) /\ InvSteps(u) /\ InvBooks(u)
    BY <1>2, <1>4, MemFacts, DecidedInPlan DEF TaskInv, InvIds, InvBooks
  <2>3. u.index = IF Verdict(t, "approve").moved THEN t.index + 1 ELSE t.index
    BY <1>4, <1>5, <1>9
  <2> HIDE DEF u
  <2>4. Turns(u, n) /\ Follows(t, u, n)
    BY <1>1, <1>2, <1>3, <1>4, <2>2, <2>3, MemFacts, DecidedTurns
  <2> QED
    BY <1>2, <1>4, <2>1, <2>4, ContinuesMoves
<1> QED
  BY <1>6, <1>7, <1>8, <1>9

LEMMA FixedStep == ASSUME RecordsInv, Fixed PROVE RecordsInv'
<1> DEFINE t == mem.task
           d == Decided(t, "fixed")
           u == [d EXCEPT !.fix = 0]
<1>1. MayDecide("fixed")
  BY DEF Fixed
<1>2. t \in TaskType /\ t # NoTask /\ TaskInv(t, n) /\ Undecided(t) /\ work = 0
  BY <1>1, MayDecideFacts
<1>3. "fixed" \in Actions \ {"cancel"} /\ "fixed" \in Actions
  BY DEF Actions
<1>4. /\ u \in TaskType /\ u.id = t.id /\ u.status = t.status /\ u.prev = t.prev /\ u.attempt = t.attempt /\ u.plan = t.plan
      /\ u.pending = t.pending /\ u.report = t.report /\ u.fix = 0 /\ u.index = t.index /\ u.steps = t.steps
      /\ u.replans = t.replans /\ u.repairs = t.repairs
      /\ u.decisions = Decisions(t, "fixed") /\ u.last = [report |-> t.report.id, action |-> "fixed"]
  <2>1. /\ d \in TaskType /\ d.id = t.id /\ d.status = t.status /\ d.prev = t.prev /\ d.attempt = t.attempt /\ d.plan = t.plan
        /\ d.pending = t.pending /\ d.report = t.report /\ d.index = t.index /\ d.steps = t.steps
        /\ d.replans = t.replans /\ d.repairs = t.repairs
        /\ d.decisions = Decisions(t, "fixed") /\ d.last = [report |-> t.report.id, action |-> "fixed"]
    BY <1>2, <1>3, MemFacts, DecidedFields
  <2> HIDE DEF d
  <2>2. /\ u \in TaskType /\ u.id = d.id /\ u.status = d.status /\ u.prev = d.prev /\ u.attempt = d.attempt /\ u.plan = d.plan
        /\ u.pending = d.pending /\ u.report = d.report /\ u.fix = 0 /\ u.index = d.index /\ u.steps = d.steps
        /\ u.replans = d.replans /\ u.repairs = d.repairs /\ u.decisions = d.decisions /\ u.last = d.last
    BY <2>1 DEF TaskType
  <2> HIDE DEF u
  <2> QED
    BY <2>1, <2>2
<1>5. Verdict(t, "fixed").moved
  BY DEF Verdict
<1>6. t.index \in 1..Len(t.steps) /\ t.index \in Nat /\ Len(t.steps) \in Nat
  BY <1>2, MemFacts, TaskFacts, UndecidedFacts
<1>u. u = FixedTask(t)
  BY DEF FixedTask
<1> HIDE DEF u
<1>7. CASE t.index = Len(t.steps)
  <2> DEFINE w == [u EXCEPT !.status = "completed"]
  <2>1. Completed(u)
    BY <1>4, <1>7, <1>u DEF Fixed
  <2>3. w \in TaskType /\ w.status = "completed" /\ w.prev = u.prev /\ w.pending = u.pending /\ Alike(u, w)
    BY <1>4, SetStatus DEF Statuses, Terminal
  <2> HIDE DEF w
  <2>4. TaskInv(w, n) /\ Follows(t, w, n)
    <3>2. /\ w.id = t.id /\ w.prev = t.prev /\ w.attempt = t.attempt /\ w.plan = t.plan
          /\ w.pending = t.pending /\ w.report = t.report /\ w.fix = 0 /\ w.index = t.index /\ w.steps = t.steps
          /\ w.replans = t.replans /\ w.repairs = t.repairs
          /\ w.decisions = Decisions(t, "fixed") /\ w.last = [report |-> t.report.id, action |-> "fixed"]
      BY <1>2, <1>4, <2>3 DEF Alike
    <3> QED
      BY <1>2, <1>5, <1>7, <2>3, <3>2, MemFacts, DecidedCompletes
  <2> QED
    BY <1>2, <1>4, <2>1, <2>4, CompletedMoves DEF w
<1>8. CASE t.index # Len(t.steps)
  <2> DEFINE b == [index |-> 1, count |-> 0]
             x == NextStep(u)
             w == [x EXCEPT !.replans = b]
  <2>1. /\ x \in TaskType /\ x.id = u.id /\ x.status = u.status /\ x.prev = u.prev /\ x.attempt = u.attempt /\ x.plan = u.plan
        /\ x.pending = u.pending /\ x.report = u.report /\ x.fix = u.fix /\ x.index = u.index + 1 /\ x.steps = u.steps
        /\ x.repairs = u.repairs /\ x.decisions = u.decisions /\ x.last = u.last
        /\ x.replans \in [index : Nat, count : Nat]
    BY <1>4, NextStepFacts, TaskFacts
  <2> HIDE DEF x
  <2> HIDE DEF b
  <2>3. /\ w \in TaskType /\ w.id = x.id /\ w.status = x.status /\ w.prev = x.prev /\ w.attempt = x.attempt /\ w.plan = x.plan
        /\ w.pending = x.pending /\ w.report = x.report /\ w.fix = x.fix /\ w.index = x.index /\ w.steps = x.steps
        /\ w.repairs = x.repairs /\ w.decisions = x.decisions /\ w.last = x.last /\ w.replans = b
    <3>1. b \in [index : Nat, count : Nat]
      BY DEF b
    <3> QED
      BY <2>1, <3>1 DEF TaskType
  <2>4. w.replans.index = 1 /\ w.replans.count = 0
    BY <2>3 DEF b
  <2>w. w = [NextStep(FixedTask(t)) EXCEPT !.replans = [index |-> 1, count |-> 0]]
    BY <1>u DEF x, w, b
  <2> HIDE DEF w
  <2>5. w.index \in 1..Len(w.steps) /\ InvSteps(w) /\ InvBooks(w)
    <3>1. w.steps = t.steps /\ w.index = t.index + 1 /\ w.repairs = t.repairs
      BY <1>4, <2>1, <2>3
    <3>2. InvSteps(w)
      BY <1>2, <1>4, <2>1, <2>3, MemFacts, DecidedInPlan
    <3>3. InvBooks(w)
      <4>1. 0 <= MaxReplans /\ 1 \in 1..(t.index + 1)
        BY <1>6, RecordsAssumption
      <4> QED
        BY <1>2, <2>4, <3>1, <4>1 DEF TaskInv, InvBooks
    <3> QED
      BY <1>6, <1>8, <3>1, <3>2, <3>3
  <2>6. Turns(w, n) /\ Follows(t, w, n)
    BY <1>2, <1>3, <1>4, <1>5, <2>1, <2>3, <2>5, MemFacts, DecidedTurns
  <2>7. CASE MayStart
    <3>1. Continues(w)
      BY <1>4, <1>8, <1>u, <2>7, <2>w DEF Fixed
    <3> QED
      BY <1>2, <2>3, <2>6, <3>1, <2>1, ContinuesMoves
  <2>8. CASE ~MayStart
    <3>1. mem' = Resolved(WithTask(w)) /\ saved' = saved /\ worker' = worker /\ work' = work /\ n' = n
      BY <1>4, <1>8, <1>u, <2>8, <2>w DEF Fixed
    <3>2. TaskInv(w, n)
      <4>1. w.status \in Waiting /\ w.report # NoReport /\ w.status = StatusFor(w.report.kind) /\ w.pending = NoReport
            /\ w.report.plan = w.plan /\ w.prev \notin Waiting
        BY <1>2, <1>4, <2>1, <2>3, MemFacts, UndecidedFacts DEF Undecided, IsOf
      <4>2. w.report.id \in DOMAIN w.decisions /\ w.decisions[w.report.id].action = "fixed"
        <5> DEFINE f == Decisions(t, "fixed")
                   v == Verdict(t, "fixed")
        <5>1. t.report.id \in DOMAIN f /\ f[t.report.id] = v /\ v.action = "fixed"
          BY <1>2, <1>3, MemFacts, VerdictFacts
        <5>2. w.decisions = f /\ w.report = t.report
          BY <1>4, <2>1, <2>3
        <5> HIDE DEF f, v
        <5> QED
          BY <5>1, <5>2
      <4>3. AwaitsMain(w) /\ AwaitsAs(w) = w.status
        BY <4>1 DEF AwaitsMain, AwaitsAs, Waiting
      <4>4. InvAwaits(w)
        BY <4>1, <4>2, <4>3 DEF InvAwaits
      <4>5. InvPending(w)
        BY <4>1 DEF InvPending
      <4> QED
        BY <2>6, <4>4, <4>5 DEF TaskInv, Turns
    <3>3. StateInv(Resolved(WithTask(w)), n') /\ Resolved(WithTask(w)).task = w
      BY <1>2, <2>1, <2>3, <2>6, <3>1, <3>2, MemFacts, SettledState
    <3>4. w.status \notin {"activating", "running"}
      BY <1>2, <1>4, <2>1, <2>3 DEF Undecided, Waiting
    <3> QED
      BY <1>2, <3>1, <3>3, <3>4, MemFacts, Moves
  <2> QED
    BY <2>7, <2>8
<1> QED
  BY <1>7, <1>8

\* The plans of a revise: an entry replaced, or one put behind it, and the entries behind that kept or dropped.
Rest(s, p) == {SubSeq(s, p + 1, Len(s)), << >>}
Replaced(s, p, x, c) == SubSeq(s, 1, p - 1) \o <<x>> \o c
Inserted(s, p, x, c) == SubSeq(s, 1, p - 1) \o <<s[p], x>> \o c

LEMMA RestFacts ==
  ASSUME NEW S, NEW s \in Seq(S), NEW p \in 1..Len(s), NEW c \in Rest(s, p)
  PROVE  c \in Seq(S) /\ Len(c) \in 0..(Len(s) - p) /\ \A i \in 1..Len(c) : c[i] = s[p + i]
<1>0. Len(s) \in Nat /\ p \in Nat /\ p >= 1 /\ p <= Len(s)
  OBVIOUS
<1>1. CASE c = << >>
  BY <1>0, <1>1
<1>2. CASE c = SubSeq(s, p + 1, Len(s))
  <2>1. \A i \in (p + 1)..Len(s) : s[i] \in S
    BY <1>0, EntryOf
  <2>2. c \in Seq(S) /\ Len(c) = Len(s) - p /\ \A i \in 1..(Len(s) - p) : c[i] = s[p + i]
    BY <1>0, <1>2, <2>1
  <2> QED
    BY <1>0, <2>2
<1> QED
  BY <1>1, <1>2 DEF Rest

LEMMA JoinFacts ==
  ASSUME NEW S, NEW b \in Seq(S), NEW c \in Seq(S), NEW q \in Nat, NEW z \in Nat, Len(b) = q, Len(c) = z
  PROVE  LET w == b \o c IN
         w \in Seq(S) /\ Len(w) = q + z /\ (\A i \in 1..q : w[i] = b[i]) /\ \A i \in 1..z : w[q + i] = c[i]
OBVIOUS

LEMMA ReplacedEntry ==
  ASSUME NEW S, NEW s \in Seq(S), NEW p \in 1..Len(s), NEW x \in S, NEW c \in Rest(s, p)
  PROVE  LET w == Replaced(s, p, x, c) IN
         /\ w \in Seq(S) /\ Len(w) >= p /\ Len(w) <= Len(s)
         /\ \A i \in 1..Len(w) : w[i] = IF i = p THEN x ELSE s[i]
<1> DEFINE a == SubSeq(s, 1, p - 1)
           b == a \o <<x>>
           w == b \o c
           z == Len(c)
<1>0. Len(s) \in Nat /\ p \in Nat /\ p >= 1 /\ p <= Len(s)
  OBVIOUS
<1>1. a \in Seq(S) /\ Len(a) = p - 1 /\ \A i \in 1..(p - 1) : a[i] = s[i]
  <2>1. \A i \in 1..(p - 1) : s[i] \in S
    BY <1>0, EntryOf
  <2> QED
    BY <1>0, <2>1
<1>2. c \in Seq(S) /\ z \in Nat /\ z <= Len(s) - p /\ \A i \in 1..z : c[i] = s[p + i]
  BY <1>0, RestFacts
<1> HIDE DEF a
<1>3. b \in Seq(S) /\ Len(b) = p /\ b[p] = x /\ \A i \in 1..(p - 1) : b[i] = s[i]
  BY <1>0, <1>1
<1> HIDE DEF b
<1>4. w \in Seq(S) /\ Len(w) = p + z /\ (\A i \in 1..p : w[i] = b[i]) /\ \A i \in 1..z : w[p + i] = c[i]
  BY <1>0, <1>2, <1>3, JoinFacts
<1> HIDE DEF w, z
<1>5. ASSUME NEW i \in 1..Len(w) PROVE w[i] = IF i = p THEN x ELSE s[i]
  <2>1. CASE i <= p
    BY <1>0, <1>3, <1>4, <2>1
  <2>2. CASE i > p
    <3> DEFINE j == i - p
    <3>1. j \in 1..z /\ i = p + j /\ i # p
      BY <1>0, <1>2, <1>4, <2>2
    <3> HIDE DEF j
    <3>2. w[p + j] = c[j] /\ c[j] = s[p + j]
      BY <1>2, <1>4, <3>1
    <3> QED
      BY <3>1, <3>2
  <2> QED
    BY <1>0, <1>2, <1>4, <2>1, <2>2
<1>6. Len(w) >= p /\ Len(w) <= Len(s)
  BY <1>0, <1>2, <1>4
<1>7. w = Replaced(s, p, x, c)
  BY DEF w, b, a, Replaced
<1>8. w \in Seq(S) /\ Len(w) >= p /\ Len(w) <= Len(s) /\ \A i \in 1..Len(w) : w[i] = IF i = p THEN x ELSE s[i]
  BY <1>4, <1>5, <1>6
<1> QED
  BY <1>7, <1>8, Zenon

LEMMA EntryBehind ==
  ASSUME NEW S, NEW s \in Seq(S), NEW p \in 1..Len(s), NEW x \in S, NEW c \in Rest(s, p)
  PROVE  LET w == Inserted(s, p, x, c) IN
         /\ w \in Seq(S) /\ Len(w) >= p + 1 /\ Len(w) <= Len(s) + 1
         /\ \A i \in 1..Len(w) : w[i] = IF i = p + 1 THEN x ELSE IF i <= p THEN s[i] ELSE s[i - 1]
<1> DEFINE a == SubSeq(s, 1, p - 1)
           y == s[p]
           b == a \o <<y, x>>
           w == b \o c
           z == Len(c)
           q == p + 1
<1>0. Len(s) \in Nat /\ p \in Nat /\ p >= 1 /\ p <= Len(s) /\ y \in S /\ q \in Nat
  BY EntryOf
<1>1. a \in Seq(S) /\ Len(a) = p - 1 /\ \A i \in 1..(p - 1) : a[i] = s[i]
  <2>1. \A i \in 1..(p - 1) : s[i] \in S
    BY <1>0, EntryOf
  <2> QED
    BY <1>0, <2>1
<1>2. c \in Seq(S) /\ z \in Nat /\ z <= Len(s) - p /\ \A i \in 1..z : c[i] = s[p + i]
  BY <1>0, RestFacts
<1>y. y = s[p]
  OBVIOUS
<1> HIDE DEF a, y
<1>3. b \in Seq(S) /\ Len(b) = q /\ b[p] = y /\ b[q] = x /\ \A i \in 1..(p - 1) : b[i] = s[i]
  <2> DEFINE e == <<y, x>>
             o == p - 1
             d == Len(e)
  <2>1. b = a \o e
    OBVIOUS
  <2>2. e \in Seq(S) /\ d = 2 /\ d \in Nat /\ e[1] = y /\ e[2] = x
    BY <1>0
  <2>3. o \in Nat /\ o + 1 = p /\ o + 2 = q /\ Len(a) = o
    BY <1>0, <1>1
  <2>o. o = p - 1 /\ d = Len(e)
    OBVIOUS
  <2> HIDE DEF b, e, o, d, q
  <2>4. b \in Seq(S) /\ Len(b) = o + d /\ (\A i \in 1..o : b[i] = a[i]) /\ \A i \in 1..d : b[o + i] = e[i]
    <3>1. /\ a \o e \in Seq(S) /\ Len(a \o e) = o + d
          /\ (\A i \in 1..o : (a \o e)[i] = a[i]) /\ \A i \in 1..d : (a \o e)[o + i] = e[i]
      <4>1. a \in Seq(S) /\ e \in Seq(S) /\ o \in Nat /\ d \in Nat /\ Len(a) = o /\ Len(e) = d
        BY <1>1, <2>2, <2>3, <2>o
      <4> QED
        BY <4>1
    <3> QED
      BY <2>1, <3>1
  <2>5. b[p] = y /\ b[q] = x
    <3>1. b[o + 1] = e[1] /\ b[o + 2] = e[2]
      BY <2>2, <2>4
    <3> QED
      BY <2>2, <2>3, <3>1
  <2> QED
    BY <1>1, <2>2, <2>3, <2>4, <2>5, <2>o
<1> HIDE DEF b, q
<1>4. w \in Seq(S) /\ Len(w) = q + z /\ (\A i \in 1..q : w[i] = b[i]) /\ \A i \in 1..z : w[q + i] = c[i]
  BY <1>0, <1>2, <1>3, JoinFacts
<1> HIDE DEF w, z
<1>5. ASSUME NEW i \in 1..Len(w) PROVE w[i] = IF i = p + 1 THEN x ELSE IF i <= p THEN s[i] ELSE s[i - 1]
  <2>q. q = p + 1
    BY DEF q
  <2>1. CASE i <= p + 1
    BY <1>0, <1>3, <1>4, <1>y, <2>q, <2>1
  <2>2. CASE i > p + 1
    <3> DEFINE j == i - p - 1
    <3>1. j \in 1..z /\ i = q + j /\ i - 1 = p + j /\ i # p + 1 /\ ~(i <= p)
      BY <1>0, <1>2, <1>4, <2>q, <2>2
    <3> HIDE DEF j
    <3>2. w[q + j] = c[j] /\ c[j] = s[p + j]
      BY <1>2, <1>4, <3>1
    <3> QED
      BY <3>1, <3>2
  <2> QED
    BY <1>0, <1>2, <1>4, <2>1, <2>2
<1>6. Len(w) >= p + 1 /\ Len(w) <= Len(s) + 1
  BY <1>0, <1>2, <1>4 DEF q
<1>7. w = Inserted(s, p, x, c)
  BY DEF w, b, a, y, Inserted
<1>8. /\ w \in Seq(S) /\ Len(w) >= p + 1 /\ Len(w) <= Len(s) + 1
      /\ \A i \in 1..Len(w) : w[i] = IF i = p + 1 THEN x ELSE IF i <= p THEN s[i] ELSE s[i - 1]
  BY <1>4, <1>5, <1>6
<1> QED
  BY <1>7, <1>8, Zenon

\* Every plan a revise may carry reaches the current step and keeps the identities of its steps apart.
LEMMA NewPlansFacts ==
  ASSUME NEW t \in TaskType, t.index \in 1..Len(t.steps), InvSteps(t), NEW steps \in NewPlans(t)
  PROVE  /\ steps \in Seq(StepType) /\ Len(steps) >= t.index
         /\ \A i, j \in DOMAIN steps : steps[i].id = steps[j].id => i = j
<1> DEFINE s == t.steps
           p == t.index
           here == s[p]
<1>1. s \in Seq(StepType) /\ Len(s) \in Nat /\ p \in 1..Len(s) /\ p \in Nat /\ here \in StepType
      /\ \A i, j \in 1..Len(s) : s[i].id = s[j].id => i = j
  <2>1. s \in Seq(StepType) /\ p \in 1..Len(s)
    BY TaskFacts
  <2>2. here \in StepType
    BY <2>1, EntryOf
  <2>3. DOMAIN s = 1..Len(s)
    BY <2>1
  <2>4. \A i, j \in 1..Len(s) : s[i].id = s[j].id => i = j
    BY <2>3 DEF InvSteps
  <2> QED
    BY <2>1, <2>2, <2>4
<1>2. StepIds(t) = {s[i].id : i \in 1..Len(s)}
  <2>1. DOMAIN s = 1..Len(s)
    BY <1>1
  <2> QED
    BY <2>1 DEF StepIds
<1>3. ASSUME NEW x \in StepType, x.id = here.id \/ x.id \notin StepIds(t), NEW c \in Rest(s, p), steps = Replaced(s, p, x, c)
      PROVE  /\ steps \in Seq(StepType) /\ Len(steps) >= p
             /\ \A i, j \in DOMAIN steps : steps[i].id = steps[j].id => i = j
  <2>1. /\ steps \in Seq(StepType) /\ Len(steps) >= p /\ Len(steps) <= Len(s)
        /\ \A i \in 1..Len(steps) : steps[i] = IF i = p THEN x ELSE s[i]
    <3> DEFINE w == Replaced(s, p, x, c)
    <3> HIDE DEF s, p
    <3>1. /\ w \in Seq(StepType) /\ Len(w) >= p /\ Len(w) <= Len(s)
          /\ \A i \in 1..Len(w) : w[i] = IF i = p THEN x ELSE s[i]
      BY <1>1, <1>3, ReplacedEntry
    <3> QED
      BY <1>3, <3>1
  <2>2. DOMAIN steps = 1..Len(steps) /\ Len(steps) \in Nat
    BY <2>1
  <2>3. ASSUME NEW i \in 1..Len(steps), NEW j \in 1..Len(steps), steps[i].id = steps[j].id PROVE i = j
    <3>0. i \in 1..Len(s) /\ j \in 1..Len(s)
      BY <1>1, <2>1, <2>2
    <3>1. steps[i] = (IF i = p THEN x ELSE s[i]) /\ steps[j] = (IF j = p THEN x ELSE s[j])
      BY <2>1
    <3>2. (s[i].id = s[j].id => i = j) /\ (s[i].id = here.id => i = p) /\ (s[j].id = here.id => j = p)
      BY <1>1, <3>0
    <3>3. s[i].id \in StepIds(t) /\ s[j].id \in StepIds(t)
      BY <1>2, <3>0
    <3> HIDE DEF s, p, here
    <3> QED
      BY <1>3, <2>3, <3>1, <3>2, <3>3
  <2> QED
    BY <2>1, <2>2, <2>3
<1>4. ASSUME NEW x \in StepType, x.id \notin StepIds(t), NEW c \in Rest(s, p), steps = Inserted(s, p, x, c)
      PROVE  /\ steps \in Seq(StepType) /\ Len(steps) >= p
             /\ \A i, j \in DOMAIN steps : steps[i].id = steps[j].id => i = j
  <2>1. /\ steps \in Seq(StepType) /\ Len(steps) >= p + 1 /\ Len(steps) <= Len(s) + 1
        /\ \A i \in 1..Len(steps) : steps[i] = IF i = p + 1 THEN x ELSE IF i <= p THEN s[i] ELSE s[i - 1]
    <3> DEFINE w == Inserted(s, p, x, c)
    <3>0. s \in Seq(StepType) /\ p \in 1..Len(s) /\ x \in StepType /\ c \in Rest(s, p) /\ steps = w
      BY <1>1, <1>4
    <3> HIDE DEF s, p, here
    <3>1. /\ w \in Seq(StepType) /\ Len(w) >= p + 1 /\ Len(w) <= Len(s) + 1
          /\ \A i \in 1..Len(w) : w[i] = IF i = p + 1 THEN x ELSE IF i <= p THEN s[i] ELSE s[i - 1]
      <4>1. s \in Seq(StepType) /\ p \in 1..Len(s) /\ x \in StepType /\ c \in Rest(s, p)
        BY <3>0
      <4> HIDE <3>0
      <4> QED
        BY <4>1, EntryBehind
    <3> HIDE DEF w
    <3> QED
      BY <3>0, <3>1
  <2>2. DOMAIN steps = 1..Len(steps) /\ Len(steps) \in Nat
    BY <2>1
  <2> DEFINE k(i) == IF i <= p THEN i ELSE i - 1
  <2>3. ASSUME NEW i \in 1..Len(steps), NEW j \in 1..Len(steps), steps[i].id = steps[j].id PROVE i = j
    <3>0. i \in 1..(Len(s) + 1) /\ j \in 1..(Len(s) + 1)
      BY <1>1, <2>1, <2>2
    <3>1. /\ steps[i] = IF i = p + 1 THEN x ELSE s[k(i)]
          /\ steps[j] = IF j = p + 1 THEN x ELSE s[k(j)]
      BY <1>1, <2>1
    <3>2. k(i) \in 1..Len(s) /\ k(j) \in 1..Len(s)
      BY <1>1, <3>0
    <3>3. s[k(i)].id = s[k(j)].id => k(i) = k(j)
      BY <1>1, <3>2
    <3>4. s[k(i)].id \in StepIds(t) /\ s[k(j)].id \in StepIds(t)
      BY <1>2, <3>2
    <3>5. k(i) = k(j) /\ i # p + 1 /\ j # p + 1 => i = j
      BY <1>1, <3>0
    <3> HIDE DEF s, p, here, k
    <3> QED
      BY <1>4, <2>3, <3>1, <3>3, <3>4, <3>5
  <2>4. Len(steps) >= p
    BY <1>1, <2>1, <2>2
  <2> QED
    BY <2>1, <2>2, <2>3, <2>4
<1>5. PICK new \in NewSteps(t), c \in Rest(s, p) : steps = Before(t) \o new \o c
  <2>1. PICK new \in NewSteps(t), c \in {After(t), << >>} : steps = Before(t) \o new \o c
    BY DEF NewPlans
  <2>2. c \in Rest(s, p)
    BY <2>1 DEF After, Rest
  <2> QED
    BY <2>1, <2>2
<1>6. CASE new = <<here>>
  <2>1. steps = Replaced(s, p, here, c)
    BY <1>5, <1>6 DEF Before, Replaced
  <2> HIDE DEF here
  <2> QED
    BY <1>1, <1>3, <2>1
<1>7. CASE new = <<[here EXCEPT !.text = 3 - @]>>
  <2> DEFINE x == [here EXCEPT !.text = 3 - @]
  <2>1. x \in StepType /\ x.id = here.id
    <3> HIDE DEF here
    <3> QED
      BY <1>1 DEF StepType
  <2>2. steps = Replaced(s, p, x, c)
    BY <1>5, <1>7 DEF Before, Replaced
  <2> HIDE DEF x
  <2> QED
    BY <1>3, <2>1, <2>2
<1>8. ASSUME NEW id \in FreshIds(t), new = <<[id |-> id, text |-> 1]>>
      PROVE  /\ steps \in Seq(StepType) /\ Len(steps) >= p
             /\ \A i, j \in DOMAIN steps : steps[i].id = steps[j].id => i = j
  <2>1. [id |-> id, text |-> 1] \in StepType /\ id \notin StepIds(t)
    BY DEF StepType, FreshIds
  <2>2. steps = Replaced(s, p, [id |-> id, text |-> 1], c)
    BY <1>5, <1>8 DEF Before, Replaced
  <2> QED
    BY <1>3, <2>1, <2>2
<1>9. ASSUME NEW id \in FreshIds(t), new = <<here, [id |-> id, text |-> 1]>>
      PROVE  /\ steps \in Seq(StepType) /\ Len(steps) >= p
             /\ \A i, j \in DOMAIN steps : steps[i].id = steps[j].id => i = j
  <2>1. [id |-> id, text |-> 1] \in StepType /\ id \notin StepIds(t)
    BY DEF StepType, FreshIds
  <2>2. steps = Inserted(s, p, [id |-> id, text |-> 1], c)
    BY <1>5, <1>9 DEF Before, Inserted
  <2> QED
    BY <1>4, <2>1, <2>2
<1>10. \/ new \in {<<here>>, <<[here EXCEPT !.text = 3 - @]>>}
       \/ \E id \in FreshIds(t) : new = <<[id |-> id, text |-> 1]>>
       \/ \E id \in FreshIds(t) : new = <<here, [id |-> id, text |-> 1]>>
  BY DEF NewSteps
<1> QED
  BY <1>6, <1>7, <1>8, <1>9, <1>10

\* A revise that needs a re-plan counts it before anything else.
LEMMA CountedReplanFacts ==
  ASSUME NEW t \in TaskType, NEW k \in CountType, TaskInv(t, k), NEW steps, MayRevise(t, steps)
  PROVE  LET u == CountedReplan(t) IN
         /\ u \in TaskType /\ TaskInv(u, k) /\ u.id = t.id /\ u.status = t.status /\ u.prev = t.prev /\ u.attempt = t.attempt
         /\ u.pending = t.pending /\ u.report = t.report /\ u.fix = t.fix /\ u.index = t.index /\ u.steps = t.steps
         /\ u.decisions = t.decisions
<1> DEFINE b == [index |-> t.index, count |-> ReplansSpent(t) + 1]
           u == [t EXCEPT !.replans = b]
<1>1. CASE ~AtStepLimit(t)
  BY <1>1 DEF CountedReplan
<1>2. CASE AtStepLimit(t)
  <2>1. t.index \in Nat /\ t.index \in 1..Len(t.steps) /\ t.steps \in Seq(StepType) /\ t.replans.count \in Nat /\ MaxReplans \in Nat
    BY TaskFacts, RecordsAssumption DEF TaskInv, InvIds
  <2>2. ReplansSpent(t) \in Nat /\ ReplansSpent(t) < MaxReplans
    BY <1>2, <2>1 DEF ReplansSpent, MayRevise
  <2>3. b \in [index : Nat, count : Nat] /\ b.index = t.index /\ b.count <= MaxReplans
    BY <2>1, <2>2
  <2>4. b.index \in 1..t.index
    BY <2>1, <2>3
  <2>5. u = CountedReplan(t)
    BY <1>2 DEF CountedReplan
  <2> HIDE DEF b
  <2>6. /\ u \in TaskType /\ u.id = t.id /\ u.status = t.status /\ u.prev = t.prev /\ u.attempt = t.attempt /\ u.plan = t.plan
        /\ u.pending = t.pending /\ u.report = t.report /\ u.fix = t.fix /\ u.index = t.index /\ u.steps = t.steps
        /\ u.decisions = t.decisions /\ u.last = t.last /\ u.repairs = t.repairs /\ u.replans = b
    BY <2>3 DEF TaskType
  <2> HIDE DEF u
  <2>7. InvIds(u, k) /\ InvAwaits(u) /\ InvPending(u)
    BY <2>6 DEF TaskInv, InvIds, InvAwaits, InvPending, AwaitsMain, AwaitsAs, IsOf
  <2>8. InvDecided(u) /\ InvEnded(u)
    BY <2>6 DEF TaskInv, InvDecided, DecisionAgrees, AwaitsMain, InvEnded, EndedAt, Behind
  <2>9. InvSteps(u) /\ InvBooks(u)
    BY <2>3, <2>4, <2>6 DEF TaskInv, InvSteps, InvBooks, StepIds, StepReplaced
  <2> QED
    BY <2>5, <2>6, <2>7, <2>8, <2>9 DEF TaskInv
<1> QED
  BY <1>1, <1>2

LEMMA ReviseStep == ASSUME RecordsInv, Revise PROVE RecordsInv'
<1> DEFINE t == mem.task
           c == CountedReplan(t)
<1>1. MayDecide("revise")
  BY DEF Revise
<1>2. t \in TaskType /\ t # NoTask /\ TaskInv(t, n) /\ Undecided(t) /\ t.fix = 0 /\ work = 0
  BY <1>1, MayDecideFacts
<1>3. "revise" \in Actions \ {"cancel"} /\ "revise" \in Actions
  BY DEF Actions
<1>4. PICK steps \in NewPlans(t) :
        /\ MayRevise(t, steps)
        /\ IF MayStart THEN Continues(Revised(c, steps)) ELSE mem' = WithTask(c) /\ UNCHANGED <<saved, worker, work, n>>
  BY DEF Revise
<1>5. /\ c \in TaskType /\ TaskInv(c, n) /\ c.id = t.id /\ c.status = t.status /\ c.prev = t.prev /\ c.attempt = t.attempt
      /\ c.pending = t.pending /\ c.report = t.report /\ c.fix = t.fix /\ c.index = t.index /\ c.steps = t.steps
      /\ c.decisions = t.decisions
  BY <1>2, <1>4, MemFacts, CountedReplanFacts
<1>6. Undecided(c)
  BY <1>2, <1>5 DEF Undecided
<1>7. CASE MayStart
  <2> DEFINE d == Decided(c, "revise")
             u == Revised(c, steps)
  <2>1. Continues(u)
    BY <1>4, <1>7
  <2> HIDE DEF c
  <2>2. /\ d \in TaskType /\ d.id = c.id /\ d.status = c.status /\ d.prev = c.prev /\ d.attempt = c.attempt /\ d.plan = c.plan
        /\ d.pending = c.pending /\ d.report = c.report /\ d.fix = c.fix /\ d.index = c.index /\ d.steps = c.steps
        /\ d.replans = c.replans /\ d.repairs = c.repairs
        /\ d.decisions = Decisions(c, "revise") /\ d.last = [report |-> c.report.id, action |-> "revise"]
    BY <1>3, <1>5, <1>6, MemFacts, DecidedFields
  <2>3. /\ steps \in Seq(StepType) /\ Len(steps) >= t.index
        /\ \A i, j \in DOMAIN steps : steps[i].id = steps[j].id => i = j
    BY <1>2, NewPlansFacts DEF TaskInv, InvIds
  <2>4. t.index \in 1..Len(t.steps) /\ t.steps \in Seq(StepType)
    BY <1>2, TaskFacts DEF TaskInv, InvIds
  <2> DEFINE rv == d.revisions + 1
             sr == IF Replans(c, steps) THEN 0 ELSE d.stepRevisions + 1
             pl == IF steps = c.steps THEN d.plan ELSE d.plan + 1
  <2>5. rv \in Nat /\ sr \in Nat /\ pl \in Nat
    BY <2>2, TaskFacts
  <2>6. u = [d EXCEPT !.revisions = rv, !.stepRevisions = sr, !.steps = steps, !.plan = pl]
    BY DEF Revised
  <2> HIDE DEF d, u, rv, sr, pl
  <2>7. /\ u \in TaskType /\ u.id = d.id /\ u.status = d.status /\ u.prev = d.prev /\ u.attempt = d.attempt
        /\ u.pending = d.pending /\ u.report = d.report /\ u.fix = d.fix /\ u.index = d.index /\ u.steps = steps
        /\ u.replans = d.replans /\ u.repairs = d.repairs /\ u.decisions = d.decisions /\ u.last = d.last
    BY <2>2, <2>3, <2>5, <2>6 DEF TaskType
  <2>8. u.index \in 1..Len(u.steps) /\ InvSteps(u)
    <3>1. DOMAIN Decisions(c, "revise") = DOMAIN c.decisions \cup {c.report.id}
          /\ Decisions(c, "revise")[c.report.id] = Verdict(c, "revise") /\ Verdict(c, "revise").action = "revise"
      BY <1>3, <1>5, <1>6, MemFacts, VerdictFacts
    <3>2. StepReplaced(u)
      BY <2>2, <2>7, <3>1 DEF StepReplaced
    <3>3. u.index \in 1..Len(u.steps)
      BY <1>5, <2>2, <2>3, <2>4, <2>7
    <3> QED
      BY <2>3, <2>7, <3>2, <3>3 DEF InvSteps
  <2>9. InvBooks(u)
    BY <1>5, <2>2, <2>7 DEF TaskInv, InvBooks
  <2>10. ~Verdict(c, "revise").moved
    BY DEF Verdict
  <2>11. Turns(u, n) /\ Follows(c, u, n)
    BY <1>2, <1>3, <1>5, <1>6, <2>2, <2>7, <2>8, <2>9, <2>10, MemFacts, DecidedTurns
  <2>12. Follows(t, u, n)
    BY <1>5, <2>11 DEF Follows
  <2> QED
    BY <1>2, <2>1, <2>7, <2>11, <2>12, ContinuesMoves
<1>8. CASE ~MayStart
  <2>1. mem' = WithTask(c) /\ saved' = saved /\ worker' = worker /\ work' = work /\ n' = n
    BY <1>4, <1>8
  <2> HIDE DEF c
  <2>2. Follows(t, c, n)
    BY <1>5 DEF Follows
  <2>3. StateInv(WithTask(c), n') /\ WithTask(c).task = c
    BY <1>2, <1>5, <2>1, <2>2, MemFacts, SettledState
  <2>4. c.status \notin {"activating", "running"}
    BY <1>6 DEF Undecided, Waiting
  <2> QED
    BY <1>2, <2>1, <2>3, <2>4, MemFacts, Moves
<1> QED
  BY <1>7, <1>8

LEMMA DecideCancelStep == ASSUME RecordsInv, DecideCancel PROVE RecordsInv'
<1> DEFINE t == mem.task
           f == Decisions(t, "cancel")
           c == [t EXCEPT !.decisions = f]
           u == [c EXCEPT !.status = "cancelled"]
           w == Notices(WithTask(u), "resolved")
<1>1. MayDecide("cancel") /\ ControlStored(w) /\ n' = n
  BY DEF DecideCancel, Cancelled, Decisions
<1>2. t \in TaskType /\ t # NoTask /\ TaskInv(t, n) /\ Undecided(t) /\ work = 0
  BY <1>1, MayDecideFacts
<1>3. "cancel" \in Actions
  BY DEF Actions
<1> DEFINE v == Verdict(t, "cancel")
<1>4. /\ v.action = "cancel" /\ v.attempt = t.attempt /\ ~v.moved
      /\ f \in Maps(VerdictType) /\ DOMAIN f = DOMAIN t.decisions \cup {t.report.id} /\ f[t.report.id] = v
      /\ \A r \in DOMAIN t.decisions : f[r] = t.decisions[r]
      /\ \A i : {r \in DOMAIN f : f[r].moved /\ f[r].at = i} = EndedAt(t, i)
  <2>1. ~v.moved
    BY DEF Verdict
  <2>2. /\ v.action = "cancel" /\ v.attempt = t.attempt
        /\ f \in Maps(VerdictType) /\ DOMAIN f = DOMAIN t.decisions \cup {t.report.id} /\ f[t.report.id] = v
        /\ \A r \in DOMAIN t.decisions : f[r] = t.decisions[r]
        /\ \A i : {r \in DOMAIN f : f[r].moved /\ f[r].at = i}
                  = IF v.moved /\ i = t.index THEN EndedAt(t, i) \cup {t.report.id} ELSE EndedAt(t, i)
    BY <1>2, <1>3, MemFacts, VerdictFacts
  <2> QED
    BY <2>1, <2>2
<1>5. /\ t.report.id # 0 /\ t.report.id <= n.reports /\ t.pending = NoReport /\ t.prev \notin Waiting
      /\ t.report.attempt = t.attempt /\ t.status # "completed" /\ t.report.plan = t.plan /\ t.report # NoReport
  BY <1>2, MemFacts, UndecidedFacts DEF IsOf, Undecided
<1> HIDE DEF f, v
<1>6. /\ c \in TaskType /\ c.id = t.id /\ c.prev = t.prev /\ c.attempt = t.attempt /\ c.plan = t.plan
      /\ c.pending = t.pending /\ c.report = t.report /\ c.fix = t.fix /\ c.index = t.index /\ c.steps = t.steps
      /\ c.decisions = f /\ c.last = t.last /\ c.replans = t.replans /\ c.repairs = t.repairs
  BY <1>2, <1>4 DEF TaskType
<1> HIDE DEF c
<1>7. u \in TaskType /\ u.status = "cancelled" /\ u.prev = c.prev /\ u.pending = c.pending /\ Alike(c, u)
  BY <1>6, SetStatus DEF Statuses, Terminal
<1> HIDE DEF u
<1>8. /\ u.id = t.id /\ u.prev = t.prev /\ u.attempt = t.attempt /\ u.plan = t.plan
      /\ u.pending = t.pending /\ u.report = t.report /\ u.fix = t.fix /\ u.index = t.index /\ u.steps = t.steps
      /\ u.decisions = f /\ u.last = t.last /\ u.replans = t.replans /\ u.repairs = t.repairs
  BY <1>6, <1>7 DEF Alike
<1>9. TaskInv(u, n)
  <2>1. InvIds(u, n)
    BY <1>2, <1>4, <1>5, <1>8 DEF TaskInv, InvIds
  <2>2. InvAwaits(u) /\ InvPending(u)
    BY <1>5, <1>7, <1>8 DEF InvAwaits, InvPending, AwaitsMain, Waiting, Terminal
  <2>3. InvDecided(u)
    <3>1. DecisionAgrees(u, u.report, FALSE)
      BY <1>4, <1>8 DEF DecisionAgrees
    <3>2. u.last.report # 0 => u.last.report \in DOMAIN u.decisions /\ u.decisions[u.last.report].action = u.last.action
      BY <1>2, <1>4, <1>8 DEF TaskInv, InvDecided
    <3>3. u.fix # 0 => u.fix = u.report.id
      BY <1>2, <1>8 DEF TaskInv, InvDecided
    <3> QED
      BY <1>7, <3>1, <3>2, <3>3 DEF InvDecided, Terminal
  <2>4. InvEnded(u)
    <3>1. \A i : EndedAt(u, i) = EndedAt(t, i)
      BY <1>4, <1>8 DEF EndedAt
    <3>2. \A i : Behind(u, i) <=> Behind(t, i)
      BY <1>5, <1>7, <1>8 DEF Behind
    <3>3. DOMAIN t.decisions \subseteq DOMAIN u.decisions
      BY <1>4, <1>8
    <3>4. u.status # "completed"
      BY <1>7
    <3> QED
      BY <1>2, <3>1, <3>2, <3>3, <3>4 DEF TaskInv, InvEnded
  <2>5. InvSteps(u) /\ InvBooks(u)
    BY <1>2, <1>8, MemFacts, DecidedInPlan DEF TaskInv, InvBooks
  <2> QED
    BY <2>1, <2>2, <2>3, <2>4, <2>5 DEF TaskInv
<1>10. Follows(t, u, n)
  BY <1>4, <1>5, <1>8 DEF Follows
<1>11. StateInv(w, n') /\ w.task = u
  BY <1>1, <1>2, <1>7, <1>9, <1>10, MemFacts, SettledState
<1> HIDE DEF w
<1> QED
  BY <1>1, <1>7, <1>11, MemFacts, ControlMoves

LEMMA DecideStep == ASSUME RecordsInv, Decide PROVE RecordsInv'
BY SendBackStep, ApproveStep, ReviseStep, FixStep, FixedStep, DecideCancelStep DEF Decide

-----------------------------------------------------------------------------
(* The invariant. *)

\* The invariant holds of an empty session, and every action keeps it.
LEMMA RecordsInvInit == RecordsInit => RecordsInv
<1> SUFFICES ASSUME RecordsInit PROVE RecordsInv
  OBVIOUS
<1>1. mem = [task |-> NoTask, history |-> << >>, notices |-> NoEntries] /\ saved = mem
  BY DEF RecordsInit
<1>2. n \in CountType
  BY RecordsAssumption DEF RecordsInit, CountType
<1>3. mem \in StateType /\ mem.task = NoTask /\ mem.history = << >> /\ mem.notices = NoEntries /\ DOMAIN mem.notices = {}
  <2>1. NoEntries \in Maps(NoticeType) /\ DOMAIN NoEntries = {}
    BY NoEntriesIs
  <2>2. << >> \in Seq(1..MaxTasks)
    OBVIOUS
  <2> QED
    BY <1>1, <2>1, <2>2 DEF StateType
<1>4. NoTask.status = "completed" /\ NoTask.id = 0
  BY DEF NoTask
<1>5. InvNotices(mem, n) /\ NoticesAgree(mem)
  BY <1>3 DEF InvNotices, NoticesAgree
<1>6. StateInv(mem, n)
  <2>1. Len(mem.history) <= HistoryKept
    BY <1>3, RecordsAssumption
  <2> QED
    BY <1>3, <1>5, <2>1 DEF StateInv
<1>7. Contract(saved)
  <2>1. TasksOnce(mem)
    <3>1. DOMAIN mem.history = {}
      BY <1>3
    <3> QED
      BY <1>3, <1>4, <3>1 DEF TasksOnce, HistoryOnce, TaskNotEnded
  <2> QED
    BY <1>1, <1>3, <1>4, <1>5, <2>1 DEF Contract
<1>8. InvWork
  BY <1>1, <1>3, <1>4, <1>7 DEF InvWork, RecordsInit
<1> QED
  BY <1>1, <1>2, <1>6, <1>8 DEF RecordsInv

LEMMA RecordsInvStep == RecordsInv /\ [RecordsNext]_recordVars => RecordsInv'
<1> SUFFICES ASSUME RecordsInv, [RecordsNext]_recordVars PROVE RecordsInv'
  OBVIOUS
<1>1. CASE UNCHANGED recordVars
  <2>1. mem' = mem /\ saved' = saved /\ worker' = worker /\ work' = work /\ n' = n
    BY <1>1 DEF recordVars
  <2> QED
    BY <2>1 DEF RecordsInv, InvWork
<1>2. CASE RecordsNext
  <2>1. CASE DispatchTask \/ Grant \/ HoldsAtLimit \/ ActivationFails
    BY <2>1, DispatchStep, GrantStep, HoldsAtLimitStep, FailsStep
  <2>2. CASE \E kind \in Kinds, complete \in BOOLEAN : Accept(kind, complete)
    BY <2>2, AcceptStep
  <2>3. CASE PublishReport \/ AutoRepair \/ AutoRepairRefused \/ Unfrozen \/ Inspect
    BY <2>3, PublishStep, AutoRepairStep, UnfrozenStep, InspectStep
  <2>4. CASE Decide \/ Cancel \/ Pause
    BY <2>4, DecideStep, CancelStep, PauseStep
  <2>5. CASE ProcessEnds \/ Stop \/ Resume \/ BookRecovery \/ Restart
    BY <2>5, FailsStep, ResumeStep, BookRecoveryStep, RestartStep
  <2> QED
    BY <1>2, <2>1, <2>2, <2>3, <2>4, <2>5 DEF RecordsNext
<1> QED
  BY <1>1, <1>2

\* Every handler, refused save, interruption and restart keeps the invariant in memory and on disk.
THEOREM RecordsInvariant == RecordsSpec => []RecordsInv
<1>1. RecordsInv /\ [RecordsNext]_recordVars => RecordsInv'
  BY RecordsInvStep
<1> QED
  BY <1>1, RecordsInvInit, PTL DEF RecordsSpec

-----------------------------------------------------------------------------
(* What the invariant says of the contract. *)

\* A function that keeps its arguments apart has as many values as arguments.
LEMMA AsManyIds ==
  ASSUME NEW t \in TaskType, InvSteps(t)
  PROVE  Cardinality(StepIds(t)) = Len(t.steps)
<1> DEFINE s == t.steps
           f == [i \in 1..Len(s) |-> s[i].id]
<1>1. s \in Seq(StepType) /\ Len(s) \in Nat /\ DOMAIN s = 1..Len(s)
  BY TaskFacts
<1>2. IsFiniteSet(1..Len(s)) /\ Cardinality(1..Len(s)) = Len(s)
  <2> HIDE DEF s
  <2> QED
    BY <1>1, FS_Interval
<1>3. f \in Surjection(1..Len(s), StepIds(t)) /\ f \in Injection(1..Len(s), StepIds(t))
  <2>1. StepIds(t) = {s[i].id : i \in 1..Len(s)}
    BY <1>1 DEF StepIds
  <2>2. f \in [1..Len(s) -> StepIds(t)]
    BY <2>1
  <2>3. \A y \in StepIds(t) : \E i \in 1..Len(s) : f[i] = y
    BY <2>1
  <2>4. \A i, j \in 1..Len(s) : f[i] = f[j] => i = j
    BY <1>1 DEF InvSteps
  <2> HIDE DEF f
  <2> QED
    BY <2>2, <2>3, <2>4 DEF Surjection, Injection, IsInjective
<1> QED
  <2> HIDE DEF f, s
  <2>1. Cardinality(StepIds(t)) = Cardinality(1..Len(s))
    BY <1>2, <1>3, FS_Surjection
  <2> QED
    BY <1>2, <2>1 DEF s

\* The parts of the contract that memory always meets.
LEMMA TaskAgrees ==
  ASSUME NEW m, NEW k, StateInv(m, k), m.task # NoTask
  PROVE  /\ StepsOnce(m) /\ ReportsAgree(m) /\ LastAgrees(m) /\ FixIsRetained(m) /\ ReplansFit(m)
         /\ ReportsInPlan(m) \/ StepReplaced(m.task)
         /\ RepairsFit(m) \/ RepairsOverflow(m.task)
<1> DEFINE t == m.task
<1>1. t \in TaskType /\ TaskInv(t, k)
  BY StateFacts DEF StateInv
<1>2. StepsOnce(m)
  BY <1>1, AsManyIds DEF StepsOnce, TaskInv
<1>3. ReportsAgree(m)
  <2>1. ASSUME t.report # NoReport PROVE ReportAgrees(t, t.report, FALSE)
    <3>1. t.report.attempt = t.attempt => t.report.plan = t.plan /\ (AwaitsMain(t) \/ t.status \in Terminal)
      BY <1>1, <2>1 DEF TaskInv, InvAwaits
    <3>2. Current(t, t.report, FALSE) => AwaitsMain(t)
      BY <3>1 DEF Current, AwaitsMain, Terminal
    <3>3. Current(t, t.report, FALSE) => IsOf(t.report, t)
      BY <1>1, <3>2 DEF Current, TaskInv, InvAwaits
    <3> QED
      BY <3>1, <3>3 DEF ReportAgrees, IsOf
  <2>2. ASSUME t.pending # NoReport PROVE ReportAgrees(t, t.pending, TRUE) /\ DecisionAgrees(t, t.pending, TRUE)
    BY <1>1, <2>2 DEF TaskInv, InvPending, ReportAgrees, DecisionAgrees, IsOf
  <2>3. t.report # NoReport /\ t.pending # NoReport =>
          t.report.id # t.pending.id /\ (t.report.attempt = t.pending.attempt => t.report.plan = t.pending.plan)
    BY <1>1 DEF TaskInv, InvPending, InvAwaits, IsOf
  <2> QED
    BY <1>1, <2>1, <2>2, <2>3 DEF ReportsAgree, TaskInv, InvDecided
<1>4. LastAgrees(m) /\ FixIsRetained(m)
  BY <1>1 DEF TaskInv, InvDecided, LastAgrees, FixIsRetained
<1>5. t.index \in DOMAIN t.steps /\ DOMAIN t.steps = 1..Len(t.steps) /\ Len(t.steps) \in Nat
  BY <1>1, TaskFacts DEF TaskInv, InvIds
<1>6. ReplansFit(m)
  BY <1>1, <1>5 DEF TaskInv, InvBooks, ReplansFit
<1>7. ReportsInPlan(m) \/ StepReplaced(t)
  <2>1. t.pending # NoReport => t.pending.step \in StepIds(t)
    BY <1>1, <1>5 DEF TaskInv, InvPending, IsOf, StepIds
  <2> QED
    BY <1>1, <2>1 DEF TaskInv, InvSteps, ReportsInPlan
<1>8. RepairsFit(m) \/ RepairsOverflow(t)
  <2>1. t.repairs.kept \in Nat /\ t.repairs.used \in Nat /\ RepairsKept \in Nat
    BY <1>1, TaskFacts, RecordsAssumption DEF BookType
  <2> QED
    BY <1>1, <2>1 DEF TaskInv, InvBooks, RepairsFit, RepairsOverflow
<1> QED
  BY <1>2, <1>3, <1>4, <1>6, <1>7, <1>8

\* What init makes of a state that was saved may be saved.
LEMMA LoadedContract ==
  ASSUME NEW m, NEW k \in CountType, StateInv(m, k), Contract(m)
  PROVE  Contract([m EXCEPT !.task = Restarted(@)])
<1> DEFINE w == [m EXCEPT !.task = Restarted(@)]
<1> SUFFICES Contract(w)
  OBVIOUS
<1>0. Later(k, k)
  BY CountFacts DEF Later
<1>1. /\ StateInv(w, k) /\ w.history = m.history /\ (m.task = NoTask => w = m)
      /\ m.task # NoTask => w.task # NoTask /\ Alike(m.task, w.task) /\ w.task.pending = m.task.pending
  BY <1>0, RestartedState
<1> HIDE DEF w
<1>2. CASE m.task = NoTask
  BY <1>1, <1>2
<1>3. CASE m.task # NoTask
  <2>1. StepsOnce(w) /\ ReportsAgree(w) /\ LastAgrees(w) /\ FixIsRetained(w) /\ ReplansFit(w)
    BY <1>1, <1>3, TaskAgrees
  <2>2. m.task \in TaskType /\ m.task.id # 0
    BY <1>3, StateFacts, TaskFacts DEF StateInv
  <2>3. ReportsInPlan(w)
    BY <1>1, <1>3, <2>2 DEF Contract, ReportsInPlan, StepIds, Alike
  <2>4. TasksOnce(w)
    BY <1>1, <1>3 DEF Contract, TasksOnce, HistoryOnce, TaskNotEnded, Alike
  <2>5. NoticesAgree(w)
    BY <1>1 DEF StateInv, InvNotices
  <2>6. RepairsFit(w)
    BY <1>1, <1>3, <2>2 DEF Contract, RepairsFit, Alike
  <2> QED
    BY <2>1, <2>3, <2>4, <2>5, <2>6 DEF Contract
<1> QED
  BY <1>2, <1>3

\* Each step behind the current one has one decision that ended it.
LEMMA EndedOnce ==
  ASSUME NEW m, NEW k, StateInv(m, k), m.task.id # 0, ~FinalOnly, NEW i \in DOMAIN m.task.steps
  PROVE  Cardinality(EndedAt(m.task, i)) = IF i < m.task.index \/ m.task.status = "completed" THEN 1 ELSE 0
<1> DEFINE t == m.task
<1>1. t \in TaskType /\ TaskInv(t, k)
  <2>1. m.task # NoTask
    BY DEF NoTask
  <2> QED
    BY <2>1, StateFacts DEF StateInv
<1>2. i \in 1..Len(t.steps) /\ i \in Nat \ {0} /\ t.index \in Nat
  BY <1>1, TaskFacts
<1>3. Behind(t, i) <=> i < t.index \/ t.status = "completed"
  <2>1. t.status = "completed" => i <= t.index
    BY <1>1, <1>2 DEF TaskInv, InvEnded
  <2> QED
    BY <1>2, <2>1 DEF Behind
<1>4. IF Behind(t, i) THEN \E r \in DOMAIN t.decisions : EndedAt(t, i) = {r} ELSE EndedAt(t, i) = {}
  BY <1>1, <1>2 DEF TaskInv, InvEnded
<1>5. CASE Behind(t, i)
  BY <1>3, <1>4, <1>5, FS_Singleton
<1>6. CASE ~Behind(t, i)
  BY <1>3, <1>4, <1>6, FS_EmptySet
<1> QED
  BY <1>5, <1>6

-----------------------------------------------------------------------------
(* The history.  Memory and disk together: a report that is pending in     *)
(* memory is pending on disk, and a task is listed as ended only once      *)
(* resume has put such a report aside.                                     *)

PendingOnDisk == saved.task.id = mem.task.id /\ saved.task.pending # NoReport
InvHistory ==
  /\ HistoryOnce(mem)
  /\ mem.task.id # 0 => /\ TaskNotEnded(mem) \/ ReportArchived
                        /\ mem.task.pending # NoReport => PendingOnDisk

\* A step that leaves the history and the task, and at most forgets the report not yet published.
Kept(m) == m.history = mem.history /\ m.task.id = mem.task.id /\ m.task.pending \in {mem.task.pending, NoReport}
WrittenAs(m) == mem' = m /\ (saved' = saved \/ (saved' = m /\ Contract(m)))

LEMMA KeptHistory == ASSUME InvHistory, NEW m, WrittenAs(m), Kept(m) \/ (saved' = m /\ Contract(m)) PROVE InvHistory'
<1>1. CASE saved' = m /\ Contract(m)
  <2>1. mem' = m /\ saved' = m /\ HistoryOnce(m) /\ TaskNotEnded(m)
    BY <1>1 DEF WrittenAs, Contract, TasksOnce
  <2> QED
    BY <2>1 DEF InvHistory, HistoryOnce, TaskNotEnded, PendingOnDisk
<1>2. CASE Kept(m) /\ saved' = saved
  <2>1. mem' = m /\ saved' = saved /\ m.history = mem.history /\ m.task.id = mem.task.id
        /\ m.task.pending \in {mem.task.pending, NoReport}
    BY <1>2 DEF WrittenAs, Kept
  <2> QED
    BY <2>1 DEF InvHistory, HistoryOnce, TaskNotEnded, ReportArchived, PendingOnDisk
<1> QED
  BY <1>1, <1>2 DEF WrittenAs

\* u is t, or t with its pending report forgotten, as far as the history is concerned.
Same(t, u) == {"id", "pending"} \subseteq DOMAIN u /\ u.id = t.id /\ u.pending \in {t.pending, NoReport}

LEMMA SameTask ==
  ASSUME NEW t, NEW u, Same(t, u)
  PROVE  /\ \A s : Same(t, [u EXCEPT !.status = s]) /\ Same(t, [u EXCEPT !.status = s, !.prev = "none"])
         /\ Same(t, Interrupted(u)) /\ Same(t, Rotated(u)) /\ Same(t, NextStep(u)) /\ Same(t, CountedReplan(u))
         /\ Same(t, [u EXCEPT !.pending = NoReport]) /\ Same(t, Repairing(u))
         /\ Same(t, [u EXCEPT !.repairs = Booked(u, 0)])
         /\ Same(t, [u EXCEPT !.fix = u.report.id]) /\ Same(t, [u EXCEPT !.fix = 0])
         /\ Same(t, [u EXCEPT !.report.inspected = TRUE])
         /\ Same(t, [u EXCEPT !.replans = [index |-> 1, count |-> 0]])
         /\ \A action : Same(t, Decided(u, action))
         /\ \A steps : Same(t, Revised(u, steps))
<1> USE DEF Same
<1>1. \A s : Same(t, [u EXCEPT !.status = s]) /\ Same(t, [u EXCEPT !.status = s, !.prev = "none"])
  OBVIOUS
<1>2. Same(t, Interrupted(u)) /\ Same(t, Rotated(u)) /\ Same(t, NextStep(u)) /\ Same(t, CountedReplan(u))
  BY DEF Interrupted, Rotated, NextStep, CountedReplan
<1>3. Same(t, [u EXCEPT !.pending = NoReport]) /\ Same(t, Repairing(u)) /\ Same(t, [u EXCEPT !.repairs = Booked(u, 0)])
  BY DEF Repairing
<1>4. /\ Same(t, [u EXCEPT !.fix = u.report.id]) /\ Same(t, [u EXCEPT !.fix = 0])
      /\ Same(t, [u EXCEPT !.report.inspected = TRUE]) /\ Same(t, [u EXCEPT !.replans = [index |-> 1, count |-> 0]])
  OBVIOUS
<1>5. ASSUME NEW action PROVE Same(t, Decided(u, action))
  BY DEF Decided
<1>6. ASSUME NEW steps PROVE Same(t, Revised(u, steps))
  <2>1. Same(t, Decided(u, "revise"))
    BY <1>5
  <2> DEFINE d == Decided(u, "revise")
  <2> HIDE DEF d
  <2>2. Same(t, d)
    BY <2>1 DEF d
  <2>3. \A a, b, c, e : Same(t, [d EXCEPT !.revisions = a, !.stepRevisions = b, !.steps = c, !.plan = e])
    BY <2>2
  <2> QED
    BY <2>3 DEF Revised, d
<1> QED
  BY <1>1, <1>2, <1>3, <1>4, <1>5, <1>6

LEMMA SameState ==
  ASSUME RecordsInv, NEW u, Same(mem.task, u)
  PROVE  /\ Kept(WithTask(u)) /\ Kept(Resolved(WithTask(u))) /\ Kept(Notices(WithTask(u), "resolved"))
<1> DEFINE w == WithTask(u)
<1>1. DOMAIN mem = {"task", "history", "notices"}
  BY MemFacts DEF StateType
<1>2. w.history = mem.history /\ w.task = u /\ DOMAIN w = DOMAIN mem
  BY <1>1 DEF WithTask
<1> HIDE DEF w
<1>3. \A f : LET z == [w EXCEPT !.notices = f] IN z.history = mem.history /\ z.task = u
  BY <1>1, <1>2
<1> QED
  BY <1>2, <1>3 DEF Kept, Same, Resolved, Notices, w

LEMMA SameAsIs == ASSUME NEW t \in TaskType PROVE Same(t, t)
BY DEF Same, TaskType

\* Steps of a task that is not the empty one.
LEMMA WrittenBy ==
  ASSUME NEW m, Stored(m) \/ ControlStored(m) \/ Activates(m)
  PROVE  WrittenAs(m)
BY DEF Stored, ControlStored, Activates, WrittenAs

\* Appending an entry that is not there, and dropping the oldest ones, keeps the entries apart.
LEMMA RetainedOnce ==
  ASSUME NEW h \in Seq(1..MaxTasks), NEW id \in 1..MaxTasks, \A i, j \in DOMAIN h : h[i] = h[j] => i = j,
         id \notin {h[i] : i \in DOMAIN h}
  PROVE  LET r == RetainedIn(h, id) IN \A i, j \in DOMAIN r : r[i] = r[j] => i = j
<1> DEFINE all == Append(h, id)
           from == IF Len(all) > HistoryKept THEN Len(all) - HistoryKept + 1 ELSE 1
           r == SubSeq(all, from, Len(all))
           z == Len(all)
<1>1. all \in Seq(1..MaxTasks) /\ z = Len(h) + 1 /\ Len(h) \in Nat /\ z \in Nat /\ HistoryKept \in Nat
      /\ all[z] = id /\ \A i \in 1..Len(h) : all[i] = h[i]
  BY RecordsAssumption
<1>2. \A i, j \in 1..z : all[i] = all[j] => i = j
  <2>1. DOMAIN h = 1..Len(h)
    OBVIOUS
  <2> HIDE DEF all, z
  <2>2. \A i \in 1..z : i = z \/ i \in 1..Len(h)
    BY <1>1
  <2> QED
    BY <1>1, <2>1, <2>2
<1>3. from \in Nat /\ from >= 1 /\ from <= z + 1
  BY <1>1
<1>4. DOMAIN r = 1..(z - from + 1) /\ \A i \in 1..(z - from + 1) : r[i] = all[from + i - 1]
  <2> HIDE DEF all, from
  <2>1. \A i \in from..z : all[i] \in 1..MaxTasks
    <3> TAKE i \in from..z
    <3>1. i \in 1..Len(all)
      BY <1>1, <1>3
    <3> QED
      BY <1>1, <3>1, EntryOf
  <2> QED
    BY <1>1, <1>3, <2>1
<1>5. r = RetainedIn(h, id)
  BY DEF RetainedIn
<1> HIDE DEF r, all, from, z
<1>6. ASSUME NEW i \in DOMAIN r, NEW j \in DOMAIN r, r[i] = r[j] PROVE i = j
  <2>1. i \in Nat /\ j \in Nat /\ from + i - 1 \in 1..z /\ from + j - 1 \in 1..z
    BY <1>1, <1>3, <1>4
  <2>2. from + i - 1 = from + j - 1
    BY <1>2, <1>4, <1>6, <2>1
  <2> QED
    BY <1>3, <2>1, <2>2
<1> QED
  BY <1>5, <1>6

\* The report is saved with the task: a running task is the one on disk.
LEMMA AcceptHistory ==
  ASSUME RecordsInv, RecordsInv', InvHistory, NEW kind \in Kinds, NEW complete \in BOOLEAN, Accept(kind, complete)
  PROVE  InvHistory'
<1> DEFINE t == mem.task
           r == [id |-> n.reports + 1, kind |-> kind, attempt |-> t.attempt, plan |-> t.plan,
                 step |-> t.steps[t.index].id, complete |-> complete, inspected |-> FALSE]
           u == [t EXCEPT !.pending = r, !.status = "awaiting_settle"]
           m == WithTask(u)
<1>1. t.status = "running" /\ ControlStored(m)
  BY DEF Accept
<1>2. t \in TaskType /\ TaskInv(t, n) /\ t # NoTask /\ t.id # 0 /\ mem = saved /\ Contract(mem)
  BY <1>1, MemFacts, TaskFacts DEF RecordsInv, InvWork
<1>3. r.step \in StepIds(t)
  BY <1>2, TaskFacts DEF TaskInv, InvIds, StepIds
<1>4. /\ u.id = t.id /\ u.pending = r /\ u.steps = t.steps /\ u.report = t.report /\ u.repairs = t.repairs /\ u # NoTask
      /\ m.task = u /\ m.history = mem.history
  <2> HIDE DEF r
  <2>1. u.id = t.id /\ u.pending = r /\ u.steps = t.steps /\ u.report = t.report /\ u.repairs = t.repairs
    BY <1>2 DEF TaskType
  <2> HIDE DEF u
  <2>2. m.task = u /\ m.history = mem.history
    BY MemFacts DEF WithTask, StateType
  <2>3. u # NoTask
    BY <1>2, <2>1 DEF NoTask
  <2> QED
    BY <2>1, <2>2, <2>3
<1>5. mem' = m /\ StateInv(m, n')
  BY <1>1 DEF ControlStored, Stored, RecordsInv
<1> HIDE DEF r, u, m
<1>6. Contract(m)
  <2>1. StepsOnce(m) /\ ReportsAgree(m) /\ LastAgrees(m) /\ FixIsRetained(m) /\ ReplansFit(m)
    BY <1>4, <1>5, TaskAgrees
  <2>2. NoticesAgree(m)
    BY <1>5 DEF StateInv, InvNotices
  <2>3. TasksOnce(m)
    BY <1>2, <1>4 DEF Contract, TasksOnce, HistoryOnce, TaskNotEnded
  <2>4. ReportsInPlan(m)
    <3>1. t.report # NoReport => t.report.step \in StepIds(t)
      BY <1>2 DEF Contract, ReportsInPlan
    <3>2. StepIds(u) = StepIds(t)
      BY <1>4 DEF StepIds
    <3> QED
      BY <1>3, <1>4, <3>1, <3>2 DEF ReportsInPlan
  <2>5. RepairsFit(m)
    BY <1>2, <1>4 DEF Contract, RepairsFit
  <2> QED
    BY <2>1, <2>2, <2>3, <2>4, <2>5 DEF Contract
<1>7. saved' = m /\ WrittenAs(m)
  BY <1>1, <1>6 DEF ControlStored, Stored, WrittenAs
<1> QED
  BY <1>6, <1>7, KeptHistory

\* The one handler that lists a task as ended which is still under way.
LEMMA ResumeHistory == ASSUME RecordsInv, InvHistory, Resume PROVE InvHistory'
<1> DEFINE t == mem.task
<1>1. t.status \in {"paused", "interrupted"}
  BY DEF Resume
<1>2. t \in TaskType /\ t # NoTask /\ t.id # 0 /\ t.id \in 1..MaxTasks /\ Same(t, t)
  BY <1>1, MemFacts, TaskFacts, SameAsIs
<1>3. CASE Restorable(t)
  <2>1. Stored(WithTask(RestoredTask(t)))
    BY <1>3 DEF Resume
  <2>2. Same(t, RestoredTask(t))
    BY <1>2, SameTask DEF RestoredTask
  <2> QED
    BY <2>1, <2>2, SameState, WrittenBy, KeptHistory
<1>4. CASE ~Restorable(t)
  <2> DEFINE u == Rotated([t EXCEPT !.pending = NoReport])
             h == IF t.pending = NoReport THEN mem.history ELSE RetainedIn(mem.history, t.id)
             m == Resumed(mem)
  <2>1. WrittenAs(m)
    BY <1>4, WrittenBy DEF Resume
  <2>2. m.task = u /\ m.history = h
    <3>1. DOMAIN mem = {"task", "history", "notices"}
      BY MemFacts DEF StateType
    <3>2. m = Superseded([mem EXCEPT !.task = u, !.history = h])
      BY DEF Resumed
    <3> HIDE DEF u, h, m
    <3>3. \A f : LET y == [[mem EXCEPT !.task = u, !.history = h] EXCEPT !.notices = f] IN y.task = u /\ y.history = h
      BY <3>1
    <3> QED
      BY <3>2, <3>3 DEF Superseded
  <2>3. u.id = t.id /\ u.pending = NoReport
    BY <1>2 DEF Rotated, TaskType
  <2> HIDE DEF m, u
  <2>4. CASE t.pending = NoReport
    BY <2>1, <2>2, <2>3, <2>4, KeptHistory DEF Kept
  <2>5. CASE t.pending # NoReport /\ saved' = saved
    <3>1. TaskNotEnded(mem) /\ PendingOnDisk /\ HistoryOnce(mem)
      BY <1>2, <2>5 DEF InvHistory, ReportArchived
    <3>2. mem.history \in Seq(1..MaxTasks)
      BY MemFacts, StateFacts
    <3>3. \A i, j \in DOMAIN h : h[i] = h[j] => i = j
      BY <1>2, <2>5, <3>1, <3>2, RetainedOnce DEF HistoryOnce, TaskNotEnded
    <3> HIDE DEF h
    <3>4. mem' = m
      BY <2>1 DEF WrittenAs
    <3>5. HistoryOnce(mem')
      BY <2>2, <3>3, <3>4 DEF HistoryOnce
    <3>6. mem'.task.pending = NoReport /\ saved'.task.id = mem'.task.id /\ saved'.task.pending # NoReport
      BY <2>2, <2>3, <2>5, <3>1, <3>4 DEF PendingOnDisk
    <3> QED
      BY <3>5, <3>6 DEF InvHistory, ReportArchived, HistoryOnce
  <2>6. CASE saved' # saved
    BY <2>1, <2>6, KeptHistory DEF WrittenAs
  <2> QED
    BY <2>4, <2>5, <2>6
<1> QED
  BY <1>3, <1>4

\* The handlers that decide, and those that repair, hold or end a task.
LEMMA DecideHistory == ASSUME RecordsInv, InvHistory, Decide PROVE InvHistory'
<1> DEFINE t == mem.task
<1>1. t.status \in Waiting
  BY DEF Decide, SendBack, Approve, Revise, Fix, Fixed, DecideCancel, MayDecide
<1>2. t \in TaskType /\ t # NoTask /\ Same(t, t)
  BY <1>1, MemFacts, SameAsIs DEF Waiting
<1>3. ASSUME NEW u, Same(t, u), Continues(u) PROVE InvHistory'
  <2>1. Same(t, Rotated(u))
    BY <1>3, SameTask
  <2> QED
    BY <1>3, <2>1, SameState, WrittenBy, KeptHistory DEF Continues
<1>4. ASSUME NEW u, Same(t, u), Completed(u) PROVE InvHistory'
  <2>1. Same(t, [u EXCEPT !.status = "completed"])
    BY <1>4, SameTask
  <2> QED
    BY <1>4, <2>1, SameState, WrittenBy, KeptHistory DEF Completed
<1>5. ASSUME NEW u, Same(t, u), mem' = WithTask(u) \/ mem' = Resolved(WithTask(u)), saved' = saved PROVE InvHistory'
  <2>1. Kept(mem') /\ WrittenAs(mem')
    BY <1>5, SameState DEF WrittenAs
  <2> QED
    BY <2>1, KeptHistory
<1>6. CASE \E a \in {"answer", "repair"} : SendBack(a)
  BY <1>2, <1>3, <1>6, SameTask DEF SendBack
<1>7. CASE Approve
  <2> DEFINE d == Decided(t, "approve")
  <2>1. Same(t, d)
    BY <1>2, SameTask
  <2>2. Same(t, NextStep(d))
    BY <2>1, SameTask
  <2> QED
    BY <1>3, <1>4, <1>7, <2>1, <2>2 DEF Approve
<1>8. CASE Revise
  <2> DEFINE c == CountedReplan(t)
  <2>1. Same(t, c)
    BY <1>2, SameTask
  <2>2. \A steps : Same(t, Revised(c, steps))
    BY <2>1, SameTask
  <2> QED
    BY <1>3, <1>5, <1>8, <2>1, <2>2 DEF Revise
<1>9. CASE Fix
  <2>1. Same(t, [t EXCEPT !.fix = t.report.id])
    BY <1>2, SameTask
  <2> QED
    BY <1>9, <2>1, SameState, WrittenBy, KeptHistory DEF Fix
<1>10. CASE Fixed
  <2> DEFINE d == FixedTask(t)
             moved == [NextStep(d) EXCEPT !.replans = [index |-> 1, count |-> 0]]
  <2>1. Same(t, Decided(t, "fixed"))
    BY <1>2, SameTask
  <2>2. Same(t, d)
    BY <2>1, SameTask DEF FixedTask
  <2>3. Same(t, NextStep(d))
    BY <2>2, SameTask
  <2>4. Same(t, moved)
    BY <2>3, SameTask
  <2> QED
    BY <1>3, <1>4, <1>5, <1>10, <2>2, <2>4 DEF Fixed
<1>11. CASE DecideCancel
  <2> DEFINE v == Adding(t.decisions, t.report.id, Verdict(t, "cancel"))
             d == [t EXCEPT !.decisions = v]
  <2>1. Same(t, d)
    <3> HIDE DEF v
    <3> QED
      BY <1>2 DEF Same
  <2>2. Same(t, [d EXCEPT !.status = "cancelled"])
    BY <2>1, SameTask
  <2> QED
    BY <1>11, <2>2, SameState, WrittenBy, KeptHistory DEF DecideCancel, Cancelled
<1> QED
  BY <1>6, <1>7, <1>8, <1>9, <1>10, <1>11 DEF Decide

\* Steps of an activation, of a report and of the user.
LEMMA HoldHistory ==
  ASSUME RecordsInv, InvHistory,
         \/ Grant \/ HoldsAtLimit \/ ActivationFails \/ PublishReport \/ AutoRepair \/ AutoRepairRefused \/ Unfrozen
         \/ Inspect \/ Cancel \/ Pause \/ ProcessEnds \/ Stop \/ BookRecovery
  PROVE  InvHistory'
<1> DEFINE t == mem.task
<1>1. CASE t = NoTask
  <2>1. Stop
    BY <1>1, MemFacts DEF NoTask, Grant, HoldsAtLimit, ActivationFails, WorkCurrent, PublishReport, AutoRepair, AutoRepairRefused,
       Unfrozen, Freezing, Inspect, Cancel, Active, Terminal, Pause, ProcessEnds, BookRecovery
  <2>2. Interrupted(t) = t /\ WithTask(t) = mem
    BY <1>1, MemFacts DEF Interrupted, Unwaiting, WithTask, StateType
  <2> QED
    BY <2>1, <2>2, WrittenBy, KeptHistory DEF Stop, Kept
<1>2. CASE t # NoTask
  <2>1. t \in TaskType /\ Same(t, t)
    BY <1>2, MemFacts, SameAsIs
  <2>2. ASSUME NEW u, Same(t, u), WrittenAs(WithTask(u)) \/ WrittenAs(Notices(WithTask(u), "resolved")) PROVE InvHistory'
    BY <2>2, SameState, KeptHistory
  <2>3. CASE Grant
    <3> DEFINE u == [t EXCEPT !.status = "running"]
    <3>1. Same(t, u) /\ Same(t, Interrupted(u))
      BY <2>1, SameTask
    <3>2. WithTask(u).task = u
      BY MemFacts DEF WithTask, StateType
    <3>3. WrittenAs(WithTask(u)) \/ WrittenAs(WithTask(Interrupted(u)))
      BY <2>3, <3>2, WrittenBy DEF Grant, WrittenAs
    <3> QED
      BY <2>2, <3>1, <3>3
  <2>4. CASE HoldsAtLimit \/ ActivationFails \/ Unfrozen \/ ProcessEnds \/ Stop
    BY <2>1, <2>2, <2>4, SameTask, WrittenBy DEF HoldsAtLimit, ActivationFails, Unfrozen, ProcessEnds, Stop
  <2>5. CASE PublishReport
    <3> DEFINE u == [t EXCEPT !.report = t.pending, !.pending = NoReport, !.status = StatusFor(t.pending.kind)]
               f == Adding(mem.notices, t.pending.id, [task |-> t.id, attempt |-> t.attempt, status |-> "pending"])
               m == [mem EXCEPT !.task = u, !.notices = f]
    <3>1. u.id = t.id /\ u.pending = NoReport
      BY <2>1 DEF TaskType
    <3>2. WrittenAs(m)
      BY <2>5, WrittenBy DEF PublishReport, Publishes
    <3> HIDE DEF u, f
    <3>3. m.task = u /\ m.history = mem.history
      BY MemFacts DEF StateType
    <3> HIDE DEF m
    <3> QED
      BY <3>1, <3>2, <3>3, KeptHistory DEF Kept
  <2>6. CASE AutoRepair \/ AutoRepairRefused
    <3>1. Same(t, Repairing(t))
      BY <2>1, SameTask
    <3>2. Same(t, Rotated(Repairing(t)))
      BY <3>1, SameTask
    <3>3. WrittenAs(WithTask(Repairing(t))) \/ WrittenAs(WithTask(Rotated(Repairing(t))))
      BY <2>6, WrittenBy DEF AutoRepair, AutoRepairRefused, WrittenAs
    <3> QED
      BY <2>2, <3>1, <3>2, <3>3
  <2>7. CASE Inspect
    BY <2>1, <2>2, <2>7, SameTask, WrittenBy DEF Inspect
  <2>8. CASE Cancel
    BY <2>1, <2>2, <2>8, SameTask, WrittenBy DEF Cancel, Cancelled
  <2>9. CASE Pause
    <3> DEFINE prev == IF t.status = "paused" THEN t.prev ELSE t.status
               u == [t EXCEPT !.prev = prev, !.status = "paused"]
    <3>1. ControlStored(WithTask(u))
      BY <2>9 DEF Pause
    <3> HIDE DEF prev
    <3>2. Same(t, u)
      BY <2>1 DEF Same
    <3> HIDE DEF u
    <3> QED
      BY <2>2, <3>1, <3>2, WrittenBy
  <2>10. CASE BookRecovery
    BY <2>1, <2>2, <2>10, SameTask, WrittenBy DEF BookRecovery
  <2> QED
    BY <2>3, <2>4, <2>5, <2>6, <2>7, <2>8, <2>9, <2>10
<1> QED
  BY <1>1, <1>2

\* What is saved afresh: a dispatch that succeeded, and a restart.
LEMMA LoadHistory == ASSUME RecordsInv, InvHistory, DispatchTask \/ Restart PROVE InvHistory'
<1>1. CASE Restart
  <2>1. Contract(LoadedState)
    BY LoadedContract DEF RecordsInv, InvWork, LoadedState
  <2> HIDE DEF LoadedState
  <2>2. Stored(LoadedState)
    BY <1>1 DEF Restart
  <2> QED
    BY <2>1, <2>2, KeptHistory DEF Stored, WrittenAs
<1>2. CASE DispatchTask
  <2> DEFINE m == Succeeded(Archived(mem), NewTask(n.tasks + 1, n.attempts + 1))
  <2>1. CASE Contract(m)
    <3>1. Stored(m)
      BY <1>2, <2>1 DEF DispatchTask
    <3> HIDE DEF m
    <3> QED
      BY <2>1, <3>1, KeptHistory DEF Stored, WrittenAs
  <2>2. CASE ~Contract(m)
    <3>1. mem' = Archived(mem) /\ saved' = saved
      BY <1>2, <2>2 DEF DispatchTask
    <3>2. Archived(mem).task = mem.task /\ Archived(mem).history = mem.history
      BY MemFacts, ArchivedState
    <3> QED
      BY <3>1, <3>2, KeptHistory DEF WrittenAs, Kept
  <2> QED
    BY <2>1, <2>2
<1> QED
  BY <1>1, <1>2

LEMMA HistoryStep ==
  ASSUME RecordsInv, RecordsInv', InvHistory, [RecordsNext]_recordVars
  PROVE  InvHistory'
<1>1. CASE UNCHANGED recordVars
  BY <1>1 DEF recordVars, InvHistory, HistoryOnce, TaskNotEnded, ReportArchived, PendingOnDisk
<1>2. CASE RecordsNext
  BY <1>2, HoldHistory, DecideHistory, LoadHistory, AcceptHistory, ResumeHistory DEF RecordsNext
<1> QED
  BY <1>1, <1>2

\* No task is listed as ended twice, and one under way only behind a report that resume put aside.
THEOREM HistoryInvariant == RecordsSpec => []InvHistory
<1>1. RecordsInit => InvHistory
  <2> SUFFICES ASSUME RecordsInit PROVE InvHistory
    OBVIOUS
  <2>1. mem.task = NoTask /\ mem.history = << >>
    BY DEF RecordsInit
  <2>2. NoTask.id = 0 /\ DOMAIN mem.history = {}
    BY <2>1 DEF NoTask
  <2> QED
    BY <2>1, <2>2 DEF InvHistory, HistoryOnce
<1>2. RecordsInv /\ RecordsInv' /\ InvHistory /\ [RecordsNext]_recordVars => InvHistory'
  BY HistoryStep
<1>3. RecordsSpec => []RecordsInv
  BY RecordsInvariant
<1> QED
  BY <1>1, <1>2, <1>3, PTL DEF RecordsSpec

-----------------------------------------------------------------------------
(* The properties. *)

\* Whatever handlers ran, and whether or not their saves went through, memory meets the whole contract of a task
\* (checkStoredTask and checkRetainedReferences, contracts.js 581-682 and 812-891) but for the three things RecordsAgree
\* names: a step a revise replaced, a report put aside by resume, and more repairs than are retained.
THEOREM RecordsAgreeHolds == RecordsSpec => []RecordsAgree
<1>1. RecordsInv /\ InvHistory => RecordsAgree
  <2> SUFFICES ASSUME RecordsInv, InvHistory PROVE RecordsAgree
    OBVIOUS
  <2>1. StateInv(mem, n) /\ NoticesAgree(mem)
    BY DEF RecordsInv, StateInv, InvNotices
  <2>2. mem.task.id # 0 => mem.task # NoTask
    BY DEF NoTask
  <2>3. HistoryOnce(mem) /\ (mem.task.id # 0 => TaskNotEnded(mem) \/ ReportArchived)
    BY DEF InvHistory
  <2> QED
    BY <2>1, <2>2, <2>3, TaskAgrees DEF RecordsAgree
<1>2. RecordsSpec => []RecordsInv
  BY RecordsInvariant
<1>3. RecordsSpec => []InvHistory
  BY HistoryInvariant
<1> QED
  BY <1>1, <1>2, <1>3, PTL

\* What init makes of any state that was saved may be saved again (controller.js 319-357).
THEOREM LoadsAgainHolds == RecordsSpec => []LoadsAgain
<1>1. RecordsInv => LoadsAgain
  BY LoadedContract DEF RecordsInv, InvWork, LoadsAgain, LoadedState
<1>2. RecordsSpec => []RecordsInv
  BY RecordsInvariant
<1> QED
  BY <1>1, <1>2, PTL

\* Every step behind the current one was ended by one decision, in memory and on disk, and a task waits on a
\* decided report only when a Main fix could not continue (decide, completeMainFix: controller.js 2395-2521).
THEOREM DecisionsCountOnceHolds == RecordsSpec => []DecisionsCountOnce
<1>1. RecordsInv => DecisionsCountOnce
  <2> SUFFICES ASSUME RecordsInv PROVE DecisionsCountOnce
    OBVIOUS
  <2>1. StepsEndedOnce
    BY EndedOnce DEF RecordsInv, StepsEndedOnce
  <2>2. DecidedMovesOn
    <3>1. mem.task.status \in Waiting => mem.task \in TaskType /\ TaskInv(mem.task, n) /\ AwaitsMain(mem.task)
      BY MemFacts DEF Waiting, AwaitsMain
    <3> QED
      BY <3>1 DEF DecidedMovesOn, TaskInv, InvAwaits
  <2> QED
    BY <2>1, <2>2 DEF DecisionsCountOnce
<1>2. RecordsSpec => []RecordsInv
  BY RecordsInvariant
<1> QED
  BY <1>1, <1>2, PTL

\* The attempt that starts or runs is the one state.json names; one left activating with nothing under way was never saved.
THEOREM ActivationsAreSavedHolds == RecordsSpec => []ActivationsAreSaved
<1>1. RecordsInv => ActivationsAreSaved
  BY DEF RecordsInv, InvWork, ActivationsAreSaved
<1>2. RecordsSpec => []RecordsInv
  BY RecordsInvariant
<1> QED
  BY <1>1, <1>2, PTL

\* The types of a state.
LEMMA StateTyped ==
  ASSUME NEW m, NEW k \in CountType, StateInv(m, k)
  PROVE  /\ DOMAIN m = {"task", "history", "notices"}
         /\ m.history \in Seq(1..MaxTasks) /\ Len(m.history) <= HistoryKept
         /\ m.task.id \in 0..MaxTasks /\ m.task.status \in Statuses
         /\ m.task.id # 0 =>
              /\ m.task.prev \in Statuses \cup {"none"} /\ m.task.index \in 1..Len(m.task.steps)
              /\ m.task.report.id \in 0..MaxReports /\ m.task.pending.id \in 0..MaxReports
              /\ \A r \in DOMAIN m.task.decisions : m.task.decisions[r].action \in Actions
         /\ \A r \in DOMAIN m.notices : m.notices[r].status \in {"pending", "resolved", "superseded"}
<1> DEFINE t == m.task
<1>1. m \in StateType /\ Len(m.history) <= HistoryKept /\ m.history \in Seq(1..MaxTasks) /\ m.notices \in Maps(NoticeType)
      /\ t \in TaskType \cup {NoTask}
  BY StateFacts DEF StateInv
<1>2. DOMAIN m = {"task", "history", "notices"}
  BY <1>1 DEF StateType
<1>3. \A r \in DOMAIN m.notices : m.notices[r].status \in {"pending", "resolved", "superseded"}
  <2>1. \A r \in DOMAIN m.notices : m.notices[r] \in NoticeType
    BY <1>1, MapFacts
  <2> QED
    BY <2>1 DEF NoticeType
<1>4. CASE t = NoTask
  <2>1. t.id = 0 /\ t.status = "completed" /\ 0 \in 0..MaxTasks /\ "completed" \in Statuses
    BY <1>4, RecordsAssumption DEF NoTask, Statuses, Terminal
  <2> QED
    BY <1>1, <1>2, <1>3, <2>1
<1>5. CASE t # NoTask
  <2>1. t \in TaskType /\ TaskInv(t, k)
    BY <1>1, <1>5 DEF StateInv
  <2>2. t.id \in 1..MaxTasks /\ t.status \in Statuses /\ t.prev \in Statuses \cup {"none"} /\ t.decisions \in Maps(VerdictType)
        /\ t.report \in Reported /\ t.pending \in Reported
    BY <2>1, TaskFacts
  <2>3. \A r \in Reported : r.id \in 0..MaxReports
    BY RecordsAssumption DEF Reported, ReportType, NoReport
  <2>4. \A r \in DOMAIN t.decisions : t.decisions[r].action \in Actions
    <3>1. \A r \in DOMAIN t.decisions : t.decisions[r] \in VerdictType
      BY <2>2, MapFacts
    <3> QED
      BY <3>1 DEF VerdictType
  <2>5. t.index \in 1..Len(t.steps)
    BY <2>1 DEF TaskInv, InvIds
  <2> QED
    BY <1>1, <1>2, <1>3, <2>2, <2>3, <2>4, <2>5
<1> QED
  BY <1>4, <1>5

\* Every variable keeps its type.
THEOREM RecordsTyped == RecordsSpec => []RecordsTypeOK
<1>1. RecordsInv => RecordsTypeOK
  <2> SUFFICES ASSUME RecordsInv PROVE RecordsTypeOK
    OBVIOUS
  <2>1. n \in CountType /\ StateInv(mem, n) /\ StateInv(saved, n)
    BY DEF RecordsInv
  <2>2. work \in 0..n.attempts
    <3>1. work \in Nat /\ (work # 0 => mem.task # NoTask /\ mem.task.attempt = work)
      BY DEF RecordsInv, InvWork
    <3>2. mem.task # NoTask => mem.task.attempt <= n.attempts
      BY <2>1 DEF StateInv, TaskInv, InvIds
    <3> QED
      BY <2>1, <3>1, <3>2, CountFacts
  <2>3. n.tasks \in 0..MaxTasks /\ n.reports \in 0..MaxReports /\ n.events \in 0..MaxEvents
    BY <2>1 DEF CountType
  <2> QED
    BY <2>1, <2>2, <2>3, MemFacts, StateTyped DEF RecordsTypeOK
<1>2. RecordsSpec => []RecordsInv
  BY RecordsInvariant
<1> QED
  BY <1>1, <1>2, PTL
=============================================================================
