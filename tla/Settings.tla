------------------------------ MODULE Settings ------------------------------
(***************************************************************************)
(* Pair's settings: the global and the project file with the older files   *)
(* they replace, the sessions of Main that read and save them (config.js,  *)
(* apply and saveLayer in main.js, the settings screen, the import of a    *)
(* backup), and the controller that applies a loaded configuration or      *)
(* stages it while a worker is retained.                                   *)
(*                                                                         *)
(* Nothing locks the files: between two awaits of one session another may  *)
(* save, and a session may die.  A session has one operation on its files  *)
(* in progress, while its worker is started, used and reconciled.          *)
(*                                                                         *)
(* Of the fields, `enabled` is the human's consent, `readOnly` and `low`   *)
(* shape the worker's process and exclude each other, `limit` is what a    *)
(* backup can restore.  Every value is 0 (the default) or 1.               *)
(***************************************************************************)
EXTENDS Integers, FiniteSets

CONSTANTS
  Session,     \* sessions of Main in one workspace
  Disks,       \* the files the first session finds
  MaxEdits,    \* bound: saves, imports and reloads asked for
  MaxFaults    \* bound: sessions that die, publications that fail

Scope  == {"global", "project"}
Fields == {"enabled", "readOnly", "low", "limit"}
Layer  == UNION {[D -> {0, 1}] : D \in SUBSET Fields}
Empty  == [f \in {} |-> 0]
File   == [kind : {"v1", "handoff", "v2"}, layer : Layer]
NoFile == [kind |-> "none", layer |-> Empty]
Canon  == File \cup {NoFile}                          \* of any version
Legacy == [kind : {"handoff"}, layer : Layer] \cup {NoFile}

ASSUME SettingsAssumption ==
  /\ MaxEdits \in Nat /\ MaxFaults \in Nat
  /\ \A d \in Disks : d \in [Scope -> [canon : Canon, legacy : Legacy, baks : {{}}]]

VARIABLES
  disk,      \* of each scope: fabric-pair.json, pair.json, the .v1.bak files
  loaded,    \* configState: the layers a session read, the migrations pending in them
  ctl,       \* PairController: config, pendingConfig, the worker and its task
  op,        \* the operation of each session on the files
  rec,       \* reconcileConfig in progress
  edits, faults,
  consent    \* history: a human has enabled Pair in a current file

vars   == <<disk, loaded, ctl, op, rec, edits, faults, consent>>
counts == <<edits, faults>>

\* overlay: the fields a layer has, over the values below it; and a layer with one field set
Overlay(top, below) ==
  [f \in DOMAIN top \cup DOMAIN below |-> IF f \in DOMAIN top THEN top[f] ELSE below[f]]
With(f, v, layer) == [g \in DOMAIN layer \cup {f} |-> IF g = f THEN v ELSE layer[g]]

Defaults == [f \in Fields |-> 0]
Sound(c) == ~(c.readOnly = 1 /\ c.low = 1)          \* assertMergedConfig
Valid(layer) == Sound(Overlay(layer, Defaults))     \* validateConfigLayer
Shape(c) == <<c.readOnly, c.low>>                   \* configHash

NoConfig == [Defaults EXCEPT !.enabled = 2]
NoLoad   == [up |-> FALSE, layers |-> [sc \in Scope |-> Empty], pending |-> [sc \in Scope |-> "none"]]
NoCtl    == [config |-> Defaults, staged |-> NoConfig, worker |-> "none", conf |-> <<0, 0>>, busy |-> FALSE]
NoOp     == [at |-> "none", kind |-> "none", scope |-> "global", field |-> "none", val |-> 0,
             layer |-> Empty, base |-> NoFile, mig |-> "none", raced |-> {}]
NoRec    == [at |-> "none", target |-> NoConfig]
Staged(s) == ctl[s].staged # NoConfig

Stage   == {"none", "reread", "write", "rename", "publish", "restore", "confirm", "reload"}
Config  == [Fields -> {0, 1}]
Sources == {"none", "canon", "legacy"}
Reading == [up : BOOLEAN, layers : [Scope -> Layer], pending : [Scope -> Sources]]
Ctl     == [config : Config, staged : Config \cup {NoConfig}, worker : {"none", "reserving", "starting", "ready"},
            conf : {0, 1} \X {0, 1}, busy : BOOLEAN]
Op      == [at : Stage, kind : {"none", "edit", "whole", "import"}, scope : Scope, field : Fields \cup {"none"},
            val : {0, 1}, layer : Layer, base : Canon, mig : Sources, raced : SUBSET Fields]
Rec     == [at : {"none", "stop", "adopt"}, target : Config \cup {NoConfig}]

\* Types of every variable.
TypeOK ==
  /\ disk \in [Scope -> [canon : Canon, legacy : Legacy, baks : SUBSET File]]
  /\ loaded \in [Session -> Reading] /\ ctl \in [Session -> Ctl]
  /\ op \in [Session -> Op] /\ rec \in [Session -> Rec]
  /\ edits \in 0..MaxEdits /\ faults \in 0..MaxFaults /\ consent \in BOOLEAN

-----------------------------------------------------------------------------
(* Reading (config.js). *)

MigratedKeepingEnabled(file) ==     \* not part of the model: a migration that takes the file over as it is
  IF file.kind = "handoff" THEN With("readOnly", 0, file.layer) ELSE file.layer
\* migrateShippedV1, migrateHandoffV1: the fields are kept, consent is not
Migrated(file) ==
  With("enabled", 0, IF file.kind = "handoff" THEN With("readOnly", 0, file.layer) ELSE file.layer)

\* readLayer: the file that counts, of which there may be one
Source(d)   == IF d.canon # NoFile THEN d.canon ELSE d.legacy
LayerIn(file) == IF file.kind \in {"none", "v2"} THEN file.layer ELSE Migrated(file)
LayerOf(d)  == LayerIn(Source(d))
Pending(d)  == IF Source(d).kind \in {"none", "v2"} THEN "none" ELSE IF d.canon # NoFile THEN "canon" ELSE "legacy"
Readable(d) == ~(d.canon # NoFile /\ d.legacy # NoFile) /\ Valid(LayerOf(d))

\* loadConfig: overlay(defaults, global, project); configForScope
Effective(layers) == Overlay(layers["project"], Overlay(layers["global"], Defaults))
ForScope(s, sc) == IF sc = "project" THEN Effective(loaded[s].layers) ELSE Overlay(loaded[s].layers["global"], Defaults)
OnDisk == [sc \in Scope |-> LayerOf(disk[sc])]
Loads  == (\A sc \in Scope : Readable(disk[sc])) /\ Sound(Effective(OnDisk))
Loaded == [up |-> TRUE, layers |-> OnDisk, pending |-> [sc \in Scope |-> Pending(disk[sc])]]

\* updateConfig: what shapes the process waits until no worker is retained
Retained(c) == c.worker \in {"starting", "ready"} \/ c.busy
Updated(c, next) ==
  IF Shape(next) # Shape(c.config) /\ Retained(c)
  THEN [c EXCEPT !.staged = next, !.config = [next EXCEPT !.readOnly = c.config.readOnly, !.low = c.config.low]]
  ELSE [c EXCEPT !.staged = NoConfig, !.config = next]

Init ==
  /\ disk \in Disks /\ edits = 0 /\ faults = 0
  /\ loaded = [s \in Session |-> NoLoad] /\ ctl = [s \in Session |-> NoCtl]
  /\ op = [s \in Session |-> NoOp] /\ rec = [s \in Session |-> NoRec]
  /\ consent = \E sc \in Scope : disk[sc].canon.kind = "v2" /\ Overlay(disk[sc].canon.layer, Defaults).enabled = 1

Up(s)   == loaded[s].up
Free(s) == Up(s) /\ op[s] = NoOp
Goto(s, stage) == op' = [op EXCEPT ![s].at = stage]
Over(s) == op' = [op EXCEPT ![s] = NoOp]
Asked(s) == Free(s) /\ edits < MaxEdits /\ edits' = edits + 1 /\ UNCHANGED <<disk, loaded, ctl, rec, faults>>
Consents(f, v) == consent' = (consent \/ (f = "enabled" /\ v = 1))

\* bind: the session is bound to what it reads, or not at all
Bind(s) ==
  /\ ~Up(s) /\ Loads
  /\ loaded' = [loaded EXCEPT ![s] = Loaded]
  /\ ctl' = [ctl EXCEPT ![s] = [NoCtl EXCEPT !.config = Effective(OnDisk)]]
  /\ UNCHANGED <<disk, op, rec, counts, consent>>

-----------------------------------------------------------------------------
(* Saving (apply, saveLayer in main.js; saveConfig). *)

\* apply: one field is set on the screen, which shows what this session loaded
Edit(s, sc, f, v) ==
  /\ Asked(s) /\ ForScope(s, sc)[f] # v /\ Sound([ForScope(s, sc) EXCEPT ![f] = v])
  /\ op' = [op EXCEPT ![s] = [NoOp EXCEPT !.at = "reread", !.kind = "edit", !.scope = sc, !.field = f,
                                          !.val = v, !.mig = loaded[s].pending[sc]]]
  /\ Consents(f, v)

\* apply(current, target, true): the migration alone
Migrate(s, sc) ==
  /\ Asked(s) /\ loaded[s].pending[sc] # "none"
  /\ op' = [op EXCEPT ![s] = [NoOp EXCEPT !.at = "reread", !.kind = "edit", !.scope = sc,
                                          !.mig = loaded[s].pending[sc]]]
  /\ UNCHANGED consent

ChangedFromLoaded(s, fresh) ==      \* not part of the model: the edit on the layer the session loaded
  IF op[s].field = "none" THEN fresh ELSE With(op[s].field, op[s].val, loaded[s].layers[op[s].scope])
\* readScopeLayer and changedLayer: the edit, on the layer as it is on disk now
Changed(s, fresh) == IF op[s].field = "none" THEN fresh ELSE With(op[s].field, op[s].val, fresh)
Reread(s) ==
  /\ op[s].at = "reread"
  /\ LET next == Changed(s, LayerOf(disk[op[s].scope]))
     IN IF Loads /\ Valid(next)
        THEN op' = [op EXCEPT ![s].layer = next, ![s].at = IF op[s].mig = "none" THEN "write" ELSE "rename"]
        ELSE Over(s)
  /\ UNCHANGED <<disk, loaded, ctl, rec, counts, consent>>

\* resetRow, and `Edit as JSON`: the layer this session loaded (readLayer) without a field, or with another value in
\* it; saveLayer does not look at the file again
SaveWhole(s, sc, f, layer) ==
  /\ Asked(s) /\ Valid(layer)
  /\ op' = [op EXCEPT ![s] = [NoOp EXCEPT !.at = "write", !.kind = "whole", !.scope = sc, !.field = f,
                             !.layer = layer, !.base = [kind |-> "v2", layer |-> loaded[s].layers[sc]]]]
Reset(s, sc, f) ==
  LET mine == loaded[s].layers
  IN /\ f \in DOMAIN mine[sc] /\ (sc = "global" => f \notin DOMAIN mine["project"])
     /\ SaveWhole(s, sc, f, [g \in DOMAIN mine[sc] \ {f} |-> mine[sc][g]]) /\ UNCHANGED consent
EditJson(s, sc, f, v) == SaveWhole(s, sc, f, With(f, v, loaded[s].layers[sc])) /\ Consents(f, v)

\* previewBackupImport: what the backup holds, on the file as it is; then the human is asked
Preview(s, sc, bak) ==
  /\ Asked(s) /\ bak \in disk[sc].baks /\ bak.kind = "handoff" /\ "limit" \in DOMAIN bak.layer
  /\ disk[sc].canon.kind = "v2" /\ Valid(disk[sc].canon.layer)
  /\ LET next == With("limit", bak.layer["limit"], disk[sc].canon.layer)
     IN /\ Valid(next)
        /\ op' = [op EXCEPT ![s] = [NoOp EXCEPT !.at = "confirm", !.kind = "import", !.scope = sc,
                                   !.field = "limit", !.layer = next, !.base = disk[sc].canon]]
  /\ UNCHANGED consent
\* saveBackupImport: only over the file that was previewed
SameFile(s) == disk[op[s].scope].canon = op[s].base
ImportSave(s) ==
  /\ op[s].at = "confirm"
  /\ IF ~SameFile(s) THEN Over(s)
     ELSE Goto(s, IF op[s].layer = op[s].base.layer THEN "reload" ELSE "write")
  /\ UNCHANGED <<disk, loaded, ctl, rec, counts, consent>>

\* the other sessions about to save the scope work on what is no longer there: `raced` is what has changed
Agree(f, one, other) == /\ f \in DOMAIN one <=> f \in DOMAIN other
                        /\ f \in DOMAIN one => one[f] = other[f]
Race(s, mine, changed) ==
  op' = [t \in Session |->
    IF t = s THEN mine
    ELSE IF op[t].scope = op[s].scope /\ op[t].kind # "whole" /\ op[t].at \in {"write", "rename", "publish"}
         THEN [op[t] EXCEPT !.raced = @ \cup changed]
    ELSE op[t]]

\* atomicJSON: a new file is renamed over the old one
Overwrites(s) ==
  LET d == disk[op[s].scope]
  IN IF d.canon = NoFile THEN Fields ELSE {f \in Fields : ~Agree(f, LayerOf(d), op[s].layer)}
Written(s) ==
  /\ disk' = [disk EXCEPT ![op[s].scope].canon = [kind |-> "v2", layer |-> op[s].layer]]
  /\ Race(s, [op[s] EXCEPT !.at = "reload"], Overwrites(s))
Write(s) ==
  /\ op[s].at = "write" /\ Written(s)
  /\ UNCHANGED <<loaded, ctl, rec, counts, consent>>

ArchiveOver(d, source) == [d EXCEPT !.baks = {source}]  \* not part of the model: one backup name
\* saveConfig with a migration: the source, whatever it is by now, is renamed to a free backup name
Archive(d, source) == [d EXCEPT !.baks = @ \cup {source}]
Rename(s) ==
  LET sc == op[s].scope  d == disk[sc]
  IN /\ op[s].at = "rename"
     /\ \/ /\ op[s].mig = "legacy" /\ d.legacy # NoFile /\ d.canon = NoFile
           /\ disk' = [disk EXCEPT ![sc] = Archive([d EXCEPT !.legacy = NoFile], d.legacy)]
           /\ op' = [op EXCEPT ![s].at = "publish", ![s].base = d.legacy]
        \/ /\ op[s].mig = "canon" /\ d.canon # NoFile
           /\ disk' = [disk EXCEPT ![sc] = Archive([d EXCEPT !.canon = NoFile], d.canon)]
           /\ op' = [op EXCEPT ![s].at = "publish", ![s].base = d.canon]
        \/ /\ ~(op[s].mig = "legacy" /\ d.legacy # NoFile /\ d.canon = NoFile)
           /\ ~(op[s].mig = "canon" /\ d.canon # NoFile)
           /\ Over(s) /\ UNCHANGED disk
     /\ UNCHANGED <<loaded, ctl, rec, counts, consent>>
Publish(s) ==
  /\ op[s].at = "publish" /\ Written(s)
  /\ UNCHANGED <<loaded, ctl, rec, counts, consent>>
PublishFails(s) ==
  /\ op[s].at = "publish" /\ faults < MaxFaults /\ faults' = faults + 1 /\ Goto(s, "restore")
  /\ UNCHANGED <<disk, loaded, ctl, rec, edits, consent>>
\* copyFile with COPYFILE_EXCL, from the backup
Restored(d, mig, file) ==
  IF mig = "canon" /\ d.canon = NoFile THEN [d EXCEPT !.canon = file]
  ELSE IF mig = "legacy" /\ d.legacy = NoFile THEN [d EXCEPT !.legacy = file]
  ELSE d
Restore(s) ==
  LET sc == op[s].scope  d == Restored(disk[sc], op[s].mig, op[s].base)
  IN /\ op[s].at = "restore" /\ disk' = [disk EXCEPT ![sc] = d]
     /\ IF d = disk[sc] THEN Over(s) ELSE Race(s, NoOp, Fields)
     /\ UNCHANGED <<loaded, ctl, rec, counts, consent>>

\* /pair reload; and what follows every save
AskReload(s) == Asked(s) /\ Goto(s, "reload") /\ UNCHANGED consent
Reload(s) ==
  /\ op[s].at = "reload" /\ Over(s)
  /\ IF Loads
     THEN /\ loaded' = [loaded EXCEPT ![s] = Loaded]
          /\ ctl' = [ctl EXCEPT ![s] = Updated(@, Effective(OnDisk))]
     ELSE UNCHANGED <<loaded, ctl>>
  /\ UNCHANGED <<disk, rec, counts, consent>>

-----------------------------------------------------------------------------
(* The worker (controller.js). *)

Sets(s, c) == ctl' = [ctl EXCEPT ![s] = c] /\ UNCHANGED <<disk, loaded, op, counts, consent>>

\* reserveStart: nothing tells updateConfig of the start before the record says starting
ReserveStart(s) ==
  LET c == ctl[s]
  IN /\ Up(s) /\ c.worker = "none" /\ (c.busy \/ (c.config.enabled = 1 /\ ~Staged(s)))
     /\ Sets(s, [c EXCEPT !.worker = "reserving", !.conf = Shape(c.config)]) /\ UNCHANGED rec
AnyShape(c)  == TRUE                \* not part of the model: the start does not look again
SameShape(c) == c.conf = Shape(c.config)
Launch(s) ==
  /\ ctl[s].worker = "reserving" /\ UNCHANGED rec
  /\ Sets(s, [ctl[s] EXCEPT !.worker = IF SameShape(ctl[s]) THEN "starting" ELSE "none"])
Started(s) ==
  /\ ctl[s].worker = "starting" /\ UNCHANGED rec
  /\ Sets(s, [ctl[s] EXCEPT !.worker = IF SameShape(ctl[s]) THEN "ready" ELSE "none"])
Dispatch(s) ==
  /\ ctl[s].worker = "ready" /\ ~ctl[s].busy /\ ~Staged(s) /\ UNCHANGED rec
  /\ Sets(s, [ctl[s] EXCEPT !.busy = TRUE])
TaskEnds(s) == ctl[s].busy /\ Sets(s, [ctl[s] EXCEPT !.busy = FALSE]) /\ UNCHANGED rec

\* reconcileConfig, in start and restart: check, stop the retained worker, apply the latest that was staged
Reconcile(s) ==
  /\ Up(s) /\ rec[s] = NoRec /\ Staged(s) /\ ~ctl[s].busy /\ ctl[s].worker # "reserving"
  /\ rec' = [rec EXCEPT ![s] = [at |-> "stop", target |-> ctl[s].staged]] /\ Sets(s, ctl[s])
StopRetained(s) ==
  /\ rec[s].at = "stop" /\ ctl[s].worker # "reserving"
  /\ rec' = [rec EXCEPT ![s].at = "adopt"] /\ Sets(s, [ctl[s] EXCEPT !.worker = "none"])
Captured(s) == rec[s].target        \* not part of the model: what was staged when the stop began
Latest(s) == ctl[s].staged
Adopt(s) ==
  LET c == ctl[s]
  IN /\ rec[s].at = "adopt" /\ c.worker # "reserving" /\ rec' = [rec EXCEPT ![s] = NoRec]
     /\ Sets(s, IF (Staged(s) => Shape(c.staged) = Shape(rec[s].target)) /\ c.worker = "none" /\ ~c.busy /\ Staged(s)
                THEN [c EXCEPT !.config = Latest(s), !.staged = NoConfig] ELSE c)

\* Main's process dies; its worker is another module's matter (Generations)
Crash(s) ==
  /\ Up(s) /\ faults < MaxFaults /\ faults' = faults + 1
  /\ loaded' = [loaded EXCEPT ![s] = NoLoad] /\ ctl' = [ctl EXCEPT ![s] = NoCtl]
  /\ op' = [op EXCEPT ![s] = NoOp] /\ rec' = [rec EXCEPT ![s] = NoRec]
  /\ UNCHANGED <<disk, edits, consent>>

Saves(s) ==
  Reread(s) \/ Write(s) \/ Rename(s) \/ Publish(s) \/ PublishFails(s) \/ Restore(s) \/ ImportSave(s) \/ Reload(s)
Works(s) ==
  \/ ReserveStart(s) \/ Launch(s) \/ Started(s) \/ Dispatch(s) \/ TaskEnds(s)
  \/ Reconcile(s) \/ StopRetained(s) \/ Adopt(s)
Asks(s, sc) ==
  \/ \E f \in Fields, v \in {0, 1} : Edit(s, sc, f, v) \/ EditJson(s, sc, f, v)
  \/ \E f \in Fields : Reset(s, sc, f)
  \/ \E bak \in disk[sc].baks : Preview(s, sc, bak)
  \/ Migrate(s, sc)

Next ==
  \E s \in Session : Bind(s) \/ Saves(s) \/ Works(s) \/ AskReload(s) \/ Crash(s) \/ \E sc \in Scope : Asks(s, sc)

Spec == Init /\ [][Next]_vars

-----------------------------------------------------------------------------
(* What a team may rely on. *)

\* A worker's process runs on the settings the controller holds, whatever is saved or reloaded while it starts and
\* works: a change that would shape it waits (else the scan takes the drift for a fault and holds the task).
WorkerKeepsShape == \A s \in Session : ctl[s].worker = "ready" => ctl[s].conf = Shape(ctl[s].config)

\* The controller holds what the session last loaded, or has exactly that staged for its next start.
AppliedOrStaged ==
  \A s \in Session : Up(s) =>
    Effective(loaded[s].layers) = IF Staged(s) THEN ctl[s].staged ELSE ctl[s].config

\* Every session acts on what it last read, and every worker on what it was started with, or the change waits.
SettingsAreInForce == WorkerKeepsShape /\ AppliedOrStaged

\* Pair is on only where a human turned it on in a current file: no migration, restoration, import or crash does.
ConsentIsExplicit ==
  (\E s \in Session : ctl[s].config.enabled = 1) \/ (\E sc \in Scope : Overlay(LayerOf(disk[sc]), Defaults).enabled = 1)
  => consent

\* What an older version of Pair left on disk is still there after every step, in its place or as a backup: but the
\* file of its own scope that a save of a whole layer overwrites, which takes no backup (main.js:702).
Older(d) == {file \in d.baks \cup {d.canon, d.legacy} : file.kind \in {"v1", "handoff"}}
Published(s) == op[s].at \in {"write", "publish"} /\ op'[s].at = "reload"
OlderFilesKept ==
  [][\A sc \in Scope : \A file \in Older(disk[sc]) \ Older(disk'[sc]) :
       file = disk[sc].canon /\ \E s \in Session : Published(s) /\ op[s].kind = "whole" /\ op[s].scope = sc]_vars

\* No save undoes what another session saved before it read: of every field but its own, the file is left as it
\* was, set or not, however old what the session loaded is.  A save field by field reads as it begins, so that only
\* what is saved before it writes can be lost; one of a whole layer works on what its session loaded, so that
\* every field changed on disk since is lost, and no other.
BeforeSave(s) == IF op[s].at = "publish" THEN LayerIn(op[s].base) ELSE LayerOf(disk[op[s].scope])
ChangedSince(s, f) ==
  IF op[s].kind = "whole" THEN ~Agree(f, BeforeSave(s), op[s].base.layer) ELSE f \in op[s].raced
KeepsOthers(s) ==
  LET sc == op[s].scope
  IN disk[sc].canon # NoFile \/ op[s].at = "publish" =>
       \A f \in Fields \ {op[s].field} : Agree(f, BeforeSave(s), disk'[sc].canon.layer) \/ ChangedSince(s, f)
EditsKeepOthers == [][\A s \in Session : Published(s) => KeepsOthers(s)]_vars

\* What is on disk is lost by what Pair writes there only where a save could not know of it.
FilesKeepTheirs == OlderFilesKept /\ EditsKeepOthers

-----------------------------------------------------------------------------
(* Why they hold: the inductive invariant. *)

\* Without a human's consent nothing that is stored, loaded, held, staged or about to be saved turns Pair on.
TurnsOn(layer)    == "enabled" \in DOMAIN layer /\ layer["enabled"] = 1
FileTurnsOn(file) == file.kind = "v2" /\ TurnsOn(file.layer)
InvConsent ==
  ~consent =>
    /\ \A sc \in Scope : ~FileTurnsOn(disk[sc].canon)
    /\ \A s \in Session : /\ \A sc \in Scope : ~TurnsOn(loaded[s].layers[sc])
                          /\ ctl[s].config.enabled # 1 /\ ctl[s].staged.enabled # 1
                          /\ ~TurnsOn(op[s].layer) /\ ~FileTurnsOn(op[s].base)
                          /\ ~(op[s].field = "enabled" /\ op[s].val = 1)

\* An older file that has no backup yet has been there from the start, so that every session knows of it, and what
\* it saves field by field first renames the file.
Unsaved(d) == d.canon.kind \in {"v1", "handoff"} /\ d.canon \notin d.baks
InvUnsaved ==
  \A sc \in Scope : Unsaved(disk[sc]) =>
    \A s \in Session :
      /\ Up(s) => loaded[s].pending[sc] = "canon"
      /\ op[s].scope = sc /\ op[s].kind \in {"edit", "import"} =>
           op[s].at \in {"reread", "rename"} /\ op[s].mig = "canon"

\* Only an edit re-reads its file and may rename it, and what writes is an edit, an import or a whole layer.
InvKinds ==
  \A s \in Session : /\ op[s].at \in {"reread", "rename", "publish", "restore"} => op[s].kind = "edit"
                     /\ op[s].at = "write" => op[s].kind # "none"

\* Between the rename and the end of a migration its source is among the backups.
InvBacked ==
  \A s \in Session : op[s].at \in {"publish", "restore"} =>
    /\ op[s].base \in disk[op[s].scope].baks
    /\ op[s].mig = "legacy" => op[s].base \in Legacy

\* What is about to be written agrees with the file it was made from, its own field apart; and with the file it
\* replaces, but for what others have saved since.
AgreeBut(F, one, other) == \A f \in Fields \ F : Agree(f, one, other)
Replaces(o, d) == d.canon # NoFile \/ (o.kind = "edit" /\ o.mig = "legacy" /\ d.legacy # NoFile)
InvUnraced ==
  \A s \in Session :
    LET o == op[s]  d == disk[o.scope]
    IN /\ o.at = "confirm" => o.base.kind = "v2" /\ o.kind = "import" /\ AgreeBut({o.field}, o.base.layer, o.layer)
       /\ o.at = "write" /\ o.kind = "whole" => AgreeBut({o.field}, o.base.layer, o.layer)
       /\ o.at \in {"write", "rename"} /\ o.kind # "whole" /\ Replaces(o, d) =>
            AgreeBut({o.field} \cup o.raced, LayerOf(d), o.layer)
       /\ o.at = "publish" => AgreeBut({o.field} \cup o.raced, LayerIn(o.base), o.layer)
       /\ \/ o.at = "publish" /\ d.canon # NoFile
          \/ o.at \in {"write", "rename"} /\ o.kind = "edit" /\ d.canon # NoFile /\ d.legacy # NoFile
          => o.raced = Fields

SettingsInv ==
  /\ TypeOK /\ WorkerKeepsShape /\ AppliedOrStaged
  /\ InvConsent /\ InvUnsaved /\ InvKinds /\ InvBacked /\ InvUnraced
=============================================================================
