------------------------------- MODULE Session -------------------------------
(***************************************************************************)
(* One worker process: the session Pi really runs, and what PiRuntime      *)
(* (actor-runtime.js) believes of it from events that are still on their   *)
(* way. Work may start only under an activation; whatever else starts a    *)
(* run (another extension) or compacts is aborted or bounded. The          *)
(* questions are whether "idle" means idle, whether Pair's own aborts hit  *)
(* only what they are for, and whether nobody waits for ever.              *)
(*                                                                         *)
(* Ownership of the process and the lease's place in the assignment are    *)
(* PairLease's and Generations' business; requests and their timers Rpc's. *)
(***************************************************************************)
EXTENDS Naturals, Sequences

CONSTANTS
  MaxRuns,    \* bound: activations
  MaxStray,   \* bound: runs another extension starts
  MaxTurns,   \* bound: turns after the first, of a run
  MaxRetries, \* bound: automatic provider retries
  MaxCompact, \* bound: compactions
  MaxStops,   \* bound: stops, or settlements the controller asks for
  Allowance,  \* control.compactionMaxMs > 0
  Quick,      \* a run of another extension may start and settle while a prompt is on its way
  Crowded     \* the context is over control.compactBeforeTaskTokens

ASSUME SessionAssumption ==
  /\ {MaxRuns, MaxStray, MaxTurns, MaxRetries, MaxCompact, MaxStops} \subseteq Nat
  /\ {Allowance, Quick, Crowded} \subseteq BOOLEAN

VARIABLES
  pi,     \* the real session: whose run, where the run is, compacting, a prompt held back
  down,   \* stdin: commands on their way to Pi
  up,     \* stdout: events and answers on their way to Pair
  rt,     \* what PiRuntime believes, and its own timers and aborts
  act,    \* #activation: on, attempted, accepted, settled
  wait,   \* waitIdle and readState of each caller
  pc,     \* where the activation and the stop are
  ended,  \* #hold: a fault, and the process is killed
  times,  \* how many of each have happened
  hit     \* history: Pair's own abort reached the run of a live activation

sessionVars == <<pi, down, up, rt, act, wait, pc, ended, times, hit>>

Callers == {"work", "stop"}
Idle    == [run |-> "none", at |-> "idle", comp |-> FALSE, held |-> FALSE]
NoAct   == [on |-> FALSE, attempted |-> FALSE, accepted |-> FALSE, settled |-> FALSE]
NoWait  == [at |-> "off", clean |-> FALSE, seen |-> {}, woken |-> FALSE]

SessionInit ==
  /\ pi = Idle /\ down = << >> /\ up = << >>
  /\ rt = [streaming |-> FALSE, unsettled |-> FALSE, idleKnown |-> TRUE, seen |-> {}, comp |-> FALSE,
           retrying |-> FALSE, maint |-> FALSE, timer |-> FALSE, bridge |-> FALSE, pending |-> FALSE,
           rejecting |-> "no", reap |-> "no"]
  /\ act = NoAct /\ wait = [c \in Callers |-> NoWait]
  /\ pc = [work |-> "off", stop |-> "off"] /\ ended = FALSE
  /\ times = [runs |-> 0, stray |-> 0, turns |-> 0, retries |-> 0, compact |-> 0, stops |-> 0,
          crowded |-> 0, early |-> 0, dropped |-> 0]
  /\ hit = "no"

Event(k)      == [kind |-> k, by |-> "pi"]
Answer(k, c)  == [kind |-> k, by |-> c]
Command(k, c) == [kind |-> k, by |-> c]
Count(k, max) == times[k] < max /\ times' = [times EXCEPT ![k] = @ + 1]

-----------------------------------------------------------------------------
(* Pi. *)

Emit(p, events) == /\ pi' = p /\ up' = up \o events
                   /\ UNCHANGED <<down, rt, act, wait, pc, hit>>

\* Another extension, or a message left in Pi's queue, starts a run nobody at Pair asked for.
StrayRun ==
  /\ ~ended /\ pi.run = "none" /\ ~pi.comp /\ ~pi.held /\ Count("stray", MaxStray)
  /\ Emit([pi EXCEPT !.run = "stray", !.at = "turn"], << Event("start") >>) /\ UNCHANGED ended

\* One more turn, or tool call, of the run: each announces itself.
Turn == /\ ~ended /\ pi.at = "turn" /\ Count("turns", MaxTurns)
        /\ Emit(pi, << Event("turn") >>) /\ UNCHANGED ended

AgentEnd == /\ ~ended /\ pi.at = "turn"
            /\ Emit([pi EXCEPT !.at = "over"], << Event("end") >>) /\ UNCHANGED <<ended, times>>

\* The provider failed: Pi waits, then goes on with the same run.
RetryStart == /\ ~ended /\ pi.at = "over" /\ ~pi.comp /\ Count("retries", MaxRetries)
              /\ Emit([pi EXCEPT !.at = "retry"], << Event("retry") >>) /\ UNCHANGED ended
RetryEnd   == /\ ~ended /\ pi.at = "retry"
              /\ Emit([pi EXCEPT !.at = "turn"], << Event("retried"), Event("start") >>) /\ UNCHANGED <<ended, times>>

Settle == /\ ~ended /\ pi.at = "over" /\ ~pi.comp
          /\ pi.run = "stray" /\ ~Quick => pc.work \notin {"state", "prompt"}
          /\ Emit([pi EXCEPT !.run = "none", !.at = "idle"], << Event("settled") >>) /\ UNCHANGED <<ended, times>>

\* Within a run, before it settles, or between two runs.
CompactionStart ==
  /\ ~ended /\ pi.at \in {"over", "idle"} /\ ~pi.comp /\ Count("compact", MaxCompact)
  /\ Emit([pi EXCEPT !.comp = TRUE], << Event("cstart") >>) /\ UNCHANGED ended
CompactionEnd ==
  /\ ~ended /\ pi.comp
  /\ Emit([pi EXCEPT !.comp = FALSE], << Event("cend") >>) /\ UNCHANGED <<ended, times>>

\* The run a prompt starts; Pi holds the prompt back while it is compacting.
Started(p) == [p EXCEPT !.run = "own", !.at = "turn", !.held = FALSE]
HeldStarts ==
  /\ ~ended /\ pi.held /\ ~pi.comp /\ pi.run = "none"
  /\ Emit(Started(pi), << Answer("started", "work"), Event("start") >>) /\ UNCHANGED <<ended, times>>

\* What Pi ends when it is told to abort, in the order it says so.
Closing == (IF pi.at = "turn" THEN << Event("end") >> ELSE << >>)
          \o (IF pi.at = "retry" THEN << Event("retried") >> ELSE << >>)
          \o (IF pi.comp THEN << Event("cend") >> ELSE << >>)
          \o (IF pi.run # "none" THEN << Event("settled") >> ELSE << >>)
          \o (IF pi.held THEN << Answer("refused", "work") >> ELSE << >>)

Live == act.on /\ act.attempted /\ ~act.settled

Receive ==
  LET m == down[1]
      say(p, s) == pi' = p /\ up' = up \o s /\ UNCHANGED hit
  IN /\ ~ended /\ down # << >> /\ down' = Tail(down)
     /\ \/ /\ m.kind = "get_state"
           /\ say(pi, << [kind |-> "state", by |-> m.by, seen |-> {x \in {"run", "comp"} :
                               IF x = "run" THEN pi.at = "turn" ELSE pi.comp}] >>)
        \/ /\ m.kind = "clear_queue" /\ say(pi, << Answer("cleared", m.by) >>)
        \/ /\ m.kind = "abort"
           /\ pi' = Idle /\ up' = up \o Closing \o << Answer("aborted", m.by) >>
           /\ hit' = IF pi.run = "own" /\ act.on /\ m.by # "stop" THEN m.by ELSE hit
        \/ /\ m.kind = "prompt" /\ pi.run = "none" /\ ~pi.comp
           /\ say(Started(pi), << Answer("started", m.by), Event("start") >>)
        \/ /\ m.kind = "prompt" /\ pi.run = "none" /\ pi.comp /\ say([pi EXCEPT !.held = TRUE], << >>)
        \/ /\ m.kind = "prompt" /\ pi.run # "none" /\ say(pi, << Answer("refused", m.by) >>)
     /\ UNCHANGED <<rt, act, wait, pc, ended, times>>

-----------------------------------------------------------------------------
(* What PiRuntime makes of an event. *)

\* Mutant: a run that ended its turn and has not settled does not count.
QuietBetween(r)  == ~r.streaming /\ ~r.comp /\ ~r.retrying
Quiet(r)         == ~r.streaming /\ ~r.unsettled /\ ~r.comp /\ ~r.retrying
LifecycleIdle(r) == r.idleKnown /\ r.seen = {} /\ Quiet(r)
Aborting         == pc.stop \in {"clear", "abort", "idle"}
\* Mutant: the lease only counts once the prompt was accepted.
OutsideAccepted  == ~Aborting /\ ~(Live /\ act.accepted)
OutsideLease     == ~Aborting /\ ~Live
StartsWork       == {"start", "turn", "cstart", "retry"}
Maintenance(k)   == k \in {"cstart", "cend"} /\ OutsideLease /\ Allowance
Unauthorized(k)  == rt.bridge \/ (k \in StartsWork /\ OutsideLease /\ ~Maintenance(k))

\* Mutant: the end of the agent's turn taken for the end of the run.
EndedIsSettled == [rt EXCEPT !.streaming = FALSE, !.unsettled = FALSE]
\* NOT idle: a retry, a compaction or what is queued can follow.
AfterEnd       == [rt EXCEPT !.streaming = FALSE]

Woken(w) == [c \in Callers |-> [w[c] EXCEPT !.woken = TRUE]]

\* Mutant: an event takes a new revision and wakes nobody.
TouchedAsleep == [c \in Callers |-> [wait[c] EXCEPT !.clean = FALSE]]
\* Every event takes a new revision, and wakes whoever waits.
Touched == [c \in Callers |-> [wait[c] EXCEPT !.clean = FALSE, !.woken = TRUE]]

\* The axes after the event.
Noted(k) ==
  CASE k = "start"   -> [rt EXCEPT !.streaming = TRUE, !.unsettled = TRUE, !.idleKnown = FALSE, !.seen = @ \cup {"run"}]
    [] k = "turn"    -> [rt EXCEPT !.idleKnown = FALSE]
    [] k = "end"     -> AfterEnd
    [] k = "retry"   -> [rt EXCEPT !.retrying = TRUE, !.unsettled = TRUE, !.idleKnown = FALSE]
    [] k = "retried" -> [rt EXCEPT !.retrying = FALSE]
    [] k = "cstart"  -> [rt EXCEPT !.comp = TRUE, !.idleKnown = FALSE, !.seen = @ \cup {"comp"},
                           !.maint = @ \/ Maintenance(k), !.timer = @ \/ Maintenance(k)]
    [] k = "cend"    -> [rt EXCEPT !.comp = FALSE, !.maint = FALSE, !.timer = FALSE, !.seen = @ \ {"comp"}]
    [] k = "settled" -> [rt EXCEPT !.streaming = FALSE, !.unsettled = FALSE, !.idleKnown = TRUE, !.seen = {}]

Rejects(k) == Unauthorized(k) /\ ~rt.bridge /\ rt.rejecting = "no"

\* #hold: the activation is revoked and the process killed; nothing that follows matters here.
Dies == ended' = TRUE /\ UNCHANGED <<pi, down, rt, act, wait, pc, times, hit>>

Observe ==
  /\ ~ended /\ up # << >> /\ up[1].by = "pi"
  /\ LET k == up[1].kind IN
     \/ /\ \/ rt.bridge
           \/ k = "settled" /\ (rt.comp \/ rt.retrying)
        /\ up' = Tail(up) /\ Dies
     \/ /\ ~rt.bridge /\ ~(k = "settled" /\ (rt.comp \/ rt.retrying))
        /\ rt' = [Noted(k) EXCEPT !.rejecting = IF Rejects(k) THEN "clear" ELSE @]
        /\ down' = IF Rejects(k) THEN Append(down, Command("clear_queue", "reject")) ELSE down
        /\ act' = IF k = "settled" /\ act.on THEN [act EXCEPT !.settled = TRUE] ELSE act
        /\ times' = IF k = "settled" /\ act.on /\ pc.work \notin {"off", "started"}
                    THEN [times EXCEPT !.early = 1] ELSE times
        /\ wait' = Touched /\ up' = Tail(up) /\ UNCHANGED <<pi, pc, ended, hit>>

\* Somebody's answer is there and the function awaiting it has not gone on yet.
Resuming == \/ \E c \in Callers : wait[c].at \in {"answered", "done"}
            \/ pc.work \in {"started", "refused"} \/ pc.stop \in {"clear+", "abort+"}
            \/ rt.rejecting \in {"clear+", "abort+"}

\* Where a stop, or a rejection, is once its command is answered.
GoesOnTo(at) == IF at = "clear" THEN "clear+" ELSE "abort+"

\* An answer settles its request; who awaits it goes on after the events of the same chunk, and before
\* the next answer.
Answered ==
  /\ ~ended /\ ~Resuming /\ up # << >> /\ up[1].by # "pi" /\ up' = Tail(up)
  /\ \/ /\ up[1].kind = "state"
        /\ wait' = [wait EXCEPT ![up[1].by].at = "answered", ![up[1].by].seen = up[1].seen]
        /\ UNCHANGED <<rt, pc>>
     \/ /\ up[1].kind # "state" /\ up[1].by \in {"work", "stop"}
        /\ pc' = [pc EXCEPT ![up[1].by] = IF up[1].by = "work" THEN up[1].kind ELSE GoesOnTo(@)]
        /\ UNCHANGED <<rt, wait>>
     \/ /\ up[1].by = "reject" /\ rt' = [rt EXCEPT !.rejecting = GoesOnTo(@)] /\ UNCHANGED <<pc, wait>>
     \/ /\ up[1].by = "reap" /\ rt' = [rt EXCEPT !.reap = "no"] /\ wait' = Woken(wait) /\ UNCHANGED pc
  /\ UNCHANGED <<pi, down, act, ended, times, hit>>

-----------------------------------------------------------------------------
(* waitIdle: read the state when the axes are quiet, sleep until something happens. *)

Pair(c) == /\ ~ended /\ wait' = c /\ UNCHANGED <<pi, up, act, ended, times, hit>>

Look(c) ==
  /\ wait[c].at = "look"
  /\ \/ /\ Quiet(rt) /\ Pair([wait EXCEPT ![c].at = "asked", ![c].clean = TRUE, ![c].woken = FALSE])
        /\ down' = Append(down, Command("get_state", c))
     \/ /\ ~Quiet(rt) /\ Pair([wait EXCEPT ![c].at = "sleep", ![c].woken = FALSE]) /\ UNCHANGED down
  /\ UNCHANGED <<rt, pc>>

\* readState goes on: the answer is only worth something if nothing happened since it was asked for.
Read(c) == [rt EXCEPT !.seen = wait[c].seen, !.idleKnown = wait[c].clean /\ wait[c].seen = {}]

FoundIdle(r) == LifecycleIdle(r) /\ ~r.pending /\ ~r.bridge

Awaits(c) == IF c = "work" THEN pc.work = "wait" ELSE pc.stop \in {"grace", "idle"}

Heard(c) ==
  /\ wait[c].at = "answered" /\ Awaits(c) /\ (c = "work" => act.on)
  /\ Pair([wait EXCEPT ![c].at = IF FoundIdle(Read(c)) THEN "done" ELSE "sleep"])
  /\ rt' = Read(c) /\ UNCHANGED <<down, pc>>

Wake(c) ==
  /\ wait[c].at = "sleep" /\ wait[c].woken
  /\ Pair([wait EXCEPT ![c].at = "look"]) /\ UNCHANGED <<rt, down, pc>>

-----------------------------------------------------------------------------
(* An activation: wait for true idle, probe, then load and prompt. *)

Reserve ==
  /\ ~ended /\ pc = [work |-> "off", stop |-> "off"] /\ ~rt.pending /\ (act.on => act.settled) /\ Count("runs", MaxRuns)
  /\ act' = [NoAct EXCEPT !.on = TRUE] /\ pc' = [pc EXCEPT !.work = "wait"]
  /\ wait' = [Woken(wait) EXCEPT !["work"] = [NoWait EXCEPT !.at = "look"]]
  /\ UNCHANGED <<pi, down, up, rt, ended, hit>>

\* dispatch compacts a context that is too large, before it reserves anything, on a live worker.
TooLarge == Crowded /\ pc.work = "off" /\ (act.on => act.settled)

\* The transport does not admit "compact" to its control lane, so nothing
\* is compacted and the dispatch fails, with the compaction's mark and deadline left behind.
PrepareContext ==
  /\ ~ended /\ TooLarge /\ Count("crowded", 1)
  /\ LifecycleIdle(rt) /\ ~rt.comp
  /\ rt' = [rt EXCEPT !.maint = TRUE, !.timer = Allowance] /\ wait' = Woken(wait)
  /\ UNCHANGED <<pi, down, up, act, pc, ended, hit>>

\* One step of an activation that reads the state: from `from`, which `done` must have ended, to `to`.
Ask(to, r) == /\ rt' = r /\ pc' = [pc EXCEPT !.work = to]
              /\ wait' = [wait EXCEPT !["work"] = [NoWait EXCEPT !.at = "asked", !.clean = TRUE]]
              /\ down' = Append(down, Command("get_state", "work"))

Probe    == /\ ~ended /\ pc.work = "wait" /\ wait["work"].at = "done" /\ act.on
            /\ Ask("probe", [rt EXCEPT !.bridge = TRUE]) /\ UNCHANGED <<pi, up, act, ended, times, hit>>
Activate == /\ ~ended /\ pc.work = "prepared" /\ act.on
            /\ act' = [act EXCEPT !.attempted = TRUE]
            /\ Ask("load", [rt EXCEPT !.bridge = TRUE]) /\ UNCHANGED <<pi, up, ended, times, hit>>

\* The state an activation asked for is there, and it is as idle as it must be.
Proven == /\ ~ended /\ wait["work"].at = "answered" /\ act.on /\ LifecycleIdle(Read("work"))

Prepared == /\ Proven /\ pc.work = "probe"
            /\ rt' = [Read("work") EXCEPT !.bridge = FALSE] /\ pc' = [pc EXCEPT !.work = "prepared"]
            /\ wait' = [wait EXCEPT !["work"] = NoWait] /\ UNCHANGED <<pi, down, up, act, ended, times, hit>>
StateLoaded   == /\ Proven /\ pc.work = "load"
            /\ Ask("state", [Read("work") EXCEPT !.bridge = FALSE]) /\ UNCHANGED <<pi, up, act, ended, times, hit>>
Prompt   == /\ Proven /\ pc.work = "state"
            /\ rt' = [Read("work") EXCEPT !.pending = TRUE, !.unsettled = TRUE, !.idleKnown = FALSE]
            /\ wait' = [c \in Callers |-> IF c = "work" THEN NoWait ELSE [wait[c] EXCEPT !.clean = FALSE]]
            /\ down' = Append(down, Command("prompt", "work")) /\ pc' = [pc EXCEPT !.work = "prompt"]
            /\ UNCHANGED <<pi, up, act, ended, times, hit>>
Accept   == /\ ~ended /\ pc.work = "started"
            /\ act' = IF act.on THEN [act EXCEPT !.accepted = TRUE] ELSE act
            /\ rt' = [rt EXCEPT !.pending = FALSE] /\ pc' = [pc EXCEPT !.work = "off"]
            /\ wait' = Woken(wait) /\ UNCHANGED <<pi, down, up, ended, times, hit>>

\* The session was not as idle as it must be, or the prompt started nothing: held, unless revoked meanwhile.
NotProven == /\ ~ended /\ act.on
             /\ \/ /\ wait["work"].at = "answered" /\ pc.work \in {"probe", "load", "state"}
                   /\ ~LifecycleIdle(Read("work"))
                \/ pc.work = "refused"
             /\ up' = up /\ Dies

\* Revoked meanwhile: the function notices when it goes on, and leaves the bridge and the prompt behind it.
Revoked ==
  /\ ~ended /\ ~act.on
  /\ \/ pc.work \in {"wait", "probe", "load", "state"} /\ wait["work"].at \in {"look", "answered", "done"}
     \/ pc.work \in {"prepared", "refused"}
  /\ rt' = [rt EXCEPT !.bridge = FALSE, !.pending = FALSE] /\ pc' = [pc EXCEPT !.work = "off"]
  /\ wait' = [Woken(wait) EXCEPT !["work"] = NoWait] /\ UNCHANGED <<pi, down, up, act, ended, hit>>
  /\ times' = IF pc.work = "refused" THEN [times EXCEPT !.dropped = 1] ELSE times

-----------------------------------------------------------------------------
(* Stopping: after a report, on a pause or a stop, and when the worker is no longer needed. *)

ToStop(at) == pc' = [pc EXCEPT !.stop = at]
Listen     == [wait EXCEPT !["stop"] = [NoWait EXCEPT !.at = "look"]]

SettleOrAbort ==
  /\ ~ended /\ pc.stop = "off" /\ act.accepted /\ Count("stops", MaxStops)
  /\ act' = NoAct /\ ToStop("grace") /\ wait' = [Woken(Listen) EXCEPT !["stop"].woken = FALSE]
  /\ UNCHANGED <<pi, down, up, rt, ended, hit>>

AbortCurrent ==
  /\ ~ended /\ pc.stop = "off" /\ Count("stops", MaxStops)
  /\ act' = NoAct /\ ToStop("clear") /\ wait' = Woken(wait)
  /\ down' = Append(down, Command("clear_queue", "stop")) /\ UNCHANGED <<pi, up, rt, ended, hit>>

\* The grace is over and the run goes on.
GraceOver == /\ ~ended /\ pc.stop = "grace" /\ wait["stop"].at = "sleep"
             /\ wait' = [wait EXCEPT !["stop"] = NoWait] /\ ToStop("clear")
             /\ down' = Append(down, Command("clear_queue", "stop"))
             /\ UNCHANGED <<pi, up, rt, act, ended, times, hit>>
Cleared   == /\ ~ended /\ pc.stop = "clear+" /\ ToStop("abort")
             /\ down' = Append(down, Command("abort", "stop"))
             /\ UNCHANGED <<pi, up, rt, act, wait, ended, times, hit>>
Aborted   == /\ ~ended /\ pc.stop = "abort+" /\ ToStop("idle") /\ wait' = Listen
             /\ UNCHANGED <<pi, down, up, rt, act, ended, times, hit>>
Stopped   == /\ ~ended /\ pc.stop \in {"grace", "idle"} /\ wait["stop"].at = "done" /\ ToStop("off")
             /\ wait' = [Woken(wait) EXCEPT !["stop"] = NoWait]
             /\ UNCHANGED <<pi, down, up, rt, act, ended, times, hit>>

\* The snapshot a close, and the controller's own questions, go by.
SnapshotIdle == FoundIdle(rt) /\ (act.on => act.settled) /\ ~Aborting

\* A deadline: true idle was not reached, or the prompt Pi holds back was not answered.
Late ==
  /\ ~ended
  /\ \/ pc.stop = "idle" /\ wait["stop"].at = "sleep"
     \/ pc.work = "wait" /\ wait["work"].at = "sleep" /\ act.on
     \/ pc.work = "prompt" /\ pi.held
  /\ up' = up /\ Dies

-----------------------------------------------------------------------------
(* Pair's own aborts. *)

RejectGoesOn ==
  /\ ~ended
  /\ \/ /\ rt.rejecting = "clear+" /\ rt' = [rt EXCEPT !.rejecting = "abort"]
        /\ down' = Append(down, Command("abort", "reject")) /\ UNCHANGED wait
     \/ /\ rt.rejecting = "abort+" /\ rt' = [rt EXCEPT !.rejecting = "no"]
        /\ wait' = Woken(wait) /\ UNCHANGED down
  /\ UNCHANGED <<pi, up, act, pc, ended, times, hit>>

\* The deadline of a compaction outside a lease.
CompactionLate ==
  /\ ~ended /\ rt.timer
  /\ \/ /\ rt.maint /\ rt.comp
        /\ rt' = [rt EXCEPT !.timer = FALSE, !.maint = FALSE, !.reap = "abort"]
        /\ down' = Append(down, Command("abort", "reap"))
     \/ ~(rt.maint /\ rt.comp) /\ rt' = [rt EXCEPT !.timer = FALSE] /\ UNCHANGED down
  /\ UNCHANGED <<pi, up, act, wait, pc, ended, times, hit>>

Arrives  == Observe \/ Answered
GoesOn   == \/ \E c \in Callers : Look(c) \/ Heard(c) \/ Wake(c)
            \/ Probe \/ Prepared \/ StateLoaded \/ Prompt \/ Accept \/ NotProven \/ Revoked
            \/ Cleared \/ Aborted \/ Stopped \/ RejectGoesOn
Clock    == GraceOver \/ Late \/ CompactionLate
PiActs   == \/ StrayRun \/ Turn \/ AgentEnd \/ RetryStart \/ RetryEnd \/ Settle
            \/ CompactionStart \/ CompactionEnd \/ HeldStarts \/ Receive
Asked    == Reserve \/ PrepareContext \/ Activate \/ SettleOrAbort \/ AbortCurrent

SessionNext == Arrives \/ GoesOn \/ Clock \/ PiActs \/ Asked
SessionSpec == SessionInit /\ [][SessionNext]_sessionVars

-----------------------------------------------------------------------------
Still == up = << >> /\ down = << >> /\ ~ended

\* What the controller takes for idle (snapshot().idle, which a steer, a checkpoint and a switch of workers
\* go by) is idle: with nothing on its way, Pi has no run and compacts nothing; and an activation believed
\* settled has no run of its own left, unless the settlement came while it was still being set up.
IdleIsReal ==
  /\ Still /\ SnapshotIdle => pi.run = "none" /\ ~pi.comp
  /\ act.on /\ act.settled /\ times.early = 0 => pi.run # "own"

\* No wake-up is lost: nobody sleeps in waitIdle on a session that is idle, except behind a prompt or a
\* bridge that will wake it, or after a revoked prompt Pi dropped (its deadline ends that wait).
SleepersHaveReason ==
  \A c \in Callers : Still /\ wait[c].at = "sleep" /\ ~wait[c].woken /\ pi.run = "none" /\ ~pi.comp
                       => rt.pending \/ rt.bridge \/ times.dropped > 0

\* Who acts on idleness, or waits for it, is told the truth.
IdleIsKnown == IdleIsReal /\ SleepersHaveReason

\* The aborts Pair sends on its own, for activity nobody asked for and for a compaction that takes too
\* long, reach the run of a live activation ("Agent work needs a live lease", and this has one) only when a
\* settlement that was not the activation's own had marked it settled, or when a refused compaction had
\* left its deadline behind.
OwnRunKept == hit = "no" \/ times.early > 0 \/ (hit = "reap" /\ times.crowded > 0)

\* When a stop reports that the worker is contained, the run of the revoked activation is over: the next
\* lease is granted on that word.
StopMeansStopped == [][pc.stop # "off" /\ pc'.stop = "off" => pi.run # "own"]_sessionVars
=============================================================================
