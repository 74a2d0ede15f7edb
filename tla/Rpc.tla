--------------------------------- MODULE Rpc ---------------------------------
(***************************************************************************)
(* PiRpc (rpc.js): the transport between Main and one worker process.      *)
(* Requests and dialog answers share stdin in two lanes, ordinary and      *)
(* control; one frame is being written at a time.  A request ends with the *)
(* worker's answer, a deadline, a cancellation, a fault of the transport   *)
(* or the end of the process, and a fault or a stop clears both lanes and  *)
(* sends the worker its last two commands.                                 *)
(*                                                                         *)
(* JavaScript runs to completion: `sync` holds the calls still to run in   *)
(* the current turn, innermost first, and `micro` the promise reactions    *)
(* behind it.  Callers (promise reactions themselves) run when sync is     *)
(* empty; timers and I/O only when micro is empty too.                     *)
(***************************************************************************)
EXTENDS Integers, Sequences, FiniteSets, SequencesExt

CONSTANTS
  Command,        \* the requests made of one handle, and the command each sends
  OnControl,      \* the requests sent with options.control
  Observed,       \* those with observeAfterWrite: not cancelled once written
  Signalled,      \* requests and dialog answers that carry an abort signal
  Dialogs,        \* the dialogs of the worker that Main answers
  NORMAL_REQUESTS, CONTROL_REQUESTS, NORMAL_WRITES, CONTROL_WRITES

StopClear == "stop_clear_queue"
StopAbort == "stop_abort"
StopIds   == {StopClear, StopAbort}
Callers   == DOMAIN Command
Ids       == Callers \cup StopIds
Frames    == Ids \cup Dialogs
Control   == OnControl \cup StopIds \cup Dialogs
CONTROL_COMMANDS == {"clear_queue", "abort", "abort_retry", "abort_bash", "get_state"}
Lanes     == {"control", "ordinary"}

ASSUME RpcAssumption ==
  /\ OnControl \subseteq Callers /\ Observed \subseteq Callers
  /\ Signalled \subseteq Callers \cup Dialogs
  /\ Dialogs \cap Ids = {} /\ Callers \cap StopIds = {} /\ "none" \notin Frames
  /\ {NORMAL_REQUESTS, CONTROL_REQUESTS, NORMAL_WRITES, CONTROL_WRITES} \subseteq Nat

VARIABLES
  pending,    \* the pending map, in insertion order
  outcome,    \* how each promise stands
  written,    \* pending requests whose write completed (p.written)
  response,   \* requests the worker has answered (p.response)
  queue, active,   \* the write queue and the frame being written
  acks,       \* what the write in progress has had of its callback and the drain
  held,       \* normalBytes and controlBytes, in frames
  wire,       \* frames given to stdin.write (attempted)
  full,       \* stdin asked for a drain
  ended,      \* stdin.end() was called
  started, closed, stopping, fault,
  stop,       \* where the promise of abortAndStop or closeIdle is
  due,        \* unsettled frames whose deadline has passed
  fenced,     \* unsettled frames whose signal is aborted or whose guard fails
  sync, micro

requests == <<pending, outcome, written, response, due, fenced>>
lanes    == <<queue, active, acks, held>>
stream   == <<wire, full, ended>>
life     == <<started, closed, stopping, fault, stop>>
vars     == <<requests, lanes, stream, life, sync, micro>>

Errors   == {"lost", "cancelled"}   \* cancelled: RpcCancelledError, or any other
Outcomes == Errors \cup {"new", "pending", "refused", "ineligible", "answered"}
Calls    == {"send", "enqueue", "pump", "complete", "fail", "rejectAll", "rejectWrites",
             "reject", "cancel", "cancelFrame", "settled", "stopBody", "idleBody"}
Step     == Calls \X (Frames \cup {"none"}) \X (Errors \cup {"none", "unasked"})

\* Types of every variable.
TypeOK ==
  /\ pending \in Seq(Ids) /\ outcome \in [Frames -> Outcomes]
  /\ written \subseteq Ids /\ response \subseteq Ids
  /\ queue \in Seq(Frames) /\ active \in Frames \cup {"none"}
  /\ acks \subseteq {"callback", "drain"}
  /\ held \in [Lanes -> Nat]
  /\ wire \subseteq Frames /\ full \in BOOLEAN /\ ended \in BOOLEAN
  /\ started \in BOOLEAN /\ closed \in BOOLEAN /\ stopping \in BOOLEAN
  /\ fault \in {"none", "lost", "unasked"}
  /\ stop \in {"none", "called", "clearing", "aborting", "eof", "idle", "closing",
               "term", "kill", "over", "unconfirmed"}
  /\ due \subseteq Frames /\ fenced \subseteq Frames
  /\ sync \in Seq(Step) /\ micro \in Seq(Step)

Init ==
  /\ pending = <<>> /\ outcome = [f \in Frames |-> "new"]
  /\ written = {} /\ response = {}
  /\ queue = <<>> /\ active = "none" /\ acks = {}
  /\ held = [lane \in Lanes |-> 0]
  /\ wire = {} /\ full = FALSE /\ ended = FALSE
  /\ started = FALSE /\ closed = FALSE /\ stopping = FALSE /\ fault = "none" /\ stop = "none"
  /\ due = {} /\ fenced = {} /\ sync = <<>> /\ micro = <<>>

------------------------------------------------------------------------------
(* Running to completion.                                                  *)

Do(call, f, error) == <<call, f, error>>
Calling(call) == sync # <<>> /\ sync[1][1] = call
Arg == sync[1][2]
Error == sync[1][3]
Then(inner) == sync' = inner \o Tail(sync)

CallerTurn == sync = <<>>
\* the stop's promise goes on as soon as the request it awaits has settled
StopReady ==
  \/ stop = "clearing" /\ outcome[StopClear] \notin {"new", "pending"}
  \/ stop = "aborting" /\ outcome[StopAbort] \notin {"new", "pending"}
IdleTurn == sync = <<>> /\ micro = <<>> /\ ~StopReady

Microtask ==
  /\ CallerTurn /\ micro # <<>>
  /\ sync' = <<Head(micro)>> /\ micro' = Tail(micro)
  /\ UNCHANGED <<requests, lanes, stream, life>>

Pending == Range(pending)
Live(f) == f = active \/ f \in Range(queue)
LaneOf(f) == IF f \in Control THEN "control" ELSE "ordinary"
InLane(s, lane) == {f \in s : LaneOf(f) = lane}
\* a frame is in a lane, and a request in the map, once
Without(s, f) ==
  IF f \in Range(s) THEN RemoveAt(s, CHOOSE i \in DOMAIN s : s[i] = f) ELSE s
Writing == Range(queue) \cup ({active} \ {"none"})
LaneHeldByFault(f) == fault # "none" /\ f \notin Control
LaneHeld(f) == (fault # "none" \/ stopping) /\ f \notin Control

------------------------------------------------------------------------------
(* Requests.                                                               *)

\* promises settle: their timers and their listeners go
Settle(S, left, how) ==
  /\ outcome' = [f \in Frames |-> IF f \in S THEN how ELSE outcome[f]] /\ pending' = left
  /\ written' = written \ S /\ due' = due \ S /\ fenced' = fenced \ S
SettleOne(f, how) == Settle({f}, Without(pending, f), how)
promises == <<pending, outcome, written, due, fenced>>

\* rejectRequest: reject the promise, then abort the frame if it is still queued
Reject ==
  /\ Calling("reject")
  /\ IF Arg \in Pending
     THEN SettleOne(Arg, Error) /\ Then(<<Do("cancelFrame", Arg, "none")>>)
     ELSE Then(<<>>) /\ UNCHANGED promises
  /\ UNCHANGED <<response, lanes, stream, life, micro>>

RejectAll ==
  /\ Calling("rejectAll")
  /\ Settle(Pending, <<>>, Error)
  /\ Then([i \in DOMAIN pending |-> Do("cancelFrame", pending[i], "none")])
  /\ UNCHANGED <<response, lanes, stream, life, micro>>

\* the reactions to a frame's promise: a dialog is done; a request completes
\* with its answer (completeResponse), now or when the answer comes
Settled ==
  /\ Calling("settled")
  /\ LET f == Arg IN
     IF f \in Dialogs
     THEN SettleOne(f, IF Error = "none" THEN "answered" ELSE Error) /\ Then(<<>>)
     ELSE IF Error # "none"
     THEN Then(<<Do("reject", f, Error)>>) /\ UNCHANGED promises
     ELSE /\ Then(<<>>)
          /\ IF f \in Pending \cap response THEN SettleOne(f, "answered")
             ELSE written' = written \cup ({f} \cap Pending) /\ UNCHANGED <<pending, outcome, due, fenced>>
  /\ UNCHANGED <<response, lanes, stream, life, micro>>

Capacity(r) ==
  Cardinality(InLane(Pending, LaneOf(r))) < IF r \in Control THEN CONTROL_REQUESTS ELSE NORMAL_REQUESTS
Unavailable(f) == ~started \/ closed \/ LaneHeld(f)
Eligible(r) == r \in OnControl => Command[r] \in CONTROL_COMMANDS

SendFrame ==
  /\ Calling("send")
  /\ LET r == Arg
         now(how) == outcome' = [outcome EXCEPT ![r] = how]
     IN
     \/ /\ Unavailable(r) \/ ~Eligible(r)
        /\ now(IF Unavailable(r) THEN "refused" ELSE "ineligible")
        /\ Then(<<>>) /\ UNCHANGED pending
     \/ /\ ~Unavailable(r) /\ Eligible(r) /\ ~Capacity(r)
        /\ now("lost") /\ Then(<<Do("fail", "none", "lost")>>) /\ UNCHANGED pending
     \/ /\ ~Unavailable(r) /\ Eligible(r) /\ Capacity(r)
        /\ IF r \in fenced \cap Signalled
           THEN now("cancelled") /\ Then(<<>>) /\ UNCHANGED pending
           ELSE /\ now("pending") /\ pending' = Append(pending, r)
                /\ Then(<<Do("enqueue", r, "none")>>)
  /\ UNCHANGED <<written, response, due, fenced, lanes, stream, life, micro>>

Send(r) ==
  /\ CallerTurn /\ r \in Callers /\ outcome[r] = "new"
  /\ sync' = <<Do("send", r, "none")>>
  /\ UNCHANGED <<requests, lanes, stream, life, micro>>

\* respondUI
Answer(d) ==
  /\ CallerTurn /\ outcome[d] = "new"
  /\ outcome' = [outcome EXCEPT ![d] = IF Unavailable(d) THEN "refused" ELSE "pending"]
  /\ sync' = IF Unavailable(d) THEN <<>> ELSE <<Do("enqueue", d, "none")>>
  /\ UNCHANGED <<pending, written, response, due, fenced, lanes, stream, life, micro>>

\* the owner aborts the signal, or its guard turns false (a revoked lease or dialog)
Revoke(f) ==
  /\ CallerTurn /\ f \in (Callers \cup Dialogs) \ fenced /\ outcome[f] \in {"new", "pending"}
  /\ fenced' = fenced \cup {f}
  /\ sync' = IF f \notin Signalled THEN <<>>
             ELSE <<Do(IF f \in Dialogs THEN "cancelFrame" ELSE "cancel", f, "none")>>
  /\ UNCHANGED <<pending, outcome, written, response, due, lanes, stream, life, micro>>

CancelledAsUnsent(r) == <<Do("reject", r, "cancelled")>>
CancelSilently(r) == <<Do("reject", r, IF r \in wire THEN "lost" ELSE "cancelled")>>
Cancelled(r) ==
  IF r \in wire
  THEN <<Do("fail", "none", "lost"), Do("reject", r, "lost")>>
  ELSE <<Do("reject", r, "cancelled")>>

Cancel ==
  /\ Calling("cancel")
  /\ Then(IF Arg \notin Pending \/ Arg \in wire \cap Observed THEN <<>> ELSE Cancelled(Arg))
  /\ UNCHANGED <<requests, lanes, stream, life, micro>>

------------------------------------------------------------------------------
(* The write lanes.                                                        *)

\* finishWrite: the frame leaves its lane and its promise settles
Finish(f, error) ==
  /\ queue' = Without(queue, f)
  /\ active' = IF active = f THEN "none" ELSE active
  /\ held' = [held EXCEPT ![LaneOf(f)] = @ - 1]
  /\ acks' = IF active = f THEN {} ELSE acks
  /\ micro' = Append(micro, Do("settled", f, error))

Enqueue ==
  /\ Calling("enqueue")
  /\ LET f == Arg
         limit == IF f \in Control THEN CONTROL_WRITES ELSE NORMAL_WRITES
     IN IF Cardinality(InLane(Writing, LaneOf(f))) >= limit
        THEN /\ micro' = Append(micro, Do("settled", f, "lost"))
             /\ Then(<<Do("fail", "none", "lost")>>)
             /\ UNCHANGED <<queue, held>>
        ELSE /\ queue' = Append(queue, f)
             /\ held' = [held EXCEPT ![LaneOf(f)] = @ + 1]
             /\ Then(<<Do(IF f \in fenced \cap Signalled THEN "cancelFrame" ELSE "pump", f, "none")>>)
             /\ UNCHANGED micro
  /\ UNCHANGED <<requests, active, acks, stream, life>>

CancelFrame ==
  /\ Calling("cancelFrame")
  /\ IF ~Live(Arg) THEN Then(<<>>) /\ UNCHANGED <<queue, active, acks, held, micro>>
     ELSE IF Arg \in wire
     THEN Finish(Arg, "lost") /\ Then(<<Do("fail", "none", "lost")>>)
     ELSE Finish(Arg, "cancelled") /\ Then(<<Do("pump", "none", "none")>>)
  /\ UNCHANGED <<requests, stream, life>>

ReleasedQueue(lane) == Cardinality(InLane(Range(queue), lane))
Released(lane) == Cardinality(InLane(Writing, lane))
RejectWrites ==
  /\ Calling("rejectWrites")
  /\ LET all == queue \o (IF active = "none" THEN <<>> ELSE <<active>>)
     IN micro' = micro \o [i \in DOMAIN all |-> Do("settled", all[i], Error)]
  /\ held' = [lane \in Lanes |-> held[lane] - Released(lane)]
  /\ queue' = <<>> /\ active' = "none" /\ acks' = {} /\ Then(<<>>)
  /\ UNCHANGED <<requests, stream, life>>

\* the control lane goes first
NextFrame(f) ==
  \E i \in DOMAIN queue :
    /\ queue[i] = f /\ \A j \in 1..(i - 1) : queue[j] \notin Control
    /\ f \in Control \/ (i = 1 /\ Range(queue) \cap Control = {})

Current(f) == f \notin fenced /\ (f \in Ids => f \in Pending)
\* the guard of a request looks at its deadline first, a dialog's at the dialog
Late(f) == f \in due /\ (f \in Dialogs => f \notin fenced)

Pumping(f) == Calling("pump") /\ active = "none" /\ ~closed /\ NextFrame(f)
Drop(f, error, next) ==
  Finish(f, error) /\ Then(next) /\ UNCHANGED <<requests, stream, life>>
Again == Do("pump", "none", "none")

PumpIdle ==
  /\ Calling("pump") /\ (active # "none" \/ closed \/ queue = <<>>)
  /\ Then(<<>>) /\ UNCHANGED <<requests, lanes, stream, life, micro>>

PumpHeld(f) == Pumping(f) /\ LaneHeld(f) /\ Drop(f, "cancelled", <<Again>>)
PumpEnded(f) ==
  Pumping(f) /\ ~LaneHeld(f) /\ ended /\ Drop(f, "lost", <<Do("fail", "none", "lost"), Again>>)
PumpLate(f) ==
  Pumping(f) /\ ~LaneHeld(f) /\ ~ended /\ Late(f)
    /\ Drop(f, "lost", <<Do("fail", "none", "lost")>>)
PumpFenced(f) ==
  Pumping(f) /\ ~LaneHeld(f) /\ ~ended /\ ~Late(f) /\ ~Current(f) /\ Drop(f, "cancelled", <<Again>>)
PumpWrite(f) ==
  /\ Pumping(f) /\ ~LaneHeld(f) /\ ~ended /\ ~Late(f) /\ Current(f)
  /\ queue' = Without(queue, f) /\ active' = f
  /\ \E room \in BOOLEAN : acks' = (IF room THEN {"drain"} ELSE {}) /\ full' = (full \/ ~room)
  /\ wire' = wire \cup {f}
  /\ Then(<<>>) /\ UNCHANGED <<requests, held, ended, life, micro>>

Complete ==
  /\ Calling("complete")
  /\ IF Arg = active /\ acks = {"callback", "drain"}
     THEN Finish(Arg, "none") /\ Then(<<Again>>)
     ELSE Then(<<>>) /\ UNCHANGED <<queue, active, acks, held, micro>>
  /\ UNCHANGED <<requests, stream, life>>

\* the callback of stdin.write (a finished frame ignores its own)
WriteCallback(f) ==
  /\ IdleTurn /\ f = active /\ "callback" \notin acks
  /\ acks' = acks \cup {"callback"} /\ sync' = <<Do("complete", f, "none")>>
  /\ UNCHANGED <<requests, queue, active, held, stream, life, micro>>

WriteError(f) ==
  /\ IdleTurn /\ f = active /\ "callback" \notin acks
  /\ Finish(f, "lost") /\ sync' = <<Do("fail", "none", "lost")>>
  /\ UNCHANGED <<requests, stream, life>>

Drain ==
  /\ IdleTurn /\ full /\ full' = FALSE
  /\ IF active = "none" THEN UNCHANGED <<acks, sync>>
     ELSE acks' = acks \cup {"drain"} /\ sync' = <<Do("complete", active, "none")>>
  /\ UNCHANGED <<requests, queue, active, held, wire, ended, life, micro>>

------------------------------------------------------------------------------
(* Deadlines and answers.                                                  *)

\* the deadline of a request (or of an answer to a dialog) passes: its frame may not be
\* written any more, whatever becomes of its timer
Expire(f) ==
  /\ IdleTurn /\ outcome[f] = "pending" /\ f \notin due
  /\ due' = due \cup {f}
  /\ UNCHANGED <<pending, outcome, written, response, fenced, lanes, stream, life, sync, micro>>

\* extend re-arms the timer of a prompt while its run goes on, up to maxWaitMs: nothing else
\* changes, so RequestTimer is the firing that is not extended, any time after the deadline
ExpiredByFault(r) == <<Do("fail", "none", "lost")>>
Expired(r) == <<Do("fail", "none", "lost"), Do("reject", r, "lost")>>
RequestTimer(r) ==
  /\ IdleTurn /\ r \in due /\ r \in Pending /\ sync' = Expired(r)
  /\ UNCHANGED <<requests, lanes, stream, life, micro>>

WriteTimer(f) ==
  /\ IdleTurn /\ f \in due /\ Live(f)
  /\ Finish(f, "lost") /\ sync' = <<Do("fail", "none", "lost")>>
  /\ UNCHANGED <<requests, stream, life>>

\* the worker answers each request it was sent once
Reply(r) ==
  /\ IdleTurn /\ started /\ ~closed /\ r \in wire \ response
  /\ response' = response \cup {r}
  /\ IF r \in Pending \cap written THEN SettleOne(r, "answered") ELSE UNCHANGED promises
  /\ sync' = IF r \in Pending \/ stopping \/ fault # "none" THEN <<>>
             ELSE <<Do("fail", "none", "unasked")>>
  /\ UNCHANGED <<lanes, stream, life, micro>>

\* a broken frame, the end of stdout, or an error of one of the pipes
StreamFails ==
  /\ IdleTurn /\ started /\ ~closed /\ fault = "none"
  /\ sync' = <<Do("fail", "none", "lost")>>
  /\ UNCHANGED <<requests, lanes, stream, life, micro>>

------------------------------------------------------------------------------
(* The life of the process.                                                *)

Start ==
  /\ CallerTurn /\ ~started /\ ~closed /\ started' = TRUE
  /\ UNCHANGED <<requests, lanes, stream, closed, stopping, fault, stop, sync, micro>>

\* spawn throws, or reports an error without a pid
SpawnFails ==
  /\ CallerTurn /\ ~started /\ ~closed
  /\ started' = TRUE /\ closed' = TRUE
  /\ sync' = <<Do("rejectAll", "none", "lost"), Do("rejectWrites", "none", "lost"), Do("fail", "none", "lost")>>
  /\ UNCHANGED <<requests, lanes, stream, stopping, fault, stop, micro>>

\* finish: the close event of the child
EndWrites == <<Do("rejectWrites", "none", "lost")>>
EndRequests == <<Do("rejectAll", "none", "lost"), Do("rejectWrites", "none", "lost")>>
Exit ==
  /\ IdleTurn /\ started /\ ~closed /\ closed' = TRUE
  /\ sync' = EndRequests
  /\ UNCHANGED <<requests, lanes, stream, started, stopping, fault, stop, micro>>

BeginStop ==
  IF closed \/ stop # "none" \/ ~started THEN UNCHANGED <<stopping, stop, micro>>
  ELSE /\ stopping' = TRUE /\ stop' = "called"
       /\ micro' = Append(micro, Do("stopBody", "none", "none"))

Fail ==
  /\ Calling("fail")
  /\ IF fault # "none" THEN Then(<<>>) /\ UNCHANGED <<fault, stopping, stop, micro>>
     ELSE /\ fault' = Error /\ BeginStop
          /\ Then(<<Do("rejectAll", "none", "lost"), Do("rejectWrites", "none", "lost")>>)
  /\ UNCHANGED <<requests, lanes, stream, started, closed>>

AbortAndStop ==
  /\ CallerTurn /\ stop = "none" /\ started /\ ~closed
  /\ BeginStop
  /\ UNCHANGED <<requests, lanes, stream, started, closed, fault, sync>>

StopBody ==
  /\ Calling("stopBody") /\ stop' = "clearing"
  /\ Then(<<Do("rejectAll", "none", "lost"), Do("rejectWrites", "none", "lost"),
            Do("send", StopClear, "none")>>)
  /\ UNCHANGED <<requests, lanes, stream, started, closed, stopping, fault, micro>>

StopNext ==
  /\ CallerTurn /\ micro = <<>> /\ StopReady
  /\ IF closed THEN stop' = "over" /\ UNCHANGED <<ended, sync>>
     ELSE IF stop = "clearing"
     THEN stop' = "aborting" /\ sync' = <<Do("send", StopAbort, "none")>> /\ UNCHANGED ended
     ELSE stop' = "eof" /\ ended' = TRUE /\ UNCHANGED sync
  /\ UNCHANGED <<requests, lanes, wire, full, started, closed, stopping, fault, micro>>

Unsettled == pending # <<>> \/ queue # <<>> \/ active # "none"

\* closeIdle, with an eligibility guard that holds
CloseIdle ==
  /\ CallerTurn /\ started /\ ~closed /\ stop = "none" /\ ~Unsettled
  /\ stopping' = TRUE /\ stop' = "idle"
  /\ micro' = Append(micro, Do("idleBody", "none", "none"))
  /\ UNCHANGED <<requests, lanes, stream, started, closed, fault, sync>>

MayEndAtOnce == TRUE
MayEnd == ~Unsettled
\* no I/O comes between the call and its reaction, so the process is still there
IdleBody ==
  /\ Calling("idleBody") /\ Then(<<>>)
  /\ \E eligible \in BOOLEAN :
       IF eligible /\ MayEnd THEN stop' = "closing" /\ ended' = TRUE
       ELSE stop' = "term" /\ UNCHANGED ended
  /\ UNCHANGED <<requests, lanes, wire, full, started, closed, stopping, fault, micro>>

\* exitedWithin and escalate: EOF, SIGTERM, SIGKILL, then the exit is unconfirmed
NextSignalRetry == [eof |-> "term", closing |-> "term", term |-> "kill", kill |-> "term"]
NextSignal == [eof |-> "term", closing |-> "term", term |-> "kill", kill |-> "unconfirmed"]
Escalate ==
  /\ IdleTurn /\ stop \in DOMAIN NextSignal
  /\ stop' = IF closed THEN "over" ELSE NextSignal[stop]
  /\ UNCHANGED <<requests, lanes, stream, started, closed, stopping, fault, sync, micro>>

------------------------------------------------------------------------------
Run ==
  \/ Microtask \/ Reject \/ RejectAll \/ Settled \/ SendFrame \/ Cancel \/ Enqueue \/ CancelFrame
  \/ RejectWrites \/ PumpIdle \/ Complete \/ Fail \/ StopBody \/ IdleBody \/ StopNext
  \/ \E f \in Frames : PumpHeld(f) \/ PumpEnded(f) \/ PumpLate(f) \/ PumpFenced(f) \/ PumpWrite(f)

Caller ==
  \/ Start \/ SpawnFails \/ AbortAndStop \/ CloseIdle
  \/ \E r \in Callers : Send(r)
  \/ \E d \in Dialogs : Answer(d)
  \/ \E f \in Frames : Revoke(f)

Timer ==
  \/ Escalate
  \/ \E f \in Frames : Expire(f) \/ WriteTimer(f)
  \/ \E r \in Ids : RequestTimer(r)

Worker ==
  \/ Drain \/ StreamFails \/ Exit
  \/ \E f \in Frames : WriteCallback(f) \/ WriteError(f)
  \/ \E r \in Ids : Reply(r)

Next == Run \/ Caller \/ Timer \/ Worker

\* The event loop runs what is queued and fires its timers; the worker owes nothing.
Fairness ==
  /\ WF_vars(Run) /\ WF_vars(Escalate)
  /\ \A f \in Frames : WF_vars(Expire(f)) /\ WF_vars(WriteTimer(f))
  /\ \A r \in Ids : WF_vars(RequestTimer(r))

Spec == Init /\ [][Next]_vars
FairSpec == Spec /\ Fairness

------------------------------------------------------------------------------
\* A frame reported as cancelled before it was written never reaches the worker.
CancelledNeverWritten == \A f \in wire : outcome[f] # "cancelled"

\* The transport never faults because of an answer to a request it sent: while it
\* is healthy, a request that was written stays pending until it is answered.
AnswersAreExpected == fault # "unasked"

\* When the process is gone and its turn has ended, no promise is left pending.
ClosedIsSettled ==
  closed /\ sync = <<>> /\ micro = <<>> => \A f \in Frames : outcome[f] # "pending"

\* What a caller was told of its request is so: not sent, still awaited, or over with the process.
OutcomesAreTrue == CancelledNeverWritten /\ AnswersAreExpected /\ ClosedIsSettled

\* Once the transport has faulted or is stopping, no ordinary frame is written.
OrdinaryLaneHeld ==
  [][fault # "none" \/ stopping => wire' \ wire \subseteq Control]_vars

\* The bytes counted against each lane are those of the frames in it.
LanesBalanced == \A lane \in Lanes : held[lane] = Cardinality(InLane(Writing, lane))

\* While the transport is healthy, closeIdle ends stdin only when nothing is half
\* written and every request the worker was ever sent has been answered.
IdleEndIsClean ==
  [][fault = "none" /\ stop # "closing" /\ stop' = "closing" =>
       active = "none" /\ wire \cap Ids \subseteq response]_vars

\* Every request and every answer to a dialog settles, whatever the worker does.
EveryCallSettles == \A f \in Frames : outcome[f] = "pending" ~> outcome[f] # "pending"

\* A stop ends: the process is gone, or its exit is reported as unconfirmed.
StopEnds == stop # "none" ~> stop \in {"over", "unconfirmed"}

\* By its timers alone, the transport gives everyone who waits on it an answer.
CallsSettle == EveryCallSettles /\ StopEnds
------------------------------------------------------------------------------
(* Why they hold: what may lie on the stack and behind it, and what it     *)
(* says of the frame it is about.                                          *)

Rest      == IF sync = <<>> THEN {} ELSE Range(Tail(sync))
Behind    == Range(micro)
Ahead     == Range(sync) \cup Behind
Bodies    == {"stopBody", "idleBody"}
Reactions == Bodies \cup {"settled"}
OfFrame   == {"enqueue", "cancelFrame", "complete", "settled"}
OfRequest == {"send", "cancel", "reject"}
For(calls, f) == \E s \in Ahead : s[1] \in calls /\ s[2] = f

\* Every call is about what it takes, and fails with what it can fail with.
InvCalls ==
  \A s \in Ahead :
    /\ s[1] \in OfFrame => s[2] \in Frames
    /\ s[1] \in OfRequest => s[2] \in Ids
    /\ s[1] \in {"fail", "rejectAll", "rejectWrites"} => s[3] = "lost"
    /\ s[1] = "reject" => s[3] \in Errors
    /\ s[1] = "settled" => s[3] \in Errors \cup {"none"}

\* What is called innermost, what is called last, and the one reaction a stop has.
InvStack ==
  /\ \A s \in Rest : s[1] \notin Reactions \cup {"enqueue"} /\ ~(s[1] = "reject" /\ s[3] = "cancelled")
  /\ \A s \in Behind : s[1] \in Reactions
  /\ \A i \in 1..(Len(sync) - 1) : sync[i][1] # "send"
  /\ sync # <<>> /\ sync[1][1] \in Bodies => Rest = {} /\ \A s \in Behind : s[1] \notin Bodies
  /\ \A i, j \in DOMAIN micro : micro[i][1] \in Bodies /\ micro[j][1] \in Bodies => i = j

\* How far a stop is, and that its two commands are sent once.
InvStop ==
  /\ stopping <=> stop # "none"
  /\ stopping => started
  /\ \A s \in Ahead : /\ s[1] = "stopBody" => stop = "called"
                      /\ s[1] = "idleBody" => stop = "idle" /\ ~closed
                      /\ s[1] = "send" => /\ outcome[s[2]] = "new"
                                          /\ s[2] = StopClear => stop = "clearing"
                                          /\ s[2] = StopAbort => stop = "aborting"
  /\ stop = "idle" => ~closed /\ \E s \in Ahead : s[1] = "idleBody"
  /\ stop \in {"none", "called"} => outcome[StopClear] = "new"
  /\ stop \in {"none", "called", "clearing"} => outcome[StopAbort] = "new"

\* A request is in the map exactly while its promise is open.
InvRequests ==
  /\ IsInjective(pending)
  /\ \A r \in Ids : outcome[r] = "pending" <=> r \in Pending

\* A frame waits, is written or is done; what is said of it later keeps to that.
InvFrames ==
  /\ IsInjective(queue) /\ active \notin Range(queue)
  /\ active # "none" => active \in wire
  /\ Range(queue) \cap wire = {}
  /\ \A f \in Frames : outcome[f] = "new" => f \notin Writing \cup wire /\ ~For({"enqueue", "settled"}, f)
  /\ \A f \in wire : outcome[f] # "cancelled"
  /\ \A d \in Dialogs : /\ d \in Writing => outcome[d] = "pending"
                        /\ outcome[d] = "pending" => d \in Writing \/ For({"enqueue", "settled"}, d)
  /\ \A s \in Ahead :
       /\ s[1] = "enqueue" => /\ s[2] \notin Writing \cup wire /\ ~For({"settled"}, s[2])
                              /\ outcome[s[2]] = "pending"
       /\ s[1] = "settled" => s[2] \notin Writing
       /\ s[1] \in {"settled", "reject"} /\ s[3] = "cancelled" => s[2] \notin wire

\* A written request is given up only behind a fault, a stop or the end of the process.
Excused == fault # "none" \/ closed \/ stop \notin {"none", "idle"} \/ \E s \in Range(sync) : s[1] = "fail"
InvAnswers ==
  /\ fault # "unasked"
  /\ Excused \/ /\ \A r \in (wire \cap Ids) \ response : r \in Pending
                /\ \A s \in Ahead : /\ s[1] \in {"settled", "reject"} => s[3] # "lost"
                                    /\ s[1] \notin {"rejectAll", "rejectWrites"}

\* The end of the process clears the map and the lanes, and nothing enters them again.
InvClosed ==
  closed => /\ Pending = {} \/ \E s \in Ahead : s[1] = "rejectAll"
            /\ Writing = {} \/ \E s \in Ahead : s[1] = "rejectWrites"
            /\ \A s \in Ahead : s[1] # "enqueue"

RpcInv ==
  /\ TypeOK /\ InvCalls /\ InvStack /\ InvStop /\ InvRequests /\ InvFrames /\ LanesBalanced
  /\ InvAnswers /\ InvClosed
==============================================================================
