------------------------------ MODULE Delivery ------------------------------
(***************************************************************************)
(* How a frozen report reaches Main: the notice PairController keeps of    *)
(* it, the transactions that claim, offer, complete and revert it, and the *)
(* Main extension's side, which decides from Pi's events when a report may *)
(* be sent and learns from the conversation whether it arrived.            *)
(*                                                                         *)
(* One worker and one task; its reports are numbered as they are frozen.   *)
(* A counter the code only compares with an earlier copy of itself         *)
(* (activity, mainPhase.revision, branch, the run token) is kept as        *)
(* whether that copy is still current: quiet, same, current, here.         *)
(***************************************************************************)
EXTENDS Integers, FiniteSets

CONSTANTS
  MaxReports,    \* bound: reports of the task
  MaxAttempts,   \* MAX_AUTO_ATTEMPTS
  Cap,           \* autoCap: automatic deliveries of one task
  AutoModes,     \* the values of autoDeliverReports considered
  Outcomes,      \* how a run of Main may end
  Events,        \* what may happen to Main from outside, of AllEvents
  MaxEvents      \* bound: how many of them; then, while a report waits, only input between runs

ASSUME DeliveryAssumption ==
  /\ {MaxReports, MaxAttempts, Cap, MaxEvents} \subseteq Nat
  /\ Events \subseteq {"input", "loss", "compaction", "navigation", "human", "restart"}
  /\ AutoModes \subseteq BOOLEAN /\ "completed" \in Outcomes

VARIABLES
  auto,      \* config.autoDeliverReports
  earlier,   \* automatic deliveries of the task's earlier reports, all resolved
  task,      \* working, waiting (question, review, blocked), paused over a report, ...
  report,    \* the task's current report, 0 before the first
  notices,   \* state.notices
  moved,     \* the conversation has been navigated: branch # 0
  phase,     \* state.mainPhase (none yet is an open one)
  yield,     \* pair_yield called, its transaction still queued
  flight,    \* deliverNotice, claimSettledDelivery: the delivery of each report
  due,       \* autoDeliver() called for
  boundary,  \* agent_before_settle: the offer it waits for
  reverts,   \* revertOffer transactions queued
  settle,    \* agent_settled waits for claimSettledDelivery
  deciding,  \* decide(): none, captured, launched, and whether its branch still holds
  main,      \* Pi's run, busy and pending input, as the extension sees them
  queue,     \* follow-ups Pi holds: <<report, channel>>
  copies,    \* copies of each report's message on the conversation's branch
  reported, woken, asked,   \* settledReported; checkedStates; checkAsked and reportsChecked
  events,    \* how many events there have been
  navigated, disturbed, gone, withdrawn  \* history, for the properties only

mem    == <<phase, yield, flight, due, boundary, reverts, settle, deciding>>
sides  == <<reported, woken, asked>>
hist   == <<navigated, disturbed, gone, withdrawn>>
vars   == <<auto, earlier, task, report, notices, moved, mem, main, queue, copies, sides, events, hist>>

Reports  == 1..MaxReports
Channels == {"none", "auto", "boundary", "manual", "tool-result"}
Statuses == {"none", "pending", "delivery_pending", "offered", "delivery_failed", "resolved"}
NoFlight == [at |-> "none", via |-> "none", current |-> FALSE]
OpenPhase == [status |-> "open", armed |-> FALSE, quiet |-> FALSE, here |-> FALSE]
NoOffer  == [at |-> "none", armed |-> FALSE, quiet |-> FALSE, same |-> FALSE]
NotDeciding == [at |-> "none", current |-> FALSE]
IdleMain == [run |-> "idle", outcome |-> "none", settled |-> FALSE, typed |-> FALSE,
             prompt |-> FALSE, wake |-> FALSE, waking |-> FALSE, rescued |-> "none", compacting |-> FALSE]

\* Types of every variable.
TypeOK ==
  /\ auto \in BOOLEAN /\ earlier \in 0..Cap /\ moved \in BOOLEAN /\ due \in BOOLEAN
  /\ task \in {"working", "waiting", "paused", "activating", "interrupted", "done"}
  /\ report \in 0..MaxReports
  /\ notices \in [Reports -> [status : Statuses, observed : BOOLEAN, current : BOOLEAN,
                              channel : Channels, attempts : 0..MaxAttempts]]
  /\ phase \in [status : {"open", "yielded"}, armed : BOOLEAN, quiet : BOOLEAN, here : BOOLEAN]
  /\ yield \in {"none", "quiet", "noisy"} /\ settle \in {"none", "claiming"}
  /\ flight \in [Reports ->
       [at : {"none", "queued", "claimed", "sent", "received", "failed", "deferred"},
        via : {"none", "auto", "settled", "manual"}, current : BOOLEAN]]
  /\ boundary \in [at : {"none", "offering", "offered"}, armed : BOOLEAN, quiet : BOOLEAN, same : BOOLEAN]
  /\ deciding \in [at : {"none", "captured", "launched"}, current : BOOLEAN]
  /\ main \in [run : {"idle", "running", "settling", "ended"}, outcome : Outcomes \cup {"none"},
               settled : BOOLEAN, typed : BOOLEAN, prompt : BOOLEAN, wake : BOOLEAN, waking : BOOLEAN,
               rescued : {"none", "held", "sent"}, compacting : BOOLEAN]
  /\ queue \subseteq Reports \X {"auto", "manual"} /\ copies \in [Reports -> 0..2]
  /\ reported \subseteq Reports /\ woken \subseteq Reports /\ asked \subseteq Reports
  /\ reverts \subseteq Reports /\ gone \subseteq Reports /\ withdrawn \subseteq Reports
  /\ events \in 0..MaxEvents
  /\ navigated \in BOOLEAN /\ disturbed \in BOOLEAN

Init ==
  /\ auto \in AutoModes /\ earlier \in 0..Cap /\ task = "working" /\ report = 0 /\ moved = FALSE
  /\ notices = [r \in Reports |-> [status |-> "none", observed |-> FALSE, current |-> FALSE,
                                   channel |-> "none", attempts |-> 0]]
  /\ phase = OpenPhase /\ yield = "none" /\ due = FALSE /\ boundary = NoOffer /\ reverts = {}
  /\ flight = [r \in Reports |-> NoFlight] /\ settle = "none" /\ deciding = NotDeciding
  /\ main = [IdleMain EXCEPT !.run = "running"] /\ queue = {} /\ copies = [r \in Reports |-> 0]
  /\ reported = {} /\ woken = {} /\ asked = {}
  /\ events = 0
  /\ navigated = FALSE /\ disturbed = TRUE /\ gone = {} /\ withdrawn = {}

-----------------------------------------------------------------------------
(* What the code reads. *)

\* mainOccupied
Occupied == main.run # "idle" \/ main.compacting \/ main.typed \/ main.prompt \/ queue # {}

\* inputReadiness = "clear"
InputClear == ~main.prompt /\ queue = {}

Offerable   == {r \in Reports : notices[r].status = "pending" /\ ~notices[r].observed}
Unresolved  == {r \in Reports : notices[r].status \notin {"none", "resolved"}}
Retrievable == {r \in Unresolved : notices[r].status # "delivery_pending" /\ ~notices[r].observed}
AutoDelivered == earlier + Cardinality({r \in Reports : notices[r].channel \in {"auto", "boundary"}})
AutoBlocked(r) == notices[r].attempts >= MaxAttempts \/ AutoDelivered >= Cap
AutoEligible == {r \in Offerable : auto /\ r = report /\ ~AutoBlocked(r)}
HeldByAttempts == {r \in Offerable : auto /\ r = report /\ notices[r].attempts >= MaxAttempts}
HeldNotices  == {r \in Offerable : auto /\ r = report /\ AutoBlocked(r)}

Channel(via) == IF via = "manual" THEN "manual" ELSE "auto"

(* What several handlers do. *)

\* What happens to Main: the bound of the model.
Event(kind) == kind \in Events /\ events < MaxEvents /\ events' = events + 1

NoteActivityOnPhase ==
  /\ phase' = OpenPhase /\ yield' = yield
  /\ boundary' = IF boundary.at = "none" THEN boundary
                 ELSE [boundary EXCEPT !.quiet = FALSE, !.same = @ /\ phase.status # "yielded"]

\* noteActivity and revokeYield: a yield in force is revoked at once, outside the queue.
NoteActivity ==
  /\ phase' = OpenPhase
  /\ yield' = IF yield = "none" THEN "none" ELSE "noisy"
  /\ boundary' = IF boundary.at = "none" THEN boundary
                 ELSE [boundary EXCEPT !.quiet = FALSE, !.same = @ /\ phase.status # "yielded"]

\* An intent moves on: a delivery claimed for the old one is revoked.
Revoked == [r \in Reports |-> [flight[r] EXCEPT !.current = FALSE]]

\* Main gets a message of report r by the given way in; the receipt is observed.
Shown(r) == [copies EXCEPT ![r] = IF @ = 2 THEN 2 ELSE @ + 1]

CheckIdleOfHeld(m) ==
  IF AutoEligible = {} /\ task = "waiting" /\ report \notin woken /\ HeldNotices # {}
  THEN main' = [m EXCEPT !.wake = TRUE] /\ woken' = woken \cup {report}
  ELSE main' = m /\ UNCHANGED woken

\* checkIdle: Main is woken once for the state of the task.
CheckIdle(m) ==
  IF AutoEligible = {} /\ task = "waiting" /\ report \notin woken
  THEN main' = [m EXCEPT !.wake = TRUE] /\ woken' = woken \cup {report}
  ELSE main' = m /\ UNCHANGED woken

Offered(r, channel) == [notices EXCEPT ![r].status = "offered", ![r].channel = channel]

-----------------------------------------------------------------------------
(* The worker and the controller. *)

\* finalizeReport publishes the notice, and then calls autoDeliver and taskSettled.
Freeze ==
  /\ task = "working" /\ report < MaxReports
  /\ report' = report + 1 /\ task' = "waiting"
  /\ notices' = [notices EXCEPT ![report'] = [status |-> "pending", observed |-> FALSE,
                   current |-> ~moved, channel |-> "none", attempts |-> 0]]
  /\ due' = TRUE /\ navigated' = FALSE
  /\ UNCHANGED <<auto, earlier, moved, phase, yield, flight, boundary, reverts, settle, deciding, main, queue,
                 copies, sides, events, disturbed, gone, withdrawn>>

\* announceHeld: Main is asked once to fetch a report Pair will not deliver by itself.
Announce ==
  /\ asked' = asked \cup HeldNotices
  /\ IF HeldNotices \subseteq asked THEN UNCHANGED <<main, woken>>
     ELSE /\ woken' = woken \cup HeldNotices
          /\ main' = IF Occupied THEN main ELSE [main EXCEPT !.wake = TRUE]

\* autoDeliver: unless Main is busy, the eligible report's delivery is queued.
AutoDeliver ==
  /\ due /\ due' = FALSE
  /\ Announce
  /\ flight' = [r \in Reports |->
       IF ~Occupied /\ r \in AutoEligible /\ flight[r].at = "none"
       THEN [at |-> "queued", via |-> "auto", current |-> TRUE] ELSE flight[r]]
  /\ UNCHANGED <<auto, earlier, task, report, notices, moved, phase, yield, boundary, reverts, settle,
                 deciding, queue, copies, reported, events, hist>>

\* scan: held reports are announced, and an unresolved task is told to Main once.
Scan ==
  /\ task = "waiting"
  /\ IF HeldNotices \subseteq asked
     THEN /\ report \notin reported
          /\ reported' = reported \cup {report} /\ UNCHANGED asked
          /\ IF main.settled /\ ~Occupied THEN CheckIdle(main) ELSE UNCHANGED <<main, woken>>
     ELSE Announce /\ UNCHANGED reported
  /\ UNCHANGED <<auto, earlier, task, report, notices, moved, mem, queue, copies, events, hist>>

\* /pair inbox and /pair yield: the human sends the retained report.
Redeliver(r) ==
  /\ r \in Unresolved /\ notices[r].status # "delivery_pending" /\ flight[r].at = "none" /\ Event("human")
  /\ flight' = [flight EXCEPT ![r] = [at |-> "queued", via |-> "manual", current |-> TRUE]]
  /\ UNCHANGED <<auto, earlier, task, report, notices, moved, phase, yield, due, boundary, reverts, settle,
                 deciding, main, queue, copies, sides, hist>>

\* claimUnlocked: nothing is claimed twice, and a message the branch already holds is not sent again.
ClaimFails(r, via) == \/ r # report \/ r \notin Unresolved \/ notices[r].status = "delivery_pending"
                      \/ via # "manual" /\ r \notin Offerable

AlreadyThereIfOffered(r, via) == via # "manual" /\ copies[r] > 0 /\ notices[r].channel # "none"
AlreadyThere(r, via) == via # "manual" /\ copies[r] > 0

Claim(r) ==
  /\ flight[r].at = "queued"
  /\ LET via == flight[r].via IN
     \/ /\ ClaimFails(r, via)
        /\ flight' = [flight EXCEPT ![r] = NoFlight] /\ UNCHANGED notices
     \/ /\ ~ClaimFails(r, via) /\ AlreadyThere(r, via)
        /\ flight' = [flight EXCEPT ![r] = NoFlight] /\ notices' = Offered(r, "auto")
     \/ /\ ~ClaimFails(r, via) /\ ~AlreadyThere(r, via)
        /\ flight' = [flight EXCEPT ![r].at = "claimed", ![r].current = TRUE]
        /\ notices' = [notices EXCEPT ![r].status = "delivery_pending"]
  /\ UNCHANGED <<auto, earlier, task, report, moved, phase, yield, due, boundary, reverts, settle,
                 deciding, main, queue, copies, sides, events, hist>>

\* a claim whose intent a call of the human moves on while it is saved reverts to pending
ClaimRevoked(r) ==
  /\ flight[r].at = "queued" /\ Event("human")
  /\ ~ClaimFails(r, flight[r].via) /\ ~AlreadyThere(r, flight[r].via)
  /\ flight' = [Revoked EXCEPT ![r] = NoFlight]
  /\ notices' = [notices EXCEPT ![r].status = "pending"]
  /\ withdrawn' = IF flight[r].via = "manual" THEN withdrawn \cup {r} ELSE withdrawn
  /\ UNCHANGED <<auto, earlier, task, report, moved, phase, yield, due, boundary, reverts, settle,
                 deciding, main, queue, copies, sides, navigated, disturbed, gone>>

\* notifyMain and sendReport: a busy Main gets a follow-up, an idle one the message and a wake prompt.
\* Pair notes the wake of an automatic delivery (idleWake), whether or not it arrives.
Waking(r) == main.waking \/ flight[r].via = "auto"
SendReport(r) ==
  \/ /\ Occupied /\ queue' = queue \cup {<<r, Channel(flight[r].via)>>}
     /\ flight' = [flight EXCEPT ![r].at = "sent"] /\ UNCHANGED <<main, copies, events>>
  \/ /\ ~Occupied /\ copies' = Shown(r) /\ main' = [main EXCEPT !.wake = TRUE, !.waking = Waking(r)]
     /\ flight' = [flight EXCEPT ![r].at = "received"] /\ UNCHANGED <<queue, events>>
  \/ /\ Event("loss") /\ main' = [main EXCEPT !.waking = Waking(r)]
     /\ flight' = [flight EXCEPT ![r].at = "sent"] /\ UNCHANGED <<copies, queue>>

Send(r) ==
  /\ flight[r].at = "claimed"
  /\ \/ /\ flight[r].via # "settled" /\ ~flight[r].current
        /\ flight' = [flight EXCEPT ![r].at = "failed"] /\ UNCHANGED <<main, copies, queue, events>>
     \/ /\ flight[r].via = "auto" /\ flight[r].current /\ Occupied
        /\ flight' = [flight EXCEPT ![r].at = "deferred"] /\ UNCHANGED <<main, copies, queue, events>>
     \/ /\ flight[r].via = "settled" \/ flight[r].current
        /\ flight[r].via = "auto" => ~Occupied
        /\ SendReport(r)
  /\ UNCHANGED <<auto, earlier, task, report, notices, moved, phase, yield, due, boundary, reverts, settle,
                 deciding, sides, hist>>

\* awaitReceipt: no message in the conversation, and Main is free: the report did not arrive.
\* (Main is not taken to be busy for RECEIPT_MAX_MS, two hours, on end.)
ReceiptMissing(r) ==
  /\ flight[r].at = "sent" /\ ~Occupied
  /\ flight' = [flight EXCEPT ![r].at = IF copies[r] > 0 THEN "received" ELSE "failed"]
  /\ UNCHANGED <<auto, earlier, task, report, notices, moved, phase, yield, due, boundary, reverts, settle,
                 deciding, main, queue, copies, sides, events, hist>>

AfterDeliveryOfDeferred(r) ==
  CASE flight[r].at \in {"received", "deferred"} -> Offered(r, Channel(flight[r].via))
    [] OTHER -> [notices EXCEPT ![r].status = "pending"]
AfterDeliveryOrAgain(r) ==
  CASE flight[r].at = "received" -> Offered(r, Channel(flight[r].via))
    [] flight[r].at = "deferred" -> notices
    [] OTHER -> [notices EXCEPT ![r].status = "delivery_failed"]

\* completeDelivery, for a notice that is still the delivery's.
AfterDelivery(r) ==
  CASE flight[r].at = "received" -> Offered(r, Channel(flight[r].via))
    [] flight[r].at = "deferred" -> [notices EXCEPT ![r].status = "pending"]
    [] flight[r].at = "failed" /\ flight[r].via = "manual" ->
         [notices EXCEPT ![r].status = "delivery_failed"]
    [] OTHER -> [notices EXCEPT ![r].attempts = IF @ < MaxAttempts THEN @ + 1 ELSE @,
                   ![r].status = IF notices[r].attempts + 1 < MaxAttempts THEN "pending"
                                 ELSE "delivery_failed"]

Complete(r) ==
  /\ flight[r].at \in {"received", "failed", "deferred"}
  /\ notices' = IF notices[r].status = "delivery_pending" THEN AfterDelivery(r) ELSE notices
  /\ due' = (due \/ (flight[r].at = "failed" /\ flight[r].via # "manual" /\ notices'[r].status = "pending"))
  /\ flight' = [flight EXCEPT ![r] = NoFlight]
  /\ UNCHANGED <<auto, earlier, task, report, moved, phase, yield, boundary, reverts, settle, deciding, main,
                 queue, copies, sides, events, hist>>


-----------------------------------------------------------------------------
(* Main's runs and the user, as Pi's events show them to the extension. *)

\* input: the user's message holds automatic deliveries back until a run starts or settles.
TakeInput(m) ==
  /\ main' = [m EXCEPT !.typed = TRUE, !.prompt = TRUE, !.waking = @ /\ m.run = "idle"]
  /\ NoteActivity /\ disturbed' = TRUE
  /\ UNCHANGED <<auto, earlier, task, report, notices, moved, flight, due, reverts, settle, deciding, queue,
                 copies, sides, navigated, gone, withdrawn>>
InputComes ==
  Event("input") \/ (main.run = "idle" /\ task = "waiting" /\ events = MaxEvents /\ UNCHANGED events)
UserInput == InputComes /\ TakeInput(main)

\* input that crosses the wake of a report: the message is put aside until the run has settled, and the run aborted,
\* which may come too late for it. Nothing here counts as activity of Main.
Rescue ==
  /\ Event("input") /\ main.run # "idle" /\ main.waking /\ main.rescued = "none"
  /\ main' = [main EXCEPT !.rescued = "held", !.waking = FALSE] /\ disturbed' = TRUE
  /\ UNCHANGED <<auto, earlier, task, report, notices, moved, mem, queue, copies, sides, navigated, gone, withdrawn>>
\* and then sent as any other
Resend == main.rescued = "sent" /\ TakeInput([main EXCEPT !.rescued = "none"]) /\ UNCHANGED events

\* agent_start: a prompt of the user, a wake of Pair's or a message that triggers a turn starts a run.
StartRun ==
  /\ main.run = "idle" /\ (main.prompt \/ main.wake \/ queue # {})
  /\ main' = [main EXCEPT !.run = "running", !.outcome = "none", !.settled = FALSE, !.typed = FALSE,
                          !.prompt = FALSE, !.wake = FALSE, !.waking = @ /\ ~main.prompt]
  /\ phase' = OpenPhase
  /\ disturbed' = TRUE
  /\ UNCHANGED <<auto, earlier, task, report, notices, moved, yield, flight, due, boundary, reverts, settle,
                 deciding, queue, copies, sides, events, navigated, gone, withdrawn>>

\* Pi hands the run what is pending: the user's message, or a follow-up of Pair's.
TakePrompt ==
  /\ main.run = "running" /\ main.prompt /\ main' = [main EXCEPT !.prompt = FALSE, !.waking = FALSE]
  /\ UNCHANGED <<auto, earlier, task, report, notices, moved, mem, queue, copies, sides, events, hist>>

\* observeReceipt: the follow-up appears in the conversation.
TakeFollowUp(q) ==
  /\ main.run = "running" /\ q \in queue
  /\ queue' = queue \ {q} /\ copies' = Shown(q[1])
  /\ flight' = [flight EXCEPT ![q[1]].at = IF @ = "sent" THEN "received" ELSE @]
  /\ UNCHANGED <<auto, earlier, task, report, notices, moved, phase, yield, due, boundary, reverts, settle,
                 deciding, main, sides, events, hist>>

\* tool_call, for a tool that is not one of Pair's.
ToolUse ==
  /\ main.run = "running" /\ ~disturbed
  /\ NoteActivity /\ disturbed' = TRUE
  /\ UNCHANGED <<auto, earlier, task, report, notices, moved, flight, due, reverts, settle, deciding, main,
                 queue, copies, sides, events, navigated, gone, withdrawn>>

\* pair_yield: the call reads the activity, its transaction queues behind the others.
YieldCall ==
  /\ main.run = "running" /\ yield = "none" /\ yield' = "quiet" /\ disturbed' = FALSE
  /\ UNCHANGED <<auto, earlier, task, report, notices, moved, phase, flight, due, boundary, reverts, settle,
                 deciding, main, queue, copies, sides, events, navigated, gone, withdrawn>>

\* yieldMain: the retained report is the tool's result; without one the phase is armed.
YieldMain ==
  /\ yield # "none" /\ yield' = "none"
  /\ IF Cardinality(Retrievable) > 1 THEN UNCHANGED <<notices, phase>>
     ELSE /\ notices' = [r \in Reports |-> IF r \in Retrievable
               THEN [notices[r] EXCEPT !.status = "offered", !.channel = "tool-result"] ELSE notices[r]]
          /\ phase' = [status |-> "yielded", armed |-> Retrievable = {}, quiet |-> yield = "quiet",
                       here |-> TRUE]
  /\ UNCHANGED <<auto, earlier, task, report, moved, flight, due, boundary, reverts, settle, deciding, main,
                 queue, copies, sides, events, hist>>

\* agent_before_settle: a completed run asks the controller for a report, the others just end.
Armed == phase.status = "yielded" /\ phase.armed /\ phase.here
Settle(o) ==
  /\ main.run = "running" /\ yield = "none" /\ deciding.at # "captured"
  /\ IF o = "completed" /\ (Armed \/ auto) /\ Offerable # {} /\ InputClear
     THEN /\ main' = [main EXCEPT !.run = "settling", !.outcome = o]
          /\ boundary' = [at |-> "offering", armed |-> Armed, quiet |-> TRUE, same |-> TRUE]
     ELSE main' = [main EXCEPT !.run = "ended", !.outcome = o] /\ UNCHANGED boundary
  /\ disturbed' = (disturbed \/ ~Armed)
  /\ UNCHANGED <<auto, earlier, task, report, notices, moved, phase, yield, flight, due, reverts, settle,
                 deciding, queue, copies, sides, events, navigated, gone, withdrawn>>

\* boundaryOffer takes what the armed yield still permits, autoBoundaryOffer what is eligible.
BoundaryReady == IF boundary.armed
  THEN IF Armed /\ phase.quiet /\ boundary.quiet /\ boundary.same THEN Offerable ELSE {}
  ELSE IF boundary.quiet THEN AutoEligible ELSE {}

\* autoBoundaryOffer: a message the branch already holds is not offered again.
Drafted == {r \in BoundaryReady : boundary.armed \/ ~AlreadyThere(r, "boundary")}

Offer ==
  /\ boundary.at = "offering"
  /\ IF BoundaryReady = {} \/ Cardinality(Retrievable) > 1 THEN UNCHANGED <<notices, phase>>
     ELSE /\ notices' = [r \in Reports |-> IF r \in BoundaryReady
               THEN [notices[r] EXCEPT !.status = "offered", !.channel = "boundary"] ELSE notices[r]]
          /\ phase' = IF boundary.armed THEN OpenPhase ELSE phase
  /\ IF Drafted = {} \/ Cardinality(Retrievable) > 1
     THEN boundary' = NoOffer /\ main' = [main EXCEPT !.run = "ended"]
     ELSE boundary' = [boundary EXCEPT !.at = "offered", !.quiet = TRUE, !.same = TRUE] /\ UNCHANGED main
  /\ UNCHANGED <<auto, earlier, task, report, moved, yield, flight, due, reverts, settle, deciding, queue,
                 copies, sides, events, hist>>

\* offerCurrent and inputReadiness: the offer goes out if nothing moved, otherwise revertOffer takes it back.
Standing == notices[report].status = "offered" /\ ~notices[report].observed
OfferCurrent == InputClear /\ boundary.quiet /\ boundary.same /\ Standing

EndOffer ==
  /\ boundary.at = "offered" /\ boundary' = NoOffer
  /\ IF OfferCurrent
     THEN copies' = Shown(report) /\ main' = [main EXCEPT !.run = "running"] /\ UNCHANGED reverts
     ELSE reverts' = reverts \cup {report} /\ main' = [main EXCEPT !.run = "ended"] /\ UNCHANGED copies
  /\ UNCHANGED <<auto, earlier, task, report, notices, moved, phase, yield, flight, due, settle, deciding,
                 queue, sides, events, hist>>

Revert(r) ==
  /\ r \in reverts /\ reverts' = reverts \ {r}
  /\ notices' = IF notices[r].status = "offered" /\ notices[r].channel = "boundary" /\ ~notices[r].observed
                THEN [notices EXCEPT ![r].status = "pending", ![r].channel = "none"] ELSE notices
  /\ UNCHANGED <<auto, earlier, task, report, moved, phase, yield, flight, due, boundary, settle, deciding,
                 main, queue, copies, sides, events, hist>>

\* Pi goes on with what came in meanwhile; after an abort or an error it is dropped, for Pi settles with an empty
\* queue (actor-runtime.js:872).
Continue ==
  /\ main.run = "ended" /\ main.outcome = "completed" /\ ~InputClear
  /\ main' = [main EXCEPT !.run = "running"]
  /\ UNCHANGED <<auto, earlier, task, report, notices, moved, mem, queue, copies, sides, events, hist>>

\* agent_settled: after a completed run the waiting report is claimed, or Main is told of the task, unless a message
\* was put aside.
Settled ==
  /\ main.run = "ended" /\ (main.outcome = "completed" => InputClear)
  /\ queue' = {}
  /\ LET idle == [main EXCEPT !.run = "idle", !.outcome = "none", !.settled = TRUE, !.typed = FALSE,
                              !.prompt = FALSE, !.waking = FALSE, !.rescued = IF @ = "held" THEN "sent" ELSE @] IN
     IF main.outcome = "completed" /\ ~main.compacting /\ main.rescued # "held"
     THEN IF AutoEligible = {} THEN settle' = settle /\ CheckIdle(idle)
          ELSE settle' = "claiming" /\ main' = idle /\ UNCHANGED woken
     ELSE main' = idle /\ UNCHANGED <<settle, woken>>
  /\ UNCHANGED <<auto, earlier, task, report, notices, moved, phase, yield, flight, due, boundary, reverts,
                 deciding, copies, reported, asked, events, hist>>

\* claimSettledDelivery: what it claims is sent without asking again whether Main is free.
SettleClaim ==
  /\ settle = "claiming" /\ settle' = "none"
  /\ \/ /\ AutoEligible = {} /\ CheckIdle(main) /\ UNCHANGED <<notices, flight>>
     \/ \E r \in AutoEligible :
          IF AlreadyThere(r, "settled")
          THEN notices' = Offered(r, "auto") /\ CheckIdle(main) /\ UNCHANGED flight
          ELSE /\ notices' = [notices EXCEPT ![r].status = "delivery_pending"]
               /\ flight' = [flight EXCEPT ![r] = [at |-> "claimed", via |-> "settled", current |-> TRUE]]
               /\ UNCHANGED <<main, woken>>
  /\ UNCHANGED <<auto, earlier, task, report, moved, phase, yield, due, boundary, reverts, deciding, queue,
                 copies, reported, asked, events, hist>>

\* its claim is revoked while it is saved: the report is pending, and eligible, again
SettleRevoked ==
  /\ settle = "claiming" /\ settle' = "none" /\ Event("human")
  /\ \E r \in AutoEligible : ~AlreadyThere(r, "settled")
  /\ flight' = Revoked
  /\ UNCHANGED <<auto, earlier, task, report, notices, moved, phase, yield, due, boundary, reverts, deciding,
                 main, queue, copies, sides, hist>>

\* session_before_compact, session_compact and session_compact_failed.
CompactStart ==
  /\ Event("compaction") /\ ~main.compacting
  /\ main' = [main EXCEPT !.compacting = TRUE]
  /\ UNCHANGED <<auto, earlier, task, report, notices, moved, mem, queue, copies, sides, hist>>

CompactEnd ==
  /\ main.compacting /\ main' = [main EXCEPT !.compacting = FALSE] /\ due' = TRUE
  /\ UNCHANGED <<auto, earlier, task, report, notices, moved, phase, yield, flight, boundary, reverts, settle,
                 deciding, queue, copies, sides, events, hist>>

\* session_tree, noteBranchChange: another branch, which may not hold the messages sent so far.
BranchChange(kept) ==
  /\ Event("navigation") /\ moved' = TRUE /\ navigated' = TRUE /\ disturbed' = TRUE /\ NoteActivity
  /\ notices' = [r \in Reports |-> [notices[r] EXCEPT !.current = FALSE]]
  /\ deciding' = [deciding EXCEPT !.current = FALSE]
  /\ copies' = [r \in Reports |-> IF r \in kept THEN copies[r] ELSE 0]
  /\ gone' = gone \cup (Reports \ kept)
  /\ UNCHANGED <<auto, earlier, task, report, flight, due, reverts, settle, main, queue, sides, withdrawn>>

-----------------------------------------------------------------------------
(* Main's decision, the human, and a restart. *)

\* inspect: the reading is recorded, and the branch it was read on.
Inspect ==
  /\ main.run = "running" /\ report # 0 /\ task \in {"waiting", "paused"}
  /\ notices' = [notices EXCEPT ![report].observed = TRUE, ![report].current = TRUE]
  /\ navigated' = FALSE
  /\ UNCHANGED <<auto, earlier, task, report, moved, mem, main, queue, copies, sides, events, disturbed, gone, withdrawn>>

\* setPhase("open"): the revision moves, so an earlier copy of the phase is not the same any more.
Reopen ==
  /\ phase' = OpenPhase
  /\ boundary' = IF boundary.at = "none" THEN boundary ELSE [boundary EXCEPT !.same = FALSE]

\* decide: the reservation, refused when the branch is not the one the report was read on.
Decide ==
  /\ main.run = "running" /\ task = "waiting" /\ deciding.at = "none" /\ notices[report].current
  /\ deciding' = [at |-> "captured", current |-> TRUE]
  /\ UNCHANGED <<auto, earlier, task, report, notices, moved, phase, yield, flight, due, boundary, reverts,
                 settle, main, queue, copies, sides, events, hist>>

ResolvedUnlessClaimed ==
  IF notices[report].status = "delivery_pending" THEN notices
  ELSE [notices EXCEPT ![report].status = "resolved"]
Resolved == [notices EXCEPT ![report].status = "resolved"]

\* decide: check(), then the report is resolved and the task goes on or is over.
DecisionHolds == deciding.current /\ task = "waiting"
Decided(next) ==
  /\ deciding.at = "captured"
  /\ IF ~DecisionHolds THEN deciding' = NotDeciding /\ UNCHANGED <<task, notices, phase, boundary, flight>>
     ELSE /\ notices' = Resolved /\ task' = next /\ Reopen
          /\ deciding' = IF next = "activating" THEN [deciding EXCEPT !.at = "launched"] ELSE NotDeciding
          /\ flight' = IF next = "activating" THEN flight ELSE Revoked
  /\ UNCHANGED <<auto, earlier, report, moved, yield, due, reverts, settle, main, queue, copies, sides, events, hist>>

BranchIgnored == TRUE

\* decide's background activation, with its guard on the branch.
BranchHolds == deciding.current
Activated ==
  /\ deciding.at = "launched" /\ task = "activating" /\ deciding' = NotDeciding
  /\ task' = IF BranchHolds THEN "working" ELSE "interrupted"
  /\ UNCHANGED <<auto, earlier, report, notices, moved, phase, yield, flight, due, boundary, reverts, settle,
                 main, queue, copies, sides, events, hist>>

\* resume of an interrupted task: the worker reports again.
Resume ==
  /\ task = "interrupted" /\ task' = "working"
  /\ UNCHANGED <<auto, earlier, report, notices, moved, mem, main, queue, copies, sides, events, hist>>

\* pause: a human hold over the waiting report, and its restoration.
Pause ==
  /\ task = "waiting" /\ Event("human") /\ task' = "paused" /\ flight' = Revoked
  /\ UNCHANGED <<auto, earlier, report, notices, moved, phase, yield, due, boundary, reverts, settle, deciding,
                 main, queue, copies, sides, hist>>
Restore ==
  /\ task = "paused" /\ task' = "waiting"
  /\ UNCHANGED <<auto, earlier, report, notices, moved, mem, main, queue, copies, sides, events, hist>>

\* cancelUnlocked.
Cancel ==
  /\ task # "done" /\ Event("human") /\ task' = "done" /\ flight' = Revoked
  /\ notices' = [r \in Reports |-> IF r \in Unresolved THEN [notices[r] EXCEPT !.status = "resolved"]
                                   ELSE notices[r]]
  /\ UNCHANGED <<auto, earlier, report, moved, phase, yield, due, boundary, reverts, settle, deciding, main,
                 queue, copies, sides, hist>>

\* The user types /pair yield: the phase yields without being armed, and the report is sent.
YieldManual ==
  /\ Event("human") /\ Cardinality(Retrievable) <= 1
  /\ phase' = [status |-> "yielded", armed |-> FALSE, quiet |-> TRUE, here |-> FALSE]
  /\ boundary' = IF boundary.at = "none" THEN boundary ELSE [boundary EXCEPT !.same = FALSE]
  /\ flight' = [r \in Reports |-> IF r \in Retrievable /\ flight[r].at = "none"
                THEN [at |-> "queued", via |-> "manual", current |-> TRUE] ELSE flight[r]]
  /\ UNCHANGED <<auto, earlier, task, report, notices, moved, yield, due, reverts, settle, deciding, main,
                 queue, copies, sides, hist>>

\* Main exits and starts again, on the same conversation: init keeps the notices, Pi's queue is gone.
Restart ==
  /\ Event("restart")
  /\ notices' = [r \in Reports |-> IF notices[r].status = "delivery_pending"
                                   THEN [notices[r] EXCEPT !.status = "pending"] ELSE notices[r]]
  /\ task' = IF task \in {"working", "activating"} THEN "interrupted" ELSE task
  /\ phase' = OpenPhase /\ yield' = "none" /\ due' = FALSE /\ boundary' = NoOffer /\ reverts' = {}
  /\ flight' = [r \in Reports |-> NoFlight] /\ settle' = "none" /\ deciding' = NotDeciding
  /\ main' = IdleMain /\ queue' = {} /\ reported' = {} /\ woken' = {} /\ asked' = {}
  /\ gone' = gone \cup reverts \cup (IF boundary.at = "offered" THEN {report} ELSE {})
  /\ UNCHANGED <<auto, earlier, report, moved, copies, navigated, disturbed, withdrawn>>

-----------------------------------------------------------------------------
Deliver(r) == Claim(r) \/ ClaimRevoked(r) \/ Send(r) \/ ReceiptMissing(r) \/ Complete(r) \/ Revert(r)

Next ==
  \/ Freeze \/ AutoDeliver \/ Scan
  \/ \E r \in Reports : Redeliver(r) \/ Deliver(r)
  \/ UserInput \/ Rescue \/ Resend \/ StartRun \/ TakePrompt \/ ToolUse \/ YieldCall \/ YieldMain
  \/ \E q \in queue : TakeFollowUp(q)
  \/ \E o \in Outcomes : Settle(o)
  \/ Offer \/ EndOffer \/ Continue \/ Settled \/ SettleClaim \/ SettleRevoked \/ CompactStart \/ CompactEnd
  \/ \E kept \in SUBSET Reports : BranchChange(kept)
  \/ Inspect \/ Decide \/ \E next \in {"activating", "done"} : Decided(next)
  \/ Activated \/ Resume \/ Pause \/ Restore \/ Cancel \/ YieldManual \/ Restart

Spec == Init /\ [][Next]_vars

\* The controller's transactions that are due are run. What Main and Pi do is the premise of ReportReaches: a run
\* that completes has taken what was queued for it, and the yields, offers and decisions within it are over.
Fairness ==
  /\ WF_vars(AutoDeliver) /\ WF_vars(Scan) /\ WF_vars(SettleClaim)
  /\ \A r \in Reports : WF_vars(Claim(r) \/ Send(r) \/ Complete(r)) /\ WF_vars(Revert(r)) /\ SF_vars(ReceiptMissing(r))

FairSpec == Spec /\ Fairness

-----------------------------------------------------------------------------
(* What a team may rely on. *)

\* The single-report profile: the only notice that is not settled is that of the report the task waits on, whichever
\* path last moved it, so assertSingleUnacknowledged never fails.
OneUnresolved ==
  \A r \in Unresolved : r = report /\ task \in {"waiting", "paused"}

\* A report Pair counts as delivered by itself, and that Main has not read, is in Main's conversation, or its offer
\* is still being put there or taken back (gone: the branch was left, or Main exited, in between).
OfferedWasSent ==
  \A r \in Reports :
    notices[r].status = "offered" /\ notices[r].channel \in {"auto", "boundary"} /\ ~notices[r].observed
    => \/ copies[r] > 0 \/ r \in gone
       \/ r \in reverts \/ (boundary.at = "offered" /\ r = report)

\* A notice says what is so: of the task it belongs to, and of the conversation it was put into.
NoticesAreTrue == OneUnresolved /\ OfferedWasSent

\* Pair by itself never puts a report into a conversation that holds it already, across claims, offers, reverts,
\* lost receipts and restarts of Main. The one way in which it does: a delivery the human asked for was withdrawn
\* while it was claimed, which makes a report that had been delivered pending again, and an armed yield takes it.
AutoSends(r) ==
  \/ boundary.at = "offered" /\ main'.run = "running"
  \/ flight[r].at = "claimed" /\ flight[r].via # "manual"
NoSecondCopy ==
  [][\A r \in Reports : copies'[r] > copies[r] /\ AutoSends(r)
       => copies[r] = 0 \/ (r \in withdrawn /\ boundary.at = "offered" /\ boundary.armed)]_vars

\* A report inserted on the strength of a yield follows that yield directly: no input, no other tool, no other run
\* and no navigation since the call, however long its transactions waited in the queue. Only a message that Pair put
\* aside for crossing the wake of that same run goes unnoticed.
ArmedOfferIsQuiet ==
  [][boundary.at = "offered" /\ boundary.armed /\ main.run = "settling" /\ main'.run = "running"
     => ~disturbed \/ main.rescued = "held"]_vars

\* A decision gives the worker running authority only on the branch of the conversation on which Main last read
\* the report.
ActivatedOnBranch ==
  [][task = "activating" /\ task' = "working" => ~navigated]_vars

\* While Main's runs keep completing, a report Pair is to deliver does not stay unseen. In the inbox or in the hands
\* of a delivery it does not stay: it is delivered, or Main is asked to fetch it. One whose deliveries failed for good
\* does not stay unnoticed: Main is asked to fetch it or woken for the task that waits on it.
RunCompletes == main.run = "ended" /\ main.outcome = "completed" /\ main'.run = "idle" /\ ~main.compacting
Unseen(r) ==
  /\ auto /\ task = "waiting" /\ ~notices[r].observed
  /\ \/ notices[r].status \in {"pending", "delivery_pending"} /\ r \notin asked
     \/ notices[r].status = "delivery_failed" /\ r \notin asked \cup woken
ReportReaches == []<><<RunCompletes>>_vars => \A r \in Reports : []<>~Unseen(r)
-----------------------------------------------------------------------------
(* The inductive invariant behind the four properties above, in named parts. *)

Taken(r) == flight[r].at \in {"claimed", "sent", "received", "failed", "deferred"}

\* A report not yet frozen has left no trace; one that waits for Main has been frozen.
InvFrozen ==
  /\ task \in {"waiting", "paused"} \/ boundary.at # "none" => report # 0
  /\ \A r \in Reports : r > report =>
       notices[r].status = "none" /\ flight[r] = NoFlight /\ copies[r] = 0

\* The extension waits for an offer exactly while Pi waits to settle, and yields within a run.
InvSettling ==
  /\ boundary.at # "none" <=> main.run = "settling"
  /\ yield # "none" => main.run = "running"

\* A delivery under way has claimed its notice, unless the task was over meanwhile.
InvTaken == \A r \in Reports : Taken(r) => notices[r].status \in {"delivery_pending", "resolved"}

\* A follow-up Pi holds is the one its delivery waits for.
InvQueue ==
  /\ \A q \in queue : flight[q[1]].at = "sent"
  /\ \A p, q \in queue : p[1] = q[1] => p = q

\* What Pair delivers by itself is not there before it is sent, and there (or left behind) once it is received.
InvSent == \A r \in Reports :
  /\ flight[r].at \in {"claimed", "failed", "deferred"} /\ flight[r].via # "manual" => copies[r] = 0
  /\ flight[r].at = "deferred" => flight[r].via # "manual"
  /\ flight[r].at = "received" => copies[r] > 0 \/ r \in gone

\* A report that counts as delivered, by the way it was delivered.
InvOffered == \A r \in Reports :
  notices[r].status = "offered" /\ ~notices[r].observed =>
    /\ notices[r].channel = "auto" => copies[r] > 0 \/ r \in gone
    /\ notices[r].channel = "boundary" =>
         copies[r] > 0 \/ r \in gone \/ r \in reverts \/ (boundary.at = "offered" /\ r = report)

\* An offer under way is of a report not there yet, unless it was withdrawn and a yield armed, and has used up the yield it was made under.
InvOffer ==
  /\ boundary.at = "offered" =>
       ~Armed /\ (copies[report] = 0 \/ (boundary.armed /\ report \in withdrawn))
  /\ boundary.at # "none" /\ ~boundary.armed => ~Armed

\* While a yield is armed, what is pending came after it, or was withdrawn: it is not there, and no offer of it is to be taken back.
InvArmed == Armed => \A r \in Reports : ~notices[r].observed =>
  /\ notices[r].status = "pending" => copies[r] = 0 \/ r \in withdrawn
  /\ ~(notices[r].status = "offered" /\ notices[r].channel = "boundary")

\* What the code still takes to be quiet has been, since the yield, but for a message that was put aside.
PutAside == main.rescued = "held" \/ (main.rescued = "sent" /\ main.run = "idle")
InvQuiet == PutAside \/
  /\ yield = "quiet" => ~disturbed
  /\ Armed /\ phase.quiet => ~disturbed
  /\ boundary.armed /\ boundary.quiet /\ boundary.same
       /\ (boundary.at = "offered" \/ (boundary.at = "offering" /\ Armed /\ phase.quiet)) => ~disturbed

\* A copy of the branch that still compares equal was taken after the last navigation.
InvBranch ==
  /\ \A r \in Reports : notices[r].current => ~navigated
  /\ deciding.at # "none" /\ deciding.current => ~navigated

DeliveryInv == /\ OneUnresolved /\ InvFrozen /\ InvSettling /\ InvTaken /\ InvQueue /\ InvSent /\ InvOffered
               /\ InvOffer /\ InvArmed /\ InvQuiet /\ InvBranch
=============================================================================
