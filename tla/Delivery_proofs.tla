--------------------------- MODULE Delivery_proofs ---------------------------
(***************************************************************************)
(* Proofs about Delivery for every value of its constants.                 *)
(***************************************************************************)
EXTENDS Delivery, FiniteSetTheorems, TLAPS

NoticeType   == [status : Statuses, observed : BOOLEAN, current : BOOLEAN, channel : Channels,
                 attempts : 0..MaxAttempts]
FlightType   == [at : {"none", "queued", "claimed", "sent", "received", "failed", "deferred"},
                 via : {"none", "auto", "settled", "manual"}, current : BOOLEAN]
PhaseType    == [status : {"open", "yielded"}, armed : BOOLEAN, quiet : BOOLEAN, here : BOOLEAN]
OfferType    == [at : {"none", "offering", "offered"}, armed : BOOLEAN, quiet : BOOLEAN, same : BOOLEAN]
DecidingType == [at : {"none", "captured", "launched"}, current : BOOLEAN]
MainType     == [run : {"idle", "running", "settling", "ended"}, outcome : Outcomes \cup {"none"},
                 settled : BOOLEAN, typed : BOOLEAN, prompt : BOOLEAN, wake : BOOLEAN, waking : BOOLEAN,
                 rescued : {"none", "held", "sent"}, compacting : BOOLEAN]

\* The types of what the controller keeps of the reports, and of the rest.
KeptTyped ==
  /\ report \in 0..MaxReports /\ task \in {"working", "waiting", "paused", "activating", "interrupted", "done"}
  /\ notices \in [Reports -> NoticeType] /\ flight \in [Reports -> FlightType] /\ copies \in [Reports -> 0..2]
  /\ queue \subseteq Reports \X {"auto", "manual"}
MainTyped ==
  /\ phase \in PhaseType /\ boundary \in OfferType /\ deciding \in DecidingType /\ main \in MainType
  /\ yield \in {"none", "quiet", "noisy"} /\ settle \in {"none", "claiming"}
RestTyped == due \in BOOLEAN /\ moved \in BOOLEAN /\ navigated \in BOOLEAN /\ disturbed \in BOOLEAN
Typed == KeptTyped /\ MainTyped /\ RestTyped

\* A notice stays a notice when one of its fields takes another value of its type.
LEMMA NoticeFields ==
  ASSUME NEW n \in NoticeType
  PROVE  /\ \A s \in Statuses : [n EXCEPT !.status = s] \in NoticeType
         /\ \A s \in Statuses, c \in Channels : [n EXCEPT !.status = s, !.channel = c] \in NoticeType
         /\ \A b \in BOOLEAN : [n EXCEPT !.observed = b] \in NoticeType /\ [n EXCEPT !.current = b] \in NoticeType
         /\ [n EXCEPT !.observed = TRUE, !.current = TRUE] \in NoticeType
  BY DEF NoticeType

\* So does a delivery.
LEMMA FlightFields ==
  ASSUME NEW n \in FlightType
  PROVE  /\ \A a \in {"claimed", "sent", "received", "failed", "deferred"} : [n EXCEPT !.at = a] \in FlightType
         /\ \A b \in BOOLEAN : [n EXCEPT !.current = b] \in FlightType
         /\ [n EXCEPT !.at = "claimed", !.current = TRUE] \in FlightType
         /\ NoFlight \in FlightType
         /\ \A v \in {"auto", "settled", "manual"} :
              /\ [at |-> "queued", via |-> v, current |-> TRUE] \in FlightType
              /\ [at |-> "claimed", via |-> v, current |-> TRUE] \in FlightType
  BY DEF FlightType, NoFlight

\* And the state of Main's run, at each of the places where one of the handlers changes it.
LEMMA MainFields ==
  ASSUME NEW m \in MainType
  PROVE  /\ [m EXCEPT !.wake = TRUE] \in MainType
         /\ \A b \in BOOLEAN : [m EXCEPT !.compacting = b] \in MainType /\ [m EXCEPT !.waking = b] \in MainType
         /\ \A b \in BOOLEAN : /\ [m EXCEPT !.wake = TRUE, !.waking = b] \in MainType
                              /\ [m EXCEPT !.typed = TRUE, !.prompt = TRUE, !.waking = b] \in MainType
         /\ [m EXCEPT !.prompt = FALSE, !.waking = FALSE] \in MainType
         /\ [m EXCEPT !.rescued = "held", !.waking = FALSE] \in MainType /\ [m EXCEPT !.rescued = "none"] \in MainType
         /\ \A x \in {"idle", "running", "settling", "ended"} :
              /\ [m EXCEPT !.run = x] \in MainType
              /\ \A o \in Outcomes : [m EXCEPT !.run = x, !.outcome = o] \in MainType
         /\ \A b \in BOOLEAN :
              [m EXCEPT !.run = "running", !.outcome = "none", !.settled = FALSE, !.typed = FALSE, !.prompt = FALSE,
                        !.wake = FALSE, !.waking = b] \in MainType
         /\ IdleMain \in MainType /\ m.waking \in BOOLEAN
  BY DEF MainType, IdleMain

\* A run that settles leaves Main idle, with the message that was put aside to be sent.
LEMMA SettledMain ==
  ASSUME NEW m \in MainType
  PROVE  [m EXCEPT !.run = "idle", !.outcome = "none", !.settled = TRUE, !.typed = FALSE, !.prompt = FALSE,
                   !.waking = FALSE, !.rescued = IF @ = "held" THEN "sent" ELSE @] \in MainType
<1>1. ASSUME NEW x \in {"none", "held", "sent"}
      PROVE  [m EXCEPT !.run = "idle", !.outcome = "none", !.settled = TRUE, !.typed = FALSE, !.prompt = FALSE,
                       !.waking = FALSE, !.rescued = x] \in MainType
  BY DEF MainType
<1>2. (IF m.rescued = "held" THEN "sent" ELSE m.rescued) \in {"none", "held", "sent"}
  BY DEF MainType
<1> QED
  BY <1>1, <1>2

\* The input of the user, or the message that is sent again, leaves the types.
LEMMA InputTyped ==
  ASSUME NEW m \in MainType, TakeInput(m)
  PROVE  main' \in MainType /\ main'.run = m.run
<1>1. (m.waking /\ m.run = "idle") \in BOOLEAN
  OBVIOUS
<1>2. main' = [m EXCEPT !.typed = TRUE, !.prompt = TRUE, !.waking = m.waking /\ m.run = "idle"]
  BY DEF TakeInput
<1>3. main' \in MainType
  BY <1>1, <1>2, MainFields
<1> QED
  BY <1>2, <1>3 DEF MainType

\* The bookkeeping of the yield and of the offer.
LEMMA PhaseFields ==
  /\ OpenPhase \in PhaseType /\ NoOffer \in OfferType /\ NotDeciding \in DecidingType
  /\ \A b \in OfferType, c \in BOOLEAN :
       /\ [b EXCEPT !.quiet = FALSE, !.same = c] \in OfferType /\ [b EXCEPT !.same = FALSE] \in OfferType
       /\ [b EXCEPT !.at = "offered", !.quiet = TRUE, !.same = TRUE] \in OfferType
       /\ [at |-> "offering", armed |-> c, quiet |-> TRUE, same |-> TRUE] \in OfferType
  /\ \A d \in DecidingType : /\ [d EXCEPT !.current = FALSE] \in DecidingType
                             /\ [d EXCEPT !.at = "launched"] \in DecidingType
  BY DEF PhaseType, OfferType, DecidingType, OpenPhase, NoOffer, NotDeciding

\* Input, a tool or a navigation revokes a yield without leaving its types.
LEMMA NoteTyped ==
  ASSUME MainTyped, NoteActivity
  PROVE  phase' \in PhaseType /\ boundary' \in OfferType /\ yield' \in {"none", "quiet", "noisy"}
<1>1. boundary.same \in BOOLEAN
  BY DEF MainTyped, OfferType
<1>2. [boundary EXCEPT !.quiet = FALSE, !.same = @ /\ phase.status # "yielded"] \in OfferType
  BY <1>1, PhaseFields DEF MainTyped, OfferType
<1> QED
  BY <1>2, PhaseFields DEF MainTyped, NoteActivity

\* What the controller selects: reports in a certain state.
LEMMA SelectedAre ==
  /\ \A r : r \in Unresolved <=> r \in Reports /\ notices[r].status \notin {"none", "resolved"}
  /\ \A r : r \in Offerable <=> r \in Reports /\ notices[r].status = "pending" /\ ~notices[r].observed
  /\ \A r : r \in Retrievable <=>
       r \in Unresolved /\ notices[r].status # "delivery_pending" /\ ~notices[r].observed
  /\ \A r \in AutoEligible : r \in Offerable /\ r = report
  /\ HeldNotices \subseteq Offerable /\ BoundaryReady \subseteq Offerable
  /\ \A r : r \in Drafted <=> r \in BoundaryReady /\ (boundary.armed \/ copies[r] = 0 \/ ~(copies[r] > 0))
  BY DEF Offerable, Unresolved, Retrievable, AutoEligible, HeldNotices, Drafted, BoundaryReady, AlreadyThere

\* Where everything starts, and ends up again.
LEMMA Rests ==
  /\ OpenPhase.status = "open" /\ NoOffer.at = "none" /\ ~NoOffer.armed /\ NotDeciding.at = "none"
  /\ NoFlight.at = "none" /\ NoFlight.via = "none" /\ IdleMain.run = "idle"
  BY DEF OpenPhase, NoOffer, NotDeciding, NoFlight, IdleMain

\* A revoked delivery is where it was, and none is revoked into one.
LEMMA RevokedAre ==
  ASSUME flight \in [Reports -> FlightType]
  PROVE  \A r \in Reports : /\ Revoked[r].at = flight[r].at /\ Revoked[r].via = flight[r].via
                            /\ flight[r] = NoFlight => Revoked[r] = NoFlight
<1>1. \A f \in FlightType : [f EXCEPT !.current = FALSE].at = f.at /\ [f EXCEPT !.current = FALSE].via = f.via
  BY DEF FlightType
<1>2. \A f \in FlightType : f.current = FALSE => [f EXCEPT !.current = FALSE] = f
  BY DEF FlightType
<1>3. NoFlight \in FlightType /\ NoFlight.current = FALSE
  BY DEF FlightType, NoFlight
<1> QED
  BY <1>1, <1>2, <1>3 DEF Revoked

\* What the transactions write are notices, deliveries and copies.
LEMMA WritesTyped ==
  ASSUME Typed, NEW r \in Reports
  PROVE  /\ \A c \in Channels : Offered(r, c) \in [Reports -> NoticeType]
         /\ \A s \in Statuses : [notices EXCEPT ![r].status = s] \in [Reports -> NoticeType]
         /\ \A s \in Statuses, c \in Channels :
              [notices EXCEPT ![r].status = s, ![r].channel = c] \in [Reports -> NoticeType]
         /\ [notices EXCEPT ![r].observed = TRUE, ![r].current = TRUE] \in [Reports -> NoticeType]
         /\ Revoked \in [Reports -> FlightType] /\ Shown(r) \in [Reports -> 0..2]
<1>0. notices \in [Reports -> NoticeType] /\ "offered" \in Statuses
  BY DEF Typed, KeptTyped, Statuses
<1>1. \A c \in Channels : Offered(r, c) \in [Reports -> NoticeType]
  BY <1>0 DEF Offered, NoticeType
<1>2. \A s \in Statuses, c \in Channels :
        [notices EXCEPT ![r].status = s, ![r].channel = c] \in [Reports -> NoticeType]
  BY <1>0 DEF NoticeType
<1>3. [notices EXCEPT ![r].observed = TRUE, ![r].current = TRUE] \in [Reports -> NoticeType]
  BY <1>0 DEF NoticeType
<1> USE DEF Typed, KeptTyped
<1>4. Revoked \in [Reports -> FlightType]
  BY FlightFields DEF Revoked
<1>5. Shown(r) \in [Reports -> 0..2]
  BY DEF Shown
<1> QED
  BY <1>1, <1>2, <1>3, <1>4, <1>5, NoticeFields

\* So it is for the current report, were there none.
LEMMA CurrentTyped ==
  ASSUME Typed
  PROVE  /\ Resolved \in [Reports -> NoticeType] /\ Shown(report) \in [Reports -> 0..2]
         /\ Revoked \in [Reports -> FlightType]
<1>1. Resolved \in [Reports -> NoticeType]
  BY NoticeFields DEF Typed, KeptTyped, Resolved, Statuses
<1>2. Shown(report) \in [Reports -> 0..2]
  <2>1. CASE report \in Reports
    BY <2>1, WritesTyped
  <2>2. CASE report \notin Reports
    BY <2>2 DEF Typed, KeptTyped, Shown
  <2> QED
    BY <2>1, <2>2
<1>3. Revoked \in [Reports -> FlightType]
  BY FlightFields DEF Typed, KeptTyped, Revoked
<1> QED
  BY <1>1, <1>2, <1>3


\* The names a notice may carry: the proofs never expand the two sets.
LEMMA Names ==
  /\ "none" \in Statuses /\ "pending" \in Statuses /\ "delivery_pending" \in Statuses /\ "offered" \in Statuses
  /\ "delivery_failed" \in Statuses /\ "resolved" \in Statuses
  /\ "none" \in Channels /\ "auto" \in Channels /\ "boundary" \in Channels /\ "manual" \in Channels
  /\ "tool-result" \in Channels
  BY DEF Statuses, Channels

\* A delivery that ends leaves a notice.
LEMMA AfterTyped == ASSUME Typed, NEW r \in Reports PROVE AfterDelivery(r) \in [Reports -> NoticeType]
<1>1. notices \in [Reports -> NoticeType]
  BY DEF Typed, KeptTyped
<1>2. ASSUME NEW k \in 0..MaxAttempts, NEW s \in Statuses
      PROVE  [notices EXCEPT ![r].attempts = k, ![r].status = s] \in [Reports -> NoticeType]
  BY <1>1, <1>2 DEF NoticeType
<1>3. notices[r].attempts \in 0..MaxAttempts /\ MaxAttempts \in Nat
  BY <1>1, DeliveryAssumption DEF NoticeType
<1>4. [notices EXCEPT ![r].attempts = IF @ < MaxAttempts THEN @ + 1 ELSE @,
                     ![r].status = IF notices[r].attempts + 1 < MaxAttempts THEN "pending" ELSE "delivery_failed"]
        \in [Reports -> NoticeType]
  <2>1. CASE notices[r].attempts < MaxAttempts
    <3>1. notices[r].attempts + 1 \in 0..MaxAttempts
      BY <1>3, <2>1
    <3> QED
      BY <1>2, <2>1, <3>1, Names
  <2>2. CASE ~(notices[r].attempts < MaxAttempts)
    BY <1>1, <1>2, <1>3, <2>2, Names DEF NoticeType
  <2> QED
    BY <2>1, <2>2, <1>3
<1> QED
  BY <1>1, <1>4, WritesTyped, Names DEF AfterDelivery, Channel

\* Every step keeps the types.
LEMMA TypeStep == Typed /\ [Next]_vars => Typed'
<1> SUFFICES ASSUME Typed, [Next]_vars PROVE KeptTyped' /\ MainTyped' /\ RestTyped'
  BY DEF Typed
<1>0. KeptTyped /\ MainTyped /\ RestTyped
  BY DEF Typed
<1> USE DEF mem, sides, hist
<1>1. CASE Freeze
  <2>1. KeptTyped'
    <3>1. report' \in 0..MaxReports /\ task' = "waiting" /\ UNCHANGED <<flight, copies, queue>>
      BY <1>1, <1>0, DeliveryAssumption DEF Freeze, KeptTyped
    <3>2. [status |-> "pending", observed |-> FALSE, current |-> ~moved, channel |-> "none", attempts |-> 0]
            \in NoticeType
      BY <1>0, Names, DeliveryAssumption DEF NoticeType, RestTyped
    <3>3. notices' \in [Reports -> NoticeType]
      BY <1>1, <1>0, <3>2 DEF Freeze, KeptTyped
    <3> QED
      BY <1>0, <3>1, <3>3 DEF KeptTyped
  <2>2. MainTyped'
    BY <1>1, <1>0, MainFields, PhaseFields DEF Freeze, MainTyped
  <2>3. RestTyped'
    BY <1>1, <1>0 DEF Freeze, RestTyped
  <2> QED
    BY <2>1, <2>2, <2>3
<1>2. CASE AutoDeliver
  <2>1. KeptTyped'
    BY <1>2, <1>0, WritesTyped, AfterTyped, FlightFields, SelectedAre, Names DEF AutoDeliver, Announce,
       KeptTyped
  <2>2. MainTyped'
    BY <1>2, <1>0, MainFields, PhaseFields DEF AutoDeliver, Announce, MainTyped
  <2>3. RestTyped'
    BY <1>2, <1>0 DEF AutoDeliver, Announce, RestTyped
  <2> QED
    BY <2>1, <2>2, <2>3
<1>3. CASE Scan
  <2>1. KeptTyped'
    BY <1>3, <1>0, WritesTyped, AfterTyped, FlightFields, SelectedAre, Names DEF Scan, Announce, CheckIdle,
       KeptTyped
  <2>2. MainTyped'
    BY <1>3, <1>0, MainFields, PhaseFields DEF Scan, Announce, CheckIdle, MainTyped
  <2>3. RestTyped'
    BY <1>3, <1>0 DEF Scan, Announce, CheckIdle, RestTyped
  <2> QED
    BY <2>1, <2>2, <2>3
<1>4. ASSUME NEW r \in Reports, Redeliver(r) PROVE KeptTyped' /\ MainTyped' /\ RestTyped'
  <2>1. KeptTyped'
    BY <1>4, <1>0, WritesTyped, AfterTyped, FlightFields, SelectedAre, Names DEF Redeliver, Event, KeptTyped
  <2>2. MainTyped'
    BY <1>4, <1>0, MainFields, PhaseFields DEF Redeliver, Event, MainTyped
  <2>3. RestTyped'
    BY <1>4, <1>0 DEF Redeliver, Event, RestTyped
  <2> QED
    BY <2>1, <2>2, <2>3
<1>5. ASSUME NEW r \in Reports, Claim(r) PROVE KeptTyped' /\ MainTyped' /\ RestTyped'
  <2>1. KeptTyped'
    <3>0. /\ Offered(r, "auto") \in [Reports -> NoticeType]
          /\ [notices EXCEPT ![r].status = "delivery_pending"] \in [Reports -> NoticeType]
      BY WritesTyped, Names
    <3>1. notices' \in [Reports -> NoticeType]
      BY <1>5, <1>0, <3>0 DEF Claim, KeptTyped
    <3>2. [flight EXCEPT ![r].at = "claimed", ![r].current = TRUE] \in [Reports -> FlightType]
      BY <1>0 DEF KeptTyped, FlightType
    <3>3. flight' \in [Reports -> FlightType]
      BY <1>5, <1>0, <3>2, FlightFields DEF Claim, KeptTyped
    <3> QED
      BY <1>5, <1>0, <3>1, <3>3 DEF Claim, KeptTyped
  <2>2. MainTyped'
    BY <1>5, <1>0, MainFields, PhaseFields DEF Claim, MainTyped
  <2>3. RestTyped'
    BY <1>5, <1>0 DEF Claim, RestTyped
  <2> QED
    BY <2>1, <2>2, <2>3
<1>6. ASSUME NEW r \in Reports, Send(r) PROVE KeptTyped' /\ MainTyped' /\ RestTyped'
  <2>1. KeptTyped'
    <3>1. \A a \in {"sent", "received", "failed", "deferred"} : [flight EXCEPT ![r].at = a] \in [Reports -> FlightType]
      BY <1>0 DEF KeptTyped, FlightType
    <3>2. flight' \in [Reports -> FlightType]
      BY <1>6, <3>1 DEF Send, SendReport
    <3>3. Channel(flight[r].via) \in {"auto", "manual"}
      BY DEF Channel
    <3>4. queue' \subseteq Reports \X {"auto", "manual"}
      BY <1>6, <1>0, <3>3 DEF Send, SendReport, KeptTyped
    <3>5. Shown(r) \in [Reports -> 0..2]
      BY WritesTyped
    <3>6. copies' \in {copies, Shown(r)}
      BY <1>6 DEF Send, SendReport
    <3> QED
      BY <1>6, <1>0, <3>2, <3>4, <3>5, <3>6 DEF Send, KeptTyped
  <2>2. MainTyped'
    <3>1. main \in MainType /\ Waking(r) \in BOOLEAN
      BY <1>0, MainFields DEF MainTyped, Waking
    <3>2. main' \in {main, [main EXCEPT !.wake = TRUE, !.waking = Waking(r)], [main EXCEPT !.waking = Waking(r)]}
      BY <1>6 DEF Send, SendReport
    <3>3. main' \in MainType
      BY <3>1, <3>2, MainFields
    <3> QED
      BY <1>6, <1>0, <3>3 DEF Send, MainTyped
  <2>3. RestTyped'
    BY <1>6, <1>0 DEF Send, SendReport, Event, RestTyped
  <2> QED
    BY <2>1, <2>2, <2>3
<1>7. ASSUME NEW r \in Reports, ReceiptMissing(r) PROVE KeptTyped' /\ MainTyped' /\ RestTyped'
  <2>1. KeptTyped'
    BY <1>7, <1>0, WritesTyped, AfterTyped, FlightFields, SelectedAre, Names DEF ReceiptMissing, KeptTyped
  <2>2. MainTyped'
    BY <1>7, <1>0, MainFields, PhaseFields DEF ReceiptMissing, MainTyped
  <2>3. RestTyped'
    BY <1>7, <1>0 DEF ReceiptMissing, RestTyped
  <2> QED
    BY <2>1, <2>2, <2>3
<1>8. ASSUME NEW r \in Reports, Complete(r) PROVE KeptTyped' /\ MainTyped' /\ RestTyped'
  <2>1. KeptTyped'
    BY <1>8, <1>0, WritesTyped, AfterTyped, FlightFields, SelectedAre, Names DEF Complete, Channel, KeptTyped
  <2>2. MainTyped'
    BY <1>8, <1>0, MainFields, PhaseFields DEF Complete, Channel, MainTyped
  <2>3. RestTyped'
    BY <1>8, <1>0 DEF Complete, Channel, RestTyped
  <2> QED
    BY <2>1, <2>2, <2>3
<1>9. ASSUME NEW r \in Reports, Revert(r) PROVE KeptTyped' /\ MainTyped' /\ RestTyped'
  <2>1. KeptTyped'
    BY <1>9, <1>0, WritesTyped, AfterTyped, FlightFields, SelectedAre, Names DEF Revert, KeptTyped
  <2>2. MainTyped'
    BY <1>9, <1>0, MainFields, PhaseFields DEF Revert, MainTyped
  <2>3. RestTyped'
    BY <1>9, <1>0 DEF Revert, RestTyped
  <2> QED
    BY <2>1, <2>2, <2>3
<1>10. CASE UserInput
  <2>1. KeptTyped'
    BY <1>10, <1>0 DEF UserInput, TakeInput, KeptTyped
  <2>2. MainTyped'
    <3>1. PICK m \in MainType : TakeInput(m)
      BY <1>10, <1>0, MainFields DEF UserInput, MainTyped
    <3>2. main' \in MainType /\ UNCHANGED <<deciding, settle>> /\ NoteActivity
      BY <3>1, InputTyped DEF TakeInput
    <3> QED
      BY <1>0, <3>2, NoteTyped DEF MainTyped
  <2>3. RestTyped'
    BY <1>10, <1>0 DEF UserInput, TakeInput, RestTyped
  <2> QED
    BY <2>1, <2>2, <2>3
<1>11. CASE StartRun
  <2>1. KeptTyped'
    BY <1>11, <1>0, WritesTyped, AfterTyped, FlightFields, SelectedAre, Names DEF StartRun, KeptTyped
  <2>2. MainTyped'
    <3>1. main \in MainType /\ (main.waking /\ ~main.prompt) \in BOOLEAN
      BY <1>0 DEF MainTyped
    <3>2. main' = [main EXCEPT !.run = "running", !.outcome = "none", !.settled = FALSE, !.typed = FALSE,
                               !.prompt = FALSE, !.wake = FALSE, !.waking = main.waking /\ ~main.prompt]
      BY <1>11 DEF StartRun
    <3>3. main' \in MainType
      BY <3>1, <3>2, MainFields
    <3> QED
      BY <1>11, <1>0, <3>3, PhaseFields DEF StartRun, MainTyped
  <2>3. RestTyped'
    BY <1>11, <1>0 DEF StartRun, RestTyped
  <2> QED
    BY <2>1, <2>2, <2>3
<1>12. CASE TakePrompt
  <2>1. KeptTyped'
    BY <1>12, <1>0, WritesTyped, AfterTyped, FlightFields, SelectedAre, Names DEF TakePrompt, KeptTyped
  <2>2. MainTyped'
    BY <1>12, <1>0, MainFields, PhaseFields DEF TakePrompt, MainTyped
  <2>3. RestTyped'
    BY <1>12, <1>0 DEF TakePrompt, RestTyped
  <2> QED
    BY <2>1, <2>2, <2>3
<1>13. ASSUME NEW q \in queue, TakeFollowUp(q) PROVE KeptTyped' /\ MainTyped' /\ RestTyped'
  <2>1. KeptTyped'
    <3>1. q[1] \in Reports
      BY <1>13, <1>0 DEF KeptTyped
    <3>2. flight' \in [Reports -> FlightType]
      <4>1. flight' = [flight EXCEPT ![q[1]] = [flight[q[1]] EXCEPT !.at = IF @ = "sent" THEN "received" ELSE @]]
        BY <1>13 DEF TakeFollowUp
      <4>2. [flight[q[1]] EXCEPT !.at = IF @ = "sent" THEN "received" ELSE @] \in FlightType
        BY <1>0, <3>1 DEF KeptTyped, FlightType
      <4> QED
        BY <1>0, <3>1, <4>1, <4>2 DEF KeptTyped
    <3>3. copies' \in [Reports -> 0..2] /\ queue' \subseteq queue
      BY <1>13, <3>1, WritesTyped, Names DEF TakeFollowUp
    <3> QED
      BY <1>13, <1>0, <3>2, <3>3 DEF TakeFollowUp, KeptTyped
  <2>2. MainTyped'
    BY <1>13, <1>0, MainFields, PhaseFields DEF TakeFollowUp, MainTyped
  <2>3. RestTyped'
    BY <1>13, <1>0 DEF TakeFollowUp, RestTyped
  <2> QED
    BY <2>1, <2>2, <2>3
<1>14. CASE ToolUse
  <2>1. KeptTyped'
    BY <1>14, <1>0, WritesTyped, AfterTyped, FlightFields, SelectedAre, Names DEF ToolUse, KeptTyped
  <2>2. MainTyped'
    BY <1>14, <1>0, MainFields, PhaseFields, NoteTyped DEF ToolUse, MainTyped
  <2>3. RestTyped'
    BY <1>14, <1>0 DEF ToolUse, RestTyped
  <2> QED
    BY <2>1, <2>2, <2>3
<1>15. CASE YieldCall
  <2>1. KeptTyped'
    BY <1>15, <1>0, WritesTyped, AfterTyped, FlightFields, SelectedAre, Names DEF YieldCall, KeptTyped
  <2>2. MainTyped'
    BY <1>15, <1>0, MainFields, PhaseFields DEF YieldCall, MainTyped
  <2>3. RestTyped'
    BY <1>15, <1>0 DEF YieldCall, RestTyped
  <2> QED
    BY <2>1, <2>2, <2>3
<1>16. CASE YieldMain
  <2>1. KeptTyped'
    <3>1. \A r \in Reports : [notices[r] EXCEPT !.status = "offered", !.channel = "tool-result"] \in NoticeType
      BY <1>0, NoticeFields, Names DEF KeptTyped
    <3>2. notices' \in [Reports -> NoticeType]
      BY <1>16, <1>0, <3>1 DEF YieldMain, KeptTyped
    <3> QED
      BY <1>16, <1>0, <3>2 DEF YieldMain, KeptTyped
  <2>2. MainTyped'
    <3>1. \A a, b \in BOOLEAN : [status |-> "yielded", armed |-> a, quiet |-> b, here |-> TRUE] \in PhaseType
      BY DEF PhaseType
    <3>2. (Retrievable = {}) \in BOOLEAN /\ (yield = "quiet") \in BOOLEAN
      OBVIOUS
    <3>3. phase' \in PhaseType
      BY <1>16, <1>0, <3>1, <3>2 DEF YieldMain, MainTyped
    <3> QED
      BY <1>16, <1>0, <3>3 DEF YieldMain, MainTyped
  <2>3. RestTyped'
    BY <1>16, <1>0 DEF YieldMain, RestTyped
  <2> QED
    BY <2>1, <2>2, <2>3
<1>17. ASSUME NEW o \in Outcomes, Settle(o) PROVE KeptTyped' /\ MainTyped' /\ RestTyped'
  <2>1. KeptTyped'
    BY <1>17, <1>0, WritesTyped, AfterTyped, FlightFields, SelectedAre, Names DEF Settle, KeptTyped
  <2>2. MainTyped'
    <3>1. Armed \in BOOLEAN
      BY DEF Armed
    <3>2. boundary' \in OfferType
      BY <1>17, <1>0, <3>1, PhaseFields DEF Settle, MainTyped
    <3>3. main' \in {[main EXCEPT !.run = "settling", !.outcome = o], [main EXCEPT !.run = "ended", !.outcome = o]}
      BY <1>17 DEF Settle
    <3>5. main \in MainType
      BY <1>0 DEF MainTyped
    <3>7. /\ [main EXCEPT !.run = "settling", !.outcome = o] \in MainType
          /\ [main EXCEPT !.run = "ended", !.outcome = o] \in MainType
      BY <3>5, o \in Outcomes DEF MainType
    <3>4. main' \in MainType
      BY <3>3, <3>7
    <3>6. UNCHANGED <<phase, deciding, yield, settle>>
      BY <1>17 DEF Settle
    <3> QED
      BY <1>0, <3>2, <3>4, <3>6 DEF MainTyped
  <2>3. RestTyped'
    BY <1>17, <1>0 DEF Settle, RestTyped
  <2> QED
    BY <2>1, <2>2, <2>3
<1>18. CASE Offer
  <2>1. KeptTyped'
    <3>1. \A r \in Reports : [notices[r] EXCEPT !.status = "offered", !.channel = "boundary"] \in NoticeType
      BY <1>0, NoticeFields, Names DEF KeptTyped
    <3>2. notices' \in [Reports -> NoticeType]
      BY <1>18, <1>0, <3>1 DEF Offer, KeptTyped
    <3> QED
      BY <1>18, <1>0, <3>2 DEF Offer, KeptTyped
  <2>2. MainTyped'
    BY <1>18, <1>0, MainFields, PhaseFields DEF Offer, MainTyped
  <2>3. RestTyped'
    BY <1>18, <1>0 DEF Offer, RestTyped
  <2> QED
    BY <2>1, <2>2, <2>3
<1>19. CASE EndOffer
  <2>1. KeptTyped'
    BY <1>19, <1>0, CurrentTyped DEF EndOffer, KeptTyped
  <2>2. MainTyped'
    BY <1>19, <1>0, MainFields, PhaseFields DEF EndOffer, MainTyped
  <2>3. RestTyped'
    BY <1>19, <1>0 DEF EndOffer, RestTyped
  <2> QED
    BY <2>1, <2>2, <2>3
<1>20. CASE Continue
  <2>1. KeptTyped'
    BY <1>20, <1>0, WritesTyped, AfterTyped, FlightFields, SelectedAre, Names DEF Continue, KeptTyped
  <2>2. MainTyped'
    BY <1>20, <1>0, MainFields, PhaseFields DEF Continue, MainTyped
  <2>3. RestTyped'
    BY <1>20, <1>0 DEF Continue, RestTyped
  <2> QED
    BY <2>1, <2>2, <2>3
<1>21. CASE Settled
  <2>1. KeptTyped'
    BY <1>21, <1>0, WritesTyped, AfterTyped, FlightFields, SelectedAre, Names DEF Settled, CheckIdle,
       KeptTyped
  <2>2. MainTyped'
    <3> DEFINE idle == [main EXCEPT !.run = "idle", !.outcome = "none", !.settled = TRUE, !.typed = FALSE,
                           !.prompt = FALSE, !.waking = FALSE, !.rescued = IF @ = "held" THEN "sent" ELSE @]
    <3>1. idle \in MainType
      BY <1>0, SettledMain DEF MainTyped
    <3>2. [idle EXCEPT !.wake = TRUE] \in MainType
      BY <3>1, MainFields
    <3>3. main' \in {idle, [idle EXCEPT !.wake = TRUE]} /\ settle' \in {settle, "claiming"}
      BY <1>21 DEF Settled, CheckIdle
    <3>4. main' \in MainType
      BY <3>1, <3>2, <3>3
    <3> QED
      BY <1>21, <1>0, <3>3, <3>4 DEF Settled, MainTyped
  <2>3. RestTyped'
    BY <1>21, <1>0 DEF Settled, CheckIdle, RestTyped
  <2> QED
    BY <2>1, <2>2, <2>3
<1>22. CASE SettleClaim
  <2>1. KeptTyped'
    <3>1. CASE UNCHANGED <<notices, flight>>
      BY <1>22, <1>0, <3>1 DEF SettleClaim, KeptTyped
    <3>2. ASSUME NEW r \in AutoEligible,
                 \/ notices' = Offered(r, "auto") /\ UNCHANGED flight
                 \/ /\ notices' = [notices EXCEPT ![r].status = "delivery_pending"]
                    /\ flight' = [flight EXCEPT ![r] = [at |-> "claimed", via |-> "settled", current |-> TRUE]]
          PROVE  KeptTyped'
      <4>1. r \in Reports
        BY SelectedAre
      <4>0. /\ Offered(r, "auto") \in [Reports -> NoticeType]
            /\ [notices EXCEPT ![r].status = "delivery_pending"] \in [Reports -> NoticeType]
        BY <4>1, WritesTyped, Names
      <4>2. notices' \in [Reports -> NoticeType]
        BY <1>0, <3>2, <4>0 DEF KeptTyped
      <4>3. flight' \in [Reports -> FlightType]
        BY <1>0, <3>2, <4>1, FlightFields DEF KeptTyped
      <4> QED
        BY <1>22, <1>0, <4>2, <4>3 DEF SettleClaim, KeptTyped
    <3> QED
      BY <1>22, <3>1, <3>2 DEF SettleClaim
  <2>2. MainTyped'
    BY <1>22, <1>0, MainFields, PhaseFields DEF SettleClaim, CheckIdle, MainTyped
  <2>3. RestTyped'
    BY <1>22, <1>0 DEF SettleClaim, CheckIdle, RestTyped
  <2> QED
    BY <2>1, <2>2, <2>3
<1>23. CASE CompactStart
  <2>1. KeptTyped'
    BY <1>23, <1>0, WritesTyped, AfterTyped, FlightFields, SelectedAre, Names DEF CompactStart, Event,
       KeptTyped
  <2>2. MainTyped'
    BY <1>23, <1>0, MainFields, PhaseFields DEF CompactStart, Event, MainTyped
  <2>3. RestTyped'
    BY <1>23, <1>0 DEF CompactStart, Event, RestTyped
  <2> QED
    BY <2>1, <2>2, <2>3
<1>24. CASE CompactEnd
  <2>1. KeptTyped'
    BY <1>24, <1>0, WritesTyped, AfterTyped, FlightFields, SelectedAre, Names DEF CompactEnd, KeptTyped
  <2>2. MainTyped'
    BY <1>24, <1>0, MainFields, PhaseFields DEF CompactEnd, MainTyped
  <2>3. RestTyped'
    BY <1>24, <1>0 DEF CompactEnd, RestTyped
  <2> QED
    BY <2>1, <2>2, <2>3
<1>25. ASSUME NEW kept \in SUBSET Reports, BranchChange(kept) PROVE KeptTyped' /\ MainTyped' /\ RestTyped'
  <2>1. KeptTyped'
    <3>1. notices' \in [Reports -> NoticeType]
      BY <1>25, <1>0, NoticeFields DEF BranchChange, KeptTyped
    <3>2. copies' \in [Reports -> 0..2]
      BY <1>25, <1>0 DEF BranchChange, KeptTyped
    <3> QED
      BY <1>25, <1>0, <3>1, <3>2 DEF BranchChange, KeptTyped
  <2>2. MainTyped'
    BY <1>25, <1>0, MainFields, PhaseFields, NoteTyped DEF BranchChange, Event, MainTyped
  <2>3. RestTyped'
    BY <1>25, <1>0 DEF BranchChange, Event, RestTyped
  <2> QED
    BY <2>1, <2>2, <2>3
<1>26. CASE Inspect
  <2>1. KeptTyped'
    BY <1>26, <1>0, WritesTyped, AfterTyped, FlightFields, SelectedAre, Names DEF Inspect, KeptTyped
  <2>2. MainTyped'
    BY <1>26, <1>0, MainFields, PhaseFields DEF Inspect, MainTyped
  <2>3. RestTyped'
    BY <1>26, <1>0 DEF Inspect, RestTyped
  <2> QED
    BY <2>1, <2>2, <2>3
<1>27. CASE Decide
  <2>1. KeptTyped'
    BY <1>27, <1>0, WritesTyped, AfterTyped, FlightFields, SelectedAre, Names DEF Decide, KeptTyped
  <2>2. MainTyped'
    BY <1>27, <1>0 DEF Decide, MainTyped, DecidingType
  <2>3. RestTyped'
    BY <1>27, <1>0 DEF Decide, RestTyped
  <2> QED
    BY <2>1, <2>2, <2>3
<1>28. ASSUME NEW next \in {"activating", "done"}, Decided(next) PROVE KeptTyped' /\ MainTyped' /\ RestTyped'
  <2>1. KeptTyped'
    <3>1. flight' \in [Reports -> FlightType]
      BY <1>28, <1>0, CurrentTyped DEF Decided, KeptTyped
    <3>2. notices' \in [Reports -> NoticeType] /\ task' \in {task, "activating", "done"}
      BY <1>28, <1>0, CurrentTyped DEF Decided, KeptTyped
    <3> QED
      BY <1>28, <1>0, <3>1, <3>2 DEF Decided, KeptTyped
  <2>2. MainTyped'
    BY <1>28, <1>0, MainFields, PhaseFields DEF Decided, Reopen, MainTyped
  <2>3. RestTyped'
    BY <1>28, <1>0 DEF Decided, Reopen, RestTyped
  <2> QED
    BY <2>1, <2>2, <2>3
<1>29. CASE Activated
  <2>1. KeptTyped'
    BY <1>29, <1>0, WritesTyped, AfterTyped, FlightFields, SelectedAre, Names DEF Activated, KeptTyped
  <2>2. MainTyped'
    BY <1>29, <1>0, MainFields, PhaseFields DEF Activated, MainTyped
  <2>3. RestTyped'
    BY <1>29, <1>0 DEF Activated, RestTyped
  <2> QED
    BY <2>1, <2>2, <2>3
<1>30. CASE Resume
  <2>1. KeptTyped'
    BY <1>30, <1>0, WritesTyped, AfterTyped, FlightFields, SelectedAre, Names DEF Resume, KeptTyped
  <2>2. MainTyped'
    BY <1>30, <1>0, MainFields, PhaseFields DEF Resume, MainTyped
  <2>3. RestTyped'
    BY <1>30, <1>0 DEF Resume, RestTyped
  <2> QED
    BY <2>1, <2>2, <2>3
<1>31. CASE Pause
  <2>1. KeptTyped'
    BY <1>31, <1>0, CurrentTyped DEF Pause, KeptTyped
  <2>2. MainTyped'
    BY <1>31, <1>0, MainFields, PhaseFields DEF Pause, Event, MainTyped
  <2>3. RestTyped'
    BY <1>31, <1>0 DEF Pause, Event, RestTyped
  <2> QED
    BY <2>1, <2>2, <2>3
<1>32. CASE Restore
  <2>1. KeptTyped'
    BY <1>32, <1>0, WritesTyped, AfterTyped, FlightFields, SelectedAre, Names DEF Restore, KeptTyped
  <2>2. MainTyped'
    BY <1>32, <1>0, MainFields, PhaseFields DEF Restore, MainTyped
  <2>3. RestTyped'
    BY <1>32, <1>0 DEF Restore, RestTyped
  <2> QED
    BY <2>1, <2>2, <2>3
<1>33. CASE Cancel
  <2>1. KeptTyped'
    <3>1. notices' \in [Reports -> NoticeType]
      BY <1>33, <1>0, NoticeFields, Names DEF Cancel, KeptTyped
    <3> QED
      BY <1>33, <1>0, <3>1, CurrentTyped DEF Cancel, KeptTyped
  <2>2. MainTyped'
    BY <1>33, <1>0, MainFields, PhaseFields DEF Cancel, Event, MainTyped
  <2>3. RestTyped'
    BY <1>33, <1>0 DEF Cancel, Event, RestTyped
  <2> QED
    BY <2>1, <2>2, <2>3
<1>34. CASE YieldManual
  <2>1. KeptTyped'
    BY <1>34, <1>0, WritesTyped, AfterTyped, FlightFields, SelectedAre, Names DEF YieldManual, Event,
       KeptTyped
  <2>2. MainTyped'
    BY <1>34, <1>0, PhaseFields DEF YieldManual, MainTyped, PhaseType
  <2>3. RestTyped'
    BY <1>34, <1>0 DEF YieldManual, Event, RestTyped
  <2> QED
    BY <2>1, <2>2, <2>3
<1>35. CASE Restart
  <2>1. KeptTyped'
    <3>1. notices' \in [Reports -> NoticeType]
      BY <1>35, <1>0, NoticeFields, Names DEF Restart, KeptTyped
    <3>2. flight' \in [Reports -> FlightType] /\ queue' = {}
      BY <1>35, <1>0, FlightFields DEF Restart, KeptTyped
    <3> QED
      BY <1>35, <1>0, <3>1, <3>2 DEF Restart, KeptTyped
  <2>2. MainTyped'
    BY <1>35, <1>0, MainFields, PhaseFields DEF Restart, Event, IdleMain, MainTyped
  <2>3. RestTyped'
    BY <1>35, <1>0 DEF Restart, Event, IdleMain, RestTyped
  <2> QED
    BY <2>1, <2>2, <2>3
<1>37. CASE Resend
  <2>1. KeptTyped'
    BY <1>37, <1>0 DEF Resend, TakeInput, KeptTyped
  <2>2. MainTyped'
    <3>1. TakeInput([main EXCEPT !.rescued = "none"]) /\ [main EXCEPT !.rescued = "none"] \in MainType
      BY <1>37, <1>0, MainFields DEF Resend, MainTyped
    <3>2. main' \in MainType /\ UNCHANGED <<deciding, settle>> /\ NoteActivity
      BY <3>1, InputTyped DEF TakeInput
    <3> QED
      BY <1>0, <3>2, NoteTyped DEF MainTyped
  <2>3. RestTyped'
    BY <1>37, <1>0 DEF Resend, TakeInput, RestTyped
  <2> QED
    BY <2>1, <2>2, <2>3
<1>38. CASE Rescue
  <2>1. KeptTyped'
    BY <1>38, <1>0 DEF Rescue, KeptTyped
  <2>2. MainTyped'
    BY <1>38, <1>0, MainFields DEF Rescue, MainTyped
  <2>3. RestTyped'
    BY <1>38, <1>0 DEF Rescue, RestTyped
  <2> QED
    BY <2>1, <2>2, <2>3
<1>39. ASSUME NEW r \in Reports, ClaimRevoked(r) PROVE KeptTyped' /\ MainTyped' /\ RestTyped'
  <2>1. KeptTyped'
    <3>1. notices' \in [Reports -> NoticeType]
      BY <1>39, WritesTyped, Names DEF ClaimRevoked
    <3>2. flight' \in [Reports -> FlightType]
      BY <1>39, WritesTyped, FlightFields DEF ClaimRevoked
    <3> QED
      BY <1>39, <1>0, <3>1, <3>2 DEF ClaimRevoked, KeptTyped
  <2>2. MainTyped'
    BY <1>39, <1>0 DEF ClaimRevoked, MainTyped
  <2>3. RestTyped'
    BY <1>39, <1>0 DEF ClaimRevoked, RestTyped
  <2> QED
    BY <2>1, <2>2, <2>3
<1>40. CASE SettleRevoked
  <2>1. KeptTyped'
    BY <1>40, <1>0, CurrentTyped DEF SettleRevoked, KeptTyped
  <2>2. MainTyped'
    BY <1>40, <1>0 DEF SettleRevoked, MainTyped
  <2>3. RestTyped'
    BY <1>40, <1>0 DEF SettleRevoked, RestTyped
  <2> QED
    BY <2>1, <2>2, <2>3
<1>36. CASE UNCHANGED vars
  BY <1>36, <1>0 DEF vars, KeptTyped, MainTyped, RestTyped
<1> QED
  BY <1>1, <1>2, <1>3, <1>4, <1>5, <1>6, <1>7, <1>8, <1>9, <1>10, <1>11, <1>12, <1>13, <1>14, <1>15, <1>16,
     <1>17, <1>18, <1>19, <1>20, <1>21, <1>22, <1>23, <1>24, <1>25, <1>26, <1>27, <1>28, <1>29, <1>30, <1>31,
     <1>32, <1>33, <1>34, <1>35, <1>36, <1>37, <1>38, <1>39, <1>40 DEF Next, Deliver

------------------------------------------------------------------------------
(* The inductive invariant.                                                  *)

\* Nothing has been delivered at first.
LEMMA InvInit == Init => DeliveryInv
<1> USE DEF Init, OpenPhase, NoFlight, NoOffer, NotDeciding, IdleMain
<1>1. Init => OneUnresolved
  BY DEF OneUnresolved, Unresolved
<1>2. Init => InvFrozen
  BY DEF InvFrozen
<1>3. Init => InvSettling
  BY DEF InvSettling
<1>4. Init => InvTaken
  BY DEF InvTaken, Taken
<1>5. Init => InvQueue
  BY DEF InvQueue
<1>6. Init => InvSent
  BY DEF InvSent
<1>7. Init => InvOffered
  BY DEF InvOffered
<1>8. Init => InvOffer
  BY DEF InvOffer, Armed
<1>9. Init => InvArmed
  BY DEF InvArmed, Armed
<1>10. Init => InvQuiet
  BY DEF InvQuiet, Armed
<1>11. Init => InvBranch
  BY DEF InvBranch
<1> QED
  BY <1>1, <1>2, <1>3, <1>4, <1>5, <1>6, <1>7, <1>8, <1>9, <1>10, <1>11 DEF DeliveryInv

\* What each part of the invariant is about: a step that leaves it alone keeps the part.
LEMMA Kept ==
  ASSUME DeliveryInv
  PROVE
    /\ UNCHANGED <<notices, report, task>> => OneUnresolved'
    /\ UNCHANGED <<task, boundary, report, notices, flight, copies>> => InvFrozen'
    /\ UNCHANGED <<boundary, main, yield>> => InvSettling'
    /\ UNCHANGED <<flight, notices>> => InvTaken'
    /\ UNCHANGED <<queue, flight>> => InvQueue'
    /\ UNCHANGED <<flight, copies, gone>> => InvSent'
    /\ UNCHANGED <<notices, copies, gone, reverts, boundary, report>> => InvOffered'
    /\ UNCHANGED <<boundary, copies, report, phase, withdrawn>> => InvOffer'
    /\ UNCHANGED <<phase, notices, copies, withdrawn>> => InvArmed'
    /\ UNCHANGED <<yield, disturbed, phase, boundary>> /\ (PutAside => PutAside') => InvQuiet'
    /\ UNCHANGED main => (PutAside => PutAside')
    /\ UNCHANGED <<notices, navigated, deciding>> => InvBranch'
<1>1. UNCHANGED <<notices, report, task>> => OneUnresolved'
  BY DEF DeliveryInv, OneUnresolved, Unresolved
<1>2. UNCHANGED <<task, boundary, report, notices, flight, copies>> => InvFrozen'
  BY DEF DeliveryInv, InvFrozen
<1>3. UNCHANGED <<boundary, main, yield>> => InvSettling'
  BY DEF DeliveryInv, InvSettling
<1>4. UNCHANGED <<flight, notices>> => InvTaken'
  BY DEF DeliveryInv, InvTaken, Taken
<1>5. UNCHANGED <<queue, flight>> => InvQueue'
  BY DEF DeliveryInv, InvQueue
<1>6. UNCHANGED <<flight, copies, gone>> => InvSent'
  BY DEF DeliveryInv, InvSent
<1>7. UNCHANGED <<notices, copies, gone, reverts, boundary, report>> => InvOffered'
  BY DEF DeliveryInv, InvOffered
<1>8. UNCHANGED <<boundary, copies, report, phase, withdrawn>> => InvOffer'
  BY DEF DeliveryInv, InvOffer, Armed
<1>9. UNCHANGED <<phase, notices, copies, withdrawn>> => InvArmed'
  BY DEF DeliveryInv, InvArmed, Armed
<1>10. UNCHANGED <<yield, disturbed, phase, boundary>> /\ (PutAside => PutAside') => InvQuiet'
  BY DEF DeliveryInv, InvQuiet, Armed
<1>12. UNCHANGED main => (PutAside => PutAside')
  BY DEF PutAside
<1>11. UNCHANGED <<notices, navigated, deciding>> => InvBranch'
  BY DEF DeliveryInv, InvBranch
<1> QED
  BY <1>1, <1>2, <1>3, <1>4, <1>5, <1>6, <1>7, <1>8, <1>9, <1>10, <1>11, <1>12

\* The worker, the controller and its deliveries keep the invariant.
LEMMA WorkerKeeps ==
  ASSUME Typed, DeliveryInv
  PROVE (\/ Freeze
          \/ AutoDeliver
          \/ Scan
          \/ (\E r \in Reports : Redeliver(r))
          \/ (\E r \in Reports : Claim(r))
          \/ (\E r \in Reports : ClaimRevoked(r))
          \/ (\E r \in Reports : Send(r))
          \/ (\E r \in Reports : ReceiptMissing(r))
          \/ (\E r \in Reports : Complete(r))
          \/ (\E r \in Reports : Revert(r))) => DeliveryInv'
<1>0. KeptTyped /\ MainTyped /\ OneUnresolved /\ InvFrozen /\ InvSettling /\ InvTaken /\ InvQueue /\ InvSent
      /\ InvOffered /\ InvOffer /\ InvArmed /\ InvQuiet /\ InvBranch
  BY DEF Typed, DeliveryInv
<1> USE DEF KeptTyped, mem, sides, hist
<1>1. ASSUME Freeze PROVE DeliveryInv'
  <2>0. /\ task = "working" /\ task' = "waiting" /\ report' = report + 1 /\ report' \in Reports /\ report' # 0
        /\ report \in Int /\ \A x \in Reports : x \in Int
        /\ \A x \in Reports : x # report' => notices'[x] = notices[x]
        /\ notices'[report'].status = "pending" /\ ~navigated'
        /\ UNCHANGED <<flight, copies, queue, boundary, phase, main, yield, disturbed, deciding, gone, withdrawn, reverts>>
    BY <1>1, <1>0, DeliveryAssumption DEF Freeze, Reports
  <2>a. /\ flight[report'] = NoFlight /\ copies[report'] = 0 /\ \A x \in Reports : x \notin Unresolved
        /\ boundary.at = "offered" => report # 0
    BY <2>0, <1>0 DEF InvFrozen, OneUnresolved
  <2>1. OneUnresolved'
    BY <2>0, <1>0, Rests, <2>a DEF OneUnresolved, Unresolved
  <2>2. InvFrozen'
    BY <2>0, <1>0, Rests, <2>a DEF InvFrozen, Unresolved
  <2>3. InvTaken'
    BY <2>0, <1>0, Rests, <2>a DEF InvTaken, Taken, Unresolved
  <2>4. InvOffered'
    BY <2>0, <1>0, Rests, <2>a DEF InvOffered, Unresolved
  <2>5. InvOffer'
    BY <2>0, <1>0, Rests, <2>a DEF InvOffer, Armed, Unresolved
  <2>6. InvArmed'
    BY <2>0, <1>0, Rests, <2>a DEF InvArmed, Armed, Unresolved
  <2>7. InvBranch'
    BY <2>0, <1>0 DEF InvBranch
  <2> QED
    BY <1>1, Kept, <2>1, <2>2, <2>3, <2>4, <2>5, <2>6, <2>7 DEF Freeze, DeliveryInv
<1>2. ASSUME AutoDeliver PROVE DeliveryInv'
  <2>0. /\ UNCHANGED <<report, task, notices, copies, queue, gone, withdrawn, boundary, yield>>
        /\ main'.run = main.run /\ main'.rescued = main.rescued
        /\ \A x \in Reports : \/ flight'[x] = flight[x]
                              \/ x = report /\ flight[x].at = "none" /\ flight'[x].at = "queued"
    <3>1. [main EXCEPT !.wake = TRUE].run = main.run /\ [main EXCEPT !.wake = TRUE].rescued = main.rescued
      BY <1>0 DEF MainTyped, MainType
    <3>2. main'.run = main.run /\ main'.rescued = main.rescued
      BY <1>2, <3>1 DEF AutoDeliver, Announce
    <3> QED
      BY <1>2, <3>2, SelectedAre DEF AutoDeliver
  <2>1. InvFrozen'
    BY <2>0, <1>0, Rests DEF InvFrozen
  <2>2. InvSettling'
    BY <2>0, <1>0 DEF InvSettling
  <2>3. InvTaken'
    BY <2>0, <1>0, Rests DEF InvTaken, Taken
  <2>4. InvQueue'
    BY <2>0, <1>0, Rests DEF InvQueue
  <2>5. InvSent'
    BY <2>0, <1>0, Rests DEF InvSent
  <2>6. PutAside => PutAside'
    BY <2>0 DEF PutAside
  <2> QED
    BY <1>2, Kept, <2>1, <2>2, <2>3, <2>4, <2>5, <2>6 DEF AutoDeliver, DeliveryInv
<1>3. ASSUME Scan PROVE DeliveryInv'
  <2>0. UNCHANGED <<boundary, yield>> /\ main'.run = main.run /\ main'.rescued = main.rescued
    <3>1. [main EXCEPT !.wake = TRUE].run = main.run /\ [main EXCEPT !.wake = TRUE].rescued = main.rescued
      BY <1>0 DEF MainTyped, MainType
    <3> QED
      BY <1>3, <3>1 DEF Scan, Announce, CheckIdle
  <2>1. InvSettling'
    BY <2>0, <1>0 DEF InvSettling
  <2>2. PutAside => PutAside'
    BY <2>0 DEF PutAside
  <2> QED
    BY <1>3, Kept, <2>1, <2>2 DEF Scan, DeliveryInv
<1>4. ASSUME NEW r \in Reports, Redeliver(r) PROVE DeliveryInv'
  <2>0. /\ UNCHANGED <<report, task, notices, copies, queue, gone, withdrawn, boundary>> /\ r = report
        /\ flight[r].at = "none" /\ flight'[r].at = "queued"
        /\ \A x \in Reports : x # r => flight'[x] = flight[x]
    BY <1>4, <1>0 DEF Redeliver, OneUnresolved
  <2>1. InvFrozen'
    BY <2>0, <1>0, Rests DEF InvFrozen
  <2>2. InvTaken'
    BY <2>0, <1>0, Rests DEF InvTaken, Taken
  <2>3. InvQueue'
    BY <2>0, <1>0, Rests DEF InvQueue
  <2>4. InvSent'
    BY <2>0, <1>0, Rests DEF InvSent
  <2> QED
    BY <1>4, Kept, <2>1, <2>2, <2>3, <2>4 DEF Redeliver, DeliveryInv
<1>5. ASSUME NEW r \in Reports, Claim(r) PROVE DeliveryInv'
  <2>0. /\ flight[r].at = "queued"
        /\ UNCHANGED <<report, task, copies, queue, gone, withdrawn, reverts, boundary, phase, navigated, deciding>>
        /\ \A x \in Reports : x # r => notices'[x] = notices[x] /\ flight'[x] = flight[x]
        /\ notices'[r].observed = notices[r].observed /\ notices'[r].current = notices[r].current
        /\ \/ notices'[r] = notices[r] /\ flight'[r] = NoFlight
           \/ /\ r = report /\ r \in Unresolved /\ flight'[r] = NoFlight /\ notices'[r].status = "offered"
              /\ notices'[r].channel = "auto" /\ copies[r] > 0
           \/ /\ r = report /\ r \in Unresolved /\ notices'[r].status = "delivery_pending"
              /\ flight'[r].at = "claimed" /\ flight'[r].via = flight[r].via
              /\ flight[r].via # "manual" => copies[r] = 0
    <3>1. notices[r] \in NoticeType /\ flight[r] \in FlightType /\ copies[r] \in 0..2
      BY <1>5, <1>0
    <3>2. CASE ClaimFails(r, flight[r].via)
      BY <1>5, <1>0, <3>1, <3>2 DEF Claim
    <3>3. CASE ~ClaimFails(r, flight[r].via) /\ AlreadyThere(r, flight[r].via)
      BY <1>5, <1>0, <3>1, <3>3 DEF Claim, Offered, ClaimFails, AlreadyThere, NoticeType
    <3>4. CASE ~ClaimFails(r, flight[r].via) /\ ~AlreadyThere(r, flight[r].via)
      BY <1>5, <1>0, <3>1, <3>4 DEF Claim, ClaimFails, AlreadyThere, NoticeType, FlightType
    <3> QED
      BY <3>2, <3>3, <3>4
  <2>1. OneUnresolved'
    BY <2>0, <1>0 DEF OneUnresolved, Unresolved
  <2>2. InvFrozen'
    BY <2>0, <1>0, Rests DEF InvFrozen
  <2>3. InvTaken'
    BY <2>0, <1>0, Rests DEF InvTaken, Taken
  <2>4. InvQueue'
    BY <2>0, <1>0, Rests DEF InvQueue
  <2>5. InvSent'
    BY <2>0, <1>0, Rests DEF InvSent
  <2>6. InvOffered'
    BY <2>0, <1>0 DEF InvOffered
  <2>7. InvArmed'
    BY <2>0, <1>0 DEF InvArmed, Armed
  <2>8. InvBranch'
    BY <2>0, <1>0 DEF InvBranch
  <2> QED
    BY <1>5, Kept, <2>1, <2>2, <2>3, <2>4, <2>5, <2>6, <2>7, <2>8 DEF Claim, DeliveryInv
<1>6. ASSUME NEW r \in Reports, Send(r) PROVE DeliveryInv'
  <2>0. /\ flight[r].at = "claimed" /\ flight'[r].via = flight[r].via
        /\ UNCHANGED <<report, task, notices, gone, withdrawn, reverts, boundary, phase, yield>>
        /\ main'.run = main.run /\ main'.rescued = main.rescued
        /\ \A x \in Reports : x # r => flight'[x] = flight[x] /\ copies'[x] = copies[x]
        /\ \/ /\ flight'[r].at \in {"failed", "deferred"} /\ UNCHANGED <<copies, queue>>
              /\ flight'[r].at = "deferred" => flight[r].via # "manual"
           \/ flight'[r].at = "sent" /\ UNCHANGED <<copies, queue>>
           \/ /\ flight'[r].at = "sent" /\ queue' = queue \cup {<<r, Channel(flight[r].via)>>} /\ UNCHANGED copies
           \/ /\ flight'[r].at = "received" /\ main.run = "idle" /\ copies'[r] > 0 /\ UNCHANGED queue
    <3>1. /\ flight[r] \in FlightType /\ copies[r] \in 0..2 /\ main \in MainType
          /\ \A a \in {"sent", "received", "failed", "deferred"} : [flight[r] EXCEPT !.at = a].at = a
               /\ [flight[r] EXCEPT !.at = a].via = flight[r].via
      BY <1>0 DEF MainTyped, FlightType
    <3>2. /\ [main EXCEPT !.wake = TRUE, !.waking = Waking(r)].run = main.run
          /\ [main EXCEPT !.waking = Waking(r)].run = main.run
          /\ [main EXCEPT !.wake = TRUE, !.waking = Waking(r)].rescued = main.rescued
          /\ [main EXCEPT !.waking = Waking(r)].rescued = main.rescued
      BY <3>1 DEF MainType
    <3>3. ASSUME SendReport(r), flight[r].at = "claimed"
          PROVE  /\ flight'[r].via = flight[r].via /\ main'.run = main.run /\ main'.rescued = main.rescued
                 /\ \A x \in Reports : x # r => flight'[x] = flight[x] /\ copies'[x] = copies[x]
                 /\ \/ flight'[r].at = "sent" /\ UNCHANGED <<copies, queue>>
                    \/ /\ flight'[r].at = "sent" /\ queue' = queue \cup {<<r, Channel(flight[r].via)>>}
                       /\ UNCHANGED copies
                    \/ /\ flight'[r].at = "received" /\ main.run = "idle" /\ copies'[r] > 0 /\ UNCHANGED queue
      <4>1. CASE Occupied /\ queue' = queue \cup {<<r, Channel(flight[r].via)>>}
                 /\ flight' = [flight EXCEPT ![r].at = "sent"] /\ UNCHANGED <<main, copies, events>>
        BY <1>0, <3>1, <4>1
      <4>2. CASE ~Occupied /\ copies' = Shown(r) /\ main' = [main EXCEPT !.wake = TRUE, !.waking = Waking(r)]
                 /\ flight' = [flight EXCEPT ![r].at = "received"] /\ UNCHANGED <<queue, events>>
        <5>1. main'.run = main.run /\ main'.rescued = main.rescued /\ main.run = "idle"
          BY <3>2, <4>2 DEF Occupied
        <5>2. copies'[r] > 0 /\ \A x \in Reports : x # r => copies'[x] = copies[x]
          BY <1>0, <3>1, <4>2 DEF Shown
        <5>3. flight'[r].at = "received" /\ flight'[r].via = flight[r].via
              /\ \A x \in Reports : x # r => flight'[x] = flight[x]
          BY <1>0, <3>1, <4>2
        <5> QED
          BY <4>2, <5>1, <5>2, <5>3
      <4>3. CASE /\ Event("loss") /\ main' = [main EXCEPT !.waking = Waking(r)]
                 /\ flight' = [flight EXCEPT ![r].at = "sent"] /\ UNCHANGED <<copies, queue>>
        BY <1>0, <3>1, <3>2, <4>3
      <4> QED
        BY <3>3, <4>1, <4>2, <4>3 DEF SendReport
    <3>4. flight[r].at = "claimed" /\ UNCHANGED <<report, task, notices, gone, withdrawn, reverts, boundary, phase, yield>>
      BY <1>6 DEF Send
    <3>5. ASSUME NEW a \in {"failed", "deferred"}, flight' = [flight EXCEPT ![r].at = a]
          PROVE  /\ flight'[r].via = flight[r].via /\ flight'[r].at \in {"failed", "deferred"}
                 /\ flight'[r].at = a /\ \A x \in Reports : x # r => flight'[x] = flight[x]
      BY <1>0, <3>1, <3>5
    <3>6. \/ flight' = [flight EXCEPT ![r].at = "failed"] /\ UNCHANGED <<main, copies, queue>>
          \/ /\ flight[r].via = "auto" /\ flight' = [flight EXCEPT ![r].at = "deferred"]
             /\ UNCHANGED <<main, copies, queue>>
          \/ SendReport(r)
      BY <1>6 DEF Send
    <3>7. CASE flight' = [flight EXCEPT ![r].at = "failed"] /\ UNCHANGED <<main, copies, queue>>
      BY <3>4, <3>5, <3>7
    <3>8. CASE /\ flight[r].via = "auto" /\ flight' = [flight EXCEPT ![r].at = "deferred"]
               /\ UNCHANGED <<main, copies, queue>>
      BY <3>4, <3>5, <3>8
    <3>9. CASE SendReport(r)
      BY <3>3, <3>4, <3>9
    <3> QED
      BY <3>6, <3>7, <3>8, <3>9
  <2>1. InvFrozen'
    BY <2>0, <1>0, Rests DEF InvFrozen
  <2>2. InvSettling'
    BY <2>0, <1>0 DEF InvSettling
  <2>3. InvTaken'
    BY <2>0, <1>0, Rests DEF InvTaken, Taken
  <2>4. InvQueue'
    BY <2>0, <1>0, Rests DEF InvQueue
  <2>5. InvSent'
    BY <2>0, <1>0, Rests DEF InvSent
  <2>6. InvOffered'
    BY <2>0, <1>0 DEF InvOffered
  <2>7. InvOffer'
    BY <2>0, <1>0 DEF InvOffer, Armed, InvSettling
  <2>8. InvArmed'
    BY <2>0, <1>0 DEF InvArmed, Armed, InvTaken, Taken
  <2>9. PutAside => PutAside'
    BY <2>0 DEF PutAside
  <2> QED
    BY <1>6, Kept, <2>1, <2>2, <2>3, <2>4, <2>5, <2>6, <2>7, <2>8, <2>9 DEF Send, DeliveryInv
<1>7. ASSUME NEW r \in Reports, ReceiptMissing(r) PROVE DeliveryInv'
  <2>0. /\ flight[r].at = "sent" /\ queue = {} /\ flight'[r].via = flight[r].via
        /\ flight'[r].at = (IF copies[r] > 0 THEN "received" ELSE "failed") /\ copies[r] \in 0..2
        /\ \A x \in Reports : x # r => flight'[x] = flight[x]
        /\ UNCHANGED <<report, task, notices, copies, queue, gone, withdrawn, boundary>>
    BY <1>7, <1>0 DEF ReceiptMissing, Occupied, FlightType
  <2>1. InvFrozen'
    BY <2>0, <1>0, Rests DEF InvFrozen
  <2>2. InvTaken'
    BY <2>0, <1>0, Rests DEF InvTaken, Taken
  <2>3. InvQueue'
    BY <2>0, <1>0, Rests DEF InvQueue
  <2>4. InvSent'
    BY <2>0, <1>0, Rests DEF InvSent
  <2> QED
    BY <1>7, Kept, <2>1, <2>2, <2>3, <2>4 DEF ReceiptMissing, DeliveryInv
<1>8. ASSUME NEW r \in Reports, Complete(r) PROVE DeliveryInv'
  <2>0. /\ flight[r].at \in {"received", "failed", "deferred"} /\ flight'[r] = NoFlight
        /\ \A x \in Reports : x # r => flight'[x] = flight[x] /\ notices'[x] = notices[x]
        /\ UNCHANGED <<report, task, copies, queue, gone, withdrawn, reverts, boundary, phase, navigated, deciding>>
        /\ notices'[r].observed = notices[r].observed /\ notices'[r].current = notices[r].current
        /\ \/ notices'[r] = notices[r] /\ notices[r].status # "delivery_pending"
           \/ /\ notices[r].status = "delivery_pending"
              /\ \/ /\ flight[r].at = "received" /\ notices'[r].status = "offered"
                    /\ notices'[r].channel \in {"auto", "manual"}
                 \/ notices'[r].status = "delivery_failed"
                 \/ /\ flight[r].at \in {"failed", "deferred"} /\ notices'[r].status = "pending"
                    /\ flight[r].at = "deferred" \/ flight[r].via # "manual"
    <3>1. notices[r] \in NoticeType /\ flight[r] \in FlightType
      BY <1>0
    <3>2. CASE notices[r].status # "delivery_pending"
      BY <1>8, <1>0, <3>1, <3>2 DEF Complete
    <3>3. CASE notices[r].status = "delivery_pending" /\ flight[r].at = "received"
      BY <1>8, <1>0, <3>1, <3>3 DEF Complete, AfterDelivery, Offered, Channel, NoticeType
    <3>4. CASE notices[r].status = "delivery_pending" /\ flight[r].at = "deferred"
      BY <1>8, <1>0, <3>1, <3>4 DEF Complete, AfterDelivery, NoticeType
    <3>5. CASE notices[r].status = "delivery_pending" /\ flight[r].at = "failed" /\ flight[r].via = "manual"
      BY <1>8, <1>0, <3>1, <3>5 DEF Complete, AfterDelivery, NoticeType
    <3>6. CASE notices[r].status = "delivery_pending" /\ flight[r].at = "failed" /\ flight[r].via # "manual"
      BY <1>8, <1>0, <3>1, <3>6 DEF Complete, AfterDelivery, NoticeType
    <3> QED
      BY <1>8, <3>2, <3>3, <3>4, <3>5, <3>6 DEF Complete
  <2>1. OneUnresolved'
    BY <2>0, <1>0 DEF OneUnresolved, Unresolved
  <2>2. InvFrozen'
    BY <2>0, <1>0, Rests DEF InvFrozen
  <2>3. InvTaken'
    BY <2>0, <1>0, Rests DEF InvTaken, Taken
  <2>4. InvQueue'
    BY <2>0, <1>0, Rests DEF InvQueue
  <2>5. InvSent'
    BY <2>0, <1>0, Rests DEF InvSent
  <2>6. InvOffered'
    BY <2>0, <1>0 DEF InvOffered, InvSent
  <2>7. InvArmed'
    BY <2>0, <1>0 DEF InvArmed, Armed, InvSent
  <2>8. InvBranch'
    BY <2>0, <1>0 DEF InvBranch
  <2> QED
    BY <1>8, Kept, <2>1, <2>2, <2>3, <2>4, <2>5, <2>6, <2>7, <2>8 DEF Complete, DeliveryInv
<1>9. ASSUME NEW r \in Reports, Revert(r) PROVE DeliveryInv'
  <2>1. OneUnresolved'
    BY <1>9, <1>0 DEF Revert, OneUnresolved, Unresolved, NoticeType
  <2>2. InvFrozen'
    BY <1>9, <1>0 DEF Revert, InvFrozen, NoticeType
  <2>3. InvTaken'
    BY <1>9, <1>0 DEF Revert, InvTaken, Taken, NoticeType
  <2>4. InvOffered'
    BY <1>9, <1>0 DEF Revert, InvOffered, NoticeType
  <2>5. InvArmed'
    BY <1>9, <1>0 DEF Revert, InvArmed, Armed, NoticeType
  <2>6. InvBranch'
    BY <1>9, <1>0 DEF Revert, InvBranch, NoticeType
  <2> QED
    BY <1>9, Kept, <2>1, <2>2, <2>3, <2>4, <2>5, <2>6 DEF Revert, DeliveryInv
<1>10. ASSUME NEW r \in Reports, ClaimRevoked(r) PROVE DeliveryInv'
  <2>0. /\ flight[r].at = "queued" /\ flight'[r] = NoFlight /\ r = report /\ r \in Unresolved
        /\ notices'[r].observed = notices[r].observed /\ notices'[r].current = notices[r].current
        /\ notices'[r].status = "pending"
        /\ \A x \in Reports : x # r =>
             /\ notices'[x] = notices[x] /\ flight'[x].at = flight[x].at /\ flight'[x].via = flight[x].via
             /\ flight[x] = NoFlight => flight'[x] = NoFlight
        /\ copies[r] = 0 \/ r \in withdrawn'
        /\ \A x \in Reports : x \in withdrawn => x \in withdrawn'
        /\ UNCHANGED <<report, task, copies, queue, gone, reverts, boundary, phase, navigated, deciding>>
    <3>1. notices[r] \in NoticeType /\ copies[r] \in 0..2
      BY <1>0
    <3>2. \A x \in Reports : flight'[x] = IF x = r THEN NoFlight ELSE Revoked[x]
      BY <1>10 DEF ClaimRevoked, Revoked
    <3>3. \A x \in Reports : x # r =>
            /\ flight'[x].at = flight[x].at /\ flight'[x].via = flight[x].via
            /\ flight[x] = NoFlight => flight'[x] = NoFlight
      BY <1>0, <3>2, RevokedAre
    <3>4. /\ notices'[r].observed = notices[r].observed /\ notices'[r].current = notices[r].current
          /\ notices'[r].status = "pending" /\ \A x \in Reports : x # r => notices'[x] = notices[x]
      BY <1>10, <1>0, <3>1 DEF ClaimRevoked, NoticeType
    <3>5. copies[r] = 0 \/ r \in withdrawn'
      BY <1>10, <3>1 DEF ClaimRevoked, AlreadyThere
    <3>6. /\ r = report /\ r \in Unresolved /\ flight[r].at = "queued"
          /\ \A x \in Reports : x \in withdrawn => x \in withdrawn'
      BY <1>10 DEF ClaimRevoked, ClaimFails
    <3>7. UNCHANGED <<report, task, copies, queue, gone, reverts, boundary, phase, navigated, deciding>>
      BY <1>10 DEF ClaimRevoked
    <3> QED
      BY <3>2, <3>3, <3>4, <3>5, <3>6, <3>7
  <2>1. OneUnresolved'
    BY <2>0, <1>0 DEF OneUnresolved, Unresolved
  <2>2. InvFrozen'
    BY <2>0, <1>0, Rests DEF InvFrozen
  <2>3. InvTaken'
    BY <2>0, <1>0, Rests DEF InvTaken, Taken
  <2>4. InvQueue'
    BY <2>0, <1>0, Rests DEF InvQueue
  <2>5. InvSent'
    BY <2>0, <1>0, Rests DEF InvSent
  <2>6. InvOffered'
    BY <2>0, <1>0 DEF InvOffered
  <2>7. InvArmed'
    BY <2>0, <1>0 DEF InvArmed, Armed
  <2>8. InvBranch'
    BY <2>0, <1>0 DEF InvBranch
  <2>9. InvOffer'
    BY <2>0, <1>0 DEF InvOffer, Armed
  <2> QED
    BY <1>10, Kept, <2>1, <2>2, <2>3, <2>4, <2>5, <2>6, <2>7, <2>8, <2>9 DEF ClaimRevoked, DeliveryInv
<1> QED
  BY <1>1, <1>2, <1>3, <1>4, <1>5, <1>6, <1>7, <1>8, <1>9, <1>10

\* So do Main's runs and the user.
LEMMA RunKeeps ==
  ASSUME Typed, DeliveryInv
  PROVE (\/ UserInput
          \/ Rescue
          \/ Resend
          \/ StartRun
          \/ TakePrompt
          \/ (\E q \in queue : TakeFollowUp(q))
          \/ ToolUse
          \/ YieldCall
          \/ YieldMain
          \/ (\E o \in Outcomes : Settle(o))) => DeliveryInv'
<1>0. KeptTyped /\ MainTyped /\ OneUnresolved /\ InvFrozen /\ InvSettling /\ InvTaken /\ InvQueue /\ InvSent
      /\ InvOffered /\ InvOffer /\ InvArmed /\ InvQuiet /\ InvBranch
  BY DEF Typed, DeliveryInv
<1> USE DEF KeptTyped, mem, sides, hist
<1>1. ASSUME NEW m \in MainType, m.run = main.run, TakeInput(m) PROVE DeliveryInv'
  <2>0. main'.run = main.run /\ NoteActivity /\ disturbed' = TRUE
    BY <1>1, InputTyped DEF TakeInput
  <2>1. InvFrozen'
    BY <1>1, <1>0, Rests DEF TakeInput, NoteActivity, InvFrozen, MainTyped, OfferType
  <2>2. InvSettling'
    BY <1>1, <2>0, <1>0, Rests DEF NoteActivity, InvSettling, MainTyped, OfferType
  <2>3. InvOffered'
    BY <1>1, <1>0, Rests DEF TakeInput, NoteActivity, InvOffered, MainTyped, OfferType
  <2>4. InvOffer'
    BY <1>1, <1>0, Rests DEF TakeInput, NoteActivity, InvOffer, Armed, MainTyped, OfferType
  <2>5. InvArmed'
    BY <1>1, <1>0, Rests DEF TakeInput, NoteActivity, InvArmed, Armed, MainTyped
  <2>6. InvQuiet'
    BY <2>0, <1>0, Rests DEF NoteActivity, InvQuiet, Armed, MainTyped, OfferType
  <2> QED
    BY <1>1, Kept, <2>1, <2>2, <2>3, <2>4, <2>5, <2>6 DEF TakeInput, DeliveryInv
<1>9. ASSUME UserInput PROVE DeliveryInv'
  BY <1>0, <1>1, <1>9 DEF UserInput, MainTyped
<1>10. ASSUME Resend PROVE DeliveryInv'
  <2>1. [main EXCEPT !.rescued = "none"] \in MainType /\ [main EXCEPT !.rescued = "none"].run = main.run
    BY <1>0 DEF MainTyped, MainType
  <2> QED
    BY <1>1, <1>10, <2>1 DEF Resend
<1>11. ASSUME Rescue PROVE DeliveryInv'
  <2>0. main'.run = main.run /\ main'.rescued = "held"
    BY <1>11, <1>0 DEF Rescue, MainTyped, MainType
  <2>1. InvSettling'
    BY <1>11, <1>0, <2>0 DEF Rescue, InvSettling
  <2>2. InvQuiet'
    BY <2>0 DEF InvQuiet, PutAside
  <2> QED
    BY <1>11, Kept, <2>1, <2>2 DEF Rescue, DeliveryInv
<1>2. ASSUME StartRun PROVE DeliveryInv'
  <2>1. InvSettling'
    BY <1>2, <1>0 DEF StartRun, InvSettling, MainTyped, MainType
  <2>2. InvOffer'
    BY <1>2, <1>0, Rests DEF StartRun, InvOffer, Armed, MainTyped
  <2>3. InvArmed'
    BY <1>2, <1>0, Rests DEF StartRun, InvArmed, Armed, MainTyped
  <2>4. InvQuiet'
    BY <1>2, <1>0, Rests DEF StartRun, InvQuiet, Armed, MainTyped, InvSettling
  <2> QED
    BY <1>2, Kept, <2>1, <2>2, <2>3, <2>4 DEF StartRun, DeliveryInv
<1>3. ASSUME TakePrompt PROVE DeliveryInv'
  <2>1. InvSettling'
    BY <1>3, <1>0 DEF TakePrompt, InvSettling, MainTyped, MainType
  <2>2. PutAside => PutAside'
    BY <1>3, <1>0 DEF TakePrompt, PutAside, MainTyped, MainType
  <2> QED
    BY <1>3, Kept, <2>1, <2>2 DEF TakePrompt, DeliveryInv
<1>4. ASSUME NEW q \in queue, TakeFollowUp(q) PROVE DeliveryInv'
  <2>0. /\ q[1] \in Reports /\ main.run = "running" /\ queue' = queue \ {q} /\ copies'[q[1]] > 0
        /\ flight[q[1]].at = "sent" /\ flight'[q[1]].at = "received"
        /\ \A x \in Reports : x # q[1] => flight'[x] = flight[x] /\ copies'[x] = copies[x]
        /\ UNCHANGED <<report, task, notices, gone, withdrawn, reverts, boundary, phase, main, yield>>
    <3>1. q[1] \in Reports /\ flight[q[1]].at = "sent"
      BY <1>4, <1>0 DEF InvQueue
    <3>2. flight[q[1]] \in FlightType /\ copies[q[1]] \in 0..2
      BY <1>0, <3>1
    <3> QED
      BY <1>4, <1>0, <3>1, <3>2 DEF TakeFollowUp, Shown, FlightType
  <2>1. InvFrozen'
    BY <2>0, <1>0, Rests DEF InvFrozen
  <2>2. InvTaken'
    BY <2>0, <1>0, Rests DEF InvTaken, Taken
  <2>3. InvQueue'
    BY <2>0, <1>0, Rests DEF InvQueue
  <2>4. InvSent'
    BY <2>0, <1>0, Rests DEF InvSent
  <2>5. InvOffered'
    BY <2>0, <1>0 DEF InvOffered
  <2>6. InvOffer'
    BY <2>0, <1>0 DEF InvOffer, Armed, InvSettling
  <2>7. InvArmed'
    BY <2>0, <1>0 DEF InvArmed, Armed, InvTaken, Taken
  <2> QED
    BY <1>4, Kept, <2>1, <2>2, <2>3, <2>4, <2>5, <2>6, <2>7 DEF TakeFollowUp, DeliveryInv
<1>5. ASSUME ToolUse PROVE DeliveryInv'
  <2>1. InvFrozen'
    BY <1>5, <1>0, Rests DEF ToolUse, NoteActivity, InvFrozen, MainTyped, OfferType
  <2>2. InvSettling'
    BY <1>5, <1>0, Rests DEF ToolUse, NoteActivity, InvSettling, MainTyped, OfferType
  <2>3. InvOffered'
    BY <1>5, <1>0, Rests DEF ToolUse, NoteActivity, InvOffered, MainTyped, OfferType
  <2>4. InvOffer'
    BY <1>5, <1>0, Rests DEF ToolUse, NoteActivity, InvOffer, Armed, MainTyped, OfferType
  <2>5. InvArmed'
    BY <1>5, <1>0, Rests DEF ToolUse, NoteActivity, InvArmed, Armed, MainTyped
  <2>6. InvQuiet'
    BY <1>5, <1>0, Rests DEF ToolUse, NoteActivity, InvQuiet, Armed, MainTyped, OfferType
  <2> QED
    BY <1>5, Kept, <2>1, <2>2, <2>3, <2>4, <2>5, <2>6 DEF ToolUse, DeliveryInv
<1>6. ASSUME YieldCall PROVE DeliveryInv'
  <2>1. InvSettling'
    BY <1>6, <1>0 DEF YieldCall, InvSettling
  <2>2. InvQuiet'
    BY <1>6, <1>0 DEF YieldCall, InvQuiet, Armed
  <2> QED
    BY <1>6, Kept, <2>1, <2>2 DEF YieldCall, DeliveryInv
<1>7. ASSUME YieldMain PROVE DeliveryInv'
  <2>0. /\ yield # "none" /\ yield' = "none"
        /\ UNCHANGED <<report, task, copies, queue, flight, gone, withdrawn, reverts, boundary, main, navigated, disturbed,
                       deciding>>
        /\ \A x \in Reports : /\ notices'[x].observed = notices[x].observed /\ notices'[x].current = notices[x].current
                              /\ x \notin Retrievable => notices'[x] = notices[x]
                              /\ x \in Retrievable => \/ notices'[x] = notices[x]
                                                      \/ /\ notices'[x].status = "offered"
                                                         /\ notices'[x].channel = "tool-result"
        /\ \/ UNCHANGED phase /\ UNCHANGED notices
           \/ /\ phase'.status = "yielded" /\ phase'.quiet = (yield = "quiet")
              /\ phase'.armed = (Retrievable = {})
    <3>1. \A x \in Reports : notices[x] \in NoticeType
      BY <1>0
    <3>2. CASE Cardinality(Retrievable) > 1
      BY <1>7, <1>0, <3>2 DEF YieldMain
    <3>3. CASE ~(Cardinality(Retrievable) > 1)
      <4>1. \A x \in Reports : x \in Retrievable =>
              /\ [notices[x] EXCEPT !.status = "offered", !.channel = "tool-result"].observed = notices[x].observed
              /\ [notices[x] EXCEPT !.status = "offered", !.channel = "tool-result"].current = notices[x].current
              /\ [notices[x] EXCEPT !.status = "offered", !.channel = "tool-result"].status = "offered"
              /\ [notices[x] EXCEPT !.status = "offered", !.channel = "tool-result"].channel = "tool-result"
        BY <3>1 DEF NoticeType
      <4>2. /\ notices' = [r \in Reports |-> IF r \in Retrievable
                 THEN [notices[r] EXCEPT !.status = "offered", !.channel = "tool-result"] ELSE notices[r]]
            /\ phase' = [status |-> "yielded", armed |-> Retrievable = {}, quiet |-> yield = "quiet",
                         here |-> TRUE]
            /\ yield # "none" /\ yield' = "none"
            /\ UNCHANGED <<report, task, copies, queue, flight, gone, withdrawn, reverts, boundary, main, navigated, disturbed,
                           deciding>>
        BY <1>7, <3>3 DEF YieldMain
      <4>3. /\ phase'.status = "yielded" /\ phase'.quiet = (yield = "quiet") /\ phase'.armed = (Retrievable = {})
        BY <4>2
      <4>4. \A x \in Reports : /\ notices'[x].observed = notices[x].observed
                               /\ notices'[x].current = notices[x].current
                               /\ x \notin Retrievable => notices'[x] = notices[x]
                               /\ x \in Retrievable =>
                                    notices'[x].status = "offered" /\ notices'[x].channel = "tool-result"
        BY <4>1, <4>2
      <4> QED
        BY <4>2, <4>3, <4>4
    <3> QED
      BY <3>2, <3>3
  <2>1. OneUnresolved'
    BY <2>0, <1>0, SelectedAre DEF OneUnresolved, Unresolved
  <2>2. InvFrozen'
    BY <2>0, <1>0, SelectedAre DEF InvFrozen
  <2>3. InvSettling'
    BY <2>0, <1>0, SelectedAre DEF InvSettling
  <2>4. InvTaken'
    BY <2>0, <1>0, SelectedAre DEF InvTaken, Taken
  <2>5. InvOffered'
    BY <2>0, <1>0, SelectedAre DEF InvOffered
  <2>6. InvOffer'
    BY <2>0, <1>0, Rests, SelectedAre DEF InvOffer, Armed, InvSettling
  <2>7. InvArmed'
    BY <2>0, <1>0, Rests, SelectedAre DEF InvArmed, Armed
  <2>8. InvQuiet'
    BY <2>0, <1>0, Rests DEF InvQuiet, Armed, PutAside
  <2>9. InvBranch'
    BY <2>0, <1>0 DEF InvBranch
  <2> QED
    BY <1>7, Kept, <2>1, <2>2, <2>3, <2>4, <2>5, <2>6, <2>7, <2>8, <2>9 DEF YieldMain, DeliveryInv
<1>8. ASSUME NEW o \in Outcomes, Settle(o) PROVE DeliveryInv'
  <2>0. /\ main.run = "running" /\ yield = "none" /\ boundary.at = "none"
        /\ UNCHANGED <<report, task, notices, copies, queue, flight, gone, withdrawn, reverts, yield, phase>>
        /\ disturbed' = (disturbed \/ ~Armed) /\ Armed' = Armed /\ main'.rescued = main.rescued
        /\ \/ /\ main'.run = "settling" /\ report # 0 /\ boundary'.at = "offering" /\ boundary'.armed = Armed
           \/ main'.run = "ended" /\ UNCHANGED boundary
    <3>1. main \in MainType /\ boundary.at = "none"
      BY <1>8, <1>0 DEF MainTyped, Settle, InvSettling
    <3>2. Offerable # {} => report # 0
      BY <1>0, SelectedAre DEF OneUnresolved, Reports
    <3>3. \A x \in {"settling", "ended"} : /\ [main EXCEPT !.run = x, !.outcome = o].run = x
                                          /\ [main EXCEPT !.run = x, !.outcome = o].rescued = main.rescued
      BY <3>1 DEF MainType
    <3>4. Armed' = Armed
      BY <1>8 DEF Settle, Armed
    <3>7. /\ main.run = "running" /\ yield = "none" /\ disturbed' = (disturbed \/ ~Armed)
          /\ UNCHANGED <<report, task, notices, copies, queue, flight, gone, withdrawn, reverts, yield, phase>>
      BY <1>8 DEF Settle
    <3>5. CASE o = "completed" /\ (Armed \/ auto) /\ Offerable # {} /\ InputClear
      <4>1. /\ main' = [main EXCEPT !.run = "settling", !.outcome = o] /\ report # 0
            /\ boundary' = [at |-> "offering", armed |-> Armed, quiet |-> TRUE, same |-> TRUE]
        BY <1>8, <3>2, <3>5 DEF Settle
      <4>2. /\ main'.run = "settling" /\ boundary'.at = "offering" /\ boundary'.armed = Armed
            /\ main'.rescued = main.rescued
        BY <3>3, <4>1
      <4> QED
        BY <3>1, <3>4, <3>7, <4>1, <4>2
    <3>6. CASE ~(o = "completed" /\ (Armed \/ auto) /\ Offerable # {} /\ InputClear)
      <4>1. main' = [main EXCEPT !.run = "ended", !.outcome = o] /\ UNCHANGED boundary
        BY <1>8, <3>6 DEF Settle
      <4> QED
        BY <3>1, <3>3, <3>4, <3>7, <4>1
    <3> QED
      BY <3>1, <3>4, <3>5, <3>6, <3>7
  <2>1. InvFrozen'
    BY <2>0, <1>0, Rests DEF InvFrozen
  <2>2. InvSettling'
    BY <2>0, <1>0, Rests DEF InvSettling
  <2>3. InvOffered'
    BY <2>0, <1>0, Rests DEF InvOffered
  <2>4. InvOffer'
    BY <2>0, <1>0, Rests DEF InvOffer, Armed
  <2>5. InvQuiet'
    BY <2>0, <1>0, Rests DEF InvQuiet, Armed, PutAside
  <2> QED
    BY <1>8, Kept, <2>1, <2>2, <2>3, <2>4, <2>5 DEF Settle, DeliveryInv
<1> QED
  BY <1>2, <1>3, <1>4, <1>5, <1>6, <1>7, <1>8, <1>9, <1>10, <1>11

\* So do the offer of a report to a run that ends, and what follows it.
LEMMA OfferKeeps ==
  ASSUME Typed, DeliveryInv
  PROVE (\/ Offer
          \/ EndOffer
          \/ Continue
          \/ Settled
          \/ SettleClaim
          \/ SettleRevoked
          \/ CompactStart
          \/ CompactEnd
          \/ (\E kept \in SUBSET Reports : BranchChange(kept))) => DeliveryInv'
<1>0. KeptTyped /\ MainTyped /\ OneUnresolved /\ InvFrozen /\ InvSettling /\ InvTaken /\ InvQueue /\ InvSent
      /\ InvOffered /\ InvOffer /\ InvArmed /\ InvQuiet /\ InvBranch
  BY DEF Typed, DeliveryInv
<1> USE DEF KeptTyped, mem, sides, hist
<1>1. ASSUME Offer PROVE DeliveryInv'
  <2>0. /\ boundary.at = "offering" /\ main.run = "settling" /\ main'.rescued = main.rescued
        /\ UNCHANGED <<report, task, copies, queue, flight, gone, withdrawn, reverts, yield, navigated, disturbed, deciding>>
        /\ \A x \in Reports : /\ notices'[x].observed = notices[x].observed /\ notices'[x].current = notices[x].current
                              /\ x \notin BoundaryReady => notices'[x] = notices[x]
                              /\ x \in BoundaryReady => \/ notices'[x] = notices[x]
                                                        \/ /\ notices'[x].status = "offered"
                                                           /\ notices'[x].channel = "boundary"
        /\ \/ UNCHANGED <<notices, phase>> /\ boundary' = NoOffer /\ main'.run = "ended"
           \/ /\ BoundaryReady # {} /\ phase' = (IF boundary.armed THEN OpenPhase ELSE phase)
              /\ \/ Drafted = {} /\ boundary' = NoOffer /\ main'.run = "ended"
                 \/ /\ Drafted # {} /\ boundary'.at = "offered" /\ boundary'.armed = boundary.armed
                    /\ main'.run = main.run
    <3>1. /\ \A x \in Reports : notices[x] \in NoticeType
          /\ main.run = "settling" /\ main \in MainType /\ boundary \in OfferType
      BY <1>1, <1>0 DEF MainTyped, Offer, InvSettling
    <3>2. Drafted # {} => BoundaryReady # {}
      BY SelectedAre
    <3>6. /\ boundary.at = "offering" /\ main.run = "settling" /\ main'.rescued = main.rescued
          /\ UNCHANGED <<report, task, copies, queue, flight, gone, withdrawn, reverts, yield, navigated, disturbed, deciding>>
      BY <1>1, <3>1 DEF Offer, MainType
    <3>7. ASSUME notices' = [r \in Reports |-> IF r \in BoundaryReady
                   THEN [notices[r] EXCEPT !.status = "offered", !.channel = "boundary"] ELSE notices[r]]
          PROVE  \A x \in Reports : /\ notices'[x].observed = notices[x].observed
                                    /\ notices'[x].current = notices[x].current
                                    /\ x \notin BoundaryReady => notices'[x] = notices[x]
                                    /\ x \in BoundaryReady => /\ notices'[x].status = "offered"
                                                              /\ notices'[x].channel = "boundary"
      BY <3>1, <3>7 DEF NoticeType
    <3>3. CASE BoundaryReady = {} \/ Cardinality(Retrievable) > 1
      BY <1>1, <1>0, <3>1, <3>2, <3>3 DEF Offer, MainType
    <3>4. CASE ~(BoundaryReady = {} \/ Cardinality(Retrievable) > 1) /\ Drafted = {}
      <4>1. /\ notices' = [r \in Reports |-> IF r \in BoundaryReady
                 THEN [notices[r] EXCEPT !.status = "offered", !.channel = "boundary"] ELSE notices[r]]
            /\ phase' = (IF boundary.armed THEN OpenPhase ELSE phase)
            /\ boundary' = NoOffer /\ main' = [main EXCEPT !.run = "ended"] /\ BoundaryReady # {}
        BY <1>1, <3>4 DEF Offer
      <4>2. main'.run = "ended"
        BY <3>1, <4>1 DEF MainType
      <4> QED
        BY <3>4, <3>6, <3>7, <4>1, <4>2
    <3>5. CASE ~(BoundaryReady = {} \/ Cardinality(Retrievable) > 1) /\ Drafted # {}
      <4>1. /\ notices' = [r \in Reports |-> IF r \in BoundaryReady
                 THEN [notices[r] EXCEPT !.status = "offered", !.channel = "boundary"] ELSE notices[r]]
            /\ phase' = (IF boundary.armed THEN OpenPhase ELSE phase)
            /\ boundary' = [boundary EXCEPT !.at = "offered", !.quiet = TRUE, !.same = TRUE]
            /\ main' = main /\ BoundaryReady # {}
        BY <1>1, <3>2, <3>5 DEF Offer
      <4>2. boundary'.at = "offered" /\ boundary'.armed = boundary.armed
        BY <3>1, <4>1 DEF OfferType
      <4> QED
        BY <3>5, <3>6, <3>7, <4>1, <4>2
    <3> QED
      BY <3>3, <3>4, <3>5
  <2>a. \A x \in BoundaryReady : /\ x \in Reports /\ x = report /\ notices[x].status = "pending" /\ ~notices[x].observed
                                 /\ boundary.armed => Armed /\ phase.quiet /\ boundary.quiet /\ boundary.same
    BY <1>0, SelectedAre DEF BoundaryReady, OneUnresolved
  <2>b. \A x \in Drafted : x \in BoundaryReady /\ (copies[x] = 0 \/ (boundary.armed /\ x \in withdrawn))
    <3>1. \A x \in Reports : copies[x] \in 0..2
      BY <1>0
    <3> QED
      BY <1>0, <2>a, <3>1, SelectedAre DEF InvArmed
  <2>c. \A x \in BoundaryReady \ Drafted : copies[x] > 0
    BY <1>0, <2>a, SelectedAre
  <2>1. OneUnresolved'
    BY <2>0, <1>0, SelectedAre, <2>a, <2>b, <2>c DEF OneUnresolved, Unresolved
  <2>2. InvFrozen'
    BY <2>0, <1>0, Rests, SelectedAre, <2>a, <2>b, <2>c DEF InvFrozen
  <2>3. InvSettling'
    BY <2>0, <1>0, Rests, SelectedAre, <2>a, <2>b, <2>c DEF InvSettling
  <2>4. InvTaken'
    BY <2>0, <1>0, SelectedAre, <2>a, <2>b, <2>c DEF InvTaken, Taken
  <2>5. InvOffered'
    BY <2>0, <1>0, Rests, SelectedAre, <2>a, <2>b, <2>c DEF InvOffered
  <2>6. InvOffer'
    BY <2>0, <1>0, Rests, SelectedAre, <2>a, <2>b, <2>c DEF InvOffer, Armed
  <2>7. InvArmed'
    BY <2>0, <1>0, Rests, SelectedAre, <2>a, <2>b, <2>c DEF InvArmed, Armed, InvOffer
  <2>8. InvQuiet'
    BY <2>0, <1>0, Rests, SelectedAre, <2>a, <2>b, <2>c DEF InvQuiet, Armed, PutAside
  <2>9. InvBranch'
    BY <2>0, <1>0, SelectedAre, <2>a, <2>b, <2>c DEF InvBranch
  <2> QED
    BY <1>1, Kept, <2>1, <2>2, <2>3, <2>4, <2>5, <2>6, <2>7, <2>8, <2>9 DEF Offer, DeliveryInv
<1>2. ASSUME EndOffer PROVE DeliveryInv'
  <2>0. /\ boundary.at = "offered" /\ boundary' = NoOffer /\ main.run = "settling" /\ report \in Reports
        /\ main'.rescued = main.rescued
        /\ UNCHANGED <<report, task, notices, queue, flight, gone, withdrawn, phase, yield, disturbed>>
        /\ \A x \in Reports : x # report => copies'[x] = copies[x]
        /\ \/ copies'[report] > 0 /\ notices[report].status = "offered" /\ main'.run = "running" /\ UNCHANGED reverts
           \/ reverts' = reverts \cup {report} /\ UNCHANGED copies /\ main'.run = "ended"
    <3>1. main.run = "settling" /\ main \in MainType /\ report \in Reports /\ boundary.at = "offered"
      BY <1>2, <1>0 DEF MainTyped, EndOffer, InvSettling, InvFrozen, Reports
    <3>2. copies[report] \in 0..2
      BY <1>0, <3>1
    <3> QED
      BY <1>2, <1>0, <3>1, <3>2 DEF EndOffer, Shown, OfferCurrent, Standing, MainType
  <2>1. InvFrozen'
    BY <2>0, <1>0, Rests DEF InvFrozen
  <2>2. InvSettling'
    BY <2>0, <1>0, Rests DEF InvSettling
  <2>3. InvSent'
    BY <2>0, <1>0 DEF InvSent, InvTaken, Taken
  <2>4. InvOffered'
    BY <2>0, <1>0, Rests DEF InvOffered
  <2>5. InvOffer'
    BY <2>0, <1>0, Rests DEF InvOffer, Armed
  <2>6. InvArmed'
    BY <2>0, <1>0 DEF InvArmed, Armed
  <2>7. InvQuiet'
    BY <2>0, <1>0, Rests DEF InvQuiet, Armed, PutAside
  <2> QED
    BY <1>2, Kept, <2>1, <2>2, <2>3, <2>4, <2>5, <2>6, <2>7 DEF EndOffer, DeliveryInv
<1>3. ASSUME Continue PROVE DeliveryInv'
  <2>1. InvSettling'
    BY <1>3, <1>0 DEF Continue, InvSettling, MainTyped, MainType
  <2>2. PutAside => PutAside'
    BY <1>3, <1>0 DEF Continue, PutAside, MainTyped, MainType
  <2> QED
    BY <1>3, Kept, <2>1, <2>2 DEF Continue, DeliveryInv
<1>4. ASSUME Settled PROVE DeliveryInv'
  <2>1. InvSettling'
    BY <1>4, <1>0 DEF Settled, CheckIdle, InvSettling, MainTyped, MainType
  <2>2. InvQueue'
    BY <1>4, <1>0 DEF Settled, CheckIdle, InvQueue
  <2>3. PutAside => PutAside'
    BY <1>4, <1>0 DEF Settled, CheckIdle, PutAside, MainTyped, MainType
  <2> QED
    BY <1>4, Kept, <2>1, <2>2, <2>3 DEF Settled, DeliveryInv
<1>5. ASSUME SettleClaim PROVE DeliveryInv'
  <2>0. /\ main'.run = main.run /\ main'.rescued = main.rescued
        /\ UNCHANGED <<report, task, copies, queue, gone, withdrawn, reverts, boundary, phase, yield, navigated, disturbed,
                       deciding>>
        /\ \/ UNCHANGED <<notices, flight>>
           \/ \E r \in AutoEligible :
                /\ \A x \in Reports : x # r => notices'[x] = notices[x] /\ flight'[x] = flight[x]
                /\ r \in Reports /\ r = report /\ notices[r].status = "pending" /\ ~notices[r].observed
                /\ notices'[r].observed = notices[r].observed /\ notices'[r].current = notices[r].current
                /\ \/ /\ copies[r] > 0 /\ notices'[r].status = "offered" /\ notices'[r].channel = "auto"
                      /\ UNCHANGED flight
                   \/ /\ copies[r] = 0 /\ notices'[r].status = "delivery_pending"
                      /\ flight'[r].at = "claimed" /\ flight'[r].via = "settled"
    <3>1. main'.run = main.run /\ main'.rescued = main.rescued
      BY <1>5, <1>0 DEF SettleClaim, CheckIdle, MainTyped, MainType
    <3>2. CASE UNCHANGED <<notices, flight>>
      BY <1>5, <1>0, <3>1, <3>2 DEF SettleClaim
    <3>3. ASSUME NEW r \in AutoEligible,
                 IF AlreadyThere(r, "settled")
                 THEN notices' = Offered(r, "auto") /\ UNCHANGED flight
                 ELSE /\ notices' = [notices EXCEPT ![r].status = "delivery_pending"]
                      /\ flight' = [flight EXCEPT ![r] = [at |-> "claimed", via |-> "settled", current |-> TRUE]]
          PROVE  /\ \A x \in Reports : x # r => notices'[x] = notices[x] /\ flight'[x] = flight[x]
                 /\ r \in Reports /\ r = report /\ notices[r].status = "pending" /\ ~notices[r].observed
                 /\ notices'[r].observed = notices[r].observed /\ notices'[r].current = notices[r].current
                 /\ \/ /\ copies[r] > 0 /\ notices'[r].status = "offered" /\ notices'[r].channel = "auto"
                       /\ UNCHANGED flight
                    \/ /\ copies[r] = 0 /\ notices'[r].status = "delivery_pending"
                       /\ flight'[r].at = "claimed" /\ flight'[r].via = "settled"
      <4>1. r \in Reports /\ r = report /\ notices[r].status = "pending" /\ ~notices[r].observed
        BY <1>0, SelectedAre
      <4>2. notices[r] \in NoticeType /\ copies[r] \in 0..2
        BY <1>0, <4>1
      <4> QED
        BY <1>0, <3>3, <4>1, <4>2 DEF AlreadyThere, Offered, NoticeType
    <3>4. UNCHANGED <<report, task, copies, queue, gone, withdrawn, reverts, boundary, phase, yield, navigated, disturbed,
                       deciding>>
      BY <1>5 DEF SettleClaim
    <3> QED
      BY <1>5, <3>1, <3>2, <3>3, <3>4 DEF SettleClaim
  <2>1. OneUnresolved'
    BY <2>0, <1>0 DEF OneUnresolved, Unresolved
  <2>2. InvFrozen'
    BY <2>0, <1>0, Rests DEF InvFrozen
  <2>3. InvSettling'
    BY <2>0, <1>0 DEF InvSettling
  <2>4. InvTaken'
    BY <2>0, <1>0, Rests DEF InvTaken, Taken
  <2>5. InvQueue'
    BY <2>0, <1>0, Rests DEF InvQueue, InvTaken, Taken
  <2>6. InvSent'
    BY <2>0, <1>0, Rests DEF InvSent
  <2>7. InvOffered'
    BY <2>0, <1>0 DEF InvOffered
  <2>8. InvArmed'
    BY <2>0, <1>0 DEF InvArmed, Armed
  <2>9. InvBranch'
    BY <2>0, <1>0 DEF InvBranch
  <2>10. PutAside => PutAside'
    BY <2>0 DEF PutAside
  <2> QED
    BY <1>5, Kept, <2>10, <2>1, <2>2, <2>3, <2>4, <2>5, <2>6, <2>7, <2>8, <2>9 DEF SettleClaim, DeliveryInv
<1>6. ASSUME CompactStart PROVE DeliveryInv'
  <2>1. InvSettling'
    BY <1>6, <1>0 DEF CompactStart, Event, InvSettling, MainTyped, MainType
  <2>2. PutAside => PutAside'
    BY <1>6, <1>0 DEF CompactStart, PutAside, MainTyped, MainType
  <2> QED
    BY <1>6, Kept, <2>1, <2>2 DEF CompactStart, DeliveryInv
<1>7. ASSUME CompactEnd PROVE DeliveryInv'
  <2>1. InvSettling'
    BY <1>7, <1>0 DEF CompactEnd, InvSettling, MainTyped, MainType
  <2>2. PutAside => PutAside'
    BY <1>7, <1>0 DEF CompactEnd, PutAside, MainTyped, MainType
  <2> QED
    BY <1>7, Kept, <2>1, <2>2 DEF CompactEnd, DeliveryInv
<1>8. ASSUME NEW kept \in SUBSET Reports, BranchChange(kept) PROVE DeliveryInv'
  <2>0. /\ UNCHANGED <<report, task, flight, queue, main, reverts, withdrawn>> /\ navigated' = TRUE /\ disturbed' = TRUE
        /\ \A x \in Reports : /\ notices'[x].status = notices[x].status /\ notices'[x].channel = notices[x].channel
                              /\ notices'[x].observed = notices[x].observed /\ ~notices'[x].current
                              /\ \/ copies'[x] = copies[x] /\ (x \in gone' <=> x \in gone)
                                 \/ copies'[x] = 0 /\ x \in gone'
        /\ \A x \in Reports : x \in gone => x \in gone'
        /\ phase' = OpenPhase /\ boundary'.at = boundary.at /\ boundary'.armed = boundary.armed
        /\ boundary'.quiet => boundary'.at = "none" /\ boundary' = boundary
        /\ yield' = (IF yield = "none" THEN "none" ELSE "noisy")
        /\ deciding'.at = deciding.at /\ ~deciding'.current
    <3>1. /\ boundary \in OfferType /\ deciding \in DecidingType /\ \A x \in Reports : notices[x] \in NoticeType
      BY <1>0 DEF MainTyped
    <3>2. \A x \in Reports : /\ notices'[x].status = notices[x].status /\ notices'[x].channel = notices[x].channel
                             /\ notices'[x].observed = notices[x].observed /\ ~notices'[x].current
      BY <1>8, <3>1 DEF BranchChange, NoticeType
    <3>3. /\ deciding'.at = deciding.at /\ ~deciding'.current
      BY <1>8, <3>1 DEF BranchChange, DecidingType
    <3>4. /\ boundary'.at = boundary.at /\ boundary'.armed = boundary.armed
          /\ boundary'.quiet => boundary'.at = "none" /\ boundary' = boundary
      BY <1>8, <3>1 DEF BranchChange, NoteActivity, OfferType
    <3>5. /\ UNCHANGED <<report, task, flight, queue, main, reverts, withdrawn>> /\ navigated' = TRUE /\ disturbed' = TRUE
          /\ phase' = OpenPhase /\ yield' = (IF yield = "none" THEN "none" ELSE "noisy")
          /\ copies' = [x \in Reports |-> IF x \in kept THEN copies[x] ELSE 0]
          /\ gone' = gone \cup (Reports \ kept)
      BY <1>8 DEF BranchChange, NoteActivity
    <3> QED
      BY <3>2, <3>3, <3>4, <3>5
  <2>a. boundary.at # "none" => report \in Reports
    BY <1>0, DeliveryAssumption DEF InvFrozen, Reports
  <2>1. OneUnresolved'
    BY <2>0, <1>0 DEF OneUnresolved, Unresolved
  <2>2. InvFrozen'
    BY <2>0, <1>0, Rests DEF InvFrozen
  <2>3. InvSettling'
    BY <2>0, <1>0, Rests DEF InvSettling
  <2>4. InvTaken'
    BY <2>0, <1>0 DEF InvTaken, Taken
  <2>5. InvSent'
    BY <2>0, <1>0 DEF InvSent
  <2>6. InvOffered'
    BY <2>0, <1>0, Rests DEF InvOffered
  <2>7. InvOffer'
    BY <2>0, <1>0, Rests, <2>a DEF InvOffer, Armed
  <2>8. InvArmed'
    BY <2>0, <1>0, Rests DEF InvArmed, Armed
  <2>9. InvQuiet'
    BY <2>0, <1>0, Rests DEF InvQuiet, Armed
  <2>10. InvBranch'
    BY <2>0, <1>0, Rests DEF InvBranch
  <2> QED
    BY <1>8, Kept, <2>1, <2>2, <2>3, <2>4, <2>5, <2>6, <2>7, <2>8, <2>9, <2>10 DEF BranchChange, DeliveryInv
<1>9. ASSUME SettleRevoked PROVE DeliveryInv'
  <2>0. /\ UNCHANGED <<report, task, notices, queue, copies, gone, boundary>>
        /\ \A x \in Reports : /\ flight'[x].at = flight[x].at /\ flight'[x].via = flight[x].via
                              /\ flight[x] = NoFlight => flight'[x] = NoFlight
    BY <1>9, <1>0, RevokedAre DEF SettleRevoked
  <2>1. InvFrozen'
    BY <2>0, <1>0, Rests DEF InvFrozen
  <2>2. InvTaken'
    BY <2>0, <1>0, Rests DEF InvTaken, Taken
  <2>3. InvQueue'
    BY <2>0, <1>0, Rests DEF InvQueue
  <2>4. InvSent'
    BY <2>0, <1>0, Rests DEF InvSent
  <2> QED
    BY <1>9, Kept, <2>1, <2>2, <2>3, <2>4 DEF SettleRevoked, DeliveryInv
<1> QED
  BY <1>1, <1>2, <1>3, <1>4, <1>5, <1>6, <1>7, <1>8, <1>9

\* So do Main's decision, the human and a restart.
LEMMA DecisionKeeps ==
  ASSUME Typed, DeliveryInv
  PROVE (\/ Inspect
          \/ Decide
          \/ (\E next \in {"activating", "done"} : Decided(next))
          \/ Activated
          \/ Resume
          \/ Pause
          \/ Restore
          \/ Cancel
          \/ YieldManual
          \/ Restart) => DeliveryInv'
<1>0. KeptTyped /\ MainTyped /\ OneUnresolved /\ InvFrozen /\ InvSettling /\ InvTaken /\ InvQueue /\ InvSent
      /\ InvOffered /\ InvOffer /\ InvArmed /\ InvQuiet /\ InvBranch
  BY DEF Typed, DeliveryInv
<1> USE DEF KeptTyped, mem, sides, hist
<1>1. ASSUME Inspect PROVE DeliveryInv'
  <2>1. OneUnresolved'
    BY <1>1, <1>0 DEF Inspect, OneUnresolved, Unresolved, NoticeType
  <2>2. InvFrozen'
    BY <1>1, <1>0 DEF Inspect, InvFrozen, NoticeType
  <2>3. InvTaken'
    BY <1>1, <1>0 DEF Inspect, InvTaken, Taken, NoticeType
  <2>4. InvOffered'
    BY <1>1, <1>0 DEF Inspect, InvOffered, NoticeType
  <2>5. InvArmed'
    BY <1>1, <1>0 DEF Inspect, InvArmed, Armed, NoticeType
  <2>6. InvBranch'
    BY <1>1, <1>0 DEF Inspect, InvBranch, NoticeType
  <2> QED
    BY <1>1, Kept, <2>1, <2>2, <2>3, <2>4, <2>5, <2>6 DEF Inspect, DeliveryInv
<1>2. ASSUME Decide PROVE DeliveryInv'
  <2>1. InvBranch'
    BY <1>2, <1>0, Rests, DeliveryAssumption DEF Decide, InvBranch, MainTyped, InvFrozen, Reports,
       DecidingType
  <2> QED
    BY <1>2, Kept, <2>1 DEF Decide, DeliveryInv
<1>3. ASSUME NEW next \in {"activating", "done"}, Decided(next) PROVE DeliveryInv'
  <2>0. \/ UNCHANGED <<task, notices, phase, boundary, flight, report, main, yield, queue, copies, gone, withdrawn, reverts>>
             /\ deciding' = NotDeciding /\ UNCHANGED <<disturbed, navigated>>
        \/ /\ UNCHANGED <<report, main, yield, queue, copies, gone, withdrawn, reverts, disturbed, navigated>>
           /\ report \in Reports /\ task' = next /\ phase' = OpenPhase
           /\ notices'[report].status = "resolved" /\ notices'[report].current = notices[report].current
           /\ \A x \in Reports : x # report => notices'[x] = notices[x]
           /\ boundary'.at = boundary.at /\ boundary'.armed = boundary.armed
           /\ boundary' = boundary \/ (boundary.at # "none" /\ ~boundary'.same)
           /\ \A x \in Reports : /\ flight'[x].at = flight[x].at /\ flight'[x].via = flight[x].via
                                 /\ flight[x] = NoFlight => flight'[x] = NoFlight
           /\ deciding' = NotDeciding \/ (deciding.at # "none" /\ deciding'.current = deciding.current)
    <3>1. /\ boundary \in OfferType /\ deciding \in DecidingType /\ \A x \in Reports : notices[x] \in NoticeType
      BY <1>0 DEF MainTyped
    <3>2. CASE ~DecisionHolds
      BY <1>3, <3>2 DEF Decided
    <3>3. CASE DecisionHolds
      <4>1. report \in Reports
        BY <1>0, <3>3, DeliveryAssumption DEF DecisionHolds, InvFrozen, Reports
      <4>2. /\ notices'[report].status = "resolved" /\ notices'[report].current = notices[report].current
            /\ \A x \in Reports : x # report => notices'[x] = notices[x]
        BY <1>3, <1>0, <3>1, <3>3, <4>1 DEF Decided, Resolved, NoticeType
      <4>3. /\ boundary'.at = boundary.at /\ boundary'.armed = boundary.armed
            /\ boundary' = boundary \/ (boundary.at # "none" /\ ~boundary'.same)
        BY <1>3, <3>1, <3>3 DEF Decided, Reopen, OfferType
      <4>4. \A x \in Reports : /\ flight'[x].at = flight[x].at /\ flight'[x].via = flight[x].via
                               /\ flight[x] = NoFlight => flight'[x] = NoFlight
        BY <1>3, <1>0, <3>3, RevokedAre DEF Decided
      <4>5. deciding' = NotDeciding \/ (deciding.at # "none" /\ deciding'.current = deciding.current)
        BY <1>3, <3>1, <3>3 DEF Decided, DecidingType
      <4>6. /\ UNCHANGED <<report, main, yield, queue, copies, gone, withdrawn, reverts, disturbed, navigated>>
            /\ task' = next /\ phase' = OpenPhase
        BY <1>3, <3>3 DEF Decided, Reopen
      <4> QED
        BY <4>1, <4>2, <4>3, <4>4, <4>5, <4>6
    <3> QED
      BY <3>2, <3>3
  <2>1. OneUnresolved'
    BY <2>0, <1>0 DEF OneUnresolved, Unresolved
  <2>2. InvFrozen'
    BY <2>0, <1>0, Rests DEF InvFrozen
  <2>3. InvSettling'
    BY <2>0, <1>0, Rests DEF InvSettling
  <2>4. InvTaken'
    BY <2>0, <1>0, Rests DEF InvTaken, Taken
  <2>5. InvQueue'
    BY <2>0, <1>0, Rests DEF InvQueue
  <2>6. InvSent'
    BY <2>0, <1>0, Rests DEF InvSent
  <2>7. InvOffered'
    BY <2>0, <1>0, Rests DEF InvOffered
  <2>8. InvOffer'
    BY <2>0, <1>0, Rests DEF InvOffer, Armed
  <2>9. InvArmed'
    BY <2>0, <1>0, Rests DEF InvArmed, Armed
  <2>10. InvQuiet'
    BY <2>0, <1>0, Rests DEF InvQuiet, Armed, PutAside
  <2>11. InvBranch'
    BY <2>0, <1>0, Rests DEF InvBranch
  <2> QED
    BY <1>3, Kept, <2>1, <2>2, <2>3, <2>4, <2>5, <2>6, <2>7, <2>8, <2>9, <2>10, <2>11 DEF Decided, DeliveryInv
<1>4. ASSUME Activated PROVE DeliveryInv'
  <2>1. OneUnresolved'
    BY <1>4, <1>0 DEF Activated, OneUnresolved, Unresolved
  <2>2. InvFrozen'
    BY <1>4, <1>0 DEF Activated, InvFrozen
  <2>3. InvBranch'
    BY <1>4, <1>0, Rests DEF Activated, InvBranch, MainTyped
  <2> QED
    BY <1>4, Kept, <2>1, <2>2, <2>3 DEF Activated, DeliveryInv
<1>5. ASSUME Resume PROVE DeliveryInv'
  <2>1. OneUnresolved'
    BY <1>5, <1>0 DEF Resume, OneUnresolved, Unresolved
  <2>2. InvFrozen'
    BY <1>5, <1>0 DEF Resume, InvFrozen
  <2> QED
    BY <1>5, Kept, <2>1, <2>2 DEF Resume, DeliveryInv
<1>6. ASSUME Pause PROVE DeliveryInv'
  <2>0. /\ UNCHANGED <<report, notices, queue, copies, gone, withdrawn, boundary>> /\ task = "waiting" /\ task' = "paused"
        /\ \A x \in Reports : /\ flight'[x].at = flight[x].at /\ flight'[x].via = flight[x].via
                              /\ flight[x] = NoFlight => flight'[x] = NoFlight
    BY <1>6, <1>0, RevokedAre DEF Pause
  <2>1. OneUnresolved'
    BY <2>0, <1>0 DEF OneUnresolved, Unresolved
  <2>2. InvFrozen'
    BY <2>0, <1>0, Rests DEF InvFrozen
  <2>3. InvTaken'
    BY <2>0, <1>0, Rests DEF InvTaken, Taken
  <2>4. InvQueue'
    BY <2>0, <1>0, Rests DEF InvQueue
  <2>5. InvSent'
    BY <2>0, <1>0, Rests DEF InvSent
  <2> QED
    BY <1>6, Kept, <2>1, <2>2, <2>3, <2>4, <2>5 DEF Pause, DeliveryInv
<1>7. ASSUME Restore PROVE DeliveryInv'
  <2>1. OneUnresolved'
    BY <1>7, <1>0 DEF Restore, OneUnresolved, Unresolved
  <2>2. InvFrozen'
    BY <1>7, <1>0 DEF Restore, InvFrozen
  <2> QED
    BY <1>7, Kept, <2>1, <2>2 DEF Restore, DeliveryInv
<1>8. ASSUME Cancel PROVE DeliveryInv'
  <2>0. /\ UNCHANGED <<report, queue, copies, gone, withdrawn, reverts, boundary, phase, deciding, navigated>> /\ task' = "done"
        /\ \A x \in Reports : /\ flight'[x].at = flight[x].at /\ flight'[x].via = flight[x].via
                              /\ flight[x] = NoFlight => flight'[x] = NoFlight
        /\ \A x \in Reports : /\ notices'[x].current = notices[x].current
                              /\ \/ x \in Unresolved /\ notices'[x].status = "resolved"
                                 \/ x \notin Unresolved /\ notices'[x] = notices[x]
    <3>1. \A x \in Reports : notices[x] \in NoticeType
      BY <1>0
    <3>2. \A x \in Reports : /\ notices'[x].current = notices[x].current
                             /\ \/ x \in Unresolved /\ notices'[x].status = "resolved"
                                \/ x \notin Unresolved /\ notices'[x] = notices[x]
      <4>1. \A x \in Reports : /\ [notices[x] EXCEPT !.status = "resolved"].current = notices[x].current
                               /\ [notices[x] EXCEPT !.status = "resolved"].status = "resolved"
        BY <3>1 DEF NoticeType
      <4> QED
        BY <1>8, <4>1 DEF Cancel
    <3>3. \A x \in Reports : /\ flight'[x].at = flight[x].at /\ flight'[x].via = flight[x].via
                             /\ flight[x] = NoFlight => flight'[x] = NoFlight
      BY <1>8, <1>0, RevokedAre DEF Cancel
    <3> QED
      BY <1>8, <3>2, <3>3 DEF Cancel
  <2>1. OneUnresolved'
    BY <2>0, <1>0 DEF OneUnresolved, Unresolved
  <2>2. InvFrozen'
    BY <2>0, <1>0, Rests DEF InvFrozen, Unresolved
  <2>3. InvTaken'
    BY <2>0, <1>0, Rests DEF InvTaken, Taken, Unresolved
  <2>4. InvQueue'
    BY <2>0, <1>0, Rests DEF InvQueue, Unresolved
  <2>5. InvSent'
    BY <2>0, <1>0, Rests DEF InvSent, Unresolved
  <2>6. InvOffered'
    BY <2>0, <1>0 DEF InvOffered, Unresolved
  <2>7. InvArmed'
    BY <2>0, <1>0 DEF InvArmed, Armed, Unresolved
  <2>8. InvBranch'
    BY <2>0, <1>0 DEF InvBranch, Unresolved
  <2> QED
    BY <1>8, Kept, <2>1, <2>2, <2>3, <2>4, <2>5, <2>6, <2>7, <2>8 DEF Cancel, DeliveryInv
<1>9. ASSUME YieldManual PROVE DeliveryInv'
  <2>0. /\ UNCHANGED <<report, task, notices, queue, copies, gone, withdrawn, reverts, main, yield, disturbed>>
        /\ phase'.status = "yielded" /\ ~phase'.armed
        /\ boundary'.at = boundary.at /\ boundary'.armed = boundary.armed
        /\ boundary' = boundary \/ ~boundary'.same
        /\ \A x \in Reports : \/ flight'[x] = flight[x]
                              \/ x = report /\ flight[x].at = "none" /\ flight'[x].at = "queued"
    <3>1. boundary \in OfferType
      BY <1>0 DEF MainTyped
    <3>2. /\ boundary'.at = boundary.at /\ boundary'.armed = boundary.armed
          /\ boundary' = boundary \/ ~boundary'.same
      BY <1>9, <3>1 DEF YieldManual, OfferType
    <3>3. phase'.status = "yielded" /\ ~phase'.armed
      BY <1>9 DEF YieldManual
    <3>4. \A x \in Reports : \/ flight'[x] = flight[x]
                             \/ x = report /\ flight[x].at = "none" /\ flight'[x].at = "queued"
      BY <1>9, <1>0, SelectedAre DEF YieldManual, OneUnresolved
    <3> QED
      BY <1>9, <3>2, <3>3, <3>4 DEF YieldManual
  <2>1. InvFrozen'
    BY <2>0, <1>0, Rests DEF InvFrozen
  <2>2. InvSettling'
    BY <2>0, <1>0, Rests DEF InvSettling
  <2>3. InvTaken'
    BY <2>0, <1>0, Rests DEF InvTaken, Taken
  <2>4. InvQueue'
    BY <2>0, <1>0, Rests DEF InvQueue
  <2>5. InvSent'
    BY <2>0, <1>0, Rests DEF InvSent
  <2>6. InvOffered'
    BY <2>0, <1>0, Rests DEF InvOffered
  <2>7. InvOffer'
    BY <2>0, <1>0, Rests DEF InvOffer, Armed
  <2>8. InvArmed'
    BY <2>0, <1>0, Rests DEF InvArmed, Armed
  <2>9. InvQuiet'
    BY <2>0, <1>0, Rests DEF InvQuiet, Armed, PutAside
  <2> QED
    BY <1>9, Kept, <2>1, <2>2, <2>3, <2>4, <2>5, <2>6, <2>7, <2>8, <2>9 DEF YieldManual, DeliveryInv
<1>10. ASSUME Restart PROVE DeliveryInv'
  <2>0. /\ \A x \in Reports : /\ notices'[x].observed = notices[x].observed
                              /\ notices'[x].current = notices[x].current /\ notices'[x].channel = notices[x].channel
                              /\ notices'[x].status = IF notices[x].status = "delivery_pending" THEN "pending"
                                                      ELSE notices[x].status
                              /\ flight'[x] = NoFlight
        /\ task' = (IF task \in {"working", "activating"} THEN "interrupted" ELSE task)
        /\ phase' = OpenPhase /\ yield' = "none" /\ boundary' = NoOffer /\ reverts' = {} /\ deciding' = NotDeciding
        /\ main'.run = "idle" /\ queue' = {} /\ UNCHANGED <<report, copies, navigated, disturbed, withdrawn>>
        /\ gone' = gone \cup reverts \cup (IF boundary.at = "offered" THEN {report} ELSE {})
    <3>1. \A x \in Reports : notices[x] \in NoticeType
      BY <1>0
    <3> QED
      BY <1>10, <1>0, <3>1, Rests DEF Restart, NoticeType
  <2>1. OneUnresolved'
    BY <2>0, <1>0 DEF OneUnresolved, Unresolved
  <2>2. InvFrozen'
    BY <2>0, <1>0, Rests DEF InvFrozen
  <2>3. InvSettling'
    BY <2>0, <1>0, Rests DEF InvSettling
  <2>4. InvTaken'
    BY <2>0, <1>0, Rests DEF InvTaken, Taken
  <2>5. InvQueue'
    BY <2>0, <1>0, Rests DEF InvQueue
  <2>6. InvSent'
    BY <2>0, <1>0, Rests DEF InvSent
  <2>7. InvOffered'
    BY <2>0, <1>0, Rests DEF InvOffered
  <2>8. InvOffer'
    BY <2>0, <1>0, Rests DEF InvOffer, Armed
  <2>9. InvArmed'
    BY <2>0, <1>0, Rests DEF InvArmed, Armed
  <2>10. InvQuiet'
    BY <2>0, <1>0, Rests DEF InvQuiet, Armed, PutAside
  <2>11. InvBranch'
    BY <2>0, <1>0, Rests DEF InvBranch
  <2> QED
    BY <1>10, Kept, <2>1, <2>2, <2>3, <2>4, <2>5, <2>6, <2>7, <2>8, <2>9, <2>10, <2>11 DEF Restart,
       DeliveryInv
<1> QED
  BY <1>1, <1>2, <1>3, <1>4, <1>5, <1>6, <1>7, <1>8, <1>9, <1>10

\* Every step keeps the invariant.
LEMMA DeliveryStep == Typed /\ DeliveryInv /\ [Next]_vars => DeliveryInv'
<1> SUFFICES ASSUME Typed, DeliveryInv, [Next]_vars PROVE DeliveryInv'
  OBVIOUS
<1>1. CASE UNCHANGED vars
  BY <1>1, Kept DEF vars, mem, sides, hist, DeliveryInv
<1> QED
  BY <1>1, WorkerKeeps, RunKeeps, OfferKeeps, DecisionKeeps DEF Next, Deliver

\* The notices, the deliveries, the copies and the state of Main's runs stay in their types.
THEOREM DeliveryTyped == Spec => []Typed
<1>1. Init => Typed
  <2> SUFFICES ASSUME Init PROVE KeptTyped /\ MainTyped /\ RestTyped
    BY DEF Typed
  <2>1. KeptTyped
    <3>1. [status |-> "none", observed |-> FALSE, current |-> FALSE, channel |-> "none", attempts |-> 0]
            \in NoticeType
      BY Names, DeliveryAssumption DEF NoticeType
    <3>2. NoFlight \in FlightType
      BY DEF FlightType, NoFlight
    <3> QED
      BY <3>1, <3>2, DeliveryAssumption DEF Init, KeptTyped
  <2>2. MainTyped
    <3>1. IdleMain \in MainType
      BY DEF IdleMain, MainType
    <3> QED
      BY <3>1, MainFields, PhaseFields DEF Init, MainTyped
  <2>3. RestTyped
    BY DEF Init, RestTyped
  <2> QED
    BY <2>1, <2>2, <2>3
<1> QED
  BY <1>1, TypeStep, PTL DEF Spec

\* The invariant behind the properties holds of every reachable state.
THEOREM DeliveryInvariant == Spec => []DeliveryInv
<1>1. Spec => [](Typed /\ DeliveryInv)
  BY InvInit, DeliveryStep, DeliveryTyped, PTL DEF Spec
<1> QED
  BY <1>1, PTL

\* NoticesAreTrue: at most one notice is open, that of the report the task waits on, and a report that counts as
\* delivered by Pair is in Main's conversation, or on its way in or out (claims, offers, reverts and restarts).
THEOREM NoticesAreTrueHolds == Spec => []NoticesAreTrue
<1>1. DeliveryInv => NoticesAreTrue
  BY DEF DeliveryInv, InvOffered, NoticesAreTrue, OfferedWasSent
<1> QED
  BY <1>1, DeliveryInvariant, PTL

\* What remains of the types: which reports were announced, taken back or left behind. That those are reports at all
\* is so because a task that waits, and an offer, have one (InvFrozen).
SetsTyped ==
  /\ auto \in BOOLEAN /\ earlier \in 0..Cap /\ events \in 0..MaxEvents
  /\ reported \subseteq Reports /\ woken \subseteq Reports /\ asked \subseteq Reports
  /\ reverts \subseteq Reports /\ gone \subseteq Reports /\ withdrawn \subseteq Reports

\* A step leaves them reports.
LEMMA SetsStep == Typed /\ DeliveryInv /\ SetsTyped /\ [Next]_vars => SetsTyped'
<1> SUFFICES ASSUME Typed, DeliveryInv, SetsTyped, [Next]_vars PROVE SetsTyped'
  OBVIOUS
<1>0. /\ task = "waiting" \/ boundary.at # "none" => report \in Reports
      /\ HeldNotices \subseteq Reports /\ MaxEvents \in Nat
  <2>1. task = "waiting" \/ boundary.at # "none" => report \in Reports
    BY DeliveryAssumption DEF Typed, KeptTyped, DeliveryInv, InvFrozen, Reports
  <2>2. HeldNotices \subseteq Reports
    BY SelectedAre
  <2> QED
    BY <2>1, <2>2, DeliveryAssumption
<1> USE DEF SetsTyped, mem, sides, hist
<1>1. CASE Freeze
  BY <1>1, <1>0 DEF Freeze
<1>2. CASE AutoDeliver
  BY <1>2, <1>0 DEF AutoDeliver, Announce
<1>3. CASE Scan
  BY <1>3, <1>0 DEF Scan, Announce, CheckIdle
<1>4. ASSUME NEW r \in Reports, Redeliver(r) PROVE SetsTyped'
  BY <1>4, <1>0 DEF Redeliver, Event
<1>5. ASSUME NEW r \in Reports, Claim(r) PROVE SetsTyped'
  BY <1>5, <1>0 DEF Claim
<1>6. ASSUME NEW r \in Reports, Send(r) PROVE SetsTyped'
  BY <1>6, <1>0 DEF Send, SendReport, Event
<1>7. ASSUME NEW r \in Reports, ReceiptMissing(r) PROVE SetsTyped'
  BY <1>7, <1>0 DEF ReceiptMissing
<1>8. ASSUME NEW r \in Reports, Complete(r) PROVE SetsTyped'
  BY <1>8, <1>0 DEF Complete
<1>9. ASSUME NEW r \in Reports, Revert(r) PROVE SetsTyped'
  BY <1>9, <1>0 DEF Revert
<1>10. CASE UserInput
  BY <1>10, <1>0 DEF UserInput, InputComes, TakeInput, Event
<1>11. CASE StartRun
  BY <1>11, <1>0 DEF StartRun
<1>12. CASE TakePrompt
  BY <1>12, <1>0 DEF TakePrompt
<1>13. ASSUME NEW q \in queue, TakeFollowUp(q) PROVE SetsTyped'
  BY <1>13, <1>0 DEF TakeFollowUp
<1>14. CASE ToolUse
  BY <1>14, <1>0 DEF ToolUse
<1>15. CASE YieldCall
  BY <1>15, <1>0 DEF YieldCall
<1>16. CASE YieldMain
  BY <1>16, <1>0 DEF YieldMain
<1>17. ASSUME NEW o \in Outcomes, Settle(o) PROVE SetsTyped'
  BY <1>17, <1>0 DEF Settle
<1>18. CASE Offer
  BY <1>18, <1>0 DEF Offer
<1>19. CASE EndOffer
  BY <1>19, <1>0 DEF EndOffer
<1>20. CASE Continue
  BY <1>20, <1>0 DEF Continue
<1>21. CASE Settled
  BY <1>21, <1>0 DEF Settled, CheckIdle
<1>22. CASE SettleClaim
  BY <1>22, <1>0 DEF SettleClaim, CheckIdle
<1>23. CASE CompactStart
  BY <1>23, <1>0 DEF CompactStart, Event
<1>24. CASE CompactEnd
  BY <1>24, <1>0 DEF CompactEnd
<1>25. ASSUME NEW kept \in SUBSET Reports, BranchChange(kept) PROVE SetsTyped'
  BY <1>25, <1>0 DEF BranchChange, Event
<1>26. CASE Inspect
  BY <1>26, <1>0 DEF Inspect
<1>27. CASE Decide
  BY <1>27, <1>0 DEF Decide
<1>28. ASSUME NEW next \in {"activating", "done"}, Decided(next) PROVE SetsTyped'
  BY <1>28, <1>0 DEF Decided
<1>29. CASE Activated
  BY <1>29, <1>0 DEF Activated
<1>30. CASE Resume
  BY <1>30, <1>0 DEF Resume
<1>31. CASE Pause
  BY <1>31, <1>0 DEF Pause, Event
<1>32. CASE Restore
  BY <1>32, <1>0 DEF Restore
<1>33. CASE Cancel
  BY <1>33, <1>0 DEF Cancel, Event
<1>34. CASE YieldManual
  BY <1>34, <1>0 DEF YieldManual, Event
<1>35. CASE Restart
  BY <1>35, <1>0 DEF Restart, Event
<1>37. CASE Resend
  BY <1>37, <1>0 DEF Resend, TakeInput
<1>38. CASE Rescue
  BY <1>38, <1>0 DEF Rescue, Event
<1>39. ASSUME NEW r \in Reports, ClaimRevoked(r) PROVE SetsTyped'
  BY <1>39, <1>0 DEF ClaimRevoked, Event
<1>40. CASE SettleRevoked
  BY <1>40, <1>0 DEF SettleRevoked, Event
<1>36. CASE UNCHANGED vars
  BY <1>36 DEF vars
<1> QED
  BY <1>1, <1>2, <1>3, <1>4, <1>5, <1>6, <1>7, <1>8, <1>9, <1>10, <1>11, <1>12, <1>13, <1>14, <1>15, <1>16,
     <1>17, <1>18, <1>19, <1>20, <1>21, <1>22, <1>23, <1>24, <1>25, <1>26, <1>27, <1>28, <1>29, <1>30, <1>31,
     <1>32, <1>33, <1>34, <1>35, <1>36, <1>37, <1>38, <1>39, <1>40 DEF Next, Deliver

\* TypeOK: every variable of the delivery stays in its type.
THEOREM DeliveryTypeOK == Spec => []TypeOK
<1>1. Init => SetsTyped
  BY DeliveryAssumption DEF Init, SetsTyped
<1>2. Spec => [](Typed /\ DeliveryInv /\ SetsTyped)
  BY <1>1, SetsStep, DeliveryTyped, DeliveryInvariant, PTL DEF Spec
<1>3. Typed /\ SetsTyped => TypeOK
  BY DEF Typed, SetsTyped, KeptTyped, MainTyped, RestTyped, TypeOK, NoticeType, FlightType, PhaseType, OfferType,
         DecidingType, MainType
<1> QED
  BY <1>2, <1>3, PTL

\* What puts a message of a report into the conversation: a delivery that is sent, a follow-up that is taken, an offer
\* that goes out. Within an offer, only its end does.
LEMMA CopiesGrow ==
  ASSUME Typed, InvSettling, [Next]_vars, NEW x \in Reports, copies'[x] > copies[x], boundary.at = "offered"
  PROVE  x = report \/ main'.run = "settling"
<1>0. main.run = "settling" /\ copies \in [Reports -> 0..2] /\ main \in MainType
  BY DEF InvSettling, Typed, KeptTyped, MainTyped
<1>1. UNCHANGED copies => FALSE
  BY <1>0
<1>2. ASSUME NEW r \in Reports, Send(r) PROVE main'.run = "settling"
  BY <1>0, <1>2 DEF Send, SendReport, Occupied
<1>3. ASSUME NEW q \in queue, TakeFollowUp(q) PROVE FALSE
  BY <1>0, <1>3 DEF TakeFollowUp
<1>4. CASE EndOffer
  BY <1>0, <1>1, <1>4 DEF EndOffer, Shown
<1>5. ASSUME NEW kept \in SUBSET Reports, BranchChange(kept) PROVE FALSE
  BY <1>0, <1>5 DEF BranchChange
<1> USE DEF mem, sides, hist
<1>6. ASSUME Freeze PROVE UNCHANGED copies
  BY <1>6 DEF Freeze
<1>7. ASSUME AutoDeliver PROVE UNCHANGED copies
  BY <1>7 DEF AutoDeliver
<1>8. ASSUME Scan PROVE UNCHANGED copies
  BY <1>8 DEF Scan
<1>9. ASSUME NEW r \in Reports, Redeliver(r) PROVE UNCHANGED copies
  BY <1>9 DEF Redeliver
<1>10. ASSUME NEW r \in Reports, Claim(r) PROVE UNCHANGED copies
  BY <1>10 DEF Claim
<1>11. ASSUME NEW r \in Reports, ReceiptMissing(r) PROVE UNCHANGED copies
  BY <1>11 DEF ReceiptMissing
<1>12. ASSUME NEW r \in Reports, Complete(r) PROVE UNCHANGED copies
  BY <1>12 DEF Complete
<1>13. ASSUME NEW r \in Reports, Revert(r) PROVE UNCHANGED copies
  BY <1>13 DEF Revert
<1>14. ASSUME UserInput PROVE UNCHANGED copies
  BY <1>14 DEF UserInput, TakeInput
<1>15. ASSUME StartRun PROVE UNCHANGED copies
  BY <1>15 DEF StartRun
<1>16. ASSUME TakePrompt PROVE UNCHANGED copies
  BY <1>16 DEF TakePrompt
<1>17. ASSUME ToolUse PROVE UNCHANGED copies
  BY <1>17 DEF ToolUse
<1>18. ASSUME YieldCall PROVE UNCHANGED copies
  BY <1>18 DEF YieldCall
<1>19. ASSUME YieldMain PROVE UNCHANGED copies
  BY <1>19 DEF YieldMain
<1>20. ASSUME NEW o \in Outcomes, Settle(o) PROVE UNCHANGED copies
  BY <1>20 DEF Settle
<1>21. ASSUME Offer PROVE UNCHANGED copies
  BY <1>21 DEF Offer
<1>22. ASSUME Continue PROVE UNCHANGED copies
  BY <1>22 DEF Continue
<1>23. ASSUME Settled PROVE UNCHANGED copies
  BY <1>23 DEF Settled
<1>24. ASSUME SettleClaim PROVE UNCHANGED copies
  BY <1>24 DEF SettleClaim
<1>25. ASSUME CompactStart PROVE UNCHANGED copies
  BY <1>25 DEF CompactStart
<1>26. ASSUME CompactEnd PROVE UNCHANGED copies
  BY <1>26 DEF CompactEnd
<1>27. ASSUME Inspect PROVE UNCHANGED copies
  BY <1>27 DEF Inspect
<1>28. ASSUME Decide PROVE UNCHANGED copies
  BY <1>28 DEF Decide
<1>29. ASSUME NEW next \in {"activating", "done"}, Decided(next) PROVE UNCHANGED copies
  BY <1>29 DEF Decided
<1>30. ASSUME Activated PROVE UNCHANGED copies
  BY <1>30 DEF Activated
<1>31. ASSUME Resume PROVE UNCHANGED copies
  BY <1>31 DEF Resume
<1>32. ASSUME Pause PROVE UNCHANGED copies
  BY <1>32 DEF Pause
<1>33. ASSUME Restore PROVE UNCHANGED copies
  BY <1>33 DEF Restore
<1>34. ASSUME Cancel PROVE UNCHANGED copies
  BY <1>34 DEF Cancel
<1>35. ASSUME YieldManual PROVE UNCHANGED copies
  BY <1>35 DEF YieldManual
<1>36. ASSUME Restart PROVE UNCHANGED copies
  BY <1>36 DEF Restart
<1>38. ASSUME Resend PROVE UNCHANGED copies
  BY <1>38 DEF Resend, TakeInput
<1>39. ASSUME Rescue PROVE UNCHANGED copies
  BY <1>39 DEF Rescue
<1>40. ASSUME NEW r \in Reports, ClaimRevoked(r) PROVE UNCHANGED copies
  BY <1>40 DEF ClaimRevoked
<1>41. ASSUME SettleRevoked PROVE UNCHANGED copies
  BY <1>41 DEF SettleRevoked
<1>37. CASE UNCHANGED vars
  BY <1>1, <1>37 DEF vars
<1> QED
  BY <1>1, <1>2, <1>3, <1>4, <1>5, <1>6, <1>7, <1>8, <1>9, <1>10, <1>11, <1>12, <1>13, <1>14, <1>15, <1>16,
     <1>17, <1>18, <1>19, <1>20, <1>21, <1>22, <1>23, <1>24, <1>25, <1>26, <1>27, <1>28, <1>29, <1>30, <1>31,
     <1>32, <1>33, <1>34, <1>35, <1>36, <1>37, <1>38, <1>39, <1>40, <1>41 DEF Next, Deliver

\* NoSecondCopy: Pair by itself never puts a report into a conversation that holds it already, but for the one that a
\* withdrawn redelivery made pending again under an armed yield. A claimed delivery that the human did not ask for has
\* no copy (InvSent), and neither has the report of any other offer (InvOffer).
THEOREM NoSecondCopyHolds == Spec => NoSecondCopy
<1>1. ASSUME Typed, DeliveryInv, [Next]_vars, NEW r \in Reports, copies'[r] > copies[r], AutoSends(r)
      PROVE  copies[r] = 0 \/ (r \in withdrawn /\ boundary.at = "offered" /\ boundary.armed)
  <2>1. CASE flight[r].at = "claimed" /\ flight[r].via # "manual"
    BY <1>1, <2>1 DEF DeliveryInv, InvSent
  <2>2. CASE boundary.at = "offered" /\ main'.run = "running"
    BY <1>1, <2>2, CopiesGrow DEF DeliveryInv, InvOffer
  <2> QED
    BY <1>1, <2>1, <2>2 DEF AutoSends
<1>2. Typed /\ DeliveryInv /\ [Next]_vars
        => [\A r \in Reports : copies'[r] > copies[r] /\ AutoSends(r)
              => copies[r] = 0 \/ (r \in withdrawn /\ boundary.at = "offered" /\ boundary.armed)]_vars
  BY <1>1
<1> QED
  BY <1>2, DeliveryTyped, DeliveryInvariant, PTL DEF Spec, NoSecondCopy

\* An offer that is made goes out, or ends, at its own step alone.
LEMMA OnlyEndOffer ==
  ASSUME Typed, InvSettling, [Next]_vars, boundary.at = "offered", main.run = "settling", main'.run = "running"
  PROVE  EndOffer /\ OfferCurrent
<1>0. main \in MainType
  BY DEF Typed, MainTyped
<1> USE DEF mem, sides, hist
<1>1. ASSUME Freeze PROVE FALSE
  BY <1>0, <1>1 DEF Freeze
<1>2. ASSUME AutoDeliver PROVE FALSE
  BY <1>0, <1>2 DEF AutoDeliver, Announce, MainType
<1>3. ASSUME Scan PROVE FALSE
  BY <1>0, <1>3 DEF Scan, Announce, CheckIdle, MainType
<1>4. ASSUME NEW r \in Reports, Redeliver(r) PROVE FALSE
  BY <1>0, <1>4 DEF Redeliver
<1>5. ASSUME NEW r \in Reports, Claim(r) PROVE FALSE
  BY <1>0, <1>5 DEF Claim
<1>6. ASSUME NEW r \in Reports, Send(r) PROVE FALSE
  BY <1>0, <1>6 DEF Send, SendReport, MainType
<1>7. ASSUME NEW r \in Reports, ReceiptMissing(r) PROVE FALSE
  BY <1>0, <1>7 DEF ReceiptMissing
<1>8. ASSUME NEW r \in Reports, Complete(r) PROVE FALSE
  BY <1>0, <1>8 DEF Complete
<1>9. ASSUME NEW r \in Reports, Revert(r) PROVE FALSE
  BY <1>0, <1>9 DEF Revert
<1>10. ASSUME UserInput PROVE FALSE
  BY <1>0, <1>10, InputTyped DEF UserInput
<1>11. ASSUME StartRun PROVE FALSE
  BY <1>0, <1>11 DEF StartRun, MainType
<1>12. ASSUME TakePrompt PROVE FALSE
  BY <1>0, <1>12 DEF TakePrompt, MainType
<1>13. ASSUME NEW q \in queue, TakeFollowUp(q) PROVE FALSE
  BY <1>0, <1>13 DEF TakeFollowUp
<1>14. ASSUME ToolUse PROVE FALSE
  BY <1>0, <1>14 DEF ToolUse
<1>15. ASSUME YieldCall PROVE FALSE
  BY <1>0, <1>15 DEF YieldCall
<1>16. ASSUME YieldMain PROVE FALSE
  BY <1>0, <1>16 DEF YieldMain
<1>17. ASSUME NEW o \in Outcomes, Settle(o) PROVE FALSE
  BY <1>0, <1>17 DEF Settle, MainType
<1>18. ASSUME Offer PROVE FALSE
  BY <1>0, <1>18 DEF Offer, MainType
<1>19. ASSUME EndOffer PROVE EndOffer /\ OfferCurrent
  BY <1>0, <1>19 DEF EndOffer, MainType
<1>20. ASSUME Continue PROVE FALSE
  BY <1>0, <1>20 DEF Continue, MainType
<1>21. ASSUME Settled PROVE FALSE
  BY <1>0, <1>21 DEF Settled, CheckIdle, MainType
<1>22. ASSUME SettleClaim PROVE FALSE
  BY <1>0, <1>22 DEF SettleClaim, CheckIdle, MainType
<1>23. ASSUME CompactStart PROVE FALSE
  BY <1>0, <1>23 DEF CompactStart, MainType
<1>24. ASSUME CompactEnd PROVE FALSE
  BY <1>0, <1>24 DEF CompactEnd, MainType
<1>25. ASSUME NEW kept \in SUBSET Reports, BranchChange(kept) PROVE FALSE
  BY <1>0, <1>25 DEF BranchChange
<1>26. ASSUME Inspect PROVE FALSE
  BY <1>0, <1>26 DEF Inspect
<1>27. ASSUME Decide PROVE FALSE
  BY <1>0, <1>27 DEF Decide
<1>28. ASSUME NEW next \in {"activating", "done"}, Decided(next) PROVE FALSE
  BY <1>0, <1>28 DEF Decided
<1>29. ASSUME Activated PROVE FALSE
  BY <1>0, <1>29 DEF Activated
<1>30. ASSUME Resume PROVE FALSE
  BY <1>0, <1>30 DEF Resume
<1>31. ASSUME Pause PROVE FALSE
  BY <1>0, <1>31 DEF Pause
<1>32. ASSUME Restore PROVE FALSE
  BY <1>0, <1>32 DEF Restore
<1>33. ASSUME Cancel PROVE FALSE
  BY <1>0, <1>33 DEF Cancel
<1>34. ASSUME YieldManual PROVE FALSE
  BY <1>0, <1>34 DEF YieldManual
<1>35. ASSUME Restart PROVE FALSE
  BY <1>0, <1>35 DEF Restart, IdleMain, MainType
<1>37. ASSUME Resend PROVE FALSE
  <2>1. [main EXCEPT !.rescued = "none"] \in MainType /\ [main EXCEPT !.rescued = "none"].run = main.run
    BY <1>0 DEF MainType
  <2> QED
    BY <1>37, <2>1, InputTyped DEF Resend
<1>38. ASSUME Rescue PROVE FALSE
  BY <1>0, <1>38 DEF Rescue
<1>39. ASSUME NEW r \in Reports, ClaimRevoked(r) PROVE FALSE
  BY <1>0, <1>39 DEF ClaimRevoked
<1>40. ASSUME SettleRevoked PROVE FALSE
  BY <1>0, <1>40 DEF SettleRevoked
<1>36. CASE UNCHANGED vars
  BY <1>0, <1>36 DEF vars
<1> QED
  BY <1>1, <1>2, <1>3, <1>4, <1>5, <1>6, <1>7, <1>8, <1>9, <1>10, <1>11, <1>12, <1>13, <1>14, <1>15, <1>16,
     <1>17, <1>18, <1>19, <1>20, <1>21, <1>22, <1>23, <1>24, <1>25, <1>26, <1>27, <1>28, <1>29, <1>30, <1>31,
     <1>32, <1>33, <1>34, <1>35, <1>36, <1>37, <1>38, <1>39, <1>40 DEF Next, Deliver

\* ArmedOfferIsQuiet: a report inserted on the strength of a yield follows it directly; nothing has come in since
\* (InvQuiet) but a message that was put aside, however the yield, the offer and Main's events were interleaved.
THEOREM ArmedOfferIsQuietHolds == Spec => ArmedOfferIsQuiet
<1>1. ASSUME Typed, DeliveryInv, [Next]_vars,
             boundary.at = "offered", boundary.armed, main.run = "settling", main'.run = "running"
      PROVE  ~disturbed \/ main.rescued = "held"
  BY <1>1, OnlyEndOffer DEF DeliveryInv, InvQuiet, PutAside, OfferCurrent
<1>2. Typed /\ DeliveryInv /\ [Next]_vars
        => [boundary.at = "offered" /\ boundary.armed /\ main.run = "settling" /\ main'.run = "running"
              => ~disturbed \/ main.rescued = "held"]_vars
  BY <1>1
<1> QED
  BY <1>2, DeliveryTyped, DeliveryInvariant, PTL DEF Spec, ArmedOfferIsQuiet

\* ActivatedOnBranch: a decision gives the worker running authority only on the branch on which Main read the report.
THEOREM ActivatedOnBranchHolds == Spec => ActivatedOnBranch
<1> USE DEF mem, sides, hist
<1>1. ASSUME Typed, DeliveryInv, [Next]_vars, task = "activating", task' = "working"
      PROVE  ~navigated
  <2>1. ASSUME Freeze PROVE FALSE
    BY <1>1, <2>1 DEF Freeze
  <2>2. ASSUME AutoDeliver PROVE FALSE
    BY <1>1, <2>2 DEF AutoDeliver
  <2>3. ASSUME Scan PROVE FALSE
    BY <1>1, <2>3 DEF Scan
  <2>4. ASSUME NEW r \in Reports, Redeliver(r) PROVE FALSE
    BY <1>1, <2>4 DEF Redeliver
  <2>5. ASSUME NEW r \in Reports, Claim(r) PROVE FALSE
    BY <1>1, <2>5 DEF Claim
  <2>6. ASSUME NEW r \in Reports, Send(r) PROVE FALSE
    BY <1>1, <2>6 DEF Send
  <2>7. ASSUME NEW r \in Reports, ReceiptMissing(r) PROVE FALSE
    BY <1>1, <2>7 DEF ReceiptMissing
  <2>8. ASSUME NEW r \in Reports, Complete(r) PROVE FALSE
    BY <1>1, <2>8 DEF Complete
  <2>9. ASSUME NEW r \in Reports, Revert(r) PROVE FALSE
    BY <1>1, <2>9 DEF Revert
  <2>10. ASSUME UserInput PROVE FALSE
    BY <1>1, <2>10 DEF UserInput, TakeInput
  <2>11. ASSUME StartRun PROVE FALSE
    BY <1>1, <2>11 DEF StartRun
  <2>12. ASSUME TakePrompt PROVE FALSE
    BY <1>1, <2>12 DEF TakePrompt
  <2>13. ASSUME NEW q \in queue, TakeFollowUp(q) PROVE FALSE
    BY <1>1, <2>13 DEF TakeFollowUp
  <2>14. ASSUME ToolUse PROVE FALSE
    BY <1>1, <2>14 DEF ToolUse
  <2>15. ASSUME YieldCall PROVE FALSE
    BY <1>1, <2>15 DEF YieldCall
  <2>16. ASSUME YieldMain PROVE FALSE
    BY <1>1, <2>16 DEF YieldMain
  <2>17. ASSUME NEW o \in Outcomes, Settle(o) PROVE FALSE
    BY <1>1, <2>17 DEF Settle
  <2>18. ASSUME Offer PROVE FALSE
    BY <1>1, <2>18 DEF Offer
  <2>19. ASSUME EndOffer PROVE FALSE
    BY <1>1, <2>19 DEF EndOffer
  <2>20. ASSUME Continue PROVE FALSE
    BY <1>1, <2>20 DEF Continue
  <2>21. ASSUME Settled PROVE FALSE
    BY <1>1, <2>21 DEF Settled
  <2>22. ASSUME SettleClaim PROVE FALSE
    BY <1>1, <2>22 DEF SettleClaim
  <2>23. ASSUME CompactStart PROVE FALSE
    BY <1>1, <2>23 DEF CompactStart
  <2>24. ASSUME CompactEnd PROVE FALSE
    BY <1>1, <2>24 DEF CompactEnd
  <2>25. ASSUME NEW kept \in SUBSET Reports, BranchChange(kept) PROVE FALSE
    BY <1>1, <2>25 DEF BranchChange
  <2>26. ASSUME Inspect PROVE FALSE
    BY <1>1, <2>26 DEF Inspect
  <2>27. ASSUME Decide PROVE FALSE
    BY <1>1, <2>27 DEF Decide
  <2>28. ASSUME NEW next \in {"activating", "done"}, Decided(next) PROVE FALSE
    BY <1>1, <2>28 DEF Decided, DecisionHolds
  <2>29. CASE Activated
    BY <1>1, <2>29 DEF Activated, BranchHolds, DeliveryInv, InvBranch
  <2>30. ASSUME Resume PROVE FALSE
    BY <1>1, <2>30 DEF Resume
  <2>31. ASSUME Pause PROVE FALSE
    BY <1>1, <2>31 DEF Pause
  <2>32. ASSUME Restore PROVE FALSE
    BY <1>1, <2>32 DEF Restore
  <2>33. ASSUME Cancel PROVE FALSE
    BY <1>1, <2>33 DEF Cancel
  <2>34. ASSUME YieldManual PROVE FALSE
    BY <1>1, <2>34 DEF YieldManual
  <2>35. ASSUME Restart PROVE FALSE
    BY <1>1, <2>35 DEF Restart
  <2>37. ASSUME Resend PROVE FALSE
    BY <1>1, <2>37 DEF Resend, TakeInput
  <2>38. ASSUME Rescue PROVE FALSE
    BY <1>1, <2>38 DEF Rescue
  <2>39. ASSUME NEW r \in Reports, ClaimRevoked(r) PROVE FALSE
    BY <1>1, <2>39 DEF ClaimRevoked
  <2>40. ASSUME SettleRevoked PROVE FALSE
    BY <1>1, <2>40 DEF SettleRevoked
  <2>36. ASSUME UNCHANGED vars PROVE FALSE
    BY <1>1, <2>36 DEF vars
  <2> QED
    BY <1>1, <2>1, <2>2, <2>3, <2>4, <2>5, <2>6, <2>7, <2>8, <2>9, <2>10, <2>11, <2>12, <2>13, <2>14, <2>15,
       <2>16, <2>17, <2>18, <2>19, <2>20, <2>21, <2>22, <2>23, <2>24, <2>25, <2>26, <2>27, <2>28, <2>29,
       <2>30, <2>31, <2>32, <2>33, <2>34, <2>35, <2>36, <2>37, <2>38, <2>39, <2>40 DEF Next, Deliver
<1>2. Typed /\ DeliveryInv /\ [Next]_vars => [task = "activating" /\ task' = "working" => ~navigated]_vars
  BY <1>1
<1> QED
  BY <1>2, DeliveryTyped, DeliveryInvariant, PTL DEF Spec, ActivatedOnBranch

==============================================================================
