--------------------------- MODULE Watchdog_proofs ---------------------------
(***************************************************************************)
(* Proofs about Watchdog for every value of its constants.                 *)
(***************************************************************************)
EXTENDS Watchdog, TLAPS

TaskType   == [status : {"running", "interrupted", "paused", "held", "waiting", "done"}, human : BOOLEAN,
               why : {"none", "provider", "report", "crash", "drift", "limit", "hang", "freeze", "stop", "restart"}]
WorkerType == {"live", "error", "unconfirmed", "stopped"}
BookType   == [step : 1..MaxSteps, recoveries : 0..MaxRecoveries, nudges : 0..MaxNudges, waits : 0..MaxWaits,
               repairs : 0..MaxRepairs, retry : {"none", "waiting", "due"}, nudged : {"none", "this", "earlier"}]
SteersType == [step : 1..MaxSteps, count : 0..MaxSteers]
ScanType   == [at : {"idle", "containing", "follow", "guard", "counted", "stopping", "resuming", "switching",
                     "stopped", "notices"}, kind : Kinds, current : BOOLEAN]
SendingType == [Authors -> {"none", "sent", "queued", "refused", "noting"}]
RecoveryType == {"none", "stopping", "resuming"}
States     == {"interrupted", "paused", "waiting"}
DoneType   == [recoveries : Nat, nudges : Nat, waits : Nat, repairs : Nat, steers : Nat, soft : Nat,
               by : {"person", "watchdog", "main"}]
SavedType  == [task : TaskType, worker : WorkerType, step : 1..MaxSteps, book : BookType, steers : SteersType,
               fallback : 0..Fallbacks, mains : 0..MaxMain]

\* The types of what is saved, and of the rest.
KeptTyped  == /\ task \in TaskType /\ worker \in WorkerType /\ step \in 1..MaxSteps /\ book \in BookType
              /\ steers \in SteersType /\ fallback \in 0..Fallbacks /\ mains \in 0..MaxMain
RestTyped  == /\ on \in BOOLEAN /\ spent \in BOOLEAN /\ scan \in ScanType /\ sending \in SendingType
              /\ recovery \in RecoveryType /\ told \subseteq States /\ calls \in 0..MaxCalls
              /\ done \in DoneType
SavedTyped == saved \in SavedType
\* A worker is only stopped for a fallback that is left.
SwitchLeft == scan.at = "stopped" => fallback < Fallbacks
Typed == KeptTyped /\ RestTyped /\ SavedTyped /\ SwitchLeft

\* The bounds are numbers.
LEMMA Bounds ==
  /\ MaxSteps \in Nat \ {0} /\ MaxRecoveries \in Nat /\ MaxNudges \in Nat /\ MaxWaits \in Nat /\ FallbackAfter \in Nat
  /\ Fallbacks \in Nat /\ MaxRepairs \in Nat /\ MaxMain \in Nat /\ MaxSteers \in Nat /\ MaxCalls \in Nat
  BY WatchdogAssumption

\* The books of a step nothing has been done in.
LEMMA FreshBooks ==
  ASSUME NEW s \in 1..MaxSteps
  PROVE  /\ FreshBook(s) \in BookType /\ FreshBook(s).step = s /\ FreshBook(s).recoveries = 0
         /\ FreshBook(s).nudges = 0 /\ FreshBook(s).waits = 0 /\ FreshBook(s).repairs = 0
         /\ FreshBook(s).nudged = "none" /\ FreshBook(s).retry = "none"
<1>1. /\ FreshBook(s).step = s /\ FreshBook(s).recoveries = 0
      /\ FreshBook(s).nudges = 0 /\ FreshBook(s).waits = 0 /\ FreshBook(s).repairs = 0
      /\ FreshBook(s).nudged = "none" /\ FreshBook(s).retry = "none"
  BY DEF FreshBook
<1>2. FreshBook(s) \in BookType
  BY Bounds DEF FreshBook, BookType
<1> QED
  BY <1>1, <1>2

\* A field of the books is set, on the page of the step the task is at; the others stay.
Page(b, r, n, w, p) == b.recoveries = r /\ b.nudges = n /\ b.waits = w /\ b.repairs = p
SamePage(b, c) == Page(c, b.recoveries, b.nudges, b.waits, b.repairs)
Tally(d, r, n, w, p, s, f) ==
  d.recoveries = r /\ d.nudges = n /\ d.waits = w /\ d.repairs = p /\ d.steers = s /\ d.soft = f
LEMMA BookFields ==
  ASSUME NEW b \in BookType, NEW s \in 1..MaxSteps
  PROVE  /\ b.step \in 1..MaxSteps /\ b.recoveries \in 0..MaxRecoveries /\ b.nudges \in 0..MaxNudges
         /\ b.waits \in 0..MaxWaits /\ b.repairs \in 0..MaxRepairs
         /\ [b EXCEPT !.step = s] \in BookType /\ [b EXCEPT !.step = s].step = s
         /\ [b EXCEPT !.step = s].nudged = b.nudged /\ SamePage(b, [b EXCEPT !.step = s])
  BY DEF BookType, SamePage, Page

\* What setWatchdog leaves in the record.
LEMMA SetBookIs ==
  ASSUME NEW b \in BookType, step \in 1..MaxSteps, SetBook(b)
  PROVE  book' \in BookType /\ book'.step = step /\ book'.nudged = b.nudged /\ SamePage(b, book')
  BY BookFields DEF SetBook

\* The page of the task's step.
LEMMA BookIs ==
  ASSUME Typed
  PROVE  /\ Book \in BookType /\ Book.step = step /\ BookOf(book) = Book /\ BookOf(book) \in BookType
         /\ (book.step = step => Book = book) /\ BookOf(saved.book) \in BookType
<1>1. step \in 1..MaxSteps /\ book \in BookType /\ saved.book \in BookType
  BY DEF Typed, KeptTyped, SavedTyped, SavedType
<1> QED
  BY <1>1, FreshBooks DEF Book, BookOf

\* A rotated book has the same page.
LEMMA RotatedIs ==
  ASSUME NEW b \in BookType
  PROVE  /\ Rotated(b) \in BookType /\ Rotated(b).step = b.step /\ SamePage(b, Rotated(b))
         /\ Rotated(b).nudged # "this"
  BY DEF BookType, Rotated, SamePage, Page

\* A save keeps what the record says after the step.
LEMMA PersistIs ==
  ASSUME Persist
  PROVE  saved'.book = book' /\ saved'.step = step' /\ saved'.steers = steers' /\ (KeptTyped' => SavedTyped')
  BY DEF Persist, SavedTyped, SavedType, KeptTyped

\* Revoked messages are refused, and still on the count.
LEMMA RevokedIs ==
  ASSUME sending \in SendingType, Revoked
  PROVE  /\ sending' \in SendingType
         /\ \A a \in Authors : /\ sending'[a] # "sent"
                               /\ sending[a] # "sent" => sending'[a] = sending[a]
                               /\ sending[a] = "sent" => sending'[a] = "refused"
  BY DEF Revoked, SendingType

\* What an interruption leaves.
LEMMA InterruptIs ==
  ASSUME Typed, NEW why \in {"provider", "report", "crash", "drift", "hang"}, Interrupt(why)
  PROVE  /\ Revoked /\ task' \in TaskType /\ worker' \in WorkerType
         /\ task'.status = IF task.status \in {"running", "interrupted"} THEN "interrupted" ELSE task.status
<1>1. task \in TaskType /\ worker \in WorkerType
  BY DEF Typed, KeptTyped
<1>2. [task EXCEPT !.status = "interrupted", !.why = why] \in TaskType
      /\ [task EXCEPT !.status = "interrupted", !.why = why].status = "interrupted"
  BY <1>1 DEF TaskType
<1> QED
  BY <1>1, <1>2 DEF Interrupt, WorkerType

\* A state of the scan, and the bookkeeping of what was done.
LEMMA ScanFields ==
  ASSUME NEW s \in ScanType
  PROVE  /\ NoScan \in ScanType /\ NoScan.at = "idle"
         /\ \A k \in Kinds : /\ [at |-> "containing", kind |-> k, current |-> TRUE] \in ScanType
                             /\ [at |-> "guard", kind |-> k, current |-> TRUE] \in ScanType
                             /\ [at |-> "notices", kind |-> k, current |-> TRUE] \in ScanType
         /\ [s EXCEPT !.current = FALSE] \in ScanType /\ [s EXCEPT !.current = FALSE].at = s.at
         /\ \A x \in {"follow", "guard", "counted", "stopping", "resuming", "switching", "stopped", "notices"} :
              /\ [s EXCEPT !.at = x] \in ScanType /\ [s EXCEPT !.at = x].at = x
              /\ [s EXCEPT !.at = x, !.current = TRUE] \in ScanType /\ [s EXCEPT !.at = x, !.current = TRUE].at = x
  BY DEF ScanType, NoScan, Kinds

\* What was done is counted, one past the limit at most.
LEMMA PastIs ==
  ASSUME NEW n \in Nat, NEW limit \in Nat
  PROVE  Past(n, limit) \in Nat /\ Past(n, limit) <= n + 1
  BY DEF Past

\* The history of the step.
LEMMA DoneFields ==
  ASSUME NEW d \in DoneType, NEW n \in Nat
  PROVE  /\ Nothing \in DoneType
         /\ [d EXCEPT !.recoveries = n] \in DoneType /\ [d EXCEPT !.nudges = n] \in DoneType
         /\ [d EXCEPT !.waits = n] \in DoneType /\ [d EXCEPT !.steers = n] \in DoneType
         /\ [d EXCEPT !.soft = n] \in DoneType /\ [d EXCEPT !.repairs = n, !.soft = 0] \in DoneType
         /\ \A b \in {"person", "watchdog", "main"} : [d EXCEPT !.soft = 0, !.by = b] \in DoneType
         /\ d.recoveries \in Nat /\ d.nudges \in Nat /\ d.waits \in Nat /\ d.repairs \in Nat /\ d.steers \in Nat
         /\ d.soft \in Nat
  BY DEF DoneType, Nothing

\* A stop that succeeds, or does not.
LEMMA StopsIs ==
  ASSUME Typed, NEW x \in {"resuming", "stopped"}, Stops(x, "notices")
  PROVE  /\ worker' \in WorkerType /\ task' \in TaskType /\ scan' \in ScanType /\ scan'.at \in {x, "notices"}
         /\ \/ task'.status = task.status
            \/ task.status = "running" /\ task'.status = "interrupted"
<1>1. task \in TaskType /\ worker \in WorkerType /\ scan \in ScanType
  BY DEF Typed, KeptTyped, RestTyped
<1>2. [task EXCEPT !.status = "interrupted", !.why = "stop"] \in TaskType
      /\ [task EXCEPT !.status = "interrupted", !.why = "stop"].status = "interrupted"
  BY <1>1 DEF TaskType
<1>3. \A a \in {x, "notices"} : [scan EXCEPT !.at = a] \in ScanType /\ [scan EXCEPT !.at = a].at = a
  BY <1>1 DEF ScanType
<1>4. CASE worker' = "unconfirmed" /\ scan' = [scan EXCEPT !.at = "notices"] /\ UNCHANGED task
  BY <1>1, <1>3, <1>4 DEF WorkerType
<1>5. CASE /\ worker' = "stopped" /\ scan' = [scan EXCEPT !.at = x]
           /\ task' = IF task.status \in {"running", "interrupted"}
                      THEN [task EXCEPT !.status = "interrupted", !.why = "stop"] ELSE task
  BY <1>1, <1>2, <1>3, <1>5 DEF WorkerType
<1> QED
  BY <1>4, <1>5 DEF Stops

\* What a resume leaves, whoever asks for it.
LEMMA ResumedIs ==
  ASSUME Typed, NEW by \in {"person", "watchdog", "main"}, Resumed(by)
  PROVE  /\ worker' \in WorkerType /\ task' \in TaskType /\ told' \subseteq States /\ done' \in DoneType
         /\ book' \in BookType /\ book'.step = book.step /\ SamePage(book, book')
         /\ \/ UNCHANGED <<done, book, worker>> /\ (task' = task \/ (task.status = "held" /\ task'.status = "waiting"))
            \/ task'.status = "interrupted" /\ done' = done /\ Held
            \/ /\ task'.status = "running" /\ done' = [done EXCEPT !.soft = 0, !.by = by] /\ Held
               /\ book' = Rotated(book)
<1>1. task \in TaskType /\ worker \in WorkerType /\ book \in BookType /\ done \in DoneType /\ told \subseteq States
  BY DEF Typed, KeptTyped, RestTyped
<1>2. /\ [status |-> "waiting", human |-> FALSE, why |-> "none"] \in TaskType
      /\ [status |-> "running", human |-> FALSE, why |-> "none"] \in TaskType
      /\ [status |-> "interrupted", human |-> FALSE, why |-> "crash"] \in TaskType
  BY DEF TaskType
<1>3. SamePage(book, book)
  BY DEF SamePage, Page
<1>4. [done EXCEPT !.soft = 0, !.by = by] \in DoneType
  BY <1>1, DoneFields
<1>5. Rotated(book) \in BookType /\ Rotated(book).step = book.step /\ SamePage(book, Rotated(book))
  BY <1>1, RotatedIs
<1>6. CASE /\ MayResume /\ task.status = "held"
           /\ task' = [status |-> "waiting", human |-> FALSE, why |-> "none"]
           /\ UNCHANGED <<worker, book, told, done>>
  BY <1>1, <1>2, <1>3, <1>6
<1>7. CASE MayResume /\ book' = Rotated(book) /\ Activate(by)
  BY <1>1, <1>2, <1>4, <1>5, <1>7 DEF MayResume, Activate, WorkerType
<1>8. CASE /\ MayResume /\ task' = [status |-> "interrupted", human |-> FALSE, why |-> "crash"]
           /\ worker' \in {"error", "unconfirmed"} /\ book' = Rotated(book) /\ UNCHANGED <<told, done>>
  BY <1>1, <1>2, <1>5, <1>8 DEF MayResume, WorkerType
<1>9. CASE UNCHANGED <<task, worker, book, told, done>>
  BY <1>1, <1>3, <1>9
<1> QED
  BY <1>6, <1>7, <1>8, <1>9 DEF Resumed

\* Each remedy is written on its own line of the book.
LEMMA BookWrites ==
  ASSUME NEW b \in BookType
  PROVE  /\ /\ [b EXCEPT !.waits = 0, !.retry = "none"] \in BookType
            /\ Page([b EXCEPT !.waits = 0, !.retry = "none"], b.recoveries, b.nudges, 0, b.repairs)
            /\ [b EXCEPT !.waits = 0, !.retry = "none"].nudged = b.nudged
         /\ b.waits < MaxWaits =>
            /\ [b EXCEPT !.waits = @ + 1, !.retry = "waiting"] \in BookType
            /\ Page([b EXCEPT !.waits = @ + 1, !.retry = "waiting"], b.recoveries, b.nudges, b.waits + 1, b.repairs)
            /\ [b EXCEPT !.waits = @ + 1, !.retry = "waiting"].nudged = b.nudged
         /\ b.nudges < MaxNudges =>
            /\ [b EXCEPT !.nudges = @ + 1] \in BookType
            /\ Page([b EXCEPT !.nudges = @ + 1], b.recoveries, b.nudges + 1, b.waits, b.repairs)
            /\ [b EXCEPT !.nudges = @ + 1].nudged = b.nudged
         /\ /\ [b EXCEPT !.retry = "none"] \in BookType /\ SamePage(b, [b EXCEPT !.retry = "none"])
            /\ [b EXCEPT !.retry = "none"].nudged = b.nudged
         /\ b.recoveries < MaxRecoveries =>
            /\ [b EXCEPT !.recoveries = @ + 1] \in BookType
            /\ Page([b EXCEPT !.recoveries = @ + 1], b.recoveries + 1, b.nudges, b.waits, b.repairs)
            /\ [b EXCEPT !.recoveries = @ + 1].nudged = b.nudged
         /\ b.repairs < MaxRepairs =>
            /\ [b EXCEPT !.repairs = @ + 1] \in BookType
            /\ Page([b EXCEPT !.repairs = @ + 1], b.recoveries, b.nudges, b.waits, b.repairs + 1)
         /\ /\ [b EXCEPT !.nudged = "this"] \in BookType /\ SamePage(b, [b EXCEPT !.nudged = "this"])
            /\ [b EXCEPT !.nudged = "this"].nudged = "this"
<1>1. /\ MaxWaits \in Nat /\ MaxNudges \in Nat /\ MaxRecoveries \in Nat /\ MaxRepairs \in Nat
      /\ b.waits \in 0..MaxWaits /\ b.nudges \in 0..MaxNudges /\ b.recoveries \in 0..MaxRecoveries
      /\ b.repairs \in 0..MaxRepairs
  BY Bounds DEF BookType
<1>2. /\ b.waits < MaxWaits => b.waits + 1 \in 0..MaxWaits
      /\ b.nudges < MaxNudges => b.nudges + 1 \in 0..MaxNudges
      /\ b.recoveries < MaxRecoveries => b.recoveries + 1 \in 0..MaxRecoveries
      /\ b.repairs < MaxRepairs => b.repairs + 1 \in 0..MaxRepairs
      /\ 0 \in 0..MaxWaits
  BY <1>1
<1> USE DEF BookType, Page, SamePage
<1>3. /\ [b EXCEPT !.waits = 0, !.retry = "none"] \in BookType
      /\ Page([b EXCEPT !.waits = 0, !.retry = "none"], b.recoveries, b.nudges, 0, b.repairs)
      /\ [b EXCEPT !.waits = 0, !.retry = "none"].nudged = b.nudged
  BY <1>2
<1>4. ASSUME b.waits < MaxWaits
      PROVE  /\ [b EXCEPT !.waits = @ + 1, !.retry = "waiting"] \in BookType
             /\ Page([b EXCEPT !.waits = @ + 1, !.retry = "waiting"], b.recoveries, b.nudges, b.waits + 1, b.repairs)
             /\ [b EXCEPT !.waits = @ + 1, !.retry = "waiting"].nudged = b.nudged
  BY <1>2, <1>4
<1>5. ASSUME b.nudges < MaxNudges
      PROVE  /\ [b EXCEPT !.nudges = @ + 1] \in BookType
             /\ Page([b EXCEPT !.nudges = @ + 1], b.recoveries, b.nudges + 1, b.waits, b.repairs)
             /\ [b EXCEPT !.nudges = @ + 1].nudged = b.nudged
  BY <1>2, <1>5
<1>6. ASSUME b.recoveries < MaxRecoveries
      PROVE  /\ [b EXCEPT !.recoveries = @ + 1] \in BookType
             /\ Page([b EXCEPT !.recoveries = @ + 1], b.recoveries + 1, b.nudges, b.waits, b.repairs)
             /\ [b EXCEPT !.recoveries = @ + 1].nudged = b.nudged
  BY <1>2, <1>6
<1>7. ASSUME b.repairs < MaxRepairs
      PROVE  /\ [b EXCEPT !.repairs = @ + 1] \in BookType
             /\ Page([b EXCEPT !.repairs = @ + 1], b.recoveries, b.nudges, b.waits, b.repairs + 1)
  BY <1>2, <1>7
<1>8. /\ [b EXCEPT !.retry = "none"] \in BookType /\ SamePage(b, [b EXCEPT !.retry = "none"])
      /\ [b EXCEPT !.retry = "none"].nudged = b.nudged
  OBVIOUS
<1>9. /\ [b EXCEPT !.nudged = "this"] \in BookType /\ SamePage(b, [b EXCEPT !.nudged = "this"])
      /\ [b EXCEPT !.nudged = "this"].nudged = "this"
  OBVIOUS
<1> QED
  BY <1>3, <1>4, <1>5, <1>6, <1>7, <1>8, <1>9

\* What the actions that write a remedy into the book leave there.
LEMMA BookWritten ==
  ASSUME Typed
  PROVE  /\ \A kind \in Ends : SwitchOnFailure(kind) =>
              /\ book' \in BookType /\ book'.step = step /\ book'.nudged = Book.nudged
              /\ Page(book', Book.recoveries, Book.nudges, 0, Book.repairs)
         /\ \A kind \in Ends : WaitOnFailure(kind) =>
              /\ book' \in BookType /\ book'.step = step /\ book'.nudged = Book.nudged
              /\ Page(book', Book.recoveries, Book.nudges, Book.waits + 1, Book.repairs)
         /\ \A kind \in Ends : Reprompt(kind) =>
              /\ book' \in BookType /\ book'.step = step /\ book'.nudged = Book.nudged
              /\ Page(book', Book.recoveries, Book.nudges + 1, Book.waits, Book.repairs)
         /\ DueWait => /\ book' \in BookType /\ book'.step = step /\ book'.nudged = Book.nudged
                       /\ SamePage(Book, book')
         /\ NudgeNoted => /\ book' \in BookType /\ book'.step = step /\ book'.nudged = "this"
                          /\ SamePage(Book, book')
         /\ Guard => \/ book' = book /\ scan'.at = "notices"
                     \/ /\ book' \in BookType /\ book'.step = step /\ book'.nudged = Book.nudged /\ MayRecover
                        /\ Page(book', Book.recoveries + 1, Book.nudges, Book.waits, Book.repairs)
<1>0. Book \in BookType /\ step \in 1..MaxSteps /\ scan \in ScanType
  BY BookIs DEF Typed, KeptTyped, RestTyped
<1> USE DEF SamePage, Page
<1>1. ASSUME NEW kind \in Ends, SwitchOnFailure(kind)
      PROVE  /\ book' \in BookType /\ book'.step = step /\ book'.nudged = Book.nudged
             /\ Page(book', Book.recoveries, Book.nudges, 0, Book.repairs)
  <2> DEFINE new == [Book EXCEPT !.waits = 0, !.retry = "none"]
  <2>1. SetBook(new)
    BY <1>1 DEF SwitchOnFailure
  <2>2. new \in BookType /\ new.nudged = Book.nudged /\ Page(new, Book.recoveries, Book.nudges, 0, Book.repairs)
    BY <1>0, <2>1, BookWrites
  <2> HIDE DEF new
  <2> QED
    BY <1>0, <2>1, <2>2, SetBookIs
<1>2. ASSUME NEW kind \in Ends, WaitOnFailure(kind)
      PROVE  /\ book' \in BookType /\ book'.step = step /\ book'.nudged = Book.nudged
             /\ Page(book', Book.recoveries, Book.nudges, Book.waits + 1, Book.repairs)
  <2> DEFINE new == [Book EXCEPT !.waits = @ + 1, !.retry = "waiting"]
  <2>1. SetBook(new) /\ Book.waits < MaxWaits
    BY <1>2 DEF WaitOnFailure, WaitsLeft
  <2>2. /\ new \in BookType /\ new.nudged = Book.nudged
        /\ Page(new, Book.recoveries, Book.nudges, Book.waits + 1, Book.repairs)
    BY <1>0, <2>1, BookWrites
  <2> HIDE DEF new
  <2> QED
    BY <1>0, <2>1, <2>2, SetBookIs
<1>3. ASSUME NEW kind \in Ends, Reprompt(kind)
      PROVE  /\ book' \in BookType /\ book'.step = step /\ book'.nudged = Book.nudged
             /\ Page(book', Book.recoveries, Book.nudges + 1, Book.waits, Book.repairs)
  <2> DEFINE new == [Book EXCEPT !.nudges = @ + 1]
  <2>1. SetBook(new) /\ Book.nudges < MaxNudges
    BY <1>3 DEF Reprompt
  <2>2. /\ new \in BookType /\ new.nudged = Book.nudged
        /\ Page(new, Book.recoveries, Book.nudges + 1, Book.waits, Book.repairs)
    BY <1>0, <2>1, BookWrites
  <2> HIDE DEF new
  <2> QED
    BY <1>0, <2>1, <2>2, SetBookIs
<1>4. ASSUME DueWait
      PROVE  /\ book' \in BookType /\ book'.step = step /\ book'.nudged = Book.nudged
             /\ SamePage(Book, book')
  <2> DEFINE new == [Book EXCEPT !.retry = "none"]
  <2>1. SetBook(new)
    BY <1>4 DEF DueWait
  <2>2. new \in BookType /\ new.nudged = Book.nudged /\ SamePage(Book, new)
    BY <1>0, <2>1, BookWrites
  <2> HIDE DEF new
  <2> QED
    BY <1>0, <2>1, <2>2, SetBookIs
<1>5. ASSUME NudgeNoted
      PROVE  /\ book' \in BookType /\ book'.step = step /\ book'.nudged = "this"
             /\ SamePage(Book, book')
  <2> DEFINE new == [Book EXCEPT !.nudged = "this"]
  <2>1. SetBook(new)
    BY <1>5 DEF NudgeNoted
  <2>2. new \in BookType /\ new.nudged = "this" /\ SamePage(Book, new)
    BY <1>0, <2>1, BookWrites
  <2> HIDE DEF new
  <2> QED
    BY <1>0, <2>1, <2>2, SetBookIs
<1>6. ASSUME Guard
      PROVE  \/ book' = book /\ scan'.at = "notices"
             \/ /\ book' \in BookType /\ book'.step = step /\ book'.nudged = Book.nudged /\ MayRecover
                /\ Page(book', Book.recoveries + 1, Book.nudges, Book.waits, Book.repairs)
  <2>1. CASE MayRecover /\ Book.recoveries < MaxRecoveries /\ SetBook(OneMore)
    <3>1. OneMore \in BookType /\ OneMore.nudged = Book.nudged
          /\ Page(OneMore, Book.recoveries + 1, Book.nudges, Book.waits, Book.repairs)
      BY <1>0, <2>1, BookWrites DEF OneMore
    <3> QED
      BY <1>0, <2>1, <3>1, SetBookIs
  <2>2. CASE scan' = [scan EXCEPT !.at = "notices"] /\ UNCHANGED book
    BY <1>0, <2>2, ScanFields
  <2> QED
    BY <1>6, <2>1, <2>2 DEF Guard
<1> QED
  BY <1>1, <1>2, <1>3, <1>4, <1>5, <1>6

\* So does a report Pair finds mechanically wrong, for a rotated attempt.
LEMMA ReportWritten ==
  ASSUME Typed, NEW kind \in Ends, Report(kind)
  PROVE  /\ task \in TaskType /\ task.status = "running" /\ scan.at = "idle" /\ Revoked /\ Persist
         /\ \/ /\ book' \in BookType /\ book'.step = step
               /\ Page(book', Book.recoveries, Book.nudges, Book.waits, Book.repairs + 1)
               /\ UNCHANGED task /\ told' = {} /\ done' = [done EXCEPT !.repairs = Past(@, MaxRepairs), !.soft = 0]
            \/ task' \in TaskType /\ task'.status = "waiting" /\ UNCHANGED <<book, told, done>>
<1>0. Book \in BookType /\ step \in 1..MaxSteps /\ task \in TaskType /\ task.status = "running" /\ scan.at = "idle"
      /\ Revoked /\ Persist
  BY BookIs DEF Typed, KeptTyped, Report, Running, ScanIdle
<1>1. ASSUME Book.repairs < MaxRepairs, SetBook([Rotated(Book) EXCEPT !.repairs = @ + 1])
      PROVE  /\ book' \in BookType /\ book'.step = step
             /\ Page(book', Book.recoveries, Book.nudges, Book.waits, Book.repairs + 1)
  <2>1. Rotated(Book) \in BookType /\ SamePage(Book, Rotated(Book))
    BY <1>0, RotatedIs
  <2>2. Rotated(Book).repairs < MaxRepairs
    BY <1>1, <2>1 DEF SamePage, Page
  <2> DEFINE old == Rotated(Book)
             new == [old EXCEPT !.repairs = @ + 1]
  <2>3. SetBook(new) /\ old \in BookType /\ old.repairs < MaxRepairs
    BY <1>1, <2>1, <2>2
  <2>4. Page(old, Book.recoveries, Book.nudges, Book.waits, Book.repairs)
    BY <2>1 DEF SamePage
  <2> HIDE DEF old
  <2>5. new \in BookType /\ Page(new, old.recoveries, old.nudges, old.waits, old.repairs + 1)
    BY <2>3, BookWrites
  <2> HIDE DEF new
  <2> QED
    BY <1>0, <2>3, <2>4, <2>5, SetBookIs DEF SamePage, Page
<1>2. [task EXCEPT !.status = "waiting"] \in TaskType /\ [task EXCEPT !.status = "waiting"].status = "waiting"
  BY <1>0 DEF TaskType
<1> QED
  BY <1>0, <1>1, <1>2 DEF Report

\* The time of a retry changes nothing but the schedule.
LEMMA RetryWritten ==
  ASSUME Typed, RetryDue
  PROVE  /\ book' \in BookType /\ book'.step = book.step /\ SamePage(book, book') /\ book'.nudged = book.nudged
         /\ saved' \in SavedType /\ saved'.step = saved.step /\ saved'.steers = saved.steers
         /\ saved'.book.step = saved.book.step /\ SamePage(saved.book, saved'.book)
<1>1. book \in BookType /\ saved \in SavedType /\ saved.book \in BookType
  BY DEF Typed, KeptTyped, SavedTyped, SavedType
<1>2. \A b \in BookType : \A v \in {"none", "waiting", "due"} :
        /\ [b EXCEPT !.retry = v] \in BookType /\ [b EXCEPT !.retry = v].step = b.step
        /\ SamePage(b, [b EXCEPT !.retry = v]) /\ [b EXCEPT !.retry = v].nudged = b.nudged
  BY DEF BookType, SamePage, Page
<1>3. \A b \in BookType : (IF b.retry = "waiting" THEN "due" ELSE b.retry) \in {"none", "waiting", "due"}
  BY DEF BookType
<1>4. book' = [book EXCEPT !.retry = IF book.retry = "waiting" THEN "due" ELSE book.retry]
  BY DEF RetryDue
<1>5. saved' = [saved EXCEPT !.book = [saved.book EXCEPT !.retry =
                  IF saved.book.retry = "waiting" THEN "due" ELSE saved.book.retry]]
  BY DEF RetryDue
<1>6. \A b \in BookType : /\ [saved EXCEPT !.book = b] \in SavedType /\ [saved EXCEPT !.book = b].book = b
                          /\ [saved EXCEPT !.book = b].step = saved.step
                          /\ [saved EXCEPT !.book = b].steers = saved.steers
  BY <1>1 DEF SavedType
<1> DEFINE Due(b) == [b EXCEPT !.retry = IF b.retry = "waiting" THEN "due" ELSE b.retry]
<1>7. \A b \in BookType : /\ Due(b) \in BookType /\ Due(b).step = b.step /\ SamePage(b, Due(b))
                          /\ Due(b).nudged = b.nudged
  BY <1>2, <1>3
<1>8. book' = Due(book) /\ saved' = [saved EXCEPT !.book = Due(saved.book)]
  BY <1>4, <1>5
<1> HIDE DEF Due
<1> QED
  BY <1>1, <1>6, <1>7, <1>8

\* Each line of the history.
LEMMA Tallies ==
  ASSUME NEW d \in DoneType, NEW n
  PROVE  /\ Tally(Nothing, 0, 0, 0, 0, 0, 0)
         /\ Tally([d EXCEPT !.recoveries = n], n, d.nudges, d.waits, d.repairs, d.steers, d.soft)
         /\ Tally([d EXCEPT !.nudges = n], d.recoveries, n, d.waits, d.repairs, d.steers, d.soft)
         /\ Tally([d EXCEPT !.waits = n], d.recoveries, d.nudges, n, d.repairs, d.steers, d.soft)
         /\ Tally([d EXCEPT !.repairs = n, !.soft = 0], d.recoveries, d.nudges, d.waits, n, d.steers, 0)
         /\ Tally([d EXCEPT !.steers = n], d.recoveries, d.nudges, d.waits, d.repairs, n, d.soft)
         /\ Tally([d EXCEPT !.soft = n], d.recoveries, d.nudges, d.waits, d.repairs, d.steers, n)
         /\ Tally([d EXCEPT !.soft = 0, !.by = n], d.recoveries, d.nudges, d.waits, d.repairs, d.steers, 0)
  BY DEF DoneType, Tally, Nothing

\* A remedy is counted once more, or its line is at its end.
LEMMA PastTallies ==
  ASSUME NEW d \in DoneType, NEW limit \in Nat
  PROVE  /\ /\ [d EXCEPT !.recoveries = Past(@, limit)] \in DoneType
            /\ Tally([d EXCEPT !.recoveries = Past(@, limit)],
                     Past(d.recoveries, limit), d.nudges, d.waits, d.repairs, d.steers, d.soft)
         /\ /\ [d EXCEPT !.nudges = Past(@, limit)] \in DoneType
            /\ Tally([d EXCEPT !.nudges = Past(@, limit)],
                     d.recoveries, Past(d.nudges, limit), d.waits, d.repairs, d.steers, d.soft)
         /\ /\ [d EXCEPT !.waits = Past(@, limit)] \in DoneType
            /\ Tally([d EXCEPT !.waits = Past(@, limit)],
                     d.recoveries, d.nudges, Past(d.waits, limit), d.repairs, d.steers, d.soft)
         /\ /\ [d EXCEPT !.repairs = Past(@, limit), !.soft = 0] \in DoneType
            /\ Tally([d EXCEPT !.repairs = Past(@, limit), !.soft = 0],
                     d.recoveries, d.nudges, d.waits, Past(d.repairs, limit), d.steers, 0)
         /\ /\ Past(d.recoveries, limit) <= d.recoveries + 1 /\ Past(d.nudges, limit) <= d.nudges + 1
            /\ Past(d.waits, limit) <= d.waits + 1 /\ Past(d.repairs, limit) <= d.repairs + 1
<1>1. d.recoveries \in Nat /\ d.nudges \in Nat /\ d.waits \in Nat /\ d.repairs \in Nat
  BY DoneFields
<1>2. \A n \in Nat : Past(n, limit) \in Nat /\ Past(n, limit) <= n + 1
  BY PastIs
<1>3. /\ [d EXCEPT !.recoveries = Past(@, limit)] \in DoneType /\ [d EXCEPT !.nudges = Past(@, limit)] \in DoneType
      /\ [d EXCEPT !.waits = Past(@, limit)] \in DoneType
      /\ [d EXCEPT !.repairs = Past(@, limit), !.soft = 0] \in DoneType
  BY <1>1, <1>2, DoneFields
<1> QED
  BY <1>1, <1>2, <1>3, Tallies

\* A refund takes one steer of the task's step back, and none below zero.
LEMMA RefundedIs ==
  ASSUME Typed
  PROVE  /\ Refunded \in SteersType /\ Refunded.step = step
         /\ steers.step # step => Refunded.count = 0
         /\ steers.step = step /\ steers.count > 0 => Refunded.count = steers.count - 1
<1>1. steers.count \in 0..MaxSteers /\ MaxSteers \in Nat /\ step \in 1..MaxSteps
  BY Bounds DEF Typed, KeptTyped, SteersType
<1>2. CASE steers.step # step
  BY <1>1, <1>2 DEF Refunded, SteersType
<1>3. CASE steers.step = step /\ steers.count = 0
  BY <1>1, <1>3 DEF Refunded, SteersType
<1>4. CASE steers.step = step /\ steers.count # 0
  <2>1. steers.count - 1 \in 0..MaxSteers
    BY <1>1, <1>4
  <2>2. Refunded = [step |-> step, count |-> steers.count - 1]
    BY <1>4 DEF Refunded
  <2> QED
    BY <1>1, <1>4, <2>1, <2>2 DEF SteersType
<1> QED
  BY <1>2, <1>3, <1>4


\* Where each of the actions leaves the scan.
LEMMA ScanMoves ==
  ASSUME KeptTyped, RestTyped, SavedTyped, SwitchLeft
  PROVE  /\ (\E kind \in Ends : SwitchOnFailure(kind)) => scan'.at = "containing"
         /\ (\E kind \in Ends : WaitOnFailure(kind)) => scan'.at = "containing"
         /\ (\E kind \in Ends : WaitsSpent(kind)) => scan'.at = "containing"
         /\ (\E kind \in Ends : Reprompt(kind)) => scan'.at = "containing"
         /\ (\E kind \in Ends : HoldNoReport(kind)) => scan'.at = "containing"
         /\ (\E kind \in Ends : Fault(kind)) => scan'.at = "containing"
         /\ (\E kind \in Ends : LimitReached(kind)) => scan'.at = "containing"
         /\ (\E kind \in Ends : Hang(kind)) => scan'.at = "containing"
         /\ DueWait => scan'.at \in {"guard", "notices"}
         /\ Contained => scan'.at \in {"containing", "notices", "switching", "follow", "guard"}
         /\ ProveExit => scan'.at \in {"guard", "notices"}
         /\ Guard => scan'.at \in {"counted", "notices"}
         /\ Counted => scan'.at \in {"stopping", "resuming"}
         /\ StopFirst => scan'.at \in {"resuming", "notices"}
         /\ SwitchStop => scan'.at \in {"stopped", "notices"}
         /\ SwitchRecord => scan'.at \in {"resuming", "notices"}
         /\ AutoResume => scan'.at = "notices"
         /\ ScanEnds => scan'.at = "idle"
         /\ Cancel => scan'.at = scan.at
         /\ Pause => scan'.at = scan.at
         /\ Stop => scan'.at = scan.at
         /\ RecoverStops => scan'.at = scan.at
         /\ Restart => scan'.at = "idle"
<1>0. scan \in ScanType /\ Typed
  BY DEF RestTyped, Typed
<1>1. ASSUME NEW kind \in Ends, SwitchOnFailure(kind) PROVE scan'.at = "containing"
  BY <1>0, <1>1 DEF SwitchOnFailure, ScanJob
<1>2. ASSUME NEW kind \in Ends, WaitOnFailure(kind) PROVE scan'.at = "containing"
  BY <1>0, <1>2 DEF WaitOnFailure, ScanJob
<1>3. ASSUME NEW kind \in Ends, WaitsSpent(kind) PROVE scan'.at = "containing"
  BY <1>0, <1>3 DEF WaitsSpent, ScanJob
<1>4. ASSUME NEW kind \in Ends, Reprompt(kind) PROVE scan'.at = "containing"
  BY <1>0, <1>4 DEF Reprompt, ScanJob
<1>5. ASSUME NEW kind \in Ends, HoldNoReport(kind) PROVE scan'.at = "containing"
  BY <1>0, <1>5 DEF HoldNoReport, ScanJob
<1>6. ASSUME NEW kind \in Ends, Fault(kind) PROVE scan'.at = "containing"
  BY <1>0, <1>6 DEF Fault, ScanJob
<1>7. ASSUME NEW kind \in Ends, LimitReached(kind) PROVE scan'.at = "containing"
  BY <1>0, <1>7 DEF LimitReached, ScanJob
<1>8. ASSUME NEW kind \in Ends, Hang(kind) PROVE scan'.at = "containing"
  BY <1>0, <1>8 DEF Hang, ScanJob
<1>9. ASSUME DueWait PROVE scan'.at \in {"guard", "notices"}
  BY <1>0, <1>9 DEF DueWait, ScanType
<1>10. ASSUME Contained PROVE scan'.at \in {"containing", "notices", "switching", "follow", "guard"}
  BY <1>0, <1>10 DEF Contained, ScanType
<1>11. ASSUME ProveExit PROVE scan'.at \in {"guard", "notices"}
  BY <1>0, <1>11 DEF ProveExit, ScanType
<1>12. ASSUME Guard PROVE scan'.at \in {"counted", "notices"}
  BY <1>0, <1>12 DEF Guard, ScanType
<1>13. ASSUME Counted PROVE scan'.at \in {"stopping", "resuming"}
  BY <1>0, <1>13 DEF Counted, ScanType
<1>14. ASSUME StopFirst PROVE scan'.at \in {"resuming", "notices"}
  BY <1>0, <1>14, StopsIs DEF StopFirst
<1>15. ASSUME SwitchStop PROVE scan'.at \in {"stopped", "notices"}
  <2>1. CASE Stops("stopped", "notices")
    BY <1>0, <2>1, StopsIs
  <2>2. CASE scan' = [scan EXCEPT !.at = "notices"]
    BY <1>0, <2>2 DEF ScanType
  <2> QED
    BY <1>15, <2>1, <2>2 DEF SwitchStop
<1>16. ASSUME SwitchRecord PROVE scan'.at \in {"resuming", "notices"}
  BY <1>0, <1>16 DEF SwitchRecord, ScanType
<1>17. ASSUME AutoResume PROVE scan'.at = "notices"
  BY <1>0, <1>17 DEF AutoResume, ScanType
<1>18. ASSUME ScanEnds PROVE scan'.at = "idle"
  BY <1>0, <1>18, ScanFields DEF ScanEnds
<1>19. ASSUME Cancel PROVE scan'.at = scan.at
  BY <1>0, <1>19 DEF Cancel, Supersede, ScanType
<1>20. ASSUME Pause PROVE scan'.at = scan.at
  BY <1>0, <1>20 DEF Pause, Supersede, ScanType
<1>21. ASSUME Stop PROVE scan'.at = scan.at
  BY <1>0, <1>21 DEF Stop, Supersede, ScanType
<1>22. ASSUME RecoverStops PROVE scan'.at = scan.at
  BY <1>0, <1>22 DEF RecoverStops, Supersede, ScanType
<1>23. ASSUME Restart PROVE scan'.at = "idle"
  BY <1>0, <1>23, ScanFields DEF Restart
<1> QED
  BY <1>1, <1>2, <1>3, <1>4, <1>5, <1>6, <1>7, <1>8, <1>9, <1>10, <1>11, <1>12, <1>13, <1>14, <1>15, <1>16,
     <1>17, <1>18, <1>19, <1>20, <1>21, <1>22, <1>23

\* The values the actions write.
LEMMA Names ==
  /\ \A w \in WorkerType : w \in {"live", "error", "unconfirmed", "stopped"}
  /\ {"live", "error", "unconfirmed", "stopped"} \subseteq WorkerType
  /\ {"interrupted", "paused", "waiting"} \subseteq States /\ {} \subseteq States
  /\ [status |-> "waiting", human |-> FALSE, why |-> "none"] \in TaskType
  /\ [status |-> "running", human |-> FALSE, why |-> "none"] \in TaskType
  /\ [status |-> "held", human |-> TRUE, why |-> "none"] \in TaskType
  /\ [status |-> "paused", human |-> TRUE, why |-> "none"] \in TaskType
  /\ Kinds = {"none", "crash", "no-report", "provider", "fallback", "tool", "stalled", "frozen"}
  BY DEF WorkerType, States, TaskType, Kinds

\* What becomes of a task's record.
LEMMA TaskFields ==
  ASSUME NEW t \in TaskType
  PROVE  /\ [t EXCEPT !.status = "paused", !.why = "limit"] \in TaskType
         /\ [t EXCEPT !.status = "paused", !.why = "limit"].status = "paused"
         /\ [t EXCEPT !.status = "done"] \in TaskType /\ [t EXCEPT !.status = "done"].status = "done"
         /\ [t EXCEPT !.status = "interrupted", !.why = "stop"] \in TaskType
         /\ [t EXCEPT !.status = "interrupted", !.why = "stop"].status = "interrupted"
         /\ [t EXCEPT !.status = "interrupted", !.why = "restart"] \in TaskType
         /\ [t EXCEPT !.status = "interrupted", !.why = "restart"].status = "interrupted"
  BY DEF TaskType

\* Every step keeps the types.
LEMMA TypeStep == Typed /\ [Next]_vars => Typed'
<1> SUFFICES ASSUME Typed, [Next]_vars PROVE Typed'
  OBVIOUS
<1>0. KeptTyped /\ RestTyped /\ SavedTyped /\ SwitchLeft
  BY DEF Typed
<1>a. /\ task \in TaskType /\ worker \in WorkerType /\ step \in 1..MaxSteps /\ book \in BookType
      /\ steers \in SteersType /\ fallback \in 0..Fallbacks /\ mains \in 0..MaxMain
  BY <1>0 DEF KeptTyped
<1>b. /\ scan \in ScanType /\ done \in DoneType /\ sending \in SendingType /\ on \in BOOLEAN /\ spent \in BOOLEAN
      /\ recovery \in RecoveryType /\ told \subseteq States /\ calls \in 0..MaxCalls
  BY <1>0 DEF RestTyped
<1>c. /\ saved.task \in TaskType /\ saved.step \in 1..MaxSteps /\ saved.book \in BookType
      /\ saved.steers \in SteersType /\ saved.fallback \in 0..Fallbacks /\ saved.mains \in 0..MaxMain
  BY <1>0 DEF SavedTyped, SavedType
<1> USE DEF durable
<1>1. ASSUME NEW kind \in Ends, SwitchOnFailure(kind) PROVE Typed'
  <2>1. task' \in TaskType
    BY <1>1, <1>a, <1>b, InterruptIs DEF SwitchOnFailure
  <2>2. worker' \in WorkerType
    BY <1>1, <1>a, <1>b, InterruptIs DEF SwitchOnFailure
  <2>3. book' \in BookType
    BY <1>1, <1>a, <1>b, BookWritten DEF SwitchOnFailure
  <2>4. scan' \in ScanType
    BY <1>1, <1>a, <1>b DEF SwitchOnFailure, ScanJob, ScanType, Kinds
  <2>5. sending' \in SendingType
    BY <1>1, <1>a, <1>b, InterruptIs, RevokedIs DEF SwitchOnFailure
  <2>6. done' \in DoneType
    BY <1>1, <1>a, <1>b, DoneFields, PastTallies, Bounds DEF SwitchOnFailure
  <2>7. KeptTyped'
    BY <1>1, <1>a, <1>b, <2>1, <2>2, <2>3 DEF SwitchOnFailure, KeptTyped
  <2>8. RestTyped'
    BY <1>1, <1>a, <1>b, <2>4, <2>5, <2>6 DEF SwitchOnFailure, RestTyped
  <2>9. SavedTyped'
    BY <1>1, <2>7, PersistIs DEF SwitchOnFailure
  <2>10. SwitchLeft'
    BY <1>1, <1>0, ScanMoves DEF SwitchOnFailure, SwitchLeft
  <2> QED
    BY <2>7, <2>8, <2>9, <2>10 DEF Typed
<1>2. ASSUME NEW kind \in Ends, WaitOnFailure(kind) PROVE Typed'
  <2>1. task' \in TaskType
    BY <1>2, <1>a, <1>b, InterruptIs DEF WaitOnFailure
  <2>2. worker' \in WorkerType
    BY <1>2, <1>a, <1>b, InterruptIs DEF WaitOnFailure
  <2>3. book' \in BookType
    BY <1>2, <1>a, <1>b, BookWritten DEF WaitOnFailure
  <2>4. scan' \in ScanType
    BY <1>2, <1>a, <1>b DEF WaitOnFailure, ScanJob, ScanType, Kinds
  <2>5. sending' \in SendingType
    BY <1>2, <1>a, <1>b, InterruptIs, RevokedIs DEF WaitOnFailure
  <2>6. done' \in DoneType
    BY <1>2, <1>a, <1>b, DoneFields, PastTallies, Bounds DEF WaitOnFailure
  <2>7. KeptTyped'
    BY <1>2, <1>a, <1>b, <2>1, <2>2, <2>3 DEF WaitOnFailure, KeptTyped
  <2>8. RestTyped'
    BY <1>2, <1>a, <1>b, <2>4, <2>5, <2>6 DEF WaitOnFailure, RestTyped
  <2>9. SavedTyped'
    BY <1>2, <2>7, PersistIs DEF WaitOnFailure
  <2>10. SwitchLeft'
    BY <1>2, <1>0, ScanMoves DEF WaitOnFailure, SwitchLeft
  <2> QED
    BY <2>7, <2>8, <2>9, <2>10 DEF Typed
<1>3. ASSUME NEW kind \in Ends, WaitsSpent(kind) PROVE Typed'
  <2>1. task' \in TaskType
    BY <1>3, <1>a, <1>b, InterruptIs DEF WaitsSpent
  <2>2. worker' \in WorkerType
    BY <1>3, <1>a, <1>b, InterruptIs DEF WaitsSpent
  <2>3. scan' \in ScanType
    BY <1>3, <1>a, <1>b DEF WaitsSpent, ScanJob, ScanType, Kinds
  <2>4. sending' \in SendingType
    BY <1>3, <1>a, <1>b, InterruptIs, RevokedIs DEF WaitsSpent
  <2>5. KeptTyped'
    BY <1>3, <1>a, <1>b, <2>1, <2>2 DEF WaitsSpent, KeptTyped
  <2>6. RestTyped'
    BY <1>3, <1>a, <1>b, <2>3, <2>4 DEF WaitsSpent, RestTyped
  <2>7. SavedTyped'
    BY <1>3, <2>5, PersistIs DEF WaitsSpent
  <2>8. SwitchLeft'
    BY <1>3, <1>0, ScanMoves DEF WaitsSpent, SwitchLeft
  <2> QED
    BY <2>5, <2>6, <2>7, <2>8 DEF Typed
<1>4. ASSUME NEW kind \in Ends, Reprompt(kind) PROVE Typed'
  <2>1. task' \in TaskType
    BY <1>4, <1>a, <1>b, InterruptIs DEF Reprompt
  <2>2. worker' \in WorkerType
    BY <1>4, <1>a, <1>b, InterruptIs DEF Reprompt
  <2>3. book' \in BookType
    BY <1>4, <1>a, <1>b, BookWritten DEF Reprompt
  <2>4. scan' \in ScanType
    BY <1>4, <1>a, <1>b DEF Reprompt, ScanJob, ScanType, Kinds
  <2>5. sending' \in SendingType
    BY <1>4, <1>a, <1>b, InterruptIs, RevokedIs DEF Reprompt
  <2>6. done' \in DoneType
    BY <1>4, <1>a, <1>b, DoneFields, PastTallies, Bounds DEF Reprompt
  <2>7. KeptTyped'
    BY <1>4, <1>a, <1>b, <2>1, <2>2, <2>3 DEF Reprompt, KeptTyped
  <2>8. RestTyped'
    BY <1>4, <1>a, <1>b, <2>4, <2>5, <2>6 DEF Reprompt, RestTyped
  <2>9. SavedTyped'
    BY <1>4, <2>7, PersistIs DEF Reprompt
  <2>10. SwitchLeft'
    BY <1>4, <1>0, ScanMoves DEF Reprompt, SwitchLeft
  <2> QED
    BY <2>7, <2>8, <2>9, <2>10 DEF Typed
<1>5. ASSUME NEW kind \in Ends, HoldNoReport(kind) PROVE Typed'
  <2>1. task' \in TaskType
    BY <1>5, <1>a, <1>b, InterruptIs DEF HoldNoReport
  <2>2. worker' \in WorkerType
    BY <1>5, <1>a, <1>b, InterruptIs DEF HoldNoReport
  <2>3. scan' \in ScanType
    BY <1>5, <1>a, <1>b DEF HoldNoReport, ScanJob, ScanType, Kinds
  <2>4. sending' \in SendingType
    BY <1>5, <1>a, <1>b, InterruptIs, RevokedIs DEF HoldNoReport
  <2>5. KeptTyped'
    BY <1>5, <1>a, <1>b, <2>1, <2>2 DEF HoldNoReport, KeptTyped
  <2>6. RestTyped'
    BY <1>5, <1>a, <1>b, <2>3, <2>4 DEF HoldNoReport, RestTyped
  <2>7. SavedTyped'
    BY <1>5, <2>5, PersistIs DEF HoldNoReport
  <2>8. SwitchLeft'
    BY <1>5, <1>0, ScanMoves DEF HoldNoReport, SwitchLeft
  <2> QED
    BY <2>5, <2>6, <2>7, <2>8 DEF Typed
<1>6. ASSUME NEW kind \in Ends, Fault(kind) PROVE Typed'
  <2>1. task' \in TaskType
    BY <1>6, <1>a, <1>b, InterruptIs DEF Fault
  <2>2. worker' \in WorkerType
    BY <1>6, <1>a, <1>b, InterruptIs DEF Fault
  <2>3. scan' \in ScanType
    <3>1. CASE ScanJob("crash")
      BY <3>1 DEF ScanJob, ScanType, Kinds
    <3>2. CASE ScanJob("none")
      BY <3>2 DEF ScanJob, ScanType, Kinds
    <3> QED
      BY <1>6, <3>1, <3>2 DEF Fault
  <2>4. sending' \in SendingType
    BY <1>6, <1>a, <1>b, InterruptIs, RevokedIs DEF Fault
  <2>5. KeptTyped'
    BY <1>6, <1>a, <1>b, <2>1, <2>2 DEF Fault, KeptTyped
  <2>6. RestTyped'
    BY <1>6, <1>a, <1>b, <2>3, <2>4 DEF Fault, RestTyped
  <2>7. SavedTyped'
    BY <1>6, <2>5, PersistIs DEF Fault
  <2>8. SwitchLeft'
    BY <1>6, <1>0, ScanMoves DEF Fault, SwitchLeft
  <2> QED
    BY <2>5, <2>6, <2>7, <2>8 DEF Typed
<1>7. ASSUME NEW kind \in Ends, LimitReached(kind) PROVE Typed'
  <2>1. task' \in TaskType
    BY <1>7, <1>a, <1>b, TaskFields, Names DEF LimitReached
  <2>2. scan' \in ScanType
    BY <1>7, <1>a, <1>b DEF LimitReached, ScanJob, ScanType, Kinds
  <2>3. sending' \in SendingType
    BY <1>7, <1>a, <1>b, RevokedIs DEF LimitReached
  <2>4. KeptTyped'
    BY <1>7, <1>a, <1>b, <2>1 DEF LimitReached, KeptTyped
  <2>5. RestTyped'
    BY <1>7, <1>a, <1>b, <2>2, <2>3 DEF LimitReached, RestTyped
  <2>6. SavedTyped'
    BY <1>7, <2>4, PersistIs DEF LimitReached
  <2>7. SwitchLeft'
    BY <1>7, <1>0, ScanMoves DEF LimitReached, SwitchLeft
  <2> QED
    BY <2>4, <2>5, <2>6, <2>7 DEF Typed
<1>8. ASSUME NEW kind \in Ends, Hang(kind) PROVE Typed'
  <2>1. task' \in TaskType
    BY <1>8, <1>a, <1>b, InterruptIs DEF Hang
  <2>2. worker' \in WorkerType
    BY <1>8, <1>a, <1>b, InterruptIs DEF Hang
  <2>3. scan' \in ScanType
    BY <1>8, <1>a, <1>b DEF Hang, ScanJob, ScanType, Kinds
  <2>4. sending' \in SendingType
    BY <1>8, <1>a, <1>b, InterruptIs, RevokedIs DEF Hang
  <2>5. KeptTyped'
    BY <1>8, <1>a, <1>b, <2>1, <2>2 DEF Hang, KeptTyped
  <2>6. RestTyped'
    BY <1>8, <1>a, <1>b, <2>3, <2>4 DEF Hang, RestTyped
  <2>7. SavedTyped'
    BY <1>8, <2>5, PersistIs DEF Hang
  <2>8. SwitchLeft'
    BY <1>8, <1>0, ScanMoves DEF Hang, SwitchLeft
  <2> QED
    BY <2>5, <2>6, <2>7, <2>8 DEF Typed
<1>9. ASSUME NEW kind \in Ends, Report(kind) PROVE Typed'
  <2>1. task' \in TaskType
    BY <1>9, <1>a, <1>b, ReportWritten DEF Report
  <2>2. book' \in BookType
    BY <1>9, <1>a, <1>b, ReportWritten DEF Report
  <2>3. sending' \in SendingType
    BY <1>9, <1>a, <1>b, ReportWritten, RevokedIs DEF Report
  <2>4. told' \subseteq States
    BY <1>9, <1>a, <1>b, ReportWritten, Names DEF Report
  <2>5. done' \in DoneType
    BY <1>9, <1>a, <1>b, ReportWritten, PastTallies, Bounds DEF Report
  <2>6. KeptTyped'
    BY <1>9, <1>a, <1>b, <2>1, <2>2 DEF Report, KeptTyped
  <2>7. RestTyped'
    BY <1>9, <1>a, <1>b, <2>3, <2>4, <2>5 DEF Report, RestTyped
  <2>8. SavedTyped'
    BY <1>9, <2>6, PersistIs DEF Report
  <2>9. SwitchLeft'
    BY <1>9, <1>0 DEF Report, SwitchLeft
  <2> QED
    BY <2>6, <2>7, <2>8, <2>9 DEF Typed
<1>10. ASSUME DueWait PROVE Typed'
  <2>1. book' \in BookType
    BY <1>10, <1>a, <1>b, BookWritten DEF DueWait
  <2>2. scan' \in ScanType
    BY <1>10, <1>a, <1>b DEF DueWait, ScanType, Kinds
  <2>3. KeptTyped'
    BY <1>10, <1>a, <1>b, <2>1 DEF DueWait, KeptTyped
  <2>4. RestTyped'
    BY <1>10, <1>a, <1>b, <2>2 DEF DueWait, RestTyped
  <2>5. SavedTyped'
    BY <1>10, <2>3, PersistIs DEF DueWait
  <2>6. SwitchLeft'
    BY <1>10, <1>0, ScanMoves DEF DueWait, SwitchLeft
  <2> QED
    BY <2>3, <2>4, <2>5, <2>6 DEF Typed
<1>11. ASSUME ScanQuiet PROVE Typed'
  <2>1. told' \subseteq States
    BY <1>11, <1>a, <1>b DEF ScanQuiet, WakeFor, States
  <2>2. KeptTyped'
    BY <1>11, <1>a, <1>b DEF ScanQuiet, KeptTyped
  <2>3. RestTyped'
    BY <1>11, <1>a, <1>b, <2>1 DEF ScanQuiet, RestTyped
  <2>4. SavedTyped'
    BY <1>11, <1>0 DEF ScanQuiet, SavedTyped
  <2>5. SwitchLeft'
    BY <1>11, <1>0 DEF ScanQuiet, SwitchLeft
  <2> QED
    BY <2>2, <2>3, <2>4, <2>5 DEF Typed
<1>12. ASSUME Contained PROVE Typed'
  <2>1. worker' \in WorkerType
    BY <1>12, <1>a, <1>b, Names DEF Contained
  <2>2. scan' \in ScanType
    BY <1>12, <1>a, <1>b DEF Contained, ScanType
  <2>3. KeptTyped'
    BY <1>12, <1>a, <1>b, <2>1 DEF Contained, KeptTyped
  <2>4. RestTyped'
    BY <1>12, <1>a, <1>b, <2>2 DEF Contained, RestTyped
  <2>5. SavedTyped'
    BY <1>12, <2>3, PersistIs DEF Contained
  <2>6. SwitchLeft'
    BY <1>12, <1>0, ScanMoves DEF Contained, SwitchLeft
  <2> QED
    BY <2>3, <2>4, <2>5, <2>6 DEF Typed
<1>13. ASSUME ProveExit PROVE Typed'
  <2>1. scan' \in ScanType
    BY <1>13, <1>a, <1>b DEF ProveExit, ScanType
  <2>2. KeptTyped'
    BY <1>13, <1>a, <1>b DEF ProveExit, KeptTyped
  <2>3. RestTyped'
    BY <1>13, <1>a, <1>b, <2>1 DEF ProveExit, RestTyped
  <2>4. SavedTyped'
    BY <1>13, <1>0 DEF ProveExit, SavedTyped
  <2>5. SwitchLeft'
    BY <1>13, <1>0, ScanMoves DEF ProveExit, SwitchLeft
  <2> QED
    BY <2>2, <2>3, <2>4, <2>5 DEF Typed
<1>14. ASSUME Guard PROVE Typed'
  <2>1. book' \in BookType
    BY <1>14, <1>a, <1>b, BookWritten DEF Guard
  <2>2. scan' \in ScanType
    BY <1>14, <1>a, <1>b DEF Guard, ScanType
  <2>3. KeptTyped'
    BY <1>14, <1>a, <1>b, <2>1 DEF Guard, KeptTyped
  <2>4. RestTyped'
    BY <1>14, <1>a, <1>b, <2>2 DEF Guard, RestTyped
  <2>5. SavedTyped'
    BY <1>14, <1>0 DEF Guard, SavedTyped
  <2>6. SwitchLeft'
    BY <1>14, <1>0, ScanMoves DEF Guard, SwitchLeft
  <2> QED
    BY <2>3, <2>4, <2>5, <2>6 DEF Typed
<1>15. ASSUME Counted PROVE Typed'
  <2>1. scan' \in ScanType
    BY <1>15, <1>a, <1>b DEF Counted, ScanType
  <2>2. done' \in DoneType
    BY <1>15, <1>a, <1>b, DoneFields, PastTallies, Bounds DEF Counted
  <2>3. KeptTyped'
    BY <1>15, <1>a, <1>b DEF Counted, KeptTyped
  <2>4. RestTyped'
    BY <1>15, <1>a, <1>b, <2>1, <2>2 DEF Counted, RestTyped
  <2>5. SavedTyped'
    BY <1>15, <2>3, PersistIs DEF Counted
  <2>6. SwitchLeft'
    BY <1>15, <1>0, ScanMoves DEF Counted, SwitchLeft
  <2> QED
    BY <2>3, <2>4, <2>5, <2>6 DEF Typed
<1>16. ASSUME StopFirst PROVE Typed'
  <2>1. task' \in TaskType
    BY <1>16, <1>a, <1>b, StopsIs DEF StopFirst
  <2>2. worker' \in WorkerType
    BY <1>16, <1>a, <1>b, StopsIs DEF StopFirst
  <2>3. scan' \in ScanType
    BY <1>16, <1>a, <1>b, StopsIs DEF StopFirst
  <2>4. sending' \in SendingType
    BY <1>16, <1>a, <1>b, RevokedIs DEF StopFirst
  <2>5. KeptTyped'
    BY <1>16, <1>a, <1>b, <2>1, <2>2 DEF StopFirst, KeptTyped
  <2>6. RestTyped'
    BY <1>16, <1>a, <1>b, <2>3, <2>4 DEF StopFirst, RestTyped
  <2>7. SavedTyped'
    BY <1>16, <2>5, PersistIs DEF StopFirst
  <2>8. SwitchLeft'
    BY <1>16, <1>0, ScanMoves DEF StopFirst, SwitchLeft
  <2> QED
    BY <2>5, <2>6, <2>7, <2>8 DEF Typed
<1>17. ASSUME SwitchStop PROVE Typed'
  <2>1. task' \in TaskType
    BY <1>17, <1>a, <1>b, StopsIs DEF SwitchStop
  <2>2. worker' \in WorkerType
    BY <1>17, <1>a, <1>b, StopsIs DEF SwitchStop
  <2>3. scan' \in ScanType
    <3>1. CASE Stops("stopped", "notices")
      BY <3>1, StopsIs
    <3>2. CASE scan' = [scan EXCEPT !.at = "notices"]
      BY <1>b, <3>2 DEF ScanType
    <3> QED
      BY <1>17, <3>1, <3>2 DEF SwitchStop
  <2>4. sending' \in SendingType
    BY <1>17, <1>a, <1>b, RevokedIs DEF SwitchStop
  <2>5. KeptTyped'
    BY <1>17, <1>a, <1>b, <2>1, <2>2 DEF SwitchStop, KeptTyped
  <2>6. RestTyped'
    BY <1>17, <1>a, <1>b, <2>3, <2>4 DEF SwitchStop, RestTyped
  <2>7. SavedTyped'
    BY <1>17, <2>5, PersistIs DEF SwitchStop
  <2>8. SwitchLeft'
    <3>1. CASE fallback < Fallbacks /\ UNCHANGED fallback
      BY <3>1 DEF SwitchLeft
    <3>2. CASE scan' = [scan EXCEPT !.at = "notices"]
      BY <1>b, <3>2 DEF ScanType, SwitchLeft
    <3> QED
      BY <1>17, <3>1, <3>2 DEF SwitchStop
  <2> QED
    BY <2>5, <2>6, <2>7, <2>8 DEF Typed
<1>18. ASSUME SwitchRecord PROVE Typed'
  <2>1. fallback' \in 0..Fallbacks
    <3>1. scan.at = "stopped" /\ fallback' \in {fallback, fallback + 1}
      BY <1>18 DEF SwitchRecord
    <3> QED
      BY <1>0, <1>a, <3>1, Bounds DEF SwitchLeft
  <2>2. scan' \in ScanType
    BY <1>18, <1>a, <1>b DEF SwitchRecord, ScanType
  <2>3. KeptTyped'
    BY <1>18, <1>a, <1>b, <2>1 DEF SwitchRecord, KeptTyped
  <2>4. RestTyped'
    BY <1>18, <1>a, <1>b, <2>2 DEF SwitchRecord, RestTyped
  <2>5. SavedTyped'
    BY <1>18, <2>3, PersistIs DEF SwitchRecord
  <2>6. SwitchLeft'
    BY <1>18, <1>0, ScanMoves DEF SwitchRecord, SwitchLeft
  <2> QED
    BY <2>3, <2>4, <2>5, <2>6 DEF Typed
<1>19. ASSUME AutoResume PROVE Typed'
  <2>1. task' \in TaskType
    BY <1>19, <1>a, <1>b, ResumedIs DEF AutoResume
  <2>2. worker' \in WorkerType
    BY <1>19, <1>a, <1>b, ResumedIs DEF AutoResume
  <2>3. book' \in BookType
    BY <1>19, <1>a, <1>b, ResumedIs DEF AutoResume
  <2>4. scan' \in ScanType
    BY <1>19, <1>a, <1>b DEF AutoResume, ScanType
  <2>5. told' \subseteq States
    BY <1>19, <1>a, <1>b, ResumedIs DEF AutoResume
  <2>6. done' \in DoneType
    BY <1>19, <1>a, <1>b, ResumedIs DEF AutoResume
  <2>7. KeptTyped'
    BY <1>19, <1>a, <1>b, <2>1, <2>2, <2>3 DEF AutoResume, KeptTyped
  <2>8. RestTyped'
    BY <1>19, <1>a, <1>b, <2>4, <2>5, <2>6 DEF AutoResume, RestTyped
  <2>9. SavedTyped'
    BY <1>19, <2>7, PersistIs DEF AutoResume
  <2>10. SwitchLeft'
    BY <1>19, <1>0, ScanMoves DEF AutoResume, SwitchLeft
  <2> QED
    BY <2>7, <2>8, <2>9, <2>10 DEF Typed
<1>20. ASSUME ScanEnds PROVE Typed'
  <2>1. scan' \in ScanType
    BY <1>20, <1>a, <1>b, ScanFields DEF ScanEnds
  <2>2. told' \subseteq States
    BY <1>20, <1>a, <1>b DEF ScanEnds, WakeFor, States
  <2>3. KeptTyped'
    BY <1>20, <1>a, <1>b DEF ScanEnds, KeptTyped
  <2>4. RestTyped'
    BY <1>20, <1>a, <1>b, <2>1, <2>2 DEF ScanEnds, RestTyped
  <2>5. SavedTyped'
    BY <1>20, <1>0 DEF ScanEnds, SavedTyped
  <2>6. SwitchLeft'
    BY <1>20, <1>0, ScanMoves DEF ScanEnds, SwitchLeft
  <2> QED
    BY <2>3, <2>4, <2>5, <2>6 DEF Typed
<1>21. ASSUME Approve PROVE Typed'
  <2>1. task' \in TaskType
    <3>1. [task EXCEPT !.status = "done"] \in TaskType
      BY <1>a, TaskFields
    <3> QED
      BY <1>21, <3>1, Names DEF Approve
  <2>2. worker' \in WorkerType
    BY <1>21, <1>a, <1>b, Names DEF Approve
  <2>3. step' \in 1..MaxSteps
    BY <1>21, <1>a, <1>b, Bounds DEF Approve
  <2>4. book' \in BookType
    BY <1>21, <1>a, <1>b, RotatedIs DEF Approve
  <2>5. mains' \in 0..MaxMain
    BY <1>21, <1>a, <1>b, Bounds DEF Approve
  <2>6. told' \subseteq States
    BY <1>21, <1>a, <1>b, TaskFields, Names DEF Approve
  <2>7. done' \in DoneType
    BY <1>21, <1>a, <1>b, DoneFields, PastTallies, Bounds DEF Approve
  <2>8. KeptTyped'
    BY <1>21, <1>a, <1>b, <2>1, <2>2, <2>3, <2>4, <2>5 DEF Approve, KeptTyped
  <2>9. RestTyped'
    BY <1>21, <1>a, <1>b, <2>6, <2>7 DEF Approve, RestTyped
  <2>10. SavedTyped'
    BY <1>21, <2>8, PersistIs DEF Approve
  <2>11. SwitchLeft'
    BY <1>21, <1>0 DEF Approve, SwitchLeft
  <2> QED
    BY <2>8, <2>9, <2>10, <2>11 DEF Typed
<1>22. ASSUME Revise PROVE Typed'
  <2>1. task' \in TaskType
    BY <1>22, <1>a, <1>b, TaskFields, Names DEF Revise, Activate
  <2>2. worker' \in WorkerType
    BY <1>22, <1>a, <1>b, Names DEF Revise, Activate
  <2>3. book' \in BookType
    BY <1>22, <1>a, <1>b, RotatedIs DEF Revise, Activate
  <2>4. told' \subseteq States
    BY <1>22, <1>a, <1>b, TaskFields, Names DEF Revise, Activate
  <2>5. calls' \in 0..MaxCalls
    BY <1>22, <1>a, <1>b, Bounds DEF Revise, Call
  <2>6. done' \in DoneType
    BY <1>22, <1>a, <1>b, DoneFields, PastTallies, Bounds DEF Revise, Activate
  <2>7. KeptTyped'
    BY <1>22, <1>a, <1>b, <2>1, <2>2, <2>3 DEF Revise, Call, KeptTyped
  <2>8. RestTyped'
    BY <1>22, <1>a, <1>b, <2>4, <2>5, <2>6 DEF Revise, Call, RestTyped
  <2>9. SavedTyped'
    BY <1>22, <2>7, PersistIs DEF Revise
  <2>10. SwitchLeft'
    BY <1>22, <1>0 DEF Revise, SwitchLeft
  <2> QED
    BY <2>7, <2>8, <2>9, <2>10 DEF Typed
<1>23. ASSUME Cancel PROVE Typed'
  <2>1. task' \in TaskType
    BY <1>23, <1>a, <1>b, TaskFields, Names DEF Cancel
  <2>2. scan' \in ScanType
    BY <1>23, <1>a, <1>b DEF Cancel, Supersede, ScanType
  <2>3. sending' \in SendingType
    BY <1>23, <1>a, <1>b, RevokedIs DEF Cancel
  <2>4. calls' \in 0..MaxCalls
    BY <1>23, <1>a, <1>b, Bounds DEF Cancel, Call
  <2>5. KeptTyped'
    BY <1>23, <1>a, <1>b, <2>1 DEF Cancel, Call, KeptTyped
  <2>6. RestTyped'
    BY <1>23, <1>a, <1>b, <2>2, <2>3, <2>4 DEF Cancel, Call, RestTyped
  <2>7. SavedTyped'
    BY <1>23, <2>5, PersistIs DEF Cancel
  <2>8. SwitchLeft'
    BY <1>23, <1>0, ScanMoves DEF Cancel, SwitchLeft
  <2> QED
    BY <2>5, <2>6, <2>7, <2>8 DEF Typed
<1>24. ASSUME Pause PROVE Typed'
  <2>1. task' \in TaskType
    BY <1>24, <1>a, <1>b, TaskFields, Names DEF Pause
  <2>2. scan' \in ScanType
    BY <1>24, <1>a, <1>b DEF Pause, Supersede, ScanType
  <2>3. sending' \in SendingType
    BY <1>24, <1>a, <1>b, RevokedIs DEF Pause
  <2>4. calls' \in 0..MaxCalls
    BY <1>24, <1>a, <1>b, Bounds DEF Pause, Call
  <2>5. KeptTyped'
    BY <1>24, <1>a, <1>b, <2>1 DEF Pause, Call, KeptTyped
  <2>6. RestTyped'
    BY <1>24, <1>a, <1>b, <2>2, <2>3, <2>4 DEF Pause, Call, RestTyped
  <2>7. SavedTyped'
    BY <1>24, <2>5, PersistIs DEF Pause
  <2>8. SwitchLeft'
    BY <1>24, <1>0, ScanMoves DEF Pause, SwitchLeft
  <2> QED
    BY <2>5, <2>6, <2>7, <2>8 DEF Typed
<1>25. ASSUME Resume PROVE Typed'
  <2>1. task' \in TaskType
    BY <1>25, <1>a, <1>b, ResumedIs DEF Resume
  <2>2. worker' \in WorkerType
    BY <1>25, <1>a, <1>b, ResumedIs DEF Resume
  <2>3. book' \in BookType
    BY <1>25, <1>a, <1>b, ResumedIs DEF Resume
  <2>4. told' \subseteq States
    BY <1>25, <1>a, <1>b, ResumedIs DEF Resume
  <2>5. calls' \in 0..MaxCalls
    BY <1>25, <1>a, <1>b, Bounds DEF Resume, Call
  <2>6. done' \in DoneType
    BY <1>25, <1>a, <1>b, ResumedIs DEF Resume
  <2>7. KeptTyped'
    BY <1>25, <1>a, <1>b, <2>1, <2>2, <2>3 DEF Resume, Call, KeptTyped
  <2>8. RestTyped'
    BY <1>25, <1>a, <1>b, <2>4, <2>5, <2>6 DEF Resume, Call, RestTyped
  <2>9. SavedTyped'
    BY <1>25, <2>7, PersistIs DEF Resume
  <2>10. SwitchLeft'
    BY <1>25, <1>0 DEF Resume, SwitchLeft
  <2> QED
    BY <2>7, <2>8, <2>9, <2>10 DEF Typed
<1>26. ASSUME Stop PROVE Typed'
  <2>1. task' \in TaskType
    BY <1>26, <1>a, <1>b, TaskFields, Names DEF Stop
  <2>2. worker' \in WorkerType
    BY <1>26, <1>a, <1>b, Names DEF Stop
  <2>3. scan' \in ScanType
    BY <1>26, <1>a, <1>b DEF Stop, Supersede, ScanType
  <2>4. sending' \in SendingType
    BY <1>26, <1>a, <1>b, RevokedIs DEF Stop
  <2>5. calls' \in 0..MaxCalls
    BY <1>26, <1>a, <1>b, Bounds DEF Stop, Call
  <2>6. KeptTyped'
    BY <1>26, <1>a, <1>b, <2>1, <2>2 DEF Stop, Call, KeptTyped
  <2>7. RestTyped'
    BY <1>26, <1>a, <1>b, <2>3, <2>4, <2>5 DEF Stop, Call, RestTyped
  <2>8. SavedTyped'
    BY <1>26, <2>6, PersistIs DEF Stop
  <2>9. SwitchLeft'
    BY <1>26, <1>0, ScanMoves DEF Stop, SwitchLeft
  <2> QED
    BY <2>6, <2>7, <2>8, <2>9 DEF Typed
<1>27. ASSUME Reconcile PROVE Typed'
  <2>1. worker' \in WorkerType
    BY <1>27, <1>a, <1>b, Names DEF Reconcile
  <2>2. calls' \in 0..MaxCalls
    BY <1>27, <1>a, <1>b, Bounds DEF Reconcile, Call
  <2>3. KeptTyped'
    BY <1>27, <1>a, <1>b, <2>1 DEF Reconcile, Call, KeptTyped
  <2>4. RestTyped'
    BY <1>27, <1>a, <1>b, <2>2 DEF Reconcile, Call, RestTyped
  <2>5. SavedTyped'
    BY <1>27, <2>3, PersistIs DEF Reconcile
  <2>6. SwitchLeft'
    BY <1>27, <1>0 DEF Reconcile, SwitchLeft
  <2> QED
    BY <2>3, <2>4, <2>5, <2>6 DEF Typed
<1>28. ASSUME Recover PROVE Typed'
  <2>1. mains' \in 0..MaxMain
    BY <1>28, <1>a, <1>b, Bounds DEF Recover
  <2>2. recovery' \in RecoveryType
    BY <1>28, <1>a, <1>b DEF Recover, RecoveryType
  <2>3. calls' \in 0..MaxCalls
    BY <1>28, <1>a, <1>b, Bounds DEF Recover, Call
  <2>4. KeptTyped'
    BY <1>28, <1>a, <1>b, <2>1 DEF Recover, Call, KeptTyped
  <2>5. RestTyped'
    BY <1>28, <1>a, <1>b, <2>2, <2>3 DEF Recover, Call, RestTyped
  <2>6. SavedTyped'
    BY <1>28, <1>0 DEF Recover, SavedTyped
  <2>7. SwitchLeft'
    BY <1>28, <1>0 DEF Recover, SwitchLeft
  <2> QED
    BY <2>4, <2>5, <2>6, <2>7 DEF Typed
<1>29. ASSUME RecoverStops PROVE Typed'
  <2>1. task' \in TaskType
    <3>1. [task EXCEPT !.status = "interrupted", !.why = "stop"] \in TaskType
      BY <1>a, TaskFields
    <3> QED
      BY <1>29, <1>a, <3>1 DEF RecoverStops
  <2>2. worker' \in WorkerType
    BY <1>29, <1>a, <1>b, Names DEF RecoverStops
  <2>3. scan' \in ScanType
    BY <1>29, <1>a, <1>b DEF RecoverStops, Supersede, ScanType
  <2>4. sending' \in SendingType
    BY <1>29, <1>a, <1>b, RevokedIs DEF RecoverStops
  <2>5. recovery' \in RecoveryType
    BY <1>29, <1>a, <1>b DEF RecoverStops, RecoveryType
  <2>6. KeptTyped'
    BY <1>29, <1>a, <1>b, <2>1, <2>2 DEF RecoverStops, KeptTyped
  <2>7. RestTyped'
    BY <1>29, <1>a, <1>b, <2>3, <2>4, <2>5 DEF RecoverStops, RestTyped
  <2>8. SavedTyped'
    BY <1>29, <2>6, PersistIs DEF RecoverStops
  <2>9. SwitchLeft'
    BY <1>29, <1>0, ScanMoves DEF RecoverStops, SwitchLeft
  <2> QED
    BY <2>6, <2>7, <2>8, <2>9 DEF Typed
<1>30. ASSUME RecoverResumes PROVE Typed'
  <2>1. task' \in TaskType
    BY <1>30, <1>a, <1>b, ResumedIs DEF RecoverResumes
  <2>2. worker' \in WorkerType
    BY <1>30, <1>a, <1>b, ResumedIs DEF RecoverResumes
  <2>3. book' \in BookType
    BY <1>30, <1>a, <1>b, ResumedIs DEF RecoverResumes
  <2>4. recovery' \in RecoveryType
    BY <1>30, <1>a, <1>b DEF RecoverResumes, RecoveryType
  <2>5. told' \subseteq States
    BY <1>30, <1>a, <1>b, ResumedIs DEF RecoverResumes
  <2>6. done' \in DoneType
    BY <1>30, <1>a, <1>b, ResumedIs DEF RecoverResumes
  <2>7. KeptTyped'
    BY <1>30, <1>a, <1>b, <2>1, <2>2, <2>3 DEF RecoverResumes, KeptTyped
  <2>8. RestTyped'
    BY <1>30, <1>a, <1>b, <2>4, <2>5, <2>6 DEF RecoverResumes, RestTyped
  <2>9. SavedTyped'
    BY <1>30, <2>7, PersistIs DEF RecoverResumes
  <2>10. SwitchLeft'
    BY <1>30, <1>0 DEF RecoverResumes, SwitchLeft
  <2> QED
    BY <2>7, <2>8, <2>9, <2>10 DEF Typed
<1>31. ASSUME Steer PROVE Typed'
  <2>1. steers' \in SteersType
    BY <1>31, <1>a, <1>b, Bounds DEF Steer, SteersType, SteersSpent, Reserve
  <2>2. sending' \in SendingType
    BY <1>31, <1>a, <1>b DEF Steer, SendingType, Reserve
  <2>3. calls' \in 0..MaxCalls
    BY <1>31, <1>a, <1>b, Bounds DEF Steer, Call
  <2>4. KeptTyped'
    BY <1>31, <1>a, <1>b, <2>1 DEF Steer, Reserve, Call, KeptTyped
  <2>5. RestTyped'
    BY <1>31, <1>a, <1>b, <2>2, <2>3 DEF Steer, Reserve, Call, RestTyped
  <2>6. SavedTyped'
    BY <1>31, <1>0 DEF Steer, Reserve, SavedTyped
  <2>7. SwitchLeft'
    BY <1>31, <1>0 DEF Steer, Reserve, SwitchLeft
  <2> QED
    BY <2>4, <2>5, <2>6, <2>7 DEF Typed
<1>32. ASSUME Nudge PROVE Typed'
  <2>1. steers' \in SteersType
    BY <1>32, <1>a, <1>b, Bounds DEF Nudge, SteersType, SteersSpent, Reserve
  <2>2. sending' \in SendingType
    BY <1>32, <1>a, <1>b DEF Nudge, SendingType, Reserve
  <2>3. KeptTyped'
    BY <1>32, <1>a, <1>b, <2>1 DEF Nudge, Reserve, KeptTyped
  <2>4. RestTyped'
    BY <1>32, <1>a, <1>b, <2>2 DEF Nudge, Reserve, RestTyped
  <2>5. SavedTyped'
    BY <1>32, <1>0 DEF Nudge, Reserve, SavedTyped
  <2>6. SwitchLeft'
    BY <1>32, <1>0 DEF Nudge, Reserve, SwitchLeft
  <2> QED
    BY <2>3, <2>4, <2>5, <2>6 DEF Typed
<1>33. ASSUME NEW a \in Authors, SteerAnswered(a) PROVE Typed'
  <2>1. sending' \in SendingType
    BY <1>33, <1>a, <1>b DEF SteerAnswered, SendingType
  <2>2. done' \in DoneType
    <3>1. done.soft \in Nat
      BY <1>b, DoneFields
    <3>2. [done EXCEPT !.soft = IF a = "nudge" /\ sending'[a] = "queued" THEN @ + 1 ELSE @] \in DoneType
      BY <1>b, <3>1 DEF DoneType
    <3> QED
      BY <1>33, <3>2 DEF SteerAnswered
  <2>3. KeptTyped'
    BY <1>33, <1>a, <1>b DEF SteerAnswered, KeptTyped
  <2>4. RestTyped'
    BY <1>33, <1>a, <1>b, <2>1, <2>2 DEF SteerAnswered, RestTyped
  <2>5. SavedTyped'
    BY <1>33, <1>0 DEF SteerAnswered, SavedTyped
  <2>6. SwitchLeft'
    BY <1>33, <1>0 DEF SteerAnswered, SwitchLeft
  <2> QED
    BY <2>3, <2>4, <2>5, <2>6 DEF Typed
<1>34. ASSUME NEW a \in Authors, SteerEnds(a) PROVE Typed'
  <2>1. steers' \in SteersType
    BY <1>34, <1>a, RefundedIs DEF SteerEnds
  <2>2. sending' \in SendingType
    BY <1>34, <1>a, <1>b DEF SteerEnds, SendingType
  <2>3. done' \in DoneType
    <3>1. done.steers \in Nat
      BY <1>b, DoneFields
    <3>2. [done EXCEPT !.steers = @ + 1] \in DoneType
      BY <1>b, <3>1 DEF DoneType
    <3> QED
      BY <1>34, <1>b, <3>2 DEF SteerEnds
  <2>4. KeptTyped'
    BY <1>34, <1>a, <1>b, <2>1 DEF SteerEnds, KeptTyped
  <2>5. RestTyped'
    BY <1>34, <1>a, <1>b, <2>2, <2>3 DEF SteerEnds, RestTyped
  <2>6. SavedTyped'
    BY <1>34, <2>4, PersistIs DEF SteerEnds
  <2>7. SwitchLeft'
    BY <1>34, <1>0 DEF SteerEnds, SwitchLeft
  <2> QED
    BY <2>4, <2>5, <2>6, <2>7 DEF Typed
<1>35. ASSUME NudgeNoted PROVE Typed'
  <2>1. book' \in BookType
    BY <1>35, <1>a, <1>b, BookWritten DEF NudgeNoted
  <2>2. sending' \in SendingType
    BY <1>35, <1>a, <1>b DEF NudgeNoted, SendingType
  <2>3. KeptTyped'
    BY <1>35, <1>a, <1>b, <2>1 DEF NudgeNoted, KeptTyped
  <2>4. RestTyped'
    BY <1>35, <1>a, <1>b, <2>2 DEF NudgeNoted, RestTyped
  <2>5. SavedTyped'
    BY <1>35, <2>3, PersistIs DEF NudgeNoted
  <2>6. SwitchLeft'
    BY <1>35, <1>0 DEF NudgeNoted, SwitchLeft
  <2> QED
    BY <2>3, <2>4, <2>5, <2>6 DEF Typed
<1>36. ASSUME Configure PROVE Typed'
  <2>1. on' \in BOOLEAN
    BY <1>36, <1>a, <1>b DEF Configure
  <2>2. spent' \in BOOLEAN
    BY <1>36, <1>a, <1>b DEF Configure
  <2>3. calls' \in 0..MaxCalls
    BY <1>36, <1>a, <1>b, Bounds DEF Configure, Call
  <2>4. KeptTyped'
    BY <1>36, <1>a, <1>b DEF Configure, Call, KeptTyped
  <2>5. RestTyped'
    BY <1>36, <1>a, <1>b, <2>1, <2>2, <2>3 DEF Configure, Call, RestTyped
  <2>6. SavedTyped'
    BY <1>36, <1>0 DEF Configure, SavedTyped
  <2>7. SwitchLeft'
    BY <1>36, <1>0 DEF Configure, SwitchLeft
  <2> QED
    BY <2>4, <2>5, <2>6, <2>7 DEF Typed
<1>37. ASSUME Spend PROVE Typed'
  <2>1. spent' \in BOOLEAN
    BY <1>37, <1>a, <1>b DEF Spend
  <2>2. calls' \in 0..MaxCalls
    BY <1>37, <1>a, <1>b, Bounds DEF Spend, Call
  <2>3. KeptTyped'
    BY <1>37, <1>a, <1>b DEF Spend, KeptTyped
  <2>4. RestTyped'
    BY <1>37, <1>a, <1>b, <2>1, <2>2 DEF Spend, RestTyped
  <2>5. SavedTyped'
    BY <1>37, <1>0 DEF Spend, SavedTyped
  <2>6. SwitchLeft'
    BY <1>37, <1>0 DEF Spend, SwitchLeft
  <2> QED
    BY <2>3, <2>4, <2>5, <2>6 DEF Typed
<1>38. ASSUME RetryDue PROVE Typed'
  <2>1. book' \in BookType
    BY <1>38, <1>a, <1>b, RetryWritten DEF RetryDue
  <2>2. KeptTyped'
    BY <1>38, <1>a, <1>b, <2>1 DEF RetryDue, KeptTyped
  <2>3. RestTyped'
    BY <1>38, <1>a, <1>b DEF RetryDue, RestTyped
  <2>4. SavedTyped'
    BY <1>38, RetryWritten DEF SavedTyped
  <2>5. SwitchLeft'
    BY <1>38, <1>0 DEF RetryDue, SwitchLeft
  <2> QED
    BY <2>2, <2>3, <2>4, <2>5 DEF Typed
<1>39. ASSUME Restart PROVE Typed'
  <2>1. task' \in TaskType
    <3>1. [saved.task EXCEPT !.status = "interrupted", !.why = "restart"] \in TaskType
      BY <1>c, TaskFields
    <3> QED
      BY <1>39, <1>c, <3>1 DEF Restart
  <2>2. worker' \in WorkerType
    BY <1>39, <1>a, <1>b, Names DEF Restart
  <2>3. step' \in 1..MaxSteps
    BY <1>39, <1>c DEF Restart
  <2>4. book' \in BookType
    BY <1>39, <1>a, <1>b, <1>c DEF Restart
  <2>5. steers' \in SteersType
    BY <1>39, <1>c DEF Restart
  <2>6. fallback' \in 0..Fallbacks
    BY <1>39, <1>c DEF Restart
  <2>7. mains' \in 0..MaxMain
    BY <1>39, <1>c DEF Restart
  <2>8. scan' \in ScanType
    BY <1>39, <1>a, <1>b, ScanFields DEF Restart
  <2>9. sending' \in SendingType
    BY <1>39, <1>a, <1>b DEF Restart, SendingType
  <2>10. recovery' \in RecoveryType
    BY <1>39, <1>a, <1>b DEF Restart, RecoveryType
  <2>11. told' \subseteq States
    BY <1>39, <1>a, <1>b, TaskFields, Names DEF Restart
  <2>12. calls' \in 0..MaxCalls
    BY <1>39, <1>a, <1>b, Bounds DEF Restart, Call
  <2>13. done' \in DoneType
    <3>1. (IF saved.steers.step = saved.step THEN saved.steers.count ELSE 0) \in Nat
      BY <1>c, Bounds DEF SteersType
    <3>2. done' = [done EXCEPT !.steers = IF saved.steers.step = saved.step THEN saved.steers.count ELSE 0]
      BY <1>39 DEF Restart
    <3> QED
      BY <1>b, <3>1, <3>2, DoneFields
  <2>14. KeptTyped'
    BY <1>39, <1>a, <1>b, <2>1, <2>2, <2>3, <2>4, <2>5, <2>6, <2>7 DEF Restart, Call, KeptTyped
  <2>15. RestTyped'
    BY <1>39, <1>a, <1>b, <2>8, <2>9, <2>10, <2>11, <2>12, <2>13 DEF Restart, Call, RestTyped
  <2>16. SavedTyped'
    BY <1>39, <2>14, PersistIs DEF Restart
  <2>17. SwitchLeft'
    BY <1>39, <1>0, ScanMoves DEF Restart, SwitchLeft
  <2> QED
    BY <2>14, <2>15, <2>16, <2>17 DEF Typed
<1>40. CASE UNCHANGED vars
  BY <1>40, <1>0 DEF vars, Typed, KeptTyped, RestTyped, SavedTyped, SwitchLeft
<1> QED
  BY <1>1, <1>2, <1>3, <1>4, <1>5, <1>6, <1>7, <1>8, <1>9, <1>10, <1>11, <1>12, <1>13, <1>14, <1>15, <1>16,
     <1>17, <1>18, <1>19, <1>20, <1>21, <1>22, <1>23, <1>24, <1>25, <1>26, <1>27, <1>28, <1>29, <1>30, <1>31,
     <1>32, <1>33, <1>34, <1>35, <1>36, <1>37, <1>38, <1>39, <1>40 DEF Next, Automatic, Called, RunEnds

-----------------------------------------------------------------------------
(* The inductive invariant. *)

\* What was done in step s is covered by the book.
OnBooks(b, s, d) ==
  LET page == IF b.step = s THEN b ELSE FreshBook(s) IN
  d.recoveries <= page.recoveries /\ d.nudges <= page.nudges /\ d.waits <= page.waits /\ d.repairs <= page.repairs
NoMore(d, e) ==
  e.recoveries <= d.recoveries /\ e.nudges <= d.nudges /\ e.waits <= d.waits /\ e.repairs <= d.repairs
Saves == saved'.step = step' /\ saved'.book = book' /\ saved'.steers = steers'

\* What is in a book is counted.
LEMMA BookNumbers ==
  ASSUME NEW b \in BookType
  PROVE  b.step \in Nat /\ b.recoveries \in Nat /\ b.nudges \in Nat /\ b.waits \in Nat /\ b.repairs \in Nat
<1>1. 1 \in 1..MaxSteps
  BY Bounds
<1>2. /\ b.step \in 1..MaxSteps /\ b.recoveries \in 0..MaxRecoveries /\ b.nudges \in 0..MaxNudges
      /\ b.waits \in 0..MaxWaits /\ b.repairs \in 0..MaxRepairs
  BY <1>1, BookFields
<1> QED
  BY <1>2, Bounds

\* A book with the same page covers it.
LEMMA SamePageCovers ==
  ASSUME NEW b \in BookType, NEW c \in BookType, NEW s \in 1..MaxSteps, NEW d \in DoneType, NEW e \in DoneType,
         OnBooks(b, s, d), c.step = b.step, SamePage(b, c), NoMore(d, e)
  PROVE  OnBooks(c, s, e)
<1>1. /\ d.recoveries \in Nat /\ d.nudges \in Nat /\ d.waits \in Nat /\ d.repairs \in Nat
      /\ e.recoveries \in Nat /\ e.nudges \in Nat /\ e.waits \in Nat /\ e.repairs \in Nat
  BY DoneFields
<1>2. b.recoveries \in Nat /\ b.nudges \in Nat /\ b.waits \in Nat /\ b.repairs \in Nat
  BY BookNumbers
<1>3. CASE b.step = s
  BY <1>1, <1>2, <1>3 DEF OnBooks, SamePage, Page, NoMore
<1>4. CASE b.step # s
  BY <1>1, <1>4, FreshBooks DEF OnBooks, NoMore
<1> QED
  BY <1>3, <1>4

\* Nothing done is covered by any book.
LEMMA NothingIsCovered ==
  ASSUME NEW b \in BookType, NEW s \in 1..MaxSteps
  PROVE  OnBooks(b, s, Nothing)
<1>1. Nothing.recoveries = 0 /\ Nothing.nudges = 0 /\ Nothing.waits = 0 /\ Nothing.repairs = 0
  BY DEF Nothing
<1>2. b.recoveries \in Nat /\ b.nudges \in Nat /\ b.waits \in Nat /\ b.repairs \in Nat
  BY BookNumbers
<1> QED
  BY <1>1, <1>2, FreshBooks DEF OnBooks

\* How many of the authors have a message that is on the count and not yet done with.
Under(f, a) == IF f[a] \in {"sent", "queued", "refused"} THEN 1 ELSE 0
LEMMA OutIs ==
  ASSUME NEW f \in SendingType
  PROVE  LET out == {a \in Authors : f[a] \in {"sent", "queued", "refused"}}
         IN  (IF out = Authors THEN 2 ELSE IF out = {} THEN 0 ELSE 1) = Under(f, "person") + Under(f, "nudge")
<1> DEFINE out == {a \in Authors : f[a] \in {"sent", "queued", "refused"}}
<1>1. \A a \in Authors : a \in out <=> f[a] \in {"sent", "queued", "refused"}
  OBVIOUS
<1>2. out \subseteq {"person", "nudge"} /\ Authors = {"person", "nudge"}
  BY DEF Authors
<1>3. /\ out = Authors <=> "person" \in out /\ "nudge" \in out
      /\ out = {} <=> "person" \notin out /\ "nudge" \notin out
  BY <1>2
<1>4. Under(f, "person") = (IF "person" \in out THEN 1 ELSE 0) /\ Under(f, "nudge") = (IF "nudge" \in out THEN 1 ELSE 0)
  BY <1>1, <1>2 DEF Under
<1> HIDE DEF out
<1>5. (IF out = Authors THEN 2 ELSE IF out = {} THEN 0 ELSE 1) = Under(f, "person") + Under(f, "nudge")
  BY <1>3, <1>4
<1> QED
  BY <1>5 DEF out

\* The steers in terms of the two authors, before a step and after it.
LEMMA SteersAre ==
  ASSUME Typed, Typed'
  PROVE  /\ SteersExact <=> SteersSpent = done.steers + Under(sending, "person") + Under(sending, "nudge")
         /\ SteersExact' <=> SteersSpent' = done'.steers + Under(sending', "person") + Under(sending', "nudge")
<1>1. sending \in SendingType /\ sending' \in SendingType /\ done \in DoneType /\ done' \in DoneType
  BY DEF Typed, RestTyped
<1>2. done.steers \in Nat /\ done'.steers \in Nat
  BY <1>1, DoneFields
<1>3. \A f \in SendingType : Under(f, "person") \in {0, 1} /\ Under(f, "nudge") \in {0, 1}
  BY DEF Under
<1>4. SteersExact <=> SteersSpent = done.steers + (Under(sending, "person") + Under(sending, "nudge"))
  BY <1>1, OutIs DEF SteersExact, SteersSpent
<1>5. SteersExact' <=> SteersSpent' = done'.steers + (Under(sending', "person") + Under(sending', "nudge"))
  BY <1>1, OutIs DEF SteersExact, SteersSpent
<1> QED
  BY <1>1, <1>2, <1>3, <1>4, <1>5

\* Nothing becomes of the count when the messages stay out.
LEMMA SteersKept ==
  ASSUME Typed, Typed', SteersExact, step' = step, steers' = steers, done'.steers = done.steers,
         \A a \in Authors : Under(sending', a) = Under(sending, a)
  PROVE  SteersExact'
<1>1. SteersSpent' = SteersSpent
  BY DEF SteersSpent
<1> QED
  BY <1>1, SteersAre DEF Authors

LEMMA RevokedUnder ==
  ASSUME sending \in SendingType, Revoked
  PROVE  \A a \in Authors : Under(sending', a) = Under(sending, a)
  BY RevokedIs DEF Under

\* The state every run starts from.
LEMMA WatchInit == Init => Typed /\ WatchInv
<1> SUFFICES ASSUME Init PROVE Typed /\ WatchInv
  OBVIOUS
<1>0. 1 \in 1..MaxSteps /\ 0 \in 0..Fallbacks /\ 0 \in 0..MaxMain /\ 0 \in 0..MaxCalls /\ 0 \in 0..MaxSteers
  BY Bounds
<1>1. /\ on = TRUE /\ spent = FALSE /\ worker = "live" /\ step = 1 /\ task.status = "running"
      /\ book = FreshBook(1) /\ steers = [step |-> 1, count |-> 0] /\ fallback = 0 /\ mains = 0
      /\ scan = NoScan /\ recovery = "none" /\ sending = [a \in Authors |-> "none"] /\ told = {}
      /\ calls = 0 /\ done = Nothing
  BY DEF Init
<1>2. task \in TaskType
  BY Names DEF Init
<1>3. /\ saved.task = task /\ saved.worker = worker /\ saved.step = step /\ saved.book = book
      /\ saved.steers = steers /\ saved.fallback = fallback /\ saved.mains = mains
      /\ (KeptTyped => saved \in SavedType)
  BY DEF Init, Durable, SavedType, KeptTyped
<1>4. KeptTyped
  BY <1>0, <1>1, <1>2, FreshBooks, Names DEF KeptTyped, SteersType
<1>6. NoScan \in ScanType /\ NoScan.at = "idle"
  BY DEF NoScan, ScanType, Kinds
<1>7. Nothing \in DoneType /\ Tally(Nothing, 0, 0, 0, 0, 0, 0)
  BY DEF Nothing, DoneType, Tally
<1>8. RestTyped
  BY <1>0, <1>1, <1>6, <1>7 DEF RestTyped, SendingType, States, RecoveryType
<1>9. Typed
  BY <1>1, <1>3, <1>4, <1>6, <1>8 DEF Typed, SavedTyped, SwitchLeft
<1>10. InvSteps
  BY <1>0, <1>1, <1>3, FreshBooks, Bounds DEF InvSteps
<1>11. InvBooked
  <2>1. OnBooks(book, step, done)
    BY <1>0, <1>1, FreshBooks, NothingIsCovered
  <2> QED
    BY <2>1, <1>3 DEF InvBooked, Covers, BookOf, OnBooks
<1>12. InvCounted /\ InvUnderway /\ InvNudged
  BY <1>1, <1>6, <1>7 DEF InvCounted, InvUnderway, InvNudged, Authors, Tally
<1>13. SteersExact
  <2>1. sending \in SendingType /\ Under(sending, "person") = 0 /\ Under(sending, "nudge") = 0
    BY <1>1 DEF SendingType, Under, Authors
  <2>2. steers.count = 0 /\ done.steers = 0
    BY <1>1, <1>7 DEF Tally
  <2> QED
    BY <2>1, <2>2, OutIs DEF SteersExact
<1> QED
  BY <1>9, <1>10, <1>11, <1>12, <1>13 DEF WatchInv

\* Every step keeps the inductive invariant.
LEMMA WatchStep == Typed /\ Typed' /\ WatchInv /\ [Next]_vars => WatchInv'
<1> SUFFICES ASSUME Typed, Typed', WatchInv, [Next]_vars PROVE WatchInv'
  OBVIOUS
<1>0. InvSteps /\ InvBooked /\ InvCounted /\ InvUnderway /\ InvNudged /\ SteersExact
  BY DEF WatchInv
<1>a. /\ task \in TaskType /\ worker \in WorkerType /\ step \in 1..MaxSteps /\ book \in BookType
      /\ steers \in SteersType /\ saved.book \in BookType /\ saved.steers \in SteersType
      /\ scan \in ScanType /\ done \in DoneType /\ sending \in SendingType
  BY DEF Typed, KeptTyped, RestTyped, SavedTyped, SavedType
<1>b. /\ task' \in TaskType /\ worker' \in WorkerType /\ step' \in 1..MaxSteps /\ book' \in BookType
      /\ steers' \in SteersType /\ saved'.book \in BookType /\ saved'.steers \in SteersType
      /\ scan' \in ScanType /\ done' \in DoneType /\ sending' \in SendingType
  BY DEF Typed, KeptTyped, RestTyped, SavedTyped, SavedType
<1>c. /\ step \in Nat /\ step' \in Nat /\ book.step \in Nat /\ book'.step \in Nat /\ steers.step \in Nat
      /\ steers'.step \in Nat /\ saved.book.step \in Nat /\ saved.steers.step \in Nat
  <2>1. book.step \in Nat /\ book'.step \in Nat /\ saved.book.step \in Nat
    BY <1>a, <1>b, BookNumbers
  <2>2. \A s \in SteersType : s.step \in 1..MaxSteps
    BY DEF SteersType
  <2> QED
    BY <1>a, <1>b, <2>1, <2>2, Bounds
<1>d. /\ done.recoveries \in Nat /\ done.nudges \in Nat /\ done.waits \in Nat /\ done.repairs \in Nat
      /\ done.steers \in Nat /\ done.soft \in Nat /\ done'.soft \in Nat /\ book.recoveries \in Nat
      /\ done'.recoveries \in Nat /\ done'.nudges \in Nat /\ done'.waits \in Nat /\ done'.repairs \in Nat
  BY <1>a, <1>b, DoneFields, BookNumbers
<1>e. OnBooks(book, step, done) /\ OnBooks(saved.book, step, done) /\ NoMore(done, done) /\ SamePage(book, book)
  BY <1>0, <1>d DEF InvBooked, Covers, BookOf, OnBooks, NoMore, SamePage, Page
<1>f. /\ Book \in BookType /\ Book.step = step /\ (book.step = step => Book = book) /\ OnBooks(Book, step, done)
      /\ Book.recoveries \in Nat /\ Book.nudges \in Nat /\ Book.waits \in Nat /\ Book.repairs \in Nat
  <2>1. Book \in BookType /\ Book.step = step /\ (book.step = step => Book = book)
    BY BookIs
  <2>2. OnBooks(Book, step, done)
    BY <1>e DEF OnBooks, Book, FreshBook
  <2> QED
    BY <2>1, <2>2, BookNumbers
<1>g. /\ done.recoveries <= Book.recoveries /\ done.nudges <= Book.nudges
      /\ done.waits <= Book.waits /\ done.repairs <= Book.repairs
  BY <1>0, BookIs DEF InvBooked, Covers
<1>h. KeptTyped /\ RestTyped /\ SavedTyped /\ SwitchLeft
  BY DEF Typed
<1> USE DEF durable
<1>1. ASSUME NEW kind \in Ends, SwitchOnFailure(kind) PROVE WatchInv'
  <2>1. /\ done'.recoveries = done.recoveries /\ done'.nudges = done.nudges /\ done'.waits = 0
        /\ done'.repairs = done.repairs /\ done'.steers = done.steers /\ done'.soft = done.soft
    BY <1>1, <1>a, Tallies DEF SwitchOnFailure, Tally
  <2>2. step' = step /\ Saves
    BY <1>1, PersistIs, InterruptIs, RevokedIs, BookWritten DEF SwitchOnFailure, Saves
  <2>3. OnBooks(book', step', done')
    <3>1. book'.step = step /\ Page(book', Book.recoveries, Book.nudges, 0, Book.repairs)
      BY <1>1, BookWritten
    <3> QED
      BY <1>d, <1>f, <1>g, <2>2, <2>1, <3>1 DEF OnBooks, Page
  <2>4. InvSteps'
    BY <1>1, <1>0, <1>a, <1>c, <2>2, <2>1, InterruptIs, RevokedIs, BookWritten DEF SwitchOnFailure, InvSteps,
       Saves
  <2>5. InvBooked'
    BY <2>2, <2>3 DEF Saves, InvBooked, Covers, BookOf, OnBooks
  <2>6. InvCounted'
    BY <1>1, <1>0, <1>a, <1>h, <2>2, <2>1, InterruptIs, RevokedIs, BookWritten, ScanMoves DEF SwitchOnFailure,
       InvCounted, SamePage, Page
  <2>7. InvUnderway'
    BY <1>1, <1>0, <1>a, <2>2, <2>1, InterruptIs, RevokedIs, BookWritten DEF SwitchOnFailure, InvUnderway
  <2>8. InvNudged'
    BY <1>1, <1>0, <1>a, <1>c, <1>d, <1>f, <2>2, <2>1, InterruptIs, RevokedIs, BookWritten DEF
       SwitchOnFailure, InvNudged, InvUnderway, Authors, Book
  <2>9. SteersExact'
    BY <1>1, <1>0, <1>a, <2>2, <2>1, SteersKept, RevokedUnder, InterruptIs, RevokedIs, BookWritten DEF
       SwitchOnFailure
  <2> QED
    BY <2>4, <2>5, <2>6, <2>7, <2>8, <2>9 DEF WatchInv
<1>2. ASSUME NEW kind \in Ends, WaitOnFailure(kind) PROVE WatchInv'
  <2>1. /\ done'.recoveries = done.recoveries /\ done'.nudges = done.nudges /\ done'.waits <= done.waits + 1
        /\ done'.repairs = done.repairs /\ done'.steers = done.steers /\ done'.soft = done.soft
    BY <1>2, <1>a, PastTallies, Bounds DEF WaitOnFailure, Tally
  <2>2. step' = step /\ Saves
    BY <1>2, PersistIs, InterruptIs, RevokedIs, BookWritten DEF WaitOnFailure, Saves
  <2>3. OnBooks(book', step', done')
    <3>1. book'.step = step /\ Page(book', Book.recoveries, Book.nudges, Book.waits + 1, Book.repairs)
      BY <1>2, BookWritten
    <3> QED
      BY <1>d, <1>f, <1>g, <2>2, <2>1, <3>1 DEF OnBooks, Page
  <2>4. InvSteps'
    BY <1>2, <1>0, <1>a, <1>c, <2>2, <2>1, InterruptIs, RevokedIs, BookWritten DEF WaitOnFailure, InvSteps,
       Saves
  <2>5. InvBooked'
    BY <2>2, <2>3 DEF Saves, InvBooked, Covers, BookOf, OnBooks
  <2>6. InvCounted'
    BY <1>2, <1>0, <1>a, <1>h, <2>2, <2>1, InterruptIs, RevokedIs, BookWritten, ScanMoves DEF WaitOnFailure,
       InvCounted, SamePage, Page
  <2>7. InvUnderway'
    BY <1>2, <1>0, <1>a, <2>2, <2>1, InterruptIs, RevokedIs, BookWritten DEF WaitOnFailure, InvUnderway
  <2>8. InvNudged'
    BY <1>2, <1>0, <1>a, <1>c, <1>d, <1>f, <2>2, <2>1, InterruptIs, RevokedIs, BookWritten DEF WaitOnFailure,
       InvNudged, InvUnderway, Authors, Book
  <2>9. SteersExact'
    BY <1>2, <1>0, <1>a, <2>2, <2>1, SteersKept, RevokedUnder, InterruptIs, RevokedIs, BookWritten DEF
       WaitOnFailure
  <2> QED
    BY <2>4, <2>5, <2>6, <2>7, <2>8, <2>9 DEF WatchInv
<1>3. ASSUME NEW kind \in Ends, WaitsSpent(kind) PROVE WatchInv'
  <2>1. step' = step /\ Saves
    BY <1>3, PersistIs, InterruptIs, RevokedIs DEF WaitsSpent, Saves
  <2>2. OnBooks(book', step', done')
    BY <1>3, <1>a, <1>b, <1>d, <1>e, <1>f, <1>g, <2>1, SamePageCovers, InterruptIs, RevokedIs DEF
       WaitsSpent
  <2>3. InvSteps'
    BY <1>3, <1>0, <1>a, <1>c, <2>1, InterruptIs, RevokedIs DEF WaitsSpent, InvSteps, Saves
  <2>4. InvBooked'
    BY <2>1, <2>2 DEF Saves, InvBooked, Covers, BookOf, OnBooks
  <2>5. InvCounted'
    BY <1>3, <1>0, <1>a, <1>h, <2>1, InterruptIs, RevokedIs, ScanMoves DEF WaitsSpent, InvCounted
  <2>6. InvUnderway'
    BY <1>3, <1>0, <1>a, <2>1, InterruptIs, RevokedIs DEF WaitsSpent, InvUnderway
  <2>7. InvNudged'
    BY <1>3, <1>0, <1>a, <1>c, <1>d, <1>f, <2>1, InterruptIs, RevokedIs DEF WaitsSpent, InvNudged,
       InvUnderway, Authors, Book
  <2>8. SteersExact'
    BY <1>3, <1>0, <1>a, <2>1, SteersKept, RevokedUnder, InterruptIs, RevokedIs DEF WaitsSpent
  <2> QED
    BY <2>3, <2>4, <2>5, <2>6, <2>7, <2>8 DEF WatchInv
<1>4. ASSUME NEW kind \in Ends, Reprompt(kind) PROVE WatchInv'
  <2>1. /\ done'.recoveries = done.recoveries /\ done'.nudges <= done.nudges + 1 /\ done'.waits = done.waits
        /\ done'.repairs = done.repairs /\ done'.steers = done.steers /\ done'.soft = done.soft
    BY <1>4, <1>a, PastTallies, Bounds DEF Reprompt, Tally
  <2>2. step' = step /\ Saves
    BY <1>4, PersistIs, InterruptIs, RevokedIs, BookWritten DEF Reprompt, Saves
  <2>3. OnBooks(book', step', done')
    <3>1. book'.step = step /\ Page(book', Book.recoveries, Book.nudges + 1, Book.waits, Book.repairs)
      BY <1>4, BookWritten
    <3> QED
      BY <1>d, <1>f, <1>g, <2>2, <2>1, <3>1 DEF OnBooks, Page
  <2>4. InvSteps'
    BY <1>4, <1>0, <1>a, <1>c, <2>2, <2>1, InterruptIs, RevokedIs, BookWritten DEF Reprompt, InvSteps, Saves
  <2>5. InvBooked'
    BY <2>2, <2>3 DEF Saves, InvBooked, Covers, BookOf, OnBooks
  <2>6. InvCounted'
    BY <1>4, <1>0, <1>a, <1>h, <2>2, <2>1, InterruptIs, RevokedIs, BookWritten, ScanMoves DEF Reprompt,
       InvCounted, SamePage, Page
  <2>7. InvUnderway'
    BY <1>4, <1>0, <1>a, <2>2, <2>1, InterruptIs, RevokedIs, BookWritten DEF Reprompt, InvUnderway
  <2>8. InvNudged'
    BY <1>4, <1>0, <1>a, <1>c, <1>d, <1>f, <2>2, <2>1, InterruptIs, RevokedIs, BookWritten DEF Reprompt,
       InvNudged, InvUnderway, Authors, Book
  <2>9. SteersExact'
    BY <1>4, <1>0, <1>a, <2>2, <2>1, SteersKept, RevokedUnder, InterruptIs, RevokedIs, BookWritten DEF
       Reprompt
  <2> QED
    BY <2>4, <2>5, <2>6, <2>7, <2>8, <2>9 DEF WatchInv
<1>5. ASSUME NEW kind \in Ends, HoldNoReport(kind) PROVE WatchInv'
  <2>1. step' = step /\ Saves
    BY <1>5, PersistIs, InterruptIs, RevokedIs DEF HoldNoReport, Saves
  <2>2. OnBooks(book', step', done')
    BY <1>5, <1>a, <1>b, <1>d, <1>e, <1>f, <1>g, <2>1, SamePageCovers, InterruptIs, RevokedIs DEF
       HoldNoReport
  <2>3. InvSteps'
    BY <1>5, <1>0, <1>a, <1>c, <2>1, InterruptIs, RevokedIs DEF HoldNoReport, InvSteps, Saves
  <2>4. InvBooked'
    BY <2>1, <2>2 DEF Saves, InvBooked, Covers, BookOf, OnBooks
  <2>5. InvCounted'
    BY <1>5, <1>0, <1>a, <1>h, <2>1, InterruptIs, RevokedIs, ScanMoves DEF HoldNoReport, InvCounted
  <2>6. InvUnderway'
    BY <1>5, <1>0, <1>a, <2>1, InterruptIs, RevokedIs DEF HoldNoReport, InvUnderway
  <2>7. InvNudged'
    BY <1>5, <1>0, <1>a, <1>c, <1>d, <1>f, <2>1, InterruptIs, RevokedIs DEF HoldNoReport, InvNudged,
       InvUnderway, Authors, Book
  <2>8. SteersExact'
    BY <1>5, <1>0, <1>a, <2>1, SteersKept, RevokedUnder, InterruptIs, RevokedIs DEF HoldNoReport
  <2> QED
    BY <2>3, <2>4, <2>5, <2>6, <2>7, <2>8 DEF WatchInv
<1>6. ASSUME NEW kind \in Ends, Fault(kind) PROVE WatchInv'
  <2>1. step' = step /\ Saves
    BY <1>6, PersistIs, InterruptIs, RevokedIs DEF Fault, Saves
  <2>2. OnBooks(book', step', done')
    BY <1>6, <1>a, <1>b, <1>d, <1>e, <1>f, <1>g, <2>1, SamePageCovers, InterruptIs, RevokedIs DEF Fault
  <2>3. InvSteps'
    BY <1>6, <1>0, <1>a, <1>c, <2>1, InterruptIs, RevokedIs DEF Fault, InvSteps, Saves
  <2>4. InvBooked'
    BY <2>1, <2>2 DEF Saves, InvBooked, Covers, BookOf, OnBooks
  <2>5. InvCounted'
    BY <1>6, <1>0, <1>a, <1>h, <2>1, InterruptIs, RevokedIs, ScanMoves DEF Fault, InvCounted
  <2>6. InvUnderway'
    BY <1>6, <1>0, <1>a, <2>1, InterruptIs, RevokedIs DEF Fault, InvUnderway
  <2>7. InvNudged'
    BY <1>6, <1>0, <1>a, <1>c, <1>d, <1>f, <2>1, InterruptIs, RevokedIs DEF Fault, InvNudged,
       InvUnderway, Authors, Book
  <2>8. SteersExact'
    BY <1>6, <1>0, <1>a, <2>1, SteersKept, RevokedUnder, InterruptIs, RevokedIs DEF Fault
  <2> QED
    BY <2>3, <2>4, <2>5, <2>6, <2>7, <2>8 DEF WatchInv
<1>7. ASSUME NEW kind \in Ends, LimitReached(kind) PROVE WatchInv'
  <2>1. task'.status = "paused" /\ Revoked
    BY <1>7, <1>a, TaskFields DEF LimitReached
  <2>2. step' = step /\ Saves
    BY <1>7, PersistIs, RevokedIs DEF LimitReached, Saves
  <2>3. OnBooks(book', step', done')
    BY <1>7, <1>a, <1>b, <1>d, <1>e, <1>f, <1>g, <2>2, <2>1, SamePageCovers, RevokedIs DEF LimitReached
  <2>4. InvSteps'
    BY <1>7, <1>0, <1>a, <1>c, <2>2, <2>1, RevokedIs DEF LimitReached, InvSteps, Saves
  <2>5. InvBooked'
    BY <2>2, <2>3 DEF Saves, InvBooked, Covers, BookOf, OnBooks
  <2>6. InvCounted'
    BY <1>7, <1>0, <1>a, <1>h, <2>2, <2>1, RevokedIs, ScanMoves DEF LimitReached, InvCounted
  <2>7. InvUnderway'
    BY <1>7, <1>0, <1>a, <2>2, <2>1, RevokedIs DEF LimitReached, InvUnderway
  <2>8. InvNudged'
    BY <1>7, <1>0, <1>a, <1>c, <1>d, <1>f, <2>2, <2>1, RevokedIs DEF LimitReached, InvNudged, InvUnderway,
       Authors, Book
  <2>9. SteersExact'
    BY <1>7, <1>0, <1>a, <2>2, <2>1, SteersKept, RevokedUnder, RevokedIs DEF LimitReached
  <2> QED
    BY <2>4, <2>5, <2>6, <2>7, <2>8, <2>9 DEF WatchInv
<1>8. ASSUME NEW kind \in Ends, Hang(kind) PROVE WatchInv'
  <2>1. step' = step /\ Saves
    BY <1>8, PersistIs, InterruptIs, RevokedIs DEF Hang, Saves
  <2>2. OnBooks(book', step', done')
    BY <1>8, <1>a, <1>b, <1>d, <1>e, <1>f, <1>g, <2>1, SamePageCovers, InterruptIs, RevokedIs DEF Hang
  <2>3. InvSteps'
    BY <1>8, <1>0, <1>a, <1>c, <2>1, InterruptIs, RevokedIs DEF Hang, InvSteps, Saves
  <2>4. InvBooked'
    BY <2>1, <2>2 DEF Saves, InvBooked, Covers, BookOf, OnBooks
  <2>5. InvCounted'
    BY <1>8, <1>0, <1>a, <1>h, <2>1, InterruptIs, RevokedIs, ScanMoves DEF Hang, InvCounted
  <2>6. InvUnderway'
    BY <1>8, <1>0, <1>a, <2>1, InterruptIs, RevokedIs DEF Hang, InvUnderway
  <2>7. InvNudged'
    BY <1>8, <1>0, <1>a, <1>c, <1>d, <1>f, <2>1, InterruptIs, RevokedIs DEF Hang, InvNudged,
       InvUnderway, Authors, Book
  <2>8. SteersExact'
    BY <1>8, <1>0, <1>a, <2>1, SteersKept, RevokedUnder, InterruptIs, RevokedIs DEF Hang
  <2> QED
    BY <2>3, <2>4, <2>5, <2>6, <2>7, <2>8 DEF WatchInv
<1>9. ASSUME NEW kind \in Ends, Report(kind) PROVE WatchInv'
  <2>1. /\ task.status = "running" /\ scan.at = "idle" /\ Revoked
        /\ \/ /\ task'.status = "running" /\ book'.step = step
              /\ Page(book', Book.recoveries, Book.nudges, Book.waits, Book.repairs + 1)
              /\ done'.recoveries = done.recoveries /\ done'.nudges = done.nudges /\ done'.waits = done.waits
              /\ done'.repairs <= done.repairs + 1 /\ done'.steers = done.steers /\ done'.soft = 0
           \/ task'.status = "waiting" /\ book' = book /\ done' = done
    <3>1. CASE UNCHANGED task /\ done' = [done EXCEPT !.repairs = Past(@, MaxRepairs), !.soft = 0]
               /\ book'.step = step /\ Page(book', Book.recoveries, Book.nudges, Book.waits, Book.repairs + 1)
      BY <1>9, <1>a, <3>1, ReportWritten, PastTallies, Bounds DEF Tally
    <3>2. CASE task'.status = "waiting" /\ UNCHANGED <<book, told, done>>
      BY <1>9, <1>a, <3>2, ReportWritten
    <3> QED
      BY <1>9, <3>1, <3>2, ReportWritten
  <2>2. step' = step /\ Saves
    BY <1>9, PersistIs, RevokedIs, ReportWritten DEF Report, Saves
  <2>3. OnBooks(book', step', done')
    <3>1. CASE task'.status = "waiting" /\ book' = book /\ done' = done
      BY <1>e, <2>2, <3>1
    <3>2. CASE /\ book'.step = step /\ Page(book', Book.recoveries, Book.nudges, Book.waits, Book.repairs + 1)
               /\ done'.recoveries = done.recoveries /\ done'.nudges = done.nudges /\ done'.waits = done.waits
               /\ done'.repairs <= done.repairs + 1
      BY <1>d, <1>f, <1>g, <2>2, <3>2 DEF OnBooks, Page
    <3> QED
      BY <2>1, <3>1, <3>2
  <2>4. InvSteps'
    BY <1>9, <1>0, <1>a, <1>c, <2>2, <2>1, RevokedIs, ReportWritten DEF Report, InvSteps, Saves
  <2>5. InvBooked'
    BY <2>2, <2>3 DEF Saves, InvBooked, Covers, BookOf, OnBooks
  <2>6. InvCounted'
    BY <1>9, <1>0, <1>a, <1>h, <2>2, <2>1, RevokedIs, ReportWritten DEF Report, InvCounted, SamePage, Page
  <2>7. InvUnderway'
    BY <1>9, <1>0, <1>a, <2>2, <2>1, RevokedIs, ReportWritten DEF Report, InvUnderway
  <2>8. InvNudged'
    BY <1>9, <1>0, <1>a, <1>c, <1>d, <1>f, <2>2, <2>1, RevokedIs, ReportWritten DEF Report, InvNudged,
       InvUnderway, Authors, Book
  <2>9. SteersExact'
    BY <1>9, <1>0, <1>a, <2>2, <2>1, SteersKept, RevokedUnder, RevokedIs, ReportWritten DEF Report
  <2> QED
    BY <2>4, <2>5, <2>6, <2>7, <2>8, <2>9 DEF WatchInv
<1>10. ASSUME DueWait PROVE WatchInv'
  <2>1. step' = step /\ Saves
    BY <1>10, PersistIs, BookWritten DEF DueWait, Saves
  <2>2. OnBooks(book', step', done')
    BY <1>10, <1>a, <1>b, <1>d, <1>e, <1>f, <1>g, <2>1, SamePageCovers, BookWritten DEF DueWait
  <2>3. InvSteps'
    BY <1>10, <1>0, <1>a, <1>c, <2>1, BookWritten DEF DueWait, InvSteps, Saves
  <2>4. InvBooked'
    BY <2>1, <2>2 DEF Saves, InvBooked, Covers, BookOf, OnBooks
  <2>5. InvCounted'
    BY <1>10, <1>0, <1>a, <1>h, <2>1, BookWritten, ScanMoves DEF DueWait, InvCounted, SamePage, Page
  <2>6. InvUnderway'
    BY <1>10, <1>0, <1>a, <2>1, BookWritten DEF DueWait, InvUnderway
  <2>7. InvNudged'
    BY <1>10, <1>0, <1>a, <1>c, <1>d, <1>f, <2>1, BookWritten DEF DueWait, InvNudged, InvUnderway,
       Authors, Book
  <2>8. SteersExact'
    BY <1>10, <1>0, <1>a, <2>1, SteersKept, BookWritten DEF DueWait
  <2> QED
    BY <2>3, <2>4, <2>5, <2>6, <2>7, <2>8 DEF WatchInv
<1>11. ASSUME ScanQuiet PROVE WatchInv'
  <2>1. step' = step /\ saved' = saved
    BY <1>11 DEF ScanQuiet, Saves
  <2>2. OnBooks(book', step', done')
    BY <1>11, <1>a, <1>b, <1>d, <1>e, <1>f, <1>g, <2>1, SamePageCovers DEF ScanQuiet
  <2>3. InvSteps'
    BY <1>11, <1>0, <1>a, <1>c, <2>1 DEF ScanQuiet, InvSteps, Saves
  <2>4. InvBooked'
    BY <1>11, <1>a, <1>b, <1>d, <1>e, <2>1, <2>2, SamePageCovers DEF ScanQuiet, InvBooked, Covers,
       BookOf, OnBooks
  <2>5. InvCounted'
    BY <1>11, <1>0, <1>a, <1>h, <2>1 DEF ScanQuiet, InvCounted
  <2>6. InvUnderway'
    BY <1>11, <1>0, <1>a, <2>1 DEF ScanQuiet, InvUnderway
  <2>7. InvNudged'
    BY <1>11, <1>0, <1>a, <1>c, <1>d, <1>f, <2>1 DEF ScanQuiet, InvNudged, InvUnderway, Authors, Book
  <2>8. SteersExact'
    BY <1>11, <1>0, <1>a, <2>1, SteersKept DEF ScanQuiet
  <2> QED
    BY <2>3, <2>4, <2>5, <2>6, <2>7, <2>8 DEF WatchInv
<1>12. ASSUME Contained PROVE WatchInv'
  <2>1. step' = step /\ Saves
    BY <1>12, PersistIs DEF Contained, Saves
  <2>2. OnBooks(book', step', done')
    BY <1>12, <1>a, <1>b, <1>d, <1>e, <1>f, <1>g, <2>1, SamePageCovers DEF Contained
  <2>3. InvSteps'
    BY <1>12, <1>0, <1>a, <1>c, <2>1 DEF Contained, InvSteps, Saves
  <2>4. InvBooked'
    BY <2>1, <2>2 DEF Saves, InvBooked, Covers, BookOf, OnBooks
  <2>5. InvCounted'
    BY <1>12, <1>0, <1>a, <1>h, <2>1, ScanMoves DEF Contained, InvCounted
  <2>6. InvUnderway'
    BY <1>12, <1>0, <1>a, <2>1 DEF Contained, InvUnderway
  <2>7. InvNudged'
    BY <1>12, <1>0, <1>a, <1>c, <1>d, <1>f, <2>1 DEF Contained, InvNudged, InvUnderway, Authors, Book
  <2>8. SteersExact'
    BY <1>12, <1>0, <1>a, <2>1, SteersKept DEF Contained
  <2> QED
    BY <2>3, <2>4, <2>5, <2>6, <2>7, <2>8 DEF WatchInv
<1>13. ASSUME ProveExit PROVE WatchInv'
  <2>1. step' = step /\ saved' = saved
    BY <1>13 DEF ProveExit, Saves
  <2>2. OnBooks(book', step', done')
    BY <1>13, <1>a, <1>b, <1>d, <1>e, <1>f, <1>g, <2>1, SamePageCovers DEF ProveExit
  <2>3. InvSteps'
    BY <1>13, <1>0, <1>a, <1>c, <2>1 DEF ProveExit, InvSteps, Saves
  <2>4. InvBooked'
    BY <1>13, <1>a, <1>b, <1>d, <1>e, <2>1, <2>2, SamePageCovers DEF ProveExit, InvBooked, Covers,
       BookOf, OnBooks
  <2>5. InvCounted'
    BY <1>13, <1>0, <1>a, <1>h, <2>1, ScanMoves DEF ProveExit, InvCounted
  <2>6. InvUnderway'
    BY <1>13, <1>0, <1>a, <2>1 DEF ProveExit, InvUnderway
  <2>7. InvNudged'
    BY <1>13, <1>0, <1>a, <1>c, <1>d, <1>f, <2>1 DEF ProveExit, InvNudged, InvUnderway, Authors, Book
  <2>8. SteersExact'
    BY <1>13, <1>0, <1>a, <2>1, SteersKept DEF ProveExit
  <2> QED
    BY <2>3, <2>4, <2>5, <2>6, <2>7, <2>8 DEF WatchInv
<1>14. ASSUME Guard PROVE WatchInv'
  <2>1. /\ done' = done /\ task' = task /\ sending' = sending
        /\ \/ book' = book /\ scan'.at = "notices"
           \/ /\ book'.step = step /\ book'.nudged = Book.nudged /\ task.status \in {"paused", "interrupted"}
              /\ Page(book', Book.recoveries + 1, Book.nudges, Book.waits, Book.repairs)
    BY <1>14, BookWritten DEF Guard, MayRecover
  <2>2. step' = step /\ saved' = saved
    BY <1>14, BookWritten DEF Guard, Saves
  <2>3. OnBooks(book', step', done')
    <3>1. CASE book' = book
      BY <1>e, <2>2, <2>1, <3>1
    <3>2. CASE book'.step = step /\ Page(book', Book.recoveries + 1, Book.nudges, Book.waits, Book.repairs)
      BY <1>d, <1>f, <1>g, <2>2, <2>1, <3>2 DEF OnBooks, Page
    <3> QED
      BY <2>1, <3>1, <3>2
  <2>4. InvSteps'
    BY <1>14, <1>0, <1>a, <1>c, <2>2, <2>1, BookWritten DEF Guard, InvSteps, Saves
  <2>5. InvBooked'
    BY <1>14, <1>a, <1>b, <1>d, <1>e, <2>2, <2>1, <2>3, SamePageCovers DEF Guard, InvBooked, Covers, BookOf,
       OnBooks
  <2>6. InvCounted'
    BY <1>d, <1>f, <1>g, <2>2, <2>1 DEF InvCounted, Page
  <2>7. InvUnderway'
    BY <1>14, <1>0, <1>a, <2>2, <2>1, BookWritten DEF Guard, InvUnderway
  <2>8. InvNudged'
    BY <1>14, <1>0, <1>a, <1>c, <1>d, <1>f, <2>2, <2>1, BookWritten DEF Guard, InvNudged, InvUnderway,
       Authors, Book
  <2>9. SteersExact'
    BY <1>14, <1>0, <1>a, <2>2, <2>1, SteersKept, BookWritten DEF Guard
  <2> QED
    BY <2>4, <2>5, <2>6, <2>7, <2>8, <2>9 DEF WatchInv
<1>15. ASSUME Counted PROVE WatchInv'
  <2>1. /\ done'.recoveries <= done.recoveries + 1 /\ done'.nudges = done.nudges /\ done'.waits = done.waits
        /\ done'.repairs = done.repairs /\ done'.steers = done.steers /\ done'.soft = done.soft /\ scan.at = "counted"
    BY <1>15, <1>a, PastTallies, Bounds DEF Counted, Tally
  <2>2. step' = step /\ Saves
    BY <1>15, PersistIs DEF Counted, Saves
  <2>3. OnBooks(book', step', done')
    <3>1. book.step = step /\ done.recoveries < book.recoveries /\ book' = book
      BY <1>15, <1>0, <2>1 DEF InvCounted, Counted
    <3>2. book.recoveries \in Nat
      BY <1>a, BookNumbers
    <3>3. done'.recoveries \in Nat
      BY <1>b, DoneFields
    <3> QED
      BY <1>d, <1>e, <2>2, <2>1, <3>1, <3>2, <3>3 DEF OnBooks
  <2>4. InvSteps'
    BY <1>15, <1>0, <1>a, <1>c, <2>2, <2>1 DEF Counted, InvSteps, Saves
  <2>5. InvBooked'
    BY <2>2, <2>3 DEF Saves, InvBooked, Covers, BookOf, OnBooks
  <2>6. InvCounted'
    BY <1>15, <1>0, <1>a, <1>h, <2>2, <2>1, ScanMoves DEF Counted, InvCounted
  <2>7. InvUnderway'
    BY <1>15, <1>0, <1>a, <2>2, <2>1 DEF Counted, InvUnderway
  <2>8. InvNudged'
    BY <1>15, <1>0, <1>a, <1>c, <1>d, <1>f, <2>2, <2>1 DEF Counted, InvNudged, InvUnderway, Authors, Book
  <2>9. SteersExact'
    BY <1>15, <1>0, <1>a, <2>2, <2>1, SteersKept DEF Counted
  <2> QED
    BY <2>4, <2>5, <2>6, <2>7, <2>8, <2>9 DEF WatchInv
<1>16. ASSUME StopFirst PROVE WatchInv'
  <2>1. step' = step /\ Saves
    BY <1>16, PersistIs, RevokedIs, StopsIs DEF StopFirst, Saves
  <2>2. OnBooks(book', step', done')
    BY <1>16, <1>a, <1>b, <1>d, <1>e, <1>f, <1>g, <2>1, SamePageCovers, RevokedIs, StopsIs DEF StopFirst
  <2>3. InvSteps'
    BY <1>16, <1>0, <1>a, <1>c, <2>1, RevokedIs, StopsIs DEF StopFirst, InvSteps, Saves
  <2>4. InvBooked'
    BY <2>1, <2>2 DEF Saves, InvBooked, Covers, BookOf, OnBooks
  <2>5. InvCounted'
    BY <1>16, <1>0, <1>a, <1>h, <2>1, RevokedIs, StopsIs, ScanMoves DEF StopFirst, InvCounted
  <2>6. InvUnderway'
    BY <1>16, <1>0, <1>a, <2>1, RevokedIs, StopsIs DEF StopFirst, InvUnderway
  <2>7. InvNudged'
    BY <1>16, <1>0, <1>a, <1>c, <1>d, <1>f, <2>1, RevokedIs, StopsIs DEF StopFirst, InvNudged,
       InvUnderway, Authors, Book
  <2>8. SteersExact'
    BY <1>16, <1>0, <1>a, <2>1, SteersKept, RevokedUnder, RevokedIs, StopsIs DEF StopFirst
  <2> QED
    BY <2>3, <2>4, <2>5, <2>6, <2>7, <2>8 DEF WatchInv
<1>17. ASSUME SwitchStop PROVE WatchInv'
  <2>1. step' = step /\ Saves
    BY <1>17, PersistIs, RevokedIs, StopsIs DEF SwitchStop, Saves
  <2>2. OnBooks(book', step', done')
    BY <1>17, <1>a, <1>b, <1>d, <1>e, <1>f, <1>g, <2>1, SamePageCovers, RevokedIs, StopsIs DEF
       SwitchStop
  <2>3. InvSteps'
    BY <1>17, <1>0, <1>a, <1>c, <2>1, RevokedIs, StopsIs DEF SwitchStop, InvSteps, Saves
  <2>4. InvBooked'
    BY <2>1, <2>2 DEF Saves, InvBooked, Covers, BookOf, OnBooks
  <2>5. InvCounted'
    BY <1>17, <1>0, <1>a, <1>h, <2>1, RevokedIs, StopsIs, ScanMoves DEF SwitchStop, InvCounted
  <2>6. InvUnderway'
    BY <1>17, <1>0, <1>a, <2>1, RevokedIs, StopsIs DEF SwitchStop, InvUnderway
  <2>7. InvNudged'
    BY <1>17, <1>0, <1>a, <1>c, <1>d, <1>f, <2>1, RevokedIs, StopsIs DEF SwitchStop, InvNudged,
       InvUnderway, Authors, Book
  <2>8. SteersExact'
    BY <1>17, <1>0, <1>a, <2>1, SteersKept, RevokedUnder, RevokedIs, StopsIs DEF SwitchStop
  <2> QED
    BY <2>3, <2>4, <2>5, <2>6, <2>7, <2>8 DEF WatchInv
<1>18. ASSUME SwitchRecord PROVE WatchInv'
  <2>1. step' = step /\ Saves
    BY <1>18, PersistIs DEF SwitchRecord, Saves
  <2>2. OnBooks(book', step', done')
    BY <1>18, <1>a, <1>b, <1>d, <1>e, <1>f, <1>g, <2>1, SamePageCovers DEF SwitchRecord
  <2>3. InvSteps'
    BY <1>18, <1>0, <1>a, <1>c, <2>1 DEF SwitchRecord, InvSteps, Saves
  <2>4. InvBooked'
    BY <2>1, <2>2 DEF Saves, InvBooked, Covers, BookOf, OnBooks
  <2>5. InvCounted'
    BY <1>18, <1>0, <1>a, <1>h, <2>1, ScanMoves DEF SwitchRecord, InvCounted
  <2>6. InvUnderway'
    BY <1>18, <1>0, <1>a, <2>1 DEF SwitchRecord, InvUnderway
  <2>7. InvNudged'
    BY <1>18, <1>0, <1>a, <1>c, <1>d, <1>f, <2>1 DEF SwitchRecord, InvNudged, InvUnderway, Authors, Book
  <2>8. SteersExact'
    BY <1>18, <1>0, <1>a, <2>1, SteersKept DEF SwitchRecord
  <2> QED
    BY <2>3, <2>4, <2>5, <2>6, <2>7, <2>8 DEF WatchInv
<1>19. ASSUME AutoResume PROVE WatchInv'
  <2>1. /\ book'.step = book.step /\ SamePage(book, book') /\ NoMore(done, done') /\ done'.steers = done.steers
        /\ \/ UNCHANGED <<done, book>> /\ (task' = task \/ (task.status = "held" /\ task'.status = "waiting"))
           \/ task'.status = "interrupted" /\ done' = done /\ Held
           \/ task'.status = "running" /\ done'.soft = 0 /\ Held
    <3>1. Resumed("watchdog")
      BY <1>19 DEF AutoResume
    <3>2. Tally([done EXCEPT !.soft = 0, !.by = "watchdog"],
                done.recoveries, done.nudges, done.waits, done.repairs, done.steers, 0)
      BY <1>a, Tallies
    <3> QED
      BY <3>1, <3>2, <1>d, <1>e, ResumedIs DEF Tally, NoMore
  <2>2. step' = step /\ Saves
    BY <1>19, PersistIs, ResumedIs DEF AutoResume, Saves
  <2>3. OnBooks(book', step', done')
    BY <1>a, <1>b, <1>e, <2>2, <2>1, SamePageCovers
  <2>4. InvSteps'
    BY <1>19, <1>0, <1>a, <1>c, <2>2, <2>1, ResumedIs DEF AutoResume, InvSteps, Saves
  <2>5. InvBooked'
    BY <2>2, <2>3 DEF Saves, InvBooked, Covers, BookOf, OnBooks
  <2>6. InvCounted'
    BY <1>19, <1>0, <1>a, <1>h, <2>2, <2>1, ResumedIs, ScanMoves DEF AutoResume, InvCounted, SamePage, Page
  <2>7. InvUnderway'
    BY <1>19, <1>0, <2>1 DEF AutoResume, InvUnderway, Held
  <2>8. InvNudged'
    BY <1>19, <1>0, <1>a, <1>c, <1>d, <1>f, <2>2, <2>1 DEF AutoResume, InvNudged, InvUnderway, Authors, Book,
       Held
  <2>9. SteersExact'
    BY <1>19, <1>0, <1>a, <2>2, <2>1, SteersKept, ResumedIs DEF AutoResume
  <2> QED
    BY <2>4, <2>5, <2>6, <2>7, <2>8, <2>9 DEF WatchInv
<1>20. ASSUME ScanEnds PROVE WatchInv'
  <2>1. step' = step /\ saved' = saved
    BY <1>20 DEF ScanEnds, Saves
  <2>2. OnBooks(book', step', done')
    BY <1>20, <1>a, <1>b, <1>d, <1>e, <1>f, <1>g, <2>1, SamePageCovers DEF ScanEnds
  <2>3. InvSteps'
    BY <1>20, <1>0, <1>a, <1>c, <2>1 DEF ScanEnds, InvSteps, Saves
  <2>4. InvBooked'
    BY <1>20, <1>a, <1>b, <1>d, <1>e, <2>1, <2>2, SamePageCovers DEF ScanEnds, InvBooked, Covers,
       BookOf, OnBooks
  <2>5. InvCounted'
    BY <1>20, <1>0, <1>a, <1>h, <2>1, ScanMoves DEF ScanEnds, InvCounted
  <2>6. InvUnderway'
    BY <1>20, <1>0, <1>a, <2>1 DEF ScanEnds, InvUnderway
  <2>7. InvNudged'
    BY <1>20, <1>0, <1>a, <1>c, <1>d, <1>f, <2>1 DEF ScanEnds, InvNudged, InvUnderway, Authors, Book
  <2>8. SteersExact'
    BY <1>20, <1>0, <1>a, <2>1, SteersKept DEF ScanEnds
  <2> QED
    BY <2>3, <2>4, <2>5, <2>6, <2>7, <2>8 DEF WatchInv
<1>21. ASSUME Approve PROVE WatchInv'
  <2>1. \/ /\ task'.status = "done" /\ step' = step /\ book' = book /\ done' = done
        \/ /\ task'.status = "running" /\ step' = step + 1 /\ book'.step = book.step /\ done' = Nothing
    <3>1. CASE step = MaxSteps /\ task' = [task EXCEPT !.status = "done"] /\ UNCHANGED <<step, book, done>>
      BY <1>a, <3>1, TaskFields
    <3>2. CASE /\ step' = step + 1 /\ book' = Rotated(book) /\ done' = Nothing
               /\ task' = [status |-> "running", human |-> FALSE, why |-> "none"]
      BY <1>a, <3>2, RotatedIs
    <3> QED
      BY <1>21, <3>1, <3>2 DEF Approve
  <2>2. Saves
    BY <1>21, PersistIs DEF Approve, Saves
  <2>3. OnBooks(book', step', done')
    <3>1. CASE step' = step /\ book' = book /\ done' = done
      BY <1>e, <3>1
    <3>2. CASE done' = Nothing
      BY <1>b, <3>2, NothingIsCovered
    <3> QED
      BY <2>1, <3>1, <3>2
  <2>4. InvSteps'
    BY <1>21, <1>0, <1>a, <1>c, <2>2, <2>1, RotatedIs DEF Approve, InvSteps, Saves
  <2>5. InvBooked'
    BY <2>2, <2>3 DEF Saves, InvBooked, Covers, BookOf, OnBooks
  <2>6. InvCounted'
    BY <1>21, <1>0, <1>a, <1>h, <2>2, <2>1 DEF Approve, InvCounted, SamePage, Page
  <2>7. InvUnderway'
    BY <1>21, <1>0, <1>a, <2>2, <2>1 DEF Approve, InvUnderway
  <2>8. InvNudged'
    <3>1. CASE task'.status = "done" /\ done' = done
      BY <1>21, <1>0, <1>d, <3>1 DEF Approve, InvNudged, Authors
    <3>2. CASE done' = Nothing
      BY <1>21, <3>2 DEF Approve, InvNudged, Authors, Nothing
    <3> QED
      BY <2>1, <3>1, <3>2
  <2>9. SteersExact'
    <3>1. CASE step' = step /\ done' = done
      BY <1>21, <1>0, <3>1, SteersKept DEF Approve
    <3>2. CASE step' = step + 1 /\ done' = Nothing
      <4>1. SteersSpent' = 0
        BY <1>21, <1>0, <1>c, <3>2 DEF Approve, InvSteps, SteersSpent
      <4>2. Under(sending', "person") = 0 /\ Under(sending', "nudge") = 0
        BY <1>21 DEF Approve, Under, Authors
      <4>3. done'.steers = 0
        BY <3>2 DEF Nothing
      <4> QED
        BY <4>1, <4>2, <4>3, SteersAre
    <3> QED
      BY <2>1, <3>1, <3>2
  <2> QED
    BY <2>4, <2>5, <2>6, <2>7, <2>8, <2>9 DEF WatchInv
<1>22. ASSUME Revise PROVE WatchInv'
  <2>1. /\ task.status = "waiting" /\ task'.status = "running" /\ book' = Rotated(book)
        /\ Rotated(book).step = book.step /\ SamePage(book, Rotated(book))
        /\ done'.recoveries = done.recoveries /\ done'.nudges = done.nudges /\ done'.waits = done.waits
        /\ done'.repairs = done.repairs /\ done'.steers = done.steers /\ done'.soft = 0
    BY <1>22, <1>a, Tallies, RotatedIs DEF Revise, Activate, Tally
  <2>2. step' = step /\ Saves
    BY <1>22, PersistIs DEF Revise, Saves
  <2>3. OnBooks(book', step', done')
    <3>1. NoMore(done, done')
      BY <1>d, <2>1 DEF NoMore
    <3> QED
      BY <1>a, <1>b, <1>e, <2>2, <2>1, <3>1, SamePageCovers
  <2>4. InvSteps'
    BY <1>22, <1>0, <1>a, <1>c, <2>2, <2>1, RotatedIs DEF Revise, InvSteps, Saves
  <2>5. InvBooked'
    BY <2>2, <2>3 DEF Saves, InvBooked, Covers, BookOf, OnBooks
  <2>6. InvCounted'
    BY <1>22, <1>0, <1>a, <1>h, <2>2, <2>1, RotatedIs DEF Revise, InvCounted, SamePage, Page
  <2>7. InvUnderway'
    BY <1>22, <1>0, <1>a, <2>2, <2>1 DEF Revise, InvUnderway
  <2>8. InvNudged'
    BY <1>22, <1>0, <1>a, <1>c, <1>d, <1>f, <2>2, <2>1 DEF Revise, InvNudged, InvUnderway, Authors, Book
  <2>9. SteersExact'
    BY <1>22, <1>0, <1>a, <2>2, <2>1, SteersKept DEF Revise
  <2> QED
    BY <2>4, <2>5, <2>6, <2>7, <2>8, <2>9 DEF WatchInv
<1>23. ASSUME Cancel PROVE WatchInv'
  <2>1. task'.status = "done" /\ Revoked /\ scan'.at = scan.at
    BY <1>23, <1>a, TaskFields, ScanFields DEF Cancel, Supersede
  <2>2. step' = step /\ Saves
    BY <1>23, PersistIs, RevokedIs DEF Cancel, Saves
  <2>3. OnBooks(book', step', done')
    BY <1>23, <1>a, <1>b, <1>d, <1>e, <1>f, <1>g, <2>2, <2>1, SamePageCovers, RevokedIs DEF Cancel
  <2>4. InvSteps'
    BY <1>23, <1>0, <1>a, <1>c, <2>2, <2>1, RevokedIs DEF Cancel, InvSteps, Saves
  <2>5. InvBooked'
    BY <2>2, <2>3 DEF Saves, InvBooked, Covers, BookOf, OnBooks
  <2>6. InvCounted'
    BY <1>23, <1>0, <1>a, <1>h, <2>2, <2>1, RevokedIs, ScanMoves DEF Cancel, InvCounted
  <2>7. InvUnderway'
    BY <1>23, <1>0, <1>a, <2>2, <2>1, RevokedIs DEF Cancel, InvUnderway
  <2>8. InvNudged'
    BY <1>23, <1>0, <1>a, <1>c, <1>d, <1>f, <2>2, <2>1, RevokedIs DEF Cancel, InvNudged, InvUnderway, Authors,
       Book
  <2>9. SteersExact'
    BY <1>23, <1>0, <1>a, <2>2, <2>1, SteersKept, RevokedUnder, RevokedIs DEF Cancel
  <2> QED
    BY <2>4, <2>5, <2>6, <2>7, <2>8, <2>9 DEF WatchInv
<1>24. ASSUME Pause PROVE WatchInv'
  <2>1. /\ task'.status \in {"held", "paused"} /\ Revoked /\ scan'.at = scan.at
        /\ task'.status = "held" => task.status \in {"waiting", "held"}
    BY <1>24, <1>a, ScanFields DEF Pause, Supersede
  <2>2. step' = step /\ Saves
    BY <1>24, PersistIs, RevokedIs DEF Pause, Saves
  <2>3. OnBooks(book', step', done')
    BY <1>24, <1>a, <1>b, <1>d, <1>e, <1>f, <1>g, <2>2, <2>1, SamePageCovers, RevokedIs DEF Pause
  <2>4. InvSteps'
    BY <1>24, <1>0, <1>a, <1>c, <2>2, <2>1, RevokedIs DEF Pause, InvSteps, Saves
  <2>5. InvBooked'
    BY <2>2, <2>3 DEF Saves, InvBooked, Covers, BookOf, OnBooks
  <2>6. InvCounted'
    BY <1>24, <1>0, <1>a, <1>h, <2>2, <2>1, RevokedIs, ScanMoves DEF Pause, InvCounted
  <2>7. InvUnderway'
    BY <1>24, <1>0, <1>a, <2>2, <2>1, RevokedIs DEF Pause, InvUnderway
  <2>8. InvNudged'
    BY <1>24, <1>0, <1>a, <1>c, <1>d, <1>f, <2>2, <2>1, RevokedIs DEF Pause, InvNudged, InvUnderway, Authors,
       Book
  <2>9. SteersExact'
    BY <1>24, <1>0, <1>a, <2>2, <2>1, SteersKept, RevokedUnder, RevokedIs DEF Pause
  <2> QED
    BY <2>4, <2>5, <2>6, <2>7, <2>8, <2>9 DEF WatchInv
<1>25. ASSUME Resume PROVE WatchInv'
  <2>1. /\ book'.step = book.step /\ SamePage(book, book') /\ NoMore(done, done') /\ done'.steers = done.steers
        /\ \/ UNCHANGED <<done, book>> /\ (task' = task \/ (task.status = "held" /\ task'.status = "waiting"))
           \/ task'.status = "interrupted" /\ done' = done /\ Held
           \/ task'.status = "running" /\ done'.soft = 0 /\ Held
    <3>1. Resumed("person")
      BY <1>25 DEF Resume
    <3>2. Tally([done EXCEPT !.soft = 0, !.by = "person"],
                done.recoveries, done.nudges, done.waits, done.repairs, done.steers, 0)
      BY <1>a, Tallies
    <3> QED
      BY <3>1, <3>2, <1>d, <1>e, ResumedIs DEF Tally, NoMore
  <2>2. step' = step /\ Saves
    BY <1>25, PersistIs, ResumedIs DEF Resume, Saves
  <2>3. OnBooks(book', step', done')
    BY <1>a, <1>b, <1>e, <2>2, <2>1, SamePageCovers
  <2>4. InvSteps'
    BY <1>25, <1>0, <1>a, <1>c, <2>2, <2>1, ResumedIs DEF Resume, InvSteps, Saves
  <2>5. InvBooked'
    BY <2>2, <2>3 DEF Saves, InvBooked, Covers, BookOf, OnBooks
  <2>6. InvCounted'
    BY <1>25, <1>0, <1>d, <2>2, <2>1 DEF Resume, InvCounted, SamePage, Page, NoMore, Held
  <2>7. InvUnderway'
    BY <1>25, <1>0, <2>1 DEF Resume, InvUnderway, Held
  <2>8. InvNudged'
    BY <1>25, <1>0, <1>a, <1>c, <1>d, <1>f, <2>2, <2>1 DEF Resume, InvNudged, InvUnderway, Authors, Book, Held
  <2>9. SteersExact'
    BY <1>25, <1>0, <1>a, <2>2, <2>1, SteersKept, ResumedIs DEF Resume
  <2> QED
    BY <2>4, <2>5, <2>6, <2>7, <2>8, <2>9 DEF WatchInv
<1>26. ASSUME Stop PROVE WatchInv'
  <2>1. /\ Revoked /\ scan'.at = scan.at
        /\ (task'.status = task.status \/ (task.status = "running" /\ task'.status = "interrupted"))
    <3>1. Revoked /\ scan'.at = scan.at
      BY <1>26, <1>a, ScanFields DEF Stop, Supersede
    <3>2. \/ task' = task
          \/ /\ task.status \in {"running", "interrupted"}
             /\ task' = [task EXCEPT !.status = "interrupted", !.why = "stop"]
      BY <1>26 DEF Stop
    <3> QED
      BY <1>a, <3>1, <3>2, TaskFields
  <2>2. step' = step /\ Saves
    BY <1>26, PersistIs, RevokedIs DEF Stop, Saves
  <2>3. OnBooks(book', step', done')
    BY <1>26, <1>a, <1>b, <1>d, <1>e, <1>f, <1>g, <2>2, <2>1, SamePageCovers, RevokedIs DEF Stop
  <2>4. InvSteps'
    BY <1>26, <1>0, <1>a, <1>c, <2>2, <2>1, RevokedIs DEF Stop, InvSteps, Saves
  <2>5. InvBooked'
    BY <2>2, <2>3 DEF Saves, InvBooked, Covers, BookOf, OnBooks
  <2>6. InvCounted'
    BY <1>26, <1>0, <1>a, <1>h, <2>2, <2>1, RevokedIs, ScanMoves DEF Stop, InvCounted
  <2>7. InvUnderway'
    BY <1>26, <1>0, <1>a, <2>2, <2>1, RevokedIs DEF Stop, InvUnderway
  <2>8. InvNudged'
    BY <1>26, <1>0, <1>a, <1>c, <1>d, <1>f, <2>2, <2>1, RevokedIs DEF Stop, InvNudged, InvUnderway, Authors,
       Book
  <2>9. SteersExact'
    BY <1>26, <1>0, <1>a, <2>2, <2>1, SteersKept, RevokedUnder, RevokedIs DEF Stop
  <2> QED
    BY <2>4, <2>5, <2>6, <2>7, <2>8, <2>9 DEF WatchInv
<1>27. ASSUME Reconcile PROVE WatchInv'
  <2>1. step' = step /\ Saves
    BY <1>27, PersistIs DEF Reconcile, Saves
  <2>2. OnBooks(book', step', done')
    BY <1>27, <1>a, <1>b, <1>d, <1>e, <1>f, <1>g, <2>1, SamePageCovers DEF Reconcile
  <2>3. InvSteps'
    BY <1>27, <1>0, <1>a, <1>c, <2>1 DEF Reconcile, InvSteps, Saves
  <2>4. InvBooked'
    BY <2>1, <2>2 DEF Saves, InvBooked, Covers, BookOf, OnBooks
  <2>5. InvCounted'
    BY <1>27, <1>0, <1>a, <1>h, <2>1 DEF Reconcile, InvCounted
  <2>6. InvUnderway'
    BY <1>27, <1>0, <1>a, <2>1 DEF Reconcile, InvUnderway
  <2>7. InvNudged'
    BY <1>27, <1>0, <1>a, <1>c, <1>d, <1>f, <2>1 DEF Reconcile, InvNudged, InvUnderway, Authors, Book
  <2>8. SteersExact'
    BY <1>27, <1>0, <1>a, <2>1, SteersKept DEF Reconcile
  <2> QED
    BY <2>3, <2>4, <2>5, <2>6, <2>7, <2>8 DEF WatchInv
<1>28. ASSUME Recover PROVE WatchInv'
  <2>1. step' = step /\ saved' = saved
    BY <1>28 DEF Recover, Saves
  <2>2. OnBooks(book', step', done')
    BY <1>28, <1>a, <1>b, <1>d, <1>e, <1>f, <1>g, <2>1, SamePageCovers DEF Recover
  <2>3. InvSteps'
    BY <1>28, <1>0, <1>a, <1>c, <2>1 DEF Recover, InvSteps, Saves
  <2>4. InvBooked'
    BY <1>28, <1>a, <1>b, <1>d, <1>e, <2>1, <2>2, SamePageCovers DEF Recover, InvBooked, Covers, BookOf,
       OnBooks
  <2>5. InvCounted'
    BY <1>28, <1>0, <1>a, <1>h, <2>1 DEF Recover, InvCounted
  <2>6. InvUnderway'
    BY <1>28, <1>0, <1>a, <2>1 DEF Recover, InvUnderway
  <2>7. InvNudged'
    BY <1>28, <1>0, <1>a, <1>c, <1>d, <1>f, <2>1 DEF Recover, InvNudged, InvUnderway, Authors, Book
  <2>8. SteersExact'
    BY <1>28, <1>0, <1>a, <2>1, SteersKept DEF Recover
  <2> QED
    BY <2>3, <2>4, <2>5, <2>6, <2>7, <2>8 DEF WatchInv
<1>29. ASSUME RecoverStops PROVE WatchInv'
  <2>1. /\ Revoked /\ scan'.at = scan.at
        /\ (task'.status = task.status \/ (task.status = "running" /\ task'.status = "interrupted"))
    <3>1. Revoked /\ scan'.at = scan.at
      BY <1>29, <1>a, ScanFields DEF RecoverStops, Supersede
    <3>2. \/ task' = task
          \/ /\ task.status \in {"running", "interrupted"}
             /\ task' = [task EXCEPT !.status = "interrupted", !.why = "stop"]
      BY <1>29 DEF RecoverStops
    <3> QED
      BY <1>a, <3>1, <3>2, TaskFields
  <2>2. step' = step /\ Saves
    BY <1>29, PersistIs, RevokedIs DEF RecoverStops, Saves
  <2>3. OnBooks(book', step', done')
    BY <1>29, <1>a, <1>b, <1>d, <1>e, <1>f, <1>g, <2>2, <2>1, SamePageCovers, RevokedIs DEF RecoverStops
  <2>4. InvSteps'
    BY <1>29, <1>0, <1>a, <1>c, <2>2, <2>1, RevokedIs DEF RecoverStops, InvSteps, Saves
  <2>5. InvBooked'
    BY <2>2, <2>3 DEF Saves, InvBooked, Covers, BookOf, OnBooks
  <2>6. InvCounted'
    BY <1>29, <1>0, <1>a, <1>h, <2>2, <2>1, RevokedIs, ScanMoves DEF RecoverStops, InvCounted
  <2>7. InvUnderway'
    BY <1>29, <1>0, <1>a, <2>2, <2>1, RevokedIs DEF RecoverStops, InvUnderway
  <2>8. InvNudged'
    BY <1>29, <1>0, <1>a, <1>c, <1>d, <1>f, <2>2, <2>1, RevokedIs DEF RecoverStops, InvNudged, InvUnderway,
       Authors, Book
  <2>9. SteersExact'
    BY <1>29, <1>0, <1>a, <2>2, <2>1, SteersKept, RevokedUnder, RevokedIs DEF RecoverStops
  <2> QED
    BY <2>4, <2>5, <2>6, <2>7, <2>8, <2>9 DEF WatchInv
<1>30. ASSUME RecoverResumes PROVE WatchInv'
  <2>1. /\ book'.step = book.step /\ SamePage(book, book') /\ NoMore(done, done') /\ done'.steers = done.steers
        /\ \/ UNCHANGED <<done, book>> /\ (task' = task \/ (task.status = "held" /\ task'.status = "waiting"))
           \/ task'.status = "interrupted" /\ done' = done /\ Held
           \/ task'.status = "running" /\ done'.soft = 0 /\ Held
    <3>1. Resumed("main")
      BY <1>30 DEF RecoverResumes
    <3>2. Tally([done EXCEPT !.soft = 0, !.by = "main"],
                done.recoveries, done.nudges, done.waits, done.repairs, done.steers, 0)
      BY <1>a, Tallies
    <3> QED
      BY <3>1, <3>2, <1>d, <1>e, ResumedIs DEF Tally, NoMore
  <2>2. step' = step /\ Saves
    BY <1>30, PersistIs, ResumedIs DEF RecoverResumes, Saves
  <2>3. OnBooks(book', step', done')
    BY <1>a, <1>b, <1>e, <2>2, <2>1, SamePageCovers
  <2>4. InvSteps'
    BY <1>30, <1>0, <1>a, <1>c, <2>2, <2>1, ResumedIs DEF RecoverResumes, InvSteps, Saves
  <2>5. InvBooked'
    BY <2>2, <2>3 DEF Saves, InvBooked, Covers, BookOf, OnBooks
  <2>6. InvCounted'
    BY <1>30, <1>0, <1>d, <2>2, <2>1 DEF RecoverResumes, InvCounted, SamePage, Page, NoMore, Held
  <2>7. InvUnderway'
    BY <1>30, <1>0, <2>1 DEF RecoverResumes, InvUnderway, Held
  <2>8. InvNudged'
    BY <1>30, <1>0, <1>a, <1>c, <1>d, <1>f, <2>2, <2>1 DEF RecoverResumes, InvNudged, InvUnderway, Authors,
       Book, Held
  <2>9. SteersExact'
    BY <1>30, <1>0, <1>a, <2>2, <2>1, SteersKept, ResumedIs DEF RecoverResumes
  <2> QED
    BY <2>4, <2>5, <2>6, <2>7, <2>8, <2>9 DEF WatchInv
<1>31. ASSUME Steer PROVE WatchInv'
  <2>1. /\ task.status = "running" /\ sending["person"] = "none" /\ sending'["person"] = "sent"
        /\ \A b \in Authors \ {"person"} : sending'[b] = sending[b]
        /\ steers'.step = step /\ steers'.count = SteersSpent + 1
    BY <1>31, <1>a DEF Steer, Reserve, Running, SendingType, Authors
  <2>2. step' = step /\ saved' = saved
    BY <1>31 DEF Steer, Reserve, Saves
  <2>3. OnBooks(book', step', done')
    BY <1>31, <1>a, <1>b, <1>d, <1>e, <1>f, <1>g, <2>2, <2>1, SamePageCovers DEF Steer, Reserve
  <2>4. InvSteps'
    BY <1>31, <1>0, <1>a, <1>c, <2>2, <2>1 DEF Steer, Reserve, InvSteps, Saves
  <2>5. InvBooked'
    BY <1>31, <1>a, <1>b, <1>d, <1>e, <2>2, <2>1, <2>3, SamePageCovers DEF Steer, Reserve, InvBooked, Covers,
       BookOf, OnBooks
  <2>6. InvCounted'
    BY <1>31, <1>0, <1>a, <1>h, <2>2, <2>1 DEF Steer, Reserve, InvCounted
  <2>7. InvUnderway'
    BY <1>31, <1>0, <1>a, <2>2, <2>1 DEF Steer, Reserve, InvUnderway, SendingType, Running
  <2>8. InvNudged'
    BY <1>31, <1>0, <1>a, <1>c, <1>d, <1>f, <2>2, <2>1 DEF Steer, Reserve, InvNudged, InvUnderway, Authors,
       Book
  <2>9. SteersExact'
    <3>1. Under(sending', "person") = 1 /\ Under(sending, "person") = 0
          /\ Under(sending', "nudge") = Under(sending, "nudge") /\ Under(sending, "nudge") \in {0, 1}
      BY <2>1 DEF Under, Authors
    <3>2. SteersSpent' = SteersSpent + 1 /\ done' = done /\ SteersSpent \in Int
      <4>1. steers.count \in Int
        BY <1>a, Bounds DEF SteersType
      <4> QED
        BY <1>31, <2>2, <2>1, <4>1 DEF Steer, Reserve, SteersSpent
    <3> QED
      BY <1>0, <1>d, <3>1, <3>2, SteersAre
  <2> QED
    BY <2>4, <2>5, <2>6, <2>7, <2>8, <2>9 DEF WatchInv
<1>32. ASSUME Nudge PROVE WatchInv'
  <2>1. /\ task.status = "running" /\ sending["nudge"] = "none" /\ sending'["nudge"] = "sent"
        /\ \A b \in Authors \ {"nudge"} : sending'[b] = sending[b]
        /\ steers'.step = step /\ steers'.count = SteersSpent + 1
    BY <1>32, <1>a DEF Nudge, Reserve, Running, SendingType, Authors
  <2>2. step' = step /\ saved' = saved
    BY <1>32 DEF Nudge, Reserve, Saves
  <2>3. OnBooks(book', step', done')
    BY <1>32, <1>a, <1>b, <1>d, <1>e, <1>f, <1>g, <2>2, <2>1, SamePageCovers DEF Nudge, Reserve
  <2>4. InvSteps'
    BY <1>32, <1>0, <1>a, <1>c, <2>2, <2>1 DEF Nudge, Reserve, InvSteps, Saves
  <2>5. InvBooked'
    BY <1>32, <1>a, <1>b, <1>d, <1>e, <2>2, <2>1, <2>3, SamePageCovers DEF Nudge, Reserve, InvBooked, Covers,
       BookOf, OnBooks
  <2>6. InvCounted'
    BY <1>32, <1>0, <1>a, <1>h, <2>2, <2>1 DEF Nudge, Reserve, InvCounted
  <2>7. InvUnderway'
    BY <1>32, <1>0, <1>a, <2>2, <2>1 DEF Nudge, Reserve, InvUnderway, SendingType, Running
  <2>8. InvNudged'
    BY <1>32, <1>0, <1>a, <1>c, <1>d, <1>f, <2>2, <2>1 DEF Nudge, Reserve, InvNudged, InvUnderway, Authors,
       Book
  <2>9. SteersExact'
    <3>1. Under(sending', "nudge") = 1 /\ Under(sending, "nudge") = 0
          /\ Under(sending', "person") = Under(sending, "person") /\ Under(sending, "person") \in {0, 1}
      BY <2>1 DEF Under, Authors
    <3>2. SteersSpent' = SteersSpent + 1 /\ done' = done /\ SteersSpent \in Int
      <4>1. steers.count \in Int
        BY <1>a, Bounds DEF SteersType
      <4> QED
        BY <1>32, <2>2, <2>1, <4>1 DEF Nudge, Reserve, SteersSpent
    <3> QED
      BY <1>0, <1>d, <3>1, <3>2, SteersAre
  <2> QED
    BY <2>4, <2>5, <2>6, <2>7, <2>8, <2>9 DEF WatchInv
<1>33. ASSUME NEW a \in Authors, SteerAnswered(a) PROVE WatchInv'
  <2>1. /\ sending[a] = "sent" /\ sending'[a] \in {"queued", "refused"}
        /\ \A b \in Authors \ {a} : sending'[b] = sending[b]
        /\ done'.recoveries = done.recoveries /\ done'.nudges = done.nudges /\ done'.waits = done.waits
        /\ done'.repairs = done.repairs /\ done'.steers = done.steers /\ done'.soft =
             (IF a = "nudge" /\ sending'[a] = "queued" THEN done.soft + 1 ELSE done.soft)
    BY <1>33, <1>a, Tallies DEF SteerAnswered, Tally, SendingType
  <2>2. step' = step /\ saved' = saved
    BY <1>33 DEF SteerAnswered, Saves
  <2>3. OnBooks(book', step', done')
    <3>1. NoMore(done, done') /\ book' = book
      BY <1>33, <1>d, <2>1 DEF NoMore, SteerAnswered
    <3> QED
      BY <1>a, <1>b, <1>e, <2>2, <3>1, SamePageCovers
  <2>4. InvSteps'
    BY <1>33, <1>0, <1>a, <1>c, <2>2, <2>1 DEF SteerAnswered, InvSteps, Saves
  <2>5. InvBooked'
    BY <1>33, <1>a, <1>b, <1>d, <1>e, <2>2, <2>1, <2>3, SamePageCovers DEF SteerAnswered, InvBooked, Covers,
       BookOf, OnBooks
  <2>6. InvCounted'
    BY <1>33, <1>0, <1>a, <1>h, <2>2, <2>1 DEF SteerAnswered, InvCounted
  <2>7. InvUnderway'
    BY <1>33, <1>0, <1>a, <2>2, <2>1 DEF SteerAnswered, InvUnderway, SendingType, Running
  <2>8. InvNudged'
    BY <1>33, <1>0, <1>a, <1>c, <1>d, <1>f, <2>2, <2>1 DEF SteerAnswered, InvNudged, InvUnderway, Authors,
       Book
  <2>9. SteersExact'
    BY <1>33, <1>0, <2>2, <2>1, SteersKept DEF SteerAnswered, Under, Authors
  <2> QED
    BY <2>4, <2>5, <2>6, <2>7, <2>8, <2>9 DEF WatchInv
<1>34. ASSUME NEW a \in Authors, SteerEnds(a) PROVE WatchInv'
  <2>1. /\ \A b \in Authors \ {a} : sending'[b] = sending[b]
        /\ \/ sending[a] = "refused" /\ steers' = Refunded /\ sending'[a] = "none" /\ done' = done
           \/ /\ sending[a] = "queued" /\ steers' = steers
              /\ sending'[a] = IF a = "nudge" THEN "noting" ELSE "none"
              /\ done'.recoveries = done.recoveries /\ done'.nudges = done.nudges /\ done'.waits = done.waits
              /\ done'.repairs = done.repairs /\ done'.steers = done.steers + 1 /\ done'.soft = done.soft
    <3>1. CASE sending[a] = "refused" /\ steers' = Refunded /\ sending' = [sending EXCEPT ![a] = "none"] /\ done' = done
      BY <1>34, <1>a, <3>1 DEF SendingType
    <3>2. CASE /\ sending[a] = "queued" /\ steers' = steers /\ done' = [done EXCEPT !.steers = @ + 1]
               /\ sending' = [sending EXCEPT ![a] = IF a = "nudge" THEN "noting" ELSE "none"]
      BY <1>34, <1>a, <1>d, <3>2, Tallies DEF Tally, SendingType
    <3> QED
      BY <1>34, <3>1, <3>2 DEF SteerEnds
  <2>2. step' = step /\ Saves
    BY <1>34, PersistIs DEF SteerEnds, Saves
  <2>3. OnBooks(book', step', done')
    <3>1. NoMore(done, done') /\ book' = book
      BY <1>34, <1>d, <2>1 DEF NoMore, SteerEnds
    <3> QED
      BY <1>a, <1>b, <1>e, <2>2, <3>1, SamePageCovers
  <2>4. InvSteps'
    BY <1>34, <1>0, <1>a, <1>c, <2>2, <2>1, RefundedIs DEF SteerEnds, InvSteps, Saves
  <2>5. InvBooked'
    BY <2>2, <2>3 DEF Saves, InvBooked, Covers, BookOf, OnBooks
  <2>6. InvCounted'
    BY <1>34, <1>0, <1>a, <1>h, <2>2, <2>1 DEF SteerEnds, InvCounted
  <2>7. InvUnderway'
    BY <1>34, <1>0, <1>a, <2>2, <2>1 DEF SteerEnds, InvUnderway, SendingType, Running
  <2>8. InvNudged'
    BY <1>34, <1>0, <1>a, <1>c, <1>d, <1>f, <2>2, <2>1 DEF SteerEnds, InvNudged, InvUnderway, Authors, Book
  <2>9. SteersExact'
    <3>1. Under(sending', a) = 0 /\ Under(sending, a) = 1 /\ step' = step
      BY <2>2, <2>1 DEF Under
    <3>2. \A b \in Authors \ {a} : Under(sending', b) = Under(sending, b) /\ Under(sending, b) \in {0, 1}
      BY <2>1 DEF Under
    <3>3. SteersSpent = done.steers + Under(sending, "person") + Under(sending, "nudge")
      BY <1>0, SteersAre
    <3>4. steers.count \in Nat
      BY <1>a, Bounds DEF SteersType
    <3>5. \/ SteersSpent' = SteersSpent - 1 /\ done' = done
          \/ SteersSpent' = SteersSpent /\ done'.steers = done.steers + 1
      <4>1. CASE steers' = steers /\ done'.steers = done.steers + 1
        BY <2>2, <4>1 DEF SteersSpent
      <4>2. CASE steers' = Refunded /\ done' = done
        <5>1. SteersSpent > 0
          BY <1>34, <1>d, <3>1, <3>2, <3>3 DEF Authors
        <5>2. steers.step = step /\ steers.count > 0
          BY <3>4, <5>1 DEF SteersSpent
        <5>3. steers'.step = step' /\ steers'.count = steers.count - 1
          BY <2>2, <4>2, <5>2, RefundedIs
        <5> QED
          BY <4>2, <5>2, <5>3 DEF SteersSpent
      <4> QED
        BY <2>1, <4>1, <4>2
    <3>6. SteersSpent' = done'.steers + Under(sending', "person") + Under(sending', "nudge")
      BY <1>34, <1>d, <3>1, <3>2, <3>3, <3>5 DEF Authors
    <3> QED
      BY <3>6, SteersAre
  <2> QED
    BY <2>4, <2>5, <2>6, <2>7, <2>8, <2>9 DEF WatchInv
<1>35. ASSUME NudgeNoted PROVE WatchInv'
  <2>1. sending["nudge"] = "noting" /\ sending'["nudge"] = "none" /\ sending'["person"] = sending["person"]
    BY <1>35, <1>a DEF NudgeNoted, SendingType, Authors
  <2>2. step' = step /\ Saves
    BY <1>35, PersistIs, BookWritten DEF NudgeNoted, Saves
  <2>3. OnBooks(book', step', done')
    BY <1>35, <1>a, <1>b, <1>d, <1>e, <1>f, <1>g, <2>2, <2>1, SamePageCovers, BookWritten DEF NudgeNoted
  <2>4. InvSteps'
    BY <1>35, <1>0, <1>a, <1>c, <2>2, <2>1, BookWritten DEF NudgeNoted, InvSteps, Saves
  <2>5. InvBooked'
    BY <2>2, <2>3 DEF Saves, InvBooked, Covers, BookOf, OnBooks
  <2>6. InvCounted'
    BY <1>35, <1>0, <1>f, <2>2, BookWritten DEF NudgeNoted, InvCounted, SamePage, Page
  <2>7. InvUnderway'
    BY <1>35, <1>0, <1>a, <2>2, <2>1, BookWritten DEF NudgeNoted, InvUnderway
  <2>8. InvNudged'
    BY <1>35, <1>0, <1>a, <1>c, <1>d, <1>f, <2>2, <2>1, BookWritten DEF NudgeNoted, InvNudged, InvUnderway,
       Authors, Book
  <2>9. SteersExact'
    BY <1>35, <1>0, <2>2, <2>1, SteersKept DEF NudgeNoted, Under, Authors
  <2> QED
    BY <2>4, <2>5, <2>6, <2>7, <2>8, <2>9 DEF WatchInv
<1>36. ASSUME Configure PROVE WatchInv'
  <2>1. step' = step /\ saved' = saved
    BY <1>36 DEF Configure, Saves
  <2>2. OnBooks(book', step', done')
    BY <1>36, <1>a, <1>b, <1>d, <1>e, <1>f, <1>g, <2>1, SamePageCovers DEF Configure
  <2>3. InvSteps'
    BY <1>36, <1>0, <1>a, <1>c, <2>1 DEF Configure, InvSteps, Saves
  <2>4. InvBooked'
    BY <1>36, <1>a, <1>b, <1>d, <1>e, <2>1, <2>2, SamePageCovers DEF Configure, InvBooked, Covers,
       BookOf, OnBooks
  <2>5. InvCounted'
    BY <1>36, <1>0, <1>a, <1>h, <2>1 DEF Configure, InvCounted
  <2>6. InvUnderway'
    BY <1>36, <1>0, <1>a, <2>1 DEF Configure, InvUnderway
  <2>7. InvNudged'
    BY <1>36, <1>0, <1>a, <1>c, <1>d, <1>f, <2>1 DEF Configure, InvNudged, InvUnderway, Authors, Book
  <2>8. SteersExact'
    BY <1>36, <1>0, <1>a, <2>1, SteersKept DEF Configure
  <2> QED
    BY <2>3, <2>4, <2>5, <2>6, <2>7, <2>8 DEF WatchInv
<1>37. ASSUME Spend PROVE WatchInv'
  <2>1. step' = step /\ saved' = saved
    BY <1>37 DEF Spend, Saves
  <2>2. OnBooks(book', step', done')
    BY <1>37, <1>a, <1>b, <1>d, <1>e, <1>f, <1>g, <2>1, SamePageCovers DEF Spend
  <2>3. InvSteps'
    BY <1>37, <1>0, <1>a, <1>c, <2>1 DEF Spend, InvSteps, Saves
  <2>4. InvBooked'
    BY <1>37, <1>a, <1>b, <1>d, <1>e, <2>1, <2>2, SamePageCovers DEF Spend, InvBooked, Covers, BookOf,
       OnBooks
  <2>5. InvCounted'
    BY <1>37, <1>0, <1>a, <1>h, <2>1 DEF Spend, InvCounted
  <2>6. InvUnderway'
    BY <1>37, <1>0, <1>a, <2>1 DEF Spend, InvUnderway
  <2>7. InvNudged'
    BY <1>37, <1>0, <1>a, <1>c, <1>d, <1>f, <2>1 DEF Spend, InvNudged, InvUnderway, Authors, Book
  <2>8. SteersExact'
    BY <1>37, <1>0, <1>a, <2>1, SteersKept DEF Spend
  <2> QED
    BY <2>3, <2>4, <2>5, <2>6, <2>7, <2>8 DEF WatchInv
<1>38. ASSUME RetryDue PROVE WatchInv'
  <2>1. step' = step /\ saved'.step = saved.step /\ saved'.steers = saved.steers /\ saved'.book.step = saved.book.step
    BY <1>38, RetryWritten DEF RetryDue, Saves
  <2>2. OnBooks(book', step', done')
    <3>1. done' = done /\ book'.step = book.step /\ SamePage(book, book')
      BY <1>38, RetryWritten DEF RetryDue
    <3> QED
      BY <1>a, <1>b, <1>e, <2>1, <3>1, SamePageCovers
  <2>3. InvSteps'
    BY <1>38, <1>0, <1>a, <1>c, <2>1, RetryWritten DEF RetryDue, InvSteps, Saves
  <2>4. InvBooked'
    <3>1. OnBooks(saved'.book, step', done')
      BY <1>38, <1>a, <1>b, <1>e, <2>1, SamePageCovers, RetryWritten DEF RetryDue
    <3> QED
      BY <2>2, <3>1 DEF InvBooked, Covers, BookOf, OnBooks
  <2>5. InvCounted'
    BY <1>38, <1>0, <1>a, <1>h, <2>1, RetryWritten DEF RetryDue, InvCounted, SamePage, Page
  <2>6. InvUnderway'
    BY <1>38, <1>0, <1>a, <2>1, RetryWritten DEF RetryDue, InvUnderway
  <2>7. InvNudged'
    BY <1>38, <1>0, <1>a, <1>c, <1>d, <1>f, <2>1, RetryWritten DEF RetryDue, InvNudged, InvUnderway,
       Authors, Book
  <2>8. SteersExact'
    BY <1>38, <1>0, <1>a, <2>1, SteersKept, RetryWritten DEF RetryDue
  <2> QED
    BY <2>3, <2>4, <2>5, <2>6, <2>7, <2>8 DEF WatchInv
<1>39. ASSUME Restart PROVE WatchInv'
  <2>1. /\ task'.status # "running" /\ scan'.at = "idle" /\ \A a \in Authors : sending'[a] = "none"
        /\ done'.recoveries = done.recoveries /\ done'.nudges = done.nudges /\ done'.waits = done.waits
        /\ done'.repairs = done.repairs /\ done'.steers = SteersSpent' /\ done'.soft = done.soft
    <3>1. saved.task \in TaskType
      BY <1>h DEF SavedTyped, SavedType
    <3>2. \/ task' = saved.task /\ saved.task.status # "running"
          \/ task' = [saved.task EXCEPT !.status = "interrupted", !.why = "restart"]
      BY <1>39 DEF Restart
    <3>3. task'.status # "running"
      BY <3>1, <3>2, TaskFields
    <3>4. scan'.at = "idle" /\ \A a \in Authors : sending'[a] = "none"
      BY <1>39 DEF Restart, NoScan
    <3>5. done' = [done EXCEPT !.steers = SteersSpent']
      BY <1>39 DEF Restart, SteersSpent
    <3>6. Tally(done', done.recoveries, done.nudges, done.waits, done.repairs, SteersSpent', done.soft)
      BY <1>a, <3>5, Tallies
    <3> QED
      BY <3>3, <3>4, <3>6 DEF Tally
  <2>2. Saves
    BY <1>39, PersistIs DEF Restart, Saves
  <2>3. OnBooks(book', step', done')
    <3>1. NoMore(done, done') /\ book' = saved.book /\ step' = step
      BY <1>39, <1>0, <1>d, <2>1 DEF NoMore, Restart, InvSteps
    <3>2. SamePage(saved.book, saved.book)
      BY DEF SamePage, Page
    <3> QED
      BY <1>a, <1>b, <1>e, <3>1, <3>2, SamePageCovers
  <2>4. InvSteps'
    BY <1>39, <1>0, <1>a, <1>c, <2>2, <2>1, RotatedIs DEF Restart, InvSteps, Saves
  <2>5. InvBooked'
    BY <2>2, <2>3 DEF Saves, InvBooked, Covers, BookOf, OnBooks
  <2>6. InvCounted'
    BY <1>39, <1>0, <1>a, <1>h, <2>2, <2>1, ScanMoves DEF Restart, InvCounted, SamePage, Page
  <2>7. InvUnderway'
    BY <1>39, <1>0, <1>a, <2>2, <2>1 DEF Restart, InvUnderway
  <2>8. InvNudged'
    BY <1>39, <1>0, <1>a, <1>c, <1>d, <1>f, <2>2, <2>1 DEF Restart, InvNudged, InvUnderway, Authors, Book
  <2>9. SteersExact'
    <3>1. Under(sending', "person") = 0 /\ Under(sending', "nudge") = 0
      BY <2>1 DEF Under, Authors
    <3>2. done'.steers = SteersSpent' /\ done'.steers \in Nat
      BY <1>b, <2>1, DoneFields
    <3> QED
      BY <3>1, <3>2, SteersAre
  <2> QED
    BY <2>4, <2>5, <2>6, <2>7, <2>8, <2>9 DEF WatchInv
<1>40. CASE UNCHANGED vars
  BY <1>40, <1>0 DEF vars, WatchInv, InvSteps, InvBooked, Covers, BookOf, FreshBook, InvCounted,
     InvUnderway, InvNudged, Book, SteersExact
<1> QED
  BY <1>1, <1>2, <1>3, <1>4, <1>5, <1>6, <1>7, <1>8, <1>9, <1>10, <1>11, <1>12, <1>13, <1>14, <1>15, <1>16,
     <1>17, <1>18, <1>19, <1>20, <1>21, <1>22, <1>23, <1>24, <1>25, <1>26, <1>27, <1>28, <1>29, <1>30, <1>31,
     <1>32, <1>33, <1>34, <1>35, <1>36, <1>37, <1>38, <1>39, <1>40 DEF Next, Automatic, Called, RunEnds

\* The types of every variable, and what a stop for a fallback needs.
THEOREM WatchdogTyped == Spec => []Typed
<1>1. Init => Typed
  BY WatchInit
<1> QED
  BY <1>1, TypeStep, PTL DEF Spec

\* The inductive invariant: what was done is on the books in memory and on disk.
THEOREM WatchdogInvariant == Spec => []WatchInv
<1>1. Init => WatchInv
  BY WatchInit
<1> QED
  BY <1>1, WatchStep, WatchdogTyped, PTL DEF Spec

\* No restart, switch or new attempt buys a step more recoveries, re-prompts, waits or repairs than its budget.
THEOREM BudgetsHoldHolds == Spec => []BudgetsHold
<1>1. Typed /\ WatchInv => BudgetsHold
  <2> SUFFICES ASSUME Typed, WatchInv PROVE BudgetsHold
    OBVIOUS
  <2>1. /\ BookOf(book).recoveries \in 0..MaxRecoveries /\ BookOf(book).nudges \in 0..MaxNudges
        /\ BookOf(book).waits \in 0..MaxWaits /\ BookOf(book).repairs \in 0..MaxRepairs
    BY BookIs, BookFields DEF Typed, KeptTyped
  <2>2. Covers(book) /\ done.soft <= 1
    BY DEF WatchInv, InvBooked, InvNudged
  <2>3. done \in DoneType
    BY DEF Typed, RestTyped
  <2>4. done.recoveries \in Nat /\ done.nudges \in Nat /\ done.waits \in Nat /\ done.repairs \in Nat
    BY <2>3, DoneFields
  <2> QED
    BY <2>1, <2>2, <2>4, Bounds DEF Covers, BudgetsHold
<1> QED
  BY <1>1, WatchdogTyped, WatchdogInvariant, PTL

\* The steers counted for a step are the delivered ones and those on their way.
THEOREM SteersExactHolds == Spec => []SteersExact
<1>1. WatchInv => SteersExact
  BY DEF WatchInv
<1> QED
  BY <1>1, WatchdogInvariant, PTL
==============================================================================
