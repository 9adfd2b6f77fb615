---------------------------- MODULE AlertsProofs ----------------------------
(***************************************************************************)
(* Theorems about Alerts, for every set of jobs, projects and browsers and *)
(* every interval, period and bound.                                       *)
(*                                                                         *)
(* Notifying changes nothing of the queue: each step of Alerts is a step   *)
(* of Dispatcher or leaves its variables alone, so what DispatcherProofs   *)
(* shows of every step is at hand.  Of the rest, the clock does not read   *)
(* the database, and the snapshot and the pages read no more of it than    *)
(* which rows ended, and how.                                              *)
(***************************************************************************)
EXTENDS Alerts, DispatcherProofs, SequenceTheorems

-----------------------------------------------------------------------------
(* Alerts implements Dispatcher                                             *)

LEMMA UnannouncedIsNext == Unannounced => Next
BY DEF Unannounced, Next, Operator, QueueOps, Continuation, Settles, Throws, Printer,
       ProjectChoice

LEMMA DispatchesIsNext == Dispatches => Next
BY DEF Dispatches, Next, Operator, StockerOps, Continuation, Settles

LEMMA AnnouncedIsNext ==
  \/ \E j \in Jobs : Finish(j) \/ AbortEnds(j)
  \/ EjectSettles
  \/ EjectThrows
  \/ \E cap \in Capacities : \E rem \in 0 .. cap : SetStockerTo(cap, rem)
  \/ Reboot
  => Next
<1>1. \A j \in Jobs : Finish(j) => MonitorFinish(j)
  BY DEF Finish
<1>2. \A j \in Jobs : AbortEnds(j) => AbortSettles(j)
  BY DEF AbortEnds
<1>3. /\ EjectSettles => MonitorEjectSettles
      /\ EjectThrows => MonitorEjectThrows
      /\ Reboot => Restart
  BY DEF EjectSettles, EjectThrows, Reboot
<1>4. \A cap, rem : SetStockerTo(cap, rem) => PostStocker(cap, rem)
  BY DEF SetStockerTo
<1>5. QED
  BY <1>1, <1>2, <1>3, <1>4
  DEF Next, Operator, StockerOps, Continuation, Settles, Throws, Printer

(* What happens beside the queue.                                           *)
Beside ==
  \/ Pass \/ EscalationTick \/ Cancel
  \/ \E b \in Browsers : Fetch(b) \/ Connect(b) \/ Disconnect(b) \/ Leave(b)

LEMMA BesideTheQueue == Beside => UNCHANGED <<vars, retained, gaveUp>>
BY DEF Beside, Pass, EscalationTick, Cancel, Fetch, Connect, Disconnect, Leave, Apart

LEMMA AlertsStepIsDispatcherStep == [AlertsNext]_allVars => [Next]_vars
<1>1. Beside => UNCHANGED vars
  BY BesideTheQueue
<1>2. QED
  BY <1>1, UnannouncedIsNext, DispatchesIsNext, AnnouncedIsNext DEF AlertsNext, allVars, Beside

(* Whoever is notified, and whatever becomes of it, the queue lives as in   *)
(* Dispatcher: each theorem about Dispatcher is one about Alerts.           *)
THEOREM TellingChangesNothing == AlertsSpec => Spec
<1>1. AlertsInit => Init
  BY DEF AlertsInit
<1>2. QED
  BY <1>1, AlertsStepIsDispatcherStep, PTL DEF AlertsSpec, Spec

LEMMA IInvOfAlerts == AlertsSpec => []IInv
BY TellingChangesNothing, IInvAlways, PTL

-----------------------------------------------------------------------------
(* The escalation's clock.  What is stored, age, runs ahead of the silence  *)
(* by what the timestamp cut off at most; what is left of the timer and     *)
(* the silence share one budget, which each restart raises by a period.     *)

Allowed == Interval + Period * (1 + reboots)

ClockInv ==
  /\ age \in Nat /\ timer \in Nat /\ quiet \in Nat /\ reboots \in Nat
  /\ timer <= Period
  /\ quiet <= age /\ age <= quiet + Cut
  /\ quiet + timer <= Allowed

LEMMA AllowedForever ==
  /\ reboots \in Nat => Allowed \in Nat /\ Interval + Period <= Allowed
  /\ reboots' \in Nat => Allowed' \in Nat /\ Interval + Period <= Allowed'
<1>1. \A n \in Nat : Period * (1 + n) \in Nat /\ Period <= Period * (1 + n)
  BY AlertsAssumption
<1>2. QED
  BY <1>1, AlertsAssumption DEF Allowed

LEMMA RestartsAreForgiven ==
  ASSUME reboots \in Nat, reboots' = reboots + 1
  PROVE  Allowed' = Allowed + Period
<1>1. Period * (1 + (reboots + 1)) = Period * (1 + reboots) + Period
  BY AlertsAssumption
<1>2. QED
  BY <1>1, AlertsAssumption DEF Allowed

(* The row is filed, or somebody is told of it: a new silence.              *)
LEMMA NewSilence ==
  ASSUME age' \in Stamp, timer' \in Nat, timer' <= Period, quiet' = 0, reboots' = 0
  PROVE  ClockInv'
<1>1. /\ age' \in Nat /\ age' <= Cut /\ quiet' <= age' /\ age' <= quiet' + Cut
      /\ quiet' \in Nat /\ reboots' \in Nat
  BY AlertsAssumption DEF Stamp
<1>2. quiet' + timer' <= Allowed'
  BY <1>1, AllowedForever, AlertsAssumption
<1>3. QED
  BY <1>1, <1>2 DEF ClockInv

LEMMA NoClockKeeps == NoClock => ClockInv'
BY NewSilence, AlertsAssumption DEF NoClock, Stamp

LEMMA KeepTimeKeeps ==
  ASSUME ClockInv, NEW filed, KeepTime(filed)
  PROVE  ClockInv'
<1>1. CASE NoClock
  BY <1>1, NoClockKeeps
<1>2. CASE age' \in Stamp /\ timer' \in 0 .. Period /\ quiet' = 0 /\ reboots' = 0
  BY <1>2, NewSilence, AlertsAssumption
<1>3. CASE UNCHANGED clock
  BY <1>3 DEF clock, ClockInv, Allowed
<1>4. QED
  BY <1>1, <1>2, <1>3 DEF KeepTime

LEMMA ClockInvInductive == ClockInv /\ [AlertsNext]_allVars => ClockInv'
<1>. SUFFICES ASSUME ClockInv, [AlertsNext]_allVars PROVE ClockInv'
  OBVIOUS
<1>1. CASE \/ Unannounced /\ TellNobody
           \/ Dispatches /\ TellIfStopped
           \/ \E j \in Jobs : Finish(j) \/ AbortEnds(j)
           \/ EjectSettles
           \/ EjectThrows
           \/ \E cap \in Capacities : \E rem \in 0 .. cap : SetStockerTo(cap, rem)
  <2>1. \E filed : KeepTime(filed)
    BY <1>1 DEF TellNobody, TellIfStopped, Finish, AbortEnds, EjectSettles, EjectThrows,
                SetStockerTo, Announce
  <2>2. QED
    BY <2>1, KeepTimeKeeps
<1>2. CASE Reboot
  <2>1. CASE NoClock
    BY <2>1, NoClockKeeps
  <2>2. CASE age' \in Stamp /\ timer' = Period /\ quiet' = 0 /\ reboots' = 0
    BY <2>2, NewSilence, AlertsAssumption
  <2>3. CASE timer' = Period /\ reboots' = reboots + 1 /\ UNCHANGED <<age, quiet>>
    <3>1. Allowed \in Nat /\ Allowed' = Allowed + Period
      BY <2>3, AllowedForever, RestartsAreForgiven DEF ClockInv
    <3>2. QED
      BY <2>3, <3>1, AlertsAssumption DEF ClockInv
  <2>4. QED
    BY <1>2, <2>1, <2>2, <2>3 DEF Reboot
<1>3. CASE Pass
  <2>1. Allowed' = Allowed
    BY <1>3 DEF Pass, Allowed
  <2>2. Allowed \in Nat
    BY AllowedForever DEF ClockInv
  <2>3. QED
    BY <1>3, <2>1, <2>2, AlertsAssumption DEF Pass, ClockInv
<1>4. CASE EscalationTick
  <2>1. CASE Renotify /\ timer' = Period
    BY <2>1, NewSilence, AlertsAssumption DEF Renotify, Stamp
  <2>2. CASE age < Interval /\ timer' = Period /\ UNCHANGED <<age, quiet, reboots>>
    <3>1. Allowed' = Allowed /\ Allowed \in Nat /\ Interval + Period <= Allowed
      BY <2>2, AllowedForever DEF Allowed, ClockInv
    <3>2. QED
      BY <2>2, <3>1, AlertsAssumption DEF ClockInv
  <2>3. QED
    BY <1>4, <2>1, <2>2 DEF EscalationTick
<1>5. CASE Cancel \/ UNCHANGED allVars
           \/ \E b \in Browsers : Fetch(b) \/ Connect(b) \/ Disconnect(b) \/ Leave(b)
  BY <1>5
  DEF Cancel, Fetch, Connect, Disconnect, Leave, Apart, allVars, alertVars, clock, ClockInv, Allowed
<1>6. QED
  BY <1>1, <1>2, <1>3, <1>4, <1>5 DEF AlertsNext

LEMMA ClockInvAlways == AlertsSpec => []ClockInv
<1>1. AlertsInit => ClockInv
  BY AllowedForever, AlertsAssumption DEF AlertsInit, ClockInv
<1>2. QED
  BY <1>1, ClockInvInductive, PTL DEF AlertsSpec

(* INV-PENDING-03 for every interval and period: a tick is never further    *)
(* away than a period, and one that is not yet due leaves the silence       *)
(* shorter than the interval, so the two together bound it.                 *)
THEOREM StoppedQueueIsAlwaysHeard == AlertsSpec => []StoppedQueueIsHeard
<1>1. ClockInv => StoppedQueueIsHeard
  BY AllowedForever, AlertsAssumption DEF ClockInv, StoppedQueueIsHeard, Allowed
<1>2. QED
  BY <1>1, ClockInvAlways, PTL

(* Nor is anybody told too early: notified_at is never older than the       *)
(* silence by more than its text cuts off.                                  *)
THEOREM NobodyIsNagged == AlertsSpec => NoNagging
<1>1. ClockInv /\ [AlertsNext]_allVars
        => (EscalationTick /\ quiet' < quiet => quiet + Cut >= Interval)
  BY AlertsAssumption DEF EscalationTick, Renotify, ClockInv
<1>2. QED
  BY <1>1, ClockInvAlways, PTL DEF AlertsSpec, NoNagging

-----------------------------------------------------------------------------
(* The snapshot and the pages.  A row that is over in e was so in d, and in *)
(* the same way.                                                            *)

EndsNothing(d, e) == \A j \in Jobs : Ended(e, j) => d.status[j] = e.status[j]

LEMMA EndsNothingTransitive ==
  ASSUME NEW d, NEW e, NEW f, EndsNothing(d, e), EndsNothing(e, f)
  PROVE  EndsNothing(d, f)
BY DEF EndsNothing, Ended

LEMMA SameStatusesEndNothing ==
  ASSUME NEW d, NEW e, e.status = d.status
  PROVE  EndsNothing(d, e)
BY DEF EndsNothing

LEMMA DispatchEndsNothing ==
  ASSUME NEW d \in DB
  PROVE  EndsNothing(d, DispatchNext(d))
BY DispatchStatus DEF EndsNothing, Ended

LEMMA RowsThatDoNotEnd ==
  ASSUME NEW d, Sound(d), NEW j \in Jobs
  PROVE  /\ EndsNothing(d, UpdateStatus(d, j, "queued"))
         /\ EndsNothing(d, Requeued(d, j))
         /\ \A p \in Positions : EndsNothing(d, CreateJob(d, j, p))
         /\ EndsNothing(d, DeleteJob(d, j))
<1>1. EndsNothing(d, UpdateStatus(d, j, "queued"))
  BY UpdatedStatus DEF EndsNothing, Ended, Sound
<1>2. EndsNothing(d, Requeued(d, j))
  BY <1>1, EndedStatus DEF EndsNothing, Ended
<1>3. \A p \in Positions : EndsNothing(d, CreateJob(d, j, p))
  BY DEF CreateJob, EndsNothing, Ended, Sound, DB
<1>4. EndsNothing(d, DeleteJob(d, j))
  BY DEF DeleteJob, EndsNothing, Ended, Sound, DB
<1>5. QED
  BY <1>1, <1>2, <1>3, <1>4

(* What may be announced of the database e.                                 *)
Telling(e) == {d \in DB : EndsNothing(d, e)}

LEMMA LowTells ==
  ASSUME NEW S, NEW d \in S
  PROVE  Low(d) \in Seq(S)
BY DEF Low

LEMMA RefillingTells ==
  ASSUME NEW S, NEW d, DispatchNext(d) \in S
  PROVE  Refilling(d) \in Seq(S)
BY DEF Refilling

LEMMA FinishTells ==
  ASSUME NEW d, Sound(d), NEW j \in Jobs, ~FinishThrows(d)
  PROVE  LET e == DispatchNext(Finished(d, j))
         IN  FinishNotices(d, j) \in Seq(Telling(e)) /\ FinishNotices(d, j) # <<>>
<1>. DEFINE marked == MarkSuccess(d, j)
            swapped == DecrementStocker(marked)
            coloured == ApplyColorConsistency(swapped, j)
            asked == IF coloured.colorDecision # swapped.colorDecision THEN <<coloured>> ELSE <<>>
            e == DispatchNext(coloured)
            S == Telling(e)
<1>1. Sound(marked) /\ DecrementPermitted(marked)
  BY UpdateStatusPrepares
  DEF MarkSuccess, Status, RowStatus, Prepares, FinishThrows, DecrementPermitted,
      UpdateStatus, Sound, DB
<1>2. coloured = Finished(d, j)
  BY DEF Finished
<1>3. Sound(coloured) /\ coloured.status = marked.status
  BY <1>2, FinishedPrepares, FinishedStatus DEF Prepares
<1>. HIDE DEF marked
<1>4. swapped \in DB /\ swapped.status = marked.status
  BY <1>1, DecrementPrepares, StatusUntouched DEF Prepares, Sound
<1>. HIDE DEF swapped, coloured
<1>5. e \in DB /\ EndsNothing(coloured, e)
  BY <1>3, DispatchNextSound, DispatchEndsNothing DEF Sound
<1>6. e \in S
  BY <1>5, SameStatusesEndNothing DEF Telling
<1>7. coloured \in S
  BY <1>3, <1>5 DEF Telling, Sound
<1>8. swapped \in S
  BY <1>3, <1>4, <1>5 DEF Telling, EndsNothing
<1>. HIDE DEF S
<1>9. /\ Low(swapped) \in Seq(S)
      /\ <<swapped>> \in Seq(S)
      /\ asked \in Seq(S)
      /\ Refilling(coloured) \in Seq(S)
  BY <1>6, <1>7, <1>8, LowTells, RefillingTells
<1>. HIDE DEF asked
<1>10. FinishNotices(d, j) = Low(swapped) \o <<swapped>> \o asked \o Refilling(coloured)
  BY DEF FinishNotices, asked, coloured, swapped, marked
<1>11. /\ Low(swapped) \o <<swapped>> \in Seq(S)
       /\ Low(swapped) \o <<swapped>> # <<>>
  BY <1>9, ConcatProperties, ConcatSimplifications
<1>12. /\ Low(swapped) \o <<swapped>> \o asked \in Seq(S)
       /\ Low(swapped) \o <<swapped>> \o asked # <<>>
  BY <1>9, <1>11, ConcatProperties, ConcatSimplifications
<1>13. /\ Low(swapped) \o <<swapped>> \o asked \o Refilling(coloured) \in Seq(S)
       /\ Low(swapped) \o <<swapped>> \o asked \o Refilling(coloured) # <<>>
  BY <1>9, <1>12, ConcatProperties, ConcatSimplifications
<1>14. QED
  BY <1>2, <1>10, <1>13 DEF S

LEMMA FailTells ==
  ASSUME NEW d, Sound(d), NEW j \in Jobs
  PROVE  FailNotices(d, j) \in Seq(Telling(FailEnd(d, j)))
<1>. DEFINE counted == DecrementStocker(d)
            S == Telling(FailEnd(d, j))
<1>1. CASE ~DecrementPermitted(d)
  BY <1>1 DEF FailNotices
<1>2. CASE DecrementPermitted(d)
  <2>1. counted \in DB /\ counted.status = d.status
    BY <1>2, DecrementPrepares, StatusUntouched DEF Prepares, Sound
  <2>2. FailEnd(d, j) \in DB /\ FailEnd(d, j).status = d.status
    BY FailEndPrepares, FailEndStatus DEF Prepares, Sound
  <2>3. counted \in S /\ FailEnd(d, j) \in S
    BY <2>1, <2>2, SameStatusesEndNothing DEF Telling
  <2>. DEFINE asked == IF j \in Rows(d) THEN <<FailEnd(d, j)>> ELSE <<>>
  <2>4. FailNotices(d, j) = Low(counted) \o asked
    BY <1>2 DEF FailNotices
  <2>. HIDE DEF counted, S
  <2>5. Low(counted) \in Seq(S) /\ asked \in Seq(S)
    BY <2>3, LowTells
  <2>. HIDE DEF asked
  <2>6. Low(counted) \o asked \in Seq(S)
    BY <2>5, ConcatProperties
  <2>7. QED
    BY <2>4, <2>6 DEF S
<1>3. QED
  BY <1>1, <1>2

LEMMA FailIsAnnounced ==
  ASSUME NEW d \in DB, NEW j, DecrementPermitted(d), FailNotices(d, j) = <<>>
  PROVE  j \notin Rows(d)
<1>. DEFINE low == Low(DecrementStocker(d))
<1>1. SUFFICES ASSUME j \in Rows(d) PROVE FALSE
  OBVIOUS
<1>2. FailNotices(d, j) = low \o <<FailEnd(d, j)>>
  BY <1>1 DEF FailNotices
<1>. DEFINE S == {DecrementStocker(d), FailEnd(d, j)}
<1>3. low \in Seq(S) /\ <<FailEnd(d, j)>> \in Seq(S)
  BY LowTells
<1>. HIDE DEF S, low
<1>4. QED
  BY <1>2, <1>3, ConcatSimplifications

LEMMA AbortTells ==
  ASSUME NEW d, Sound(d), NEW j \in Jobs, ~AbortThrows(d)
  PROVE  LET e == DispatchNext(Aborted(d, j))
         IN  AbortNotices(d, j) \in Seq(Telling(e)) /\ AbortNotices(d, j) # <<>>
<1>. DEFINE over == Aborted(d, j)
            e == DispatchNext(over)
            S == Telling(e)
<1>1. Sound(over)
  BY AbortedPrepares DEF Prepares
<1>2. AbortNotices(d, j) = Low(over) \o <<over>> \o Refilling(over)
  BY DEF AbortNotices
<1>. HIDE DEF over
<1>3. e \in DB /\ EndsNothing(over, e)
  BY <1>1, DispatchNextSound, DispatchEndsNothing DEF Sound
<1>4. e \in S /\ over \in S
  BY <1>1, <1>3, SameStatusesEndNothing DEF Telling, Sound
<1>. HIDE DEF S
<1>5. Low(over) \in Seq(S) /\ <<over>> \in Seq(S) /\ Refilling(over) \in Seq(S)
  BY <1>4, LowTells, RefillingTells
<1>6. Low(over) \o <<over>> \in Seq(S) /\ Low(over) \o <<over>> # <<>>
  BY <1>5, ConcatProperties, ConcatSimplifications
<1>7. /\ Low(over) \o <<over>> \o Refilling(over) \in Seq(S)
      /\ Low(over) \o <<over>> \o Refilling(over) # <<>>
  BY <1>5, <1>6, ConcatProperties, ConcatSimplifications
<1>8. QED
  BY <1>2, <1>7 DEF S, over

(* Both promises, and what they are about.                                  *)
EndsInv ==
  /\ tabs \subseteq Browsers
  /\ shows = [b \in Browsers |-> shows[b]]
  /\ SnapshotShowsEnds
  /\ PagesShowEnds

(* After a broadcast a tab has been told, or has missed it: every writer    *)
(* that is a tab's is reached, whichever others throw.                      *)
LEMMA BroadcastReaches ==
  ASSUME tabs \subseteq Browsers, Broadcast
  PROVE  UNCHANGED <<tabs, shows>> /\ tabs \subseteq owed' \cup missed'
<1>1. ASSUME NEW b \in tabs, b \in Registered
      PROVE  b \in owed'
  <2>1. PICK k \in DOMAIN clients : clients[k] = b
    BY <1>1 DEF Registered
  <2>2. ~Unserved(k)
    BY <1>1, <2>1, AlertsAssumption DEF Unserved, Alive
  <2>3. QED
    BY <2>1, <2>2 DEF Broadcast
<1>2. QED
  BY <1>1 DEF Broadcast

(* A step that announces something shows every end of before and after on   *)
(* the broker, and leaves no tab that is up to date with what it was told.  *)
LEMMA TellingShows ==
  ASSUME EndsInv, NEW said, said \in Seq(Telling(db')), said # <<>>, Deliver(said)
  PROVE  EndsInv'
<1>. DEFINE told == said[Len(said)]
<1>1. told \in Telling(db')
  BY EmptySeq, ElementOfSeq
<1>2. retained' = View(told) /\ Broadcast
  BY DEF Deliver
<1>. HIDE DEF told
<1>3. SnapshotShowsEnds'
  BY <1>1, <1>2 DEF Telling, EndsNothing, View, Ended, SnapshotShowsEnds, ShowsEnd
<1>4. tabs' \subseteq owed' \cup missed' /\ UNCHANGED <<tabs, shows>>
  BY <1>2, BroadcastReaches DEF EndsInv
<1>5. QED
  BY <1>3, <1>4 DEF EndsInv, PagesShowEnds

(* A step that announces nothing keeps the promise if each row it ended, or *)
(* stops ejecting, is given up.                                             *)
LEMMA SilenceShows ==
  ASSUME EndsInv, UNCHANGED <<retained, audience>>, NEW js, GivenUp(js),
         \A j \in Jobs : /\ Ended(db', j)
                         /\ db'.status[j] # db.status[j] \/ monitor = Ejecting(j)
                         => j \in js \/ monitor' = Ejecting(j)
  PROVE  EndsInv'
BY DEF EndsInv, SnapshotShowsEnds, PagesShowEnds, ShowsEnd, audience, GivenUp, Ended

(* A step that ends no row and lets the Monitor go on ejecting.             *)
EndsNoRow ==
  /\ EndsNothing(db, db')
  /\ \A j \in Jobs : monitor = Ejecting(j) => monitor' = Ejecting(j)

LEMMA EndingNothingShows ==
  ASSUME EndsInv, EndsNoRow, UNCHANGED <<retained, audience>>, GivenUp({})
  PROVE  EndsInv'
BY SilenceShows DEF EndsNoRow, EndsNothing

LEMMA DispatchOfPrepared ==
  ASSUME NEW d, NEW e \in DB, EndsNothing(d, e)
  PROVE  EndsNothing(d, DispatchNext(e))
BY DispatchEndsNothing, EndsNothingTransitive

LEMMA UnannouncedEndsNoRow ==
  ASSUME IInv, Unannounced, \A j \in Jobs : ~MonitorFail(j)
  PROVE  EndsNoRow
<1>1. Sound(db)
  BY DEF IInv, TypeOK, RefillOnlyWhenEmpty, Sound, StockerOK
<1>2. CASE UNCHANGED <<db, monitor>>
  BY <1>2 DEF EndsNoRow, EndsNothing
<1>3. ASSUME NEW j \in Jobs, Upload(j)
      PROVE  EndsNoRow
  BY <1>1, <1>3, RowsThatDoNotEnd DEF Upload, EndsNoRow
<1>4. ASSUME NEW j \in Jobs, RetryRefused(j)
      PROVE  EndsNoRow
  BY <1>1, <1>4, StatusUntouched, SameStatusesEndNothing
  DEF RetryRefused, bootVars, EndsNoRow, Sound
<1>5. ASSUME NEW j \in Jobs, Delete(j)
      PROVE  EndsNoRow
  BY <1>1, <1>5, RowsThatDoNotEnd DEF Delete, EndsNoRow
<1>6. ASSUME NEW j \in Jobs, StartThrows(j)
      PROVE  EndsNoRow
  BY <1>1, <1>6, RowsThatDoNotEnd DEF StartThrows, RevertStart, EndsNoRow
<1>7. CASE UiRefill
  BY <1>1, <1>7, QueueUntouched, SameStatusesEndNothing DEF UiRefill, EndsNoRow, Sound
<1>8. CASE Resolve
  <2>1. db'.status = db.status
    BY <1>1, <1>8 DEF Resolve, Sound, DB
  <2>2. QED
    BY <1>8, <2>1, SameStatusesEndNothing DEF Resolve, EndsNoRow
<1>9. CASE MonitorStartSettles
  BY <1>9 DEF MonitorStartSettles, EndsNoRow, EndsNothing, Ejecting
<1>10. CASE MonitorStartThrows
  <2>1. monitor.job \in Jobs
    BY <1>10 DEF MonitorStartThrows, IInv, TypeOK, Idle, Ejecting, Starting
  <2>2. EndsNothing(db, db')
    BY <1>1, <1>10, <2>1, RowsThatDoNotEnd DEF MonitorStartThrows, RevertStart
  <2>3. QED
    BY <1>10, <2>2 DEF MonitorStartThrows, EndsNoRow, Ejecting
<1>11. CASE \E j \in Jobs : \/ ConfirmBegin(j) \/ ConfirmRejected(j) \/ AbortBegin(j)
                            \/ AbortEjectThrows(j) \/ StartSettles(j)
  BY <1>2, <1>11
  DEF ConfirmBegin, ConfirmRejected, AbortBegin, AbortEjectThrows, StartSettles
<1>12. QED
  BY <1>3, <1>4, <1>5, <1>6, <1>7, <1>8, <1>9, <1>10, <1>11 DEF Unannounced

LEMMA DispatchesEndNoRow ==
  ASSUME IInv, Dispatches
  PROVE  EndsNoRow
<1>1. Sound(db)
  BY DEF IInv, TypeOK, RefillOnlyWhenEmpty, Sound, StockerOK
<1>2. ASSUME NEW j \in Jobs, Retry(j)
      PROVE  EndsNoRow
  <2>1. Requeued(db, j) \in DB /\ EndsNothing(db, Requeued(db, j))
    BY <1>1, RequeuedPrepares, RowsThatDoNotEnd DEF Prepares, Sound
  <2>2. QED
    BY <1>2, <2>1, DispatchOfPrepared DEF Retry, Advance, EndsNoRow
<1>3. ASSUME NEW j \in Jobs, NEW p \in ProjectChoice, ConfirmApply(j, p)
      PROVE  EndsNoRow
  <2>. DEFINE planned == SetProject(db, j, p)
              e == UpdateStatus(planned, j, "queued")
  <2>1. Sound(planned) /\ planned.status = db.status /\ e \in DB
    BY <1>1, SetProjectPrepares, ConfirmedPrepares, StatusUntouched DEF Prepares, Sound
  <2>. HIDE DEF planned
  <2>2. EndsNothing(db, planned) /\ EndsNothing(planned, e)
    BY <2>1, SameStatusesEndNothing, RowsThatDoNotEnd
  <2>. HIDE DEF e
  <2>3. EndsNothing(db, DispatchNext(e))
    BY <2>1, <2>2, EndsNothingTransitive, DispatchOfPrepared
  <2>4. QED
    BY <1>3, <2>3 DEF ConfirmApply, Advance, EndsNoRow, e, planned
<1>4. CASE Refill
  <2>. DEFINE e == ResolveStockerRefills(RefillStocker(db))
  <2>1. e \in DB /\ e.status = db.status
    BY <1>1, RefillPrepares, QueueUntouched DEF Prepares, Sound
  <2>. HIDE DEF e
  <2>2. EndsNothing(db, DispatchNext(e))
    BY <2>1, SameStatusesEndNothing, DispatchOfPrepared
  <2>3. QED
    BY <1>4, <2>2 DEF Refill, Advance, EndsNoRow, e
<1>5. ASSUME NEW b \in BOOLEAN, BootReconcile(b)
      PROVE  EndsNoRow
  <2>. DEFINE e == IF b THEN db ELSE Requeue(db, snapshot \intersect Rows(db))
  <2>1. e \in DB
    BY <1>1, RequeuePrepares DEF Prepares, Sound
  <2>2. EndsNothing(db, e)
    <3>1. CASE b
      BY <3>1, SameStatusesEndNothing
    <3>2. CASE ~b
      BY <1>1, <3>2 DEF Requeue, EndsNothing, Ended, Sound, DB
    <3>3. QED
      BY <3>1, <3>2
  <2>. HIDE DEF e
  <2>3. EndsNothing(db, DispatchNext(e))
    BY <2>1, <2>2, DispatchOfPrepared
  <2>4. QED
    BY <1>5, <2>3 DEF BootReconcile, Advance, EndsNoRow, e
<1>6. QED
  BY <1>2, <1>3, <1>4, <1>5 DEF Dispatches

LEMMA FinishShows ==
  ASSUME IInv, EndsInv, NEW j \in Jobs, Finish(j)
  PROVE  EndsInv'
<1>1. Sound(db)
  BY DEF IInv, TypeOK, RefillOnlyWhenEmpty, Sound, StockerOK
<1>2. CASE FinishThrows(db)
  <2>1. db' = MarkSuccess(db, j) /\ monitor = Idle /\ GivenUp({j})
    BY <1>2 DEF Finish, MonitorFinish
  <2>2. UNCHANGED <<retained, audience>>
    BY <1>2 DEF Finish, FinishNotices, Announce, Deliver
  <2>3. \A k \in Jobs : db'.status[k] # db.status[k] => k = j
    BY <1>1, <2>1, UpdatedStatus DEF MarkSuccess, Sound
  <2>4. \A k \in Jobs : monitor # Ejecting(k)
    BY <2>1 DEF Idle, Ejecting
  <2>5. QED
    BY <2>1, <2>2, <2>3, <2>4, SilenceShows
<1>3. CASE ~FinishThrows(db)
  <2>1. db' = DispatchNext(Finished(db, j)) /\ Deliver(FinishNotices(db, j))
    BY <1>3 DEF Finish, MonitorFinish, Announce
  <2>2. FinishNotices(db, j) \in Seq(Telling(db')) /\ FinishNotices(db, j) # <<>>
    BY <1>1, <1>3, <2>1, FinishTells
  <2>3. QED
    BY <2>1, <2>2, TellingShows
<1>4. QED
  BY <1>2, <1>3

LEMMA AbortShows ==
  ASSUME IInv, EndsInv, NEW j \in Jobs, AbortEnds(j)
  PROVE  EndsInv'
<1>1. Sound(db)
  BY DEF IInv, TypeOK, RefillOnlyWhenEmpty, Sound, StockerOK
<1>2. CASE AbortThrows(db)
  <2>1. db' = MarkAborted(db, j) /\ UNCHANGED monitor /\ GivenUp({j})
    BY <1>2 DEF AbortEnds, AbortSettles
  <2>2. UNCHANGED <<retained, audience>>
    BY <1>2 DEF AbortEnds, AbortNotices, Announce, Deliver
  <2>3. \A k \in Jobs : db'.status[k] # db.status[k] => k = j
    BY <1>1, <2>1, UpdatedStatus DEF MarkAborted, Sound
  <2>4. QED
    BY <2>1, <2>2, <2>3, SilenceShows
<1>3. CASE ~AbortThrows(db)
  <2>1. db' = DispatchNext(Aborted(db, j)) /\ Deliver(AbortNotices(db, j))
    BY <1>3 DEF AbortEnds, AbortSettles, Advance, Announce
  <2>2. AbortNotices(db, j) \in Seq(Telling(db')) /\ AbortNotices(db, j) # <<>>
    BY <1>1, <1>3, <2>1, AbortTells
  <2>3. QED
    BY <2>1, <2>2, TellingShows
<1>4. QED
  BY <1>2, <1>3

LEMMA FailureShows ==
  ASSUME IInv, EndsInv,
         EjectSettles \/ EjectThrows \/ \E j \in Jobs : MonitorFail(j) /\ TellNobody
  PROVE  EndsInv'
<1>1. Sound(db)
  BY DEF IInv, TypeOK, RefillOnlyWhenEmpty, Sound, StockerOK
<1>2. \A k \in Jobs : monitor = Ejecting(k) => k = monitor.job
  BY DEF Ejecting
<1>3. CASE EjectSettles
  <2>1. monitor.job \in Jobs
    BY <1>3 DEF EjectSettles, MonitorEjectSettles, IInv, TypeOK, Idle, Ejecting, Starting
  <2>2. db' = FailEnd(db, monitor.job) /\ Deliver(FailNotices(db, monitor.job))
    BY <1>3 DEF EjectSettles, MonitorEjectSettles, Announce
  <2>3. db'.status = db.status
    BY <1>1, <2>1, <2>2, FailEndStatus
  <2>4. CASE FailNotices(db, monitor.job) # <<>>
    BY <1>1, <2>1, <2>2, <2>4, FailTells, TellingShows
  <2>5. CASE FailNotices(db, monitor.job) = <<>> /\ ~DecrementPermitted(db)
    <3>1. UNCHANGED <<retained, audience>> /\ GivenUp({monitor.job})
      BY <1>3, <2>2, <2>5 DEF Deliver, EjectSettles
    <3>2. QED
      BY <1>2, <2>3, <3>1, SilenceShows
  <2>6. CASE FailNotices(db, monitor.job) = <<>> /\ DecrementPermitted(db)
    <3>1. UNCHANGED <<retained, audience>> /\ GivenUp({})
      BY <1>3, <2>2, <2>6 DEF Deliver, EjectSettles
    <3>2. monitor.job \notin Rows(db)
      BY <1>1, <2>6, FailIsAnnounced DEF Sound
    <3>3. ~Ended(db', monitor.job)
      BY <2>1, <2>3, <3>2 DEF Ended, Rows, RowStatus
    <3>4. QED
      BY <1>2, <2>3, <3>1, <3>3, SilenceShows
  <2>7. QED
    BY <2>4, <2>5, <2>6
<1>4. CASE EjectThrows
  <2>1. UNCHANGED <<db, retained, audience>> /\ GivenUp({monitor.job})
    BY <1>4 DEF EjectThrows, MonitorEjectThrows, Announce, Deliver
  <2>2. QED
    BY <1>2, <2>1, SilenceShows
<1>5. ASSUME NEW j \in Jobs, MonitorFail(j), TellNobody
      PROVE  EndsInv'
  <2>1. /\ db' = FailBegin(db, j) /\ monitor = Idle /\ monitor' = Ejecting(j)
        /\ UNCHANGED <<retained, audience>> /\ GivenUp({})
    BY <1>5 DEF MonitorFail, TellNobody, Announce, Deliver
  <2>2. \A k \in Jobs : db'.status[k] # db.status[k] => k = j
    BY <1>1, <2>1, EndedStatus, UpdatedStatus DEF Sound
  <2>3. \A k \in Jobs : monitor # Ejecting(k)
    BY <2>1 DEF Idle, Ejecting
  <2>4. QED
    BY <2>1, <2>2, <2>3, SilenceShows
<1>6. QED
  BY <1>3, <1>4, <1>5

LEMMA EndsStep == IInv /\ EndsInv /\ [AlertsNext]_allVars => EndsInv'
<1>. SUFFICES ASSUME IInv, EndsInv, [AlertsNext]_allVars PROVE EndsInv'
  OBVIOUS
<1>1. Sound(db)
  BY DEF IInv, TypeOK, RefillOnlyWhenEmpty, Sound, StockerOK
<1>2. CASE Unannounced /\ TellNobody
  <2>1. CASE \E j \in Jobs : MonitorFail(j)
    BY <1>2, <2>1, FailureShows
  <2>2. CASE \A j \in Jobs : ~MonitorFail(j)
    <3>1. UNCHANGED <<retained, audience>> /\ GivenUp({})
      BY <1>2 DEF TellNobody, Announce, Deliver
    <3>2. QED
      BY <1>2, <2>2, <3>1, UnannouncedEndsNoRow, EndingNothingShows
  <2>3. QED
    BY <2>1, <2>2
<1>3. CASE Dispatches /\ TellIfStopped
  <2>1. CASE db'.refill > db.refill
    <3>1. Deliver(<<db'>>)
      BY <1>3, <2>1 DEF TellIfStopped, Announce
    <3>2. db' \in Telling(db')
      BY <1>1, IInvInductive, AlertsStepIsDispatcherStep, SameStatusesEndNothing
      DEF Telling, IInv, TypeOK
    <3>3. <<db'>> \in Seq(Telling(db')) /\ <<db'>> # <<>>
      BY <3>2
    <3>4. QED
      BY <3>1, <3>3, TellingShows
  <2>2. CASE ~(db'.refill > db.refill)
    <3>1. UNCHANGED <<retained, audience>> /\ GivenUp({})
      BY <1>3, <2>2 DEF TellIfStopped, Announce, Deliver
    <3>2. QED
      BY <1>3, <3>1, DispatchesEndNoRow, EndingNothingShows
  <2>3. QED
    BY <2>1, <2>2
<1>4. CASE \E j \in Jobs : Finish(j) \/ AbortEnds(j)
  BY <1>4, FinishShows, AbortShows
<1>5. CASE EjectSettles \/ EjectThrows
  BY <1>5, FailureShows
<1>6. ASSUME NEW cap \in Capacities, NEW rem \in 0 .. cap, SetStockerTo(cap, rem)
      PROVE  EndsInv'
  <2>. DEFINE before == ResolveStockerRefills(SetStocker(db, cap, rem))
  <2>1. Sound(before) /\ before.status = db.status
    BY <1>1, BoundsAssumption, FillPrepares, QueueUntouched DEF Prepares, Sound
  <2>2. /\ db' = DispatchNext(before) /\ UNCHANGED monitor
        /\ Deliver(Refilling(before)) /\ GivenUp({})
    BY <1>6 DEF SetStockerTo, PostStocker, Advance, Announce
  <2>. HIDE DEF before
  <2>3. db' \in Telling(db') /\ EndsNothing(db, db')
    BY <2>1, <2>2, DispatchNextSound, SameStatusesEndNothing, DispatchOfPrepared
    DEF Telling, Sound
  <2>4. CASE Refilling(before) = <<>>
    <3>1. UNCHANGED <<retained, audience>>
      BY <2>2, <2>4 DEF Deliver
    <3>2. QED
      BY <2>2, <2>3, <3>1, EndingNothingShows DEF EndsNoRow
  <2>5. CASE Refilling(before) # <<>>
    <3>1. Refilling(before) \in Seq(Telling(db'))
      BY <2>2, <2>3, RefillingTells
    <3>2. QED
      BY <2>2, <2>5, <3>1, TellingShows
  <2>6. QED
    BY <2>4, <2>5
<1>7. CASE Reboot
  <2>1. /\ retained' = View(db) /\ (db' = db \/ db' = DispatchNext(db))
        /\ missed' = tabs /\ UNCHANGED <<tabs, shows>>
    BY <1>7 DEF Reboot, Restart
  <2>2. EndsNothing(db, db')
    BY <1>1, <2>1, SameStatusesEndNothing, DispatchEndsNothing DEF Sound
  <2>3. SnapshotShowsEnds'
    BY <2>1, <2>2 DEF EndsNothing, View, Ended, SnapshotShowsEnds, ShowsEnd
  <2>4. QED
    BY <2>1, <2>3 DEF EndsInv, PagesShowEnds
<1>8. CASE Beside
  <2>1. UNCHANGED <<db, monitor, retained, gaveUp>>
    BY <1>8, BesideTheQueue DEF vars
  <2>2. SnapshotShowsEnds'
    BY <2>1 DEF EndsInv, SnapshotShowsEnds, ShowsEnd, Ended
  <2>3. ASSUME Broadcast \/ UNCHANGED audience
        PROVE  EndsInv'
    BY <2>1, <2>2, <2>3, BroadcastReaches
    DEF EndsInv, PagesShowEnds, ShowsEnd, Ended, audience
  <2>4. CASE Pass \/ EscalationTick
    BY <2>3, <2>4 DEF Pass, EscalationTick, Renotify
  <2>5. ASSUME NEW b \in Browsers, Fetch(b)
        PROVE  EndsInv'
    <3>1. \A j \in Jobs : Ended(db, j) => shows'[b][j] = db.status[j]
      BY <2>5 DEF Fetch, View, EndsInv
    <3>2. /\ tabs' = tabs \cup {b} /\ owed' = owed \ {b} /\ missed' = missed \ {b}
          /\ shows' = [shows EXCEPT ![b] = View(db)]
      BY <2>5 DEF Fetch
    <3>3. \A c \in tabs : c # b => shows'[c] = shows[c]
      BY <3>2 DEF EndsInv
    <3>4. PagesShowEnds'
      BY <2>1, <3>1, <3>2, <3>3 DEF EndsInv, PagesShowEnds, ShowsEnd, Ended
    <3>5. QED
      BY <2>2, <3>2, <3>4 DEF EndsInv
  <2>6. ASSUME NEW b \in Browsers, Leave(b)
        PROVE  EndsInv'
    <3>1. /\ tabs' = tabs \ {b} /\ owed' = owed \ {b} /\ missed' = missed \ {b}
          /\ shows' = [shows EXCEPT ![b] = Blank]
      BY <2>6 DEF Leave
    <3>2. \A c \in tabs' : shows'[c] = shows[c]
      BY <3>1 DEF EndsInv
    <3>3. PagesShowEnds'
      BY <2>1, <3>1, <3>2 DEF EndsInv, PagesShowEnds, ShowsEnd, Ended
    <3>4. QED
      BY <2>2, <3>1, <3>3 DEF EndsInv
  <2>7. CASE Cancel \/ \E b \in Browsers : Connect(b) \/ Disconnect(b)
    <3>1. UNCHANGED <<tabs, shows, owed, missed>>
      BY <2>7 DEF Cancel, Connect, Disconnect
    <3>2. QED
      BY <2>1, <2>2, <3>1 DEF EndsInv, PagesShowEnds, ShowsEnd, Ended
  <2>8. QED
    BY <1>8, <2>4, <2>5, <2>6, <2>7 DEF Beside
<1>9. CASE UNCHANGED allVars
  BY <1>9
  DEF allVars, alertVars, audience, vars, EndsInv, SnapshotShowsEnds, PagesShowEnds, ShowsEnd, Ended
<1>10. QED
  BY <1>2, <1>3, <1>4, <1>5, <1>6, <1>7, <1>8, <1>9 DEF AlertsNext, Beside

LEMMA EndsAlways == AlertsSpec => []EndsInv
<1>1. AlertsInit => EndsInv
  BY DEF AlertsInit, View, Ended, EndsInv, SnapshotShowsEnds, PagesShowEnds, ShowsEnd
<1>2. QED
  BY <1>1, EndsStep, IInvOfAlerts, PTL DEF AlertsSpec

(* Whatever is announced, by whichever handler and however late, a device   *)
(* on the broker never misses the end of a plate whose handler lived to     *)
(* tell it: each notification of a step is made of a database in which all  *)
(* the rows the step ends have ended.                                       *)
THEOREM EndsAreShown == AlertsSpec => []SnapshotShowsEnds
<1>1. EndsInv => SnapshotShowsEnds
  BY DEF EndsInv
<1>2. QED
  BY <1>1, EndsAlways, PTL

(* For any number of tabs: the step that ends a row tells every tab that is *)
(* connected, those behind a dead writer included, and a step that tells    *)
(* nobody ends no row but one whose handler threw.                          *)
THEOREM PagesAreKept == AlertsSpec => []PagesShowEnds
<1>1. EndsInv => PagesShowEnds
  BY DEF EndsInv
<1>2. QED
  BY <1>1, EndsAlways, PTL

=============================================================================
