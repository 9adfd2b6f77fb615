------------------------------- MODULE Alerts -------------------------------
(***************************************************************************)
(* Who is told what, and when.  Every step of the Dispatcher, together     *)
(* with the notifications it makes (core/dispatcher.ts) and where they go: *)
(* the browsers on GET /events (sse-notifier.ts), the retained queue       *)
(* snapshot of the broker (orchestrator.ts, gateway.ts), and the webhook,  *)
(* which is fired and forgotten and leaves no state.  The escalation       *)
(* (core/escalation.ts) tells the first and the last again about a queue   *)
(* that stays stopped.                                                     *)
(*                                                                         *)
(* A page is what it showed of the queue when it was last fetched.  Time   *)
(* passes in units, and only while a stocker_refill row is open: nothing   *)
(* reads it otherwise.                                                     *)
(***************************************************************************)
EXTENDS Dispatcher, Sequences

CONSTANTS
  Browsers,
  Gone,         \* the writer of a connection that is dead
  LowStock,     \* lowStockThreshold
  Interval,     \* intervalMs of the escalation
  Period,       \* of the setInterval that calls tick
  Cut,          \* what datetime('now') may cut off
  MaxGone,      \* bound: writers of dead connections
  MaxReboots    \* bound: restarts while nobody is told

ASSUME AlertsAssumption ==
  /\ Gone \notin Browsers
  /\ LowStock \in Nat /\ Interval \in Nat /\ Period \in Nat /\ Cut \in Nat
  /\ MaxGone \in Nat /\ MaxReboots \in Nat

VARIABLES
  retained,     \* the retained printfarm/queue, see View
  clients,      \* registered writers, in order: a browser, or Gone
  tabs,         \* browsers with the dashboard open
  shows,        \* the View each of them fetched last
  owed,         \* browsers that were told and have not yet fetched again
  missed,       \* history: tabs that something was announced to in vain
  age,          \* now - notified_at of the open stocker_refill row
  timer,        \* units until the next tick
  quiet,        \* history: units since somebody was last told of that row
  reboots,      \* history: restarts since then
  gaveUp        \* history: rows whose handler threw before it told anyone

audience == <<clients, tabs, shows, owed, missed>>
clock == <<age, timer, quiet, reboots>>
alertVars == <<retained, audience, clock, gaveUp>>
allVars == <<vars, alertVars>>

Ended(d, j) == d.status[j] \in {"success", "failed", "aborted"}

(* toQueueSnapshot, of which only the plates that ended matter here.        *)
View(d) == [j \in Jobs |-> IF Ended(d, j) THEN d.status[j] ELSE "open"]

(* What a closed tab shows.                                                 *)
Blank == [j \in Jobs |-> "open"]

AlertsInit ==
  /\ Init
  /\ retained = View(db)
  /\ clients = <<>>
  /\ tabs = {}
  /\ shows = [b \in Browsers |-> Blank]
  /\ owed = {}
  /\ missed = {}
  /\ age = 0 /\ timer = 0 /\ quiet = 0 /\ reboots = 0
  /\ gaveUp = {}

-----------------------------------------------------------------------------
(* The databases at which the code between two awaits calls notify          *)

Low(d) == IF d.remaining <= LowStock THEN <<d>> ELSE <<>>

(* ensureStockerRefillPending files a row.                                  *)
Files(d) == DispatchNext(d).refill > d.refill

Refilling(d) == IF Files(d) THEN <<DispatchNext(d)>> ELSE <<>>

(* Mutant: the plate is announced before it is marked.                      *)
TellThenMark(d, j) == <<d>>

FinishNotices(d, j) ==
  IF FinishThrows(d) THEN <<>>
  ELSE LET swapped == DecrementStocker(MarkSuccess(d, j))
           coloured == ApplyColorConsistency(swapped, j)
           asked == IF coloured.colorDecision # swapped.colorDecision THEN <<coloured>> ELSE <<>>
       IN  Low(swapped) \o <<swapped>> \o asked \o Refilling(coloured)

FailNotices(d, j) ==
  IF ~DecrementPermitted(d) THEN <<>>
  ELSE Low(DecrementStocker(d)) \o IF j \in Rows(d) THEN <<FailEnd(d, j)>> ELSE <<>>

AbortNotices(d, j) ==
  IF AbortThrows(d) THEN <<>>
  ELSE Low(Aborted(d, j)) \o <<Aborted(d, j)>> \o Refilling(Aborted(d, j))

-----------------------------------------------------------------------------
(* Where a notification goes                                                *)

Registered == {clients[i] : i \in DOMAIN clients}

Alive(w) == w # Gone

Connected(b) == b \in Registered

(* Mutant: a writer that throws ends the broadcast.                         *)
UnservedAfter(k) == \E h \in 1 .. k : ~Alive(clients[h])

(* A writer that throws is dropped, and the ones after it are served.       *)
Unserved(k) == ~Alive(clients[k])

Broadcast ==
  /\ owed' = owed \cup {clients[k] : k \in {i \in DOMAIN clients : ~Unserved(i)}}
  /\ clients' = SelectSeq(clients, Alive)
  /\ missed' = missed \cup (tabs \ Registered)
  /\ UNCHANGED <<tabs, shows>>

(* The CompositeNotifiers: all sinks, then the snapshot, after every event  *)
(* of the step, of which only the last leaves a trace.                      *)
Deliver(said) ==
  IF said = <<>> THEN UNCHANGED <<retained, audience>>
  ELSE /\ retained' = View(said[Len(said)])
       /\ Broadcast

(* Mutant: the text of the row read as local time.                          *)
StampLocal == Interval .. Interval + Cut

(* createPendingAction stamps datetime('now'), which parseDbTime reads.     *)
Stamp == 0 .. Cut

NoClock == age' = 0 /\ timer' = 0 /\ quiet' = 0 /\ reboots' = 0

(* filed: does the step file a stocker_refill row?                          *)
KeepTime(filed) ==
  \/ db'.refill = 0 /\ NoClock
  \/ /\ filed
     /\ age' \in Stamp
     /\ timer' \in 0 .. Period
     /\ quiet' = 0 /\ reboots' = 0
  \/ db'.refill > 0 /\ ~filed /\ UNCHANGED clock

GivenUp(js) == gaveUp' = {j \in gaveUp \cup js : Ended(db', j)}

Announce(said, filed) == Deliver(said) /\ KeepTime(filed)

TellNobody == Announce(<<>>, FALSE) /\ GivenUp({})

(* Steps whose only notification is that of a row dispatchNext files last.  *)
TellIfStopped ==
  LET filed == db'.refill > db.refill
  IN  Announce(IF filed THEN <<db'>> ELSE <<>>, filed) /\ GivenUp({})

-----------------------------------------------------------------------------
(* The steps of the Dispatcher                                              *)

Unannounced ==
  \/ \E j \in Jobs :
       \/ Upload(j) \/ ConfirmBegin(j) \/ ConfirmRejected(j) \/ AbortBegin(j)
       \/ AbortEjectThrows(j) \/ RetryRefused(j) \/ Delete(j) \/ MonitorFail(j)
       \/ StartSettles(j) \/ StartThrows(j)
  \/ UiRefill
  \/ Resolve
  \/ MonitorStartSettles
  \/ MonitorStartThrows

Dispatches ==
  \/ \E j \in Jobs :
       \/ Retry(j)
       \/ \E p \in ProjectChoice : ConfirmApply(j, p)
  \/ Refill
  \/ \E b \in BOOLEAN : BootReconcile(b)

Finish(j) ==
  /\ MonitorFinish(j)
  /\ Announce(FinishNotices(db, j), ~FinishThrows(db) /\ Files(Finished(db, j)))
  /\ GivenUp(IF FinishThrows(db) THEN {j} ELSE {})

EjectSettles ==
  /\ MonitorEjectSettles
  /\ Announce(FailNotices(db, monitor.job), FALSE)
  /\ GivenUp(IF ~DecrementPermitted(db) THEN {monitor.job} ELSE {})

EjectThrows ==
  /\ MonitorEjectThrows
  /\ Announce(<<>>, FALSE)
  /\ GivenUp({monitor.job})

AbortEnds(j) ==
  /\ AbortSettles(j)
  /\ Announce(AbortNotices(db, j), ~AbortThrows(db) /\ Files(Aborted(db, j)))
  /\ GivenUp(IF AbortThrows(db) THEN {j} ELSE {})

SetStockerTo(cap, rem) ==
  LET before == ResolveStockerRefills(SetStocker(db, cap, rem))
  IN  /\ PostStocker(cap, rem)
      /\ Announce(Refilling(before), Files(before))
      /\ GivenUp({})

(* A restart: every writer is gone and the escalation's timer starts anew.  *)
(* The initial snapshot is published before the first dispatchNext, whose   *)
(* refill request then publishes it again.  The tabs stay open, and their   *)
(* EventSource connects again, which fetches nothing.                       *)
Reboot ==
  /\ reboots < MaxReboots
  /\ Restart
  /\ retained' = View(db)
  /\ clients' = <<>>
  /\ owed' = {}
  /\ missed' = tabs
  /\ UNCHANGED <<tabs, shows>>
  /\ \/ db'.refill = 0 /\ NoClock
     \/ /\ db'.refill > db.refill
        /\ age' \in Stamp /\ timer' = Period /\ quiet' = 0 /\ reboots' = 0
     \/ /\ db'.refill > 0 /\ db'.refill = db.refill
        /\ timer' = Period /\ reboots' = reboots + 1
        /\ UNCHANGED <<age, quiet>>
  /\ gaveUp' = {}

-----------------------------------------------------------------------------
(* The escalation                                                           *)

Pass ==
  /\ db.refill > 0 /\ timer > 0
  /\ timer' = timer - 1
  /\ age' = age + 1
  /\ quiet' = quiet + 1
  /\ UNCHANGED <<vars, retained, audience, gaveUp, reboots>>

(* Mutant: the row is marked and nobody is told.                            *)
MarkOnly == age' = 0 /\ UNCHANGED <<quiet, reboots, audience>>

(* It notifies the sinks only: the snapshot is not published again.         *)
Renotify ==
  /\ age' = 0
  /\ quiet' = 0 /\ reboots' = 0
  /\ Broadcast

(* tick.  Of the rows the code files only stocker_refill is blocking_queue, *)
(* and one at most is unresolved.                                           *)
EscalationTick ==
  /\ db.refill > 0 /\ timer = 0
  /\ timer' = Period
  /\ \/ age >= Interval /\ Renotify
     \/ age < Interval /\ UNCHANGED <<age, quiet, reboots, audience>>
  /\ UNCHANGED <<vars, retained, gaveUp>>

-----------------------------------------------------------------------------
(* Browsers                                                                 *)

Apart == UNCHANGED <<vars, retained, clock, gaveUp>>

(* The page is rendered, or fetches its fragment again: it was told to, or  *)
(* has sent a request of its own.                                           *)
Fetch(b) ==
  /\ tabs' = tabs \cup {b}
  /\ shows' = [shows EXCEPT ![b] = View(db)]
  /\ owed' = owed \ {b}
  /\ missed' = missed \ {b}
  /\ UNCHANGED clients
  /\ Apart

(* open: the stream starts after the page was rendered, or once it broke.   *)
Connect(b) ==
  /\ b \in tabs /\ ~Connected(b)
  /\ clients' = Append(clients, b)
  /\ UNCHANGED <<tabs, shows, owed, missed>>
  /\ Apart

(* The writer of a dead connection stays until cancel or a broadcast.       *)
LosesConnection(b) ==
  /\ clients' = [i \in DOMAIN clients |-> IF clients[i] = b THEN Gone ELSE clients[i]]
  /\ Len(SelectSeq(clients', LAMBDA w : w = Gone)) <= MaxGone

Disconnect(b) ==
  /\ Connected(b)
  /\ LosesConnection(b)
  /\ UNCHANGED <<tabs, shows, owed, missed>>
  /\ Apart

Leave(b) ==
  /\ b \in tabs
  /\ LosesConnection(b)
  /\ tabs' = tabs \ {b}
  /\ shows' = [shows EXCEPT ![b] = Blank]
  /\ owed' = owed \ {b}
  /\ missed' = missed \ {b}
  /\ Apart

Cancel ==
  /\ Gone \in Registered
  /\ clients' = SelectSeq(clients, Alive)
  /\ UNCHANGED <<tabs, shows, owed, missed>>
  /\ Apart

AlertsNext ==
  \/ Unannounced /\ TellNobody
  \/ Dispatches /\ TellIfStopped
  \/ \E j \in Jobs : Finish(j)
  \/ \E j \in Jobs : AbortEnds(j)
  \/ EjectSettles
  \/ EjectThrows
  \/ \E cap \in Capacities : \E rem \in 0 .. cap : SetStockerTo(cap, rem)
  \/ Reboot
  \/ Pass
  \/ EscalationTick
  \/ \E b \in Browsers : Fetch(b)
  \/ \E b \in Browsers : Connect(b) \/ Disconnect(b)
  \/ \E b \in Browsers : Leave(b)
  \/ Cancel

AlertsSpec == AlertsInit /\ [][AlertsNext]_allVars

-----------------------------------------------------------------------------
(* Properties                                                               *)

(* INV-PENDING-03: while the queue stands still for a refill, somebody is   *)
(* told again before an interval and a period of the timer have passed -    *)
(* and one period more for every restart since, which starts it anew -      *)
(* whatever dispatches, refills and resolutions race the tick.              *)
StoppedQueueIsHeard == quiet <= Interval + Period * (1 + reboots)

(* ... and not before the interval is over, but for the part of a second    *)
(* the text of datetime('now') cuts off: the two formats of notified_at,    *)
(* read with parseDbTime, agree.                                            *)
NoNagging ==
  [][EscalationTick /\ quiet' < quiet => quiet + Cut >= Interval]_allVars

(* A view of the queue shows how j ended, unless its handler threw before   *)
(* it told anyone or is still ejecting.                                     *)
ShowsEnd(view, j) ==
  Ended(db, j) /\ j \notin gaveUp /\ monitor # Ejecting(j) => view[j] = db.status[j]

(* "The dispatcher notifies AFTER it has changed state (success / fail /    *)
(* pending), so the snapshot reflects the new state": a device on the       *)
(* broker is shown the end of every plate, whatever is announced of other   *)
(* plates in between.                                                       *)
SnapshotShowsEnds == \A j \in Jobs : ShowsEnd(retained, j)

(* A dashboard that is up to date with what it was told shows the end of    *)
(* every plate, whichever other browsers' writers throw - unless something  *)
(* was announced while it was not connected, after which nothing makes it   *)
(* fetch before the next notification.                                      *)
PagesShowEnds ==
  \A b \in tabs \ (owed \cup missed), j \in Jobs : ShowsEnd(shows[b], j)

=============================================================================
