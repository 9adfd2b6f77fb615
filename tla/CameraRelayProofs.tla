------------------------- MODULE CameraRelayProofs --------------------------
(***************************************************************************)
(* Theorems about CameraRelay, for every set of tabs, snapshots and        *)
(* sockets and every pair of delays.                                       *)
(*                                                                         *)
(* That there is one upstream is not inductive: it hangs on the backoff    *)
(* timer never being set beside a socket, because the timer opens one      *)
(* without looking; and that a stale frame is only handed out meanwhile    *)
(* hangs on whether a socket without a fresh frame is still connecting.    *)
(* Inv adds those two and what keeps the camera while nobody watches.      *)
(***************************************************************************)
EXTENDS CameraRelay, TLAPS

(* What holds between the socket, its timer and the buffered frame.         *)
UpstreamInv ==
  /\ OneUpstream
  /\ WatchedIsConnected
  /\ connecting => sock # NoSocket
  /\ backoff => sock = NoSocket
  /\ frame = "live" => sock # NoSocket
  /\ frame = "stale" /\ sock # NoSocket => connecting

(* Who is subscribed, and that whatever is left when nobody is will be      *)
(* cleared by the linger timer.                                             *)
ListenersInv ==
  /\ Waiting \cup {t \in Tabs : tab[t] = "open"} \subseteq listeners
  /\ listeners \subseteq Waiting \cup {t \in Tabs : tab[t] # "closed"}
  /\ listeners = {} /\ (sock # NoSocket \/ backoff \/ frame # "none") => linger

Inv == TypeOK /\ UpstreamInv /\ ListenersInv

-----------------------------------------------------------------------------

LEMMA DelayStaysBounded ==
  ASSUME TypeOK
  PROVE  Doubled \in Base..Ceiling
<1>1. Base \in Nat /\ Base > 0 /\ Ceiling \in Nat /\ Base <= Ceiling
  BY ConsumersAssumption
<1>2. delay \in Nat /\ Base <= delay /\ delay <= Ceiling
  BY <1>1 DEF TypeOK
<1>3. QED
  BY <1>1, <1>2 DEF Doubled

LEMMA BaseIsADelay == Base \in Base..Ceiling
BY ConsumersAssumption

LEMMA InitInv == Init => Inv
<1>1. Init => TypeOK
  BY BaseIsADelay DEF Init, TypeOK
<1>2. Init => UpstreamInv
  BY DEF Init, UpstreamInv, OneUpstream, WatchedIsConnected
<1>3. Init => ListenersInv
  BY DEF Init, ListenersInv, Waiting
<1>4. QED
  BY <1>1, <1>2, <1>3 DEF Inv

(* openUpstream is only called without a socket, and for somebody.          *)
LEMMA OpenUpstreamKeeps ==
  ASSUME TypeOK, OneUpstream, sock = NoSocket, ~connecting, NEW timer \in BOOLEAN, ~timer,
         OpenUpstream(timer)
  PROVE  /\ sock' \in Sockets \cup {NoSocket} /\ live' \subseteq Sockets
         /\ live' \subseteq {sock'}
         /\ closing' = closing
         /\ connecting' \in BOOLEAN /\ connecting' = (sock' # NoSocket)
         /\ backoff' \in BOOLEAN /\ backoff' = (sock' = NoSocket)
         /\ delay' \in Base..Ceiling
<1>1. live = {}
  BY ConsumersAssumption DEF TypeOK, OneUpstream
<1>2. CASE ~badHost
  <2>1. PICK i \in Sockets : sock' = i /\ live' = {i}
    BY <1>1, <1>2 DEF OpenUpstream
  <2>2. connecting' = TRUE /\ backoff' = FALSE /\ closing' = closing /\ delay' = delay
    BY <1>2 DEF OpenUpstream
  <2>3. QED
    BY <2>1, <2>2, ConsumersAssumption DEF TypeOK
<1>3. CASE badHost
  BY <1>1, <1>3, DelayStaysBounded DEF OpenUpstream, ScheduleReconnect, TypeOK, upstream
<1>4. QED
  BY <1>2, <1>3

(* subscribe's upstream afterwards: there, or coming.                       *)
LEMMA EnsureUpstreamKeeps ==
  ASSUME TypeOK, UpstreamInv, EnsureUpstream
  PROVE  /\ sock' \in Sockets \cup {NoSocket} /\ live' \subseteq Sockets
         /\ live' \subseteq {sock'}
         /\ closing' = closing
         /\ connecting' \in BOOLEAN /\ (connecting' => sock' # NoSocket)
         /\ backoff' \in BOOLEAN /\ (backoff' <=> sock' = NoSocket)
         /\ delay' \in Base..Ceiling
         /\ sock # NoSocket => sock' = sock /\ connecting' = connecting
         /\ sock = NoSocket /\ sock' # NoSocket => connecting'
<1>1. CASE UpstreamComing
  BY <1>1 DEF EnsureUpstream, UpstreamComing, UpstreamInv, OneUpstream, TypeOK, upstream
<1>2. CASE ~UpstreamComing
  <2>1. sock = NoSocket /\ ~connecting /\ ~backoff /\ OpenUpstream(FALSE)
    BY <1>2 DEF EnsureUpstream, UpstreamComing, TypeOK
  <2>2. QED
    BY <2>1, OpenUpstreamKeeps DEF UpstreamInv
<1>3. QED
  BY <1>1, <1>2

-----------------------------------------------------------------------------

LEMMA WatchKeeps ==
  ASSUME Inv, NEW t \in Tabs, Watch(t)
  PROVE  Inv'
<1>1. EnsureUpstream /\ listeners' = listeners \cup {t} /\ linger' = FALSE
  BY DEF Watch, Subscribe
<1>2. TypeOK'
  BY <1>1, EnsureUpstreamKeeps DEF Inv, Watch, TypeOK, Consumers
<1>3. UpstreamInv'
  BY <1>1, EnsureUpstreamKeeps
  DEF Inv, Watch, UpstreamInv, OneUpstream, WatchedIsConnected
<1>4. ListenersInv'
  BY <1>1 DEF Inv, Watch, ListenersInv, Waiting, TypeOK
<1>5. QED
  BY <1>2, <1>3, <1>4 DEF Inv

LEMMA SnapshotKeeps ==
  ASSUME Inv, NEW s \in Snaps, Snapshot(s)
  PROVE  Inv'
<1>1. CASE frame # "none"
  <2>1. snap' = [snap EXCEPT ![s] = frame] /\ UNCHANGED <<upstream, timers, listeners, tab, frame, badHost>>
    BY <1>1 DEF Snapshot
  <2>2. TypeOK'
    BY <1>1, <2>1 DEF Inv, TypeOK, upstream, timers
  <2>3. UpstreamInv'
    BY <2>1 DEF Inv, UpstreamInv, OneUpstream, WatchedIsConnected, upstream, timers
  <2>4. Waiting' = Waiting
    BY <1>1, <2>1 DEF Inv, TypeOK, Waiting, Snapshot
  <2>5. ListenersInv'
    BY <2>1, <2>4 DEF Inv, ListenersInv, upstream, timers
  <2>6. QED
    BY <2>2, <2>3, <2>5 DEF Inv
<1>2. CASE frame = "none"
  <2>1. /\ EnsureUpstream /\ listeners' = listeners \cup {s} /\ linger' = FALSE
        /\ snap' = [snap EXCEPT ![s] = "waiting"]
        /\ UNCHANGED <<tab, frame, badHost>>
    BY <1>2 DEF Snapshot, Subscribe
  <2>2. TypeOK'
    BY <2>1, EnsureUpstreamKeeps DEF Inv, TypeOK, Consumers
  <2>3. UpstreamInv'
    BY <1>2, <2>1, EnsureUpstreamKeeps
    DEF Inv, UpstreamInv, OneUpstream, WatchedIsConnected
  <2>4. ListenersInv'
    BY <2>1 DEF Inv, ListenersInv, Waiting, TypeOK
  <2>5. QED
    BY <2>2, <2>3, <2>4 DEF Inv
<1>3. QED
  BY <1>1, <1>2

LEMMA CancelKeeps ==
  ASSUME Inv, NEW t \in Tabs, Cancel(t)
  PROVE  Inv'
<1>1. TypeOK'
  BY DEF Inv, Cancel, Unsubscribe, TypeOK, upstream
<1>2. UpstreamInv'
  BY DEF Inv, Cancel, Unsubscribe, UpstreamInv, OneUpstream, WatchedIsConnected, upstream
<1>3. ListenersInv'
  BY ConsumersAssumption DEF Inv, Cancel, Unsubscribe, ListenersInv, Waiting, TypeOK, upstream
<1>4. QED
  BY <1>1, <1>2, <1>3 DEF Inv

LEMMA GoAwayKeeps ==
  ASSUME Inv, NEW t \in Tabs, GoAway(t)
  PROVE  Inv'
BY DEF Inv, GoAway, TypeOK, UpstreamInv, OneUpstream, WatchedIsConnected, ListenersInv,
       Waiting, upstream, timers

LEMMA SnapshotTimesOutKeeps ==
  ASSUME Inv, NEW s \in Snaps, SnapshotTimesOut(s)
  PROVE  Inv'
<1>1. TypeOK'
  BY DEF Inv, SnapshotTimesOut, Unsubscribe, TypeOK, upstream
<1>2. UpstreamInv'
  BY DEF Inv, SnapshotTimesOut, Unsubscribe, UpstreamInv, OneUpstream, WatchedIsConnected, upstream
<1>3. ListenersInv'
  BY ConsumersAssumption
  DEF Inv, SnapshotTimesOut, Unsubscribe, ListenersInv, Waiting, TypeOK, upstream
<1>4. QED
  BY <1>1, <1>2, <1>3 DEF Inv

LEMMA FrameKeeps ==
  ASSUME Inv, Frame
  PROVE  Inv'
<1>1. TypeOK'
  BY BaseIsADelay DEF Inv, Frame, Unsubscribe, TypeOK
<1>2. UpstreamInv'
  BY DEF Inv, Frame, Unsubscribe, UpstreamInv, OneUpstream, WatchedIsConnected
<1>3. ListenersInv'
  <2>1. Waiting' = {}
    BY DEF Inv, Frame, Waiting, TypeOK
  <2>2. listeners' = listeners \ (Waiting \cup Broken) /\ tab' = tab
    BY DEF Frame, Unsubscribe, Served
  <2>3. {t \in Tabs : tab[t] = "open"} \subseteq listeners'
    BY <2>2, ConsumersAssumption DEF Inv, ListenersInv, Waiting, Broken
  <2>4. listeners' \subseteq {t \in Tabs : tab[t] # "closed"}
    BY <2>2 DEF Inv, ListenersInv
  <2>5. listeners' = {} => linger'
    BY <2>2 DEF Inv, ListenersInv, Frame, Unsubscribe, Served
  <2>6. QED
    BY <2>1, <2>2, <2>3, <2>4, <2>5 DEF ListenersInv
<1>4. QED
  BY <1>1, <1>2, <1>3 DEF Inv

LEMMA CloseKeeps ==
  ASSUME Inv, NEW i \in Sockets, Close(i)
  PROVE  Inv'
<1>1. TypeOK'
  BY DelayStaysBounded DEF Inv, Close, UpstreamGone, ScheduleReconnect, Staled, TypeOK, consumers
<1>2. UpstreamInv'
  BY ConsumersAssumption
  DEF Inv, Close, UpstreamGone, ScheduleReconnect, Staled, UpstreamInv, OneUpstream,
      WatchedIsConnected, TypeOK, consumers
<1>3. ListenersInv'
  BY ConsumersAssumption
  DEF Inv, Close, UpstreamGone, ScheduleReconnect, Staled, ListenersInv, Waiting, TypeOK, consumers
<1>4. QED
  BY <1>1, <1>2, <1>3 DEF Inv

LEMMA LateCloseKeeps ==
  ASSUME Inv, NEW i \in Sockets, LateClose(i)
  PROVE  Inv'
BY DEF Inv, LateClose, TypeOK, UpstreamInv, OneUpstream, WatchedIsConnected, ListenersInv,
       Waiting, timers, consumers

LEMMA BackoffFiresKeeps ==
  ASSUME Inv, BackoffFires
  PROVE  Inv'
<1>1. backoff /\ sock = NoSocket /\ ~connecting
  BY DEF Inv, UpstreamInv, BackoffFires, TypeOK
<1>2. UNCHANGED <<linger, listeners, tab, snap, frame, badHost>>
  BY DEF BackoffFires, consumers
<1>3. CASE listeners # {}
  <2>1. OpenUpstream(FALSE)
    BY <1>3 DEF BackoffFires
  <2>2. TypeOK'
    BY <1>1, <1>2, <2>1, OpenUpstreamKeeps DEF Inv, UpstreamInv, TypeOK
  <2>3. UpstreamInv'
    BY <1>1, <1>2, <2>1, OpenUpstreamKeeps DEF Inv, UpstreamInv, OneUpstream, WatchedIsConnected
  <2>4. ListenersInv'
    BY <1>2, <1>3 DEF Inv, ListenersInv, Waiting
  <2>5. QED
    BY <2>2, <2>3, <2>4 DEF Inv
<1>4. CASE listeners = {}
  <2>1. backoff' = FALSE /\ UNCHANGED <<upstream, delay>>
    BY <1>4 DEF BackoffFires
  <2>2. QED
    BY <1>1, <1>2, <1>4, <2>1
    DEF Inv, TypeOK, UpstreamInv, OneUpstream, WatchedIsConnected, ListenersInv, Waiting, upstream
<1>5. QED
  BY <1>3, <1>4

LEMMA LingerFiresKeeps ==
  ASSUME Inv, LingerFires
  PROVE  Inv'
<1>1. UNCHANGED <<listeners, tab, snap, badHost>>
  BY DEF LingerFires, consumers
<1>2. CASE listeners = {}
  <2>1. Teardown /\ linger' = FALSE
    BY <1>2 DEF LingerFires
  <2>2. TypeOK'
    BY <1>1, <2>1, BaseIsADelay DEF Inv, TypeOK, Teardown
  <2>3. UpstreamInv'
    BY <1>1, <1>2, <2>1 DEF Inv, UpstreamInv, Teardown, OneUpstream, WatchedIsConnected
  <2>4. ListenersInv'
    BY <1>1, <1>2, <2>1 DEF Inv, ListenersInv, Teardown, Waiting
  <2>5. QED
    BY <2>2, <2>3, <2>4 DEF Inv
<1>3. CASE listeners # {}
  <2>1. linger' = FALSE /\ UNCHANGED <<upstream, backoff, delay, frame>>
    BY <1>3 DEF LingerFires
  <2>2. QED
    BY <1>1, <1>3, <2>1
    DEF Inv, TypeOK, UpstreamInv, OneUpstream, WatchedIsConnected, ListenersInv, Waiting, upstream
<1>4. QED
  BY <1>2, <1>3

LEMMA StepKeepsInv == Inv /\ [Next]_vars => Inv'
<1>1. SUFFICES ASSUME Inv, [Next]_vars PROVE Inv'
  OBVIOUS
<1>2. CASE \E t \in Tabs : Watch(t)
  BY <1>1, <1>2, WatchKeeps
<1>3. CASE \E t \in Tabs : Cancel(t)
  BY <1>1, <1>3, CancelKeeps
<1>4. CASE \E t \in Tabs : GoAway(t)
  BY <1>1, <1>4, GoAwayKeeps
<1>5. CASE \E s \in Snaps : Snapshot(s)
  BY <1>1, <1>5, SnapshotKeeps
<1>6. CASE \E s \in Snaps : SnapshotTimesOut(s)
  BY <1>1, <1>6, SnapshotTimesOutKeeps
<1>7. CASE Frame
  BY <1>1, <1>7, FrameKeeps
<1>8. CASE \E i \in Sockets : Close(i)
  BY <1>1, <1>8, CloseKeeps
<1>9. CASE \E i \in Sockets : LateClose(i)
  BY <1>1, <1>9, LateCloseKeeps
<1>10. CASE BackoffFires
  BY <1>1, <1>10, BackoffFiresKeeps
<1>11. CASE LingerFires
  BY <1>1, <1>11, LingerFiresKeeps
<1>12. CASE UNCHANGED vars
  BY <1>1, <1>12
  DEF Inv, TypeOK, UpstreamInv, OneUpstream, WatchedIsConnected, ListenersInv, Waiting,
      vars, upstream, timers, consumers
<1>13. QED
  BY <1>1, <1>2, <1>3, <1>4, <1>5, <1>6, <1>7, <1>8, <1>9, <1>10, <1>11, <1>12 DEF Next

-----------------------------------------------------------------------------
(* The relay, whatever the camera, the browsers and the timers do, keeps    *)
(* its invariant.                                                           *)
THEOREM RelayInvariant == Spec => []Inv
BY InitInv, StepKeepsInv, PTL DEF Spec

(* Every variable stays in its type; the delay in particular never exceeds  *)
(* its ceiling (scheduleReconnect).                                         *)
THEOREM RelayTypes == Spec => []TypeOK
<1>1. Inv => TypeOK
  BY DEF Inv
<1>2. QED
  BY <1>1, RelayInvariant, PTL

(* At most one upstream connection, and it is the one the relay knows of    *)
(* (openUpstream from a subscription and from the backoff timer).           *)
THEOREM RelayHasOneUpstream == Spec => []OneUpstream
<1>1. Inv => OneUpstream
  BY DEF Inv, UpstreamInv
<1>2. QED
  BY <1>1, RelayInvariant, PTL

(* Listeners, upstream, timers and frame belong together, whatever tabs,    *)
(* snapshots, timers and a camera that comes and goes do: nobody watches in *)
(* vain, no leaked subscriber holds the camera, and a frame of a lost       *)
(* upstream is handed out only until the next one or the end of the         *)
(* lingering (ensureUpstream, unsubscribe, onUpstreamGone).                 *)
THEOREM RelayStaysConsistent == Spec => []RelayIsConsistent
<1>1. Inv => WatchedIsConnected
  BY DEF Inv, UpstreamInv
<1>2. Inv => UnwatchedIsReleased
  BY DEF Inv, ListenersInv, UnwatchedIsReleased
<1>3. Inv => StaleOnlyMeanwhile
  BY DEF Inv, UpstreamInv, ListenersInv, StaleOnlyMeanwhile, WatchedIsConnected
<1>4. Inv => RelayIsConsistent
  BY <1>1, <1>2, <1>3, Zenon DEF RelayIsConsistent
<1>5. QED
  BY <1>4, RelayInvariant, PTL
=============================================================================
