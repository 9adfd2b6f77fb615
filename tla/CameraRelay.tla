---------------------------- MODULE CameraRelay -----------------------------
(***************************************************************************)
(* The camera relay (orchestrator/camera-relay.ts) with its consumers, the *)
(* MJPEG stream (api/camera-routes.ts) and one-off snapshots               *)
(* (api/snapshot-routes.ts), over a camera whose connection may close or   *)
(* fall silent at any time.  A frame is only fresh or stale; the timers    *)
(* are flags that may fire whenever they are set.                          *)
(***************************************************************************)
EXTENDS Naturals, FiniteSets

CONSTANTS
  Tabs,       \* browser tabs on the MJPEG stream
  Snaps,      \* callers of snapshot()
  Sockets,    \* upstream sockets; bound: those whose close is not seen yet
  NoSocket,   \* sock is null
  Base, Ceiling   \* backoffBaseMs, backoffMaxMs

ASSUME ConsumersAssumption ==
  /\ Tabs \intersect Snaps = {}
  /\ NoSocket \notin Sockets
  /\ Base \in Nat \ {0} /\ Ceiling \in Nat /\ Base <= Ceiling

Consumers == Tabs \cup Snaps

VARIABLES
  listeners,    \* subscribed consumers
  sock,         \* the upstream the relay holds
  connecting,   \* until its first frame
  frame,        \* latestFrame: "none", "live" or of an upstream that is gone, "stale"
  linger,       \* is lingerTimer set?
  backoff,      \* is backoffTimer set?
  delay,        \* backoffMs
  live,         \* sockets that are open towards the camera
  closing,      \* destroyed, their close event is still to come
  tab,          \* "closed", "open", or "gone": the client left, cancel is to come
  snap,         \* "idle", "waiting", or what the caller got
  badHost       \* does tlsConnect throw?

upstream == <<sock, connecting, live, closing>>
timers == <<linger, backoff, delay>>
consumers == <<listeners, tab, snap>>
vars == <<upstream, timers, consumers, frame, badHost>>

-----------------------------------------------------------------------------

Init ==
  /\ listeners = {}
  /\ sock = NoSocket
  /\ connecting = FALSE
  /\ frame = "none"
  /\ linger = FALSE
  /\ backoff = FALSE
  /\ delay = Base
  /\ live = {}
  /\ closing = {}
  /\ tab = [t \in Tabs |-> "closed"]
  /\ snap = [s \in Snaps |-> "idle"]
  /\ badHost \in BOOLEAN

-----------------------------------------------------------------------------
(* The upstream                                                             *)

Doubled == IF 2 * delay < Ceiling THEN 2 * delay ELSE Ceiling

(* scheduleReconnect; timer: is one set already?                            *)
ScheduleReconnect(timer) ==
  /\ backoff' = TRUE
  /\ delay' = IF timer THEN delay ELSE Doubled

(* openUpstream, called while somebody listens.  When tlsConnect throws,    *)
(* that is an upstream that is gone.                                        *)
OpenUpstream(timer) ==
  \/ /\ ~badHost
     /\ \E i \in Sockets \ (live \cup closing) :
          /\ sock' = i
          /\ live' = live \cup {i}
     /\ connecting' = TRUE
     /\ backoff' = timer
     /\ UNCHANGED <<closing, delay>>
  \/ /\ badHost
     /\ ScheduleReconnect(timer)
     /\ UNCHANGED upstream

(* Mutant: a scheduled reconnect does not count.                            *)
OnlyTheSocket == sock # NoSocket \/ connecting

(* ensureUpstream's early return.                                           *)
UpstreamComing == sock # NoSocket \/ connecting \/ backoff

EnsureUpstream ==
  \/ UpstreamComing /\ UNCHANGED <<upstream, backoff, delay>>
  \/ ~UpstreamComing /\ OpenUpstream(backoff)

(* Mutant: whoever watches has to reload the page.                          *)
GoneForGood ==
  /\ sock' = NoSocket
  /\ connecting' = FALSE
  /\ UNCHANGED <<backoff, delay>>

(* onUpstreamGone: the frame is kept, and the upstream is reopened after a  *)
(* while if somebody watches.                                               *)
UpstreamGone ==
  /\ sock' = NoSocket
  /\ connecting' = FALSE
  /\ \/ listeners = {} /\ UNCHANGED <<backoff, delay>>
     \/ listeners # {} /\ ScheduleReconnect(backoff)

Staled == IF frame = "live" THEN "stale" ELSE frame

(* The camera or the network closes the connection.                         *)
Close(i) ==
  /\ i \in live
  /\ live' = live \ {i}
  /\ \/ sock = i /\ UpstreamGone /\ frame' = Staled
     \/ sock # i /\ UNCHANGED <<sock, connecting, backoff, delay, frame>>
  /\ UNCHANGED <<closing, linger, consumers, badHost>>

(* The close event of a socket the relay has destroyed and forgotten.       *)
LateClose(i) ==
  /\ i \in closing
  /\ closing' = closing \ {i}
  /\ UNCHANGED <<sock, connecting, live, timers, consumers, frame, badHost>>

BackoffFires ==
  /\ backoff
  /\ \/ listeners # {} /\ OpenUpstream(FALSE)
     \/ listeners = {} /\ backoff' = FALSE /\ UNCHANGED <<upstream, delay>>
  /\ UNCHANGED <<linger, consumers, frame, badHost>>

-----------------------------------------------------------------------------
(* Consumers                                                                *)

(* subscribe: a consumer is back.                                           *)
Subscribe(c) ==
  /\ listeners' = listeners \cup {c}
  /\ linger' = FALSE
  /\ EnsureUpstream

(* Mutant: an unsubscription inside a delivery does not count.              *)
Deserted(cs) ==
  /\ listeners' = listeners \ cs
  /\ UNCHANGED linger

(* The unsubscribe functions of cs are called; the last one starts the      *)
(* linger timer.                                                            *)
Unsubscribe(cs) ==
  /\ listeners' = listeners \ cs
  /\ linger' = IF cs \intersect listeners # {} /\ listeners \ cs = {} THEN TRUE ELSE linger

(* GET /api/printer/camera.mjpeg.                                           *)
Watch(t) ==
  /\ tab[t] = "closed"
  /\ Subscribe(t)
  /\ tab' = [tab EXCEPT ![t] = "open"]
  /\ UNCHANGED <<snap, frame, badHost>>

(* The stream is cancelled.                                                 *)
Cancel(t) ==
  /\ tab[t] # "closed"
  /\ Unsubscribe({t})
  /\ tab' = [tab EXCEPT ![t] = "closed"]
  /\ UNCHANGED <<upstream, backoff, delay, snap, frame, badHost>>

(* The client is gone and enqueue will throw; cancel has not been called.   *)
GoAway(t) ==
  /\ tab[t] = "open"
  /\ tab' = [tab EXCEPT ![t] = "gone"]
  /\ UNCHANGED <<upstream, timers, listeners, snap, frame, badHost>>

(* GET /api/printer/snapshot, the wizard, a webhook attachment: the buffered*)
(* frame, whatever its age, or a subscription until the next one.           *)
Snapshot(s) ==
  /\ snap[s] # "waiting"
  /\ \/ /\ frame # "none"
        /\ snap' = [snap EXCEPT ![s] = frame]
        /\ UNCHANGED <<upstream, timers, listeners>>
     \/ /\ frame = "none"
        /\ snap' = [snap EXCEPT ![s] = "waiting"]
        /\ Subscribe(s)
  /\ UNCHANGED <<tab, frame, badHost>>

(* Mutant: the timer ends the subscription but not the promise.             *)
SnapshotForgotten(s) ==
  /\ snap[s] = "waiting"
  /\ Unsubscribe({s})
  /\ UNCHANGED <<upstream, backoff, delay, snap, tab, frame, badHost>>

SnapshotTimesOut(s) ==
  /\ snap[s] = "waiting"
  /\ Unsubscribe({s})
  /\ snap' = [snap EXCEPT ![s] = "null"]
  /\ UNCHANGED <<upstream, backoff, delay, tab, frame, badHost>>

Waiting == {s \in Snaps : snap[s] = "waiting"}
Broken == {t \in Tabs : tab[t] = "gone"}

(* Who unsubscribes when a frame is delivered: the snapshots, which have    *)
(* what they wanted, and streams whose client is gone.                      *)
Served == Waiting \cup Broken

(* onFrame: the stream is healthy.                                          *)
Frame ==
  /\ sock # NoSocket
  /\ connecting' = FALSE
  /\ delay' = Base
  /\ frame' = "live"
  /\ snap' = [s \in Snaps |-> IF snap[s] = "waiting" THEN "live" ELSE snap[s]]
  /\ Unsubscribe(Served)
  /\ UNCHANGED <<sock, live, closing, backoff, tab, badHost>>

-----------------------------------------------------------------------------

Teardown ==
  /\ backoff' = FALSE
  /\ delay' = Base
  /\ frame' = "none"
  /\ sock' = NoSocket
  /\ connecting' = FALSE
  /\ live' = live \ {sock}
  /\ closing' = closing \cup (live \intersect {sock})

LingerFires ==
  /\ linger
  /\ linger' = FALSE
  /\ \/ listeners = {} /\ Teardown
     \/ listeners # {} /\ UNCHANGED <<upstream, backoff, delay, frame>>
  /\ UNCHANGED <<consumers, badHost>>

-----------------------------------------------------------------------------

Next ==
  \/ \E t \in Tabs : Watch(t)
  \/ \E t \in Tabs : Cancel(t)
  \/ \E t \in Tabs : GoAway(t)
  \/ \E s \in Snaps : Snapshot(s)
  \/ \E s \in Snaps : SnapshotTimesOut(s)
  \/ Frame
  \/ \E i \in Sockets : Close(i)
  \/ \E i \in Sockets : LateClose(i)
  \/ BackoffFires
  \/ LingerFires

Spec == Init /\ [][Next]_vars

(* Timers fire, and a destroyed socket closes.  Nothing is assumed of the   *)
(* camera: it may accept a connection and never send a frame.               *)
Fairness ==
  /\ \A s \in Snaps : WF_vars(SnapshotTimesOut(s))
  /\ \A i \in Sockets : WF_vars(LateClose(i))
  /\ WF_vars(BackoffFires)
  /\ WF_vars(LingerFires)

FairSpec == Spec /\ Fairness

-----------------------------------------------------------------------------
(* Properties                                                               *)

TypeOK ==
  /\ listeners \subseteq Consumers
  /\ sock \in Sockets \cup {NoSocket}
  /\ connecting \in BOOLEAN /\ linger \in BOOLEAN /\ backoff \in BOOLEAN
  /\ frame \in {"none", "live", "stale"}
  /\ delay \in Base..Ceiling
  /\ live \subseteq Sockets /\ closing \subseteq Sockets
  /\ tab \in [Tabs -> {"closed", "open", "gone"}]
  /\ snap \in [Snaps -> {"idle", "waiting", "live", "stale", "null"}]
  /\ badHost \in BOOLEAN

(* camera-relay.ts:11, "AT MOST ONE upstream connection": whatever tabs,    *)
(* snapshots and timers do, no second connection to the camera is opened,   *)
(* and none is lost track of.                                               *)
OneUpstream == live \subseteq {sock}

(* While somebody watches there is an upstream, or a timer that will open   *)
(* one: no order of closing, subscribing and timers loses the reconnect.    *)
WatchedIsConnected == listeners # {} => sock # NoSocket \/ backoff

(* camera-routes.ts:11, "a leaked subscriber would pin the scarce upstream  *)
(* slot": those who wait for frames are subscribed and nobody else, and     *)
(* with nobody left the linger timer is running for as long as there is an  *)
(* upstream.                                                                *)
UnwatchedIsReleased ==
  /\ Waiting \cup {t \in Tabs : tab[t] = "open"} \subseteq listeners
  /\ listeners \subseteq Waiting \cup {t \in Tabs : tab[t] # "closed"}
  /\ listeners = {} /\ sock # NoSocket => linger

(* A frame of an upstream that is gone is only handed out while the relay   *)
(* reconnects or lingers.                                                   *)
StaleOnlyMeanwhile ==
  /\ frame = "live" => sock # NoSocket
  /\ frame = "stale" => connecting \/ backoff \/ linger

(* Listeners, upstream, timers and frame belong together.                   *)
RelayIsConsistent ==
  /\ WatchedIsConnected
  /\ UnwatchedIsReleased
  /\ StaleOnlyMeanwhile

(* camera-relay.ts:30: snapshot() always resolves, with a frame or null.    *)
SnapshotsSettle == \A s \in Snaps : snap[s] = "waiting" ~> snap[s] # "waiting"

(* Once nobody watches any more the camera is released.                     *)
CameraIsReleased == <>[](listeners = {}) => <>[](live = {})

=============================================================================
