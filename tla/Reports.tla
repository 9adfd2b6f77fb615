------------------------------ MODULE Reports -------------------------------
(***************************************************************************)
(* How what the printer does reaches the orchestrator: the stub printer    *)
(* behind its broker (stub/mqtt-server.ts) and control API, the client     *)
(* (orchestrator/mqtt-client.ts, report-schema.ts), the state log          *)
(* (state-log.ts) and the MQTT half of the diagnostics, over a connection  *)
(* that may break.                                                         *)
(***************************************************************************)
EXTENDS VirtualPrinter

CONSTANTS
  Commands,     \* project_file commands, see Command
  Grams,        \* what a slot can be set to
  Minutes,      \* what print_minutes can set
  MaxCalls,     \* bound: requests and control calls
  MaxWire,      \* bound: reports on the link, the printer then waits
  MaxDrops,     \* bound: lost connections
  MaxDeltas     \* bound: partial reports of a real printer

Command ==
  [command : {"project_file"}, file : STRING, param : STRING, mapping : Seq(-1..3)]

ASSUME CallsAssumption ==
  Commands \subseteq Command /\ Grams \subseteq Int /\ Minutes \subseteq Nat \ {0}

Stop == [command |-> "stop"]
Poll == [command |-> "pushall"]

VARIABLES
  printer,
  link,       \* "up" or "down"
  requests,   \* published by the client, not yet handled
  wire,       \* published by the broker for the client
  latest,     \* latestStatus
  prev,       \* the snapshot of the last line of the state log
  probed,     \* bound: the diagnostics run once
  calls, drops, deltas,
  polled,     \* history: a pushall was answered since the connection came up
  withheld    \* history: "now" while a FINISH goes unreported, then "once"

vars == <<printer, link, requests, wire, latest, prev, probed, calls, drops, deltas, polled, withheld>>

(* null: no report seen yet.                                                *)
Nothing == [state |-> "unknown"]

Room == Len(wire) < MaxWire
Spend == calls < MaxCalls /\ calls' = calls + 1 /\ Room

Init ==
  /\ printer = InitialPrinter([s \in Slots |-> FullSpool])
  /\ link = "up"
  /\ requests = <<Poll>>
  /\ wire = <<>>
  /\ latest = Nothing
  /\ prev = Nothing
  /\ probed = FALSE
  /\ calls = 0 /\ drops = 0 /\ deltas = 0
  /\ polled = FALSE
  /\ withheld = "never"

-----------------------------------------------------------------------------
(* The broker: QoS 0, reports and command results on one topic              *)

Report(r) == [kind |-> "report", body |-> r]
Ack(cmd, ok) == [kind |-> "ack", body |-> <<cmd, ok>>]

Sends(msgs) == wire' = IF link = "up" THEN wire \o msgs ELSE wire

Lifted == IF withheld = "now" THEN "once" ELSE withheld

Tells(result) ==
  /\ printer' = result.printer
  /\ Sends([i \in DOMAIN result.reports |-> Report(result.reports[i])])

(* handleCommand.  Malformed payloads and other commands are dropped.       *)
HandleProjectFile(cmd) ==
  LET result == ReceiveProjectFile(printer, cmd)
  IN  /\ printer' = result.printer
      /\ Sends([i \in DOMAIN result.reports |-> Report(result.reports[i])]
                 \o <<Ack("project_file", ~Rejected(printer, cmd))>>)
      /\ withheld' = IF Rejected(printer, cmd) THEN withheld ELSE Lifted
      /\ UNCHANGED polled

HandleStop ==
  LET result == Stopped(printer)
  IN  /\ printer' = result.printer
      /\ Sends([i \in DOMAIN result.reports |-> Report(result.reports[i])] \o <<Ack("stop", TRUE)>>)
      /\ UNCHANGED <<polled, withheld>>

HandlePushAll ==
  /\ Tells(PushAll(printer))
  /\ polled' = TRUE
  /\ withheld' = Lifted

HandleCommand ==
  /\ link = "up"
  /\ requests # <<>> /\ Room
  /\ requests' = Tail(requests)
  /\ \/ Head(requests).command = "pushall" /\ HandlePushAll
     \/ Head(requests).command = "stop" /\ HandleStop
     \/ Head(requests).command = "project_file" /\ HandleProjectFile(Head(requests))
  /\ UNCHANGED <<link, latest, prev, probed, calls, drops, deltas>>

-----------------------------------------------------------------------------
(* The ticker and the control API                                           *)

MayWithhold ==
  withheld' = IF printer'.suppressed /\ ~printer.suppressed THEN "now" ELSE withheld

Elsewhere == UNCHANGED <<link, requests, latest, prev, probed, drops, deltas, polled>>

Tick ==
  /\ printer.state = "RUNNING" /\ Room
  /\ Tells(Ticked(printer))
  /\ MayWithhold
  /\ Elsewhere /\ UNCHANGED calls

ControlFinish ==
  /\ Spend
  /\ Tells(ForceFinish(printer))
  /\ MayWithhold
  /\ Elsewhere

ControlFail ==
  /\ Spend
  /\ Tells(ForceFail(printer, "PRINTER_FAULT"))
  /\ Elsewhere /\ UNCHANGED withheld

ControlReset ==
  /\ Spend
  /\ Tells(ResetPrinter(printer))
  /\ withheld' = Lifted
  /\ Elsewhere

ControlAms ==
  /\ Spend
  /\ \E s \in Slots, g \in Grams : Tells(SetAms(printer, s, g))
  /\ Elsewhere /\ UNCHANGED withheld

ControlMinutes ==
  /\ Spend
  /\ \E m \in Minutes : printer' = SetPrintMinutes(printer, m)
  /\ Elsewhere /\ UNCHANGED <<wire, withheld>>

ControlFaultNow ==
  /\ Spend
  /\ \E category \in Categories : Tells(FaultNow(printer, category))
  /\ Elsewhere /\ UNCHANGED withheld

(* The fault that was waiting is replaced.                                  *)
ControlFaultLater ==
  /\ Spend
  /\ \E f \in Faults : printer' = [printer EXCEPT !.fault = f]
  /\ Elsewhere /\ UNCHANGED <<wire, withheld>>

-----------------------------------------------------------------------------
(* The client                                                               *)

(* publishProjectFile and stop; offline they wait for the connection.       *)
Send ==
  /\ Spend
  /\ \E cmd \in Commands \cup {Stop} : requests' = Append(requests, cmd)
  /\ UNCHANGED <<printer, link, wire, latest, prev, probed, drops, deltas, polled, withheld>>

(* The normalized status (pushStatusSchema): no AMS.                        *)
Status(r) ==
  [state |-> r.state, job |-> r.job, remaining |-> r.remaining, percent |-> r.percent,
   layer |-> r.layer, layers |-> r.layers, hms |-> r.hms]

(* A report with no gcode_state and with junk where hms should be.          *)
IsDelta(m) == m.kind = "delta"

NoState == ""

(* state-log.ts summarize: progress is ignored, what is missing is empty.   *)
Summary(m) ==
  IF IsDelta(m) THEN [state |-> NoState, hms |-> NoError, remain |-> m.body]
  ELSE [state |-> m.body.state, hms |-> m.body.hms, remain |-> m.body.remain]

(* Mutant: only the fault codes and the trays are compared.                 *)
SameFaults(a, b) == a # Nothing /\ a.hms = b.hms /\ a.remain = b.remain

SameSnapshot(a, b) == a = b

(* onMessage: a command result goes nowhere else; a report goes to the      *)
(* state log first, and then becomes the status if it has a state.          *)
OnMessage ==
  /\ wire # <<>>
  /\ wire' = Tail(wire)
  /\ LET m == Head(wire)
     IN  /\ prev' = IF m.kind = "ack" \/ SameSnapshot(prev, Summary(m)) THEN prev ELSE Summary(m)
         /\ latest' = IF m.kind = "report" THEN Status(m.body) ELSE latest
  /\ UNCHANGED <<printer, link, requests, probed, calls, drops, deltas, polled, withheld>>

Drop ==
  /\ link = "up"
  /\ drops < MaxDrops
  /\ drops' = drops + 1
  /\ link' = "down"
  /\ requests' = <<>>
  /\ wire' = <<>>
  /\ polled' = FALSE
  /\ UNCHANGED <<printer, latest, prev, probed, calls, deltas, withheld>>

(* Mutant: the first connection polls, later ones do not.                   *)
ReconnectSilently ==
  /\ link = "down"
  /\ link' = "up"
  /\ polled' = TRUE
  /\ UNCHANGED <<printer, requests, wire, latest, prev, probed, calls, drops, deltas, withheld>>

(* connect's handler: subscribe, then pushall.                              *)
Reconnect ==
  /\ link = "down"
  /\ link' = "up"
  /\ requests' = Append(requests, Poll)
  /\ UNCHANGED <<printer, wire, latest, prev, probed, calls, drops, deltas, polled, withheld>>

(* External: real firmware also sends what has changed in the AMS alone     *)
(* (protocol/messages.ts, AmsReport).                                       *)
Delta ==
  /\ deltas < MaxDeltas
  /\ link = "up" /\ Room
  /\ deltas' = deltas + 1
  /\ Sends(<<[kind |-> "delta", body |-> BuildReport(printer).remain]>>)
  /\ UNCHANGED <<printer, link, requests, latest, prev, probed, calls, drops, polled, withheld>>

-----------------------------------------------------------------------------
(* checkMqtt: a second client, which polls once if it is let in; what it    *)
(* makes of the answer stays with it                                        *)

Diagnose ==
  /\ ~probed /\ Room
  /\ probed' = TRUE
  /\ \/ UNCHANGED <<printer, wire, withheld>>
     \/ Tells(PushAll(printer)) /\ withheld' = Lifted
  /\ UNCHANGED <<link, requests, latest, prev, calls, drops, deltas, polled>>

-----------------------------------------------------------------------------

Next ==
  \/ HandleCommand
  \/ Tick
  \/ ControlFinish \/ ControlFail \/ ControlReset \/ ControlAms
  \/ ControlMinutes \/ ControlFaultNow \/ ControlFaultLater
  \/ Send \/ OnMessage \/ Drop \/ Reconnect \/ Delta
  \/ Diagnose

Spec == Init /\ [][Next]_vars

(* The ticker runs, the link delivers, the client reconnects.               *)
Fairness ==
  /\ WF_vars(Tick)
  /\ WF_vars(HandleCommand)
  /\ WF_vars(OnMessage)
  /\ WF_vars(Reconnect)

FairSpec == Spec /\ Fairness

-----------------------------------------------------------------------------
(* Properties                                                               *)

(* virtual-printer.ts:29 and :292, INV-RESYNC-02: when everything is        *)
(* delivered the orchestrator knows the printer's state, unless a FINISH    *)
(* was withheld on purpose; any poll, also that of the diagnostics,         *)
(* restores it.                                                             *)
ClientCatchesUp ==
  link = "up" /\ polled /\ wire = <<>> /\ withheld # "now" =>
    /\ latest.state = printer.state
    /\ latest.job = printer.job
    /\ latest.hms = printer.hms
    /\ latest.percent = printer.percent

(* The monitor acts on edges: with nothing lost or withheld a FINISH is     *)
(* only ever seen after the RUNNING of the same print, and a PREPARE only   *)
(* when the print before it has been seen to end.                           *)
Edge(old, new) ==
  /\ new.state = "FINISH" => old.state = "RUNNING" /\ new.job = old.job
  /\ new.state = "PREPARE" => old.state \notin Busy

EdgesAreSeen ==
  [][ drops = 0 /\ withheld = "never" /\ latest # Nothing /\ latest'.state # latest.state
        => Edge(latest, latest') ]_latest

(* state-log.ts:11: the trail tells each change of the state the rest of    *)
(* the program is told, whatever partial reports come between.              *)
TrailTellsStates ==
  [][ latest' # latest =>
        \/ latest # Nothing /\ latest'.state = latest.state
        \/ prev' # prev /\ prev'.state = latest'.state ]_latest

(* A print ends, and its end is noticed however the connection fails, if    *)
(* nobody starts another or resets the printer.                             *)
EndIsNoticed ==
  printer.state = "RUNNING" ~>
    \/ latest # Nothing /\ latest.state \notin Busy
    \/ withheld = "now"

=============================================================================
