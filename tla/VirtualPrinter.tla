--------------------------- MODULE VirtualPrinter ---------------------------
(***************************************************************************)
(* The printer stub's state machine (src/src/stub/virtual-printer.ts) as   *)
(* functions of its state.  A handler's result is the printer it leaves    *)
(* and the reports it emitted on the way, oldest first.                    *)
(***************************************************************************)
EXTENDS Integers, Sequences

CONSTANTS
  Slots,         \* AMS slots
  FullSpool,     \* fullSpoolGrams
  Categories,    \* of injected faults: "swap" and "printer"
  SimMinutes     \* totalMinutes of a print nobody changed

ASSUME PrinterAssumption ==
  Slots \subseteq 0..3 /\ FullSpool \in Nat \ {0} /\ SimMinutes \in Nat \ {0}

NoJob == "no_job"
NoName == ""
NoFault == <<"none", "none">>
NoError == "none"

States == {"IDLE", "PREPARE", "RUNNING", "FINISH", "FAILED"}
Busy == {"RUNNING", "PREPARE"}
Faults == Categories \X {"next_print", "FINISH"}

InitialPrinter(grams) ==
  [state |-> "IDLE", job |-> NoJob, minutes |-> 1, remaining |-> 0, percent |-> 0,
   layer |-> 0, layers |-> 0, mapping |-> <<>>, hms |-> NoError,
   grams |-> grams, fault |-> NoFault, suppressed |-> FALSE]

-----------------------------------------------------------------------------

Rounded(n, d) == (2 * n + d) \div (2 * d)
Least(a, b) == IF a < b THEN a ELSE b
Most(a, b) == IF a > b THEN a ELSE b

(* A spool shows 0..100 per cent; -1 is an empty slot of no type.           *)
RemainPercent(g) == IF g < 0 THEN -1 ELSE Least(100, Rounded(100 * g, FullSpool))

(* The slot the mapping loads first, 255 for none.                          *)
ActiveTray(p) ==
  LET used == {i \in DOMAIN p.mapping : p.mapping[i] >= 0}
  IN  IF p.job = NoJob \/ used = {} THEN 255
      ELSE p.mapping[CHOOSE i \in used : \A k \in used : i <= k]

BuildReport(p) ==
  [state |-> p.state, job |-> p.job, remaining |-> p.remaining, percent |-> p.percent,
   layer |-> p.layer, layers |-> p.layers, hms |-> p.hms,
   remain |-> [s \in Slots |-> RemainPercent(p.grams[s])],
   exist |-> {s \in Slots : p.grams[s] > 0}, tray |-> ActiveTray(p)]

(* The printer is left as p and publishes what it is at each of moments.    *)
Told(p, moments) ==
  [printer |-> p,
   reports |-> IF p.suppressed THEN <<>>
               ELSE [i \in DOMAIN moments |-> BuildReport(moments[i])]]

Quiet(p) == [printer |-> p, reports |-> <<>>]
Publish(p) == Told(p, <<p>>)

-----------------------------------------------------------------------------

Failed(p, code) == [p EXCEPT !.hms = code, !.remaining = 0, !.state = "FAILED"]

(* FAILED is published by the transition and once more.                     *)
ForceFail(p, code) == LET q == Failed(p, code) IN Told(q, <<q, q>>)

FaultCode(category) == IF category = "swap" THEN "SWAP_FAULT" ELSE "PRINTER_FAULT"

(* Mutant: a busy printer takes the next file.                              *)
Misshapen(p, cmd) == Len(cmd.mapping) # 4

(* Refused while printing, and for a mapping of the wrong length.           *)
Rejected(p, cmd) == p.state \in Busy \/ Len(cmd.mapping) # 4

Loaded(p, cmd) ==
  [p EXCEPT !.job = IF cmd.file = NoName THEN cmd.param ELSE cmd.file,
            !.mapping = cmd.mapping, !.minutes = SimMinutes, !.hms = NoError,
            !.suppressed = FALSE, !.state = "PREPARE"]

Heated(p) ==
  [p EXCEPT !.remaining = SimMinutes, !.layers = SimMinutes, !.layer = 0, !.percent = 0,
            !.state = "RUNNING"]

(* receiveProjectFile: PREPARE, RUNNING, and a pending fault strikes.       *)
ReceiveProjectFile(p, cmd) ==
  LET prepare == Loaded(p, cmd)
      running == Heated(prepare)
      failed == Failed([running EXCEPT !.fault = NoFault], FaultCode(p.fault[1]))
  IN  CASE Rejected(p, cmd) -> Quiet(p)
        [] ~Rejected(p, cmd) /\ p.fault[2] = "next_print" ->
             Told(failed, <<prepare, running, failed, failed>>)
        [] OTHER -> Told(running, <<prepare, running>>)

(* stop: a printer that is not running ignores it (it never pauses here).   *)
Stopped(p) == IF p.state = "RUNNING" THEN ForceFail(p, "PRINTER_FAULT") ELSE Quiet(p)

ResetPrinter(p) ==
  Publish([InitialPrinter(p.grams) EXCEPT !.fault = p.fault])

-----------------------------------------------------------------------------

(* handleFinish: the report of this one transition may be withheld; from    *)
(* then on every report is, until the flag is lifted.                       *)
Withholds(p) == p.fault[2] = "FINISH"

HandleFinish(p) ==
  LET done == [p EXCEPT !.state = "FINISH", !.percent = 100, !.remaining = 0]
  IN  IF Withholds(p) THEN Quiet([done EXCEPT !.fault = NoFault, !.suppressed = TRUE])
      ELSE Publish(done)

Ticked(p) ==
  LET left == Most(0, p.remaining - 1)
      elapsed == p.minutes - left
      q == [p EXCEPT !.remaining = left, !.layer = Least(p.layers, elapsed),
                     !.percent = Least(100, Rounded(100 * elapsed, p.minutes))]
  IN  IF left = 0 THEN HandleFinish(q) ELSE Publish(q)

ForceFinish(p) ==
  IF p.state \in Busy
  THEN HandleFinish([p EXCEPT !.remaining = 0, !.percent = 100, !.layer = p.layers])
  ELSE Quiet(p)

SetAms(p, slot, grams) == Publish([p EXCEPT !.grams[slot] = grams])

(* setPrintMinutes reports nothing.                                         *)
SetPrintMinutes(p, minutes) ==
  IF p.job = NoJob THEN p
  ELSE [p EXCEPT !.minutes = minutes, !.layers = minutes,
                 !.remaining = IF p.state = "RUNNING" THEN minutes ELSE p.remaining]

(* injectFault with timing "now", or one that waits for its moment.         *)
FaultNow(p, category) ==
  IF p.state \in Busy THEN ForceFail(p, FaultCode(category))
  ELSE Publish([p EXCEPT !.hms = FaultCode(category)])

(* Mutant: the poll leaves the suppression on.                              *)
PolledOnce(p) == [printer |-> p, reports |-> <<BuildReport(p)>>]

(* pushAll always tells, and lifts the suppression.                         *)
PushAll(p) == Publish([p EXCEPT !.suppressed = FALSE])

=============================================================================
