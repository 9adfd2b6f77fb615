------------------------------- MODULE Timing -------------------------------
(***************************************************************************)
(* core/calibration.ts, core/eta.ts, orchestrator/upload-progress-throttle *)
(* .ts: what is measured, estimated and told of time.                      *)
(*                                                                         *)
(* Times are integers.  The median of an even number of samples is a half, *)
(* so medians are kept doubled, and those of their deviations four times.  *)
(***************************************************************************)
EXTENDS Integers, SequencesExt, FiniteSetsExt

CONSTANTS NoTime   \* null: no duration, no estimate, nothing stored

ASSUME NoTimeAssumption == NoTime \notin Int

SwapSampleMs(withSwap, withoutSwap) == Max({0, withSwap - withoutSwap})

\* Twice the median.
Median2(xs) ==
  LET s == SortSeq(xs, <)
      n == Len(s)
  IN IF n = 0 THEN 0
     ELSE IF n % 2 = 1 THEN 2 * s[(n + 1) \div 2] ELSE s[n \div 2] + s[n \div 2 + 1]

Distance(a, b) == IF a < b THEN b - a ELSE a - b

\* Samples further than madK median deviations from the median are left out.
CalibrateSwapDuration(samples, madK) ==
  LET positive == SelectSeq(samples, LAMBDA s : s > 0)
      med2     == Median2(positive)
      mad4     == Median2([i \in DOMAIN positive |-> Distance(2 * positive[i], med2)])
      near     == SelectSeq(positive, LAMBDA s : 2 * Distance(2 * s, med2) <= madK * mad4)
      kept     == IF mad4 > 0 /\ near # <<>> THEN near ELSE positive
  IN IF positive = <<>> THEN NoTime ELSE (Median2(kept) + 1) \div 2

\* CalibrationRunner.run: a pair counts when both of its runs could be timed, and
\* the setting is written only when a value came of it.
CalibrationRun(pairs, setting, madK) ==
  LET timed   == SelectSeq(pairs, LAMBDA p : p.base # NoTime /\ p.swap # NoTime)
      samples == [i \in DOMAIN timed |-> SwapSampleMs(timed[i].swap, timed[i].base)]
      updated == CalibrateSwapDuration(samples, madK)
  IN [samples |-> samples, updated |-> updated,
      swapDurationMs |-> IF updated = NoTime THEN setting ELSE updated]
-----------------------------------------------------------------------------
\* RunTimer: the first RUNNING starts it, the first FINISH after that ends it,
\* and a FAILED after the start voids it for good.
NewTimer == [startMs |-> NoTime, endMs |-> NoTime, failed |-> FALSE]

\* Mutant: a later FINISH ends the run again, and a retained one before it counts.
OnLatestState(timer, e) ==
  CASE e.state = "RUNNING" /\ timer.startMs = NoTime -> [timer EXCEPT !.startMs = e.at]
    [] e.state = "FINISH" -> [timer EXCEPT !.endMs = e.at]
    [] e.state = "FAILED" /\ timer.startMs # NoTime -> [timer EXCEPT !.failed = TRUE]
    [] OTHER -> timer

OnState(timer, e) ==
  CASE e.state = "RUNNING" /\ timer.startMs = NoTime -> [timer EXCEPT !.startMs = e.at]
    [] e.state = "FINISH" /\ timer.startMs # NoTime /\ timer.endMs = NoTime ->
         [timer EXCEPT !.endMs = e.at]
    [] e.state = "FAILED" /\ timer.startMs # NoTime -> [timer EXCEPT !.failed = TRUE]
    [] OTHER -> timer

DurationMs(timer) ==
  IF timer.failed \/ timer.startMs = NoTime \/ timer.endMs = NoTime THEN NoTime
  ELSE timer.endMs - timer.startMs
-----------------------------------------------------------------------------
SecondMs == 1000
MinuteMs == 60 * SecondMs

Known(seconds) == IF seconds = NoTime THEN 0 ELSE seconds

\* calcEta: a cursor goes through the running plate, by the printer's own minutes,
\* and the queued ones, by their estimates in seconds, and a swap follows each.
\* running is a sequence of at most one number of minutes.
CalcEta(now, swapDurationMs, running, queued) ==
  LET ms == [i \in DOMAIN running |-> running[i] * MinuteMs]
            \o [i \in DOMAIN queued |-> Known(queued[i]) * SecondMs]
      Plate(acc, t) == [cursor |-> acc.cursor + t + swapDurationMs,
                        etas |-> Append(acc.etas, acc.cursor + t)]
      all == FoldLeft(Plate, [cursor |-> now, etas |-> <<>>], ms)
  IN [projectEta |-> all.cursor, plateEtas |-> all.etas]

\* A coarse constant, whatever calibration has measured.
SWAP_SEC == 60

\* projectRemainingSec: an unknown estimate counts nothing, and no swap follows
\* the last plate.
ProjectRemainingSec(estimates) ==
  IF estimates = <<>> THEN 0
  ELSE FoldLeft(LAMBDA a, b : a + b, 0, [i \in DOMAIN estimates |-> Known(estimates[i])])
       + (Len(estimates) - 1) * SWAP_SEC
-----------------------------------------------------------------------------
\* shouldEmitUploadProgress: the first sample, the complete one, and any after
\* the interval.
ShouldEmitUploadProgress(now, lastSentAt, bytesSent, totalBytes, interval) ==
  \/ lastSentAt = NoTime
  \/ bytesSent >= totalBytes
  \/ now - lastSentAt >= interval

\* throttleUploadProgress: only what is sent moves the mark.
Throttled(throttle, p, totalBytes, interval) ==
  IF ShouldEmitUploadProgress(p.at, throttle.lastSentAt, p.bytes, totalBytes, interval)
  THEN [lastSentAt |-> p.at, sent |-> Append(throttle.sent, p)]
  ELSE throttle

ThrottleUploadProgress(samples, totalBytes, interval) ==
  FoldLeft(LAMBDA t, p : Throttled(t, p, totalBytes, interval),
           [lastSentAt |-> NoTime, sent |-> <<>>], samples).sent
=============================================================================
