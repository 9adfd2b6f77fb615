--------------------------- MODULE GcodePrograms ----------------------------
(***************************************************************************)
(* core/gcode-inject.ts, core/eject-gcode.ts, core/dry-gcode.ts: the       *)
(* programs this system writes for the printer.                            *)
(*                                                                         *)
(* A program is a sequence of lines, a line its word and its arguments:    *)
(* pairs of an axis and a coordinate for a move, <<"key", k>> for a        *)
(* placeholder {k}, <<"val", v>> for what it was replaced with.  Lengths   *)
(* are integers, in hundredths of a millimetre as toFixed(2) leaves them.  *)
(***************************************************************************)
EXTENDS Integers, SequencesExt, FiniteSetsExt

Segments == 8   \* of the figure eight; the code's default is 48

Line(word) == [word |-> word, args |-> <<>>]
Blank == Line("")

\* The lines between the first and the last that are not blank.
TrimEnd(p) == SubSeq(p, 1, Max({i \in DOMAIN p : p[i] # Blank} \cup {0}))
Trim(p) == LET q == TrimEnd(p) IN SubSeq(q, Min({i \in DOMAIN q : q[i] # Blank} \cup {1}), Len(q))

\* The empty text still is one line.
Text(p) == IF p = <<>> THEN <<Blank>> ELSE p

InjectEndSequence(gcode, snippet) == Text(TrimEnd(gcode)) \o Text(Trim(snippet))

MACHINE_START_MARKER == Line("; MACHINE_START_GCODE_END")

\* Behind the first marker, or in front of everything with a warning.
InjectStartSequence(gcode, snippet) ==
  LET marks == {i \in DOMAIN gcode : gcode[i] = MACHINE_START_MARKER}
  IN IF marks # {}
     THEN [text |-> SubSeq(gcode, 1, Min(marks)) \o Text(Trim(snippet))
                    \o SubSeq(gcode, Min(marks) + 1, Len(gcode)), warnings |-> 0]
     ELSE [text |-> Text(Trim(snippet)) \o gcode, warnings |-> 1]

\* A placeholder the variables name becomes its value; any other stays and is
\* warned of.  Values are not read again.
ResolvePlaceholders(snippet, vars) ==
  LET known(a) == a[1] = "key" /\ a[2] \in DOMAIN vars
      Resolved(a) == IF known(a) THEN <<"val", vars[a[2]]>> ELSE a
      all == FlattenSeq([i \in DOMAIN snippet |-> snippet[i].args])
  IN [text |-> [i \in DOMAIN snippet |->
                  [snippet[i] EXCEPT !.args = [j \in DOMAIN @ |-> Resolved(@[j])]]],
      warnings |-> Len(SelectSeq(all, LAMBDA a : a[1] = "key" /\ ~known(a)))]

BuildEjectGcode(swapSequence, vars) ==
  <<Line("G28"), Line("G90")>>
  \o Text(Trim(ResolvePlaceholders(swapSequence, vars).text)) \o <<Line("M84")>>
-----------------------------------------------------------------------------
\* Mutant: the upper limit only.
Unclamped(v, lo, hi) == Min({hi, v})

Clamp(v, lo, hi) == Min({hi, Max({lo, v})})

Move(args, feedrate) == [word |-> "G1", args |-> Append(args, <<"F", feedrate>>)]

Repeat(n, p) == FlattenSeq([i \in 1..n |-> p])

\* There and back as often as the duration takes: a millimetre takes 60000 /
\* feedrate milliseconds.  A range of no length is swept once.
AxisSweep(axis, durationMs, amplitude, feedrate, bounds) ==
  LET center == (bounds.min + bounds.max) \div 2
      lo     == Clamp(center - amplitude \div 2, bounds.min, bounds.max)
      hi     == Clamp(center + amplitude \div 2, bounds.min, bounds.max)
      both   == 1200 * (hi - lo)
      reps   == IF both = 0 \/ feedrate = 0 THEN 1
                ELSE Max({1, (durationMs * feedrate + both - 1) \div both})
  IN Repeat(reps, <<Move(<< <<axis, hi>> >>, feedrate), Move(<< <<axis, lo>> >>, feedrate)>>)

\* Thousandths of the sine of i eighths of a turn, and of the cosine.
Sine(i) == <<0, 707, 1000, 707, 0, -707, -1000, -707>>[(i % 8) + 1]
Cosine(i) == Sine(i + 2)

FigureEightDance(centerX, centerY, z, amplitude, feedrate, bounds) ==
  LET X(i) == Clamp(centerX + (amplitude * Sine(i)) \div 1000, bounds.X.min, bounds.X.max)
      Y(i) == Clamp(centerY + (amplitude * ((Sine(i) * Cosine(i)) \div 1000)) \div 1000,
                    bounds.Y.min, bounds.Y.max)
      zc   == Clamp(z, bounds.Z.min, bounds.Z.max)
  IN [i \in 1..(Segments + 1) |->
        Move(<< <<"X", X(i - 1)>>, <<"Y", Y(i - 1)>>, <<"Z", zc>> >>, feedrate)]

BuildAxisLayer(axis, bounds, opts) ==
  LET Center(b) == (b.min + b.max) \div 2
      danceZ == IF axis = "Z" THEN bounds.Z.max \div 2 ELSE bounds.Z.min + 1000
      amp    == Min({5000, bounds[axis].max - bounds[axis].min})
  IN <<Line(";LAYER_CHANGE")>>
     \o AxisSweep(axis, opts.sweepDurationMs, amp, opts.feedrate, bounds[axis])
     \o FigureEightDance(Center(bounds.X), Center(bounds.Y), danceZ, opts.danceAmplitude,
                         opts.feedrate, bounds)

DRY_SWAP_BEGIN == Line("; DRY_SWAP_BEGIN 1")
DRY_SWAP_END == Line("; DRY_SWAP_END 1")

\* An empty swap sequence is none at all.
BuildDryRehearsalGcode(bounds, opts) ==
  LET swap == ResolvePlaceholders(opts.swapSequence, opts.swapVars).text
  IN <<Line("G28"), Line("G90")>>
     \o BuildAxisLayer("X", bounds, opts)
     \o BuildAxisLayer("Y", bounds, opts)
     \o BuildAxisLayer("Z", bounds, opts)
     \o (IF opts.swapSequence = <<>> THEN <<>>
         ELSE <<DRY_SWAP_BEGIN>> \o Text(Trim(swap)) \o <<DRY_SWAP_END>>)
     \o <<Line("M84")>>
=============================================================================
