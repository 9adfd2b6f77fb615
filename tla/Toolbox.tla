------------------------------ MODULE Toolbox -------------------------------
(***************************************************************************)
(* The computations the rest of the system calls, each run once on one of  *)
(* its inputs: decoding paint, building a preview, sealing an archive,     *)
(* writing a motion program, calibrating, timing, estimating, throttling,  *)
(* logging, switching filament, comparing colours.  A behaviour picks a    *)
(* computation and an input and takes its step; the properties compare the *)
(* result with what it is for.                                             *)
(***************************************************************************)
EXTENDS PlateMesh, SlicedArchive, Timing, LogFiles, Filaments

CONSTANTS NotYet,                                   \* no result so far
          PaintInputs, MeshInputs, ArchiveInputs, ProgramInputs,
          CalibrationInputs, TimerInputs, EtaInputs, ThrottleInputs,
          LogInputs, RunoutInputs, ColourInputs

VARIABLES task, input, result

vars == <<task, input, result>>

Init ==
  /\ result = NotYet
  /\ \/ task = "paint" /\ input \in PaintInputs
     \/ task = "mesh" /\ input \in MeshInputs
     \/ task = "archive" /\ input \in ArchiveInputs
     \/ task = "program" /\ input \in ProgramInputs
     \/ task = "calibration" /\ input \in CalibrationInputs
     \/ task = "timer" /\ input \in TimerInputs
     \/ task = "eta" /\ input \in EtaInputs
     \/ task = "throttle" /\ input \in ThrottleInputs
     \/ task = "log" /\ input \in LogInputs
     \/ task = "runout" /\ input \in RunoutInputs
     \/ task = "colour" /\ input \in ColourInputs

\* The computation of that name is taken, once.
Take(name) == task = name /\ result = NotYet /\ UNCHANGED <<task, input>>

Paint ==
  /\ Take("paint")
  /\ result' = DecodePaintColor(input.tri, Reverse(EncodeTree(input.tree)), input.base)

Mesh ==
  /\ Take("mesh")
  /\ result' = [plate |-> ExtractPlateMesh(input.arc, input.plate), all |-> ExtractMesh(input.arc)]

\* What throws on an archive that is missing or cannot be unzipped is None.
Unzipped(value) == IF input.files \in {Missing, Corrupt} THEN None ELSE value

Archive ==
  /\ Take("archive")
  /\ result' = [kind    |-> ReadCachedPreviewKind(input.files),
                preview |-> ReadCachedPreviewPlates(input.files),
                plates  |-> ReadCachedPlates(input.files),
                picture |-> Unzipped(ExtractThumbnail(input.files)),
                renders |-> [n \in {1, 2} |-> Unzipped(ExtractPlateThumbnail(input.files, n))],
                palette |-> Unzipped(ExtractFilaments(input.files)),
                sealed  |-> Unzipped(InjectIntoThreemf(input.files, input.plate, input.snippet))]

Program ==
  /\ Take("program")
  /\ result' = [dry     |-> BuildDryRehearsalGcode(input.bounds, input.opts),
                eject   |-> BuildEjectThreemf(input.opts.swapSequence, input.opts.swapVars),
                started |-> InjectStartSequence(input.print, input.opts.swapSequence)]

Calibrate == Take("calibration") /\ result' = CalibrationRun(input.pairs, input.setting, 3)

Time == Take("timer") /\ result' = DurationMs(FoldLeft(OnState, NewTimer, input))

\* running holds the plate that prints, if any: the minutes the printer tells, and
\* the seconds it was estimated to take.
Estimate ==
  /\ Take("eta")
  /\ LET minutes == [i \in DOMAIN input.running |-> input.running[i].minutes]
         slices  == [i \in DOMAIN input.running |-> input.running[i].estimated]
     IN result' = [eta |-> CalcEta(input.now, input.swap, minutes, input.queued),
                   project |-> ProjectRemainingSec(slices \o input.queued)]

Throttle ==
  /\ Take("throttle")
  /\ result' = ThrottleUploadProgress(input.samples, input.total, input.interval)

Log ==
  /\ Take("log")
  /\ LET files == Written(input.writes).files
     IN result' = [days |-> DOMAIN files, tail |-> ReadLogTail(files, input.limit)]

Runout ==
  /\ Take("runout")
  /\ result' = OnRunout(input.override, input.setting, input.slot, input.trays, input.min)

Colours ==
  /\ Take("colour")
  /\ result' = [same    |-> SameColor(input.a, input.b),
                matches |-> AmsMatches({[slot |-> 0, color |-> input.a, type |-> "PLA"]},
                                       {[slot |-> input.slot, color |-> input.b, type |-> input.type]}),
                mapping |-> ParseAmsMapping(input.mapping)]

Next ==
  \/ Paint
  \/ Mesh
  \/ Archive
  \/ Program
  \/ Calibrate
  \/ Time
  \/ Estimate
  \/ Throttle
  \/ Log
  \/ Runout
  \/ Colours

Spec == Init /\ [][Next]_vars

Done(name) == task = name /\ result # NotYet

Total(seq) == FoldLeft(LAMBDA a, b : a + b, 0, seq)
-----------------------------------------------------------------------------
\* A preview's buffers agree with each other whatever was skipped, decoded or taken
\* back on the way: every index is one of a vertex, the groups follow each other
\* without a gap and are never empty, a filament list is as long as the triangle
\* list, and the bounds touch the geometry (pushMesh, assembleScene, computeBbox).
IndicesInRange(m) ==
  \A t \in Range(m.indices) : Range(t) \subseteq 0..(Len(m.positions) - 1)

PreviewIsSound(m) ==
  /\ IndicesInRange(m)
  /\ \A g \in DOMAIN m.groups :
       /\ m.groups[g].count > 0
       /\ m.groups[g].start = IF g = 1 THEN 0 ELSE m.groups[g - 1].start + m.groups[g - 1].count
  /\ Total([g \in DOMAIN m.groups |-> m.groups[g].count]) = Len(m.indices)
  /\ m.triExtruder # <<>> => Len(m.triExtruder[1]) = Len(m.indices)
  /\ \A i \in 1..2 : /\ \A p \in Range(m.positions) : p[i] \in m.bbox.min[i]..m.bbox.max[i]
                     /\ {m.bbox.min[i], m.bbox.max[i]} \subseteq {p[i] : p \in Range(m.positions)}

MeshIsSound ==
  Done("mesh") => /\ \A m \in Range(result.plate) : PreviewIsSound(m)
                  /\ \A m \in Range(result.all) : IndicesInRange(m.buf)

\* The preview shows what prints: each group holds exactly the triangles of its
\* object under the composed transform, component first and placement second; with
\* painting, parts of them of the same total area; and a plate that is found shows
\* no object of another one (extractPlateMesh, pushMesh's transform order).
GroupTriangles(m, g) == [n \in 1..g.count |-> CornersOf(m, g.start + n)]

ReferenceTriangles(arc, oid) ==
  LET root == ParseRootModel(arc)
  IN ObjectTriangles(arc, Get(root.resources, oid), GetOr(root.build, oid, Unread))

AreaOf(tris) == Total([n \in DOMAIN tris |-> Area2(tris[n])])

PlacedAsBuilt ==
  Done("mesh") =>
    \A m \in Range(result.plate) :
      /\ \A g \in Range(m.groups) :
           LET drawn == GroupTriangles(m, g)
               built == ReferenceTriangles(input.arc, g.objectId)
           IN IF m.triExtruder = <<>> THEN drawn = built
              ELSE /\ AreaOf(drawn) = AreaOf(built)
                   /\ \A d \in Range(drawn) : \E b \in Range(built) : \A i \in 1..3 : Reaches(b, d[i])
      /\ \A p \in Range(input.arc.settings.plates) :
           p[1] = input.plate /\ input.plate # Unread /\ p[2] # <<>>
             => {g.objectId : g \in Range(m.groups)} \subseteq Range(p[2])

\* Decoding what a slicer wrote gives the tree back: the leaves' filaments in
\* order, the largest state, and a string that is one digit too short or too long
\* is told from a whole one (decodePaintColor; states from 18 on need two digits
\* more, and a tree below the depth cap is drawn in its first leaf's colour).
PaintRoundTrips ==
  Done("paint") =>
    LET code   == EncodeTree(input.tree)
        leaves == LeavesOf(input.tree)
        drawn  == DrawnStates(input.tree, 0)
        Whole(c) == DecodePaintColor(input.tri, Reverse(c), input.base).ok
    IN /\ result.ok
       /\ result.leaves = Len(leaves)
       /\ result.maxState = Max(Range(leaves))
       /\ [n \in DOMAIN result.emitted |-> result.emitted[n].ext]
            = [n \in DOMAIN drawn |-> IF drawn[n] = 0 THEN input.base ELSE drawn[n]]
       /\ ~Whole(Front(code))
       /\ ~Whole(Append(code, 0))

\* The sub-triangles tile the triangle and are wound as it is: none is turned
\* over, no point is covered twice, and together they have its area
\* (computeChildren's vertex order, for every side a cut may start from).
PaintTiles ==
  Done("paint") =>
    LET subs == [n \in DOMAIN result.emitted |-> result.emitted[n].tri]
    IN /\ \A t \in Range(subs) : Area2(t) > 0
       /\ AreaOf(subs) = Area2(input.tri)
       /\ \A p \in input.probes : Cardinality({n \in DOMAIN subs : Covers(subs[n], p)}) <= 1

\* The archive that is sent prints what was sliced and then swaps, and the printer
\* accepts it: the sum is the one of the program as sent, every other entry is as
\* it was, the print comes first and whole, no placeholder the header knows is
\* left, and with no plate asked for it is the one of the smallest number
\* (injectIntoThreemf; INV-INJECT-01 to 04).
SealedInjection ==
  Done("archive") /\ result.sealed # None =>
    LET sent  == result.sealed
        gcode == Entry(sent.files, sent.param)
        print == Entry(input.files, sent.param)
        sum   == [sent.param EXCEPT !.kind = "plate_N.gcode.md5"]
        vars0 == DOMAIN ParseHeaderVars(print)
        tail  == SubSeq(gcode, Len(TrimEnd(print)) + 1, Len(gcode))
    IN /\ Entry(sent.files, sum) = GcodeMd5(gcode) /\ sent.md5 = GcodeMd5(gcode)
       /\ \A e \in Range(input.files) :
            e.name \notin {sent.param, sum} => Entry(sent.files, e.name) = e.data
       /\ {e.name : e \in Range(sent.files)} = {e.name : e \in Range(input.files)} \cup {sent.param, sum}
       /\ IsPrefix(TrimEnd(print), gcode)
       /\ \A l \in Range(tail) : \A a \in Range(l.args) : ~(a[1] = "key" /\ a[2] \in vars0)
       /\ input.plate = None =>
            \A n \in Range(Names(input.files)) : n.kind = "plate_N.gcode" => sent.param.n <= n.n

\* The pages agree on what an archive holds: a preview drawn from G-code offers the
\* plates the printing dialog offers, where there is nothing to draw no plate is
\* offered, a plate previewed as printable can be chosen for printing, and the
\* plates stand in order (listPlates, listPreviewPlates and previewKind read the
\* same archive three times by different rules).
PagesAgree ==
  Done("archive") =>
    /\ result.kind = "gcode" => result.preview # <<>> /\ result.preview = result.plates
    /\ result.kind = "thumb" => result.preview = <<>>
    /\ \A i, j \in DOMAIN result.preview :
         i < j => result.preview[i].plate <= result.preview[j].plate
    /\ (\E p \in Range(result.preview) : p.printable) => result.plates # <<>>

\* A program that runs without a print never leaves the safe volume outside the
\* swap, homes before it moves, switches the motors off last, swaps after its own
\* motion only, and sweeps each axis for the time asked for and not a turn longer
\* (buildDryRehearsalGcode, buildEjectGcode; INV-DRY-04); the start sequence
\* leaves the print whole (injectStartSequence).
Framed(p) == /\ SubSeq(p, 1, 2) = <<Line("G28"), Line("G90")>>
             /\ p[Len(p)] = Line("M84")

OwnPart(p) ==
  SubSeq(p, 1, Min({i \in DOMAIN p : p[i] = DRY_SWAP_BEGIN} \cup {Len(p)}) - 1)

SweepsLongEnough(own, axis) ==
  LET sweeps == SelectSeq(own, LAMBDA l : l.word = "G1" /\ Len(l.args) = 2 /\ l.args[1][1] = axis)
      n      == Len(sweeps)
      time(k) == 600 * k * Distance(sweeps[1].args[1][2], sweeps[2].args[1][2])
      asked  == input.opts.sweepDurationMs * input.opts.feedrate
  IN input.opts.feedrate > 0 =>
       /\ time(n) >= asked \/ time(n) = 0
       /\ n > 2 => time(n - 2) < asked

ProgramsAreSafe ==
  Done("program") =>
    LET own   == OwnPart(result.dry)
        block == Text(Trim(input.opts.swapSequence))
        text  == result.started.text
    IN /\ Framed(result.dry) /\ Framed(result.eject[1].data)
       /\ result.eject[2].data = GcodeMd5(result.eject[1].data)
       /\ \A l \in Range(own) : l.word \in {"G28", "G90", "G1", ";LAYER_CHANGE"}
       /\ \A l \in Range(own) : \A a \in Range(l.args) :
            a[1] # "F" => a[2] \in input.bounds[a[1]].min..input.bounds[a[1]].max
       /\ \A axis \in {"X", "Y", "Z"} : SweepsLongEnough(own, axis)
       /\ \E k \in 0..Len(input.print) :
            /\ SubSeq(text, 1, k) \o SubSeq(text, k + Len(block) + 1, Len(text)) = input.print
            /\ Contains(input.print, MACHINE_START_MARKER) => k > 0 /\ text[k] = MACHINE_START_MARKER

\* A calibration never writes a zero and keeps what is stored when no pair of runs
\* is usable (INV-DRY-06), and the minority cannot drag the result: whenever most
\* of the positive samples lie between two values, what is written is between them
\* or nearer to them than they are to each other (calibrateSwapDuration,
\* CalibrationRunner.run).
CalibrationHolds ==
  Done("calibration") =>
    LET positive == SelectSeq(result.samples, LAMBDA x : x > 0)
        Within(a, b) == {i \in DOMAIN positive : positive[i] \in a..b}
    IN /\ result.updated = NoTime <=> positive = <<>>
       /\ result.updated = NoTime => result.swapDurationMs = input.setting
       /\ result.updated # NoTime => result.swapDurationMs = result.updated /\ result.updated > 0
       /\ \A a, b \in Range(positive) :
            2 * Cardinality(Within(a, b)) > Len(positive)
              => result.updated \in (2 * a - b)..(2 * b - a)

\* A duration is that of one clean run: from the first RUNNING to the first FINISH
\* after it, and there is none when anything failed since (RunTimer; a FINISH that
\* was there before the run, and what follows it, do not count).
TimerTellsTheRun ==
  Done("timer") =>
    LET At0(state, from) == {i \in DOMAIN input : i > from /\ input[i].state = state}
        begun == At0("RUNNING", 0)
        ended == At0("FINISH", Min(begun))
        clean == begun # {} /\ ended # {} /\ At0("FAILED", Min(begun)) = {}
    IN result = IF clean THEN input[Min(ended)].at - input[Min(begun)].at ELSE NoTime

\* Estimates add up (calcEta, projectRemainingSec): the plates are done in order,
\* each its own time and a swap after the one before, and one more swap ends the
\* queue.  With the printer on schedule, the page's seconds lead to the end of the
\* last plate, but for the difference between SWAP_SEC and the calibrated swap,
\* once for every swap between two plates.
EtaAddsUp ==
  Done("eta") =>
    LET own == [i \in DOMAIN input.running |-> 60000 * input.running[i].minutes]
               \o [i \in DOMAIN input.queued |->
                      IF input.queued[i] = NoTime THEN 0 ELSE 1000 * input.queued[i]]
        n        == Len(own)
        on       == result.eta.plateEtas
        onTime   == \A i \in DOMAIN input.running :
                      input.running[i].estimated = 60 * input.running[i].minutes
    IN /\ Len(on) = n
       /\ n > 0 => /\ on[1] = input.now + own[1]
                   /\ result.eta.projectEta = on[n] + input.swap
       /\ \A i \in 2..n : on[i] - on[i - 1] = input.swap + own[i]
       /\ n = 0 => result.eta.projectEta = input.now /\ result.project = 0
       /\ n > 0 /\ onTime =>
            1000 * result.project + (n - 1) * (input.swap - 60000) = on[n] - input.now

\* The progress bar starts, ends and never stalls: the first sample and every
\* complete one are sent, those between are an interval apart, and one is held
\* back only when another went out less than an interval before
\* (throttleUploadProgress).
ProgressIsPaced ==
  Done("throttle") =>
    LET sent == Range(result)
        Complete(p) == p.bytes >= input.total
    IN /\ sent \subseteq Range(input.samples)
       /\ input.samples # <<>> => Head(input.samples) \in sent
       /\ \A p \in Range(input.samples) :
            p \notin sent => /\ ~Complete(p)
                             /\ \E q \in sent : q.at <= p.at /\ p.at - q.at < input.interval
       /\ \A i \in 2..Len(result) :
            Complete(result[i]) \/ result[i].at - result[i - 1].at >= input.interval

\* The tail tells the newest of what can be read, newest first: never a record cut
\* short or glued to one, none out of order, in a day's file no gap, and, where the
\* files fit the window, none left out (readLogTail over what RotatingFileSink and
\* a crash leave).
LogTailIsNewest ==
  Done("log") =>
    LET tail     == result.tail
        readable == Readable(input.writes)
        files    == Written(input.writes).files
        near     == Range(SubSeq(DatedFiles(files), 1, Min({Cardinality(DOMAIN files), MaxFiles})))
        sought   == Reverse(SetToSortSeq({n \in readable : input.writes[n].day \in near}, <))
        DayOf(n) == input.writes[n].day
    IN /\ Range(tail) \subseteq readable
       /\ \A i \in 2..Len(tail) : tail[i] < tail[i - 1]
       /\ \A r \in Range(tail), q \in readable :
            DayOf(q) = DayOf(r) /\ q > r => q \in Range(tail)
       /\ (\A d \in near : Len(files[d]) <= MaxBytes) =>
            tail = SubSeq(sought, 1, Min({Len(sought), input.limit}))

\* Pruning deletes what is older than the window and nothing else, however the
\* writes and the restarts fall (RotatingFileSink.prune).
RetentionIsExact ==
  Done("log") =>
    LET today == input.writes[Len(input.writes)].day
    IN result.days = {d \in {w.day : w \in Range(input.writes)} :
                        RetentionDays = 0 \/ today - d <= RetentionDays}

\* A switch lands on what may stand in: another slot of the same material with more
\* than the threshold left, of the same colour unless the policy allows another,
\* and then the fullest; a substitution is recorded exactly when the colour really
\* is another one, in whatever notation it was reported; and a human is asked only
\* when the policy says so or nothing may stand in (resolveRunout, onRunout).
RunoutPicksTheRightTray ==
  Done("runout") =>
    LET policy   == EffectivePolicy(input.override, input.setting)
        trays    == Range(input.trays)
        emptied  == {t \in trays : t.slot = input.slot}
        standIns == {t \in trays : /\ t.slot # input.slot /\ t.remaining_g > input.min
                                   /\ \E e \in emptied : /\ t.type = e.type
                                                         /\ policy = "same_color_only" => t.rgb = e.rgb}
    IN /\ result.pending <=> policy = "manual" \/ standIns = {}
       /\ result.pending <=> result.resumed = Null
       /\ ~result.pending =>
            \E t \in standIns, e \in emptied :
              /\ result.resumed = t.slot
              /\ result.recorded = IF t.rgb = e.rgb THEN Null ELSE t.color
              /\ policy = "allow_material_match" => \A u \in standIns : u.remaining_g <= t.remaining_g

\* Two notations are the same exactly when they are of one colour, so a tray
\* matches when slot, material and colour do, and a stored mapping prints with its
\* four slots or not at all (normalizeColor, amsMatches, parseAmsMapping;
\* INV-MQTT-01).
ColoursCompare ==
  Done("colour") =>
    /\ result.same <=> input.rgbA = input.rgbB
    /\ result.matches <=> /\ input.rgbA = input.rgbB
                          /\ input.slot = 0
                          /\ input.type = "PLA"
    /\ result.mapping # Null =>
         /\ Len(result.mapping) = 4
         /\ \A m \in Range(result.mapping) : m = -1 \/ m \in 0..3
         /\ input.mapping # NoMapping => result.mapping = input.mapping

\* A painted triangle is decoded as it was written and drawn all over.
PaintIsFaithful == PaintRoundTrips /\ PaintTiles

\* The preview can be drawn, and shows what prints.
PreviewShowsThePlate == MeshIsSound /\ PlacedAsBuilt

\* What is sent prints and swaps, and the pages agree on what there is to send.
ArchivesPrint == SealedInjection /\ PagesAgree

\* Times are measured, calibrated, added up and passed on without a turn, an
\* outlier, a swap or a last sample too many or too few.
TimesAreRight == CalibrationHolds /\ TimerTellsTheRun /\ EtaAddsUp /\ ProgressIsPaced

\* The logs hold what they should and tell it newest first.
LogsKeepTheNewest == LogTailIsNewest /\ RetentionIsExact

\* One colour is one colour in every notation, also when a tray takes over.
FilamentsMatch == RunoutPicksTheRightTray /\ ColoursCompare
=============================================================================
