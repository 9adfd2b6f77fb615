----------------------------- MODULE MCToolbox ------------------------------
(***************************************************************************)
(* The inputs Toolbox is checked on: for each computation a set small      *)
(* enough to enumerate and rich enough for every branch of it.             *)
(***************************************************************************)
EXTENDS Toolbox

Triangle == << <<0, 0>>, <<48, 0>>, <<0, 48>> >>

\* Trees of one, two and three levels; three levels are cut by the cap.  States 0,
\* 2, 17 and 18 stand on either side of the two encodings' limits.
Leaves == {Leaf(s) : s \in {0, 2, 17, 18}}
Cuts == {<<1, 0>>, <<1, 1>>, <<1, 2>>, <<2, 0>>, <<2, 1>>, <<2, 2>>, <<3, 0>>}
Over(kids) == UNION {{Split(c[1], c[2], ks) : ks \in [1..(c[1] + 1) -> kids]} : c \in Cuts}
Level1 == Over({Leaf(0), Leaf(18)})
Level2 == Over({Leaf(2), Leaf(17), Split(1, 2, <<Leaf(0), Leaf(33)>>), Split(3, 0, <<Leaf(1), Leaf(0), Leaf(2), Leaf(0)>>)})
Level3 == Over({Leaf(0), Split(2, 1, <<Leaf(0), Leaf(5), Split(1, 0, <<Leaf(3), Leaf(1)>>)>>)})

MCPaintInputs ==
  [tri : {Triangle}, tree : Leaves \cup Level1 \cup Level2 \cup Level3, base : {0, 4},
   probes : {{<<5, 3>>, <<13, 29>>, <<31, 7>>, <<17, 23>>, <<1, 41>>}}]

\* Meshes: a triangle with any paint (none, a whole string, one cut short, one that
\* is no hex), and one whose second vertex is unread and whose triangles name a
\* vertex that is not there.
Painted(hex) == [vertices |-> Triangle, triangles |-> << [v |-> <<0, 1, 2>>, paint |-> hex] >>]
Paints == {<<>>, <<8, 4, 1>>, <<0, 4, 1>>, <<4, 1>>, <<99>>}
Holed(hex) ==
  [vertices |-> << <<0, 0>>, Unread, <<16, 0>>, <<0, 16>>, <<16, 16>> >>,
   triangles |-> << [v |-> <<0, 1, 2>>, paint |-> <<>>], [v |-> <<0, Unread, 2>>, paint |-> <<>>],
                    [v |-> <<1, 3, 4>>, paint |-> <<>>], [v |-> <<1, 3, 2>>, paint |-> hex] >>]
Hollow == [vertices |-> <<>>, triangles |-> << [v |-> <<0, 0, 0>>, paint |-> <<>>] >>]

Object(id, comps, mesh) == [id |-> id, comps |-> comps, mesh |-> mesh]
Comp(path, oid, t) == [path |-> path, oid |-> oid, t |-> t]
Twice == [s |-> 2, d |-> <<8, 0>>]
Aside == [s |-> 1, d |-> <<16, 32>>]

Files(hex, other) ==
  { << [path |-> RootPath,
        objects |-> << Object(1, <<Comp("a", 7, Aside), Comp("a", 9, Twice)>>, Unread),
                       Object(2, <<Comp(Unread, 7, Aside)>>, Holed(other)),
                       Object(3, <<Comp("missing", 7, Aside)>>, Hollow),
                       Object(Unread, <<>>, Holed(other)) >>],
       [path |-> "a",
        objects |-> << Object(8, <<>>, Holed(<<>>)), Object(7, <<>>, Unread), Object(7, <<>>, Painted(hex)) >>] >>,
    << [path |-> "a", objects |-> << Object(7, <<>>, Painted(hex)) >>] >>,
    << [path |-> RootPath, objects |-> << Object(1, <<>>, Painted(hex)) >>] >> }

Item(oid, t) == [oid |-> oid, t |-> t]
Builds == {<<>>, <<Item(1, Twice)>>, <<Item(2, Unread), Item(1, Aside), Item(Unread, Twice), Item(2, Twice)>>,
           <<Item(3, Twice)>>, <<Item(3, Twice), Item(1, Unread)>>}

NoSettings == [plates |-> <<>>, extruders |-> <<>>]
SettingsOf ==
  {NoSettings,
   [plates |-> << <<24, <<1>>>> >>, extruders |-> << <<1, 3>>, <<2, Unread>> >>],
   [plates |-> << <<1, <<2, 5>>>>, <<Unread, <<1>>>>, <<2, <<>>>>, <<3, <<2, 1>>>> >>,
    extruders |-> << <<2, 4>>, <<1, 1>> >>]}

MCMeshInputs ==
  {[arc |-> [readable |-> r, build |-> b, files |-> f, settings |-> s, colours |-> <<"red">>], plate |-> p] :
     r \in {TRUE}, b \in Builds, f \in UNION {Files(h, o) : h \in Paints, o \in {<<>>, <<4>>}}, s \in SettingsOf, p \in {Unread, 1, 2, 3}}
  \cup {[arc |-> [readable |-> FALSE, build |-> b, files |-> <<>>, settings |-> NoSettings, colours |-> <<>>],
         plate |-> 1] : b \in Builds}

\* Programs: with and without a header, placeholders it knows and does not know,
\* blank lines at both ends.
Key(k) == [word |-> "M73", args |-> << <<"key", k>> >>]
Header(k, v) == [word |-> "; key = value", args |-> << <<"key", k>>, <<"val", v>> >>]
Prints ==
  {<<Line("G28"), Line("G1 print"), Blank>>,
   <<Line("; HEADER_BLOCK_START"), Header("a", 1), Header("a", 2), Header("b", 3),
     Line("; HEADER_BLOCK_END"), MACHINE_START_MARKER, Line("G1 print"), Blank, Blank>>,
   <<Line("; HEADER_BLOCK_END"), Header("a", 1), Line("; HEADER_BLOCK_START"), Line("G1 print")>>}
Snippets == {<<>>, <<Blank, Line("SWAP"), Key("a"), Blank>>, <<Key("b"), Key("z")>>}

Kept(name, data) == [name |-> name, data |-> data]
Odd(name) == [name EXCEPT !.exact = FALSE]
Estimate0(p, g) == [prediction |-> p, gcode_prediction |-> g]

ArchiveParts(print) ==
  {<<Kept(GcodeName(10), print), Kept(Md5Name(10), GcodeMd5(print)), Kept(GcodeName(2), <<Line("other")>>),
     Kept(Name("plate_N.json", 10), Estimate0(None, 90)), Kept(Name("plate_N.json", 2), Estimate0(0, 5))>>,
   <<Kept(GcodeName(1), print), Kept(Name("plate_N.png", 1), "png1"), Kept(Name("top_N.png", 2), "top2"),
     Kept(Project, [colours |-> <<"red", "blue">>, types |-> <<"PLA">>])>>,
   <<Kept(Odd(GcodeName(3)), print), Kept(Name("other.png", 0), "other")>>,
   <<Kept(Settings, <<24, 1, None, 24>>), Kept(Project, Corrupt)>>,
   <<Kept(RootModel, "mesh"), Kept(GcodeName(5), print)>>,
   <<Kept(RootModel, "no mesh"), Kept(Name("object_N.model", 1), "part")>>,
   <<>>}

MCArchiveInputs ==
  [files : UNION {ArchiveParts(p) : p \in Prints} \cup {Corrupt, Missing}, plate : {None, 1, 10}, snippet : Snippets]

\* Volumes of 160 mm and of no height, dances that fit and that do not, sweeps
\* that take one turn and several.
Volume(z) == [X |-> [min |-> 1000, max |-> 17000], Y |-> [min |-> 1000, max |-> 17000], Z |-> z]
MCProgramInputs ==
  [bounds : {Volume([min |-> 500, max |-> 17000]), Volume([min |-> 500, max |-> 500]),
             Volume([min |-> 500, max |-> 900])},
   print : Prints,
   opts : [sweepDurationMs : {0, 1999, 2000, 2001, 9000}, feedrate : {0, 3000}, danceAmplitude : {2000, 20000},
           swapSequence : Snippets, swapVars : {[k \in {} |-> 0], [k \in {"a"} |-> 7]}]]

Pairs == {[base |-> 2, swap |-> s] : s \in {NoTime, 1, 3, 6, 7, 30}} \cup {[base |-> NoTime, swap |-> 3]}
MCCalibrationInputs == [pairs : UNION {[1..n -> Pairs] : n \in 0..4}, setting : {NoTime, 5}]

MCTimerInputs ==
  UNION {{[i \in 1..n |-> [state |-> s[i], at |-> 10 * i]] : s \in [1..n -> {"RUNNING", "FINISH", "FAILED", "IDLE"}]}
         : n \in 0..4}

MCEtaInputs ==
  [now : {100}, swap : {0, 45000, 60000},
   running : {<<>>} \cup {<<[minutes |-> m, estimated |-> e]>> : m \in {0, 30}, e \in {NoTime, 0, 1800}},
   queued : UNION {[1..n -> {NoTime, 0, 7, 90}] : n \in 0..3}]

MCThrottleInputs ==
  [samples : {[i \in 1..n |-> [at |-> t[i], bytes |-> i]] : n \in {0}, t \in {<<>>}}
             \cup UNION {{[i \in 1..n |-> [at |-> t[i], bytes |-> i]] :
                           t \in {u \in [1..n -> 0..5] : \A i \in 2..n : u[i - 1] <= u[i]}} : n \in 1..4},
   total : {3, 9}, interval : {2, 3}]

Write(i, d, torn, fresh) == [id |-> i, day |-> d, torn |-> torn, fresh |-> fresh]
LogDays == <<1, 2, 4>>
MCLogInputs ==
  [writes : UNION {{[i \in 1..n |-> Write(i, LogDays[d[i]], torn[i], i = 1 \/ torn[i - 1])] :
                     d \in {e \in [1..n -> 1..3] : \A i \in 2..n : e[i - 1] <= e[i]}, torn \in [1..n -> BOOLEAN]}
                   : n \in 1..5},
   limit : {1, 3}]

Trays ==
  << [slot |-> 0, rgb |-> 1, color |-> Digits(<<1, 1, 1, 1, 1, 1>>), type |-> "PLA"],
     [slot |-> 1, rgb |-> 1, color |-> Digits(<<1, 1, 1>>), type |-> "PLA"],
     [slot |-> 2, rgb |-> 2, color |-> Digits(<<2, 2, 2, 2, 2, 2, 15, 15>>), type |-> "PLA"],
     [slot |-> 3, rgb |-> 1, color |-> Digits(<<1, 1, 1, 1, 1, 1, 15, 15>>), type |-> "PETG"] >>
Loaded(slots, grams) ==
  [i \in DOMAIN slots |->
     [slot |-> Trays[slots[i]].slot, rgb |-> Trays[slots[i]].rgb, color |-> Trays[slots[i]].color,
      type |-> Trays[slots[i]].type, remaining_g |-> grams[i]]]
MCRunoutInputs ==
  [override : {Null, "same_color_only", "allow_material_match", "nonsense"}, setting : {Null, "allow_material_match"},
   slot : {0, 2},
   trays : UNION {{Loaded(s, g) : g \in [DOMAIN s -> {10, 11, 40}]} : s \in {<<>>, <<2>>, <<1, 2, 3, 4>>, <<4, 3, 1>>, <<3, 2>>}},
   min : {10}]

Colour6 == {<<1, 1, 2, 2, 3, 3>>, <<1, 1, 2, 2, 3, 4>>, <<1, 1, 2, 2, 4, 4>>}
Notated == UNION {{[rgb |-> c, raw |-> r] : r \in NotationsOf(c, {<<15, 15>>, <<0, 1>>})} : c \in Colour6}
           \cup {[rgb |-> <<w>>, raw |-> Named(w)] : w \in {"RED", "BLUE"}}
MCColourInputs ==
  {[a |-> x.raw, rgbA |-> x.rgb, b |-> y.raw, rgbB |-> y.rgb, slot |-> s, type |-> t, mapping |-> m] :
     x \in Notated, y \in Notated, s \in {0, 1}, t \in {"PLA", "PETG"},
     m \in {NoMapping, <<-1, 0, 1, 3>>, <<-1, 0, 1, 4>>, <<-2, 0, 1, 3>>, <<0, 1, 2>>, <<0, 1, 2, 3, -1>>}}
=============================================================================
