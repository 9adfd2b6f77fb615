--------------------------- MODULE SlicedArchive ----------------------------
(***************************************************************************)
(* injection/threemf.ts, gcode-threemf.ts, eject-threemf.ts: what is read  *)
(* from a .3mf archive, and the archive that is printed.                   *)
(*                                                                         *)
(* An archive is a sequence of entries [name, data].  A name is a record:  *)
(* what the entry is, the number in it, and whether it is spelled as the   *)
(* slicer spells it (the patterns ignore case, a look-up does not).  An    *)
(* archive that cannot be unzipped is Corrupt.                             *)
(***************************************************************************)
EXTENDS GcodePrograms

CONSTANTS Missing,      \* no file in the cache
          Corrupt,      \* what unzipSync, or JSON.parse, throws on
          None          \* null; a part that is missing

Name(kind, n) == [kind |-> kind, n |-> n, exact |-> TRUE]
GcodeName(n) == Name("plate_N.gcode", n)
Md5Name(n) == Name("plate_N.gcode.md5", n)
Settings == Name("model_settings.config", 0)
Project == Name("project_settings.config", 0)
RootModel == Name("3dmodel.model", 0)

Names(files) == [i \in DOMAIN files |-> files[i].name]
HasEntry(files, name) == Contains(Names(files), name)
Entry(files, name) ==
  IF HasEntry(files, name) THEN (CHOOSE e \in Range(files) : e.name = name).data ELSE None

\* The entry replaced where it stands, or added at the end.
WithEntry(files, name, data) ==
  IF HasEntry(files, name)
  THEN [i \in DOMAIN files |-> IF files[i].name = name THEN [files[i] EXCEPT !.data = data]
                                                       ELSE files[i]]
  ELSE Append(files, [name |-> name, data |-> data])

\* Mutant: in the order of the archive, where plate 10 may stand before plate 2.
FindPlateGcodesAsListed(files) == SelectSeq(Names(files), LAMBDA n : n.kind = "plate_N.gcode")

FindPlateGcodes(files) ==
  LET found == SelectSeq(Names(files), LAMBDA n : n.kind = "plate_N.gcode")
  IN SortSeq(found, LAMBDA a, b : a.n < b.n)

\* A sidecar's estimate: its prediction, or the other name's value when it has
\* none; positive, or it is not told.  One that cannot be parsed is caught: None.
ReadPlateEstimateSeconds(files, n) ==
  LET raw == Entry(files, Name("plate_N.json", n))
      v   == IF raw.prediction # None THEN raw.prediction ELSE raw.gcode_prediction
  IN IF raw = None \/ v = None \/ v <= 0 THEN None ELSE v

Plates(files, names, printable) ==
  [i \in DOMAIN names |->
     [plate |-> names[i].n, printable |-> printable,
      estimatedSeconds |-> ReadPlateEstimateSeconds(files, names[i].n)]]

ListPlates(files) == Plates(files, FindPlateGcodes(files), TRUE)

\* The plates of a project that was not sliced, each once, by their number.
ListModelSettingsPlates(files) ==
  LET raw == Entry(files, Settings)
      ids == IF raw = None THEN {} ELSE Range(SelectSeq(raw, LAMBDA id : id # None))
  IN [i \in 1..Cardinality(ids) |->
        [plate |-> SetToSortSeq(ids, <)[i], printable |-> FALSE, estimatedSeconds |-> None]]

ListPreviewPlates(files) ==
  IF FindPlateGcodes(files) # <<>> THEN ListPlates(files) ELSE ListModelSettingsPlates(files)

PreviewKind(files) ==
  LET kinds == {n.kind : n \in Range(Names(files))}
  IN CASE files = Corrupt -> "thumb"
       [] files # Corrupt /\ ("object_N.model" \in kinds \/ Entry(files, RootModel) = "mesh") -> "mesh"
       [] OTHER -> IF "plate_N.gcode" \in kinds THEN "gcode"
                   ELSE IF ListModelSettingsPlates(files) # <<>> THEN "mesh" ELSE "thumb"

\* What the modals read of a job's cached upload: no plates when it is missing or
\* corrupt, and the mesh renderer when it is missing.
ReadCachedPlates(files) == IF files \in {Missing, Corrupt} THEN <<>> ELSE ListPlates(files)

ReadCachedPreviewPlates(files) ==
  IF files \in {Missing, Corrupt} THEN <<>> ELSE ListPreviewPlates(files)

ReadCachedPreviewKind(files) == IF files = Missing THEN "mesh" ELSE PreviewKind(files)

\* Colours and types side by side; a colour without a type has an empty one.  None
\* when it throws.
ExtractFilaments(files) ==
  LET cfg == Entry(files, Project)
  IN IF cfg = None THEN <<>>
     ELSE IF cfg = Corrupt THEN None
     ELSE [i \in DOMAIN cfg.colours |->
             [index |-> i - 1, color |-> cfg.colours[i],
              type |-> IF i <= Len(cfg.types) THEN cfg.types[i] ELSE ""]]

\* The render of a plate, or any picture of the archive.
ExtractThumbnail(files) ==
  LET Pick(kinds) == SelectSeq(files, LAMBDA e : e.name.kind \in kinds)
      ranked == Pick({"plate_N.png"}) \o Pick({"top_N.png"}) \o Pick({"other.png"})
  IN IF ranked = <<>> THEN None ELSE Head(ranked).data

ExtractPlateThumbnail(files, n) ==
  LET render == Entry(files, Name("plate_N.png", n))
  IN IF render # None THEN render ELSE Entry(files, Name("top_N.png", n))
-----------------------------------------------------------------------------
GcodeMd5(gcode) == <<"md5", gcode>>

\* The `; key = value' lines of the header, the last one of a key.
ParseHeaderVars(gcode) ==
  LET starts == {i \in DOMAIN gcode : gcode[i].word = "; HEADER_BLOCK_START"}
      ends   == {i \in DOMAIN gcode : gcode[i].word = "; HEADER_BLOCK_END"}
      block  == IF starts = {} \/ ends = {} THEN {} ELSE Min(starts)..Min(ends)
      sets   == {i \in block : gcode[i].word = "; key = value"}
      KeyOf(i) == gcode[i].args[1][2]
  IN [k \in {KeyOf(i) : i \in sets} |->
        gcode[Max({i \in sets : KeyOf(i) = k})].args[2][2]]

\* injectIntoThreemf: the plate asked for, or the one of the smallest number;
\* None when it throws.
InjectIntoThreemf(files, plate, endSnippet) ==
  LET found    == FindPlateGcodes(files)
      gpath    == IF plate # None THEN GcodeName(plate) ELSE found[1]
      original == Entry(files, gpath)
      resolved == ResolvePlaceholders(endSnippet, ParseHeaderVars(original))
      injected == InjectEndSequence(original, resolved.text)
      mpath    == [gpath EXCEPT !.kind = "plate_N.gcode.md5"]
  IN IF plate = None /\ found = <<>> THEN None
     ELSE IF original = None THEN None
     ELSE [files    |-> WithEntry(WithEntry(files, gpath, injected), mpath, GcodeMd5(injected)),
           md5      |-> GcodeMd5(injected),
           param    |-> gpath,
           warnings |-> resolved.warnings + (IF plate = None /\ Len(found) > 1 THEN 1 ELSE 0)]

\* packageGcodeThreemf; buildEjectThreemf packages the eject program.
PackageGcodeThreemf(gcode) ==
  << [name |-> GcodeName(1), data |-> gcode],
     [name |-> Md5Name(1), data |-> GcodeMd5(gcode)] >>

BuildEjectThreemf(swapSequence, vars) == PackageGcodeThreemf(BuildEjectGcode(swapSequence, vars))
=============================================================================
