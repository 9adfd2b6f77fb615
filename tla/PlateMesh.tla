----------------------------- MODULE PlateMesh ------------------------------
(***************************************************************************)
(* injection/threemf-mesh.ts: the triangles the 3D preview draws.          *)
(*                                                                         *)
(* An archive is a record: the placements of its root model (build), its   *)
(* model files in archive order (files), the plates and base extruders of  *)
(* its settings, its palette, and whether it can be unzipped at all.       *)
(* Points are pairs of integers and a transform scales and moves them, so  *)
(* that transforms do not commute.  An attribute the parser cannot read is *)
(* Unread.                                                                 *)
(***************************************************************************)
EXTENDS PaintColor

CONSTANTS RootPath,     \* "3D/3dmodel.model"
          Unread        \* null: an attribute that is missing or no number

Identity == [s |-> 1, d |-> <<0, 0>>]

\* applyTransform: a transform that could not be parsed leaves the point alone.
ApplyTransform(t, p) ==
  IF t = Unread THEN p ELSE [i \in 1..2 |-> t.s * p[i] + t.d[i]]

\* The last pair of a sequence of <<key, value>> pairs wins, at the place of the
\* first one, as in a Map.
MapOf(pairs) ==
  LET keys == FoldLeft(LAMBDA ks, p : IF Contains(ks, p[1]) THEN ks ELSE Append(ks, p[1]), <<>>, pairs)
      Latest(k) == Max({i \in DOMAIN pairs : pairs[i][1] = k})
  IN [i \in DOMAIN keys |-> <<keys[i], pairs[Latest(keys[i])][2]>>]

Keys(map) == [i \in DOMAIN map |-> map[i][1]]
Has(map, k) == \E i \in DOMAIN map : map[i][1] = k
Get(map, k) == map[CHOOSE i \in DOMAIN map : map[i][1] = k][2]
GetOr(map, k, otherwise) == IF Has(map, k) THEN Get(map, k) ELSE otherwise

FileOf(arc, path) == SelectSeq(arc.files, LAMBDA f : f.path = path)

\* parseRootModel: the placements by object id, and the objects by id; those
\* whose id is unread, and components without a path, are left out.
ParseRootModel(arc) ==
  LET readable(os) == SelectSeq(os, LAMBDA o : o.id # Unread)
      items   == SelectSeq(arc.build, LAMBDA i : i.oid # Unread)
      objects == readable(FileOf(arc, RootPath)[1].objects)
      Resource(o) == [o EXCEPT !.comps = SelectSeq(@, LAMBDA c : c.path # Unread)]
  IN [build     |-> MapOf([i \in DOMAIN items |-> <<items[i].oid, items[i].t>>]),
      resources |-> MapOf([i \in DOMAIN objects |-> <<objects[i].id, Resource(objects[i])>>])]

\* parsePlateAssignments and parseObjectExtruders: plates whose id is unread, and
\* objects without an extruder of their own, are left out.
ParsePlateAssignments(settings) ==
  MapOf(SelectSeq(settings.plates, LAMBDA p : p[1] # Unread))

ParseObjectExtruders(settings) ==
  MapOf(SelectSeq(settings.extruders, LAMBDA e : e[2] # Unread))

\* findMeshBody: the mesh of the first object of that id that has one, or else
\* the first mesh of the file; an empty sequence when the file has none.
FindMeshBody(file, oid) ==
  LET meshes == SelectSeq(file.objects, LAMBDA o : o.mesh # Unread)
      named  == SelectSeq(meshes, LAMBDA o : oid # Unread /\ o.id = oid)
      found  == IF named # <<>> THEN named ELSE meshes
  IN IF found = <<>> THEN <<>> ELSE <<found[1].mesh>>
-----------------------------------------------------------------------------
(***************************************************************************)
(* The buffers the geometry is appended to: the vertices, the triangles    *)
(* (three indices counted from zero), and, when painting is decoded, the   *)
(* filament of every triangle (the PaintCtx of the code).                  *)
(***************************************************************************)
NoBuffers == [positions |-> <<>>, indices |-> <<>>, triExtruder |-> <<>>, painted |-> FALSE]

AddTriangle(buf, tri, ext, painting) ==
  [buf EXCEPT !.indices = Append(@, tri),
              !.triExtruder = IF painting THEN Append(@, ext) ELSE @]

\* The emit callback: a sub-triangle brings vertices of its own.
AddPainted(buf, sub) ==
  LET vbase == Len(buf.positions)
  IN AddTriangle([buf EXCEPT !.positions = @ \o sub.tri],
                 <<vbase, vbase + 1, vbase + 2>>, sub.ext, TRUE)

\* Mutant: the filaments of the sub-triangles taken back stay in their list.
UndoGeometry(buf, n) ==
  [buf EXCEPT !.positions = SubSeq(@, 1, Len(@) - 3 * n),
              !.indices   = SubSeq(@, 1, Len(@) - n)]

\* Take the last n sub-triangles back: the string turned out to be malformed.
Undo(buf, n) ==
  [buf EXCEPT !.positions   = SubSeq(@, 1, Len(@) - 3 * n),
              !.indices     = SubSeq(@, 1, Len(@) - n),
              !.triExtruder = SubSeq(@, 1, Len(@) - n)]

\* A painted triangle: all of its sub-triangles, or itself when they were none.
FillOrUndo(filled, decoded, flat, baseExtruder) ==
  IF decoded.ok THEN [filled EXCEPT !.painted = TRUE]
  ELSE AddTriangle(Undo(filled, Len(decoded.emitted)), flat, baseExtruder, TRUE)

PushPainted(buf, flat, decoded, baseExtruder) ==
  FillOrUndo(FoldLeft(AddPainted, buf, decoded.emitted), decoded, flat, baseExtruder)

\* One triangle of a mesh whose vertices are the `added' ones from `first' on.
PushTriangle(buf, t, first, added, painting, baseExtruder) ==
  LET flat    == <<first + t.v[1], first + t.v[2], first + t.v[3]>>
      corners == [i \in 1..3 |-> buf.positions[flat[i] + 1]]
  IN IF \E i \in 1..3 : t.v[i] = Unread \/ t.v[i] >= added THEN buf
     ELSE IF ~painting \/ t.paint = <<>> THEN AddTriangle(buf, flat, baseExtruder, painting)
     ELSE PushPainted(buf, flat, DecodePaintColor(corners, t.paint, baseExtruder), baseExtruder)

\* pushMesh: the vertices that could be read, transformed, then the triangles
\* between them.
PushMesh(buf, mesh, transforms, painting, baseExtruder) ==
  LET first == Len(buf.positions)
      read  == SelectSeq(mesh.vertices, LAMBDA v : v # Unread)
      Place(p) == FoldLeft(LAMBDA q, t : ApplyTransform(t, q), p, transforms)
      grown == [buf EXCEPT !.positions = @ \o [i \in DOMAIN read |-> Place(read[i])]]
  IN FoldLeft(LAMBDA b, t : PushTriangle(b, t, first, Len(read), painting, baseExtruder),
              grown, mesh.triangles)

\* One placed object: its own mesh under the placement, those of its components
\* under the component's transform and then the placement.
PushObject(buf, arc, res, itemT, painting, baseExtruder) ==
  LET inline == IF res.mesh = Unread THEN buf
                ELSE PushMesh(buf, res.mesh, <<itemT>>, painting, baseExtruder)
      Component(b, c) ==
        LET file == FileOf(arc, c.path)
            body == IF file = <<>> THEN <<>> ELSE FindMeshBody(file[1], c.oid)
        IN IF body = <<>> THEN b
           ELSE PushMesh(b, body[1], <<c.t, itemT>>, painting, baseExtruder)
  IN FoldLeft(Component, inline, res.comps)

\* assembleScene: one group of triangles for every target that has any.  The
\* scene is void without a build, a target or a triangle.
AddGroup(acc, oid, buf) ==
  LET start == Len(acc.buf.indices)
      count == Len(buf.indices) - start
      group == [objectId |-> oid, start |-> start, count |-> count]
  IN [buf |-> buf, groups |-> IF count > 0 THEN Append(acc.groups, group) ELSE acc.groups]

Rendered(scene) == IF scene.buf.indices = <<>> THEN <<>> ELSE <<scene>>

AssembleScene(root, arc, targets, painting, extruders) ==
  LET Target(acc, oid) ==
        IF ~Has(root.resources, oid) THEN acc
        ELSE AddGroup(acc, oid,
                      PushObject(acc.buf, arc, Get(root.resources, oid),
                                 GetOr(root.build, oid, Unread), painting, GetOr(extruders, oid, 0)))
  IN IF root.build = <<>> \/ targets = <<>> THEN <<>>
     ELSE Rendered(FoldLeft(Target, [buf |-> NoBuffers, groups |-> <<>>], targets))

\* mergeAllMeshesUntransformed: every mesh of every file where it was drawn.
MergeAllMeshesUntransformed(arc) ==
  LET InFile(buf, f) ==
        FoldLeft(LAMBDA b, o : IF o.mesh = Unread THEN b ELSE PushMesh(b, o.mesh, <<>>, FALSE, 0),
                 buf, f.objects)
  IN FoldLeft(InFile, NoBuffers, arc.files)

\* extractMesh: the scene of all placements, or the union of the meshes.
SceneOrUnion(scenes, arc) ==
  IF scenes # <<>> THEN scenes ELSE Rendered([buf |-> MergeAllMeshesUntransformed(arc)])

ExtractMesh(arc) ==
  LET root == ParseRootModel(arc)
  IN IF ~arc.readable THEN <<>>
     ELSE SceneOrUnion(IF FileOf(arc, RootPath) = <<>> THEN <<>>
                       ELSE AssembleScene(root, arc, Keys(root.build), FALSE, <<>>), arc)
-----------------------------------------------------------------------------
\* The objects of the plate that is asked for (plateNo is Unread when its id ends
\* in no number): a sole plate stands for any, and a plate that is not found or
\* is empty for every placement.
TargetIds(arc, root, plateNo) ==
  LET plates == ParsePlateAssignments(arc.settings)
      ids    == IF plateNo # Unread /\ Has(plates, plateNo) THEN Get(plates, plateNo)
                ELSE IF Len(plates) = 1 THEN plates[1][2] ELSE <<>>
  IN IF ids = <<>> THEN Keys(root.build) ELSE ids

\* Whether a part this plate is read from carries a paint_color anywhere.
IsPainted(arc, root, targets) ==
  LET placed == {Get(root.resources, oid) : oid \in {o \in Range(targets) : Has(root.resources, o)}}
      needed == {RootPath} \cup UNION {{c.path : c \in Range(r.comps)} : r \in placed}
      meshes == {o.mesh : o \in UNION {Range(f.objects) : f \in {g \in Range(arc.files) : g.path \in needed}}}
  IN \E m \in meshes \ {Unread} : \E t \in Range(m.triangles) : t.paint # <<>>

ComputeBbox(positions) ==
  LET Along(i) == {p[i] : p \in Range(positions)}
  IN [min |-> <<Min(Along(1)), Min(Along(2))>>, max |-> <<Max(Along(1)), Max(Along(2))>>]

\* extractPlateMesh
PlateOf(scene, extruders, colours) ==
  LET buf == scene.buf
      Coloured(g) == [objectId |-> g.objectId, start |-> g.start, count |-> g.count,
                      extruder |-> GetOr(extruders, g.objectId, Unread)]
  IN [positions      |-> buf.positions,
      indices        |-> buf.indices,
      bbox           |-> ComputeBbox(buf.positions),
      groups         |-> [i \in DOMAIN scene.groups |-> Coloured(scene.groups[i])],
      filamentColours |-> colours,
      triExtruder    |-> IF buf.painted THEN <<buf.triExtruder>> ELSE <<>>]

PlatesOf(scenes, extruders, colours) ==
  [i \in DOMAIN scenes |-> PlateOf(scenes[i], extruders, colours)]

SceneOfPlate(arc, root, targets, extruders) ==
  PlatesOf(AssembleScene(root, arc, targets, IsPainted(arc, root, targets), extruders),
           extruders, arc.colours)

ExtractPlateMesh(arc, plateNo) ==
  LET root == ParseRootModel(arc)
  IN IF ~arc.readable \/ FileOf(arc, RootPath) = <<>> THEN <<>>
     ELSE SceneOfPlate(arc, root, TargetIds(arc, root, plateNo), ParseObjectExtruders(arc.settings))
-----------------------------------------------------------------------------
(***************************************************************************)
(* The reference: the triangles an object is made of, as corner points     *)
(* under one composed transform.                                           *)
(***************************************************************************)
Compose(t, u) ==
  IF t = Unread THEN u ELSE IF u = Unread THEN t
  ELSE [s |-> t.s * u.s, d |-> [i \in 1..2 |-> u.s * t.d[i] + u.d[i]]]

TrianglesOf(mesh, t) ==
  LET read  == SelectSeq(mesh.vertices, LAMBDA v : v # Unread)
      drawn == SelectSeq(mesh.triangles, LAMBDA r : \A i \in 1..3 : r.v[i] # Unread /\ r.v[i] < Len(read))
  IN [n \in DOMAIN drawn |-> [i \in 1..3 |-> ApplyTransform(t, read[drawn[n].v[i] + 1])]]

ObjectTriangles(arc, o, itemT) ==
  LET inline == IF o.mesh = Unread THEN <<>> ELSE TrianglesOf(o.mesh, itemT)
      Of(c) == LET f == FileOf(arc, c.path) IN
               IF f = <<>> \/ FindMeshBody(f[1], c.oid) = <<>> THEN <<>>
               ELSE TrianglesOf(FindMeshBody(f[1], c.oid)[1], Compose(c.t, itemT))
  IN inline \o FlattenSeq([i \in DOMAIN o.comps |-> Of(o.comps[i])])

\* The corners of triangle n of a mesh that was extracted.
CornersOf(mesh, n) == [i \in 1..3 |-> mesh.positions[mesh.indices[n][i] + 1]]
=============================================================================
