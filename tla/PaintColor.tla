----------------------------- MODULE PaintColor -----------------------------
(***************************************************************************)
(* injection/paint-color.ts: the decoder of a triangle's paint_color       *)
(* string.  The string is a tree: a node is one hex digit whose low two    *)
(* bits count the split sides, and a split node is followed by its         *)
(* children, the last child first.                                         *)
(*                                                                         *)
(* Points are pairs of integers: the preview's third coordinate is treated *)
(* as the other two are.  Halving is exact as long as the corners are      *)
(* multiples of 2^PaintDepthCap.                                           *)
(***************************************************************************)
EXTENDS Integers, SequencesExt, FiniteSetsExt

CONSTANT PaintDepthCap   \* PAINT_DEPTH_CAP: a node this deep is not cut any more

ASSUME PaintDepthCapAssumption == PaintDepthCap \in Nat

HexDigits == 0..15

\* No triangle: an ancestor was capped, the bits are read for their length only.
NoTri == <<>>

\* The digits in the order in which the decoder reads them; one character that
\* is no hex digit voids the string.
HexToNibbles(hex) ==
  IF Range(hex) \subseteq HexDigits THEN Reverse(hex) ELSE <<>>

\* Reading past the end yields zeros; the cursor k then exceeds Len(nibbles) + 1
\* and the string is known to be too short.
At(nibbles, k) == IF k <= Len(nibbles) THEN nibbles[k] ELSE 0

Mid(a, b) == [i \in DOMAIN a |-> (a[i] + b[i]) \div 2]

\* Mutant: the corners are not rotated for a cut of one side, and the last part of
\* a cut of two is wound the other way.
ComputeTurnedChildren(tri, split, special) ==
  LET m10 == Mid(tri[2], tri[1])
      m21 == Mid(tri[3], tri[2])
      m02 == Mid(tri[1], tri[3])
  IN CASE split = 1 -> << <<tri[1], tri[2], m21>>, <<m21, tri[3], tri[1]>> >>
       [] split = 2 -> << <<tri[1], m10, m02>>, <<m10, tri[2], m02>>, <<tri[3], tri[2], m02>> >>
       [] split = 3 -> << <<tri[1], m10, m02>>, <<m10, tri[2], m21>>,
                          <<m21, tri[3], m02>>, <<m10, m21, m02>> >>

\* The sub-triangles of perform_split: corners rotated to start at the special
\* side, and cut at the midpoints of one, two or three sides.
ComputeChildren(tri, split, special) ==
  LET L(j) == tri[((special + j) % 3) + 1]
      m10 == Mid(L(1), L(0))
      m21 == Mid(L(2), L(1))
      m02 == Mid(L(0), L(2))
  IN CASE split = 1 -> << <<L(0), L(1), m21>>, <<m21, L(2), L(0)>> >>
       [] split = 2 -> << <<L(0), m10, m02>>, <<m10, L(1), m02>>,
                          <<L(1), L(2), m02>> >>
       [] split = 3 -> << <<L(0), m10, m02>>, <<m10, L(1), m21>>,
                          <<m21, L(2), m02>>, <<m10, m21, m02>> >>

Resolve(state, base) == IF state = 0 THEN base ELSE state

\* Read the leaf whose code is at k: states from 3 on follow the marker 12, one
\* digit 15 for every fifteen of them.
ReadLeaf(nibbles, k) ==
  LET code == At(nibbles, k)
      nums == CHOOSE j \in 0..Len(nibbles) :
                /\ At(nibbles, k + 1 + j) # 15
                /\ \A i \in 0..(j - 1) : At(nibbles, k + 1 + i) = 15
  IN IF code = 12
     THEN [next |-> k + 2 + nums, state |-> At(nibbles, k + 1 + nums) + 15 * nums + 3]
     ELSE [next |-> k + 1, state |-> code \div 4]

\* Read the node at k.  `states' are the leaves' states in the order read, `out'
\* the triangles emitted with their extruders.
RECURSIVE ReadNode(_, _, _, _, _)
ReadNode(nibbles, k, tri, depth, base) ==
  LET code  == At(nibbles, k)
      split == code % 4
      leaf  == ReadLeaf(nibbles, k)
      cut   == tri # NoTri /\ depth < PaintDepthCap
      parts == IF cut THEN ComputeChildren(tri, split, code \div 4)
                      ELSE [c \in 1..(split + 1) |-> NoTri]
      Child(acc, c) ==
        LET kid == ReadNode(nibbles, acc.next, parts[c], depth + 1, base)
        IN [next |-> kid.next, states |-> acc.states \o kid.states, out |-> acc.out \o kid.out]
      kids == FoldRight(LAMBDA c, acc : Child(acc, c), [c \in 1..(split + 1) |-> c],
                        [next |-> k + 1, states |-> <<>>, out |-> <<>>])
      Emit(state) == <<[tri |-> tri, ext |-> Resolve(state, base)]>>
  IN CASE split = 0 -> [next |-> leaf.next, states |-> <<leaf.state>>,
                        out |-> IF tri = NoTri THEN <<>> ELSE Emit(leaf.state)]
       [] split # 0 /\ (cut \/ tri = NoTri) -> kids
       [] OTHER -> [kids EXCEPT !.out = Emit(Head(kids.states))]

\* decodePaintColor: the triangles emitted, and whether the string described
\* one tree exactly.
Stats(root, length) ==
  [ok |-> root.next = length + 1, emitted |-> root.out,
   leaves |-> Len(root.states), maxState |-> Max(Range(root.states) \cup {0})]

DecodePaintColor(tri, hex, base) ==
  LET nibbles == HexToNibbles(hex)
  IN IF nibbles = <<>> THEN [ok |-> FALSE, emitted |-> <<>>, leaves |-> 0, maxState |-> 0]
     ELSE Stats(ReadNode(nibbles, 1, tri, 0, base), Len(nibbles))
-----------------------------------------------------------------------------
(***************************************************************************)
(* The reference: the trees the format describes, what a slicer writes for *)
(* one, and what the corners of a triangle say about the cuts.             *)
(***************************************************************************)
Leaf(s) == [split |-> 0, special |-> 0, state |-> s, kids |-> <<>>]
Split(n, special, kids) == [split |-> n, special |-> special, state |-> 0, kids |-> kids]

\* The digits of a tree, the last child first.
RECURSIVE EncodeTree(_)
EncodeTree(t) ==
  IF t.split > 0
  THEN <<t.split + 4 * t.special>> \o FlattenSeq(Reverse([c \in DOMAIN t.kids |-> EncodeTree(t.kids[c])]))
  ELSE IF t.state < 3 THEN <<4 * t.state>>
  ELSE <<12>> \o [i \in 1..((t.state - 3) \div 15) |-> 15] \o <<(t.state - 3) % 15>>

\* The leaves' states from the last child to the first.
RECURSIVE LeavesOf(_)
LeavesOf(t) ==
  IF t.split = 0 THEN <<t.state>>
  ELSE FlattenSeq(Reverse([c \in DOMAIN t.kids |-> LeavesOf(t.kids[c])]))

\* The states of the triangles a tree cut at the cap is drawn with.
RECURSIVE DrawnStates(_, _)
DrawnStates(t, depth) ==
  IF t.split = 0 \/ depth = PaintDepthCap THEN <<Head(LeavesOf(t))>>
  ELSE FlattenSeq(Reverse([c \in DOMAIN t.kids |-> DrawnStates(t.kids[c], depth + 1)]))

\* Twice the signed area of a triangle: its sign is the winding.
Area2(t) == (t[2][1] - t[1][1]) * (t[3][2] - t[1][2]) - (t[3][1] - t[1][1]) * (t[2][2] - t[1][2])

\* Is p inside t, or no further out than its edges (t wound counter-clockwise)?
Covers(t, p) == \A i \in 1..3 : Area2(<<t[i], t[(i % 3) + 1], p>>) > 0
Reaches(t, p) == \A i \in 1..3 : Area2(<<t[i], t[(i % 3) + 1], p>>) >= 0
=============================================================================
