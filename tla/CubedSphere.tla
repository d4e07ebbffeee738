---------------------------- MODULE CubedSphere ----------------------------
(***************************************************************************)
(* The block topology of the cubed sphere (src/exo3).  The horizontal mesh *)
(* is a 2 x 3 arrangement of six panels; each panel is cut into B x B      *)
(* meshblocks.  A block is named by its logical location (lx2, lx3); the   *)
(* code derives from it the panel number 1..6 and the place of the block   *)
(* in the panel, and from a face of the block the block on the other side. *)
(*                                                                         *)
(* Both build variants (USE_NBLOCKS with any n, and the older one with     *)
(* 1 << (level - 2)) compute the same quotient and remainder by B, the     *)
(* number of blocks along a panel side, called bound_lim + 1 in the code.  *)
(***************************************************************************)
EXTENDS Integers

CONSTANT B          \* blocks along one side of a panel

ASSUME BAssumption == B \in Nat \ {0}

bound_lim == B - 1

\* The logical locations of the blocks: 2 panels along x2, 3 along x3.
Location == [lx2 : 0 .. 2 * B - 1, lx3 : 0 .. 3 * B - 1]

Panel == 1 .. 6

\* The four faces a block has on the sphere: x2-, x2+, x3-, x3+.
Side == {"up", "down", "left", "right"}

\* The offset (ox2, ox3) of a face.
Ox2(s) == CASE s = "up" -> -1 [] s = "down"  -> 1 [] OTHER -> 0
Ox3(s) == CASE s = "left" -> -1 [] s = "right" -> 1 [] OTHER -> 0

\* Variants: the face itself, and always the same face of a pair.
OppositeLost(s) == s
OppositeStuck(s) == IF s \in {"up", "down"} THEN "down" ELSE "right"
Opposite(s) == CASE s = "up"   -> "down"  [] s = "down"  -> "up"
                 [] s = "left" -> "right" [] s = "right" -> "left"

\* The position counted from the other end of the panel side.  Variants: not
\* reversed, and counted from bound_lim + 1.
MirrorLost(l) == l
MirrorOff(l) == bound_lim + 1 - l
Mirror(l) == bound_lim - l

\* Which panel column/row a location falls in, and where inside it.
Quotient(x)  == x \div B
Remainder(x) == x - Quotient(x) * B

GetLocalIndex(loc) ==
  [lv2_lx2   |-> Quotient(loc.lx2),  lv2_lx3   |-> Quotient(loc.lx3),
   local_lx2 |-> Remainder(loc.lx2), local_lx3 |-> Remainder(loc.lx3)]

FindBlockID(loc) ==
  LET i == GetLocalIndex(loc) IN 1 + 2 * i.lv2_lx3 + i.lv2_lx2

\* The block's face s lies on the border of its panel.
AtPanelEdge(loc, s) ==
  LET i == GetLocalIndex(loc)
  IN  \/ s = "up"    /\ i.local_lx2 = 0
      \/ s = "down"  /\ i.local_lx2 = bound_lim
      \/ s = "left"  /\ i.local_lx3 = 0
      \/ s = "right" /\ i.local_lx3 = bound_lim

(***************************************************************************)
(* The hand-written seam table: leaving panel p through face s at local    *)
(* position (l2, l3), the panel entered, the local position there, and the *)
(* face through which the entered block sees us (tox2, tox3 in the code).  *)
(* A panel of -1 says that no special seam is crossed.                     *)
(***************************************************************************)
Seam(p, s, l2, l3) ==
  LET b == bound_lim
      To(panel, t2, t3, back) ==
        [panel |-> panel, l2 |-> t2, l3 |-> t3, back |-> back]
  IN CASE p = 1 /\ s = "left"  -> To(3, 0, l2, "up")
       [] p = 1 /\ s = "up"    -> To(6, 0, Mirror(l3), "up")
       [] p = 1 /\ s = "right" -> To(4, 0, Mirror(l2), "up")
       [] p = 2 /\ s = "left"  -> To(3, l2, b, "right")
       [] p = 2 /\ s = "down"  -> To(5, 0, l3, "up")
       [] p = 3 /\ s = "left"  -> To(6, l2, b, "right")
       [] p = 3 /\ s = "up"    -> To(1, l3, 0, "left")
       [] p = 3 /\ s = "down"  -> To(5, Mirror(l3), 0, "left")
       [] p = 3 /\ s = "right" -> To(2, l2, 0, "left")
       [] p = 4 /\ s = "up"    -> To(1, Mirror(l3), b, "right")
       [] p = 4 /\ s = "down"  -> To(5, l3, b, "right")
       [] p = 5 /\ s = "left"  -> To(3, b, Mirror(l2), "down")
       [] p = 5 /\ s = "right" -> To(4, b, l2, "down")
       [] p = 5 /\ s = "down"  -> To(6, b, Mirror(l3), "down")
       [] p = 5 /\ s = "up"    -> To(2, b, l3, "down")
       [] p = 6 /\ s = "up"    -> To(1, 0, Mirror(l3), "up")
       [] p = 6 /\ s = "down"  -> To(5, b, Mirror(l3), "down")
       [] p = 6 /\ s = "right" -> To(3, l2, 0, "left")
       [] OTHER                -> To(-1, 0, 0, s)

\* Panel column and row of the top left block of a panel.
PanelLx2(p) == IF p \in {2, 4, 6} THEN 1 ELSE 0
PanelLx3(p) == IF p \in {1, 2} THEN 0 ELSE IF p \in {3, 4} THEN 1 ELSE 2

(***************************************************************************)
(* TransformOX for a face offset (the corner offsets are never asked for): *)
(* the displacement of the neighbour in logical locations and the face     *)
(* through which the neighbour sees this block.                            *)
(***************************************************************************)
TransformOX(loc, s) ==
  LET i == GetLocalIndex(loc)
      t == Seam(FindBlockID(loc), s, i.local_lx2, i.local_lx3)
  IN  IF AtPanelEdge(loc, s) /\ t.panel > 0
      THEN [ox2  |-> PanelLx2(t.panel) * B + t.l2 - loc.lx2,
            ox3  |-> PanelLx3(t.panel) * B + t.l3 - loc.lx3,
            side |-> t.back]
      ELSE [ox2 |-> Ox2(s), ox3 |-> Ox3(s), side |-> Opposite(s)]

\* The neighbour that SearchAndSetNeighbors finds across face s.
NeighborLoc(loc, s) ==
  LET r == TransformOX(loc, s)
  IN  [lx2 |-> loc.lx2 + r.ox2, lx3 |-> loc.lx3 + r.ox3]

NeighborSide(loc, s) == TransformOX(loc, s).side

(***************************************************************************)
(* The chart of each panel.  GetLatLon calls RLLFromXYP(dX = Y, dY = -X)   *)
(* with X, Y the tangents of x2 and x3; the direction (lon, lat) it        *)
(* returns is that of the point below of a cube of half side S, X and Y    *)
(* scaled by S.                                                            *)
(***************************************************************************)
SurfacePoint(p, X, Y, S) ==
  CASE p = 1 -> << X,  Y,  S>>
    [] p = 2 -> << S,  Y, -X>>
    [] p = 3 -> << Y, -S, -X>>
    [] p = 4 -> <<-Y,  S, -X>>
    [] p = 5 -> <<-X,  Y, -S>>
    [] p = 6 -> <<-S, -Y, -X>>

\* The end of face s of a block, e = 0 or 2 along the face, on a cube of half
\* side B: in the block, X and Y run over X .. X + 2 and Y .. Y + 2.
FaceX(l2, s, e) ==
  2 * l2 - B + (IF s = "up" THEN 0 ELSE IF s = "down" THEN 2 ELSE e)
FaceY(l3, s, e) ==
  2 * l3 - B + (IF s = "left" THEN 0 ELSE IF s = "right" THEN 2 ELSE e)

FaceEnd(p, l2, l3, s, e) == SurfacePoint(p, FaceX(l2, s, e), FaceY(l3, s, e), B)

FaceCorners(loc, s) ==
  LET i == GetLocalIndex(loc)
  IN  {FaceEnd(FindBlockID(loc), i.local_lx2, i.local_lx3, s, e) : e \in {0, 2}}

=============================================================================
