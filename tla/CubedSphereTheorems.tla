------------------------ MODULE CubedSphereTheorems ------------------------
(***************************************************************************)
(* What the seam table and the index arithmetic of the cubed sphere        *)
(* guarantee for every number B of blocks along a panel side.              *)
(***************************************************************************)
EXTENDS CubedSphere, TLAPS

\* A block named by its panel and its place in the panel.
At(p, l2, l3) ==
  [lx2 |-> PanelLx2(p) * B + l2, lx3 |-> PanelLx3(p) * B + l3]

\* One step across face s, in panel coordinates: through a seam of the
\* table, across one of the three borders where the panels of the 2 x 3
\* layout touch directly, or to the next block of the same panel.
OnEdge(l2, l3, s) ==
  \/ s = "up"   /\ l2 = 0
  \/ s = "down" /\ l2 = bound_lim
  \/ s = "left" /\ l3 = 0
  \/ s = "right" /\ l3 = bound_lim

Step(p, l2, l3, s) ==
  IF OnEdge(l2, l3, s)
  THEN IF Seam(p, s, l2, l3).panel > 0
       THEN Seam(p, s, l2, l3)
       ELSE [panel |-> p + 2 * Ox3(s) + Ox2(s),
             l2 |-> l2 - bound_lim * Ox2(s), l3 |-> l3 - bound_lim * Ox3(s),
             back |-> Opposite(s)]
  ELSE [panel |-> p, l2 |-> l2 + Ox2(s), l3 |-> l3 + Ox3(s),
        back |-> Opposite(s)]

-----------------------------------------------------------------------------
\* Dividing by B splits a coordinate into panel index and local index.
LEMMA DivModPanel ==
  ASSUME NEW q \in 0 .. 2, NEW r \in 0 .. B - 1
  PROVE  /\ Quotient(q * B + r) = q
         /\ Remainder(q * B + r) = r
<1> USE BAssumption
<1>1. CASE q = 0
  BY <1>1 DEF Quotient, Remainder
<1>2. CASE q = 1
  BY <1>2 DEF Quotient, Remainder
<1>3. CASE q = 2
  BY <1>3 DEF Quotient, Remainder
<1>4. QED BY <1>1, <1>2, <1>3

\* FindBlockID and GetLocalIndex recover the panel and the local position.
LEMMA IndexOfAt ==
  ASSUME NEW p \in Panel, NEW l2 \in 0 .. B - 1, NEW l3 \in 0 .. B - 1
  PROVE  /\ At(p, l2, l3) \in Location
         /\ FindBlockID(At(p, l2, l3)) = p
         /\ GetLocalIndex(At(p, l2, l3)).local_lx2 = l2
         /\ GetLocalIndex(At(p, l2, l3)).local_lx3 = l3
<1> DEFINE loc == At(p, l2, l3)
<1>1. PanelLx2(p) \in 0 .. 1 /\ PanelLx3(p) \in 0 .. 2
  BY DEF PanelLx2, PanelLx3, Panel
<1>2. /\ Quotient(loc.lx2) = PanelLx2(p) /\ Remainder(loc.lx2) = l2
      /\ Quotient(loc.lx3) = PanelLx3(p) /\ Remainder(loc.lx3) = l3
  BY <1>1, DivModPanel DEF At
<1>3. loc \in Location
  <2>1. PanelLx2(p) * B + l2 \in 0 .. 2 * B - 1
    BY BAssumption DEF PanelLx2
  <2>2. PanelLx3(p) * B + l3 \in 0 .. 3 * B - 1
    BY BAssumption DEF PanelLx3
  <2>3. QED BY <2>1, <2>2 DEF At, Location
<1>4. 1 + 2 * PanelLx3(p) + PanelLx2(p) = p
  BY DEF PanelLx2, PanelLx3, Panel
<1>5. QED BY <1>2, <1>3, <1>4 DEF FindBlockID, GetLocalIndex

\* Every location is a panel and a local position.
LEMMA LocationIsAt ==
  ASSUME NEW loc \in Location
  PROVE  \E p \in Panel, l2, l3 \in 0 .. B - 1 : loc = At(p, l2, l3)
<1>1. PICK q2 \in 0 .. 1, l2 \in 0 .. B - 1 : loc.lx2 = q2 * B + l2
  <2>1. CASE loc.lx2 < B
    BY <2>1, BAssumption DEF Location
  <2>2. CASE loc.lx2 >= B
    <3>1. loc.lx2 - B \in 0 .. B - 1 /\ loc.lx2 = 1 * B + (loc.lx2 - B)
      BY <2>2, BAssumption DEF Location
    <3>2. QED BY <3>1
  <2>3. QED BY <2>1, <2>2, BAssumption DEF Location
<1>2. PICK q3 \in 0 .. 2, l3 \in 0 .. B - 1 : loc.lx3 = q3 * B + l3
  <2>1. CASE loc.lx3 < B
    BY <2>1, BAssumption DEF Location
  <2>2. CASE loc.lx3 >= B /\ loc.lx3 < 2 * B
    <3>1. loc.lx3 - B \in 0 .. B - 1 /\ loc.lx3 = 1 * B + (loc.lx3 - B)
      BY <2>2, BAssumption DEF Location
    <3>2. QED BY <3>1
  <2>3. CASE loc.lx3 >= 2 * B
    <3>1. loc.lx3 - 2 * B \in 0 .. B - 1 /\ loc.lx3 = 2 * B + (loc.lx3 - 2 * B)
      BY <2>3, BAssumption DEF Location
    <3>2. QED BY <3>1
  <2>4. QED BY <2>1, <2>2, <2>3, BAssumption DEF Location
<1>3. 1 + 2 * q3 + q2 \in Panel
  BY DEF Panel
<1>4. PanelLx2(1 + 2 * q3 + q2) = q2 /\ PanelLx3(1 + 2 * q3 + q2) = q3
  BY DEF PanelLx2, PanelLx3
<1>5. loc = At(1 + 2 * q3 + q2, l2, l3)
  BY <1>1, <1>2, <1>4 DEF At, Location
<1>6. QED BY <1>3, <1>5

\* What stepping out of each face of each panel yields, at distance l along
\* the face.
Place(p, l2, l3, back) == [panel |-> p, l2 |-> l2, l3 |-> l3, back |-> back]

LEMMA EdgeStep ==
  ASSUME NEW l \in 0 .. B - 1
  PROVE  /\ Step(1, 0, l, "up") = Place(6, 0, bound_lim - l, "up")
         /\ Step(1, bound_lim, l, "down") = Place(2, 0, l, "up")
         /\ Step(1, l, 0, "left") = Place(3, 0, l, "up")
         /\ Step(1, l, bound_lim, "right") = Place(4, 0, bound_lim - l, "up")
         /\ Step(2, 0, l, "up") = Place(1, bound_lim, l, "down")
         /\ Step(2, bound_lim, l, "down") = Place(5, 0, l, "up")
         /\ Step(2, l, 0, "left") = Place(3, l, bound_lim, "right")
         /\ Step(2, l, bound_lim, "right") = Place(4, l, 0, "left")
         /\ Step(3, 0, l, "up") = Place(1, l, 0, "left")
         /\ Step(3, bound_lim, l, "down") = Place(5, bound_lim - l, 0, "left")
         /\ Step(3, l, 0, "left") = Place(6, l, bound_lim, "right")
         /\ Step(3, l, bound_lim, "right") = Place(2, l, 0, "left")
         /\ Step(4, 0, l, "up") = Place(1, bound_lim - l, bound_lim, "right")
         /\ Step(4, bound_lim, l, "down") = Place(5, l, bound_lim, "right")
         /\ Step(4, l, 0, "left") = Place(2, l, bound_lim, "right")
         /\ Step(4, l, bound_lim, "right") = Place(6, l, 0, "left")
         /\ Step(5, 0, l, "up") = Place(2, bound_lim, l, "down")
         /\ Step(5, bound_lim, l, "down") = Place(6, bound_lim, bound_lim - l, "down")
         /\ Step(5, l, 0, "left") = Place(3, bound_lim, bound_lim - l, "down")
         /\ Step(5, l, bound_lim, "right") = Place(4, bound_lim, l, "down")
         /\ Step(6, 0, l, "up") = Place(1, 0, bound_lim - l, "up")
         /\ Step(6, bound_lim, l, "down") = Place(5, bound_lim, bound_lim - l, "down")
         /\ Step(6, l, 0, "left") = Place(4, l, bound_lim, "right")
         /\ Step(6, l, bound_lim, "right") = Place(3, l, 0, "left")
<1> USE BAssumption DEF Step, Seam, OnEdge, Opposite, Ox2, Ox3, bound_lim,
                        Mirror, Place
<1>1. Step(1, 0, l, "up") = Place(6, 0, bound_lim - l, "up")
  OBVIOUS
<1>2. Step(1, bound_lim, l, "down") = Place(2, 0, l, "up")
  OBVIOUS
<1>3. Step(1, l, 0, "left") = Place(3, 0, l, "up")
  OBVIOUS
<1>4. Step(1, l, bound_lim, "right") = Place(4, 0, bound_lim - l, "up")
  OBVIOUS
<1>5. Step(2, 0, l, "up") = Place(1, bound_lim, l, "down")
  OBVIOUS
<1>6. Step(2, bound_lim, l, "down") = Place(5, 0, l, "up")
  OBVIOUS
<1>7. Step(2, l, 0, "left") = Place(3, l, bound_lim, "right")
  OBVIOUS
<1>8. Step(2, l, bound_lim, "right") = Place(4, l, 0, "left")
  OBVIOUS
<1>9. Step(3, 0, l, "up") = Place(1, l, 0, "left")
  OBVIOUS
<1>10. Step(3, bound_lim, l, "down") = Place(5, bound_lim - l, 0, "left")
  OBVIOUS
<1>11. Step(3, l, 0, "left") = Place(6, l, bound_lim, "right")
  OBVIOUS
<1>12. Step(3, l, bound_lim, "right") = Place(2, l, 0, "left")
  OBVIOUS
<1>13. Step(4, 0, l, "up") = Place(1, bound_lim - l, bound_lim, "right")
  OBVIOUS
<1>14. Step(4, bound_lim, l, "down") = Place(5, l, bound_lim, "right")
  OBVIOUS
<1>15. Step(4, l, 0, "left") = Place(2, l, bound_lim, "right")
  OBVIOUS
<1>16. Step(4, l, bound_lim, "right") = Place(6, l, 0, "left")
  OBVIOUS
<1>17. Step(5, 0, l, "up") = Place(2, bound_lim, l, "down")
  OBVIOUS
<1>18. Step(5, bound_lim, l, "down") = Place(6, bound_lim, bound_lim - l, "down")
  OBVIOUS
<1>19. Step(5, l, 0, "left") = Place(3, bound_lim, bound_lim - l, "down")
  OBVIOUS
<1>20. Step(5, l, bound_lim, "right") = Place(4, bound_lim, l, "down")
  OBVIOUS
<1>21. Step(6, 0, l, "up") = Place(1, 0, bound_lim - l, "up")
  OBVIOUS
<1>22. Step(6, bound_lim, l, "down") = Place(5, bound_lim, bound_lim - l, "down")
  OBVIOUS
<1>23. Step(6, l, 0, "left") = Place(4, l, bound_lim, "right")
  OBVIOUS
<1>24. Step(6, l, bound_lim, "right") = Place(3, l, 0, "left")
  OBVIOUS
<1>25. QED BY ONLY <1>1, <1>2, <1>3, <1>4, <1>5, <1>6, <1>7, <1>8,
             <1>9, <1>10, <1>11, <1>12, <1>13, <1>14, <1>15, <1>16,
             <1>17, <1>18, <1>19, <1>20, <1>21, <1>22, <1>23, <1>24

\* A step stays on the sphere: it ends in a block of a panel, seen from one
\* of that block's faces.
LEMMA StepType ==
  ASSUME NEW p \in Panel, NEW l2 \in 0 .. B - 1, NEW l3 \in 0 .. B - 1,
         NEW s \in Side
  PROVE  /\ Step(p, l2, l3, s).panel \in Panel
         /\ Step(p, l2, l3, s).l2 \in 0 .. B - 1
         /\ Step(p, l2, l3, s).l3 \in 0 .. B - 1
         /\ Step(p, l2, l3, s).back \in Side
<1>1. CASE ~ OnEdge(l2, l3, s)
  <2>1. Step(p, l2, l3, s) = [panel |-> p, l2 |-> l2 + Ox2(s),
                              l3 |-> l3 + Ox3(s), back |-> Opposite(s)]
    BY <1>1 DEF Step
  <2>2. l2 + Ox2(s) \in 0 .. B - 1
    BY <1>1, BAssumption DEF OnEdge, Ox2, bound_lim, Side
  <2>3. l3 + Ox3(s) \in 0 .. B - 1
    BY <1>1, BAssumption DEF OnEdge, Ox3, bound_lim, Side
  <2>4. Opposite(s) \in Side
    BY DEF Opposite, Side
  <2>5. QED BY <2>1, <2>2, <2>3, <2>4
<1>2. CASE OnEdge(l2, l3, s)
  <2>1. CASE s = "up"
    <3>1. l2 = 0
      BY <1>2, <2>1 DEF OnEdge
    <3>2. {0, bound_lim, l3, bound_lim - l3} \subseteq 0 .. B - 1
      BY BAssumption DEF bound_lim
    <3>3. QED BY <2>1, <3>1, <3>2, EdgeStep DEF Panel, Place, Side
  <2>2. CASE s = "down"
    <3>1. l2 = bound_lim
      BY <1>2, <2>2 DEF OnEdge
    <3>2. {0, bound_lim, l3, bound_lim - l3} \subseteq 0 .. B - 1
      BY BAssumption DEF bound_lim
    <3>3. QED BY <2>2, <3>1, <3>2, EdgeStep DEF Panel, Place, Side
  <2>3. CASE s = "left"
    <3>1. l3 = 0
      BY <1>2, <2>3 DEF OnEdge
    <3>2. {0, bound_lim, l2, bound_lim - l2} \subseteq 0 .. B - 1
      BY BAssumption DEF bound_lim
    <3>3. QED BY <2>3, <3>1, <3>2, EdgeStep DEF Panel, Place, Side
  <2>4. CASE s = "right"
    <3>1. l3 = bound_lim
      BY <1>2, <2>4 DEF OnEdge
    <3>2. {0, bound_lim, l2, bound_lim - l2} \subseteq 0 .. B - 1
      BY BAssumption DEF bound_lim
    <3>3. QED BY <2>4, <3>1, <3>2, EdgeStep DEF Panel, Place, Side
  <2>5. QED BY <2>1, <2>2, <2>3, <2>4 DEF Side
<1>3. QED BY <1>1, <1>2

\* Stepping back through the face one came in by undoes a step.
LEMMA StepInvolution ==
  ASSUME NEW p \in Panel, NEW l2 \in 0 .. B - 1, NEW l3 \in 0 .. B - 1,
         NEW s \in Side
  PROVE  LET r == Step(p, l2, l3, s)
         IN  Step(r.panel, r.l2, r.l3, r.back) = Place(p, l2, l3, s)
<1>1. CASE ~ OnEdge(l2, l3, s)
  BY <1>1, BAssumption
     DEF Step, OnEdge, Opposite, Ox2, Ox3, bound_lim, Side, Place
<1>2. CASE OnEdge(l2, l3, s)
  <2>1. CASE s = "up"
    <3>1. l2 = 0
      BY <1>2, <2>1 DEF OnEdge
    <3>2. Mirror(l3) \in 0 .. B - 1 /\ bound_lim - Mirror(l3) = l3
      BY BAssumption DEF Mirror, bound_lim
    <3>3. QED BY <2>1, <3>1, <3>2, EdgeStep DEF Panel, Place, Mirror
  <2>2. CASE s = "down"
    <3>1. l2 = bound_lim
      BY <1>2, <2>2 DEF OnEdge
    <3>2. Mirror(l3) \in 0 .. B - 1 /\ bound_lim - Mirror(l3) = l3
      BY BAssumption DEF Mirror, bound_lim
    <3>3. QED BY <2>2, <3>1, <3>2, EdgeStep DEF Panel, Place, Mirror
  <2>3. CASE s = "left"
    <3>1. l3 = 0
      BY <1>2, <2>3 DEF OnEdge
    <3>2. Mirror(l2) \in 0 .. B - 1 /\ bound_lim - Mirror(l2) = l2
      BY BAssumption DEF Mirror, bound_lim
    <3>3. QED BY <2>3, <3>1, <3>2, EdgeStep DEF Panel, Place, Mirror
  <2>4. CASE s = "right"
    <3>1. l3 = bound_lim
      BY <1>2, <2>4 DEF OnEdge
    <3>2. Mirror(l2) \in 0 .. B - 1 /\ bound_lim - Mirror(l2) = l2
      BY BAssumption DEF Mirror, bound_lim
    <3>3. QED BY <2>4, <3>1, <3>2, EdgeStep DEF Panel, Place, Mirror
  <2>5. QED BY <2>1, <2>2, <2>3, <2>4 DEF Side
<1>3. QED BY <1>1, <1>2

\* TransformOX, in panel coordinates, is that step.
LEMMA NeighborIsStep ==
  ASSUME NEW p \in Panel, NEW l2 \in 0 .. B - 1, NEW l3 \in 0 .. B - 1,
         NEW s \in Side
  PROVE  LET r == Step(p, l2, l3, s)
         IN  /\ NeighborLoc(At(p, l2, l3), s) = At(r.panel, r.l2, r.l3)
             /\ NeighborSide(At(p, l2, l3), s) = r.back
<1> DEFINE loc == At(p, l2, l3)
           r == Step(p, l2, l3, s)
           t == Seam(p, s, l2, l3)
<1>1. /\ FindBlockID(loc) = p
      /\ GetLocalIndex(loc).local_lx2 = l2
      /\ GetLocalIndex(loc).local_lx3 = l3
  BY IndexOfAt
<1>2. AtPanelEdge(loc, s) <=> OnEdge(l2, l3, s)
  BY <1>1 DEF AtPanelEdge, OnEdge
<1>3. loc.lx2 = PanelLx2(p) * B + l2 /\ loc.lx3 = PanelLx3(p) * B + l3
  BY DEF At
<1>4. CASE OnEdge(l2, l3, s) /\ t.panel > 0
  <2>1. r = t
    BY <1>4 DEF Step
  <2>2. TransformOX(loc, s) =
          [ox2  |-> PanelLx2(t.panel) * B + t.l2 - loc.lx2,
           ox3  |-> PanelLx3(t.panel) * B + t.l3 - loc.lx3,
           side |-> t.back]
    BY <1>1, <1>2, <1>4 DEF TransformOX
  <2>3. t.panel \in Panel /\ t.l2 \in Int /\ t.l3 \in Int
    BY <2>1, StepType, BAssumption
  <2>4. /\ loc.lx2 + (PanelLx2(t.panel) * B + t.l2 - loc.lx2)
             = PanelLx2(t.panel) * B + t.l2
        /\ loc.lx3 + (PanelLx3(t.panel) * B + t.l3 - loc.lx3)
             = PanelLx3(t.panel) * B + t.l3
    BY <2>3, <1>3, BAssumption DEF PanelLx2, PanelLx3, Panel
  <2>5. QED BY <2>1, <2>2, <2>4 DEF NeighborLoc, NeighborSide, At
<1>5. CASE ~ (OnEdge(l2, l3, s) /\ t.panel > 0)
  <2>1. TransformOX(loc, s) =
          [ox2 |-> Ox2(s), ox3 |-> Ox3(s), side |-> Opposite(s)]
    BY <1>1, <1>2, <1>5 DEF TransformOX
  <2>2. r.back = Opposite(s)
    BY <1>5 DEF Step
  <2>3. /\ loc.lx2 + Ox2(s) = PanelLx2(r.panel) * B + r.l2
        /\ loc.lx3 + Ox3(s) = PanelLx3(r.panel) * B + r.l3
    <3> USE BAssumption DEF Step, Ox2, Ox3, PanelLx2, PanelLx3, Panel, Side
    <3>1. CASE ~ OnEdge(l2, l3, s)
      BY <1>3, <3>1
    <3>2. CASE OnEdge(l2, l3, s) /\ ~ (t.panel > 0)
      <4> DEFINE q == p + 2 * Ox3(s) + Ox2(s)
      <4>1. <<p, s>> \in {<<1, "down">>, <<2, "up">>, <<2, "right">>,
                         <<4, "left">>, <<4, "right">>, <<6, "left">>}
        BY <3>2 DEF Seam
      <4>2. /\ r.panel = q
            /\ r.l2 = l2 - bound_lim * Ox2(s) /\ r.l3 = l3 - bound_lim * Ox3(s)
        BY <3>2
      <4>3. /\ PanelLx2(q) = PanelLx2(p) + Ox2(s)
            /\ PanelLx3(q) = PanelLx3(p) + Ox3(s)
        BY <4>1
      <4>4. /\ PanelLx2(p) \in Int /\ PanelLx3(p) \in Int
            /\ Ox2(s) \in {-1, 0, 1} /\ Ox3(s) \in {-1, 0, 1}
        OBVIOUS
      <4>5. QED BY ONLY BAssumption, <1>3, <4>2, <4>3, <4>4 DEF bound_lim
    <3>3. QED BY <1>5, <3>1, <3>2
  <2>4. QED BY <2>1, <2>2, <2>3 DEF NeighborLoc, NeighborSide, At
<1>6. QED BY <1>4, <1>5

-----------------------------------------------------------------------------
(* For every B and every face of every block, TransformOX finds a block of  *)
(* the mesh, and from that block, through the face it reports, finds the    *)
(* way back to the very face one came from.                                 *)
THEOREM NeighborInvolution ==
  ASSUME NEW loc \in Location, NEW s \in Side
  PROVE  LET n == NeighborLoc(loc, s)
             t == NeighborSide(loc, s)
         IN  /\ n \in Location
             /\ t \in Side
             /\ NeighborLoc(n, t) = loc
             /\ NeighborSide(n, t) = s
<1>1. PICK p \in Panel, l2, l3 \in 0 .. B - 1 : loc = At(p, l2, l3)
  BY LocationIsAt
<1> DEFINE r == Step(p, l2, l3, s)
<1>2. /\ NeighborLoc(loc, s) = At(r.panel, r.l2, r.l3)
      /\ NeighborSide(loc, s) = r.back
  BY <1>1, NeighborIsStep
<1>3. /\ r.panel \in Panel /\ r.l2 \in 0 .. B - 1 /\ r.l3 \in 0 .. B - 1
      /\ r.back \in Side
  BY StepType
<1>4. At(r.panel, r.l2, r.l3) \in Location
  BY <1>3, IndexOfAt
<1>5. Step(r.panel, r.l2, r.l3, r.back) =
        [panel |-> p, l2 |-> l2, l3 |-> l3, back |-> s]
  BY StepInvolution DEF Place
<1>6. /\ NeighborLoc(At(r.panel, r.l2, r.l3), r.back) = At(p, l2, l3)
      /\ NeighborSide(At(r.panel, r.l2, r.l3), r.back) = s
  BY <1>3, <1>5, NeighborIsStep DEF Place
<1>7. QED BY <1>1, <1>2, <1>3, <1>4, <1>6

\* The corners of a face in panel coordinates; crossing the face, one is at
\* the same two points.
Corners(p, l2, l3, s) == {FaceEnd(p, l2, l3, s, e) : e \in {0, 2}}

SameFace(p, l2, l3, s) ==
  LET r == Step(p, l2, l3, s)
  IN  Corners(r.panel, r.l2, r.l3, r.back) = Corners(p, l2, l3, s)

LEMMA InteriorFace ==
  ASSUME NEW p \in Panel, NEW l2 \in 0 .. B - 1, NEW l3 \in 0 .. B - 1,
         NEW s \in Side, ~ OnEdge(l2, l3, s)
  PROVE  SameFace(p, l2, l3, s)
<1> DEFINE r == Step(p, l2, l3, s)
<1>1. r.panel = p /\ \A e \in {0, 2} :
        FaceEnd(p, r.l2, r.l3, r.back, e) = FaceEnd(p, l2, l3, s, e)
  <2> USE BAssumption DEF Step, Opposite, Ox2, Ox3, FaceEnd, FaceX, FaceY
  <2>1. CASE s = "up"
    BY <2>1
  <2>2. CASE s = "down"
    BY <2>2
  <2>3. CASE s = "left"
    BY <2>3
  <2>4. CASE s = "right"
    BY <2>4
  <2>5. QED BY <2>1, <2>2, <2>3, <2>4 DEF Side
<1>2. QED BY <1>1 DEF SameFace, Corners

\* The same at each border of each panel.
LEMMA BorderFace ==
  ASSUME NEW l \in 0 .. B - 1
  PROVE  /\ SameFace(1, 0, l, "up")
         /\ SameFace(1, bound_lim, l, "down")
         /\ SameFace(1, l, 0, "left")
         /\ SameFace(1, l, bound_lim, "right")
         /\ SameFace(2, 0, l, "up")
         /\ SameFace(2, bound_lim, l, "down")
         /\ SameFace(2, l, 0, "left")
         /\ SameFace(2, l, bound_lim, "right")
         /\ SameFace(3, 0, l, "up")
         /\ SameFace(3, bound_lim, l, "down")
         /\ SameFace(3, l, 0, "left")
         /\ SameFace(3, l, bound_lim, "right")
         /\ SameFace(4, 0, l, "up")
         /\ SameFace(4, bound_lim, l, "down")
         /\ SameFace(4, l, 0, "left")
         /\ SameFace(4, l, bound_lim, "right")
         /\ SameFace(5, 0, l, "up")
         /\ SameFace(5, bound_lim, l, "down")
         /\ SameFace(5, l, 0, "left")
         /\ SameFace(5, l, bound_lim, "right")
         /\ SameFace(6, 0, l, "up")
         /\ SameFace(6, bound_lim, l, "down")
         /\ SameFace(6, l, 0, "left")
         /\ SameFace(6, l, bound_lim, "right")
<1>0. /\ bound_lim = B - 1 /\ B \in Int
      /\ l \in Int /\ bound_lim - l \in Int
  BY BAssumption DEF bound_lim
<1> USE DEF FaceEnd, FaceX, FaceY, SurfacePoint
<1>1. SameFace(1, 0, l, "up")
  <2>1. Step(1, 0, l, "up") = Place(6, 0, bound_lim - l, "up")
    BY EdgeStep
  <2>2. FaceEnd(6, 0, bound_lim - l, "up", 2)
          = FaceEnd(1, 0, l, "up", 0)
    BY <1>0
  <2>3. FaceEnd(6, 0, bound_lim - l, "up", 0)
          = FaceEnd(1, 0, l, "up", 2)
    BY <1>0
  <2>4. QED BY ONLY <2>1, <2>2, <2>3 DEF SameFace, Corners, Place
<1>2. SameFace(1, bound_lim, l, "down")
  <2>1. Step(1, bound_lim, l, "down") = Place(2, 0, l, "up")
    BY EdgeStep
  <2>2. FaceEnd(2, 0, l, "up", 0)
          = FaceEnd(1, bound_lim, l, "down", 0)
    BY <1>0
  <2>3. FaceEnd(2, 0, l, "up", 2)
          = FaceEnd(1, bound_lim, l, "down", 2)
    BY <1>0
  <2>4. QED BY ONLY <2>1, <2>2, <2>3 DEF SameFace, Corners, Place
<1>3. SameFace(1, l, 0, "left")
  <2>1. Step(1, l, 0, "left") = Place(3, 0, l, "up")
    BY EdgeStep
  <2>2. FaceEnd(3, 0, l, "up", 0)
          = FaceEnd(1, l, 0, "left", 0)
    BY <1>0
  <2>3. FaceEnd(3, 0, l, "up", 2)
          = FaceEnd(1, l, 0, "left", 2)
    BY <1>0
  <2>4. QED BY ONLY <2>1, <2>2, <2>3 DEF SameFace, Corners, Place
<1>4. SameFace(1, l, bound_lim, "right")
  <2>1. Step(1, l, bound_lim, "right") = Place(4, 0, bound_lim - l, "up")
    BY EdgeStep
  <2>2. FaceEnd(4, 0, bound_lim - l, "up", 2)
          = FaceEnd(1, l, bound_lim, "right", 0)
    BY <1>0
  <2>3. FaceEnd(4, 0, bound_lim - l, "up", 0)
          = FaceEnd(1, l, bound_lim, "right", 2)
    BY <1>0
  <2>4. QED BY ONLY <2>1, <2>2, <2>3 DEF SameFace, Corners, Place
<1>5. SameFace(2, 0, l, "up")
  <2>1. Step(2, 0, l, "up") = Place(1, bound_lim, l, "down")
    BY EdgeStep
  <2>2. FaceEnd(1, bound_lim, l, "down", 0)
          = FaceEnd(2, 0, l, "up", 0)
    BY <1>0
  <2>3. FaceEnd(1, bound_lim, l, "down", 2)
          = FaceEnd(2, 0, l, "up", 2)
    BY <1>0
  <2>4. QED BY ONLY <2>1, <2>2, <2>3 DEF SameFace, Corners, Place
<1>6. SameFace(2, bound_lim, l, "down")
  <2>1. Step(2, bound_lim, l, "down") = Place(5, 0, l, "up")
    BY EdgeStep
  <2>2. FaceEnd(5, 0, l, "up", 0)
          = FaceEnd(2, bound_lim, l, "down", 0)
    BY <1>0
  <2>3. FaceEnd(5, 0, l, "up", 2)
          = FaceEnd(2, bound_lim, l, "down", 2)
    BY <1>0
  <2>4. QED BY ONLY <2>1, <2>2, <2>3 DEF SameFace, Corners, Place
<1>7. SameFace(2, l, 0, "left")
  <2>1. Step(2, l, 0, "left") = Place(3, l, bound_lim, "right")
    BY EdgeStep
  <2>2. FaceEnd(3, l, bound_lim, "right", 0)
          = FaceEnd(2, l, 0, "left", 0)
    BY <1>0
  <2>3. FaceEnd(3, l, bound_lim, "right", 2)
          = FaceEnd(2, l, 0, "left", 2)
    BY <1>0
  <2>4. QED BY ONLY <2>1, <2>2, <2>3 DEF SameFace, Corners, Place
<1>8. SameFace(2, l, bound_lim, "right")
  <2>1. Step(2, l, bound_lim, "right") = Place(4, l, 0, "left")
    BY EdgeStep
  <2>2. FaceEnd(4, l, 0, "left", 0)
          = FaceEnd(2, l, bound_lim, "right", 0)
    BY <1>0
  <2>3. FaceEnd(4, l, 0, "left", 2)
          = FaceEnd(2, l, bound_lim, "right", 2)
    BY <1>0
  <2>4. QED BY ONLY <2>1, <2>2, <2>3 DEF SameFace, Corners, Place
<1>9. SameFace(3, 0, l, "up")
  <2>1. Step(3, 0, l, "up") = Place(1, l, 0, "left")
    BY EdgeStep
  <2>2. FaceEnd(1, l, 0, "left", 0)
          = FaceEnd(3, 0, l, "up", 0)
    BY <1>0
  <2>3. FaceEnd(1, l, 0, "left", 2)
          = FaceEnd(3, 0, l, "up", 2)
    BY <1>0
  <2>4. QED BY ONLY <2>1, <2>2, <2>3 DEF SameFace, Corners, Place
<1>10. SameFace(3, bound_lim, l, "down")
  <2>1. Step(3, bound_lim, l, "down") = Place(5, bound_lim - l, 0, "left")
    BY EdgeStep
  <2>2. FaceEnd(5, bound_lim - l, 0, "left", 2)
          = FaceEnd(3, bound_lim, l, "down", 0)
    BY <1>0
  <2>3. FaceEnd(5, bound_lim - l, 0, "left", 0)
          = FaceEnd(3, bound_lim, l, "down", 2)
    BY <1>0
  <2>4. QED BY ONLY <2>1, <2>2, <2>3 DEF SameFace, Corners, Place
<1>11. SameFace(3, l, 0, "left")
  <2>1. Step(3, l, 0, "left") = Place(6, l, bound_lim, "right")
    BY EdgeStep
  <2>2. FaceEnd(6, l, bound_lim, "right", 0)
          = FaceEnd(3, l, 0, "left", 0)
    BY <1>0
  <2>3. FaceEnd(6, l, bound_lim, "right", 2)
          = FaceEnd(3, l, 0, "left", 2)
    BY <1>0
  <2>4. QED BY ONLY <2>1, <2>2, <2>3 DEF SameFace, Corners, Place
<1>12. SameFace(3, l, bound_lim, "right")
  <2>1. Step(3, l, bound_lim, "right") = Place(2, l, 0, "left")
    BY EdgeStep
  <2>2. FaceEnd(2, l, 0, "left", 0)
          = FaceEnd(3, l, bound_lim, "right", 0)
    BY <1>0
  <2>3. FaceEnd(2, l, 0, "left", 2)
          = FaceEnd(3, l, bound_lim, "right", 2)
    BY <1>0
  <2>4. QED BY ONLY <2>1, <2>2, <2>3 DEF SameFace, Corners, Place
<1>13. SameFace(4, 0, l, "up")
  <2>1. Step(4, 0, l, "up") = Place(1, bound_lim - l, bound_lim, "right")
    BY EdgeStep
  <2>2. FaceEnd(1, bound_lim - l, bound_lim, "right", 2)
          = FaceEnd(4, 0, l, "up", 0)
    BY <1>0
  <2>3. FaceEnd(1, bound_lim - l, bound_lim, "right", 0)
          = FaceEnd(4, 0, l, "up", 2)
    BY <1>0
  <2>4. QED BY ONLY <2>1, <2>2, <2>3 DEF SameFace, Corners, Place
<1>14. SameFace(4, bound_lim, l, "down")
  <2>1. Step(4, bound_lim, l, "down") = Place(5, l, bound_lim, "right")
    BY EdgeStep
  <2>2. FaceEnd(5, l, bound_lim, "right", 0)
          = FaceEnd(4, bound_lim, l, "down", 0)
    BY <1>0
  <2>3. FaceEnd(5, l, bound_lim, "right", 2)
          = FaceEnd(4, bound_lim, l, "down", 2)
    BY <1>0
  <2>4. QED BY ONLY <2>1, <2>2, <2>3 DEF SameFace, Corners, Place
<1>15. SameFace(4, l, 0, "left")
  <2>1. Step(4, l, 0, "left") = Place(2, l, bound_lim, "right")
    BY EdgeStep
  <2>2. FaceEnd(2, l, bound_lim, "right", 0)
          = FaceEnd(4, l, 0, "left", 0)
    BY <1>0
  <2>3. FaceEnd(2, l, bound_lim, "right", 2)
          = FaceEnd(4, l, 0, "left", 2)
    BY <1>0
  <2>4. QED BY ONLY <2>1, <2>2, <2>3 DEF SameFace, Corners, Place
<1>16. SameFace(4, l, bound_lim, "right")
  <2>1. Step(4, l, bound_lim, "right") = Place(6, l, 0, "left")
    BY EdgeStep
  <2>2. FaceEnd(6, l, 0, "left", 0)
          = FaceEnd(4, l, bound_lim, "right", 0)
    BY <1>0
  <2>3. FaceEnd(6, l, 0, "left", 2)
          = FaceEnd(4, l, bound_lim, "right", 2)
    BY <1>0
  <2>4. QED BY ONLY <2>1, <2>2, <2>3 DEF SameFace, Corners, Place
<1>17. SameFace(5, 0, l, "up")
  <2>1. Step(5, 0, l, "up") = Place(2, bound_lim, l, "down")
    BY EdgeStep
  <2>2. FaceEnd(2, bound_lim, l, "down", 0)
          = FaceEnd(5, 0, l, "up", 0)
    BY <1>0
  <2>3. FaceEnd(2, bound_lim, l, "down", 2)
          = FaceEnd(5, 0, l, "up", 2)
    BY <1>0
  <2>4. QED BY ONLY <2>1, <2>2, <2>3 DEF SameFace, Corners, Place
<1>18. SameFace(5, bound_lim, l, "down")
  <2>1. Step(5, bound_lim, l, "down") = Place(6, bound_lim, bound_lim - l, "down")
    BY EdgeStep
  <2>2. FaceEnd(6, bound_lim, bound_lim - l, "down", 2)
          = FaceEnd(5, bound_lim, l, "down", 0)
    BY <1>0
  <2>3. FaceEnd(6, bound_lim, bound_lim - l, "down", 0)
          = FaceEnd(5, bound_lim, l, "down", 2)
    BY <1>0
  <2>4. QED BY ONLY <2>1, <2>2, <2>3 DEF SameFace, Corners, Place
<1>19. SameFace(5, l, 0, "left")
  <2>1. Step(5, l, 0, "left") = Place(3, bound_lim, bound_lim - l, "down")
    BY EdgeStep
  <2>2. FaceEnd(3, bound_lim, bound_lim - l, "down", 2)
          = FaceEnd(5, l, 0, "left", 0)
    BY <1>0
  <2>3. FaceEnd(3, bound_lim, bound_lim - l, "down", 0)
          = FaceEnd(5, l, 0, "left", 2)
    BY <1>0
  <2>4. QED BY ONLY <2>1, <2>2, <2>3 DEF SameFace, Corners, Place
<1>20. SameFace(5, l, bound_lim, "right")
  <2>1. Step(5, l, bound_lim, "right") = Place(4, bound_lim, l, "down")
    BY EdgeStep
  <2>2. FaceEnd(4, bound_lim, l, "down", 0)
          = FaceEnd(5, l, bound_lim, "right", 0)
    BY <1>0
  <2>3. FaceEnd(4, bound_lim, l, "down", 2)
          = FaceEnd(5, l, bound_lim, "right", 2)
    BY <1>0
  <2>4. QED BY ONLY <2>1, <2>2, <2>3 DEF SameFace, Corners, Place
<1>21. SameFace(6, 0, l, "up")
  <2>1. Step(6, 0, l, "up") = Place(1, 0, bound_lim - l, "up")
    BY EdgeStep
  <2>2. FaceEnd(1, 0, bound_lim - l, "up", 2)
          = FaceEnd(6, 0, l, "up", 0)
    BY <1>0
  <2>3. FaceEnd(1, 0, bound_lim - l, "up", 0)
          = FaceEnd(6, 0, l, "up", 2)
    BY <1>0
  <2>4. QED BY ONLY <2>1, <2>2, <2>3 DEF SameFace, Corners, Place
<1>22. SameFace(6, bound_lim, l, "down")
  <2>1. Step(6, bound_lim, l, "down") = Place(5, bound_lim, bound_lim - l, "down")
    BY EdgeStep
  <2>2. FaceEnd(5, bound_lim, bound_lim - l, "down", 2)
          = FaceEnd(6, bound_lim, l, "down", 0)
    BY <1>0
  <2>3. FaceEnd(5, bound_lim, bound_lim - l, "down", 0)
          = FaceEnd(6, bound_lim, l, "down", 2)
    BY <1>0
  <2>4. QED BY ONLY <2>1, <2>2, <2>3 DEF SameFace, Corners, Place
<1>23. SameFace(6, l, 0, "left")
  <2>1. Step(6, l, 0, "left") = Place(4, l, bound_lim, "right")
    BY EdgeStep
  <2>2. FaceEnd(4, l, bound_lim, "right", 0)
          = FaceEnd(6, l, 0, "left", 0)
    BY <1>0
  <2>3. FaceEnd(4, l, bound_lim, "right", 2)
          = FaceEnd(6, l, 0, "left", 2)
    BY <1>0
  <2>4. QED BY ONLY <2>1, <2>2, <2>3 DEF SameFace, Corners, Place
<1>24. SameFace(6, l, bound_lim, "right")
  <2>1. Step(6, l, bound_lim, "right") = Place(3, l, 0, "left")
    BY EdgeStep
  <2>2. FaceEnd(3, l, 0, "left", 0)
          = FaceEnd(6, l, bound_lim, "right", 0)
    BY <1>0
  <2>3. FaceEnd(3, l, 0, "left", 2)
          = FaceEnd(6, l, bound_lim, "right", 2)
    BY <1>0
  <2>4. QED BY ONLY <2>1, <2>2, <2>3 DEF SameFace, Corners, Place
<1>25. QED BY ONLY <1>1, <1>2, <1>3, <1>4, <1>5, <1>6, <1>7, <1>8, <1>9, <1>10, <1>11, <1>12, <1>13, <1>14, <1>15, <1>16, <1>17, <1>18, <1>19, <1>20, <1>21, <1>22, <1>23, <1>24

LEMMA StepCorners ==
  ASSUME NEW p \in Panel, NEW l2 \in 0 .. B - 1, NEW l3 \in 0 .. B - 1,
         NEW s \in Side
  PROVE  SameFace(p, l2, l3, s)
<1>1. CASE ~ OnEdge(l2, l3, s)
  BY <1>1, InteriorFace
<1>2. CASE OnEdge(l2, l3, s)
  <2>1. CASE s = "up"
    BY <1>2, <2>1, BorderFace DEF OnEdge, Panel
  <2>2. CASE s = "down"
    BY <1>2, <2>2, BorderFace DEF OnEdge, Panel
  <2>3. CASE s = "left"
    BY <1>2, <2>3, BorderFace DEF OnEdge, Panel
  <2>4. CASE s = "right"
    BY <1>2, <2>4, BorderFace DEF OnEdge, Panel
  <2>5. QED BY <2>1, <2>2, <2>3, <2>4 DEF Side
<1>3. QED BY <1>1, <1>2

LEMMA FaceCornersAt ==
  ASSUME NEW p \in Panel, NEW l2 \in 0 .. B - 1, NEW l3 \in 0 .. B - 1,
         NEW s \in Side
  PROVE  FaceCorners(At(p, l2, l3), s) = Corners(p, l2, l3, s)
BY IndexOfAt DEF FaceCorners, Corners

(* For every B, the two faces TransformOX joins are the same edge of the    *)
(* sphere under the charts by which cells get their latitude and longitude. *)
THEOREM NeighborSharesEdge ==
  ASSUME NEW loc \in Location, NEW s \in Side
  PROVE  FaceCorners(loc, s) =
           FaceCorners(NeighborLoc(loc, s), NeighborSide(loc, s))
<1>1. PICK p \in Panel, l2, l3 \in 0 .. B - 1 : loc = At(p, l2, l3)
  BY LocationIsAt
<1> DEFINE r == Step(p, l2, l3, s)
<1>2. /\ NeighborLoc(loc, s) = At(r.panel, r.l2, r.l3)
      /\ NeighborSide(loc, s) = r.back
  BY <1>1, NeighborIsStep
<1>3. /\ r.panel \in Panel /\ r.l2 \in 0 .. B - 1 /\ r.l3 \in 0 .. B - 1
      /\ r.back \in Side
  BY StepType
<1>4. FaceCorners(loc, s) = Corners(p, l2, l3, s)
  BY <1>1, FaceCornersAt
<1>5. FaceCorners(At(r.panel, r.l2, r.l3), r.back)
        = Corners(r.panel, r.l2, r.l3, r.back)
  BY <1>3, FaceCornersAt
<1>6. Corners(r.panel, r.l2, r.l3, r.back) = Corners(p, l2, l3, s)
  BY StepCorners DEF SameFace
<1>7. QED BY <1>2, <1>4, <1>5, <1>6
=============================================================================
