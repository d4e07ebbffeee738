-------------------------- MODULE FluxSyncTheorems --------------------------
(***************************************************************************)
(* Proofs about FluxSync: for any number of blocks on a panel, cells in a  *)
(* block and stages, with one block on each rank.                          *)
(***************************************************************************)
EXTENDS FluxSync, CubedSphereTheorems, SequenceTheorems

-----------------------------------------------------------------------------
(* Faces across a border, in panel coordinates.                             *)

\* FacePosition of the block at l2, l3 of a panel.
FaceAt(l2, l3, s, i) ==
  CASE s = "up"    -> <<-B * N, Along(l3, i)>>
    [] s = "down"  -> << B * N, Along(l3, i)>>
    [] s = "left"  -> <<Along(l2, i), -B * N>>
    [] s = "right" -> <<Along(l2, i),  B * N>>

\* The cell that Packed puts at i.
PackedCell(p, s, i) == IF dinv(p, s) THEN N - i ELSE i - 1

\* What FaceMatches asks of cell i of face s and of the face it arrives at.
CellMatches(p, l2, l3, s, i) ==
  LET r    == Step(p, l2, l3, s)
      from == FaceAt(l2, l3, s, PackedCell(p, s, i))
      to   == FaceAt(r.l2, r.l3, r.back, i - 1)
      pos  == Along(IF s \in {"up", "down"} THEN l3 ELSE l2, PackedCell(p, s, i))
      side == IF dinv(p, s) THEN -pos ELSE pos
  IN  /\ r.panel = tgbid(p, s)
      /\ SurfacePoint(p, from[1], from[2], B * N)
           = SurfacePoint(r.panel, to[1], to[2], B * N)
      /\ to = CASE r.back = "up"    -> <<-B * N, side>>
                [] r.back = "down"  -> << B * N, side>>
                [] r.back = "left"  -> <<side, -B * N>>
                [] r.back = "right" -> <<side,  B * N>>

LEMMA AlongMirror ==
  ASSUME NEW l \in 0 .. B - 1, NEW i \in 1 .. N
  PROVE  /\ B * N \in Int
         /\ Along(l, i - 1) \in Int /\ Along(l, N - i) \in Int
         /\ Along(bound_lim - l, i - 1) = - Along(l, N - i)
<1> USE BAssumption, FluxAssumption
<1>1. B * N \in Int /\ l * N \in Int OBVIOUS
<1>2. (B - 1 - l) * N = B * N - N - l * N OBVIOUS
<1>3. QED BY <1>1, <1>2 DEF Along, bound_lim

LEMMA BorderMatches ==
  ASSUME NEW l \in 0 .. B - 1, NEW i \in 1 .. N
  PROVE  /\ CellMatches(1, 0, l, "up", i)
         /\ CellMatches(1, bound_lim, l, "down", i)
         /\ CellMatches(1, l, 0, "left", i)
         /\ CellMatches(1, l, bound_lim, "right", i)
         /\ CellMatches(2, 0, l, "up", i)
         /\ CellMatches(2, bound_lim, l, "down", i)
         /\ CellMatches(2, l, 0, "left", i)
         /\ CellMatches(2, l, bound_lim, "right", i)
         /\ CellMatches(3, 0, l, "up", i)
         /\ CellMatches(3, bound_lim, l, "down", i)
         /\ CellMatches(3, l, 0, "left", i)
         /\ CellMatches(3, l, bound_lim, "right", i)
         /\ CellMatches(4, 0, l, "up", i)
         /\ CellMatches(4, bound_lim, l, "down", i)
         /\ CellMatches(4, l, 0, "left", i)
         /\ CellMatches(4, l, bound_lim, "right", i)
         /\ CellMatches(5, 0, l, "up", i)
         /\ CellMatches(5, bound_lim, l, "down", i)
         /\ CellMatches(5, l, 0, "left", i)
         /\ CellMatches(5, l, bound_lim, "right", i)
         /\ CellMatches(6, 0, l, "up", i)
         /\ CellMatches(6, bound_lim, l, "down", i)
         /\ CellMatches(6, l, 0, "left", i)
         /\ CellMatches(6, l, bound_lim, "right", i)
<1> DEFINE K == B * N
           a == Along(l, i - 1)
           z == Along(l, N - i)
<1>0. /\ K \in Int /\ a \in Int /\ z \in Int /\ Along(bound_lim - l, i - 1) = -z
      /\ B * N = K /\ Along(l, i - 1) = a /\ Along(l, N - i) = z /\ -B * N = -K
  BY AlongMirror, BAssumption, FluxAssumption
<1> HIDE DEF K, a, z
<1> USE DEF CellMatches, FaceAt, PackedCell, dinv, tgbid, SurfacePoint, Place
<1>1. CellMatches(1, 0, l, "up", i) BY <1>0, EdgeStep
<1>2. CellMatches(1, bound_lim, l, "down", i) BY <1>0, EdgeStep
<1>3. CellMatches(1, l, 0, "left", i) BY <1>0, EdgeStep
<1>4. CellMatches(1, l, bound_lim, "right", i) BY <1>0, EdgeStep
<1>5. CellMatches(2, 0, l, "up", i) BY <1>0, EdgeStep
<1>6. CellMatches(2, bound_lim, l, "down", i) BY <1>0, EdgeStep
<1>7. CellMatches(2, l, 0, "left", i) BY <1>0, EdgeStep
<1>8. CellMatches(2, l, bound_lim, "right", i) BY <1>0, EdgeStep
<1>9. CellMatches(3, 0, l, "up", i) BY <1>0, EdgeStep
<1>10. CellMatches(3, bound_lim, l, "down", i) BY <1>0, EdgeStep
<1>11. CellMatches(3, l, 0, "left", i) BY <1>0, EdgeStep
<1>12. CellMatches(3, l, bound_lim, "right", i) BY <1>0, EdgeStep
<1>13. CellMatches(4, 0, l, "up", i) BY <1>0, EdgeStep
<1>14. CellMatches(4, bound_lim, l, "down", i) BY <1>0, EdgeStep
<1>15. CellMatches(4, l, 0, "left", i) BY <1>0, EdgeStep
<1>16. CellMatches(4, l, bound_lim, "right", i) BY <1>0, EdgeStep
<1>17. CellMatches(5, 0, l, "up", i) BY <1>0, EdgeStep
<1>18. CellMatches(5, bound_lim, l, "down", i) BY <1>0, EdgeStep
<1>19. CellMatches(5, l, 0, "left", i) BY <1>0, EdgeStep
<1>20. CellMatches(5, l, bound_lim, "right", i) BY <1>0, EdgeStep
<1>21. CellMatches(6, 0, l, "up", i) BY <1>0, EdgeStep
<1>22. CellMatches(6, bound_lim, l, "down", i) BY <1>0, EdgeStep
<1>23. CellMatches(6, l, 0, "left", i) BY <1>0, EdgeStep
<1>24. CellMatches(6, l, bound_lim, "right", i) BY <1>0, EdgeStep
<1>25. QED BY ONLY <1>1, <1>2, <1>3, <1>4, <1>5, <1>6, <1>7, <1>8,
               <1>9, <1>10, <1>11, <1>12, <1>13, <1>14, <1>15, <1>16,
               <1>17, <1>18, <1>19, <1>20, <1>21, <1>22, <1>23, <1>24

LEMMA EdgeMatches ==
  ASSUME NEW p \in Panel, NEW l2 \in 0 .. B - 1, NEW l3 \in 0 .. B - 1,
         NEW s \in Side, OnEdge(l2, l3, s), NEW i \in 1 .. N
  PROVE  CellMatches(p, l2, l3, s, i)
<1>1. CASE s = "up"    BY <1>1, BorderMatches DEF OnEdge, Panel
<1>2. CASE s = "down"  BY <1>2, BorderMatches DEF OnEdge, Panel
<1>3. CASE s = "left"  BY <1>3, BorderMatches DEF OnEdge, Panel
<1>4. CASE s = "right" BY <1>4, BorderMatches DEF OnEdge, Panel
<1>5. QED BY <1>1, <1>2, <1>3, <1>4 DEF Side

\* The four faces of a panel lead to four other panels.
LEMMA TargetsDiffer ==
  ASSUME NEW p \in Panel, NEW s \in Side
  PROVE  /\ tgbid(p, s) # p
         /\ \A t \in Side : tgbid(p, s) = tgbid(p, t) => s = t
BY DEF tgbid, Panel, Side

\* A border is reached from the other side through a border.
LEMMA EdgeReached ==
  ASSUME NEW p \in Panel, NEW l2 \in 0 .. B - 1, NEW l3 \in 0 .. B - 1,
         NEW s \in Side, OnEdge(l2, l3, s)
  PROVE  LET r == Step(p, l2, l3, s) IN OnEdge(r.l2, r.l3, r.back)
<1>1. ASSUME NEW l \in 0 .. B - 1
      PROVE  LET r == Step(p, 0, l, "up") IN OnEdge(r.l2, r.l3, r.back)
  BY <1>1, EdgeStep DEF OnEdge, Panel, Place
<1>2. ASSUME NEW l \in 0 .. B - 1
      PROVE  LET r == Step(p, bound_lim, l, "down") IN OnEdge(r.l2, r.l3, r.back)
  BY <1>2, EdgeStep DEF OnEdge, Panel, Place
<1>3. ASSUME NEW l \in 0 .. B - 1
      PROVE  LET r == Step(p, l, 0, "left") IN OnEdge(r.l2, r.l3, r.back)
  BY <1>3, EdgeStep DEF OnEdge, Panel, Place
<1>4. ASSUME NEW l \in 0 .. B - 1
      PROVE  LET r == Step(p, l, bound_lim, "right") IN OnEdge(r.l2, r.l3, r.back)
  BY <1>4, EdgeStep DEF OnEdge, Panel, Place
<1>5. QED BY <1>1, <1>2, <1>3, <1>4 DEF OnEdge

-----------------------------------------------------------------------------
(* The neighbour table.                                                     *)

\* The block and the face across face s.
Over(g, s) == Neighbor[g][s].gid
Seen(g, s) == Neighbor[g][s].side

LEMMA GidLocated ==
  ASSUME NEW g \in Gid
  PROVE  /\ LocOf[g] \in Location
         /\ \E p \in Panel, l2, l3 \in 0 .. B - 1 : LocOf[g] = At(p, l2, l3)
<1>1. LocOf[g] \in Location BY FluxAssumption
<1>2. QED BY <1>1, LocationIsAt

LEMMA OverLocated ==
  ASSUME NEW g \in Gid, NEW s \in Side
  PROVE  /\ Over(g, s) \in Gid /\ Seen(g, s) \in Side
         /\ LocOf[Over(g, s)] = NeighborLoc(LocOf[g], s)
         /\ Seen(g, s) = NeighborSide(LocOf[g], s)
<1>1. LocOf[g] \in Location BY FluxAssumption
<1>2. NeighborLoc(LocOf[g], s) \in Location /\ NeighborSide(LocOf[g], s) \in Side
  BY <1>1, NeighborInvolution
<1>3. \E h \in Gid : LocOf[h] = NeighborLoc(LocOf[g], s) BY <1>2, FluxAssumption
<1>4. Over(g, s) = CHOOSE h \in Gid : LocOf[h] = NeighborLoc(LocOf[g], s)
  BY DEF Over, Neighbor
<1>5. Seen(g, s) = NeighborSide(LocOf[g], s) BY DEF Seen, Neighbor
<1>6. QED BY <1>2, <1>3, <1>4, <1>5

LEMMA OverOver ==
  ASSUME NEW g \in Gid, NEW s \in Side
  PROVE  Over(Over(g, s), Seen(g, s)) = g /\ Seen(Over(g, s), Seen(g, s)) = s
<1> DEFINE h == Over(g, s)
           t == Seen(g, s)
<1>1. h \in Gid /\ t \in Side /\ LocOf[h] = NeighborLoc(LocOf[g], s)
      /\ t = NeighborSide(LocOf[g], s)
  BY OverLocated
<1>2. NeighborLoc(LocOf[h], t) = LocOf[g] /\ NeighborSide(LocOf[h], t) = s
  BY <1>1, GidLocated, NeighborInvolution
<1> HIDE DEF h, t
<1>3. /\ Over(h, t) \in Gid /\ LocOf[Over(h, t)] = LocOf[g] /\ Seen(h, t) = s
  BY <1>1, <1>2, OverLocated
<1>4. Over(h, t) = g BY <1>3, FluxAssumption
<1>5. QED BY <1>3, <1>4 DEF h, t

\* Where a border face is.
LEMMA BorderAt ==
  ASSUME NEW g \in Gid, NEW s
  PROVE  /\ s \in Border[g] <=> s \in Side /\ AtPanelEdge(LocOf[g], s)
         /\ \A p \in Panel, l2, l3 \in 0 .. B - 1 :
              LocOf[g] = At(p, l2, l3) =>
                /\ FindBlockID(LocOf[g]) = p
                /\ s \in Border[g] <=> s \in Side /\ OnEdge(l2, l3, s)
                /\ \A i : FacePosition(g, s, i) = FaceAt(l2, l3, s, i)
<1>1. s \in Border[g] <=> s \in Side /\ AtPanelEdge(LocOf[g], s)
  BY DEF Border
<1>2. ASSUME NEW p \in Panel, NEW l2 \in 0 .. B - 1, NEW l3 \in 0 .. B - 1,
             LocOf[g] = At(p, l2, l3)
      PROVE  /\ FindBlockID(LocOf[g]) = p
             /\ s \in Border[g] <=> s \in Side /\ OnEdge(l2, l3, s)
             /\ \A i : FacePosition(g, s, i) = FaceAt(l2, l3, s, i)
  <2>1. /\ FindBlockID(LocOf[g]) = p /\ GetLocalIndex(LocOf[g]).local_lx2 = l2
        /\ GetLocalIndex(LocOf[g]).local_lx3 = l3
    BY <1>2, IndexOfAt
  <2>2. AtPanelEdge(LocOf[g], s) <=> OnEdge(l2, l3, s)
    BY <2>1 DEF AtPanelEdge, OnEdge
  <2>3. \A i : FacePosition(g, s, i) = FaceAt(l2, l3, s, i)
    BY <2>1 DEF FacePosition, FaceAt
  <2>4. QED BY <1>1, <2>1, <2>2, <2>3
<1>3. QED BY <1>1, <1>2

\* Across a border lies a block of another panel, seen through a border.
LEMMA OverBorder ==
  ASSUME NEW g \in Gid, NEW s \in Border[g]
  PROVE  /\ s \in Side /\ Over(g, s) \in Gid /\ Seen(g, s) \in Border[Over(g, s)]
         /\ FindBlockID(LocOf[Over(g, s)]) = tgbid(FindBlockID(LocOf[g]), s)
         /\ Over(g, s) # g
<1>1. PICK p \in Panel, l2 \in 0 .. B - 1, l3 \in 0 .. B - 1 : LocOf[g] = At(p, l2, l3)
  BY GidLocated
<1>2. s \in Side /\ OnEdge(l2, l3, s) /\ FindBlockID(LocOf[g]) = p BY <1>1, BorderAt
<1> DEFINE r == Step(p, l2, l3, s)
           h == Over(g, s)
<1>3. /\ r.panel \in Panel /\ r.l2 \in 0 .. B - 1 /\ r.l3 \in 0 .. B - 1
      /\ r.back \in Side
  BY <1>2, StepType
<1>4. NeighborLoc(At(p, l2, l3), s) = At(r.panel, r.l2, r.l3)
      /\ NeighborSide(At(p, l2, l3), s) = r.back
  BY <1>2, NeighborIsStep
<1>5. /\ h \in Gid /\ LocOf[h] = At(r.panel, r.l2, r.l3) /\ Seen(g, s) = r.back
  BY <1>1, <1>2, <1>4, OverLocated
<1>6. OnEdge(r.l2, r.l3, r.back) BY <1>2, EdgeReached
<1>7. 1 \in 1 .. N BY FluxAssumption
<1>8. r.panel = tgbid(p, s) BY <1>2, <1>7, EdgeMatches DEF CellMatches
<1> HIDE DEF r, h
<1>9. r.back \in Border[h] /\ FindBlockID(LocOf[h]) = r.panel
  BY <1>3, <1>5, <1>6, BorderAt
<1>10. FindBlockID(LocOf[h]) # FindBlockID(LocOf[g])
  BY <1>2, <1>8, <1>9, TargetsDiffer
<1>11. QED BY <1>2, <1>5, <1>8, <1>9, <1>10 DEF h

\* No block is across two borders.
LEMMA OverInjective ==
  ASSUME NEW g \in Gid, NEW s \in Border[g], NEW t \in Border[g], Over(g, s) = Over(g, t)
  PROVE  s = t
<1>1. tgbid(FindBlockID(LocOf[g]), s) = tgbid(FindBlockID(LocOf[g]), t)
  BY OverBorder
<1>2. FindBlockID(LocOf[g]) \in Panel
  <2>1. PICK p \in Panel, l2 \in 0 .. B - 1, l3 \in 0 .. B - 1 : LocOf[g] = At(p, l2, l3)
    BY GidLocated
  <2>2. QED BY <2>1, BorderAt
<1>3. s \in Side /\ t \in Side BY OverBorder
<1>4. QED BY <1>1, <1>2, <1>3, TargetsDiffer

\* What is packed on the other side fits.
LEMMA BordersMatch ==
  ASSUME NEW m \in Gid, NEW t \in Border[m]
  PROVE  FaceMatches[m][t][Over(m, t)][Seen(m, t)]
<1> DEFINE g == Over(m, t)
           s == Seen(m, t)
<1>1. PICK p \in Panel, l2 \in 0 .. B - 1, l3 \in 0 .. B - 1 : LocOf[m] = At(p, l2, l3)
  BY GidLocated
<1>2. t \in Side /\ OnEdge(l2, l3, t) /\ FindBlockID(LocOf[m]) = p BY <1>1, BorderAt
<1> DEFINE r == Step(p, l2, l3, t)
<1>3. /\ r.panel \in Panel /\ r.l2 \in 0 .. B - 1 /\ r.l3 \in 0 .. B - 1
      /\ r.back \in Side
  BY <1>2, StepType
<1>4. NeighborLoc(At(p, l2, l3), t) = At(r.panel, r.l2, r.l3)
      /\ NeighborSide(At(p, l2, l3), t) = r.back
  BY <1>2, NeighborIsStep
<1>5. g \in Gid /\ LocOf[g] = At(r.panel, r.l2, r.l3) /\ s = r.back /\ m # g
  BY <1>1, <1>2, <1>4, OverLocated, OverBorder
<1>6. /\ FindBlockID(LocOf[g]) = r.panel
      /\ \A i : FacePosition(g, s, i) = FaceAt(r.l2, r.l3, s, i)
      /\ \A i : FacePosition(m, t, i) = FaceAt(l2, l3, t, i)
  <2> HIDE DEF r, g, s
  <2>1. QED BY <1>1, <1>3, <1>5, BorderAt
<1>7. GetLocalIndex(LocOf[m]).local_lx2 = l2 /\ GetLocalIndex(LocOf[m]).local_lx3 = l3
  BY <1>1, IndexOfAt
<1>8. ASSUME NEW i \in 1 .. N
      PROVE  LET c == Packed(m, t)[i]
             IN  /\ c.gid # g
                 /\ FacePoint(c.gid, c.face, c.cell) = FacePoint(g, s, i - 1)
                 /\ c.panel = Own(g, s)[i].panel
                 /\ c.pos = Own(g, s)[i].pos
  <2> DEFINE j == PackedCell(p, t, i)
  <2>1. Packed(m, t)[i] = Cell(m, t, j, tgbid(p, t), ProjectedTo(m, t, j))
    <3> DEFINE data == [k \in 1 .. N |->
                 Cell(m, t, k - 1, tgbid(p, t), ProjectedTo(m, t, k - 1))]
    <3>1. Len(data) = N BY FluxAssumption
    <3>2. CASE dinv(p, t)
      <4>1. Packed(m, t) = Reverse(data) BY <1>2, <3>2 DEF Packed
      <4>2. Reverse(data)[i] = data[(N - i) + 1]
        <5> HIDE DEF data
        <5>1. QED BY <3>1 DEF Reverse
      <4>3. (N - i) + 1 \in 1 .. N /\ ((N - i) + 1) - 1 = N - i BY FluxAssumption
      <4>4. data[(N - i) + 1] = Cell(m, t, N - i, tgbid(p, t), ProjectedTo(m, t, N - i))
        BY <4>3, Zenon
      <4>5. QED BY <3>2, <4>1, <4>2, <4>4 DEF PackedCell
    <3>3. CASE ~ dinv(p, t)
      <4>1. Packed(m, t) = data BY <1>2, <3>3 DEF Packed
      <4>2. data[i] = Cell(m, t, i - 1, tgbid(p, t), ProjectedTo(m, t, i - 1)) OBVIOUS
      <4>3. QED BY <3>3, <4>1, <4>2 DEF PackedCell
    <3>4. QED BY <3>2, <3>3
  <2>2. Own(g, s)[i].panel = r.panel /\ Own(g, s)[i].pos = FaceAt(r.l2, r.l3, r.back, i - 1)
    <3> HIDE DEF r, g, s
    <3>1. Own(g, s)[i] = Cell(g, s, i - 1, r.panel, FaceAt(r.l2, r.l3, s, i - 1))
      BY <1>6 DEF Own
    <3>2. QED BY <1>5, <3>1 DEF Cell
  <2>3. FacePoint(g, s, i - 1) =
          SurfacePoint(r.panel, FaceAt(r.l2, r.l3, r.back, i - 1)[1],
                       FaceAt(r.l2, r.l3, r.back, i - 1)[2], B * N)
    <3> HIDE DEF r, g, s
    <3>1. QED BY <1>5, <1>6 DEF FacePoint
  <2>4. FacePoint(m, t, j) =
          SurfacePoint(p, FaceAt(l2, l3, t, j)[1], FaceAt(l2, l3, t, j)[2], B * N)
    <3> HIDE DEF r, g, s, j
    <3>1. QED BY <1>2, <1>6 DEF FacePoint
  <2>5. ProjectedTo(m, t, j) =
          LET pos == Along(IF t \in {"up", "down"} THEN l3 ELSE l2, j)
              to  == IF dinv(p, t) THEN -pos ELSE pos
          IN  CASE r.back = "up"    -> <<-B * N, to>>
                [] r.back = "down"  -> << B * N, to>>
                [] r.back = "left"  -> <<to, -B * N>>
                [] r.back = "right" -> <<to,  B * N>>
    <3>1. Neighbor[m][t].side = r.back BY <1>5 DEF Seen
    <3> HIDE DEF r, g, s, j
    <3>2. QED BY <1>2, <1>7, <3>1 DEF ProjectedTo
  <2>6. CellMatches(p, l2, l3, t, i) BY <1>2, EdgeMatches
  <2> HIDE DEF r, g, s
  <2>7. ProjectedTo(m, t, j) = FaceAt(r.l2, r.l3, r.back, i - 1)
    BY <2>5, <2>6 DEF CellMatches, r
  <2>8. FacePoint(m, t, j) = FacePoint(g, s, i - 1) /\ r.panel = tgbid(p, t)
    BY <2>3, <2>4, <2>6 DEF CellMatches, r
  <2> HIDE DEF j
  <2>9. QED BY <1>5, <2>1, <2>2, <2>7, <2>8 DEF Cell
<1>9. s \in Side BY <1>3, <1>5
<1> HIDE DEF r, g, s
<1>10. FaceMatches[m][t][g][s]
  BY <1>2, <1>5, <1>8, <1>9 DEF FaceMatches
<1>11. QED BY <1>10 DEF g, s

-----------------------------------------------------------------------------
(* Faces in order, and sequences.                                           *)

LEMMA DirectionTags ==
  /\ \A s \in Side : DirectionTag(s) \in 0 .. 3
  /\ \A s, t \in Side : DirectionTag(s) = DirectionTag(t) => s = t
<1>1. /\ DirectionTag("up") = 0 /\ DirectionTag("down") = 1
      /\ DirectionTag("left") = 2 /\ DirectionTag("right") = 3
  BY DEF DirectionTag
<1>2. QED BY <1>1 DEF Side

LEMMA FirstIsLeast ==
  ASSUME NEW faces \in SUBSET Side
  PROVE  /\ faces = {} => FirstOf(faces) = "wait"
         /\ faces # {} =>
              /\ FirstOf(faces) \in faces
              /\ \A t \in faces : DirectionTag(FirstOf(faces)) <= DirectionTag(t)
<1>1. CASE faces = {} BY <1>1 DEF FirstOf
<1>2. CASE faces # {}
  <2>1. \E s \in faces : \A t \in faces : DirectionTag(s) <= DirectionTag(t)
    <3> USE DEF DirectionTag, Side
    <3>1. CASE "up" \in faces BY <3>1
    <3>2. CASE "up" \notin faces /\ "down" \in faces BY <3>2
    <3>3. CASE "up" \notin faces /\ "down" \notin faces /\ "left" \in faces BY <3>3
    <3>4. CASE "up" \notin faces /\ "down" \notin faces /\ "left" \notin faces
      BY <1>2, <3>4
    <3>5. QED BY <3>1, <3>2, <3>3, <3>4
  <2>2. FirstOf(faces) =
          CHOOSE s \in faces : \A t \in faces : DirectionTag(s) <= DirectionTag(t)
    BY <1>2 DEF FirstOf
  <2>3. QED BY <1>2, <2>1, <2>2
<1>3. QED BY <1>1, <1>2

LEMMA OneLeft ==
  ASSUME NEW k \in Nat, k > 0, ~ (2 <= k)
  PROVE  k - 1 = 0
OBVIOUS

LEMMA NoneLeft ==
  ASSUME NEW k \in Nat, ~ (k > 0)
  PROVE  k + 1 <= 1
OBVIOUS

LEMMA FirstRemoved ==
  ASSUME NEW S, NEW q \in Seq(S), Len(q) > 0
  PROVE  /\ RemoveAt(q, 1) \in Seq(S) /\ Len(RemoveAt(q, 1)) = Len(q) - 1
         /\ \A n \in 1 .. Len(q) - 1 : RemoveAt(q, 1)[n] = q[n + 1]
<1>1. SubSeq(q, 1, 0) = <<>> BY SubSeqEmpty
<1> DEFINE t == SubSeq(q, 2, Len(q))
<1>2. Len(q) \in Nat /\ 2 \in Int /\ \A i \in 2 .. Len(q) : q[i] \in S
  BY LenProperties, ElementOfSeq
<1>3. /\ t \in Seq(S) /\ Len(t) = IF 2 <= Len(q) THEN Len(q) - 2 + 1 ELSE 0
      /\ \A n \in 1 .. Len(q) - 2 + 1 : t[n] = q[2 + n - 1]
  BY <1>2, SubSeqProperties
<1> HIDE DEF t
<1>4. Len(t) = Len(q) - 1 /\ \A n \in 1 .. Len(q) - 1 : t[n] = q[n + 1]
  <2>1. Len(q) - 2 + 1 = Len(q) - 1 /\ \A n \in Int : 2 + n - 1 = n + 1
    BY <1>2
  <2>2. \A n \in 1 .. Len(q) - 1 : t[n] = q[2 + n - 1] BY <1>3, <2>1, Zenon
  <2>3. ASSUME NEW n \in 1 .. Len(q) - 1 PROVE t[n] = q[n + 1]
    <3>1. 2 + n - 1 = n + 1 BY <1>2
    <3>2. QED BY <2>2, <3>1, Zenon
  <2>4. Len(t) = Len(q) - 1
    <3>1. ASSUME 2 <= Len(q) PROVE Len(t) = Len(q) - 1
      <4>1. Len(t) = Len(q) - 2 + 1 BY <1>3, <3>1, Zenon
      <4>2. QED BY <2>1, <4>1, Zenon
    <3>2. ASSUME ~ (2 <= Len(q)) PROVE Len(t) = Len(q) - 1
      <4>1. Len(t) = 0 BY <1>3, <3>2, Zenon
      <4>2. Len(q) - 1 = 0
        <5>1. Len(q) \in Nat /\ Len(q) > 0 BY LenProperties
        <5>2. QED BY <3>2, <5>1, OneLeft
      <4>3. QED BY <4>1, <4>2, Zenon
    <3>3. QED BY <3>1, <3>2, Zenon
  <2>5. QED BY <2>3, <2>4, Zenon
<1>5. <<>> \o t = t BY <1>3, ConcatEmptySeq
<1>6. RemoveAt(q, 1) = t
  <2>1. 1 - 1 = 0 /\ 1 + 1 = 2 OBVIOUS
  <2>2. QED BY <1>1, <1>5, <2>1, Zenon DEF RemoveAt, t
<1>7. QED BY <1>3, <1>4, <1>6, Zenon

-----------------------------------------------------------------------------
(* The invariant.                                                           *)

\* What the documentation requires of the cubed sphere.
OneBlockPerRank == \A g, h \in Gid : RankOf[g] = RankOf[h] => g = h

\* The block has received on face s in its stage, and the stages it has
\* received there.
Received(g, s) ==
  phase[g] \in Side => DirectionTag(s) < DirectionTag(phase[g])
ReceivedStages(g, s) == IF Received(g, s) THEN stage[g] ELSE stage[g] - 1

Queue(g, s) == chan[RankOf[g]][RankOf[Over(g, s)]]
MessageOf(g, s, st) ==
  [tag  |-> DirTag(g, Over(g, s), Seen(g, s)),
   from |-> <<g, s>>,
   data |-> IF eager THEN States(st, g, s, "packed") ELSE NoStates]

Messages == [tag : Int, from : Gid \X Side, data : FaceStates]

\* Between two blocks are the messages of the stages sent and not received.
LinkRight(g, s) ==
  LET q == Queue(g, s)
      r == ReceivedStages(Over(g, s), Seen(g, s))
  IN  /\ Len(q) = stage[g] - r
      /\ \A n \in 1 .. Len(q) : q[n] = MessageOf(g, s, r + n)
      /\ eager = FALSE => Len(q) <= 1
      /\ send_request[g][s] = (eager = FALSE /\ Len(q) > 0)

\* The face states of a block are of its stage.
FaceRight(g, s) ==
  LET inner == IF InnerIsLeft(s) THEN L3DValues[g][s] ELSE R3DValues[g][s]
      outer == IF InnerIsLeft(s) THEN R3DValues[g][s] ELSE L3DValues[g][s]
  IN  /\ LRDataBuffer[g][s] = States(stage[g], g, s, "packed")
      /\ inner = States(stage[g], g, s, "inner")
      /\ Received(g, s) => outer = States(stage[g], Over(g, s), Seen(g, s), "packed")

BlockRight(g) ==
  /\ phase[g] = "idle" => \A s \in Side : send_request[g][s] = FALSE
  /\ phase[g] \in Side => phase[g] \in Border[g]
  /\ stage[g] = 0 => phase[g] = "idle"
  /\ \A s \in Side \ Border[g] : send_request[g][s] = FALSE
  /\ stage[g] > 0 => \A s \in Border[g] : FaceRight(g, s)

IInv ==
  /\ TypeOK
  /\ chan \in [Rank -> [Rank -> Seq(Messages)]]
  /\ \A g \in Gid : BlockRight(g)
  /\ \A g \in Gid : \A s \in Border[g] : LinkRight(g, s)

LEMMA Typed ==
  /\ Gid \subseteq Nat /\ Gid # {} /\ MaxStage \in Nat \ {0}
  /\ \A g \in Gid : RankOf[g] \in Rank
  /\ \A g \in Gid : Border[g] \subseteq Side
  /\ \A g \in Gid, s \in Side : Neighbor[g][s].gid = Over(g, s)
                                /\ Neighbor[g][s].side = Seen(g, s)
<1>1. Gid # {}
  <2>1. [lx2 |-> 0, lx3 |-> 0] \in Location BY BAssumption DEF Location
  <2>2. QED BY <2>1, FluxAssumption
<1>2. QED BY <1>1, FluxAssumption DEF Border, Over, Seen

LEMMA StatesTyped ==
  ASSUME NEW st \in 1 .. MaxStage, NEW g \in Gid, NEW s \in Side,
         NEW kind \in {"inner", "outer", "packed"}
  PROVE  States(st, g, s, kind) \in FaceStates
BY DEF States, FaceStates

LEMMA NoStatesTyped == NoStates \in FaceStates
BY DEF FaceStates

LEMMA MessageTyped ==
  ASSUME NEW g \in Gid, NEW s \in Side, NEW data \in FaceStates
  PROVE  Message(g, s, data) \in Messages
<1>1. Over(g, s) \in Gid /\ Seen(g, s) \in Side BY OverLocated
<1>2. DirTag(g, Over(g, s), Seen(g, s)) \in Int
  <2>1. Over(g, s) \in Int /\ g \in Int /\ DirectionTag(Seen(g, s)) \in Int
    <3>1. Over(g, s) \in Nat /\ g \in Nat BY <1>1, Typed
    <3>2. DirectionTag(Seen(g, s)) \in 0 .. 3 BY <1>1, DirectionTags, Zenon
    <3>3. QED BY <3>1, <3>2
  <2>2. 24 * B \in Int /\ 4 * g \in Int BY <2>1, BAssumption
  <2>3. 24 * B * Over(g, s) \in Int BY <2>1, <2>2
  <2>4. QED BY <2>1, <2>2, <2>3 DEF DirTag
<1>3. (IF eager THEN data ELSE NoStates) \in FaceStates BY NoStatesTyped
<1>4. QED BY <1>2, <1>3, Typed DEF Message, Messages

LEMMA InitInvariant == Init => IInv
<1> SUFFICES ASSUME Init PROVE IInv
  OBVIOUS
<1>1. TypeOK BY Typed, NoStatesTyped DEF Init, TypeOK, NoValues
<1>2. chan \in [Rank -> [Rank -> Seq(Messages)]] BY DEF Init
<1>3. \A g \in Gid : BlockRight(g) BY Typed DEF Init, BlockRight, Side
<1>4. ASSUME NEW g \in Gid, NEW s \in Border[g] PROVE LinkRight(g, s)
  <2>1. Over(g, s) \in Gid BY OverBorder
  <2>2. Queue(g, s) = <<>> BY <2>1, Typed DEF Init, Queue
  <2>3. stage[g] = 0 /\ ReceivedStages(Over(g, s), Seen(g, s)) = 0
    BY <2>1 DEF Init, ReceivedStages, Received, Side
  <2>4. send_request[g][s] = FALSE BY Typed DEF Init
  <2>5. Len(Queue(g, s)) = 0 BY <2>2
  <2> HIDE DEF Init
  <2>6. send_request[g][s] = (eager = FALSE /\ Len(Queue(g, s)) > 0)
    <3>1. ~ (Len(Queue(g, s)) > 0) BY <2>5
    <3>2. QED BY <2>4, <3>1, Zenon
  <2>7. QED BY <2>3, <2>5, <2>6 DEF LinkRight
<1>5. QED BY <1>1, <1>2, <1>3, <1>4 DEF IInv

-----------------------------------------------------------------------------
(* The blocks and links a step leaves alone.                                *)

\* What a block is right by is its own, but for the send requests.
LEMMA BlockKept ==
  ASSUME NEW g \in Gid, BlockRight(g),
         stage'[g] = stage[g], phase'[g] = phase[g],
         L3DValues'[g] = L3DValues[g], R3DValues'[g] = R3DValues[g],
         LRDataBuffer'[g] = LRDataBuffer[g],
         \A s \in Side : send_request[g][s] = FALSE => send_request'[g][s] = FALSE
  PROVE  BlockRight(g)'
<1>1. phase[g] = "idle" => \A s \in Side : send_request'[g][s] = FALSE
  BY DEF BlockRight
<1>2. \A s \in Side \ Border[g] : send_request'[g][s] = FALSE
  BY DEF BlockRight
<1>3. \A s : Received(g, s)' = Received(g, s) BY DEF Received
<1>4. stage[g] > 0 => \A s \in Border[g] : FaceRight(g, s)'
  BY <1>3 DEF BlockRight, FaceRight, Over, Seen
<1>5. QED BY <1>1, <1>2, <1>4 DEF BlockRight

LEMMA LinkKept ==
  ASSUME NEW g \in Gid, NEW s \in Border[g], LinkRight(g, s), eager' = eager,
         stage'[g] = stage[g], send_request'[g][s] = send_request[g][s],
         ReceivedStages(Over(g, s), Seen(g, s))' = ReceivedStages(Over(g, s), Seen(g, s)),
         chan'[RankOf[g]][RankOf[Over(g, s)]] = chan[RankOf[g]][RankOf[Over(g, s)]]
  PROVE  LinkRight(g, s)'
<1>1. Queue(g, s)' = Queue(g, s) BY DEF Queue, Over
<1>2. \A st : MessageOf(g, s, st)' = MessageOf(g, s, st) BY DEF MessageOf, Over, Seen
<1>3. QED BY <1>1, <1>2 DEF LinkRight

-----------------------------------------------------------------------------
(* A block opens a stage.                                                   *)

LEMMA EmptySent ==
  ASSUME NEW S, NEW q \in Seq(S)
  PROVE  q \o <<>> = q /\ <<>> \o q = q
BY ConcatEmptySeq

LEMMA SentTyped ==
  ASSUME NEW g \in Gid, NEW b, NEW st \in 1 .. MaxStage
  PROVE  SentTo(g, b, st) \in Seq(Messages)
<1>1. ASSUME NEW s \in Side PROVE Sent(g, s, b, st) \in Seq(Messages)
  <2>1. Message(g, s, States(st, g, s, "packed")) \in Messages
    BY MessageTyped, StatesTyped
  <2>2. QED BY <2>1 DEF Sent
<1>2. /\ Sent(g, "up", b, st) \in Seq(Messages)
      /\ Sent(g, "down", b, st) \in Seq(Messages)
      /\ Sent(g, "left", b, st) \in Seq(Messages)
      /\ Sent(g, "right", b, st) \in Seq(Messages)
  BY <1>1 DEF Side
<1>3. Sent(g, "up", b, st) \o Sent(g, "down", b, st) \in Seq(Messages)
  BY <1>2, ConcatProperties, Zenon
<1>4. Sent(g, "up", b, st) \o Sent(g, "down", b, st)
        \o Sent(g, "left", b, st) \in Seq(Messages)
  BY <1>2, <1>3, ConcatProperties, Zenon
<1>5. QED BY <1>2, <1>4, ConcatProperties, Zenon DEF SentTo

LEMMA SentOver ==
  ASSUME OneBlockPerRank, NEW g \in Gid, NEW s \in Border[g], NEW st \in 1 .. MaxStage
  PROVE  SentTo(g, RankOf[Over(g, s)], st)
           = <<Message(g, s, States(st, g, s, "packed"))>>
<1> DEFINE b == RankOf[Over(g, s)]
           m == Message(g, s, States(st, g, s, "packed"))
<1>1. ASSUME NEW t \in Side, t # s PROVE Sent(g, t, b, st) = <<>>
  <2>1. ASSUME t \in Border[g], RankOf[Over(g, t)] = b PROVE FALSE
    <3>1. Over(g, t) \in Gid /\ Over(g, s) \in Gid BY <2>1, OverBorder
    <3>2. Over(g, t) = Over(g, s) BY <2>1, <3>1 DEF OneBlockPerRank
    <3>3. QED BY <1>1, <2>1, <3>2, OverInjective
  <2>2. QED BY <2>1 DEF Sent, Over
<1>2. Sent(g, s, b, st) = <<m>> BY DEF Sent, Over
<1>3. s \in Side /\ m \in Messages BY Typed, OverBorder, MessageTyped, StatesTyped
<1>4. <<m>> \in Seq(Messages) BY <1>3
<1> HIDE DEF b, m
<1>5. <<>> \o <<>> = <<>> BY EmptySent
<1>6. <<m>> \o <<>> = <<m>> /\ <<>> \o <<m>> = <<m>> BY <1>4, EmptySent, Zenon
<1>7. CASE s = "up"    BY <1>1, <1>2, <1>5, <1>6, <1>7 DEF SentTo, Side, b, m
<1>8. CASE s = "down"  BY <1>1, <1>2, <1>5, <1>6, <1>8 DEF SentTo, Side, b, m
<1>9. CASE s = "left"  BY <1>1, <1>2, <1>5, <1>6, <1>9 DEF SentTo, Side, b, m
<1>10. CASE s = "right" BY <1>1, <1>2, <1>5, <1>6, <1>10 DEF SentTo, Side, b, m
<1>11. QED BY <1>3, <1>7, <1>8, <1>9, <1>10 DEF Side

LEMMA Opened ==
  ASSUME IInv, NEW g \in Gid, SaveAndSend(g)
  PROVE  /\ stage[g] + 1 \in 1 .. MaxStage /\ phase[g] = "idle"
         /\ stage' = [stage EXCEPT ![g] = stage[g] + 1]
         /\ phase' = [phase EXCEPT ![g] = FirstOf(Border[g])]
         /\ L3DValues' = [L3DValues EXCEPT ![g] = L3DValues'[g]]
         /\ R3DValues' = [R3DValues EXCEPT ![g] = R3DValues'[g]]
         /\ \A s \in Side :
              LET kind(left) == IF InnerIsLeft(s) = left THEN "inner" ELSE "outer"
                  is(left) == IF s \in Border[g]
                              THEN States(stage[g] + 1, g, s, kind(left)) ELSE NoStates
              IN  L3DValues'[g][s] = is(TRUE) /\ R3DValues'[g][s] = is(FALSE)
         /\ L3DValues'[g] \in [Side -> FaceStates] /\ R3DValues'[g] \in [Side -> FaceStates]
         /\ LRDataBuffer' = [LRDataBuffer EXCEPT ![g] = LRDataBuffer'[g]]
         /\ LRDataBuffer'[g] \in [Side -> FaceStates]
         /\ \A s \in Border[g] :
              LRDataBuffer'[g][s] = States(stage[g] + 1, g, s, "packed")
         /\ send_request' = [send_request EXCEPT
              ![g] = [s \in Side |-> s \in Border[g] /\ ~ eager]]
         /\ chan' = [chan EXCEPT
              ![RankOf[g]] = [b \in Rank |-> @[b] \o SentTo(g, b, stage[g] + 1)]]
         /\ eager' = eager
<1> DEFINE st == stage[g] + 1
           Saved(left) == [s \in Side |->
             IF s \in Border[g]
             THEN States(st, g, s, IF InnerIsLeft(s) = left THEN "inner" ELSE "outer")
             ELSE NoStates]
           buffer == [s \in Side |->
             IF s \in Border[g] THEN States(st, g, s, "packed") ELSE NoStates]
<1>1. st \in 1 .. MaxStage /\ phase[g] = "idle"
  <2>1. stage[g] \in 0 .. MaxStage /\ stage[g] < MaxStage
    BY DEF IInv, TypeOK, SaveAndSend, StageLeft
  <2>2. g \in OnRankOf[g] BY DEF OnRankOf
  <2>3. phase[g] = "idle" BY <2>2 DEF SaveAndSend, Free
  <2>4. QED BY <2>1, <2>3, Typed
<1>2. \A left : Saved(left) \in [Side -> FaceStates]
  BY <1>1, StatesTyped, NoStatesTyped
<1>3. buffer \in [Side -> FaceStates]
  BY <1>1, StatesTyped, NoStatesTyped
<1>4. /\ L3DValues' = [L3DValues EXCEPT ![g] = Saved(TRUE)]
      /\ R3DValues' = [R3DValues EXCEPT ![g] = Saved(FALSE)]
      /\ LRDataBuffer' = [LRDataBuffer EXCEPT ![g] = buffer]
      /\ stage' = [stage EXCEPT ![g] = st]
      /\ phase' = [phase EXCEPT ![g] = FirstOf(Border[g])]
      /\ send_request' = [send_request EXCEPT
           ![g] = [s \in Side |-> s \in Border[g] /\ ~ eager]]
      /\ chan' = [chan EXCEPT ![RankOf[g]] = [b \in Rank |-> @[b] \o SentTo(g, b, st)]]
      /\ eager' = eager
  BY DEF SaveAndSend
<1>5. L3DValues'[g] = Saved(TRUE) /\ R3DValues'[g] = Saved(FALSE)
      /\ LRDataBuffer'[g] = buffer
  <2> HIDE DEF Saved, buffer
  <2>1. QED BY <1>4 DEF IInv, TypeOK
<1>6. \A s \in Side :
        LET kind(left) == IF InnerIsLeft(s) = left THEN "inner" ELSE "outer"
            is(left) == IF s \in Border[g]
                        THEN States(stage[g] + 1, g, s, kind(left)) ELSE NoStates
        IN  L3DValues'[g][s] = is(TRUE) /\ R3DValues'[g][s] = is(FALSE)
  BY <1>5
<1>7. \A s \in Border[g] : LRDataBuffer'[g][s] = States(stage[g] + 1, g, s, "packed")
  BY <1>5, Typed
<1> HIDE DEF Saved, buffer
<1>8. QED BY <1>1, <1>2, <1>3, <1>4, <1>5, <1>6, <1>7

LEMMA SaveAndSendKeeps ==
  ASSUME OneBlockPerRank, IInv, NEW g \in Gid, SaveAndSend(g)
  PROVE  IInv'
<1> DEFINE st == stage[g] + 1
<1>1. st \in 1 .. MaxStage /\ phase[g] = "idle" /\ eager' = eager /\ st > 0
  <2>1. st \in 1 .. MaxStage BY Opened
  <2>2. st > 0 BY <2>1
  <2>3. QED BY <2>1, <2>2, Opened
<1>a. /\ stage' = [stage EXCEPT ![g] = st]
      /\ phase' = [phase EXCEPT ![g] = FirstOf(Border[g])]
  BY Opened
<1>b. /\ L3DValues' = [L3DValues EXCEPT ![g] = L3DValues'[g]]
      /\ R3DValues' = [R3DValues EXCEPT ![g] = R3DValues'[g]]
      /\ LRDataBuffer' = [LRDataBuffer EXCEPT ![g] = LRDataBuffer'[g]]
      /\ L3DValues'[g] \in [Side -> FaceStates] /\ R3DValues'[g] \in [Side -> FaceStates]
      /\ LRDataBuffer'[g] \in [Side -> FaceStates]
  BY Opened
<1>c. send_request' = [send_request EXCEPT
        ![g] = [s \in Side |-> s \in Border[g] /\ ~ eager]]
  BY Opened
<1>d. chan' = [chan EXCEPT ![RankOf[g]] = [b \in Rank |-> @[b] \o SentTo(g, b, st)]]
  BY Opened
<1>t. /\ stage \in [Gid -> 0 .. MaxStage]
      /\ phase \in [Gid -> {"idle", "wait"} \cup Side]
      /\ send_request \in [Gid -> [Side -> BOOLEAN]]
      /\ L3DValues \in [Gid -> [Side -> FaceStates]]
      /\ R3DValues \in [Gid -> [Side -> FaceStates]]
      /\ LRDataBuffer \in [Gid -> [Side -> FaceStates]]
      /\ eager \in BOOLEAN
  BY DEF IInv, TypeOK
<1>2. /\ stage'[g] = st
      /\ phase'[g] = FirstOf(Border[g])
      /\ \A h \in Gid \ {g} :
           /\ stage'[h] = stage[h] /\ phase'[h] = phase[h]
           /\ L3DValues'[h] = L3DValues[h] /\ R3DValues'[h] = R3DValues[h]
           /\ LRDataBuffer'[h] = LRDataBuffer[h] /\ send_request'[h] = send_request[h]
  BY <1>a, <1>b, <1>c, <1>t
<1>3. FirstOf(Border[g]) \in {"wait"} \cup Border[g]
      /\ (FirstOf(Border[g]) \in Side =>
            \A s \in Border[g] : DirectionTag(FirstOf(Border[g])) <= DirectionTag(s))
  <2>1. Border[g] \in SUBSET Side BY Typed
  <2>2. "wait" \notin Side BY DEF Side
  <2>3. CASE Border[g] = {} BY <2>1, <2>3, FirstIsLeast
  <2>4. CASE Border[g] # {} BY <2>1, <2>4, FirstIsLeast
  <2>5. QED BY <2>3, <2>4
<1>4. \A s \in Border[g] : ~ Received(g, s)'
  <2>1. SUFFICES ASSUME NEW s \in Border[g] PROVE ~ Received(g, s)'
    OBVIOUS
  <2>2. FirstOf(Border[g]) \in Border[g] BY Typed, FirstIsLeast
  <2>3. FirstOf(Border[g]) \in Side /\ s \in Side BY <2>2, Typed
  <2>4. DirectionTag(FirstOf(Border[g])) <= DirectionTag(s) BY <1>3, <2>3
  <2>5. DirectionTag(FirstOf(Border[g])) \in 0 .. 3 /\ DirectionTag(s) \in 0 .. 3
    BY <2>3, DirectionTags
  <2>6. ~ (DirectionTag(s) < DirectionTag(FirstOf(Border[g]))) BY <2>4, <2>5
  <2>7. QED BY <1>2, <2>3, <2>6 DEF Received
<1>5. \A s \in Side : Received(g, s) BY <1>1 DEF Received, Side
<1>6. \A h \in Gid : \A s \in Border[h] :
        ReceivedStages(h, s)' = ReceivedStages(h, s)
  <2>1. SUFFICES ASSUME NEW h \in Gid, NEW s \in Border[h]
                 PROVE  ReceivedStages(h, s)' = ReceivedStages(h, s)
    OBVIOUS
  <2>2. CASE h = g
    <3>1. ReceivedStages(g, s) = stage[g] BY <1>5, <2>2, Typed DEF ReceivedStages
    <3>2. ReceivedStages(g, s)' = st - 1 BY <1>2, <1>4, <2>2 DEF ReceivedStages
    <3>3. stage[g] \in Int BY DEF IInv, TypeOK
    <3>4. QED BY <2>2, <3>1, <3>2, <3>3
  <2>3. CASE h # g BY <1>2, <2>3 DEF ReceivedStages, Received
  <2>4. QED BY <2>2, <2>3
<1>7. TypeOK'
  <2>1. stage' \in [Gid -> 0 .. MaxStage] BY <1>1, <1>a, <1>t
  <2>2. phase' \in [Gid -> {"idle", "wait"} \cup Side]
    <3>1. FirstOf(Border[g]) \in {"idle", "wait"} \cup Side BY <1>3, Typed
    <3>2. QED BY <3>1, <1>a, <1>t
  <2>3. send_request' \in [Gid -> [Side -> BOOLEAN]]
    <3>1. [s \in Side |-> s \in Border[g] /\ ~ eager] \in [Side -> BOOLEAN]
      OBVIOUS
    <3>2. QED BY <3>1, <1>c, <1>t
  <2>4. /\ L3DValues' \in [Gid -> [Side -> FaceStates]]
        /\ R3DValues' \in [Gid -> [Side -> FaceStates]]
        /\ LRDataBuffer' \in [Gid -> [Side -> FaceStates]]
    BY <1>b, <1>t
  <2>5. QED BY <1>1, <1>t, <2>1, <2>2, <2>3, <2>4 DEF TypeOK
<1>8. chan' \in [Rank -> [Rank -> Seq(Messages)]]
  <2>1. \A b \in Rank : chan[RankOf[g]][b] \o SentTo(g, b, st) \in Seq(Messages)
    <3>1. SUFFICES ASSUME NEW b \in Rank
                   PROVE  chan[RankOf[g]][b] \o SentTo(g, b, st) \in Seq(Messages)
      OBVIOUS
    <3>2. chan[RankOf[g]][b] \in Seq(Messages) BY Typed DEF IInv
    <3>3. SentTo(g, b, st) \in Seq(Messages) BY <1>1, SentTyped
    <3>4. QED BY <3>2, <3>3, ConcatProperties
  <2> HIDE DEF st
  <2>2. [b \in Rank |-> chan[RankOf[g]][b] \o SentTo(g, b, st)] \in [Rank -> Seq(Messages)]
    BY <2>1
  <2>3. chan' = [chan EXCEPT
          ![RankOf[g]] = [b \in Rank |-> chan[RankOf[g]][b] \o SentTo(g, b, st)]]
    BY <1>d DEF st
  <2>4. QED BY <2>2, <2>3, Typed DEF IInv
<1>9. ASSUME NEW h \in Gid PROVE BlockRight(h)'
  <2>1. CASE h # g
    <3>1. BlockRight(h) BY DEF IInv
    <3>2. QED BY <1>2, <2>1, <3>1, BlockKept
  <2>2. CASE h = g
    <3>1. phase'[g] # "idle" BY <1>2, <1>3, Typed DEF Side
    <3>2. phase'[g] \in Side => phase'[g] \in Border[g] BY <1>2, <1>3 DEF Side
    <3>3. \A s \in Side \ Border[g] : send_request'[g][s] = FALSE
      BY <1>c, <1>t, <2>2
    <3>4. ASSUME NEW s \in Border[g] PROVE FaceRight(g, s)'
      <4>1. s \in Side BY Typed
      <4>2. InnerIsLeft(s) \in BOOLEAN BY DEF InnerIsLeft
      <4>3. L3DValues'[g][s] = States(st, g, s, IF InnerIsLeft(s) = TRUE THEN "inner" ELSE "outer")
        BY <4>1, Opened
      <4>4. R3DValues'[g][s] = States(st, g, s, IF InnerIsLeft(s) = FALSE THEN "inner" ELSE "outer")
        BY <4>1, Opened
      <4>5. (IF InnerIsLeft(s) THEN L3DValues'[g][s] ELSE R3DValues'[g][s])
              = States(st, g, s, "inner")
        <5>1. CASE InnerIsLeft(s) BY <4>2, <4>3, <5>1
        <5>2. CASE ~ InnerIsLeft(s) BY <4>2, <4>4, <5>2
        <5>3. QED BY <5>1, <5>2
      <4>6. LRDataBuffer'[g][s] = States(st, g, s, "packed") BY Opened
      <4>7. QED BY <1>2, <1>4, <4>5, <4>6 DEF FaceRight
    <3>5. stage'[g] # 0 BY <1>1, <1>2
    <3>6. QED BY <2>2, <3>1, <3>2, <3>3, <3>4, <3>5 DEF BlockRight
  <2>3. QED BY <2>1, <2>2
<1>10. ASSUME NEW h \in Gid, NEW s \in Border[h] PROVE LinkRight(h, s)'
  <2>1. Over(h, s) \in Gid /\ Seen(h, s) \in Border[Over(h, s)] /\ s \in Side
    BY OverBorder
  <2>2. ReceivedStages(Over(h, s), Seen(h, s))' = ReceivedStages(Over(h, s), Seen(h, s))
    <3>1. Over(h, s)' = Over(h, s) /\ Seen(h, s)' = Seen(h, s) BY DEF Over, Seen
    <3>2. QED BY <1>6, <2>1 DEF ReceivedStages, Received, Over, Seen
  <2>3. LinkRight(h, s) BY DEF IInv
  <2>4. CASE h # g
    <3>1. RankOf[h] # RankOf[g] BY <2>4 DEF OneBlockPerRank
    <3>2. chan'[RankOf[h]] = chan[RankOf[h]] BY <3>1, <1>d, Typed DEF IInv
    <3>3. QED BY <1>1, <1>2, <2>2, <2>3, <2>4, <3>2, LinkKept
  <2>5. CASE h = g
    <3> DEFINE q == Queue(g, s)
               b == RankOf[Over(g, s)]
               m == Message(g, s, States(st, g, s, "packed"))
               r == ReceivedStages(Over(g, s), Seen(g, s))
    <3>1. /\ Len(q) = stage[g] - r
          /\ \A n \in 1 .. Len(q) : q[n] = MessageOf(g, s, r + n)
          /\ send_request[g][s] = (eager = FALSE /\ Len(q) > 0)
      BY <2>3, <2>5 DEF LinkRight
    <3>2. b \in Rank /\ q \in Seq(Messages) BY <2>1, <2>5, Typed DEF IInv, Queue
    <3>3. Queue(g, s)' = q \o <<m>>
      <4>1. SentTo(g, b, st) = <<m>> BY <1>1, <2>5, SentOver
      <4>2. chan'[RankOf[g]][b] = chan[RankOf[g]][b] \o SentTo(g, b, st)
        <5> HIDE DEF st, b
        <5>1. chan'[RankOf[g]] = [c \in Rank |-> chan[RankOf[g]][c] \o SentTo(g, c, st)]
          <6>1. chan \in [Rank -> [Rank -> Seq(Messages)]] BY DEF IInv
          <6>2. QED BY <1>d, <6>1, Typed
        <5>2. QED BY <3>2, <5>1
      <4>3. QED BY <4>1, <4>2 DEF Queue, Over
    <3>4. m \in Messages BY <1>1, <2>1, <2>5, MessageTyped, StatesTyped
    <3>5. m = MessageOf(g, s, st)
      BY <1>1, <2>1, <2>5, Typed DEF Message, MessageOf
    <3>6. \A k : MessageOf(g, s, k)' = MessageOf(g, s, k)
      BY <1>1 DEF MessageOf, Over, Seen
    <3>7. ReceivedStages(Over(g, s), Seen(g, s))' = r BY <2>2, <2>5
    <3>8. r \in Int
      <4>1. stage[Over(g, s)] \in Int BY <2>1, <2>5 DEF IInv, TypeOK
      <4>2. QED BY <4>1 DEF ReceivedStages
    <3>9. send_request[g][s] = FALSE BY <1>1, <2>1, <2>5 DEF IInv, BlockRight
    <3>10. send_request'[g][s] = (eager = FALSE)
      <4>1. send_request'[g] = [t \in Side |-> t \in Border[g] /\ ~ eager]
        BY <1>c, <1>t, <2>5
      <4>2. eager \in BOOLEAN BY <1>t
      <4>3. send_request'[g][s] = (s \in Border[g] /\ ~ eager) BY <2>1, <2>5, <4>1
      <4>4. QED BY <2>5, <4>2, <4>3
    <3>11. Len(q) \in Nat BY <3>2, LenProperties
    <3>12. /\ Len(q \o <<m>>) = Len(q) + 1
           /\ \A n \in 1 .. Len(q) : (q \o <<m>>)[n] = q[n]
           /\ (q \o <<m>>)[Len(q) + 1] = m
      <4> HIDE DEF q, m
      <4>1. QED BY <3>2, <3>4, AppendProperties, AppendIsConcat
    <3> HIDE DEF q, m, r, st, b
    <3>13. stage[g] \in Int /\ st = stage[g] + 1 BY DEF IInv, TypeOK, st
    <3>14. Len(q) + 1 = st - r /\ r + (Len(q) + 1) = st BY <3>1, <3>8, <3>13
    <3>15. \A n \in 1 .. Len(q) + 1 : (q \o <<m>>)[n] = MessageOf(g, s, r + n)
      <4>1. SUFFICES ASSUME NEW n \in 1 .. Len(q) + 1
                     PROVE  (q \o <<m>>)[n] = MessageOf(g, s, r + n)
        OBVIOUS
      <4>2. CASE n = Len(q) + 1
        <5>1. r + n = st BY <3>14, <4>2
        <5>2. QED BY <3>5, <3>12, <4>2, <5>1, Zenon
      <4>3. CASE n # Len(q) + 1
        <5>1. n \in 1 .. Len(q) BY <3>11, <4>3
        <5>2. QED BY <3>1, <3>12, <5>1
      <4>4. QED BY <4>2, <4>3
    <3>16. eager = FALSE => Len(q) + 1 <= 1
      <4>1. ASSUME eager = FALSE PROVE ~ (Len(q) > 0) BY <3>1, <3>9, <4>1, Zenon
      <4>2. ASSUME ~ (Len(q) > 0) PROVE Len(q) + 1 <= 1 BY <3>11, <4>2, NoneLeft
      <4>3. QED BY <4>1, <4>2
    <3>17. Len(q) + 1 > 0 BY <3>11
    <3>18. LinkRight(g, s)'
      BY <1>1, <1>2, <3>3, <3>6, <3>7, <3>10, <3>12, <3>14, <3>15, <3>16, <3>17
         DEF LinkRight
    <3>19. QED BY <2>5, <3>18
  <2>6. QED BY <2>4, <2>5
<1>11. QED BY <1>7, <1>8, <1>9, <1>10 DEF IInv

-----------------------------------------------------------------------------
(* A block receives.                                                        *)

LEMMA AfterOrder ==
  ASSUME NEW g \in Gid, NEW s \in Border[g]
  PROVE  /\ AfterFace(g, s) \in {"wait"} \cup Border[g]
         /\ \A t \in Border[g] \ {s} :
              (AfterFace(g, s) \in Side => DirectionTag(t) < DirectionTag(AfterFace(g, s)))
                <=> DirectionTag(t) < DirectionTag(s)
         /\ AfterFace(g, s) \in Side => DirectionTag(s) < DirectionTag(AfterFace(g, s))
<1> DEFINE later == {t \in Border[g] : DirectionTag(t) > DirectionTag(s)}
<1>1. Border[g] \subseteq Side /\ "wait" \notin Side BY Typed DEF Side
<1>2. \A t \in Border[g] : DirectionTag(t) \in 0 .. 3 BY <1>1, DirectionTags
<1>3. \A t \in Border[g] : DirectionTag(t) = DirectionTag(s) => t = s
  BY <1>1, DirectionTags
<1>4. AfterFace(g, s) = FirstOf(later) BY DEF AfterFace
<1>5. CASE later = {}
  <2>1. AfterFace(g, s) = "wait" BY <1>1, <1>4, <1>5, FirstIsLeast
  <2>2. \A t \in Border[g] \ {s} : DirectionTag(t) < DirectionTag(s)
    BY <1>2, <1>3, <1>5
  <2>3. QED BY <1>1, <2>1, <2>2
<1>6. CASE later # {}
  <2> DEFINE f == FirstOf(later)
  <2>1. f \in later /\ \A t \in later : DirectionTag(f) <= DirectionTag(t)
    BY <1>1, <1>6, FirstIsLeast
  <2> HIDE DEF f
  <2>2. f \in Border[g] /\ DirectionTag(s) < DirectionTag(f) BY <1>2, <2>1
  <2>3. ASSUME NEW t \in Border[g] \ {s}
        PROVE  DirectionTag(t) < DirectionTag(f) <=> DirectionTag(t) < DirectionTag(s)
    <3>1. CASE t \in later
      <4>1. DirectionTag(f) <= DirectionTag(t) BY <2>1, <3>1
      <4>2. QED BY <1>2, <2>2, <4>1
    <3>2. CASE t \notin later BY <1>2, <1>3, <2>2, <3>2
    <3>3. QED BY <3>1, <3>2
  <2>4. QED BY <1>1, <1>4, <2>2, <2>3 DEF f
<1>7. QED BY <1>5, <1>6

\* What is waited for is the oldest message on the way, of the own stage.
LEMMA Taken ==
  ASSUME IInv, NEW g \in Gid, NEW s \in Border[g], phase[g] = s, Recv(g)
  PROVE  LET h == Over(g, s)
             t == Seen(g, s)
             a == RankOf[h]
             b == RankOf[g]
             q == chan[a][b]
             data == States(stage[g], h, t, "packed")
         IN  /\ h \in Gid /\ t \in Border[h] /\ Over(h, t) = g /\ Seen(h, t) = s
             /\ Len(q) > 0 /\ q \in Seq(Messages)
             /\ chan' = [chan EXCEPT ![a][b] = RemoveAt(q, 1)]
             /\ send_request' = [send_request EXCEPT ![h][t] = FALSE]
             /\ IF InnerIsLeft(s)
                THEN R3DValues' = [R3DValues EXCEPT ![g][s] = data] /\ UNCHANGED L3DValues
                ELSE L3DValues' = [L3DValues EXCEPT ![g][s] = data] /\ UNCHANGED R3DValues
             /\ phase' = [phase EXCEPT ![g] = AfterFace(g, s)]
             /\ UNCHANGED <<stage, LRDataBuffer, eager>>
<1> DEFINE h == Over(g, s)
           t == Seen(g, s)
           a == RankOf[h]
           b == RankOf[g]
           q == chan[a][b]
<1>1. s \in Side /\ h \in Gid /\ t \in Border[h] /\ Over(h, t) = g /\ Seen(h, t) = s
  BY OverBorder, OverOver
<1>2. Neighbor[g][s].gid = h BY DEF Over
<1>3. a \in Rank /\ b \in Rank /\ q \in Seq(Messages)
  <2>1. a \in Rank /\ b \in Rank BY <1>1, Typed
  <2>2. chan \in [Rank -> [Rank -> Seq(Messages)]] BY DEF IInv
  <2> HIDE DEF a, b
  <2>3. QED BY <2>1, <2>2
<1>4. ReceivedStages(g, s) = stage[g] - 1
  <2>1. ~ Received(g, s)
    <3>1. DirectionTag(s) \in 0 .. 3 BY <1>1, DirectionTags
    <3>2. ~ (DirectionTag(s) < DirectionTag(s)) BY <3>1
    <3>3. QED BY <1>1, <3>2 DEF Received
  <2>2. QED BY <2>1 DEF ReceivedStages
<1>5. stage[g] \in Int /\ stage[h] \in Int BY <1>1 DEF IInv, TypeOK
<1>6. /\ Len(q) = stage[h] - (stage[g] - 1)
      /\ \A n \in 1 .. Len(q) : q[n] = MessageOf(h, t, stage[g] - 1 + n)
      /\ eager = FALSE => Len(q) <= 1
  <2>1. LinkRight(h, t) BY <1>1 DEF IInv
  <2>2. Queue(h, t) = q BY <1>1 DEF Queue
  <2> HIDE DEF h, t, q
  <2>3. QED BY <1>1, <1>4, <2>1, <2>2 DEF LinkRight
<1> HIDE DEF q, h, t
<1>7. \A n \in DOMAIN q : q[n].tag = DirTag(h, g, s)
  <2>1. DOMAIN q = 1 .. Len(q) BY <1>3, LenProperties
  <2>2. \A k : MessageOf(h, t, k).tag = DirTag(h, g, s) BY <1>1 DEF MessageOf
  <2>3. QED BY <1>6, <2>1, <2>2
<1>8. Len(q) \in Nat /\ DOMAIN q = 1 .. Len(q) BY <1>3, LenProperties
<1>9. \A n \in Arrived(g, s) : n = 1 /\ Len(q) > 0
  <2>1. Arrived(g, s) = {n \in DOMAIN q : \A m \in DOMAIN q : n <= m}
    <3>1. {n \in DOMAIN q : q[n].tag = DirTag(h, g, s)} = DOMAIN q BY <1>7
    <3>2. q = chan[RankOf[Neighbor[g][s].gid]][RankOf[g]] BY <1>2 DEF q
    <3>3. QED BY <1>2, <3>1, <3>2 DEF Arrived
  <2>2. QED BY <1>8, <2>1
<1>10. ASSUME Len(q) > 0
       PROVE  /\ q[1].from = <<h, t>>
              /\ (IF eager THEN q[1].data ELSE LRDataBuffer[q[1].from[1]][q[1].from[2]])
                   = States(stage[g], h, t, "packed")
  <2>1. q[1] = MessageOf(h, t, stage[g])
    <3>1. 1 \in 1 .. Len(q) /\ stage[g] - 1 + 1 = stage[g] BY <1>5, <1>8, <1>10
    <3>2. QED BY <1>6, <3>1
  <2>2. q[1].from = <<h, t>> BY <2>1 DEF MessageOf
  <2>3. CASE eager
    <3>1. q[1].data = States(stage[g], h, t, "packed") BY <2>1, <2>3 DEF MessageOf
    <3>2. QED BY <2>2, <2>3, <3>1
  <2>4. CASE ~ eager
    <3>1. eager = FALSE BY <2>4 DEF IInv, TypeOK
    <3>2. Len(q) <= 1 BY <1>6, <3>1
    <3>3. stage[h] = stage[g] BY <1>5, <1>6, <1>8, <1>10, <3>2
    <3>4. phase[g] # "idle" BY <1>1 DEF Side
    <3>5. stage[g] # 0 BY <3>4 DEF IInv, BlockRight
    <3>6. stage[h] > 0 BY <3>3, <3>5 DEF IInv, TypeOK
    <3>7. LRDataBuffer[h][t] = States(stage[h], h, t, "packed")
      BY <1>1, <3>6 DEF IInv, BlockRight, FaceRight
    <3>8. QED BY <2>2, <2>4, <3>3, <3>7
  <2>5. QED BY <2>3, <2>4
<1>11. PICK n \in Arrived(g, s) :
         LET msg  == chan[a][b][n]
             data == IF eager THEN msg.data ELSE LRDataBuffer[msg.from[1]][msg.from[2]]
         IN  /\ chan' = [chan EXCEPT ![a][b] = RemoveAt(@, n)]
             /\ send_request' = [send_request EXCEPT ![msg.from[1]][msg.from[2]] = FALSE]
             /\ IF InnerIsLeft(s)
                THEN R3DValues' = [R3DValues EXCEPT ![g][s] = data] /\ UNCHANGED L3DValues
                ELSE L3DValues' = [L3DValues EXCEPT ![g][s] = data] /\ UNCHANGED R3DValues
             /\ phase' = [phase EXCEPT ![g] = AfterFace(g, s)]
  BY <1>2 DEF Recv
<1>12. n = 1 /\ Len(q) > 0 BY <1>9
<1>13. q = chan[a][b] BY DEF q
<1>14. chan' = [chan EXCEPT ![a][b] = RemoveAt(q, 1)]
  BY <1>3, <1>11, <1>12, <1>13 DEF IInv
<1>15. /\ send_request' = [send_request EXCEPT ![h][t] = FALSE]
       /\ IF InnerIsLeft(s)
          THEN R3DValues' = [R3DValues EXCEPT ![g][s] = States(stage[g], h, t, "packed")]
               /\ UNCHANGED L3DValues
          ELSE L3DValues' = [L3DValues EXCEPT ![g][s] = States(stage[g], h, t, "packed")]
               /\ UNCHANGED R3DValues
       /\ phase' = [phase EXCEPT ![g] = AfterFace(g, s)]
  <2> DEFINE data == IF eager THEN q[1].data ELSE LRDataBuffer[q[1].from[1]][q[1].from[2]]
  <2>1. chan[a][b][n] = q[1] BY <1>12, <1>13
  <2>2. /\ send_request' = [send_request EXCEPT ![q[1].from[1]][q[1].from[2]] = FALSE]
        /\ IF InnerIsLeft(s)
           THEN R3DValues' = [R3DValues EXCEPT ![g][s] = data] /\ UNCHANGED L3DValues
           ELSE L3DValues' = [L3DValues EXCEPT ![g][s] = data] /\ UNCHANGED R3DValues
        /\ phase' = [phase EXCEPT ![g] = AfterFace(g, s)]
    BY <1>11, <2>1, Zenon
  <2>3. data = States(stage[g], h, t, "packed") BY <1>10, <1>12
  <2>4. q[1].from[1] = h /\ q[1].from[2] = t BY <1>10, <1>12
  <2> HIDE DEF data
  <2>5. QED BY <2>2, <2>3, <2>4, Zenon
<1>16. UNCHANGED <<stage, LRDataBuffer, eager>> BY DEF Recv
<1>17. QED BY <1>1, <1>3, <1>12, <1>14, <1>15, <1>16 DEF h, t, q

LEMMA RecvKeeps ==
  ASSUME OneBlockPerRank, IInv, NEW g \in Gid, Recv(g)
  PROVE  IInv'
<1>0. PICK s \in Side : s = phase[g] BY DEF Recv
<1>1. s \in Border[g] BY <1>0 DEF IInv, BlockRight
<1>p. PICK h \in Gid, t \in Side : h = Over(g, s) /\ t = Seen(g, s)
  BY <1>1, OverBorder, OverLocated
<1> DEFINE a == RankOf[h]
           b == RankOf[g]
           q == chan[a][b]
           data == States(stage[g], h, t, "packed")
<1>2. h \in Gid /\ t \in Border[h] /\ Over(h, t) = g /\ Seen(h, t) = s
      /\ Len(q) > 0 /\ q \in Seq(Messages)
  BY <1>0, <1>1, <1>p, Taken
<1>3. chan' = [chan EXCEPT ![a][b] = RemoveAt(q, 1)] BY <1>0, <1>1, <1>p, Taken
<1>4. send_request' = [send_request EXCEPT ![h][t] = FALSE] BY <1>0, <1>1, <1>p, Taken
<1>5. IF InnerIsLeft(s)
      THEN R3DValues' = [R3DValues EXCEPT ![g][s] = data] /\ UNCHANGED L3DValues
      ELSE L3DValues' = [L3DValues EXCEPT ![g][s] = data] /\ UNCHANGED R3DValues
  BY <1>0, <1>1, <1>p, Taken
<1>6. phase' = [phase EXCEPT ![g] = AfterFace(g, s)] BY <1>0, <1>1, <1>p, Taken
<1>7. stage' = stage /\ LRDataBuffer' = LRDataBuffer /\ eager' = eager BY <1>0, <1>1, <1>p, Taken
<1>8. /\ stage \in [Gid -> 0 .. MaxStage]
      /\ phase \in [Gid -> {"idle", "wait"} \cup Side]
      /\ send_request \in [Gid -> [Side -> BOOLEAN]]
      /\ L3DValues \in [Gid -> [Side -> FaceStates]]
      /\ R3DValues \in [Gid -> [Side -> FaceStates]]
      /\ LRDataBuffer \in [Gid -> [Side -> FaceStates]]
      /\ eager \in BOOLEAN
      /\ chan \in [Rank -> [Rank -> Seq(Messages)]]
  BY DEF IInv, TypeOK
<1>9. a \in Rank /\ b \in Rank /\ h # g
  BY <1>1, <1>2, <1>p, Typed, OverBorder
<1> HIDE DEF a, b, q, data
<1>10. stage[g] > 0 /\ stage[g] \in 1 .. MaxStage
  <2>1. s # "idle" BY DEF Side
  <2>2. BlockRight(g) BY DEF IInv
  <2>3. stage[g] # 0 BY <1>0, <2>1, <2>2 DEF BlockRight
  <2>4. QED BY <1>8, <2>3
<1>11. data \in FaceStates BY <1>2, <1>9, <1>10, StatesTyped DEF data
<1>12. AfterFace(g, s) \in {"wait"} \cup Border[g] BY <1>1, AfterOrder
<1>13. TypeOK'
  <2>1. phase' \in [Gid -> {"idle", "wait"} \cup Side]
    <3>1. AfterFace(g, s) \in {"idle", "wait"} \cup Side BY <1>12, Typed
    <3>2. QED BY <1>6, <1>8, <3>1
  <2>2. send_request' \in [Gid -> [Side -> BOOLEAN]] BY <1>4, <1>8
  <2>3. L3DValues' \in [Gid -> [Side -> FaceStates]]
        /\ R3DValues' \in [Gid -> [Side -> FaceStates]]
    <3>1. \A F \in [Gid -> [Side -> FaceStates]] :
            [F EXCEPT ![g][s] = data] \in [Gid -> [Side -> FaceStates]]
      BY <1>11
    <3>2. CASE InnerIsLeft(s)
      <4>1. R3DValues' = [R3DValues EXCEPT ![g][s] = data] /\ L3DValues' = L3DValues
        BY <1>5, <3>2
      <4>2. QED BY <1>8, <3>1, <4>1
    <3>3. CASE ~ InnerIsLeft(s)
      <4>1. L3DValues' = [L3DValues EXCEPT ![g][s] = data] /\ R3DValues' = R3DValues
        BY <1>5, <3>3
      <4>2. QED BY <1>8, <3>1, <4>1
    <3>4. QED BY <3>2, <3>3
  <2>4. QED BY <1>7, <1>8, <2>1, <2>2, <2>3 DEF TypeOK
<1>14. RemoveAt(q, 1) \in Seq(Messages) /\ Len(RemoveAt(q, 1)) = Len(q) - 1
       /\ \A n \in 1 .. Len(q) - 1 : RemoveAt(q, 1)[n] = q[n + 1]
  BY <1>2, FirstRemoved
<1>15. chan' \in [Rank -> [Rank -> Seq(Messages)]] BY <1>3, <1>8, <1>9, <1>14
<1>16. phase'[g] = AfterFace(g, s) /\ \A k \in Gid \ {g} : phase'[k] = phase[k]
  BY <1>6, <1>8
<1>17. \A x \in Border[g] \ {s} : Received(g, x)' <=> Received(g, x)
  <2>1. SUFFICES ASSUME NEW x \in Border[g] \ {s}
                 PROVE  Received(g, x)' <=> Received(g, x)
    OBVIOUS
  <2>2. Received(g, x)' <=>
          (AfterFace(g, s) \in Side => DirectionTag(x) < DirectionTag(AfterFace(g, s)))
    BY <1>16 DEF Received
  <2>3. Received(g, x) <=> DirectionTag(x) < DirectionTag(s)
    BY <1>0 DEF Received
  <2>4. QED BY <1>1, <2>2, <2>3, AfterOrder
<1>18. Received(g, s)' /\ ~ Received(g, s)
  <2>1. AfterFace(g, s) \in Side => DirectionTag(s) < DirectionTag(AfterFace(g, s))
    BY <1>1, AfterOrder
  <2>2. DirectionTag(s) \in 0 .. 3 BY <1>1, DirectionTags
  <2>3. ~ (DirectionTag(s) < DirectionTag(s)) BY <2>2
  <2>4. QED BY <1>0, <1>16, <2>1, <2>3 DEF Received
<1>19. ASSUME NEW k \in Gid PROVE BlockRight(k)'
  <2>1. BlockRight(k) BY DEF IInv
  <2>2. \A x \in Side : send_request[k][x] = FALSE => send_request'[k][x] = FALSE
    BY <1>2, <1>4, <1>8, <1>9
  <2>3. CASE k # g
    <3>1. L3DValues'[k] = L3DValues[k] /\ R3DValues'[k] = R3DValues[k]
      <4>1. CASE InnerIsLeft(s) BY <1>5, <1>8, <2>3, <4>1
      <4>2. CASE ~ InnerIsLeft(s) BY <1>5, <1>8, <2>3, <4>2
      <4>3. QED BY <4>1, <4>2
    <3>2. QED BY <1>7, <1>16, <2>1, <2>2, <2>3, <3>1, BlockKept
  <2>4. CASE k = g
    <3>1. phase'[g] # "idle" BY <1>12, <1>16, Typed DEF Side
    <3>2. phase'[g] \in Side => phase'[g] \in Border[g] BY <1>12, <1>16 DEF Side
    <3>3. \A x \in Side \ Border[g] : send_request'[g][x] = FALSE
      BY <2>1, <2>2, <2>4 DEF BlockRight
    <3>4. ASSUME NEW x \in Border[g] PROVE FaceRight(g, x)'
      <4>1. FaceRight(g, x) BY <1>10, <2>1, <2>4 DEF BlockRight
      <4>2. x \in Side BY Typed
      <4>3. Over(g, x)' = Over(g, x) /\ Seen(g, x)' = Seen(g, x) BY DEF Over, Seen
      <4>4. CASE x # s
        <5>1. L3DValues'[g][x] = L3DValues[g][x] /\ R3DValues'[g][x] = R3DValues[g][x]
          <6>1. CASE InnerIsLeft(s) BY <1>1, <1>5, <1>8, <4>2, <4>4, <6>1
          <6>2. CASE ~ InnerIsLeft(s) BY <1>1, <1>5, <1>8, <4>2, <4>4, <6>2
          <6>3. QED BY <6>1, <6>2
        <5>2. Received(g, x)' <=> Received(g, x) BY <1>17, <4>4
        <5>3. QED BY <1>7, <4>1, <4>3, <5>1, <5>2 DEF FaceRight
      <4>5. CASE x = s
        <5>1. data = States(stage[g], Over(g, x), Seen(g, x), "packed")
          BY <1>p, <4>5 DEF data
        <5>2. CASE InnerIsLeft(s)
          <6>1. R3DValues'[g][x] = data /\ L3DValues'[g][x] = L3DValues[g][x]
            BY <1>1, <1>5, <1>8, <4>5, <5>2
          <6>2. QED BY <1>7, <4>1, <4>3, <4>5, <5>1, <5>2, <6>1 DEF FaceRight
        <5>3. CASE ~ InnerIsLeft(s)
          <6>1. L3DValues'[g][x] = data /\ R3DValues'[g][x] = R3DValues[g][x]
            BY <1>1, <1>5, <1>8, <4>5, <5>3
          <6>2. QED BY <1>7, <4>1, <4>3, <4>5, <5>1, <5>3, <6>1 DEF FaceRight
        <5>4. QED BY <5>2, <5>3
      <4>6. QED BY <4>4, <4>5
    <3>5. stage'[g] # 0 BY <1>7, <1>10
    <3>6. QED BY <2>4, <3>1, <3>2, <3>3, <3>4, <3>5 DEF BlockRight
  <2>5. QED BY <2>3, <2>4
<1>20. ASSUME NEW k \in Gid, NEW x \in Border[k] PROVE LinkRight(k, x)'
  <2>1. Over(k, x) \in Gid /\ Seen(k, x) \in Border[Over(k, x)] /\ x \in Side
    BY OverBorder
  <2>2. LinkRight(k, x) BY DEF IInv
  <2>3. Over(k, x)' = Over(k, x) /\ Seen(k, x)' = Seen(k, x) BY DEF Over, Seen
  <2>4. CASE k # h \/ x # t
    <3>1. RankOf[k] # a \/ RankOf[Over(k, x)] # b
      <4>1. CASE k # h BY <1>2, <4>1 DEF OneBlockPerRank, a
      <4>2. CASE k = h /\ x # t
        <5>1. Over(k, x) # g BY <1>2, <4>2, OverInjective
        <5>2. QED BY <2>1, <5>1 DEF OneBlockPerRank, b
      <4>3. QED BY <2>4, <4>1, <4>2
    <3>2. chan'[RankOf[k]][RankOf[Over(k, x)]] = chan[RankOf[k]][RankOf[Over(k, x)]]
      BY <1>3, <1>8, <1>9, <2>1, <3>1, Typed
    <3>3. send_request'[k][x] = send_request[k][x]
      BY <1>2, <1>4, <1>8, <1>9, <2>1, <2>4
    <3>4. ReceivedStages(Over(k, x), Seen(k, x))' = ReceivedStages(Over(k, x), Seen(k, x))
      <4>1. CASE Over(k, x) = g
        <5>1. Seen(k, x) # s
          <6>1. ASSUME Seen(k, x) = s PROVE FALSE
            <7>1. k = Over(g, s) /\ x = Seen(g, s) BY <2>1, <4>1, <6>1, OverOver
            <7>2. QED BY <2>4, <7>1, <1>p
          <6>2. QED BY <6>1
        <5>2. Received(g, Seen(k, x))' <=> Received(g, Seen(k, x))
          BY <1>17, <2>1, <4>1, <5>1
        <5>3. QED BY <1>7, <2>3, <4>1, <5>2 DEF ReceivedStages, Received
      <4>2. CASE Over(k, x) # g
        BY <1>7, <1>16, <2>1, <2>3, <4>2 DEF ReceivedStages, Received
      <4>3. QED BY <4>1, <4>2
    <3>5. QED BY <1>7, <2>2, <3>2, <3>3, <3>4, LinkKept
  <2>5. CASE k = h /\ x = t
    <3>1. Queue(h, t) = q /\ Queue(h, t)' = RemoveAt(q, 1)
      <4>1. Queue(h, t) = q BY <1>2 DEF Queue, q, a, b
      <4>2. chan'[a][b] = RemoveAt(q, 1) BY <1>3, <1>8, <1>9
      <4>3. Queue(h, t)' = chan'[a][b] BY <1>2, <2>3, <2>5 DEF Queue, a, b
      <4>4. QED BY <4>1, <4>2, <4>3
    <3>2. ReceivedStages(Over(h, t), Seen(h, t)) = stage[g] - 1
          /\ ReceivedStages(Over(h, t), Seen(h, t))' = stage[g]
      <4>1. ReceivedStages(g, s) = stage[g] - 1 BY <1>18 DEF ReceivedStages
      <4>2. ReceivedStages(g, s)' = stage[g] BY <1>7, <1>18 DEF ReceivedStages
      <4>3. ReceivedStages(Over(h, t), Seen(h, t))' = ReceivedStages(g, s)'
        BY <1>2, <2>3, <2>5 DEF ReceivedStages, Received
      <4>4. QED BY <1>2, <4>1, <4>2, <4>3
    <3>3. /\ Len(q) = stage[h] - (stage[g] - 1)
          /\ \A n \in 1 .. Len(q) : q[n] = MessageOf(h, t, stage[g] - 1 + n)
          /\ eager = FALSE => Len(q) <= 1
      BY <2>2, <2>5, <3>1, <3>2 DEF LinkRight
    <3>4. Len(q) \in Nat /\ stage[g] \in Int /\ stage[h] \in Int
      BY <1>2, <1>8, LenProperties
    <3>5. \A st : MessageOf(h, t, st)' = MessageOf(h, t, st)
      BY <1>7, <2>3, <2>5 DEF MessageOf
    <3>6. Len(q) - 1 = stage[h] - stage[g]
      BY <3>3, <3>4
    <3>7. ASSUME NEW n \in 1 .. Len(q) - 1
          PROVE  RemoveAt(q, 1)[n] = MessageOf(h, t, stage[g] + n)
      <4>1. n + 1 \in 1 .. Len(q) /\ stage[g] - 1 + (n + 1) = stage[g] + n BY <3>4
      <4>2. q[n + 1] = MessageOf(h, t, stage[g] - 1 + (n + 1)) BY <3>3, <4>1
      <4>3. QED BY <1>14, <4>1, <4>2
    <3>8. eager = FALSE => Len(q) - 1 <= 1 /\ ~ (Len(q) - 1 > 0) BY <3>3, <3>4
    <3>9. send_request'[h][t] = FALSE BY <1>2, <1>4, <1>8, <1>9
    <3>10. LinkRight(h, t)'
      <4>1. Len(Queue(h, t)') = Len(q) - 1 BY <1>14, <3>1
      <4>2. send_request'[h][t] = (eager' = FALSE /\ Len(Queue(h, t)') > 0)
        BY <1>7, <3>8, <3>9, <4>1, Zenon
      <4>3. stage'[h] = stage[h] /\ eager' = eager BY <1>7
      <4>5. Queue(h, t)' = RemoveAt(q, 1) /\ \A st : MessageOf(h, t, st)' = MessageOf(h, t, st)
        BY <3>1, <3>5
      <4>6. Len(Queue(h, t)') = stage'[h] - ReceivedStages(Over(h, t), Seen(h, t))'
        BY <3>2, <3>6, <4>1, <4>3
      <4>7. eager' = FALSE => Len(Queue(h, t)') <= 1 BY <3>8, <4>1, <4>3
      <4>8. \A n \in 1 .. Len(Queue(h, t)') : Queue(h, t)'[n]
              = MessageOf(h, t, ReceivedStages(Over(h, t), Seen(h, t)) + n)'
        <5>1. \A n \in 1 .. Len(q) - 1 : Queue(h, t)'[n] = MessageOf(h, t, stage[g] + n)
          BY <3>7, <4>5
        <5> HIDE DEF Queue, MessageOf
        <5>2. QED BY <3>2, <4>1, <4>5, <5>1
      <4>9. QED BY <4>2, <4>6, <4>7, <4>8 DEF LinkRight
    <3>11. LinkRight(k, x)' <=> LinkRight(h, t)'
      BY <2>3, <2>5 DEF LinkRight, Queue, ReceivedStages, Received, MessageOf
    <3>12. QED BY <3>10, <3>11
  <2>6. QED BY <2>4, <2>5
<1>21. QED BY <1>13, <1>15, <1>19, <1>20 DEF IInv

-----------------------------------------------------------------------------
(* A block closes a stage.                                                  *)

LEMMA WaitKeeps ==
  ASSUME IInv, NEW g \in Gid, Wait(g)
  PROVE  IInv'
<1>1. /\ phase[g] = "wait" /\ \A s \in Side : ~ send_request[g][s]
      /\ phase' = [phase EXCEPT ![g] = "idle"]
      /\ stage' = stage /\ L3DValues' = L3DValues /\ R3DValues' = R3DValues
      /\ LRDataBuffer' = LRDataBuffer /\ send_request' = send_request
      /\ chan' = chan /\ eager' = eager
  BY DEF Wait, AllSent
<1>2. TypeOK' /\ chan' \in [Rank -> [Rank -> Seq(Messages)]]
  BY <1>1 DEF IInv, TypeOK
<1>3. phase'[g] = "idle" /\ \A k \in Gid \ {g} : phase'[k] = phase[k]
  BY <1>1 DEF IInv, TypeOK
<1>4. ASSUME NEW k \in Gid PROVE \A s : Received(k, s)' <=> Received(k, s)
  <2>1. CASE k = g BY <1>1, <1>3, <2>1 DEF Received, Side
  <2>2. CASE k # g BY <1>3, <2>2 DEF Received
  <2>3. QED BY <2>1, <2>2
<1>5. ASSUME NEW k \in Gid PROVE BlockRight(k)'
  <2>1. BlockRight(k) BY DEF IInv
  <2>2. CASE k # g BY <1>1, <1>3, <2>1, <2>2, BlockKept
  <2>3. CASE k = g
    <3>1. \A s \in Side : send_request[g][s] = FALSE
      BY <1>1 DEF IInv, TypeOK
    <3>2. \A s \in Border[g] : FaceRight(g, s)' <=> FaceRight(g, s)
      <4>1. \A s : Over(g, s)' = Over(g, s) /\ Seen(g, s)' = Seen(g, s)
        BY DEF Over, Seen
      <4>2. QED BY <1>1, <1>4, <4>1 DEF FaceRight
    <3>3. "idle" \notin Side /\ "wait" # "idle" BY DEF Side
    <3>4. stage[g] # 0 BY <1>1, <2>1, <2>3, <3>3 DEF BlockRight
    <3>5. QED BY <1>1, <1>3, <2>1, <2>3, <3>1, <3>2, <3>3, <3>4, Typed DEF BlockRight
  <2>4. QED BY <2>2, <2>3
<1>6. ASSUME NEW k \in Gid, NEW s \in Border[k] PROVE LinkRight(k, s)'
  <2>1. Over(k, s)' = Over(k, s) /\ Seen(k, s)' = Seen(k, s) BY DEF Over, Seen
  <2>2. Over(k, s) \in Gid BY OverBorder
  <2>3. ReceivedStages(Over(k, s), Seen(k, s))' = ReceivedStages(Over(k, s), Seen(k, s))
    <3>1. Received(Over(k, s), Seen(k, s))' <=> Received(Over(k, s), Seen(k, s))
      BY <1>4, <2>1, <2>2 DEF Received
    <3>2. QED BY <1>1, <2>1, <3>1 DEF ReceivedStages
  <2>4. LinkRight(k, s) BY DEF IInv
  <2>5. QED BY <1>1, <2>3, <2>4, LinkKept
<1>7. QED BY <1>2, <1>5, <1>6 DEF IInv

LEMMA NothingKeeps ==
  ASSUME IInv, UNCHANGED vars
  PROVE  IInv'
<1>1. /\ stage' = stage /\ phase' = phase /\ L3DValues' = L3DValues
      /\ R3DValues' = R3DValues /\ LRDataBuffer' = LRDataBuffer
      /\ send_request' = send_request /\ chan' = chan /\ eager' = eager
  BY DEF vars
<1>2. TypeOK' /\ chan' \in [Rank -> [Rank -> Seq(Messages)]]
  BY <1>1 DEF IInv, TypeOK
<1>3. \A k \in Gid : BlockRight(k)'
  <2>1. SUFFICES ASSUME NEW k \in Gid PROVE BlockRight(k)'
    OBVIOUS
  <2>2. BlockRight(k) BY DEF IInv
  <2>3. QED BY <1>1, <2>2, BlockKept
<1>4. \A k \in Gid : \A s \in Border[k] : LinkRight(k, s)'
  <2>1. SUFFICES ASSUME NEW k \in Gid, NEW s \in Border[k] PROVE LinkRight(k, s)'
    OBVIOUS
  <2>2. LinkRight(k, s) BY DEF IInv
  <2>3. ReceivedStages(Over(k, s), Seen(k, s))' = ReceivedStages(Over(k, s), Seen(k, s))
    BY <1>1 DEF ReceivedStages, Received, Over, Seen
  <2>4. QED BY <1>1, <2>2, <2>3, LinkKept
<1>5. QED BY <1>2, <1>3, <1>4 DEF IInv

LEMMA NextKeeps ==
  ASSUME OneBlockPerRank
  PROVE  IInv /\ [Next]_vars => IInv'
<1> SUFFICES ASSUME IInv, [Next]_vars
             PROVE  IInv'
  OBVIOUS
<1>1. ASSUME NEW g \in Gid, SaveAndSend(g) PROVE IInv' BY <1>1, SaveAndSendKeeps
<1>2. ASSUME NEW g \in Gid, Recv(g) PROVE IInv' BY <1>2, RecvKeeps
<1>3. ASSUME NEW g \in Gid, Wait(g) PROVE IInv' BY <1>3, WaitKeeps
<1>4. CASE UNCHANGED vars BY <1>4, NothingKeeps
<1>5. QED BY <1>1, <1>2, <1>3, <1>4 DEF Next, BlockStep, Finished

-----------------------------------------------------------------------------
(* With one block on each rank, every message on the way and every face     *)
(* state is the one of its stage.                                           *)
THEOREM FluxInvariant ==
  ASSUME OneBlockPerRank
  PROVE  Spec => []IInv
<1>1. Init => IInv BY InitInvariant
<1>2. IInv /\ [Next]_vars => IInv' BY NextKeeps
<1>3. QED BY <1>1, <1>2, PTL DEF Spec

(* The stages stay in their bounds, and buffers hold states of a face.      *)
THEOREM FluxTypeCorrect ==
  ASSUME OneBlockPerRank
  PROVE  Spec => []TypeOK
<1>1. IInv => TypeOK BY DEF IInv
<1>2. QED BY <1>1, FluxInvariant, PTL

(* A block is at most one stage ahead of those it exchanges states with.    *)
THEOREM SkewBounded ==
  ASSUME OneBlockPerRank
  PROVE  Spec => []StageSkew
<1>1. ASSUME IInv, NEW g \in Gid, NEW h \in Partners[g]
      PROVE  stage[g] - stage[h] <= 1
  <2>1. PICK s \in Border[g] : h = Over(g, s) BY DEF Partners, Over
  <2> DEFINE t == Seen(g, s)
  <2>2. h \in Gid /\ t \in Border[h] /\ Over(h, t) = g /\ Seen(h, t) = s
    BY <2>1, OverBorder, OverOver
  <2> HIDE DEF t
  <2>3. Len(Queue(h, t)) = stage[h] - ReceivedStages(g, s)
    BY <1>1, <2>2 DEF IInv, LinkRight
  <2>4. Len(Queue(h, t)) \in Nat
    <3>1. Queue(h, t) \in Seq(Messages) BY <1>1, <2>2, Typed DEF IInv, Queue
    <3>2. QED BY <3>1, LenProperties
  <2>5. stage[g] \in Int /\ stage[h] \in Int BY <1>1, <2>2 DEF IInv, TypeOK
  <2>6. ReceivedStages(g, s) = stage[g] \/ ReceivedStages(g, s) = stage[g] - 1
    BY DEF ReceivedStages
  <2>7. QED BY <2>3, <2>4, <2>5, <2>6
<1>2. IInv => StageSkew BY <1>1 DEF StageSkew
<1>3. QED BY <1>2, FluxInvariant, PTL

(* The Riemann problems of a face are solved from the two states found at   *)
(* each of its points in the same stage, on one basis: the tables tgbid and *)
(* dinv, the tags and the buffers fit for any number of blocks and cells.   *)
THEOREM FacesAgree ==
  ASSUME OneBlockPerRank
  PROVE  Spec => []FaceStatesAgree
<1>1. ASSUME IInv, NEW g \in Gid, phase[g] = "idle", stage[g] > 0, NEW s \in Border[g]
      PROVE  LET inner == IF InnerIsLeft(s) THEN L3DValues[g][s] ELSE R3DValues[g][s]
                 outer == IF InnerIsLeft(s) THEN R3DValues[g][s] ELSE L3DValues[g][s]
             IN  /\ inner = States(stage[g], g, s, "inner")
                 /\ outer.stage = stage[g] /\ outer.kind = "packed"
                 /\ FaceMatches[outer.gid][outer.face][g][s]
  <2> DEFINE h == Over(g, s)
             t == Seen(g, s)
             inner == IF InnerIsLeft(s) THEN L3DValues[g][s] ELSE R3DValues[g][s]
             outer == IF InnerIsLeft(s) THEN R3DValues[g][s] ELSE L3DValues[g][s]
  <2>1. h \in Gid /\ t \in Border[h] /\ Over(h, t) = g /\ Seen(h, t) = s
    BY OverBorder, OverOver
  <2>2. FaceRight(g, s) BY <1>1 DEF IInv, BlockRight
  <2>3. Received(g, s) BY <1>1 DEF Received, Side
  <2> HIDE DEF h, t
  <2>4. inner = States(stage[g], g, s, "inner") /\ outer = States(stage[g], h, t, "packed")
    BY <2>2, <2>3 DEF FaceRight, h, t
  <2>5. FaceMatches[h][t][g][s] BY <2>1, BordersMatch
  <2> HIDE DEF inner, outer
  <2>6. /\ outer.stage = stage[g] /\ outer.kind = "packed"
        /\ outer.gid = h /\ outer.face = t
    BY <2>4 DEF States
  <2>7. FaceMatches[outer.gid][outer.face][g][s] BY <2>5, <2>6
  <2>8. QED BY <2>4, <2>6, <2>7 DEF inner, outer
<1>2. IInv => FaceStatesAgree BY <1>1 DEF FaceStatesAgree
<1>3. QED BY <1>2, FluxInvariant, PTL

(* A stage is opened only when the sends of the one before are complete, so *)
(* no buffer is rewritten under MPI.                                        *)
THEOREM BuffersHeld ==
  ASSUME OneBlockPerRank
  PROVE  Spec => BufferHeld
<1>1. ASSUME IInv, [Next]_vars, NEW g \in Gid, LRDataBuffer'[g] # LRDataBuffer[g],
             NEW s \in Side, send_request[g][s]
      PROVE  LRDataBuffer'[g][s] = LRDataBuffer[g][s]
  <2>1. ASSUME NEW h \in Gid, SaveAndSend(h) PROVE FALSE
    <3>1. phase[h] = "idle" /\ LRDataBuffer' = [LRDataBuffer EXCEPT ![h] = LRDataBuffer'[h]]
      BY <1>1, <2>1, Opened
    <3>2. h = g BY <1>1, <3>1 DEF IInv, TypeOK
    <3>3. send_request[g][s] = FALSE BY <1>1, <3>1, <3>2 DEF IInv, BlockRight
    <3>4. QED BY <1>1, <3>3
  <2>2. ASSUME NEW h \in Gid, Recv(h) PROVE FALSE BY <1>1, <2>2 DEF Recv
  <2>3. ASSUME NEW h \in Gid, Wait(h) PROVE FALSE BY <1>1, <2>3 DEF Wait
  <2>4. CASE UNCHANGED vars BY <1>1, <2>4 DEF vars
  <2>5. QED BY <1>1, <2>1, <2>2, <2>3, <2>4 DEF Next, BlockStep, Finished
<1>2. IInv /\ [Next]_vars =>
        (\A g \in Gid : LRDataBuffer'[g] # LRDataBuffer[g] =>
           \A s \in Side : send_request[g][s] => LRDataBuffer'[g][s] = LRDataBuffer[g][s])
  BY <1>1
<1>3. QED BY <1>2, FluxInvariant, PTL DEF Spec, BufferHeld

=============================================================================
