--------------------------- MODULE GhostExchange ---------------------------
(***************************************************************************)
(* How the ghost cells of a cubed-sphere block are filled from the block   *)
(* across a face (exo3/cubed_sphere_utility.cpp, called from the patched   *)
(* LoadBoundaryBufferSameLevel).  The sender interpolates its outermost    *)
(* layers along the border to the places of the receiver's ghost cells,    *)
(* projects velocities on the basis found there, and packs the values in   *)
(* the order in which the receiver, which knows nothing of panels, unpacks *)
(* them.  The behaviours are the exchanges of one buffer, of every face of *)
(* every block.                                                            *)
(*                                                                         *)
(* A value is abstracted to the layer and the place along the border it is *)
(* interpolated in and for, and to the place whose basis its velocity is   *)
(* on.  Angles are in units in which a panel runs from -B * N to B * N.    *)
(***************************************************************************)
EXTENDS CubedSphere, Sequences

CONSTANTS
  N,          \* cells along a block side (nx2 = nx3)
  NGHOST      \* ghost layers

\* A block wider than its ghost layers: the comparison that tells the two
\* ends of a block apart needs it (see Layer).
ASSUME GhostAssumption ==
  /\ N \in Nat \ {0}
  /\ NGHOST \in Nat \ {0}
  /\ N > NGHOST + 1

VARIABLES
  loc, side,   \* the sending block and its face
  phase,       \* what has happened to the buffer
  buf,         \* the values in the buffer
  ghost        \* the ghost cells of the receiver behind its face

vars == <<loc, side, phase, buf, ghost>>

\* Cells are numbered 0 .. N - 1; ghost cells lie below 0 and from N on.
Inside == 0 .. N - 1
Below  == -NGHOST .. -1
Above  == N .. N + NGHOST - 1

\* The outermost layers sent through face s, and the ghost layers behind it:
\* index ranges [sj, ej] of x2 and [sk, ek] of x3.  Variant of Sent: the layers
\* from the second on.
SentShifted(s) ==
  CASE s = "up"    -> [sj |-> 1, ej |-> NGHOST, sk |-> 0, ek |-> N - 1]
    [] s = "down"  -> [sj |-> N - NGHOST, ej |-> N - 1, sk |-> 0, ek |-> N - 1]
    [] s = "left"  -> [sj |-> 0, ej |-> N - 1, sk |-> 1, ek |-> NGHOST]
    [] s = "right" -> [sj |-> 0, ej |-> N - 1, sk |-> N - NGHOST, ek |-> N - 1]

Sent(s) ==
  CASE s = "up"    -> [sj |-> 0, ej |-> NGHOST - 1, sk |-> 0, ek |-> N - 1]
    [] s = "down"  -> [sj |-> N - NGHOST, ej |-> N - 1, sk |-> 0, ek |-> N - 1]
    [] s = "left"  -> [sj |-> 0, ej |-> N - 1, sk |-> 0, ek |-> NGHOST - 1]
    [] s = "right" -> [sj |-> 0, ej |-> N - 1, sk |-> N - NGHOST, ek |-> N - 1]

Behind(s) ==
  CASE s = "up"    -> [sj |-> -NGHOST, ej |-> -1, sk |-> 0, ek |-> N - 1]
    [] s = "down"  -> [sj |-> N, ej |-> N + NGHOST - 1, sk |-> 0, ek |-> N - 1]
    [] s = "left"  -> [sj |-> 0, ej |-> N - 1, sk |-> -NGHOST, ek |-> -1]
    [] s = "right" -> [sj |-> 0, ej |-> N - 1, sk |-> N, ek |-> N + NGHOST - 1]

\* The loops of PackDataR0 .. PackDataR3: the outer and the inner index, and
\* their directions.  PackOrder(r, x) is the sequence of cells <<j, k>>.
Nested(outer, inner, Cell(_, _)) ==
  [n \in 1 .. Len(outer) * Len(inner) |->
    Cell(outer[1 + (n - 1) \div Len(inner)], inner[1 + ((n - 1) % Len(inner))])]

Count(a, b) == [n \in 1 .. b - a + 1 |-> a + n - 1]
CountDown(a, b) == [n \in 1 .. b - a + 1 |-> b - n + 1]

JK(j, k) == <<j, k>>
KJ(k, j) == <<j, k>>

PackOrder(r, x) ==
  CASE r = "R0" -> Nested(Count(x.sk, x.ek), Count(x.sj, x.ej), KJ)
    [] r = "R1" -> Nested(CountDown(x.sj, x.ej), Count(x.sk, x.ek), JK)
    [] r = "R2" -> Nested(CountDown(x.sk, x.ek), CountDown(x.sj, x.ej), KJ)
    [] r = "R3" -> Nested(Count(x.sj, x.ej), CountDown(x.sk, x.ek), JK)

-----------------------------------------------------------------------------
\* The tables of PackData, columns up, down, left, right.
Column(s) == CASE s = "up" -> 1 [] s = "down"  -> 2
               [] s = "left" -> 3 [] s = "right" -> 4

dinv(p, s) ==
  << <<1, 0, 0, 1>>, <<0, 0, 0, 0>>, <<0, 1, 0, 0>>,
     <<1, 0, 0, 0>>, <<0, 1, 1, 0>>, <<1, 1, 0, 0>> >>[p][Column(s)] = 1

tgside(p, s) ==
  << <<-1, -1, -1, -1>>, <<1, -1, 1, -1>>, <<-1, -1, 1, -1>>,
     <<1, 1, 1, -1>>, <<1, 1, 1, 1>>, <<-1, 1, 1, -1>> >>[p][Column(s)]

tgbid(p, s) ==
  << <<6, 2, 3, 4>>, <<1, 5, 3, 4>>, <<1, 5, 6, 2>>,
     <<1, 5, 2, 6>>, <<2, 6, 3, 4>>, <<1, 5, 4, 3>> >>[p][Column(s)]

\* Variant: every border is packed as a face inside a panel is.
BorderOrderPlain(p, s) == "R0"

BorderOrder(p, s) ==
  << <<"R2", "R0", "R3", "R1">>, <<"R0", "R0", "R0", "R0">>,
     <<"R1", "R3", "R0", "R0">>, <<"R3", "R1", "R0", "R0">>,
     <<"R0", "R2", "R1", "R3">>, <<"R2", "R2", "R0", "R0">> >>[p][Column(s)]

-----------------------------------------------------------------------------
\* Positions in the chart of a panel.
Angle(l, i) == 2 * (l * N + i) + 1 - B * N

AlongX3(s) == s \in {"up", "down"}

\* How deep a cell lies below the border it is sent through, as the code
\* finds it: by comparing the first index across with the last along.
Layer(s, j, k) ==
  LET x == Sent(s)
  IN  IF AlongX3(s)
      THEN IF x.sj < x.ek - NGHOST THEN [now |-> j - x.sj, side |-> -1]
                                   ELSE [now |-> x.ej - j, side |->  1]
      ELSE IF x.sk < x.ej - NGHOST THEN [now |-> k - x.sk, side |-> -1]
                                   ELSE [now |-> x.ek - k, side |->  1]

\* The eight pairs of panels for which InteprolateX3 swaps the coordinates
\* (variant: none, as in InteprolateX2).
SwappedNever(p, q) == FALSE
Swapped(p, q) ==
  <<p, q>> \in ({3, 4} \X {1, 5}) \cup ({1, 5} \X {3, 4})

(* The value InteprolateX2 or InteprolateX3 leaves in the place of cell     *)
(* (j, k): interpolated in layer depth, at source angle across, for the     *)
(* place "along" of the border; its velocity on the basis at "basis" of     *)
(* panel tgbid.  Only InteprolateX3 swaps the coordinates of the basis.     *)
Interpolated(l, s, j, k) ==
  LET p      == FindBlockID(l)
      i      == GetLocalIndex(l)
      layer  == Layer(s, j, k)
      along  == IF AlongX3(s) THEN Angle(i.local_lx3, k) ELSE Angle(i.local_lx2, j)
      to     == IF dinv(p, s) THEN -along ELSE along
      beyond == tgside(p, s) * (2 * layer.now + 1 + B * N)
      x3pair == <<beyond, to>>
      swap   == AlongX3(s) /\ Swapped(p, tgbid(p, s))
  IN  [from   |-> <<l, s>>,
       along  |-> along,
       depth  |-> layer.now,
       across |-> layer.side * (B * N - (2 * layer.now + 1)),
       panel  |-> tgbid(p, s),
       basis  |-> IF AlongX3(s) THEN IF swap THEN <<to, beyond>> ELSE <<beyond, to>>
                                ELSE <<to, beyond>>]

\* A face inside a panel copies the cell; every panel border is interpolated.
Copied(l, j, k) == [cell |-> <<l.lx2 * N + j, l.lx3 * N + k>>]

PackData(l, s) ==
  LET cells == PackOrder(IF AtPanelEdge(l, s) THEN BorderOrder(FindBlockID(l), s)
                                              ELSE "R0", Sent(s))
  IN  [n \in DOMAIN cells |->
        IF AtPanelEdge(l, s) THEN Interpolated(l, s, cells[n][1], cells[n][2])
                             ELSE Copied(l, cells[n][1], cells[n][2])]

\* UnpackData: the receiver fills the ghost cells behind its face in order.
UnpackData(s, values) ==
  LET cells == PackOrder("R0", Behind(s))
  IN  [c \in {cells[n] : n \in DOMAIN cells} |->
        values[CHOOSE n \in DOMAIN cells : cells[n] = c]]

-----------------------------------------------------------------------------
Init ==
  /\ loc \in Location
  /\ side \in Side
  /\ phase = "ready"
  /\ buf = <<>>
  /\ ghost = <<>>

\* LoadBoundaryBufferSameLevel.
Load ==
  /\ phase = "ready"
  /\ buf' = PackData(loc, side)
  /\ phase' = "sent"
  /\ UNCHANGED <<loc, side, ghost>>

\* SetBoundarySameLevel of the neighbour, for the buffer named by targetid.
SetBoundary ==
  /\ phase = "sent"
  /\ ghost' = UnpackData(NeighborSide(loc, side), buf)
  /\ phase' = "set"
  /\ UNCHANGED <<loc, side, buf>>

Exchanged == phase = "set" /\ UNCHANGED vars

Next == Load \/ SetBoundary \/ Exchanged

Spec == Init /\ [][Next]_vars

-----------------------------------------------------------------------------
\* The receiver of the exchange and its face.
to == NeighborLoc(loc, side)
toSide == NeighborSide(loc, side)

\* The point of the border where a line across it, at the angle "along",
\* leaves the panel of block l through face s.
BorderPoint(l, s, along) ==
  LET edge == IF s \in {"up", "left"} THEN -B * N ELSE B * N
  IN  IF AlongX3(s) THEN SurfacePoint(FindBlockID(l), edge, along, B * N)
                    ELSE SurfacePoint(FindBlockID(l), along, edge, B * N)

GhostAlong(c) ==
  LET i == GetLocalIndex(to)
  IN  IF AlongX3(toSide) THEN Angle(i.local_lx3, c[2]) ELSE Angle(i.local_lx2, c[1])

GhostDepth(c) ==
  CASE toSide = "up"   -> -1 - c[1]
    [] toSide = "down" -> c[1] - N
    [] toSide = "left" -> -1 - c[2]
    [] toSide = "right" -> c[2] - N

(* Every ghost cell behind a panel border gets the value interpolated for   *)
(* it: of the layer as far below the border as the ghost cell is beyond it, *)
(* at the same point along the border, and interpolated at the angle that   *)
(* layer really has (tables dinv and BorderOrder against the charts).       *)
GhostsMatch ==
  phase = "set" /\ AtPanelEdge(loc, side) =>
    \A c \in DOMAIN ghost :
      LET v == ghost[c]
          i == GetLocalIndex(loc)
      IN  /\ v.depth = GhostDepth(c)
          /\ BorderPoint(loc, side, v.along) = BorderPoint(to, toSide, GhostAlong(c))
          /\ v.panel = FindBlockID(to)
          /\ v.across = CASE side = "up"    -> Angle(i.local_lx2, v.depth)
                          [] side = "down"  -> Angle(i.local_lx2, N - 1 - v.depth)
                          [] side = "left"  -> Angle(i.local_lx3, v.depth)
                          [] side = "right" -> Angle(i.local_lx3, N - 1 - v.depth)

(* Inside a panel every ghost cell gets the value of the cell it shadows.   *)
GhostsCopied ==
  phase = "set" /\ ~ AtPanelEdge(loc, side) =>
    \A c \in DOMAIN ghost :
      ghost[c].cell = <<to.lx2 * N + c[1], to.lx3 * N + c[2]>>

\* The place in the receiver's chart of a ghost cell.
GhostPlace(c) ==
  LET i == GetLocalIndex(to)
  IN  <<Angle(i.local_lx2, c[1]), Angle(i.local_lx3, c[2])>>

(* "Projection needed, find the tgt locations first": the velocity put in a *)
(* ghost cell is on the basis at the place of that ghost cell.              *)
BasisAtGhost ==
  phase = "set" /\ AtPanelEdge(loc, side) =>
    \A c \in DOMAIN ghost : ghost[c].basis = GhostPlace(c)

\* The borders whose sender works along x2 and whose receiver along x3.
TurnedByX2 == ~ AlongX3(side) /\ AlongX3(toSide)

(* The same everywhere else: InteprolateX3 and the borders along which both *)
(* panels have the same coordinate.                                         *)
BasisUnlessTurned ==
  phase = "set" /\ AtPanelEdge(loc, side) /\ ~ TurnedByX2 =>
    \A c \in DOMAIN ghost : ghost[c].basis = GhostPlace(c)

=============================================================================
