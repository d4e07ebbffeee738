---------------------------- MODULE MCExchanger ----------------------------
(* Arrangements of blocks for Exchanger, one block per rank, numbered as    *)
(* the mesh tree does: along a Z curve.                                     *)
EXTENDS Exchanger

CONSTANT Shapes     \* numbers of blocks along x1, x2 and x3, each at most 4

\* The place of a block on the Z curve.
Key(x) ==
  (x[1] % 2) + 2 * (x[2] % 2) + 4 * (x[3] % 2)
  + 8 * ((x[1] \div 2) + 2 * (x[2] \div 2) + 4 * (x[3] \div 2))

Axis == [X1DIR |-> 1, X2DIR |-> 2, X3DIR |-> 3]

Cartesian(shape, periodic) ==
  LET Block == {x \in (0 .. 3) \X (0 .. 3) \X (0 .. 3) :
                  \A a \in 1 .. 3 : x[a] < shape[a]}
      n == Cardinality(Block)
      RankOf(x) == Cardinality({y \in Block : Key(y) < Key(x)})
      BlockOf(r) == CHOOSE x \in Block : RankOf(x) = r
      Lower(x, a) == [x EXCEPT ![a] = IF @ = 0 THEN shape[a] - 1 ELSE @ - 1]
  IN  [n |-> n,
       below |-> [d \in Dir |-> [r \in 0 .. n - 1 |->
         LET x == BlockOf(r)
         IN  IF x[Axis[d]] = 0 /\ ~ periodic THEN None
             ELSE RankOf(Lower(x, Axis[d]))]],
       lowest |-> [d \in Dir |-> {r \in 0 .. n - 1 : BlockOf(r)[Axis[d]] = 0}]]

MCShapes == {<<4, 1, 1>>, <<1, 4, 1>>, <<3, 2, 1>>, <<1, 3, 2>>, <<2, 2, 2>>, <<2, 1, 3>>}
CartesianMesh == {Cartesian(s, p) : s \in Shapes, p \in BOOLEAN}

Cube == INSTANCE CubedSphere WITH B <- 1

\* Six panels, a block each.  A face of x1 is none of a sphere's.
CubeRank(loc) == loc.lx2 + 2 * loc.lx3
CubeMesh ==
  LET LocOf(r) == [lx2 |-> r % 2, lx3 |-> r \div 2]
  IN  [n |-> 6,
       below |-> [d \in Dir |-> [r \in 0 .. 5 |->
          CASE d = "X1DIR" -> None
            [] d = "X2DIR" -> CubeRank(Cube!NeighborLoc(LocOf(r), "up"))
            [] d = "X3DIR" -> CubeRank(Cube!NeighborLoc(LocOf(r), "left"))]],
       lowest |-> [d \in Dir |->
         CASE d = "X1DIR" -> 0 .. 5
           [] d = "X2DIR" -> {r \in 0 .. 5 : r % 2 = 0}
           [] d = "X3DIR" -> {r \in 0 .. 5 : r < 2}]]

MCMesh == CartesianMesh \cup {CubeMesh}

\* Every use on a Cartesian mesh; on the sphere those in the program: columns
\* for radiation, spheres for diagnostics.
MCRequest ==
  [msh \in MCMesh |->
    [kind : Kind, dir : IF msh = CubeMesh THEN {"X1DIR"} ELSE Dir]]

\* Those with Cartesian blocks are grids, as the theorems suppose.
ASSUME CartesianGrids == \A msh \in CartesianMesh : Grid(msh) /\ OneAbove(msh)
=============================================================================
