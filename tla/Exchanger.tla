----------------------------- MODULE Exchanger -----------------------------
(***************************************************************************)
(* How an exchanger groups the MPI ranks (exchanger/exchanger.cpp and the  *)
(* Regroup functions of exchanger.hpp), one meshblock per rank.  A linear  *)
(* exchanger groups the ranks of a column along a direction, for radiation;*)
(* a planar one the ranks of the plane across it, for the means that       *)
(* diagnostics take.  setColor gathers the rank below of every rank and    *)
(* gives each the colour of the rank below it, in one loop over the ranks; *)
(* the ranks of one colour become a communicator.  Every rank runs this    *)
(* same loop on the same gathered data.                                    *)
(***************************************************************************)
EXTENDS Integers, FiniteSets, Sequences

CONSTANTS
  Mesh,         \* arrangements of blocks, see MeshType
  Request,      \* Request[mesh]: the exchangers and directions to group for
  MaxRegroup    \* bound: calls of Regroup

Dir == {"X1DIR", "X2DIR", "X3DIR"}
Kind == {"linear", "planar"}
None == -1

\* n ranks; the rank below each in each direction as the neighbour table has
\* it, across a periodic boundary too; the ranks at the lower end of the mesh.
MeshType(n) ==
  [n : {n}, below : [Dir -> [0 .. n - 1 -> -1 .. n - 1]],
   lowest : [Dir -> SUBSET (0 .. n - 1)]]

ASSUME MeshAssumption ==
  /\ \A msh \in Mesh : msh.n \in Nat \ {0} /\ msh \in MeshType(msh.n)
  /\ Request \in [Mesh -> SUBSET [kind : Kind, dir : Dir]]
  /\ MaxRegroup \in Nat

VARIABLES
  mesh,     \* the arrangement of this run
  group,    \* the exchanger being grouped: its kind and direction
  todo,     \* the directions setColor is still to be called for
  phase,    \* what Regroup does next
  i, c,     \* the loop of setColor: next rank, next unused colour
  brank,    \* brank[r]: the rank below r
  color,    \* color[r]: the colour of r
  comm,     \* comm[r]: the ranks in the communicator of r
  regroups  \* calls of Regroup made

vars == <<mesh, group, todo, phase, i, c, brank, color, comm, regroups>>

Rank == 0 .. mesh.n - 1

\* The rank below r in direction d.  Variant: across a periodic boundary.
BelowIn(msh, d, r) == IF r \in msh.lowest[d] THEN None ELSE msh.below[d][r]
BelowPeriodic(d, r) == mesh.below[d][r]
Below(d, r) == BelowIn(mesh, d, r)

\* The directions of the calls of setColor in Regroup.  Variant: one pass.
PassesOne(g) ==
  IF g.kind = "linear" THEN <<g.dir>>
  ELSE CASE g.dir = "X1DIR" -> <<"X3DIR">>
         [] g.dir = "X2DIR" -> <<"X3DIR">>
         [] g.dir = "X3DIR" -> <<"X2DIR">>

Passes(g) ==
  IF g.kind = "linear" THEN <<g.dir>>
  ELSE CASE g.dir = "X1DIR" -> <<"X2DIR", "X3DIR">>
         [] g.dir = "X2DIR" -> <<"X1DIR", "X3DIR">>
         [] g.dir = "X3DIR" -> <<"X1DIR", "X2DIR">>

-----------------------------------------------------------------------------
Init ==
  /\ mesh \in Mesh
  /\ group = [kind |-> "none"]
  /\ todo = <<>>
  /\ phase = "idle"
  /\ i = 0 /\ c = 0
  /\ brank = [r \in Rank |-> None]
  /\ color = [r \in Rank |-> None]
  /\ comm = [r \in Rank |-> Rank]
  /\ regroups = 0

(* Variant: the colours of the grouping before are kept.                    *)
RegroupUncleared(g) ==
  /\ phase = "idle"
  /\ regroups < MaxRegroup
  /\ group' = g
  /\ todo' = Passes(g)
  /\ phase' = "gather"
  /\ regroups' = regroups + 1
  /\ UNCHANGED <<mesh, i, c, brank, color, comm>>

(* LinearExchanger::Regroup, PlanarExchanger::Regroup: forget all colours.  *)
Regroup(g) ==
  /\ phase = "idle"
  /\ regroups < MaxRegroup
  /\ group' = g
  /\ todo' = Passes(g)
  /\ phase' = "gather"
  /\ color' = [r \in Rank |-> None]
  /\ regroups' = regroups + 1
  /\ UNCHANGED <<mesh, i, c, brank, comm>>

(* setColor: find the neighbours, gather the rank below of every rank.      *)
GatherBelow ==
  /\ phase = "gather"
  /\ brank' = [r \in Rank |-> Below(Head(todo), r)]
  /\ i' = 0
  /\ c' = 0
  /\ phase' = "color"
  /\ UNCHANGED <<mesh, group, todo, color, comm, regroups>>

\* The colour the loop gives to the rank it is at.  Variant: counted up
\* before it is used.
NewColorAfter(r) ==
  IF brank[r] # None THEN color[brank[r]]
  ELSE IF color[r] = None THEN c + 1 ELSE color[r]

NewColor(r) ==
  IF brank[r] # None THEN color[brank[r]]
  ELSE IF color[r] = None THEN c ELSE color[r]

(* One turn of the loop.                                                    *)
ColorRank ==
  /\ phase = "color"
  /\ i \in Rank
  /\ color' = [color EXCEPT ![i] = NewColor(i)]
  /\ c' = IF brank[i] = None /\ color[i] = None THEN c + 1 ELSE c
  /\ i' = i + 1
  /\ UNCHANGED <<mesh, group, todo, phase, brank, comm, regroups>>

(* MPI_Comm_split by colour, which frees the communicator before.           *)
Split ==
  /\ phase = "color"
  /\ i = mesh.n
  /\ comm' = [r \in Rank |-> {q \in Rank : color[q] = color[r]}]
  /\ todo' = Tail(todo)
  /\ phase' = IF Tail(todo) = <<>> THEN "idle" ELSE "gather"
  /\ UNCHANGED <<mesh, group, i, c, brank, color, regroups>>

Finished == phase = "idle" /\ regroups = MaxRegroup /\ UNCHANGED vars

Next ==
  \/ \E g \in Request[mesh] : Regroup(g)
  \/ GatherBelow
  \/ ColorRank
  \/ Split
  \/ Finished

Spec == Init /\ [][Next]_vars

\* How many ranks of the group are below r.
GetRankInGroup[r \in Rank] ==
  IF brank[r] = None THEN 0 ELSE 1 + GetRankInGroup[brank[r]]

-----------------------------------------------------------------------------
\* What holds of a Cartesian mesh numbered along a Z curve: the rank below is
\* a lower one, and down in one direction and then in another is the same as
\* the other way round.  (The cubed sphere does not have it.)
Grid(msh) ==
  LET Bottom(d, r) == BelowIn(msh, d, r)
  IN  \A d, e \in Dir, r \in 0 .. msh.n - 1 :
        Bottom(d, r) # None =>
          /\ Bottom(d, r) < r
          /\ e # d => /\ Bottom(e, r) = None <=> Bottom(e, Bottom(d, r)) = None
                      /\ Bottom(e, r) # None =>
                           Bottom(d, Bottom(e, r)) = Bottom(e, Bottom(d, r))

\* No two ranks have the same rank below them.
OneAbove(msh) ==
  \A d \in Dir, q, r \in 0 .. msh.n - 1 :
    BelowIn(msh, d, q) = BelowIn(msh, d, r) /\ BelowIn(msh, d, q) # None => q = r

(* The loop variables, and colours that MPI_Comm_split accepts.             *)
TypeOK ==
  /\ mesh \in Mesh
  /\ phase \in {"idle", "gather", "color"}
  /\ i \in 0 .. mesh.n /\ c \in 0 .. mesh.n
  /\ brank \in [Rank -> Rank \cup {None}]
  /\ color \in [Rank -> Rank \cup {None}]
  /\ comm \in [Rank -> SUBSET Rank]
  /\ regroups \in 0 .. MaxRegroup

Grouped == phase = "idle" /\ group.kind # "none"

\* The directions in which the ranks of a group are beside each other.
Across(g) == IF g.kind = "linear" THEN {g.dir} ELSE Dir \ {g.dir}

\* A set with each rank has the ranks below and above it.
Closed(ds, S) ==
  \A d \in ds, r \in Rank : Below(d, r) # None => (r \in S <=> Below(d, r) \in S)

Connected(ds, q, r) == \A S \in SUBSET Rank : Closed(ds, S) => (q \in S <=> r \in S)

(* After Regroup two ranks are in one communicator exactly when steps from  *)
(* a rank to the one below or above it lead from one to the other, in the   *)
(* direction of a linear exchanger or in the two across a planar one's.     *)
GroupsConnected ==
  Grouped => \A q, r \in Rank :
    q \in comm[r] <=> Connected(Across(group), q, r)

(* No rank hands a negative colour to MPI_Comm_split.                       *)
ColorsAssigned == phase = "color" /\ i = mesh.n => \A r \in Rank : color[r] # None

(* The rank in the group that a linear exchanger finds by walking down is   *)
(* the place MPI gives the rank in the communicator, so what the rank       *)
(* gathers from place n is from the block n above the lowest.               *)
GatheredInOrder ==
  Grouped /\ group.kind = "linear" => \A r \in Rank :
    GetRankInGroup[r] = Cardinality({q \in comm[r] : q < r})

=============================================================================
