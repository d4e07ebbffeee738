----------------------------- MODULE Neighbors -----------------------------
(***************************************************************************)
(* How the meshblocks of a cubed sphere find each other: the patched       *)
(* SearchAndSetNeighbors (patches/30.bvals_base.patch) fills, first for    *)
(* the two x2 faces and then for the two x3 faces, the neighbour's         *)
(* location and the boundary buffer of the neighbour that this block's     *)
(* data is for (targetid).  Every rank builds its blocks one after the     *)
(* other in the order of their global ids; ranks do not wait for each      *)
(* other.  Nothing later repairs the tables, so sender and receiver must   *)
(* have derived matching entries independently.                            *)
(***************************************************************************)
EXTENDS CubedSphere

CONSTANTS
  Rank,       \* the MPI ranks
  RankOf      \* the rank that owns a block

ASSUME RankOfAssumption == RankOf \in [Location -> Rank]

VARIABLES
  neighbor,   \* neighbor[loc][s]: entry of face s, Unset before it is found
  search      \* search[loc]: the face pair the constructor handles next

tables == <<neighbor, search>>

Entry == [loc : Location, side : Side]
Unset == [loc |-> [lx2 |-> -1, lx3 |-> -1], side |-> "none"]
IsSet(loc, s) == neighbor[loc][s] # Unset

\* The order in which a rank constructs its blocks (global ids).
Before(l, loc) ==
  \/ l.lx3 < loc.lx3
  \/ l.lx3 = loc.lx3 /\ l.lx2 < loc.lx2

Found(loc, s) == [loc |-> NeighborLoc(loc, s), side |-> NeighborSide(loc, s)]

SearchInit ==
  /\ neighbor = [loc \in Location |-> [s \in Side |-> Unset]]
  /\ search = [loc \in Location |-> "x2"]

\* The rank has finished the blocks it constructs before this one.
Turn(loc) ==
  \A l \in Location :
    RankOf[l] = RankOf[loc] /\ Before(l, loc) => search[l] = "done"

SetX2Faces(loc) ==
  /\ search[loc] = "x2"
  /\ Turn(loc)
  /\ neighbor' = [neighbor EXCEPT ![loc]["up"]   = Found(loc, "up"),
                                  ![loc]["down"] = Found(loc, "down")]
  /\ search' = [search EXCEPT ![loc] = "x3"]

SetX3Faces(loc) ==
  /\ search[loc] = "x3"
  /\ neighbor' = [neighbor EXCEPT ![loc]["left"]  = Found(loc, "left"),
                                  ![loc]["right"] = Found(loc, "right")]
  /\ search' = [search EXCEPT ![loc] = "done"]

AllDone == \A loc \in Location : search[loc] = "done"

\* The mesh is built; the program goes on to the time loop.
Built == AllDone /\ UNCHANGED tables

SearchNext ==
  \/ \E loc \in Location : SetX2Faces(loc) \/ SetX3Faces(loc)
  \/ Built

SearchSpec == SearchInit /\ [][SearchNext]_tables

-----------------------------------------------------------------------------
(* Every neighbour found is a block of the mesh (TransformOX's displacement *)
(* never leaves the tree, so FindNeighbor needs no periodic wrap), and an   *)
(* entry is set exactly when its face pair has been handled.                *)
TypeOK ==
  /\ neighbor \in [Location -> [Side -> Entry \cup {Unset}]]
  /\ search \in [Location -> {"x2", "x3", "done"}]

(* If a block lists h through face t as its neighbour, and h has filled     *)
(* that face, then h's entry points back at the block and the very face:    *)
(* the buffer the one fills is the buffer the other waits for.              *)
Reciprocal ==
  \A loc \in Location, s \in Side :
    LET e == neighbor[loc][s]
    IN  IsSet(loc, s) /\ IsSet(e.loc, e.side)
          => neighbor[e.loc][e.side] = [loc |-> loc, side |-> s]

(* No two faces of the mesh deliver into the same boundary buffer.          *)
NoBufferClash ==
  \A l, m \in Location, s, t \in Side :
    IsSet(l, s) /\ IsSet(m, t) /\ neighbor[l][s] = neighbor[m][t]
      => l = m /\ s = t

(* The seam table agrees with the charts that give cells their latitude and *)
(* longitude (RLLFromXYP): a face and the face it is joined to have the     *)
(* same two corner points on the sphere.                                    *)
SameEdge ==
  \A loc \in Location, s \in Side :
    IsSet(loc, s) =>
      FaceCorners(loc, s) = FaceCorners(neighbor[loc][s].loc, neighbor[loc][s].side)

=============================================================================
