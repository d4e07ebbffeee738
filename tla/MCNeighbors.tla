---------------------------- MODULE MCNeighbors ----------------------------
(* Instances of Neighbors: three ranks, each owning one panel row's blocks. *)
EXTENDS Neighbors

MCRankOf == [loc \in Location |-> loc.lx3 \div B]
=============================================================================
