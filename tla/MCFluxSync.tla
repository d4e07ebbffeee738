----------------------------- MODULE MCFluxSync -----------------------------
(* Instances of FluxSync: one block per panel.  With B = 1 the tree order   *)
(* of the mesh numbers the locations row by row.                            *)
EXTENDS FluxSync

MCLocOf == [g \in Gid |-> [lx2 |-> g % 2, lx3 |-> g \div 2]]

\* One block per rank, as doc/README-exo2.md requires of a cubed sphere.
MCOneBlockPerRank == [g \in Gid |-> g]
=============================================================================
