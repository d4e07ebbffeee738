--------------------------- MODULE MCImplicitSweep ---------------------------
(* Instances of ImplicitSweep: stacks of two to five blocks.                *)
EXTENDS ImplicitSweep

\* One block on each rank.
MCOneBlockPerRank == [b \in Block |-> b]

\* All blocks on one rank.
MCSameRank == [b \in Block |-> 1]

\* The worst hash: all messages have the same tag.
MCSameTag == [b \in Block |-> [c \in Block |-> [w \in Way |-> 0]]]
==============================================================================
