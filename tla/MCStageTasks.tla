---------------------------- MODULE MCStageTasks ----------------------------
(* Setups of StageTasks: panels of a cubed sphere that meet each other, and *)
(* three blocks in a line.                                                  *)
EXTENDS StageTasks

OwnRanks(B) == [b \in B |-> b]
Alone(B) == [b \in B |-> {b}]

Panels(B, scalars) ==
  [sphere |-> TRUE, scalars |-> scalars, block |-> B, rank |-> OwnRanks(B),
   links |-> {l \in B \X B : l[1] # l[2]}, stack |-> Alone(B)]

SpherePanels == {Panels(1 .. 3, FALSE), Panels(1 .. 2, TRUE)}

Line(rank, stack) ==
  [sphere |-> FALSE, scalars |-> FALSE, block |-> 1 .. 3, rank |-> rank,
   links |-> {l \in (1 .. 3) \X (1 .. 3) : l[1] - l[2] \in {-1, 1}}, stack |-> stack]

\* Side by side, two of them on one rank; above each other.
Row == Line(<<1, 1, 2>>, Alone(1 .. 3))
Column == Line(OwnRanks(1 .. 3), [b \in 1 .. 3 |-> 1 .. 3])
Setups == SpherePanels \cup {Row, Column}
=============================================================================
