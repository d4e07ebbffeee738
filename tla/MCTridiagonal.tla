---------------------------- MODULE MCTridiagonal ----------------------------
(* Instance of Tridiagonal: the systems of MCImplicitSweep's tall stack,    *)
(* with coefficients that look random; every other one is periodic.         *)
EXTENDS MCImplicitSweep, Tridiagonal

Random(i, j, k) == LET x == (131 * i + 17 * j + 5 * k + 11) % q IN (x * x * x + 7 * x) % q
MatrixOf(i, j, k) ==
  <<<<Random(i, j, k), Random(i, j, k + 1)>>, <<Random(i, j, k + 2), Random(i, j, k + 3)>>>>
VectorOf(i, j, k) == <<<<Random(i, j, k), 0>>, <<Random(i, j, k + 1), 0>>>>

MCSystem ==
  [i \in Solve |->
    [periodic |-> i % 2 = 0,
     a   |-> [j \in Row |-> MatrixOf(i, j, 0)],
     b   |-> [j \in Row |-> MatrixOf(i, j, 10)],
     c   |-> [j \in Row |-> MatrixOf(i, j, 20)],
     rhs |-> [j \in Row |-> VectorOf(i, j, 30)]]]

ASSUME PivotsRegular == RegularPivots
=============================================================================
