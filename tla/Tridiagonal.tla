----------------------------- MODULE Tridiagonal -----------------------------
(***************************************************************************)
(* ImplicitSweep with the numbers it sends (forward_backward.hpp and       *)
(* periodic_forward_backward.hpp): the block tridiagonal system of a       *)
(* column, eliminated and solved block by block.  A block depends on the   *)
(* one below by what that sends up, and on the one above by what that      *)
(* sends down; the numbers are followed as long as what is received is     *)
(* what was sent for the system.                                           *)
(*                                                                         *)
(* The matrices of a cell do not commute; they have two rows instead of    *)
(* three (PartialCorrection) or five (FullCorrection), over the integers   *)
(* modulo a prime, where what holds is exact.  A vector is a matrix whose  *)
(* second column is zero.                                                  *)
(***************************************************************************)
EXTENDS ImplicitSweep, Integers

CONSTANTS
  N,        \* cells of a block along the column
  q,        \* a prime
  System    \* System[i]: the coefficients of system i

VARIABLES
  swept,    \* swept[b][i]: coefficients_ of block b, and what it sent up
  found     \* found[b][i]: the solution of system i in it, and what it sent down

valueVars == <<vars, swept, found>>

Row == 1 .. P * N     \* the cells of a column, the lowest first
il(b) == (b - 1) * N + 1
iu(b) == b * N

Matrix == [1 .. 2 -> [1 .. 2 -> 0 .. q - 1]]

(* Coefficients of a system: a, b, c are the diagonal, what is left and     *)
(* right of it; periodic tells whether both ends of the mesh are.  The      *)
(* elimination of a periodic system needs two cells in a block, and two     *)
(* blocks or a third cell.                                                  *)
SystemType ==
  [periodic : BOOLEAN, a : [Row -> Matrix], b : [Row -> Matrix],
   c : [Row -> Matrix], rhs : [Row -> Matrix]]

ASSUME SystemAssumption ==
  /\ N \in Nat /\ N >= 2 /\ P >= 2 /\ q \in Nat /\ q > 2
  /\ System \in [Solve -> SystemType]
  /\ \A i \in Solve, j \in Row :
       System[i].rhs[j][1][2] = 0 /\ System[i].rhs[j][2][2] = 0

-----------------------------------------------------------------------------
Zero == <<<<0, 0>>, <<0, 0>>>>
A ++ B == [r \in 1 .. 2 |-> [s \in 1 .. 2 |-> (A[r][s] + B[r][s]) % q]]
A -- B == [r \in 1 .. 2 |-> [s \in 1 .. 2 |-> (A[r][s] - B[r][s]) % q]]
A ** B ==
  [r \in 1 .. 2 |-> [s \in 1 .. 2 |-> (A[r][1] * B[1][s] + A[r][2] * B[2][s]) % q]]

\* A number without a reciprocal is given 0 for one; the inverse of a matrix
\* whose determinant has none is no inverse.
Reciprocal ==
  [x \in 0 .. q - 1 |->
    IF \E y \in 1 .. q - 1 : (x * y) % q = 1
    THEN CHOOSE y \in 1 .. q - 1 : (x * y) % q = 1 ELSE 0]
Determinant(A) == (A[1][1] * A[2][2] - A[1][2] * A[2][1]) % q
Regular(A) == Reciprocal[Determinant(A)] # 0
Inverted(A) ==
  LET d == Reciprocal[Determinant(A)]
  IN  <<<<(d * A[2][2]) % q, (d * (- A[1][2])) % q>>,
        <<(d * (- A[2][1])) % q, (d * A[1][1]) % q>>>>

\* What a wall does to a cell: density and energy are mirrored, velocity turns.
Bnd == <<<<1, 0>>, <<0, q - 1>>>>

\* The diagonal, with the walls folded in.
Diag(s, i) ==
  IF s.periodic THEN s.a[i]
  ELSE CASE i = 1     -> s.a[i] ++ (s.b[i] ** Bnd)
         [] i = P * N -> s.a[i] ++ (s.c[i] ** Bnd)
         [] OTHER     -> s.a[i]

\* The coefficients to the right.  Below its first cell a block has the one of
\* a ghost cell, taken here to be that of the cell it copies: the last cell of
\* the block below, or of the column.
DiagU(s, i) == IF i = 0 THEN s.c[P * N] ELSE s.c[i]

-----------------------------------------------------------------------------
\* What ForwardSweep inverts in cell i, and what it leaves there, from the
\* cell below.
Pivot(s, i, under) ==
  IF i = 1 THEN Diag(s, i) ELSE Diag(s, i) -- (s.b[i] ** under.a)
ForwardCell(s, i, under) ==
  LET inv == Inverted(Pivot(s, i, under))
  IN  [a     |-> inv ** s.c[i],
       delta |-> inv ** (IF i = 1 THEN s.rhs[i] ELSE s.rhs[i] -- (s.b[i] ** under.delta))]

(* ForwardSweep of block b: a and delta of its cells, from those below.     *)
ForwardCells(s, b, below) ==
  LET cell[i \in il(b) - 1 .. iu(b)] ==
        IF i < il(b) THEN below ELSE ForwardCell(s, i, cell[i - 1])
  IN  cell
Forward(s, b, below) ==
  LET cell == ForwardCells(s, b, below) IN [cell |-> cell, up |-> cell[iu(b)]]

(* BackwardSubstitution of block b from the cell above it.                  *)
BackwardCells(s, b, coefficients, above) ==
  LET delta[i \in il(b) .. iu(b)] ==
        IF i = P * N THEN coefficients[i].delta
        ELSE coefficients[i].delta --
               (coefficients[i].a ** (IF i = iu(b) THEN above.delta ELSE delta[i + 1]))
  IN  delta
Backward(s, b, coefficients, above) ==
  LET delta == BackwardCells(s, b, coefficients, above)
  IN  [cell |-> delta, down |-> [delta |-> delta[il(b)]]]

\* The same of PeriodicForwardSweep.
PeriodicPivot(s, i, under) ==
  IF i = 1 THEN Diag(s, i)
  ELSE Diag(s, i) -- (s.b[i] ** under.ainv ** DiagU(s, i - 1))
PeriodicCell(s, i, under) ==
  LET left == s.b[i] ** under.ainv
      ainv == Inverted(PeriodicPivot(s, i, under))
  IN  IF i = 1
      THEN [ainv |-> ainv, gamma |-> s.b[i], beta |-> DiagU(s, i - 1) ** ainv,
            zeta |-> s.rhs[i]]
      ELSE [ainv |-> ainv, gamma |-> Zero -- (left ** under.gamma),
            beta |-> Zero -- (under.beta ** DiagU(s, i - 1) ** ainv),
            zeta |-> s.rhs[i] -- (left ** under.zeta)]
PeriodicCells(s, b, below) ==
  LET cell[i \in il(b) - 1 .. iu(b)] ==
        IF i < il(b) THEN below ELSE PeriodicCell(s, i, cell[i - 1])
  IN  cell

\* Variant: the last block adds its last cell to the sums, as the others do.
SummedAll(b) == iu(b)
\* The last cell a block adds to the sums of beta gamma and beta zeta.
Summed(b) == IF b = P THEN iu(b) - 1 ELSE iu(b)
Totals(b, from, term) ==
  LET total[i \in il(b) - 1 .. Summed(b)] ==
        IF i < il(b) THEN from ELSE total[i - 1] ++ term[i]
  IN  total
Total(b, from, term) == Totals(b, from, term)[Summed(b)]

\* The last block joins the corner elements to the two cells they meet.
Joined(s, b, loop) ==
  LET n   == iu(b)
      two == loop[n - 2]
  IN  IF b < P THEN loop
      ELSE [loop EXCEPT
        ![n - 1].gamma = DiagU(s, n - 1) -- (s.b[n - 1] ** two.ainv ** two.gamma),
        ![n - 1].beta = (s.b[n] -- (two.beta ** DiagU(s, n - 2))) ** loop[n - 1].ainv]

(* PeriodicForwardSweep of block b; the last block closes the system.       *)
PeriodicForward(s, b, below) ==
  LET n    == iu(b)
      cell == Joined(s, b, PeriodicCells(s, b, IF b = 1 THEN <<>> ELSE below.cell))
      bg   == Total(b, IF b = 1 THEN Zero ELSE below.bg,
                    [i \in il(b) .. n |-> cell[i].beta ** cell[i].gamma])
      bz   == Total(b, IF b = 1 THEN Zero ELSE below.bz,
                    [i \in il(b) .. n |-> cell[i].beta ** cell[i].zeta])
  IN  [cell |-> IF b < P THEN cell
                ELSE [cell EXCEPT ![n].ainv = Inverted(Diag(s, n) -- bg),
                                  ![n].zeta = s.rhs[n] -- bz],
       up   |-> [cell |-> cell[n], bg |-> bg, bz |-> bz]]

\* diagU in PeriodicBackwardSubstitution: that element is in gamma already.
PeriodicU(s, b, i) == IF b = P /\ i = iu(b) - 1 THEN Zero ELSE DiagU(s, i)

(* PeriodicBackwardSubstitution of block b from the cell above and the last *)
(* cell of the column.                                                      *)
PeriodicBackwardCells(s, b, coefficients, above, last) ==
  LET delta[i \in il(b) .. iu(b)] ==
        IF i = P * N THEN last
        ELSE LET k    == coefficients[i]
                 over == IF i = iu(b) THEN above.delta ELSE delta[i + 1]
             IN  k.ainv ** (k.zeta -- (PeriodicU(s, b, i) ** over) -- (k.gamma ** last))
  IN  delta
PeriodicBackward(s, b, coefficients, above) ==
  LET n     == iu(b)
      last  == IF b = P THEN coefficients[n].ainv ** coefficients[n].zeta ELSE above.last
      delta == PeriodicBackwardCells(s, b, coefficients, above, last)
  IN  [cell |-> delta, down |-> [delta |-> delta[il(b)], last |-> last]]

-----------------------------------------------------------------------------
\* The sweeps PartialCorrection and FullCorrection choose.
Swept(i, b, below) ==
  IF System[i].periodic THEN PeriodicForward(System[i], b, below)
                        ELSE Forward(System[i], b, below)
Elimination(i, b) == Swept(i, b, IF b = 1 THEN <<>> ELSE swept[b - 1][i].up)

Substitution(i, b) ==
  LET above == IF b = P THEN <<>> ELSE found[b + 1][i].down
      coefficients == swept[b][i].cell
  IN  IF System[i].periodic THEN PeriodicBackward(System[i], b, coefficients, above)
                            ELSE Backward(System[i], b, coefficients, above)

ValueInit ==
  /\ Init
  /\ swept = [b \in Block |-> [i \in Solve |-> <<>>]]
  /\ found = [b \in Block |-> [i \in Solve |-> <<>>]]

(* A sweep of ImplicitSweep with what it computes.                          *)
ForwardValues(b) ==
  LET i == eliminated[b] + 1
  IN  /\ ForwardSweep(b)
      /\ swept' = IF coefficient'[b][ColumnOf(i)] = Eliminated(i, b)
                  THEN [swept EXCEPT ![b][i] = Elimination(i, b)] ELSE swept
      /\ UNCHANGED found

BackwardValues(b) ==
  LET i == solved[b] + 1
  IN  /\ BackwardSubstitution(b)
      /\ found' = IF solution'[b][i] = Solved(i, b)
                  THEN [found EXCEPT ![b][i] = Substitution(i, b)] ELSE found
      /\ UNCHANGED swept

ValueNext ==
  \/ \E b \in Block : ForwardValues(b) \/ BackwardValues(b)
  \/ Stopped /\ UNCHANGED <<swept, found>>

ValueSpec == ValueInit /\ [][ValueNext]_valueVars /\ Fairness

-----------------------------------------------------------------------------
\* What the elimination of a system inverts has an inverse.
Eliminations(i) ==
  LET sweep[b \in Block] == Swept(i, b, IF b = 1 THEN <<>> ELSE sweep[b - 1].up)
  IN  sweep
RegularSystem(i) ==
  \A b \in Block :
    LET s == System[i]
        e == Eliminations(i)[b]
    IN  \A j \in il(b) .. iu(b) :
          Regular(IF ~ s.periodic THEN Pivot(s, j, e.cell[j - 1])
                  ELSE IF j = P * N THEN Diag(s, j) -- e.up.bg
                  ELSE PeriodicPivot(s, j, e.cell[j - 1]))
RegularPivots == \A i \in Solve : RegularSystem(i)

\* Cell j of the column in system i, or what lies beyond an end of it.
Cell(i, j) == found[(j - 1) \div N + 1][i].cell[j]
Beyond(i, j) ==
  IF j \in Row THEN Cell(i, j)
  ELSE IF System[i].periodic THEN Cell(i, IF j = 0 THEN P * N ELSE 1)
  ELSE Bnd ** Cell(i, IF j = 0 THEN 1 ELSE P * N)

(* Once all blocks have solved a column, what they have left in it          *)
(* satisfies each equation of the system, also those that join two blocks   *)
(* and, in a periodic mesh, the first and the last.                         *)
SolvesSystem ==
  \A i \in Solve : (\A b \in Block : found[b][i] # <<>>) =>
    LET s == System[i]
    IN  \A j \in Row :
          (s.b[j] ** Beyond(i, j - 1)) ++ (s.a[j] ** Beyond(i, j))
            ++ (s.c[j] ** Beyond(i, j + 1)) = s.rhs[j]

=============================================================================
