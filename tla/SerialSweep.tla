----------------------------- MODULE SerialSweep -----------------------------
(***************************************************************************)
(* What the implicit solver promises (snap/implicit): each tridiagonal     *)
(* system along a stack of blocks is eliminated from the bottom block to   *)
(* the top one and then back-substituted from the top to the bottom, one   *)
(* system after the other.  A block's part of the solution is what one     *)
(* process solving the whole column would have found.                      *)
(***************************************************************************)
EXTENDS Naturals

CONSTANTS
  P,          \* blocks stacked along the direction that is solved
  MaxSolve    \* systems to solve

VARIABLES
  eliminated,   \* eliminated[b]: systems block b has eliminated
  solved,       \* solved[b]: systems block b has the solution of
  solution      \* solution[b][i]: block b's part of the solution of system i

vars == <<eliminated, solved, solution>>

Block == 1 .. P
Solve == 1 .. MaxSolve

\* The right result of the elimination through block b, and of the
\* substitution down to it, in system i.
Eliminated(i, b) == <<"eliminated", i, b>>
Solved(i, b) == <<"solved", i, b>>
None == <<"none", 0, 0>>

Init ==
  /\ eliminated = [b \in Block |-> 0]
  /\ solved = [b \in Block |-> 0]
  /\ solution = [b \in Block |-> [i \in Solve |-> None]]

\* The block below has eliminated this system, and the bottom block starts a
\* system when all blocks have the solution of the one before.
Eliminate(b) ==
  /\ eliminated[b] = solved[b]
  /\ eliminated[b] < MaxSolve
  /\ IF b = 1 THEN \A c \in Block : solved[c] = eliminated[b]
              ELSE eliminated[b - 1] > eliminated[b]
  /\ eliminated' = [eliminated EXCEPT ![b] = @ + 1]
  /\ UNCHANGED <<solved, solution>>

\* The block above has solved this system, and the top block starts back when
\* all blocks have eliminated it.
Substitute(b) ==
  /\ solved[b] < eliminated[b]
  /\ IF b = P THEN \A c \in Block : eliminated[c] = eliminated[b]
              ELSE solved[b + 1] > solved[b]
  /\ solved' = [solved EXCEPT ![b] = @ + 1]
  /\ solution' = [solution EXCEPT ![b][solved[b] + 1] = Solved(solved[b] + 1, b)]
  /\ UNCHANGED eliminated

Next == \E b \in Block : Eliminate(b) \/ Substitute(b)

Spec == Init /\ [][Next]_vars
=============================================================================
