-------------------------- MODULE MCColumnRadiation --------------------------
(* ColumnRadiation with the integers modulo a prime for numbers, and cells  *)
(* of different heights, areas and volumes.                                 *)
EXTENDS ColumnRadiation, FiniteSetsExt

q == 31

MCNumber == 0 .. q - 1
MCPlus(x, y) == (x + y) % q
MCMinus(x, y) == (x - y) % q
MCTimes(x, y) == (x * y) % q
MCReciprocal == [y \in 1 .. q - 1 |-> CHOOSE z \in 1 .. q - 1 : (y * z) % q = 1]
MCOver(x, y) == (x * MCReciprocal[y]) % q

\* A flux that depends on every entry of the column, and how far it is.
MCDisort(given, level) ==
  LET layer(l) ==
        LET e == given.layers[l]
        IN  IF e.block = -1 THEN 0
            ELSE (1 + e.block + 3 * e.layer + 5 * e.step + 7 * e.column + 11 * e.bin)
                   * (2 * (l - level) * (l - level) + l + 1)
      face(l) ==
        LET e == given.temper[l]
        IN  IF e.block = -1 THEN 0
            ELSE (2 + 3 * e.block + e.face + 7 * e.step + 5 * e.column)
                   * ((l - level) * (l - level) + 2 * l + 3)
  IN  (MapThenSumSet(layer, 0 .. nlyr - 1) + MapThenSumSet(face, 0 .. nlyr)) % q

MCWght == [b \in 0 .. nspec - 1 |-> 2 * b + 3]
MCFarea ==
  [r \in Rank |-> [c \in 1 .. ncolumns |-> [i \in 0 .. nlayers |->
    (c + (r * nlayers + i + 1) * (r * nlayers + i + 1)) % q]]]
MCVol ==
  [r \in Rank |-> [c \in 1 .. ncolumns |-> [i \in 0 .. nlayers - 1 |->
    (2 * c + 3 * (r * nlayers + i) + 1) % q]]]
MCDx1f == [r \in Rank |-> [i \in 0 .. nlayers - 1 |-> 2 + i + 3 * r]]
==============================================================================
