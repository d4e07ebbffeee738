---------------------- MODULE HydrostaticSweepTheorems ----------------------
(***************************************************************************)
(* Proofs about HydrostaticSweep: for any number of columns, of blocks in  *)
(* a column, of cells and ghost cells of a block and of stages, any        *)
(* placement of the blocks on ranks and any densities.                     *)
(***************************************************************************)
EXTENDS HydrostaticSweep, WellFoundedInduction, TLAPS

-----------------------------------------------------------------------------
(* Induction over an interval of indices, stated with sets: the least       *)
(* natural number outside a set closed under successor does not exist.      *)
LEMMA NatSet ==
  ASSUME NEW S, 0 \in S, \A n \in Nat : n \in S => n + 1 \in S
  PROVE  Nat \subseteq S
<1> DEFINE T == Nat \ S
<1> SUFFICES ASSUME T # {} PROVE FALSE OBVIOUS
<1> DEFINE R == OpToRel(<, Nat)
<1>1. IsWellFoundedOn(R, Nat) BY NatLessThanWellFounded
<1>2. \A x, y \in Nat : y < x => <<y, x>> \in R BY DEF OpToRel
<1> HIDE DEF R
<1>3. T \subseteq Nat OBVIOUS
<1>4. PICK x \in T : \A y \in T : ~ (<<y, x>> \in R) BY <1>1, <1>3, WFMin, Zenon
<1>5. x # 0 BY <1>4
<1>6. x - 1 \in Nat /\ x - 1 < x BY <1>5
<1>7. x - 1 \notin T BY <1>2, <1>4, <1>6
<1>8. x \in S BY <1>6, <1>7
<1>9. QED BY <1>8

LEMMA Upward ==
  ASSUME NEW a \in Int, NEW b \in Int, NEW S, a \in S,
         \A i \in a .. b - 1 : i \in S => i + 1 \in S
  PROVE  a .. b \subseteq S
<1> DEFINE T == {n \in Nat : a + n <= b => a + n \in S}
<1>1. 0 \in T OBVIOUS
<1>2. \A n \in Nat : n \in T => n + 1 \in T
  <2> SUFFICES ASSUME NEW n \in Nat, a + n <= b => a + n \in S, a + (n + 1) <= b
               PROVE  a + (n + 1) \in S
    OBVIOUS
  <2>1. a + n \in a .. b - 1 /\ a + n \in S OBVIOUS
  <2>2. (a + n) + 1 \in S BY <2>1
  <2>3. QED BY <2>2
<1>3. Nat \subseteq T
  <2> HIDE DEF T
  <2>1. QED BY <1>1, <1>2, NatSet
<1>4. ASSUME NEW i \in a .. b PROVE i \in S
  <2>1. i - a \in Nat /\ a + (i - a) = i OBVIOUS
  <2>2. i - a \in T BY <1>3, <2>1
  <2>3. QED BY <2>1, <2>2
<1>5. QED BY <1>4

LEMMA Downward ==
  ASSUME NEW a \in Int, NEW b \in Int, NEW S, b \in S,
         \A i \in a .. b - 1 : i + 1 \in S => i \in S
  PROVE  a .. b \subseteq S
<1> DEFINE T == {n \in Nat : a <= b - n => b - n \in S}
<1>1. 0 \in T OBVIOUS
<1>2. \A n \in Nat : n \in T => n + 1 \in T
  <2> SUFFICES ASSUME NEW n \in Nat, a <= b - n => b - n \in S, a <= b - (n + 1)
               PROVE  b - (n + 1) \in S
    OBVIOUS
  <2>1. b - (n + 1) \in a .. b - 1 /\ (b - (n + 1)) + 1 = b - n /\ b - n \in S OBVIOUS
  <2>2. QED BY <2>1
<1>3. Nat \subseteq T
  <2> HIDE DEF T
  <2>1. QED BY <1>1, <1>2, NatSet
<1>4. ASSUME NEW i \in a .. b PROVE i \in S
  <2>1. b - i \in Nat /\ b - (b - i) = i OBVIOUS
  <2>2. b - i \in T BY <1>3, <2>1
  <2>3. QED BY <2>1, <2>2
<1>5. QED BY <1>4

-----------------------------------------------------------------------------
(* The recursive sum of FromTop is the start value at the top, and grows by *)
(* h[i] from face i + 1 to face i.                                          *)
LEMMA SumDown ==
  ASSUME NEW a \in Int, NEW b \in Int, a <= b, NEW v \in Int,
         NEW h, \A i \in a .. b - 1 : h[i] \in Int
  PROVE  LET f == FromTop(v, h, a, b)
         IN  /\ f \in [a .. b -> Int] /\ f[b] = v
             /\ \A i \in a .. b - 1 : f[i] = f[i + 1] + h[i]
<1> DEFINE Sums(k, f) == f = [i \in k .. b |-> IF i = b THEN v ELSE f[i + 1] + h[i]]
           Has == {k \in Int : \E f : Sums(k, f)}
           sum == CHOOSE f : Sums(a, f)
<1>1. b \in Has
  <2>1. Sums(b, [i \in b .. b |-> v]) OBVIOUS
  <2>2. QED BY <2>1
<1>2. ASSUME NEW k \in a .. b - 1, k + 1 \in Has PROVE k \in Has
  <2>1. PICK f : Sums(k + 1, f) BY <1>2
  <2> DEFINE g == [i \in k .. b |-> IF i = k THEN f[k + 1] + h[k] ELSE f[i]]
  <2>2. ASSUME NEW i \in k .. b
        PROVE  g[i] = IF i = b THEN v ELSE g[i + 1] + h[i]
    <3>1. CASE i = k BY <3>1
    <3>2. CASE i # k
      <4>1. i \in k + 1 .. b BY <3>2
      <4>2. f[i] = IF i = b THEN v ELSE f[i + 1] + h[i] BY <2>1, <4>1
      <4>3. QED BY <3>2, <4>2
    <3>3. QED BY <3>1, <3>2
  <2>3. g = [i \in k .. b |-> IF i = b THEN v ELSE g[i + 1] + h[i]]
    <3>1. [i \in k .. b |-> g[i]] = [i \in k .. b |-> IF i = b THEN v ELSE g[i + 1] + h[i]] BY <2>2
    <3>2. g = [i \in k .. b |-> g[i]] OBVIOUS
    <3> HIDE DEF g
    <3>3. QED BY <3>1, <3>2
  <2>4. Sums(k, g) BY <2>3
  <2> HIDE DEF g, Sums
  <2>5. \E f2 : Sums(k, f2) BY <2>4
  <2>6. QED BY <2>5
<1>3. a \in Has
  <2> HIDE DEF Has
  <2>1. a .. b \subseteq Has BY <1>1, <1>2, Downward
  <2>2. QED BY <2>1
<1>4. Sums(a, sum) BY <1>3
<1>5. /\ sum[b] = v /\ DOMAIN sum = a .. b
      /\ \A i \in a .. b - 1 : sum[i] = sum[i + 1] + h[i]
      /\ sum = [i \in a .. b |-> sum[i]]
  <2>1. ASSUME NEW s, Sums(a, s)
        PROVE  DOMAIN s = a .. b /\ \A i \in a .. b : s[i] = IF i = b THEN v ELSE s[i + 1] + h[i]
    BY <2>1
  <2>2. ASSUME NEW s, Sums(a, s) PROVE s = [i \in a .. b |-> s[i]]
    <3>1. DOMAIN s = a .. b /\ s = [i \in DOMAIN s |-> s[i]] BY <2>2
    <3>2. QED BY <3>1
  <2> HIDE DEF sum, Sums
  <2>3. DOMAIN sum = a .. b /\ \A i \in a .. b : sum[i] = IF i = b THEN v ELSE sum[i + 1] + h[i]
    BY <1>4, <2>1
  <2>4. sum = [i \in a .. b |-> sum[i]] BY <1>4, <2>2
  <2>5. sum[b] = v BY <2>3
  <2>6. \A i \in a .. b - 1 : sum[i] = sum[i + 1] + h[i]
    <3>1. \A i \in a .. b - 1 : i \in a .. b /\ i # b OBVIOUS
    <3>2. QED BY <2>3, <3>1
  <2>7. QED BY <2>3, <2>4, <2>5, <2>6
<1>6. \A i \in a .. b : sum[i] \in Int
  <2> DEFINE T == {i \in Int : sum[i] \in Int}
  <2> HIDE DEF sum
  <2>1. b \in T BY <1>5
  <2>2. ASSUME NEW i \in a .. b - 1, i + 1 \in T PROVE i \in T
    <3>1. sum[i] = sum[i + 1] + h[i] /\ h[i] \in Int /\ sum[i + 1] \in Int BY <1>5, <2>2
    <3>2. sum[i + 1] + h[i] \in Int BY <3>1
    <3>3. QED BY <3>1, <3>2
  <2>3. a .. b \subseteq T
    <3> HIDE DEF T
    <3>1. QED BY <2>1, <2>2, Downward
  <2>4. QED BY <2>3
<1>7. sum \in [a .. b -> Int]
  <2> HIDE DEF sum
  <2>1. QED BY <1>5, <1>6
<1>8. FromTop(v, h, a, b) = sum BY DEF FromTop
<1> HIDE DEF sum
<1>9. QED BY <1>5, <1>7, <1>8

(* The same, summed from the bottom up.                                     *)
LEMMA SumUp ==
  ASSUME NEW a \in Int, NEW b \in Int, a <= b, NEW v \in Int,
         NEW h, \A i \in a .. b - 1 : h[i] \in Int
  PROVE  LET f == FromBottom(v, h, a, b)
         IN  /\ f \in [a .. b -> Int] /\ f[a] = v
             /\ \A i \in a .. b - 1 : f[i + 1] = f[i] - h[i]
<1> DEFINE Sums(k, f) == f = [i \in a .. k |-> IF i = a THEN v ELSE f[i - 1] - h[i - 1]]
           Has == {k \in Int : \E f : Sums(k, f)}
           sum == CHOOSE f : Sums(b, f)
<1>1. a \in Has
  <2>1. Sums(a, [i \in a .. a |-> v]) OBVIOUS
  <2>2. QED BY <2>1
<1>2. ASSUME NEW k \in a .. b - 1, k \in Has PROVE k + 1 \in Has
  <2>1. PICK f : Sums(k, f) BY <1>2
  <2> DEFINE g == [i \in a .. k + 1 |-> IF i = k + 1 THEN f[k] - h[k] ELSE f[i]]
  <2>2. ASSUME NEW i \in a .. k + 1
        PROVE  g[i] = IF i = a THEN v ELSE g[i - 1] - h[i - 1]
    <3>1. CASE i = k + 1 BY <3>1
    <3>2. CASE i # k + 1
      <4>1. i \in a .. k BY <3>2
      <4>2. f[i] = IF i = a THEN v ELSE f[i - 1] - h[i - 1] BY <2>1, <4>1
      <4>3. QED BY <3>2, <4>1, <4>2
    <3>3. QED BY <3>1, <3>2
  <2>3. g = [i \in a .. k + 1 |-> IF i = a THEN v ELSE g[i - 1] - h[i - 1]]
    <3>1. [i \in a .. k + 1 |-> g[i]]
            = [i \in a .. k + 1 |-> IF i = a THEN v ELSE g[i - 1] - h[i - 1]]
      BY <2>2
    <3>2. g = [i \in a .. k + 1 |-> g[i]] OBVIOUS
    <3> HIDE DEF g
    <3>3. QED BY <3>1, <3>2
  <2>4. Sums(k + 1, g) BY <2>3
  <2> HIDE DEF g, Sums
  <2>5. \E f2 : Sums(k + 1, f2) BY <2>4
  <2>6. QED BY <2>5
<1>3. b \in Has
  <2> HIDE DEF Has
  <2>1. a .. b \subseteq Has BY <1>1, <1>2, Upward
  <2>2. QED BY <2>1
<1>4. Sums(b, sum) BY <1>3
<1>5. /\ sum[a] = v /\ DOMAIN sum = a .. b
      /\ \A i \in a .. b - 1 : sum[i + 1] = sum[i] - h[i]
      /\ sum = [i \in a .. b |-> sum[i]]
  <2>1. ASSUME NEW s, Sums(b, s)
        PROVE  DOMAIN s = a .. b
               /\ \A i \in a .. b : s[i] = IF i = a THEN v ELSE s[i - 1] - h[i - 1]
    BY <2>1
  <2>2. ASSUME NEW s, Sums(b, s) PROVE s = [i \in a .. b |-> s[i]]
    <3>1. DOMAIN s = a .. b /\ s = [i \in DOMAIN s |-> s[i]] BY <2>2
    <3>2. QED BY <3>1
  <2> HIDE DEF sum, Sums
  <2>3. DOMAIN sum = a .. b
        /\ \A i \in a .. b : sum[i] = IF i = a THEN v ELSE sum[i - 1] - h[i - 1]
    BY <1>4, <2>1
  <2>4. sum = [i \in a .. b |-> sum[i]] BY <1>4, <2>2
  <2>5. sum[a] = v BY <2>3
  <2>6. ASSUME NEW i \in a .. b - 1 PROVE sum[i + 1] = sum[i] - h[i]
    <3>1. i + 1 \in a .. b /\ i + 1 # a /\ (i + 1) - 1 = i OBVIOUS
    <3>2. sum[i + 1] = sum[(i + 1) - 1] - h[(i + 1) - 1] BY <2>3, <3>1
    <3>3. QED BY <3>1, <3>2
  <2>7. QED BY <2>3, <2>4, <2>5, <2>6
<1>6. \A i \in a .. b : sum[i] \in Int
  <2> DEFINE T == {i \in Int : sum[i] \in Int}
  <2> HIDE DEF sum
  <2>1. a \in T BY <1>5
  <2>2. ASSUME NEW i \in a .. b - 1, i \in T PROVE i + 1 \in T
    <3>1. sum[i + 1] = sum[i] - h[i] /\ h[i] \in Int /\ sum[i] \in Int BY <1>5, <2>2
    <3>2. sum[i] - h[i] \in Int BY <3>1
    <3>3. QED BY <3>1, <3>2
  <2>3. a .. b \subseteq T
    <3> HIDE DEF T
    <3>1. QED BY <2>1, <2>2, Upward
  <2>4. QED BY <2>3
<1>7. sum \in [a .. b -> Int]
  <2> HIDE DEF sum
  <2>1. QED BY <1>5, <1>6
<1>8. FromBottom(v, h, a, b) = sum BY DEF FromBottom
<1> HIDE DEF sum
<1>9. QED BY <1>5, <1>7, <1>8

-----------------------------------------------------------------------------
(* Downwards and Upwards change the faces they are given and no other, each *)
(* by the weight of the cell next to it.                                    *)
LEMMA DownwardsIs ==
  ASSUME NEW p \in [Face -> Int], NEW cells, NEW sign \in {-1, 1},
         NEW il \in Int, NEW iu \in Int, il <= iu + 1, il .. iu + 1 \subseteq Face,
         \A i \in il .. iu : Density[cells[i].of] \in Int
  PROVE  LET d == Downwards(p, cells, sign, il, iu)
         IN  /\ d \in [Face -> Int]
             /\ \A i \in Face : i \notin il .. iu => d[i] = p[i]
             /\ \A i \in il .. iu : d[i] = d[i + 1] + sign * Density[cells[i].of]
<1> DEFINE h == Weight(cells, sign, il, iu)
           v == p[iu + 1]
           sum == FromTop(v, h, il, iu + 1)
           d == Downwards(p, cells, sign, il, iu)
<1>1. \A i \in il .. iu : h[i] = sign * Density[cells[i].of] /\ h[i] \in Int BY DEF Weight
<1>2. iu + 1 \in Face /\ v \in Int OBVIOUS
<1>3. (iu + 1) - 1 = iu /\ iu + 1 \in Int OBVIOUS
<1>4. d = [i \in Face |-> IF i \in il .. iu THEN sum[i] ELSE p[i]] BY DEF Downwards
<1> HIDE DEF h, v, d
<1>5. /\ sum \in [il .. iu + 1 -> Int] /\ sum[iu + 1] = v
      /\ \A i \in il .. iu : sum[i] = sum[i + 1] + h[i]
  <2>1. \A i \in il .. (iu + 1) - 1 : h[i] \in Int BY <1>1, <1>3
  <2> HIDE DEF sum
  <2>2. /\ sum \in [il .. iu + 1 -> Int] /\ sum[iu + 1] = v
        /\ \A i \in il .. (iu + 1) - 1 : sum[i] = sum[i + 1] + h[i]
    BY <1>2, <1>3, <2>1, SumDown DEF sum
  <2>3. QED BY <1>3, <2>2
<1> HIDE DEF sum
<1>6. d \in [Face -> Int]
  <2>1. \A i \in il .. iu : sum[i] \in Int BY <1>5
  <2>2. QED BY <1>4, <2>1
<1>7. \A i \in Face : i \notin il .. iu => d[i] = p[i] BY <1>4
<1>8. ASSUME NEW i \in il .. iu PROVE d[i] = d[i + 1] + sign * Density[cells[i].of]
  <2>1. i \in Face /\ i + 1 \in Face /\ i + 1 \in il .. iu + 1 OBVIOUS
  <2>2. d[i] = sum[i] BY <1>4, <2>1
  <2>3. d[i + 1] = sum[i + 1]
    <3>1. CASE i + 1 \in il .. iu BY <1>4, <2>1, <3>1
    <3>2. CASE i + 1 \notin il .. iu
      <4>1. i = iu BY <2>1, <3>2
      <4>2. QED BY <1>4, <1>5, <2>1, <3>2, <4>1 DEF v
    <3>3. QED BY <3>1, <3>2
  <2>4. QED BY <1>1, <1>5, <2>2, <2>3
<1>9. QED BY <1>6, <1>7, <1>8 DEF d

LEMMA UpwardsIs ==
  ASSUME NEW p \in [Face -> Int], NEW cells, NEW sign \in {-1, 1},
         NEW il \in Int, NEW iu \in Int, il <= iu + 1, il .. iu + 1 \subseteq Face,
         \A i \in il .. iu : Density[cells[i].of] \in Int
  PROVE  LET d == Upwards(p, cells, sign, il, iu)
         IN  /\ d \in [Face -> Int]
             /\ \A i \in Face : i \notin il + 1 .. iu + 1 => d[i] = p[i]
             /\ \A i \in il .. iu : d[i + 1] = d[i] - sign * Density[cells[i].of]
<1> DEFINE h == Weight(cells, sign, il, iu)
           v == p[il]
           sum == FromBottom(v, h, il, iu + 1)
           d == Upwards(p, cells, sign, il, iu)
<1>1. \A i \in il .. iu : h[i] = sign * Density[cells[i].of] /\ h[i] \in Int BY DEF Weight
<1>2. il \in Face /\ v \in Int OBVIOUS
<1>3. (iu + 1) - 1 = iu /\ iu + 1 \in Int OBVIOUS
<1>4. d = [i \in Face |-> IF i \in il + 1 .. iu + 1 THEN sum[i] ELSE p[i]] BY DEF Upwards
<1> HIDE DEF h, v, d
<1>5. /\ sum \in [il .. iu + 1 -> Int] /\ sum[il] = v
      /\ \A i \in il .. iu : sum[i + 1] = sum[i] - h[i]
  <2>1. \A i \in il .. (iu + 1) - 1 : h[i] \in Int BY <1>1, <1>3
  <2> HIDE DEF sum
  <2>2. /\ sum \in [il .. iu + 1 -> Int] /\ sum[il] = v
        /\ \A i \in il .. (iu + 1) - 1 : sum[i + 1] = sum[i] - h[i]
    BY <1>2, <1>3, <2>1, SumUp DEF sum
  <2>3. QED BY <1>3, <2>2
<1> HIDE DEF sum
<1>6. d \in [Face -> Int]
  <2>1. \A i \in il + 1 .. iu + 1 : sum[i] \in Int BY <1>5
  <2>2. QED BY <1>4, <2>1
<1>7. \A i \in Face : i \notin il + 1 .. iu + 1 => d[i] = p[i] BY <1>4
<1>8. ASSUME NEW i \in il .. iu PROVE d[i + 1] = d[i] - sign * Density[cells[i].of]
  <2>1. i \in Face /\ i + 1 \in Face /\ i + 1 \in il + 1 .. iu + 1 OBVIOUS
  <2>2. d[i + 1] = sum[i + 1] BY <1>4, <2>1
  <2>3. d[i] = sum[i]
    <3>1. CASE i \in il + 1 .. iu + 1 BY <1>4, <2>1, <3>1
    <3>2. CASE i \notin il + 1 .. iu + 1
      <4>1. i = il BY <2>1, <3>2
      <4>2. QED BY <1>4, <1>5, <2>1, <3>2, <4>1 DEF v
    <3>3. QED BY <3>1, <3>2
  <2>4. QED BY <1>1, <1>5, <2>2, <2>3
<1>9. QED BY <1>6, <1>7, <1>8 DEF d

-----------------------------------------------------------------------------
LEMMA Sizes ==
  /\ N \in Nat /\ NGHOST \in Nat /\ 1 <= NGHOST /\ NGHOST <= N
  /\ Height \in Nat /\ N <= Height
<1>1. /\ N \in Nat /\ NGHOST \in Nat /\ 1 <= NGHOST /\ NGHOST <= N
      /\ NLayer - 1 \in Nat
  BY DecompositionAssumption
<1>2. NLayer * N = N + (NLayer - 1) * N /\ (NLayer - 1) * N \in Nat
  BY <1>1, DecompositionAssumption
<1>3. QED BY <1>1, <1>2 DEF Height

LEMMA IntegralIs ==
  ASSUME NEW c \in 1 .. NColumn, NEW s \in 1 .. MaxStage
  PROVE  /\ Integral(c, s) \in [1 .. Height + 1 -> Int]
         /\ Integral(c, s)[Height + 1] = Extrapolated[<<c, s, Height>>]
         /\ \A f \in 1 .. Height : /\ Density[<<c, s, f>>] \in Int
                                   /\ Integral(c, s)[f] = Integral(c, s)[f + 1]
                                                            + Density[<<c, s, f>>]
<1> DEFINE h == [f \in 1 .. Height |-> Density[<<c, s, f>>]]
           v == Extrapolated[<<c, s, Height>>]
<1>1. Height \in 1 .. Height /\ Height + 1 \in Int /\ 1 <= Height + 1 /\ (Height + 1) - 1 = Height
  BY Sizes
<1>2. \A f \in 1 .. Height : <<c, s, f>> \in Token BY DEF Token
<1>3. v \in Int /\ \A f \in 1 .. Height : Density[<<c, s, f>>] \in Int
  BY <1>1, <1>2, DecompositionAssumption
<1>4. \A f \in 1 .. (Height + 1) - 1 : h[f] \in Int BY <1>1, <1>3
<1>5. \A f \in 1 .. Height : h[f] = Density[<<c, s, f>>] OBVIOUS
<1> HIDE DEF h, v
<1>6. Integral(c, s) = FromTop(v, h, 1, Height + 1) BY DEF Integral, h, v
<1> DEFINE sum == FromTop(v, h, 1, Height + 1)
<1> HIDE DEF sum
<1>7. /\ sum \in [1 .. Height + 1 -> Int] /\ sum[Height + 1] = v
      /\ \A i \in 1 .. (Height + 1) - 1 : sum[i] = sum[i + 1] + h[i]
  BY <1>1, <1>3, <1>4, SumDown DEF sum
<1>8. \A f \in 1 .. Height : sum[f] = sum[f + 1] + Density[<<c, s, f>>] BY <1>1, <1>5, <1>7
<1>9. QED BY <1>3, <1>6, <1>7, <1>8 DEF sum, v

\* Gravity at cell z of a column.
Sign(z) == IF z < 1 /\ setup.inner = "reflect" THEN -1
           ELSE IF z > Height /\ setup.outer = "reflect" THEN -1 ELSE 1

LEMMA PlaceIs ==
  ASSUME NEW z \in 1 - NGHOST .. Height + NGHOST
  PROVE  /\ Place(z) \in 1 .. Height
         /\ z \in 1 .. Height => Place(z) = z
         /\ z < 1 /\ setup.inner = "reflect" => Place(z) = 1 - z
         /\ z < 1 /\ setup.inner # "reflect" => Place(z) = 1
         /\ z > Height /\ setup.outer = "reflect" => Place(z) = 2 * Height + 1 - z
         /\ z > Height /\ setup.outer # "reflect" => Place(z) = Height
<1>1. CASE z \in 1 .. Height BY <1>1, Sizes DEF Place
<1>2. CASE z < 1 BY <1>2, Sizes DEF Place
<1>3. CASE z > Height BY <1>3, Sizes DEF Place
<1>4. QED BY <1>1, <1>2, <1>3, Sizes

(* The pressure of a column falls from face to face by the weight of the    *)
(* cell between them, ghost cells included: beyond a wall the cells are the *)
(* mirror's and gravity points up.                                          *)
LEMMA PressureStep ==
  ASSUME NEW c \in 1 .. NColumn, NEW s \in 1 .. MaxStage,
         NEW z \in 1 - NGHOST .. Height + NGHOST
  PROVE  /\ Pressure(c, s, z) \in Int /\ Pressure(c, s, z + 1) \in Int
         /\ Pressure(c, s, z) = Pressure(c, s, z + 1)
                                  + Sign(z) * Density[<<c, s, Place(z)>>]
<1> DEFINE I == Integral(c, s)
           rho(f) == Density[<<c, s, f>>]
<1>1. /\ I \in [1 .. Height + 1 -> Int] /\ \A f \in 1 .. Height : rho(f) \in Int
      /\ \A f \in 1 .. Height : I[f] = I[f + 1] + rho(f)
  BY IntegralIs
<1>2. ASSUME NEW y \in 1 .. Height + 1 PROVE Pressure(c, s, y) = I[y]
  <2>1. ~ (y < 1) /\ ~ (y > Height + 1) BY Sizes
  <2>2. QED BY <2>1 DEF Pressure
<1>3. \A y \in Int : y < 1 => Pressure(c, s, y) = IF setup.inner = "reflect" THEN I[2 - y]
                                                   ELSE I[1] + (1 - y) * rho(1)
  <2> TAKE y \in Int
  <2> HAVE y < 1
  <2>1. y \notin 1 .. Height + 1 /\ ~ (y > Height + 1) BY Sizes
  <2>2. QED BY <2>1 DEF Pressure
<1>4. \A y \in Int : y > Height + 1 =>
        Pressure(c, s, y) = IF setup.outer = "reflect" THEN I[2 * Height + 2 - y]
                            ELSE I[Height + 1] - (y - Height - 1) * rho(Height)
  <2> TAKE y \in Int
  <2> HAVE y > Height + 1
  <2>1. y \notin 1 .. Height + 1 /\ ~ (y < 1) BY Sizes
  <2>2. QED BY <2>1 DEF Pressure
<1> HIDE DEF I, rho
<1>5. CASE z \in 1 .. Height
  <2>1. z + 1 \in 1 .. Height + 1 /\ z \in 1 .. Height + 1 BY <1>5, Sizes
  <2>2. Sign(z) = 1 /\ Place(z) = z BY <1>5, Sizes, PlaceIs DEF Sign
  <2>3. Pressure(c, s, z) = I[z] /\ Pressure(c, s, z + 1) = I[z + 1] BY <1>2, <2>1
  <2>4. I[z] = I[z + 1] + rho(z) /\ I[z] \in Int /\ I[z + 1] \in Int /\ rho(z) \in Int
    BY <1>1, <1>5, <2>1
  <2>5. QED BY <2>2, <2>3, <2>4 DEF rho
<1>6. CASE z < 1 /\ setup.inner = "reflect"
  <2>1. 1 - z \in 1 .. Height /\ 2 - z \in 1 .. Height + 1 /\ (1 - z) + 1 = 2 - z BY <1>6, Sizes
  <2>2. Sign(z) = -1 /\ Place(z) = 1 - z BY <1>6, PlaceIs DEF Sign
  <2>3. Pressure(c, s, z) = I[2 - z] BY <1>3, <1>6
  <2>4. Pressure(c, s, z + 1) = I[1 - z]
    <3>1. CASE z + 1 < 1
      <4>1. 2 - (z + 1) = 1 - z /\ z + 1 \in Int OBVIOUS
      <4>2. QED BY <1>3, <1>6, <3>1, <4>1
    <3>2. CASE ~ (z + 1 < 1)
      <4>1. z + 1 = 1 /\ 1 - z = 1 /\ 1 \in 1 .. Height + 1 BY <1>6, <3>2, Sizes
      <4>2. QED BY <1>2, <4>1
    <3>3. QED BY <3>1, <3>2
  <2>5. I[1 - z] = I[2 - z] + rho(1 - z) /\ I[1 - z] \in Int /\ I[2 - z] \in Int
        /\ rho(1 - z) \in Int
    <3>1. I[1 - z] = I[(1 - z) + 1] + rho(1 - z) BY <1>1, <2>1
    <3>2. 1 - z \in 1 .. Height + 1 BY <2>1, Sizes
    <3>3. QED BY <1>1, <2>1, <3>1, <3>2
  <2>6. I[2 - z] = I[1 - z] + (-1) * rho(1 - z) BY <2>5
  <2>7. QED BY <2>2, <2>3, <2>4, <2>5, <2>6 DEF rho
<1>7. CASE z < 1 /\ setup.inner # "reflect"
  <2>1. 1 \in 1 .. Height /\ 1 \in 1 .. Height + 1 BY Sizes
  <2>2. Sign(z) = 1 /\ Place(z) = 1
    <3>1. ~ (z > Height) BY <1>7, Sizes
    <3>2. QED BY <1>7, <3>1, PlaceIs DEF Sign
  <2>3. Pressure(c, s, z) = I[1] + (1 - z) * rho(1) BY <1>3, <1>7
  <2>4. Pressure(c, s, z + 1) = I[1] + (0 - z) * rho(1)
    <3>1. CASE z + 1 < 1
      <4>1. 1 - (z + 1) = 0 - z /\ z + 1 \in Int OBVIOUS
      <4>2. QED BY <1>3, <1>7, <3>1, <4>1
    <3>2. CASE ~ (z + 1 < 1)
      <4>1. z + 1 = 1 /\ 0 - z = 0 BY <1>7, <3>2
      <4>2. 0 * rho(1) = 0 /\ I[1] + 0 = I[1] BY <1>1, <2>1
      <4>3. QED BY <1>2, <2>1, <4>1, <4>2
    <3>3. QED BY <3>1, <3>2
  <2>5. I[1] \in Int /\ rho(1) \in Int BY <1>1, <2>1
  <2>6. (1 - z) * rho(1) = (0 - z) * rho(1) + 1 * rho(1)
        /\ (1 - z) * rho(1) \in Int /\ (0 - z) * rho(1) \in Int /\ 1 * rho(1) = rho(1)
    BY <2>5
  <2>7. QED BY <2>2, <2>3, <2>4, <2>5, <2>6 DEF rho
<1>8. CASE z > Height /\ setup.outer = "reflect"
  <2> DEFINE y == 2 * Height + 1 - z
  <2>1. y \in 1 .. Height /\ y + 1 \in 1 .. Height + 1 /\ y + 1 = 2 * Height + 2 - z
        /\ y = 2 * Height + 2 - (z + 1) /\ z + 1 > Height + 1 /\ z + 1 \in Int /\ ~ (z < 1)
        /\ y \in 1 .. Height + 1
    BY <1>8, Sizes
  <2>2. Sign(z) = -1 /\ Place(z) = y BY <1>8, <2>1, PlaceIs DEF Sign
  <2> HIDE DEF y
  <2>3. Pressure(c, s, z + 1) = I[y] BY <1>4, <1>8, <2>1
  <2>4. Pressure(c, s, z) = I[y + 1]
    <3>1. CASE z > Height + 1 BY <1>4, <1>8, <2>1, <3>1
    <3>2. CASE ~ (z > Height + 1)
      <4>1. z = Height + 1 /\ z \in 1 .. Height + 1 /\ y + 1 = z BY <1>8, <2>1, <3>2, Sizes
      <4>2. QED BY <1>2, <4>1
    <3>3. QED BY <3>1, <3>2
  <2>5. I[y] = I[y + 1] + rho(y) /\ I[y] \in Int /\ I[y + 1] \in Int /\ rho(y) \in Int
    BY <1>1, <2>1
  <2>6. I[y + 1] = I[y] + (-1) * rho(y) BY <2>5
  <2>7. QED BY <2>2, <2>3, <2>4, <2>5, <2>6 DEF rho
<1>9. CASE z > Height /\ setup.outer # "reflect"
  <2>1. Height \in 1 .. Height /\ Height + 1 \in 1 .. Height + 1 BY Sizes
  <2>2. Sign(z) = 1 /\ Place(z) = Height
    <3>1. ~ (z < 1) BY <1>9, Sizes
    <3>2. QED BY <1>9, <3>1, PlaceIs DEF Sign
  <2>3. Pressure(c, s, z + 1) = I[Height + 1] - (z - Height) * rho(Height)
    <3>1. z + 1 > Height + 1 /\ z + 1 \in Int /\ (z + 1) - Height - 1 = z - Height
      BY <1>9, Sizes
    <3>2. QED BY <1>4, <1>9, <3>1
  <2>4. Pressure(c, s, z) = I[Height + 1] - (z - Height - 1) * rho(Height)
    <3>1. CASE z > Height + 1 BY <1>4, <1>9, <3>1
    <3>2. CASE ~ (z > Height + 1)
      <4>1. z = Height + 1 /\ z - Height - 1 = 0 /\ z \in 1 .. Height + 1
        BY <1>9, <3>2, Sizes
      <4>2. 0 * rho(Height) = 0 /\ I[Height + 1] - 0 = I[Height + 1] BY <1>1, <2>1
      <4>3. QED BY <1>2, <4>1, <4>2
    <3>3. QED BY <3>1, <3>2
  <2>5. I[Height + 1] \in Int /\ rho(Height) \in Int BY <1>1, <2>1
  <2>6. (z - Height) * rho(Height) = (z - Height - 1) * rho(Height) + 1 * rho(Height)
        /\ (z - Height) * rho(Height) \in Int /\ (z - Height - 1) * rho(Height) \in Int
        /\ 1 * rho(Height) = rho(Height)
    BY <2>5, Sizes
  <2>7. QED BY <2>2, <2>3, <2>4, <2>5, <2>6 DEF rho
<1>10. QED BY <1>5, <1>6, <1>7, <1>8, <1>9, Sizes

-----------------------------------------------------------------------------
\* The cells below a block, in its column.
Foot(b) == (b[2] - 1) * N

LEMMA Feet ==
  ASSUME NEW b \in Block
  PROVE  /\ b[1] \in 1 .. NColumn /\ b[2] \in 1 .. NLayer /\ b = <<b[1], b[2]>>
         /\ Foot(b) \in Nat /\ Foot(b) + N <= Height
         /\ HasBot(b) => N <= Foot(b)
         /\ ~ HasBot(b) => Foot(b) = 0
         /\ HasTop(b) => Foot(b) + 2 * N <= Height
         /\ ~ HasTop(b) => Foot(b) + N = Height
<1>1. /\ b[1] \in 1 .. NColumn /\ b[2] \in 1 .. NLayer /\ b = <<b[1], b[2]>> BY DEF Block
<1> DEFINE l == b[2]
<1>2. l \in Nat /\ l - 1 \in Nat /\ NLayer - l \in Nat /\ NLayer \in Nat /\ N \in Nat
  BY <1>1, DecompositionAssumption
<1> HIDE DEF l
<1>3. (l - 1) * N \in Nat /\ (NLayer - l) * N \in Nat BY <1>2
<1>4. (l - 1) * N + N = l * N /\ NLayer * N = l * N + (NLayer - l) * N BY <1>2
<1>5. HasBot(b) => N <= (l - 1) * N
  <2> HAVE HasBot(b)
  <2>1. l - 2 \in Nat BY <1>2 DEF HasBot, l
  <2>2. (l - 1) * N = (l - 2) * N + N /\ (l - 2) * N \in Nat BY <1>2, <2>1
  <2>3. QED BY <1>2, <2>2
<1>6. ~ HasBot(b) => (l - 1) * N = 0
  <2> HAVE ~ HasBot(b)
  <2>1. l - 1 = 0 BY <1>2 DEF HasBot, l
  <2>2. QED BY <1>2, <2>1
<1>7. HasTop(b) => (l - 1) * N + 2 * N <= NLayer * N
  <2> HAVE HasTop(b)
  <2>1. NLayer - l - 1 \in Nat BY <1>2 DEF HasTop, l
  <2>2. (NLayer - l) * N = (NLayer - l - 1) * N + N /\ (NLayer - l - 1) * N \in Nat
    BY <1>2, <2>1
  <2>3. QED BY <1>2, <1>3, <1>4, <2>2
<1>8. ~ HasTop(b) => (l - 1) * N + N = NLayer * N
  <2> HAVE ~ HasTop(b)
  <2>1. NLayer = l BY <1>2 DEF HasTop, l
  <2>2. QED BY <1>4, <2>1
<1>9. Foot(b) = (l - 1) * N /\ Height = NLayer * N BY DEF Foot, Height, l
<1>10. (l - 1) * N + N <= NLayer * N BY <1>2, <1>3, <1>4
<1>11. QED BY <1>1, <1>3, <1>5, <1>6, <1>7, <1>8, <1>9, <1>10

LEMMA TopAndBot ==
  ASSUME NEW b \in Block
  PROVE  /\ HasTop(b) => /\ Top(b) \in Block /\ HasBot(Top(b)) /\ Bot(Top(b)) = b
                         /\ Top(b) # b /\ Foot(Top(b)) = Foot(b) + N /\ Top(b)[1] = b[1]
         /\ HasBot(b) => /\ Bot(b) \in Block /\ HasTop(Bot(b)) /\ Top(Bot(b)) = b
                         /\ Bot(b) # b /\ Foot(b) = Foot(Bot(b)) + N /\ Bot(b)[1] = b[1]
                         /\ Adjacent(b, Bot(b))
<1>1. PICK c \in 1 .. NColumn, l \in 1 .. NLayer : b = <<c, l>> BY DEF Block
<1>2. c \in Int /\ l \in Int /\ N \in Int /\ NLayer \in Int BY Sizes, DecompositionAssumption
<1>3. (l + 1) - 1 = l /\ (l - 1) + 1 = l BY <1>2
<1>4. l * N = (l - 1) * N + N /\ (l - 1) * N = ((l - 1) - 1) * N + N BY <1>2
<1>5. ASSUME HasTop(b)
      PROVE  /\ Top(b) \in Block /\ HasBot(Top(b)) /\ Bot(Top(b)) = b
             /\ Top(b) # b /\ Foot(Top(b)) = Foot(b) + N /\ Top(b)[1] = b[1]
  <2>1. Top(b) = <<c, l + 1>> /\ l + 1 \in 1 .. NLayer /\ l + 1 > 1
    BY <1>1, <1>2, <1>5 DEF Top, HasTop
  <2>2. Top(b) \in Block /\ HasBot(Top(b)) BY <2>1 DEF Block, HasBot
  <2>3. Bot(Top(b)) = b BY <1>1, <1>3, <2>1 DEF Bot
  <2>4. Top(b) # b /\ Top(b)[1] = b[1] BY <1>1, <1>2, <2>1
  <2>5. Foot(Top(b)) = Foot(b) + N BY <1>1, <1>3, <1>4, <2>1 DEF Foot
  <2>6. QED BY <2>2, <2>3, <2>4, <2>5
<1>6. ASSUME HasBot(b)
      PROVE  /\ Bot(b) \in Block /\ HasTop(Bot(b)) /\ Top(Bot(b)) = b
             /\ Bot(b) # b /\ Foot(b) = Foot(Bot(b)) + N /\ Bot(b)[1] = b[1]
             /\ Adjacent(b, Bot(b))
  <2>1. Bot(b) = <<c, l - 1>> /\ l - 1 \in 1 .. NLayer /\ l - 1 < NLayer
    BY <1>1, <1>2, <1>6 DEF Bot, HasBot
  <2>2. Bot(b) \in Block /\ HasTop(Bot(b)) BY <2>1 DEF Block, HasTop
  <2>3. Top(Bot(b)) = b BY <1>1, <1>3, <2>1 DEF Top
  <2>4. Bot(b) # b /\ Bot(b)[1] = b[1] BY <1>1, <1>2, <2>1
  <2>5. Foot(b) = Foot(Bot(b)) + N BY <1>1, <1>4, <2>1 DEF Foot
  <2>6. l - (l - 1) = 1 BY <1>2
  <2>7. Adjacent(b, Bot(b)) BY <1>1, <2>1, <2>6 DEF Adjacent
  <2>8. QED BY <2>2, <2>3, <2>4, <2>5, <2>7
<1>7. QED BY <1>5, <1>6

\* What the cells of a block are when it begins a stage.
LEMMA CellsAre ==
  ASSUME NEW b \in Block, NEW s \in 1 .. MaxStage, NEW i \in Cell
  PROVE  LET z == Foot(b) + i
         IN  /\ z \in 1 - NGHOST .. Height + NGHOST
             /\ Primitive(b, s)[i] = [of |-> <<b[1], s, Place(z)>>, off |-> {}]
             /\ <<b[1], s, Place(z)>> \in Token
             /\ Density[<<b[1], s, Place(z)>>] \in Int
             /\ i \in is .. ie => Sign(z) = 1
             /\ i < is => Sign(z) = InnerSign(b)
             /\ i > ie => Sign(z) = OuterSign(b)
<1> DEFINE z == Foot(b) + i
<1>1. /\ Foot(b) \in Nat /\ Foot(b) + N <= Height /\ i \in 1 - NGHOST .. N + NGHOST
  BY Feet DEF Cell, is, ie
<1>2. z \in 1 - NGHOST .. Height + NGHOST BY <1>1, Sizes
<1>3. Place(z) \in 1 .. Height BY <1>2, PlaceIs
<1>4. Primitive(b, s)[i] = [of |-> <<b[1], s, Place(z)>>, off |-> {}] BY DEF Primitive, Foot
<1>5. <<b[1], s, Place(z)>> \in Token BY <1>3, Feet DEF Token
<1>6. Density[<<b[1], s, Place(z)>>] \in Int BY <1>5, DecompositionAssumption
<1>7. i \in is .. ie => Sign(z) = 1 BY <1>1, Sizes DEF Sign, is, ie
<1>8. i < is => Sign(z) = InnerSign(b)
  <2> HAVE i < is
  <2>1. i < 1 /\ ~ (z > Height) BY <1>1, Sizes DEF is
  <2>2. CASE HasBot(b)
    <3>1. ~ (z < 1) BY <1>1, <2>2, Feet, Sizes
    <3>2. QED BY <2>1, <2>2, <3>1 DEF Sign, InnerSign
  <2>3. CASE ~ HasBot(b)
    <3>1. z < 1 BY <1>1, <2>1, <2>3, Feet
    <3>2. QED BY <2>1, <2>3, <3>1 DEF Sign, InnerSign
  <2>4. QED BY <2>2, <2>3
<1>9. i > ie => Sign(z) = OuterSign(b)
  <2> HAVE i > ie
  <2>1. i > N /\ ~ (z < 1) BY <1>1, Sizes DEF ie
  <2>2. CASE HasTop(b)
    <3>1. ~ (z > Height) BY <1>1, <2>2, Feet, Sizes
    <3>2. QED BY <2>1, <2>2, <3>1 DEF Sign, OuterSign
  <2>3. CASE ~ HasTop(b)
    <3>1. z > Height BY <1>1, <2>1, <2>3, Feet, Sizes
    <3>2. QED BY <2>1, <2>3, <3>1 DEF Sign, OuterSign
  <2>4. QED BY <2>2, <2>3
<1>10. QED BY <1>2, <1>4, <1>5, <1>6, <1>7, <1>8, <1>9

(* If a block is right about the face on its top, ChangeToTemperature makes *)
(* it right about all its faces, and about the lowest ones it sends on.     *)
LEMMA FacesFromTop ==
  ASSUME NEW b \in Block, NEW s \in 1 .. MaxStage, w[b] = Primitive(b, s),
         NEW top \in [Face -> Int],
         top[ie + 1] = Pressure(b[1], s, Foot(b) + (ie + 1))
  PROVE  LET own == Downwards(top, w[b], 1, is, ie)
             p == Populated(b, own)
         IN  /\ p \in [Face -> Int]
             /\ \A i \in Face : p[i] = Pressure(b[1], s, Foot(b) + i)
             /\ LowestFaces(own) \in Faces
             /\ LowestFaces(own)[0] = Pressure(b[1], s, Foot(b) + 1)
<1> DEFINE P(i) == Pressure(b[1], s, Foot(b) + i)
           rho(i) == Density[w[b][i].of]
           own == Downwards(top, w[b], 1, is, ie)
           low == Downwards(own, w[b], InnerSign(b), is - NGHOST, is - 1)
           p == Upwards(low, w[b], OuterSign(b), ie + 1, ie + NGHOST)
<1>1. is = 1 /\ ie = N /\ Cell = 1 - NGHOST .. N + NGHOST
      /\ Face = 1 - NGHOST .. N + NGHOST + 1 /\ N + NGHOST \in Int
  BY Sizes DEF is, ie, Cell, Face
<1>2. InnerSign(b) \in {-1, 1} /\ OuterSign(b) \in {-1, 1} BY DEF InnerSign, OuterSign
<1>3. ASSUME NEW i \in Cell
      PROVE  /\ rho(i) \in Int
             /\ P(i) = P(i + 1) + Sign(Foot(b) + i) * rho(i)
             /\ P(i) \in Int /\ P(i + 1) \in Int
  <2>1. w[b][i].of = <<b[1], s, Place(Foot(b) + i)>>
    <3>1. Primitive(b, s)[i] = [of |-> <<b[1], s, Place(Foot(b) + i)>>, off |-> {}]
      BY CellsAre
    <3>2. w[b][i] = Primitive(b, s)[i] OBVIOUS
    <3>3. QED BY <3>1, <3>2
  <2>2. rho(i) = Density[<<b[1], s, Place(Foot(b) + i)>>] BY <2>1
  <2>3. Foot(b) + i \in 1 - NGHOST .. Height + NGHOST /\ b[1] \in 1 .. NColumn
        /\ (Foot(b) + i) + 1 = Foot(b) + (i + 1)
    <3>1. Foot(b) + i \in 1 - NGHOST .. Height + NGHOST BY CellsAre
    <3>2. Foot(b) \in Nat /\ i \in Int /\ b[1] \in 1 .. NColumn BY <1>1, Feet
    <3>3. QED BY <3>1, <3>2
  <2>4. QED BY <2>2, <2>3, PressureStep, CellsAre
<1>4. ASSUME NEW i \in Cell
      PROVE  /\ i \in is .. ie => P(i) = P(i + 1) + 1 * rho(i)
             /\ i < is => P(i) = P(i + 1) + InnerSign(b) * rho(i)
             /\ i > ie => P(i + 1) = P(i) - OuterSign(b) * rho(i)
  <2>1. /\ i \in is .. ie => Sign(Foot(b) + i) = 1
        /\ i < is => Sign(Foot(b) + i) = InnerSign(b)
        /\ i > ie => Sign(Foot(b) + i) = OuterSign(b)
    BY CellsAre
  <2>2. /\ rho(i) \in Int /\ P(i) \in Int /\ P(i + 1) \in Int
        /\ P(i) = P(i + 1) + Sign(Foot(b) + i) * rho(i)
    BY <1>3
  <2> HIDE DEF P, rho
  <2>3. i > ie => P(i + 1) = P(i) - OuterSign(b) * rho(i)
    <3> HAVE i > ie
    <3>1. P(i) = P(i + 1) + OuterSign(b) * rho(i) BY <2>1, <2>2
    <3>2. OuterSign(b) * rho(i) \in Int BY <1>2, <2>2
    <3>3. QED BY <2>2, <3>1, <3>2
  <2>4. QED BY <2>1, <2>2, <2>3
<1>5. \A i \in Cell : Density[w[b][i].of] \in Int BY <1>3
<1> HIDE DEF P
<1>6. /\ own \in [Face -> Int]
      /\ \A i \in Face : i \notin is .. ie => own[i] = top[i]
      /\ \A i \in is .. ie : own[i] = own[i + 1] + 1 * rho(i)
  <2>1. is \in Int /\ ie \in Int /\ is <= ie + 1 /\ is .. ie + 1 \subseteq Face
        /\ is .. ie \subseteq Cell
    BY <1>1, Sizes
  <2>2. \A i \in is .. ie : Density[w[b][i].of] \in Int BY <1>5, <2>1
  <2>3. PICK g \in {-1, 1} : g = 1 OBVIOUS
  <2>4. LET d == Downwards(top, w[b], g, is, ie)
        IN  /\ d \in [Face -> Int]
            /\ \A i \in Face : i \notin is .. ie => d[i] = top[i]
            /\ \A i \in is .. ie : d[i] = d[i + 1] + g * Density[w[b][i].of]
    BY <2>1, <2>2, DownwardsIs
  <2>5. own = Downwards(top, w[b], g, is, ie) BY <2>3
  <2> HIDE DEF own
  <2>6. /\ own \in [Face -> Int]
        /\ \A i \in Face : i \notin is .. ie => own[i] = top[i]
        /\ \A i \in is .. ie : own[i] = own[i + 1] + g * rho(i)
    BY <2>4, <2>5, Zenon
  <2>7. QED BY <2>3, <2>6, Zenon
<1> HIDE DEF own
<1>7. \A i \in is .. ie + 1 : own[i] = P(i)
  <2> DEFINE S == {i \in Int : own[i] = P(i)}
  <2>1. ie + 1 \in S
    <3>1. ie + 1 \in Face /\ ie + 1 \notin is .. ie /\ ie + 1 \in Int BY <1>1, Sizes
    <3>2. QED BY <1>6, <3>1 DEF P
  <2>2. ASSUME NEW i \in is .. (ie + 1) - 1, i + 1 \in S PROVE i \in S
    <3>1. i \in is .. ie /\ i \in Cell BY <1>1, Sizes
    <3>2. own[i] = P(i) BY <1>4, <1>6, <2>2, <3>1
    <3>3. QED BY <3>1, <3>2
  <2>3. is .. ie + 1 \subseteq S
    <3>1. is \in Int /\ ie + 1 \in Int BY <1>1, Sizes
    <3> HIDE DEF S
    <3>2. QED BY <2>1, <2>2, <3>1, Downward
  <2>4. QED BY <2>3
<1>8. /\ low \in [Face -> Int]
      /\ \A i \in Face : i \notin is - NGHOST .. is - 1 => low[i] = own[i]
      /\ \A i \in is - NGHOST .. is - 1 : low[i] = low[i + 1] + InnerSign(b) * rho(i)
  <2>1. is - NGHOST \in Int /\ is - 1 \in Int /\ is - NGHOST <= (is - 1) + 1
        /\ is - NGHOST .. (is - 1) + 1 \subseteq Face /\ is - NGHOST .. is - 1 \subseteq Cell
    BY <1>1, Sizes
  <2>2. \A i \in is - NGHOST .. is - 1 : Density[w[b][i].of] \in Int BY <1>5, <2>1
  <2>3. QED BY <1>2, <1>6, <2>1, <2>2, DownwardsIs
<1> HIDE DEF low
<1>9. \A i \in is - NGHOST .. ie + 1 : low[i] = P(i)
  <2> DEFINE S == {i \in Int : low[i] = P(i)}
  <2>1. \A i \in is .. ie + 1 : low[i] = P(i)
    <3>1. \A i \in is .. ie + 1 : i \in Face /\ i \notin is - NGHOST .. is - 1 BY <1>1, Sizes
    <3>2. QED BY <1>7, <1>8, <3>1
  <2>2. is \in S
    <3>1. is \in is .. ie + 1 BY <1>1, Sizes
    <3>2. QED BY <2>1, <3>1
  <2>3. ASSUME NEW i \in is - NGHOST .. is - 1, i + 1 \in S PROVE i \in S
    <3>1. i < is /\ i \in Cell BY <1>1, Sizes
    <3>2. low[i] = P(i) BY <1>4, <1>8, <2>3, <3>1
    <3>3. QED BY <3>1, <3>2
  <2>4. is - NGHOST .. is \subseteq S
    <3>1. is \in Int /\ is - NGHOST \in Int BY <1>1, Sizes
    <3> HIDE DEF S
    <3>2. QED BY <2>2, <2>3, <3>1, Downward
  <2>5. \A i \in is - NGHOST .. ie + 1 : i \in is - NGHOST .. is \/ i \in is .. ie + 1
    BY <1>1, Sizes
  <2>6. QED BY <2>1, <2>4, <2>5
<1>10. /\ p \in [Face -> Int]
       /\ \A i \in Face : i \notin (ie + 1) + 1 .. (ie + NGHOST) + 1 => p[i] = low[i]
       /\ \A i \in ie + 1 .. ie + NGHOST : p[i + 1] = p[i] - OuterSign(b) * rho(i)
  <2>1. ie + 1 \in Int /\ ie + NGHOST \in Int /\ ie + 1 <= (ie + NGHOST) + 1
        /\ ie + 1 .. (ie + NGHOST) + 1 \subseteq Face /\ ie + 1 .. ie + NGHOST \subseteq Cell
    BY <1>1, Sizes
  <2>2. \A i \in ie + 1 .. ie + NGHOST : Density[w[b][i].of] \in Int BY <1>5, <2>1
  <2>3. QED BY <1>2, <1>8, <2>1, <2>2, UpwardsIs
<1> HIDE DEF p
<1>11. \A i \in Face : p[i] = P(i)
  <2> DEFINE S == {i \in Int : p[i] = P(i)}
  <2>1. \A i \in is - NGHOST .. ie + 1 : p[i] = P(i)
    <3>1. \A i \in is - NGHOST .. ie + 1 :
             i \in Face /\ i \notin (ie + 1) + 1 .. (ie + NGHOST) + 1
      BY <1>1, Sizes
    <3>2. QED BY <1>9, <1>10, <3>1
  <2>2. ie + 1 \in S
    <3>1. ie + 1 \in is - NGHOST .. ie + 1 /\ ie + 1 \in Int BY <1>1, Sizes
    <3>2. QED BY <2>1, <3>1
  <2>3. ASSUME NEW i \in ie + 1 .. (ie + NGHOST + 1) - 1, i \in S PROVE i + 1 \in S
    <3>1. i > ie /\ i \in Cell /\ i \in ie + 1 .. ie + NGHOST BY <1>1, Sizes
    <3>2. p[i + 1] = P(i + 1) BY <1>4, <1>10, <2>3, <3>1
    <3>3. QED BY <3>1, <3>2
  <2>4. ie + 1 .. ie + NGHOST + 1 \subseteq S
    <3>1. ie + 1 \in Int /\ ie + NGHOST + 1 \in Int BY <1>1, Sizes
    <3> HIDE DEF S
    <3>2. QED BY <2>2, <2>3, <3>1, Upward
  <2>5. \A i \in Face : i \in is - NGHOST .. ie + 1 \/ i \in ie + 1 .. ie + NGHOST + 1
    BY <1>1, Sizes
  <2>6. QED BY <2>1, <2>4, <2>5
<1>12. LowestFaces(own) \in Faces /\ LowestFaces(own)[0] = P(1)
  <2>1. \A i \in 0 .. NGHOST : is + i \in Face BY <1>1, Sizes
  <2>2. \A i \in 0 .. NGHOST : own[is + i] \in Int BY <1>6, <2>1
  <2>3. 0 \in 0 .. NGHOST /\ is + 0 = 1 /\ 1 \in is .. ie + 1 BY <1>1, Sizes
  <2>4. LowestFaces(own) \in [0 .. NGHOST -> Int] BY <2>2 DEF LowestFaces
  <2>5. LowestFaces(own)[0] = own[is + 0] BY <2>3 DEF LowestFaces
  <2>6. QED BY <1>7, <2>3, <2>4, <2>5 DEF Faces
<1>13. Populated(b, own) = p BY DEF Populated, p, low
<1>14. QED BY <1>10, <1>11, <1>12, <1>13 DEF own, P

-----------------------------------------------------------------------------
\* Place and Pressure for a given arrangement instead of the state's, so that
\* they mean the same before and after a step; and the cell that the pressure
\* taken off cell i of a block belongs to.
PlaceIn(su, z) ==
  CASE z \in 1 .. Height -> z
    [] z < 1             -> IF su.inner = "reflect" THEN 1 - z ELSE 1
    [] z > Height        -> IF su.outer = "reflect" THEN 2 * Height + 1 - z ELSE Height

PressureIn(su, c, s, z) ==
  LET inside == Integral(c, s)
  IN  CASE z \in 1 .. Height + 1 -> inside[z]
        [] z < 1 -> IF su.inner = "reflect" THEN inside[2 - z]
                    ELSE inside[1] + (1 - z) * Density[<<c, s, 1>>]
        [] z > Height + 1 -> IF su.outer = "reflect" THEN inside[2 * Height + 2 - z]
                    ELSE inside[Height + 1] - (z - Height - 1) * Density[<<c, s, Height>>]

SourceIn(su, b, i) ==
  CASE i < is /\ ~ HasBot(b) /\ su.inner = "outflow" -> is
    [] i > ie /\ ~ HasTop(b) /\ su.outer = "outflow" -> ie
    [] OTHER -> i

CellOf(su, b, s, i) == <<b[1], s, PlaceIn(su, Foot(b) + i)>>
FaceOf(su, b, s, i) == PressureIn(su, b[1], s, Foot(b) + i)

\* How often a block has decomposed its column.
Count(b) == stage[b] - 1 + (IF Decomposed(b) THEN 1 ELSE 0)

\* The cells are whole, perturbations, or restored.
CellsRight(b) ==
  \A i \in Cell :
    LET from == SourceIn(setup, b, i)
    IN  /\ phase[b] \in {"ready", "gathering"} =>
             w[b][i] = [of |-> CellOf(setup, b, stage[b], i), off |-> {}]
        /\ phase[b] = "sending" =>
             w[b][i] = [of |-> CellOf(setup, b, stage[b], from), off |-> psv[b][from]]
        /\ phase[b] = "restored" =>
             /\ w[b][i].off = {}
             /\ from = i => w[b][i].of = CellOf(setup, b, stage[b], i)

\* Pressures are those of the column.
FacesRight(b) ==
  Decomposed(b) =>
    /\ \A i \in Face : psf[b][i] = FaceOf(setup, b, stage[b], i)
    /\ \A i \in Cell : psv[b][i] = {psf[b][i], psf[b][i + 1]}

\* A block is ahead of the one below by no more than a stage, and then that one
\* has restored its cells; no block has decomposed more often than the one above.
Flowing(t) ==
  HasBot(t) =>
    /\ stage[t] > stage[Bot(t)] => stage[t] = stage[Bot(t)] + 1 /\ phase[Bot(t)] = "restored"
    /\ Count(Bot(t)) <= Count(t)

\* A message is the one of the decomposition that the block below is to do next,
\* and says the pressure at the face they share.
MessageRight(m) ==
  /\ HasBot(m.from) /\ m.to = Bot(m.from)
  /\ Count(m.from) = Count(m.to) + 1
  /\ Value(m) \in Faces
  /\ Value(m)[0] = FaceOf(setup, m.from, Count(m.from), 1)

IInv ==
  /\ TypeOK
  /\ \A b \in Block : CellsRight(b) /\ FacesRight(b) /\ Flowing(b)
  /\ \A m \in net : MessageRight(m)
  /\ \A m, n \in net : m.from = n.from => m = n

LEMMA SetupTyped ==
  ASSUME TypeOK
  PROVE  /\ setup.inner \in Flag /\ setup.outer \in Flag
         /\ \A b \in Block : RankOf(b) \in Rank
<1>1. setup \in SetupType BY DecompositionAssumption DEF TypeOK
<1>2. QED BY <1>1 DEF SetupType, RankOf

LEMMA InTheState ==
  /\ \A c, s, z : PressureIn(setup, c, s, z) = Pressure(c, s, z)
  /\ \A z : PlaceIn(setup, z) = Place(z)
BY DEF PressureIn, Pressure, PlaceIn, Place

LEMMA SourceIs ==
  ASSUME TypeOK, NEW b \in Block, NEW i \in Cell
  PROVE  /\ SourceIn(setup, b, i) \in Cell
         /\ \/ SourceIn(setup, b, i) = i
            \/ i < is /\ ~ HasBot(b) /\ setup.inner = "outflow"
            \/ i > ie /\ ~ HasTop(b) /\ setup.outer = "outflow"
         /\ i \in is .. ie => SourceIn(setup, b, i) = i
<1>1. is = 1 /\ ie = N /\ Cell = 1 - NGHOST .. N + NGHOST /\ is \in Cell /\ ie \in Cell
  BY Sizes DEF is, ie, Cell
<1> HIDE DEF Cell
<1>2. CASE i < is /\ ~ HasBot(b) /\ setup.inner = "outflow"
  <2>1. SourceIn(setup, b, i) = is
    <3>1. ~ (i > ie) BY <1>1, <1>2, Sizes
    <3>2. QED BY <1>2, <3>1 DEF SourceIn
  <2>2. i \notin is .. ie BY <1>1, <1>2, Sizes
  <2>3. QED BY <1>1, <1>2, <2>1, <2>2
<1>3. CASE i > ie /\ ~ HasTop(b) /\ setup.outer = "outflow"
  <2>1. ~ (i < is) BY <1>1, <1>3, Sizes
  <2>2. SourceIn(setup, b, i) = ie BY <1>3, <2>1 DEF SourceIn
  <2>3. i \notin is .. ie BY <1>1, <1>3, Sizes
  <2>4. QED BY <1>1, <1>3, <2>2, <2>3
<1>4. CASE /\ ~ (i < is /\ ~ HasBot(b) /\ setup.inner = "outflow")
           /\ ~ (i > ie /\ ~ HasTop(b) /\ setup.outer = "outflow")
  <2>1. SourceIn(setup, b, i) = i BY <1>4, Zenon DEF SourceIn
  <2>2. QED BY <2>1
<1>5. QED BY <1>2, <1>3, <1>4

LEMMA CellOfTyped ==
  ASSUME TypeOK, NEW b \in Block, NEW s \in 1 .. MaxStage, NEW i \in Cell
  PROVE  /\ CellOf(setup, b, s, i) \in Token
         /\ Primitive(b, s)[i] = [of |-> CellOf(setup, b, s, i), off |-> {}]
<1>1. CellOf(setup, b, s, i) = <<b[1], s, Place(Foot(b) + i)>> BY InTheState DEF CellOf
<1>2. QED BY <1>1, CellsAre

LEMMA CountTyped ==
  ASSUME TypeOK, NEW b \in Block
  PROVE  /\ stage[b] \in 1 .. MaxStage /\ MaxStage \in Nat
         /\ Count(b) \in 0 .. MaxStage
         /\ Decomposed(b) => Count(b) = stage[b]
         /\ ~ Decomposed(b) => Count(b) = stage[b] - 1
<1>1. stage[b] \in 1 .. MaxStage /\ MaxStage \in Nat BY DecompositionAssumption DEF TypeOK
<1>2. CASE Decomposed(b) BY <1>1, <1>2 DEF Count
<1>3. CASE ~ Decomposed(b) BY <1>1, <1>3 DEF Count
<1>4. QED BY <1>1, <1>2, <1>3

\* A block of which nothing changes stays right.
LEMMA BlockStays ==
  ASSUME NEW b \in Block, setup' = setup, stage'[b] = stage[b], phase'[b] = phase[b],
         w'[b] = w[b], psf'[b] = psf[b], psv'[b] = psv[b]
  PROVE  /\ CellsRight(b) => CellsRight(b)'
         /\ FacesRight(b) => FacesRight(b)'
         /\ Count(b)' = Count(b) /\ (Decomposed(b)' <=> Decomposed(b))
<1>1. Count(b)' = Count(b) /\ (Decomposed(b)' <=> Decomposed(b)) BY DEF Count, Decomposed
<1>2. CellsRight(b) => CellsRight(b)' BY DEF CellsRight
<1>3. FacesRight(b) => FacesRight(b)' BY DEF FacesRight, Decomposed
<1>4. QED BY <1>1, <1>2, <1>3

\* No step but a decomposition touches a message or what it says.
LEMMA MessagesStay ==
  ASSUME IInv, setup' = setup, net' = net, buffer' = buffer,
         \A b \in Block : Count(b)' = Count(b)
  PROVE  /\ \A m \in net' : MessageRight(m)'
         /\ \A m, n \in net' : m.from = n.from => m = n
<1>1. ASSUME NEW m \in net PROVE MessageRight(m)'
  <2>1. m.from \in Block /\ m.to \in Block BY DEF IInv, TypeOK, Message
  <2>2. Count(m.from)' = Count(m.from) /\ Count(m.to)' = Count(m.to) BY <2>1
  <2>3. Value(m)' = Value(m) BY DEF Value
  <2>4. MessageRight(m) BY DEF IInv
  <2>5. QED BY <2>2, <2>3, <2>4 DEF MessageRight
<1>2. QED BY <1>1 DEF IInv

LEMMA InitInvariant == Init => IInv
<1> SUFFICES ASSUME Init PROVE IInv OBVIOUS
<1> USE DEF Init
<1>1. 1 \in 1 .. MaxStage BY DecompositionAssumption
<1>2. setup \in SetupType BY DecompositionAssumption
<1>3. \A b \in Block : b[1] \in 1 .. NColumn BY Feet
<1>4. ASSUME NEW b \in Block, NEW i \in Cell
      PROVE  /\ w[b][i] = [of |-> CellOf(setup, b, 1, i), off |-> {}]
             /\ CellOf(setup, b, 1, i) \in Token
  <2>1. CellOf(setup, b, 1, i) = <<b[1], 1, Place(Foot(b) + i)>> BY InTheState DEF CellOf
  <2>2. QED BY <1>1, <2>1, CellsAre
<1>5. TypeOK
  <2>1. w \in [Block -> [Cell -> [of : Token \cup {Refilled}, off : SUBSET Int]]]
    <3>1. w = [b \in Block |-> [i \in Cell |-> w[b][i]]] BY DEF Primitive
    <3>2. ASSUME NEW b \in Block, NEW i \in Cell
          PROVE  w[b][i] \in [of : Token \cup {Refilled}, off : SUBSET Int]
      <4>1. /\ w[b][i] = [of |-> CellOf(setup, b, 1, i), off |-> {}]
            /\ CellOf(setup, b, 1, i) \in Token
        BY <1>4
      <4> HIDE DEF Init
      <4>2. QED BY <4>1
    <3>3. QED BY <3>1, <3>2
  <2>2. stage \in [Block -> 1 .. MaxStage] BY <1>1
  <2>3. /\ phase \in [Block -> {"ready", "gathering", "sending", "restored"}]
        /\ calls \in [Rank -> Nat] /\ pending \in [Block -> BOOLEAN]
    OBVIOUS
  <2>4. psf \in [Block -> [Face -> Int]] /\ psv \in [Block -> [Cell -> SUBSET Int]]
        /\ buffer \in [Block -> Faces \cup {<<>>}]
    OBVIOUS
  <2>5. setup \in Setups /\ net \subseteq Message /\ aborted \in BOOLEAN OBVIOUS
  <2> HIDE DEF Init
  <2>6. QED BY <2>1, <2>2, <2>3, <2>4, <2>5 DEF TypeOK
<1>6. ASSUME NEW b \in Block PROVE CellsRight(b) /\ FacesRight(b) /\ Flowing(b)
  <2>1. phase[b] = "ready" /\ stage[b] = 1 OBVIOUS
  <2>2. CellsRight(b) BY <1>4, <2>1 DEF CellsRight
  <2>3. FacesRight(b) BY <2>1 DEF FacesRight, Decomposed
  <2>4. Flowing(b) BY TopAndBot DEF Flowing, Count, Decomposed
  <2>5. QED BY <2>2, <2>3, <2>4
<1>7. QED BY <1>5, <1>6 DEF IInv

LEMMA FindNeighborsKeeps ==
  ASSUME IInv, NEW b \in Block, FindNeighbors(b)
  PROVE  IInv'
<1>1. /\ phase[b] = "ready" /\ phase' = [phase EXCEPT ![b] = "gathering"]
      /\ calls' = [calls EXCEPT ![RankOf(b)] = @ + 1]
      /\ UNCHANGED <<setup, stage, w, psf, psv, buffer, net, pending, aborted>>
  BY DEF FindNeighbors
<1>2. TypeOK /\ phase \in [Block -> {"ready", "gathering", "sending", "restored"}]
      /\ calls \in [Rank -> Nat]
  BY DEF IInv, TypeOK
<1>3. TypeOK'
  <2>1. phase' \in [Block -> {"ready", "gathering", "sending", "restored"}] BY <1>1, <1>2
  <2>2. calls' \in [Rank -> Nat]
    <3>1. RankOf(b) \in Rank /\ calls[RankOf(b)] + 1 \in Nat BY <1>2, SetupTyped
    <3>2. QED BY <1>1, <1>2, <3>1
  <2>3. QED BY <1>1, <1>2, <2>1, <2>2 DEF TypeOK, Message
<1>4. /\ phase'[b] = "gathering" /\ \A c \in Block \ {b} : phase'[c] = phase[c]
  BY <1>1, <1>2
<1>5. ASSUME NEW c \in Block PROVE Count(c)' = Count(c)
  <2>1. Decomposed(c)' <=> Decomposed(c) BY <1>1, <1>4 DEF Decomposed
  <2>2. QED BY <1>1, <2>1 DEF Count
<1>6. ASSUME NEW c \in Block PROVE CellsRight(c)' /\ FacesRight(c)' /\ Flowing(c)'
  <2>1. CellsRight(c) /\ FacesRight(c) /\ Flowing(c) BY DEF IInv
  <2>2. CellsRight(c)' /\ FacesRight(c)'
    <3>1. CASE c = b
      <4>1. CellsRight(b)' BY <1>1, <1>4, <2>1, <3>1 DEF CellsRight
      <4>2. FacesRight(b)' BY <1>4 DEF FacesRight, Decomposed
      <4>3. QED BY <3>1, <4>1, <4>2
    <3>2. CASE c # b BY <1>1, <1>4, <2>1, <3>2, BlockStays
    <3>3. QED BY <3>1, <3>2
  <2>3. Flowing(c)'
    <3> SUFFICES ASSUME HasBot(c) PROVE Flowing(c)' BY DEF Flowing
    <3>1. Bot(c) \in Block BY TopAndBot
    <3>2. Count(Bot(c))' <= Count(c)' BY <1>5, <2>1, <3>1 DEF Flowing
    <3>3. stage[c] > stage[Bot(c)] => phase'[Bot(c)] = "restored"
      <4>1. stage[c] > stage[Bot(c)] => phase[Bot(c)] = "restored" BY <2>1 DEF Flowing
      <4>2. phase[Bot(c)] = "restored" => Bot(c) # b BY <1>1
      <4>3. QED BY <1>4, <3>1, <4>1, <4>2
    <3>4. QED BY <1>1, <2>1, <3>2, <3>3 DEF Flowing
  <2>4. QED BY <2>2, <2>3
<1>7. /\ \A m \in net' : MessageRight(m)'
      /\ \A m, n \in net' : m.from = n.from => m = n
  BY <1>1, <1>5, MessagesStay
<1>8. QED BY <1>3, <1>6, <1>7 DEF IInv

LEMMA RestoreKeeps ==
  ASSUME IInv, NEW b \in Block, RestoreFromTemperature(b)
  PROVE  IInv'
<1>1. /\ phase[b] = "sending" /\ phase' = [phase EXCEPT ![b] = "restored"]
      /\ w' = [w EXCEPT ![b] = Restored(b)]
      /\ UNCHANGED <<setup, stage, calls, psf, psv, buffer, net, pending, aborted>>
  BY DEF RestoreFromTemperature
<1> DEFINE CellStates == [of : Token \cup {Refilled}, off : SUBSET Int]
<1>2. TypeOK /\ phase \in [Block -> {"ready", "gathering", "sending", "restored"}]
      /\ w \in [Block -> [Cell -> CellStates]] /\ stage[b] \in 1 .. MaxStage
  BY DEF IInv, TypeOK
<1>3. ASSUME NEW i \in Cell
      PROVE  /\ Restored(b)[i] \in CellStates
             /\ Restored(b)[i].off = {}
             /\ SourceIn(setup, b, i) = i =>
                  Restored(b)[i].of = CellOf(setup, b, stage[b], i)
  <2>1. Restored(b)[i] = IF w[b][i].off = psv[b][i] THEN [of |-> w[b][i].of, off |-> {}]
                                                    ELSE [of |-> Refilled, off |-> {}]
    BY DEF Restored
  <2>2. w[b][i] \in CellStates BY <1>2
  <2>3. w[b][i].of \in Token \cup {Refilled} BY <2>2
  <2>4. Restored(b)[i] \in CellStates /\ Restored(b)[i].off = {} BY <2>1, <2>3
  <2>5. ASSUME SourceIn(setup, b, i) = i
        PROVE  Restored(b)[i].of = CellOf(setup, b, stage[b], i)
    <3>1. w[b][i] = [of |-> CellOf(setup, b, stage[b], i), off |-> psv[b][i]]
      BY <1>1, <2>5 DEF IInv, CellsRight
    <3>2. QED BY <2>1, <3>1
  <2>6. QED BY <2>4, <2>5
<1>4. w' \in [Block -> [Cell -> CellStates]] /\ w'[b] = Restored(b)
      /\ \A c \in Block \ {b} : w'[c] = w[c]
  <2>1. Restored(b) \in [Cell -> CellStates]
    <3>1. Restored(b) = [i \in Cell |-> Restored(b)[i]] BY DEF Restored
    <3> HIDE DEF CellStates
    <3>2. QED BY <1>3, <3>1
  <2> HIDE DEF CellStates
  <2>2. QED BY <1>1, <1>2, <2>1
<1>5. phase'[b] = "restored" /\ \A c \in Block \ {b} : phase'[c] = phase[c] BY <1>1, <1>2
<1>6. TypeOK'
  <2>1. phase' \in [Block -> {"ready", "gathering", "sending", "restored"}] BY <1>1, <1>2
  <2>2. QED BY <1>1, <1>2, <1>4, <2>1 DEF TypeOK, Message
<1>7. ASSUME NEW c \in Block PROVE Count(c)' = Count(c)
  <2>1. Decomposed(c)' <=> Decomposed(c) BY <1>1, <1>5 DEF Decomposed
  <2>2. QED BY <1>1, <2>1 DEF Count
<1>8. ASSUME NEW c \in Block PROVE CellsRight(c)' /\ FacesRight(c)' /\ Flowing(c)'
  <2>1. CellsRight(c) /\ FacesRight(c) /\ Flowing(c) BY DEF IInv
  <2>2. CellsRight(c)' /\ FacesRight(c)'
    <3>1. CASE c = b
      <4>1. CellsRight(b)' BY <1>1, <1>3, <1>4, <1>5 DEF CellsRight
      <4>2. FacesRight(b)' BY <1>1, <2>1, <3>1 DEF FacesRight, Decomposed
      <4>3. QED BY <3>1, <4>1, <4>2
    <3>2. CASE c # b BY <1>1, <1>4, <1>5, <2>1, <3>2, BlockStays
    <3>3. QED BY <3>1, <3>2
  <2>3. Flowing(c)'
    <3> SUFFICES ASSUME HasBot(c) PROVE Flowing(c)' BY DEF Flowing
    <3>1. Bot(c) \in Block BY TopAndBot
    <3>2. Count(Bot(c))' <= Count(c)' BY <1>7, <2>1, <3>1 DEF Flowing
    <3>3. stage[c] > stage[Bot(c)] => phase'[Bot(c)] = "restored"
      <4>1. stage[c] > stage[Bot(c)] => phase[Bot(c)] = "restored" BY <2>1 DEF Flowing
      <4>2. QED BY <1>5, <3>1, <4>1
    <3>4. QED BY <1>1, <2>1, <3>2, <3>3 DEF Flowing
  <2>4. QED BY <2>2, <2>3
<1>9. /\ \A m \in net' : MessageRight(m)'
      /\ \A m, n \in net' : m.from = n.from => m = n
  BY <1>1, <1>7, MessagesStay
<1>10. QED BY <1>6, <1>8, <1>9 DEF IInv

LEMMA NextStageKeeps ==
  ASSUME IInv, NEW b \in Block, NextStage(b)
  PROVE  IInv'
<1> DEFINE s == stage[b] + 1
           CellStates == [of : Token \cup {Refilled}, off : SUBSET Int]
<1>1. /\ phase[b] = "restored" /\ phase' = [phase EXCEPT ![b] = "ready"]
      /\ stage[b] < MaxStage /\ stage' = [stage EXCEPT ![b] = s]
      /\ w' = [w EXCEPT ![b] = Primitive(b, s)]
      /\ UNCHANGED <<setup, calls, psf, psv, buffer, net, pending, aborted>>
      /\ \A c \in Block : Adjacent(b, c) =>
           stage[c] > stage[b] \/ (stage[c] = stage[b] /\ phase[c] = "restored")
  BY DEF NextStage
<1>2. TypeOK /\ phase \in [Block -> {"ready", "gathering", "sending", "restored"}]
      /\ w \in [Block -> [Cell -> CellStates]] /\ stage \in [Block -> 1 .. MaxStage]
  BY DEF IInv, TypeOK
<1>3. s \in 1 .. MaxStage /\ MaxStage \in Nat /\ stage[b] \in 1 .. MaxStage
  BY <1>1, <1>2, DecompositionAssumption
<1> HIDE DEF s
<1>4. ASSUME NEW i \in Cell
      PROVE  /\ Primitive(b, s)[i] \in CellStates
             /\ Primitive(b, s)[i] = [of |-> CellOf(setup, b, s, i), off |-> {}]
  <2>1. /\ CellOf(setup, b, s, i) \in Token
        /\ Primitive(b, s)[i] = [of |-> CellOf(setup, b, s, i), off |-> {}]
    BY <1>2, <1>3, CellOfTyped
  <2>2. QED BY <2>1
<1>5. w' \in [Block -> [Cell -> CellStates]] /\ w'[b] = Primitive(b, s)
      /\ \A c \in Block \ {b} : w'[c] = w[c]
  <2>1. Primitive(b, s) \in [Cell -> CellStates]
    <3>1. Primitive(b, s) = [i \in Cell |-> Primitive(b, s)[i]] BY DEF Primitive
    <3> HIDE DEF CellStates
    <3>2. QED BY <1>4, <3>1
  <2> HIDE DEF CellStates
  <2>2. QED BY <1>1, <1>2, <2>1
<1>6. /\ phase'[b] = "ready" /\ \A c \in Block \ {b} : phase'[c] = phase[c]
      /\ stage'[b] = s /\ \A c \in Block \ {b} : stage'[c] = stage[c]
  BY <1>1, <1>2
<1>7. TypeOK'
  <2>1. phase' \in [Block -> {"ready", "gathering", "sending", "restored"}] BY <1>1, <1>2
  <2>2. stage' \in [Block -> 1 .. MaxStage] BY <1>1, <1>2, <1>3
  <2>3. QED BY <1>1, <1>2, <1>5, <2>1, <2>2 DEF TypeOK, Message
<1>8. ASSUME NEW c \in Block PROVE Count(c)' = Count(c)
  <2>1. CASE c = b
    <3>1. Decomposed(b) /\ ~ Decomposed(b)' BY <1>1, <1>6 DEF Decomposed
    <3>2. Count(b) = stage[b] - 1 + 1 /\ Count(b)' = s - 1 + 0 BY <1>6, <3>1 DEF Count
    <3>3. QED BY <1>3, <2>1, <3>2 DEF s
  <2>2. CASE c # b BY <1>6, <2>2 DEF Count, Decomposed
  <2>3. QED BY <2>1, <2>2
<1>9. ASSUME NEW c \in Block PROVE CellsRight(c)' /\ FacesRight(c)' /\ Flowing(c)'
  <2>1. CellsRight(c) /\ FacesRight(c) /\ Flowing(c) BY DEF IInv
  <2>2. CellsRight(c)' /\ FacesRight(c)'
    <3>1. CASE c = b
      <4>1. CellsRight(b)' BY <1>1, <1>4, <1>5, <1>6 DEF CellsRight
      <4>2. FacesRight(b)' BY <1>6 DEF FacesRight, Decomposed
      <4>3. QED BY <3>1, <4>1, <4>2
    <3>2. CASE c # b BY <1>1, <1>5, <1>6, <2>1, <3>2, BlockStays
    <3>3. QED BY <3>1, <3>2
  <2>3. Flowing(c)'
    <3> SUFFICES ASSUME HasBot(c) PROVE Flowing(c)' BY DEF Flowing
    <3> DEFINE d == Bot(c)
    <3>1. d \in Block /\ d # c /\ Adjacent(c, d) BY TopAndBot
    <3>2. Count(d)' <= Count(c)' BY <1>8, <2>1, <3>1 DEF Flowing
    <3>3. stage[c] > stage[d] => stage[c] = stage[d] + 1 /\ phase[d] = "restored"
      BY <2>1 DEF Flowing
    <3>4. stage[c] \in 1 .. MaxStage /\ stage[d] \in 1 .. MaxStage BY <1>2, <3>1
    <3>5. stage'[c] > stage'[d] => stage'[c] = stage'[d] + 1 /\ phase'[d] = "restored"
      <4> HIDE DEF d
      <4>1. CASE c = b
        <5>1. stage'[c] = stage[c] + 1 /\ stage'[d] = stage[d] /\ phase'[d] = phase[d]
          BY <1>6, <3>1, <4>1 DEF s
        <5>2. stage[d] > stage[c] \/ (stage[d] = stage[c] /\ phase[d] = "restored")
          BY <1>1, <3>1, <4>1
        <5>3. QED BY <3>4, <5>1, <5>2
      <4>2. CASE d = b
        <5>1. stage'[d] = stage[d] + 1 /\ stage'[c] = stage[c] BY <1>6, <3>1, <4>2 DEF s
        <5>2. QED BY <3>3, <3>4, <5>1
      <4>3. CASE c # b /\ d # b BY <1>6, <3>1, <3>3, <4>3
      <4>4. QED BY <4>1, <4>2, <4>3
    <3>6. QED BY <3>2, <3>5 DEF Flowing
  <2>4. QED BY <2>2, <2>3
<1>10. /\ \A m \in net' : MessageRight(m)'
       /\ \A m, n \in net' : m.from = n.from => m = n
  BY <1>1, <1>8, MessagesStay
<1>11. QED BY <1>7, <1>9, <1>10 DEF IInv

\* A block about to decompose has no message under way to the block below, and
\* has decomposed as often as that one.
LEMMA NoneSent ==
  ASSUME IInv, NEW b \in Block, phase[b] = "gathering"
  PROVE  /\ HasBot(b) => Count(Bot(b)) = Count(b)
         /\ \A m \in net : m.from # b
<1>1. TypeOK /\ Flowing(b) BY DEF IInv
<1>2. Count(b) = stage[b] - 1 /\ stage[b] \in 1 .. MaxStage /\ MaxStage \in Nat
  BY <1>1, CountTyped DEF Decomposed
<1>3. ASSUME HasBot(b) PROVE Count(Bot(b)) = Count(b)
  <2> DEFINE d == Bot(b)
  <2>1. d \in Block BY <1>3, TopAndBot
  <2> HIDE DEF d
  <2>2. stage[d] \in 1 .. MaxStage /\ Count(d) \in 0 .. MaxStage
        /\ (Decomposed(d) => Count(d) = stage[d])
        /\ (~ Decomposed(d) => Count(d) = stage[d] - 1)
    BY <1>1, <2>1, CountTyped
  <2>3. /\ stage[b] > stage[d] => stage[b] = stage[d] + 1 /\ phase[d] = "restored"
        /\ Count(d) <= Count(b)
    BY <1>1, <1>3 DEF Flowing, d
  <2>4. CASE stage[b] > stage[d]
    <3>1. Decomposed(d) /\ stage[b] = stage[d] + 1 BY <2>3, <2>4 DEF Decomposed
    <3>2. QED BY <1>2, <2>2, <3>1 DEF d
  <2>5. CASE ~ (stage[b] > stage[d])
    <3>1. Count(d) >= stage[d] - 1 BY <2>2
    <3>2. Count(d) = Count(b) BY <1>2, <2>2, <2>3, <2>5, <3>1
    <3>3. QED BY <3>2 DEF d
  <2>6. QED BY <2>4, <2>5
<1>4. ASSUME NEW m \in net, m.from = b PROVE FALSE
  <2>1. HasBot(b) /\ m.to = Bot(b) /\ Count(b) = Count(Bot(b)) + 1
    BY <1>4 DEF IInv, MessageRight
  <2>2. Count(Bot(b)) = Count(b) BY <1>3, <2>1
  <2>3. QED BY <1>2, <2>1, <2>2
<1>5. QED BY <1>3, <1>4

LEMMA DecomposeKeeps ==
  ASSUME IInv, NEW b \in Block, phase[b] = "gathering",
         NEW top \in [Face -> Int],
         top[ie + 1] = Pressure(b[1], stage[b], Foot(b) + (ie + 1)),
         NEW received \in Faces \cup {<<>>}, NEW taken \in SUBSET net,
         Decompose(b, top, received, taken),
         HasTop(b) => Count(Top(b)) = Count(b) + 1,
         \A m \in net : m.to = b <=> m \in taken
  PROVE  IInv'
<1> DEFINE s == stage[b]
           CellStates == [of : Token \cup {Refilled}, off : SUBSET Int]
<1>1. TypeOK /\ s \in 1 .. MaxStage /\ w[b] = Primitive(b, s)
  <2>1. TypeOK /\ s \in 1 .. MaxStage BY DEF IInv, TypeOK
  <2>2. w \in [Block -> [Cell -> CellStates]] BY <2>1 DEF TypeOK
  <2>3. ASSUME NEW i \in Cell PROVE w[b][i] = Primitive(b, s)[i]
    <3>1. CellsRight(b) BY DEF IInv
    <3>2. w[b][i] = [of |-> CellOf(setup, b, s, i), off |-> {}] BY <3>1 DEF CellsRight
    <3>3. Primitive(b, s)[i] = [of |-> CellOf(setup, b, s, i), off |-> {}]
      BY <2>1, CellOfTyped
    <3>4. QED BY <3>2, <3>3
  <2>4. Primitive(b, s) = [i \in Cell |-> Primitive(b, s)[i]] BY DEF Primitive
  <2>5. w[b] = [i \in Cell |-> w[b][i]] BY <2>2
  <2> HIDE DEF s
  <2>6. w[b] = Primitive(b, s) BY <2>3, <2>4, <2>5
  <2>7. QED BY <2>1, <2>6
<1>2. PICK own : own = Downwards(top, w[b], 1, is, ie) OBVIOUS
<1>3. PICK p : p = Populated(b, own) OBVIOUS
<1>4. PICK mean : mean = [i \in Cell |-> {p[i], p[i + 1]}] OBVIOUS
<1>5. PICK left : left = [c \in Block |->
                           pending[c] /\ ~ \E m \in taken : m.from = c /\ ~ m.copied]
  OBVIOUS
<1>6. /\ p \in [Face -> Int]
      /\ \A i \in Face : p[i] = FaceOf(setup, b, s, i)
      /\ LowestFaces(own) \in Faces
      /\ LowestFaces(own)[0] = FaceOf(setup, b, s, 1)
  <2>1. /\ p \in [Face -> Int]
        /\ \A i \in Face : p[i] = Pressure(b[1], s, Foot(b) + i)
        /\ LowestFaces(own) \in Faces
        /\ LowestFaces(own)[0] = Pressure(b[1], s, Foot(b) + 1)
    BY <1>1, <1>2, <1>3, FacesFromTop
  <2>2. QED BY <2>1, InTheState DEF FaceOf
<1> DEFINE data == LowestFaces(own)
<1>7. /\ psf' = [psf EXCEPT ![b] = p] /\ psv' = [psv EXCEPT ![b] = mean]
      /\ w' = [w EXCEPT ![b] = Perturbed(b, mean)]
      /\ phase' = [phase EXCEPT ![b] = "sending"]
      /\ UNCHANGED <<setup, stage, calls, aborted>>
      /\ IF HasBot(b)
         THEN /\ buffer' = [buffer EXCEPT ![b] = data]
              /\ \E copied \in BOOLEAN :
                   /\ net' = (net \ taken) \cup
                        {[to |-> Bot(b), from |-> b, copied |-> copied, data |-> data]}
                   /\ pending' = [left EXCEPT ![b] = ~ copied]
         ELSE /\ buffer' = [buffer EXCEPT ![b] = received]
              /\ net' = net \ taken
              /\ pending' = left
  BY <1>2, <1>3, <1>4, <1>5 DEF Decompose
<1> HIDE DEF data
<1>8. PICK v \in Faces \cup {<<>>}, copied \in BOOLEAN :
        /\ buffer' = [buffer EXCEPT ![b] = v]
        /\ HasBot(b) => v = data
        /\ \A m \in net' :
             \/ m \in net \ taken
             \/ /\ HasBot(b)
                /\ m = [to |-> Bot(b), from |-> b, copied |-> copied, data |-> data]
        /\ pending' \in [Block -> BOOLEAN]
  <2>1. left \in [Block -> BOOLEAN] BY <1>5
  <2>2. CASE HasBot(b)
    <3>1. PICK copied \in BOOLEAN :
            /\ net' = (net \ taken) \cup
                 {[to |-> Bot(b), from |-> b, copied |-> copied, data |-> data]}
            /\ pending' = [left EXCEPT ![b] = ~ copied]
      BY <1>7, <2>2
    <3>2. (~ copied) \in BOOLEAN OBVIOUS
    <3>3. pending' \in [Block -> BOOLEAN] BY <2>1, <3>1, <3>2
    <3>4. data \in Faces /\ buffer' = [buffer EXCEPT ![b] = data] BY <1>6, <1>7, <2>2 DEF data
    <3>5. QED BY <2>2, <3>1, <3>3, <3>4
  <2>3. CASE ~ HasBot(b)
    <3>1. /\ buffer' = [buffer EXCEPT ![b] = received] /\ net' = net \ taken
          /\ pending' = left
      BY <1>7, <2>3
    <3>2. QED BY <2>1, <2>3, <3>1
  <2>4. QED BY <2>2, <2>3
<1>9. /\ phase \in [Block -> {"ready", "gathering", "sending", "restored"}]
      /\ w \in [Block -> [Cell -> CellStates]]
      /\ psf \in [Block -> [Face -> Int]] /\ psv \in [Block -> [Cell -> SUBSET Int]]
      /\ buffer \in [Block -> Faces \cup {<<>>}] /\ net \subseteq Message
  BY <1>1 DEF TypeOK
<1>10. mean \in [Cell -> SUBSET Int] /\ \A i \in Cell : mean[i] = {p[i], p[i + 1]}
  <2>1. \A i \in Cell : i \in Face /\ i + 1 \in Face BY Sizes DEF Cell, Face, is, ie
  <2>2. QED BY <1>4, <1>6, <2>1
<1>11. ASSUME NEW i \in Cell
       PROVE  LET from == SourceIn(setup, b, i)
              IN  /\ Perturbed(b, mean)[i] = [of |-> CellOf(setup, b, s, from), off |-> mean[from]]
                  /\ Perturbed(b, mean)[i] \in CellStates
  <2> DEFINE from == SourceIn(setup, b, i)
  <2>1. Perturbed(b, mean)[i] = [of |-> w[b][from].of, off |-> mean[from]]
    BY DEF Perturbed, SourceIn
  <2>2. from \in Cell BY <1>1, SourceIs
  <2> HIDE DEF from, s
  <2>3. w[b][from] = [of |-> CellOf(setup, b, s, from), off |-> {}]
        /\ CellOf(setup, b, s, from) \in Token
    BY <1>1, <2>2, CellOfTyped
  <2>4. mean[from] \in SUBSET Int BY <1>10, <2>2
  <2>5. Perturbed(b, mean)[i] = [of |-> CellOf(setup, b, s, from), off |-> mean[from]]
    BY <2>1, <2>3
  <2>6. Perturbed(b, mean)[i] \in CellStates BY <2>3, <2>4, <2>5
  <2>7. QED BY <2>5, <2>6 DEF from
<1>12. /\ w' \in [Block -> [Cell -> CellStates]] /\ w'[b] = Perturbed(b, mean)
       /\ \A c \in Block \ {b} : w'[c] = w[c]
  <2>1. Perturbed(b, mean) \in [Cell -> CellStates]
    <3>1. Perturbed(b, mean) = [i \in Cell |-> Perturbed(b, mean)[i]] BY DEF Perturbed
    <3>2. \A i \in Cell : Perturbed(b, mean)[i] \in CellStates BY <1>11
    <3> HIDE DEF CellStates
    <3>3. QED BY <3>1, <3>2
  <2> HIDE DEF CellStates
  <2>2. QED BY <1>7, <1>9, <2>1
<1>13. /\ phase'[b] = "sending" /\ psf'[b] = p /\ psv'[b] = mean /\ buffer'[b] = v
       /\ \A c \in Block \ {b} : /\ phase'[c] = phase[c] /\ psf'[c] = psf[c]
                                 /\ psv'[c] = psv[c] /\ buffer'[c] = buffer[c]
  BY <1>7, <1>8, <1>9
<1>14. TypeOK'
  <2>1. /\ phase' \in [Block -> {"ready", "gathering", "sending", "restored"}]
        /\ psf' \in [Block -> [Face -> Int]] /\ psv' \in [Block -> [Cell -> SUBSET Int]]
        /\ buffer' \in [Block -> Faces \cup {<<>>}]
    <3>1. phase' \in [Block -> {"ready", "gathering", "sending", "restored"}] BY <1>7, <1>9
    <3>2. psf' \in [Block -> [Face -> Int]] BY <1>6, <1>7, <1>9
    <3>3. psv' \in [Block -> [Cell -> SUBSET Int]] BY <1>7, <1>9, <1>10
    <3>4. buffer' \in [Block -> Faces \cup {<<>>}] BY <1>8, <1>9
    <3>5. QED BY <3>1, <3>2, <3>3, <3>4
  <2>2. ASSUME NEW m \in net' PROVE m \in Message
    <3>1. CASE m \in net \ taken BY <1>9, <3>1
    <3>2. CASE /\ HasBot(b)
               /\ m = [to |-> Bot(b), from |-> b, copied |-> copied, data |-> data]
      <4>1. Bot(b) \in Block /\ data \in Faces BY <1>6, <3>2, TopAndBot DEF data
      <4>2. QED BY <3>2, <4>1 DEF Message
    <3>3. QED BY <1>8, <3>1, <3>2
  <2>3. net' \subseteq Message BY <2>2
  <2>4. QED BY <1>1, <1>7, <1>8, <1>12, <2>1, <2>3 DEF TypeOK, Message
<1>15. /\ Count(b) = s - 1 /\ Count(b)' = s
       /\ \A c \in Block \ {b} : Count(c)' = Count(c)
  <2>1. Count(b) = s - 1 BY <1>1, CountTyped DEF Decomposed
  <2>2. Count(b)' = s - 1 + 1 BY <1>7, <1>13 DEF Count, Decomposed
  <2>3. \A c \in Block \ {b} : Count(c)' = Count(c) BY <1>7, <1>13 DEF Count, Decomposed
  <2>4. QED BY <1>1, <2>1, <2>2, <2>3
<1>16. ASSUME NEW c \in Block PROVE CellsRight(c)' /\ FacesRight(c)' /\ Flowing(c)'
  <2>1. CellsRight(c) /\ FacesRight(c) /\ Flowing(c) BY DEF IInv
  <2>2. CellsRight(c)' /\ FacesRight(c)'
    <3>1. CASE c = b
      <4>1. CellsRight(b)' BY <1>7, <1>11, <1>12, <1>13 DEF CellsRight
      <4>2. FacesRight(b)' BY <1>6, <1>7, <1>10, <1>13 DEF FacesRight
      <4>3. QED BY <3>1, <4>1, <4>2
    <3>2. CASE c # b BY <1>7, <1>12, <1>13, <2>1, <3>2, BlockStays
    <3>3. QED BY <3>1, <3>2
  <2>3. Flowing(c)'
    <3> SUFFICES ASSUME HasBot(c) PROVE Flowing(c)' BY DEF Flowing
    <3> DEFINE d == Bot(c)
    <3>1. d \in Block /\ d # c /\ Top(d) = c /\ HasTop(d) BY TopAndBot
    <3>2. /\ stage[c] > stage[d] => stage[c] = stage[d] + 1 /\ phase[d] = "restored"
          /\ Count(d) <= Count(c)
      BY <2>1 DEF Flowing
    <3>3. Count(c) \in Int /\ Count(d) \in Int BY <1>1, <3>1, CountTyped
    <3> HIDE DEF d
    <3>4. Count(d)' <= Count(c)'
      <4>1. CASE c = b
        <5>1. Count(d)' = Count(d) /\ Count(c)' = Count(c) + 1
          BY <1>1, <1>15, <3>1, <4>1
        <5>2. QED BY <3>2, <3>3, <5>1
      <4>2. CASE d = b
        <5>1. Count(c) = Count(b) + 1 BY <3>1, <4>2
        <5>2. Count(c)' = Count(c) /\ Count(d)' = Count(b) + 1
          BY <1>1, <1>15, <3>1, <4>2
        <5>3. QED BY <3>3, <4>2, <5>1, <5>2
      <4>3. CASE c # b /\ d # b
        <5>1. Count(c)' = Count(c) /\ Count(d)' = Count(d) BY <1>15, <3>1, <4>3
        <5>2. QED BY <3>2, <5>1
      <4>4. QED BY <4>1, <4>2, <4>3
    <3>5. stage[c] > stage[d] => phase'[d] = "restored"
      <4>1. phase[d] = "restored" => d # b OBVIOUS
      <4>2. QED BY <1>13, <3>1, <3>2, <4>1
    <3>6. QED BY <1>7, <3>2, <3>4, <3>5 DEF Flowing, d
  <2>4. QED BY <2>2, <2>3
<1>17. ASSUME NEW m \in net' PROVE MessageRight(m)'
  <2>1. CASE m \in net \ taken
    <3>1. m.from \in Block /\ m.to \in Block /\ MessageRight(m)
      BY <1>9, <2>1 DEF IInv, Message
    <3>2. m.from # b BY <2>1, NoneSent
    <3>3. m.to # b BY <2>1
    <3>4. Count(m.from)' = Count(m.from) /\ Count(m.to)' = Count(m.to)
      BY <1>15, <3>1, <3>2, <3>3
    <3>5. Value(m)' = Value(m) BY <1>13, <3>1, <3>2 DEF Value
    <3>6. QED BY <1>7, <3>1, <3>4, <3>5 DEF MessageRight
  <2>2. CASE /\ HasBot(b)
             /\ m = [to |-> Bot(b), from |-> b, copied |-> copied, data |-> data]
    <3>1. m.from = b /\ m.to = Bot(b) BY <2>2
    <3>2. Value(m)' = data
      <4>1. buffer'[b] = data BY <1>8, <1>13, <2>2
      <4>2. Value(m)' = IF m.copied THEN m.data ELSE buffer'[m.from] BY DEF Value
      <4>3. m.data = data BY <2>2
      <4>4. QED BY <3>1, <4>1, <4>2, <4>3
    <3>3. Bot(b) \in Block /\ Bot(b) # b BY <2>2, TopAndBot
    <3>4. Count(Bot(b))' = Count(b) BY <1>15, <2>2, <3>3, NoneSent
    <3>5. Count(b)' = Count(Bot(b))' + 1 BY <1>1, <1>15, <3>4
    <3>6. data \in Faces /\ data[0] = FaceOf(setup, b, s, 1) BY <1>6 DEF data
    <3>7. setup' = setup /\ Count(b)' = s BY <1>7, <1>15
    <3> HIDE DEF s
    <3>8. QED BY <2>2, <3>1, <3>2, <3>5, <3>6, <3>7 DEF MessageRight
  <2>3. QED BY <1>8, <2>1, <2>2
<1>18. ASSUME NEW m \in net', NEW n \in net', m.from = n.from PROVE m = n
  <2>1. \A x \in net : x.from # b BY NoneSent
  <2>2. CASE m \in net \ taken /\ n \in net \ taken BY <1>18, <2>2 DEF IInv
  <2>3. CASE m \notin net \ taken
    <3>1. m = [to |-> Bot(b), from |-> b, copied |-> copied, data |-> data] BY <1>8, <2>3
    <3>2. n \notin net \ taken BY <1>18, <2>1, <3>1
    <3>3. n = [to |-> Bot(b), from |-> b, copied |-> copied, data |-> data] BY <1>8, <3>2
    <3>4. QED BY <3>1, <3>3
  <2>4. CASE n \notin net \ taken
    <3>1. n = [to |-> Bot(b), from |-> b, copied |-> copied, data |-> data] BY <1>8, <2>4
    <3>2. m \notin net \ taken BY <1>18, <2>1, <3>1
    <3>3. m = [to |-> Bot(b), from |-> b, copied |-> copied, data |-> data] BY <1>8, <3>2
    <3>4. QED BY <3>1, <3>3
  <2>5. QED BY <2>2, <2>3, <2>4
<1>19. QED BY <1>14, <1>16, <1>17, <1>18 DEF IInv

LEMMA ChangeKeeps ==
  ASSUME IInv, NEW b \in Block, ChangeToTemperature(b)
  PROVE  IInv'
<1>1. TypeOK /\ phase[b] = "gathering" /\ psf[b] \in [Face -> Int] /\ stage[b] \in 1 .. MaxStage
      /\ buffer[b] \in Faces \cup {<<>>} /\ w[b] \in [Cell -> [of : Token \cup {Refilled}, off : SUBSET Int]]
      /\ net \subseteq Message
  BY DEF IInv, TypeOK, ChangeToTemperature
<1>2. ie + 1 \in Face /\ ie \in Cell /\ ie = N /\ 0 \in 0 .. NGHOST
      /\ ie + 1 \in ie + 1 .. ie + NGHOST + 1 /\ (ie + 1) - ie - 1 = 0
  BY Sizes DEF ie, is, Face, Cell
<1>3. ASSUME NEW m \in net
      PROVE  m.to = b => HasTop(b) /\ m.from = Top(b)
  <2>1. HasBot(m.from) /\ m.to = Bot(m.from) /\ m.from \in Block
    BY <1>1 DEF IInv, MessageRight, Message
  <2>2. HasTop(Bot(m.from)) /\ Top(Bot(m.from)) = m.from BY <2>1, TopAndBot
  <2>3. QED BY <2>1, <2>2
<1>4. CASE /\ ~ HasTop(b)
           /\ Decompose(b, [psf[b] EXCEPT ![ie + 1] = Extrapolated[w[b][ie].of]],
                        buffer[b], {})
  <2>1. PICK e : e = Extrapolated[w[b][ie].of] OBVIOUS
  <2>2. PICK top : top = [psf[b] EXCEPT ![ie + 1] = e] OBVIOUS
  <2>3. PICK received : received = buffer[b] OBVIOUS
  <2>4. Foot(b) + N = Height /\ Foot(b) \in Nat /\ b[1] \in 1 .. NColumn BY <1>4, Feet
  <2>5. e = Extrapolated[<<b[1], stage[b], Height>>] /\ e \in Int
    <3>1. w[b][ie].of = CellOf(setup, b, stage[b], ie)
      <4>1. CellsRight(b) BY DEF IInv
      <4>2. w[b][ie] = [of |-> CellOf(setup, b, stage[b], ie), off |-> {}]
        BY <1>1, <1>2, <4>1 DEF CellsRight
      <4>3. QED BY <4>2
    <3>2. CellOf(setup, b, stage[b], ie) = <<b[1], stage[b], Place(Foot(b) + ie)>>
          /\ CellOf(setup, b, stage[b], ie) \in Token
      BY <1>1, <1>2, CellOfTyped, InTheState DEF CellOf
    <3>3. Place(Foot(b) + ie) = Height
      <4>1. Height \in 1 .. Height /\ Height \in 1 - NGHOST .. Height + NGHOST BY Sizes
      <4>2. Place(Height) = Height BY <4>1, PlaceIs
      <4>3. QED BY <1>2, <2>4, <4>2
    <3>4. QED BY <2>1, <3>1, <3>2, <3>3, DecompositionAssumption
  <2>6. top[ie + 1] = Pressure(b[1], stage[b], Foot(b) + (ie + 1))
    <3>1. Foot(b) + (ie + 1) = Height + 1 BY <1>2, <2>4, Sizes
    <3>2. Pressure(b[1], stage[b], Height + 1) = Integral(b[1], stage[b])[Height + 1]
      <4>1. Height + 1 \in 1 .. Height + 1 BY Sizes
      <4>2. QED BY <4>1, Sizes DEF Pressure
    <3>3. Integral(b[1], stage[b])[Height + 1] = Extrapolated[<<b[1], stage[b], Height>>]
      BY <1>1, <2>4, IntegralIs
    <3>4. top[ie + 1] = e BY <1>1, <1>2, <2>2
    <3>5. QED BY <2>5, <3>1, <3>2, <3>3, <3>4
  <2>7. top \in [Face -> Int] BY <1>1, <1>2, <2>2, <2>5
  <2>8. Decompose(b, top, received, {}) BY <1>4, <2>1, <2>2, <2>3
  <2>9. received \in Faces \cup {<<>>} /\ {} \in SUBSET net BY <1>1, <2>3
  <2>10. \A m \in net : m.to = b <=> m \in {} BY <1>3, <1>4
  <2>11. QED BY <1>1, <1>4, <2>6, <2>7, <2>8, <2>9, <2>10, DecomposeKeeps
<1>5. CASE /\ HasTop(b)
           /\ \E m \in net : m.to = b /\ Decompose(b, Unpacked(psf[b], Value(m)), Value(m), {m})
  <2>1. PICK m \in net : m.to = b /\ Decompose(b, Unpacked(psf[b], Value(m)), Value(m), {m})
    BY <1>5
  <2>2. PICK received : received = Value(m) OBVIOUS
  <2>3. PICK top : top = Unpacked(psf[b], received) OBVIOUS
  <2>4. MessageRight(m) /\ m.from = Top(b) BY <1>3, <2>1 DEF IInv
  <2>5. Count(Top(b)) = Count(b) + 1 BY <2>1, <2>4 DEF MessageRight
  <2>6. Count(b) = stage[b] - 1 BY <1>1, CountTyped DEF Decomposed
  <2>7. Count(Top(b)) = stage[b] BY <1>1, <2>5, <2>6
  <2>8. received \in Faces /\ received[0] = FaceOf(setup, Top(b), stage[b], 1)
    BY <2>2, <2>4, <2>7 DEF MessageRight
  <2>9. FaceOf(setup, Top(b), stage[b], 1) = Pressure(b[1], stage[b], Foot(b) + (ie + 1))
    <3>1. Top(b)[1] = b[1] /\ Foot(Top(b)) = Foot(b) + N BY <1>5, TopAndBot
    <3>2. Foot(Top(b)) + 1 = Foot(b) + (ie + 1) BY <1>2, <3>1, Feet, Sizes
    <3>3. QED BY <3>1, <3>2, InTheState DEF FaceOf
  <2>10. top \in [Face -> Int] /\ top[ie + 1] = received[0]
    <3>1. top = [i \in Face |->
                  IF i \in ie + 1 .. ie + NGHOST + 1 /\ i - ie - 1 \in DOMAIN received
                  THEN received[i - ie - 1] ELSE psf[b][i]]
      BY <2>3 DEF Unpacked
    <3>2. DOMAIN received = 0 .. NGHOST /\ \A j \in 0 .. NGHOST : received[j] \in Int
      BY <2>8 DEF Faces
    <3>3. top[ie + 1] = received[0] BY <1>2, <3>1, <3>2
    <3>4. ASSUME NEW i \in Face PROVE top[i] \in Int
      <4>1. CASE i \in ie + 1 .. ie + NGHOST + 1 /\ i - ie - 1 \in DOMAIN received
        BY <3>1, <3>2, <4>1
      <4>2. CASE ~ (i \in ie + 1 .. ie + NGHOST + 1 /\ i - ie - 1 \in DOMAIN received)
        BY <1>1, <3>1, <4>2
      <4>3. QED BY <4>1, <4>2
    <3>5. QED BY <3>1, <3>3, <3>4
  <2>11. Decompose(b, top, received, {m}) BY <2>1, <2>2, <2>3
  <2>12. \A n \in net : n.to = b <=> n \in {m}
    <3>1. ASSUME NEW n \in net, n.to = b PROVE n = m
      <4>1. n.from = m.from BY <1>3, <2>4, <3>1
      <4>2. QED BY <4>1 DEF IInv
    <3>2. QED BY <2>1, <3>1
  <2>13. QED BY <1>1, <2>5, <2>8, <2>9, <2>10, <2>11, <2>12, DecomposeKeeps
<1>6. CASE UNCHANGED <<setup, stage, phase, calls, w, psf, psv, buffer, net, pending>>
           /\ aborted' = TRUE
  <2>1. TypeOK' BY <1>1, <1>6 DEF TypeOK, Message
  <2>2. ASSUME NEW c \in Block
        PROVE  CellsRight(c)' /\ FacesRight(c)' /\ Flowing(c)' /\ Count(c)' = Count(c)
    <3>1. CellsRight(c) /\ FacesRight(c) /\ Flowing(c) BY DEF IInv
    <3>2. CellsRight(c)' /\ FacesRight(c)' /\ Count(c)' = Count(c) BY <1>6, <3>1, BlockStays
    <3>3. Flowing(c)' BY <1>6, <3>1 DEF Flowing, Count, Decomposed
    <3>4. QED BY <3>2, <3>3
  <2>3. /\ \A m \in net' : MessageRight(m)'
        /\ \A m, n \in net' : m.from = n.from => m = n
    BY <1>6, <2>2, MessagesStay
  <2>4. QED BY <2>1, <2>2, <2>3 DEF IInv
<1>7. QED BY <1>4, <1>5, <1>6 DEF ChangeToTemperature

LEMMA StepInvariant == IInv /\ [Next]_vars => IInv'
<1> SUFFICES ASSUME IInv, [Next]_vars PROVE IInv' OBVIOUS
<1>1. CASE \E b \in Block : BlockStep(b)
  BY <1>1, FindNeighborsKeeps, ChangeKeeps, RestoreKeeps, NextStageKeeps DEF BlockStep
<1>2. CASE UNCHANGED vars
  <2>1. UNCHANGED <<setup, stage, phase, calls, w, psf, psv, buffer, net, pending, aborted>>
    BY <1>2 DEF vars
  <2>2. TypeOK' BY <2>1 DEF IInv, TypeOK, Message
  <2>3. ASSUME NEW c \in Block
        PROVE  CellsRight(c)' /\ FacesRight(c)' /\ Flowing(c)' /\ Count(c)' = Count(c)
    <3>1. CellsRight(c) /\ FacesRight(c) /\ Flowing(c) BY DEF IInv
    <3>2. CellsRight(c)' /\ FacesRight(c)' /\ Count(c)' = Count(c) BY <2>1, <3>1, BlockStays
    <3>3. Flowing(c)' BY <2>1, <3>1 DEF Flowing, Count, Decomposed
    <3>4. QED BY <3>2, <3>3
  <2>4. /\ \A m \in net' : MessageRight(m)'
        /\ \A m, n \in net' : m.from = n.from => m = n
    BY <2>1, <2>3, MessagesStay
  <2>5. QED BY <2>2, <2>3, <2>4 DEF IInv
<1>3. QED BY <1>1, <1>2 DEF Next, Finished

(* In every reachable state what cells, faces and messages hold is what the *)
(* column of the stage says, and blocks are in step with their neighbours.  *)
THEOREM SweepInvariant == Spec => []IInv
<1>1. QED BY InitInvariant, StepInvariant, PTL DEF Spec

(* Buffers and messages hold whole sets of faces (psf_, psv_, buffer_).     *)
THEOREM SweepTyped == Spec => []TypeOK
<1>1. IInv => TypeOK BY DEF IInv
<1>2. QED BY <1>1, SweepInvariant, PTL

(* However a column is cut into blocks, and however blocks are spread over  *)
(* ranks, the pressures of a block are those of one integration of the      *)
(* whole column, ghost faces included.                                      *)
THEOREM SweepIntegrates == Spec => []PressureIsIntegral
<1>1. IInv => PressureIsIntegral
  <2> SUFFICES ASSUME IInv, NEW b \in Block, Decomposed(b), NEW i \in Face
               PROVE  psf[b][i] = Pressure(b[1], stage[b], (b[2] - 1) * N + i)
    BY DEF PressureIsIntegral
  <2>1. psf[b][i] = FaceOf(setup, b, stage[b], i) BY DEF IInv, FacesRight
  <2>2. QED BY <2>1, InTheState DEF FaceOf, Foot
<1>2. QED BY <1>1, SweepInvariant, PTL

(* Two blocks reconstruct their common face from the same states.           *)
THEOREM InterfacesAgree == Spec => []InterfaceStatesAgree
<1>1. IInv => InterfaceStatesAgree
  <2> SUFFICES ASSUME IInv, NEW b \in Block, HasTop(b),
                      phase[b] = "sending", phase[Top(b)] = "sending"
               PROVE  /\ stage[b] = stage[Top(b)]
                      /\ \A i \in ie + 1 - NGHOST .. ie + NGHOST :
                           w[b][i] = w[Top(b)][i - N] /\ psv[b][i] = psv[Top(b)][i - N]
                      /\ psf[b][ie + 1] = psf[Top(b)][is]
    BY DEF InterfaceStatesAgree
  <2> DEFINE t == Top(b)
  <2>1. /\ t \in Block /\ HasBot(t) /\ Bot(t) = b /\ Foot(t) = Foot(b) + N /\ t[1] = b[1]
    BY TopAndBot
  <2>2. phase[b] = "sending" /\ phase[t] = "sending" /\ Foot(b) \in Nat BY Feet
  <2> HIDE DEF t
  <2>3. TypeOK /\ Flowing(t) /\ CellsRight(b) /\ CellsRight(t) /\ FacesRight(b) /\ FacesRight(t)
    BY <2>1 DEF IInv
  <2>4. stage[b] = stage[t]
    <3>1. /\ stage[t] > stage[b] => phase[b] = "restored"
          /\ Count(b) <= Count(t)
      BY <2>1, <2>3 DEF Flowing
    <3>2. Count(b) = stage[b] /\ Count(t) = stage[t] /\ stage[b] \in Int /\ stage[t] \in Int
      BY <2>1, <2>2, <2>3, CountTyped DEF Decomposed
    <3>3. QED BY <2>2, <3>1, <3>2
  <2>5. ASSUME NEW i \in Face, NEW j \in Face, j = i - N
        PROVE  psf[b][i] = psf[t][j]
    <3>1. psf[b][i] = PressureIn(setup, b[1], stage[b], Foot(b) + i)
          /\ psf[t][j] = PressureIn(setup, t[1], stage[t], Foot(t) + j)
      BY <2>2, <2>3 DEF FacesRight, Decomposed, FaceOf
    <3>2. Foot(b) + i = Foot(t) + j BY <2>1, <2>2, <2>5, Sizes DEF Face, is, ie
    <3>3. QED BY <2>1, <2>4, <3>1, <3>2
  <2>6. ASSUME NEW i \in ie + 1 - NGHOST .. ie + NGHOST
        PROVE  w[b][i] = w[t][i - N] /\ psv[b][i] = psv[t][i - N]
    <3>1. PICK j : j = i - N OBVIOUS
    <3>2. /\ i \in Cell /\ j \in Cell /\ i \in Face /\ j \in Face /\ i + 1 \in Face
          /\ j + 1 \in Face /\ j + 1 = (i + 1) - N /\ ~ (i < is) /\ ~ (j > ie)
      BY <3>1, Sizes DEF Cell, Face, is, ie
    <3>3. psf[b][i] = psf[t][j] /\ psf[b][i + 1] = psf[t][j + 1] BY <2>5, <3>1, <3>2
    <3>4. psv[b][i] = {psf[b][i], psf[b][i + 1]} /\ psv[t][j] = {psf[t][j], psf[t][j + 1]}
      BY <2>2, <2>3, <3>2 DEF FacesRight, Decomposed
    <3>5. psv[b][i] = psv[t][j] BY <3>3, <3>4
    <3>6. SourceIn(setup, b, i) = i /\ SourceIn(setup, t, j) = j
      BY <2>1, <2>3, <3>2, SourceIs
    <3>7. /\ w[b][i] = [of |-> CellOf(setup, b, stage[b], i), off |-> psv[b][i]]
          /\ w[t][j] = [of |-> CellOf(setup, t, stage[t], j), off |-> psv[t][j]]
      BY <2>2, <2>3, <3>2, <3>6 DEF CellsRight
    <3>8. CellOf(setup, b, stage[b], i) = CellOf(setup, t, stage[t], j)
      <4>1. Foot(b) + i = Foot(t) + j BY <2>1, <2>2, <3>1, <3>2, Sizes DEF Cell, is, ie
      <4>2. QED BY <2>1, <2>4, <4>1 DEF CellOf
    <3>9. QED BY <3>1, <3>5, <3>7, <3>8
  <2>7. psf[b][ie + 1] = psf[t][is]
    <3>1. ie + 1 \in Face /\ is \in Face /\ is = (ie + 1) - N BY Sizes DEF Face, is, ie
    <3>2. QED BY <2>5, <3>1
  <2>8. QED BY <2>4, <2>6, <2>7 DEF t
<1>2. QED BY <1>1, SweepInvariant, PTL

(* A block goes on with whole cells, but beyond an open end.                *)
THEOREM SweepRestores == Spec => []RestoredWhole
<1>1. IInv => RestoredWhole
  <2> SUFFICES ASSUME IInv, NEW b \in Block, phase[b] \in {"restored", "ready"},
                      NEW i \in Cell
               PROVE  \/ w[b][i] = Primitive(b, stage[b])[i]
                      \/ i < is /\ ~ HasBot(b) /\ setup.inner = "outflow" /\ w[b][i].off = {}
                      \/ i > ie /\ ~ HasTop(b) /\ setup.outer = "outflow" /\ w[b][i].off = {}
    BY DEF RestoredWhole
  <2>1. TypeOK /\ CellsRight(b) /\ stage[b] \in 1 .. MaxStage BY DEF IInv, TypeOK
  <2>2. Primitive(b, stage[b])[i] = [of |-> CellOf(setup, b, stage[b], i), off |-> {}]
    BY <2>1, CellOfTyped
  <2>3. CASE phase[b] = "ready" BY <2>1, <2>2, <2>3 DEF CellsRight
  <2>4. CASE phase[b] = "restored"
    <3>1. /\ w[b][i].off = {}
          /\ SourceIn(setup, b, i) = i => w[b][i].of = CellOf(setup, b, stage[b], i)
      BY <2>1, <2>4 DEF CellsRight
    <3>2. w[b][i] = [of |-> w[b][i].of, off |-> w[b][i].off]
      <4>1. w[b][i] \in [of : Token \cup {Refilled}, off : SUBSET Int] BY <2>1 DEF TypeOK
      <4>2. QED BY <4>1
    <3>3. SourceIn(setup, b, i) = i => w[b][i] = Primitive(b, stage[b])[i]
      BY <2>2, <3>1, <3>2
    <3>4. QED BY <2>1, <3>1, <3>3, SourceIs
  <2>5. QED BY <2>3, <2>4
<1>2. QED BY <1>1, SweepInvariant, PTL

=============================================================================
