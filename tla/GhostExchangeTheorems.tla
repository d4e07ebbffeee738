----------------------- MODULE GhostExchangeTheorems -----------------------
(***************************************************************************)
(* Proofs about the exchange of ghost cells and the neighbour tables it    *)
(* follows: for any number of blocks on a panel, any placement of the      *)
(* blocks on ranks, any number of cells in a block and of ghost layers.    *)
(***************************************************************************)
EXTENDS Neighbors, GhostExchange, CubedSphereTheorems

-----------------------------------------------------------------------------
(* The neighbour tables.                                                  *)
\* Every entry is unset or is what TransformOX finds: no step of another
\* rank, and no later phase, changes it to anything else.
EntriesFound ==
  \A l \in Location, s \in Side :
    neighbor[l][s] = Unset \/ neighbor[l][s] = Found(l, s)

\* The entries of a face pair that has been handled are those found for it.
Handled ==
  \A l \in Location :
    /\ search[l] # "x2" => /\ neighbor[l]["up"] = Found(l, "up")
                          /\ neighbor[l]["down"] = Found(l, "down")
    /\ search[l] = "done" => /\ neighbor[l]["left"] = Found(l, "left")
                             /\ neighbor[l]["right"] = Found(l, "right")

TablesInv == TypeOK /\ EntriesFound /\ Handled

LEMMA FoundType ==
  ASSUME NEW l \in Location, NEW s \in Side
  PROVE  Found(l, s) \in Entry
BY NeighborInvolution DEF Found, Entry

LEMMA UnsetIsNoEntry == \A e \in Entry : e # Unset
BY BAssumption DEF Entry, Unset, Location, Side

LEMMA TablesInit == SearchInit => TablesInv
BY DEF SearchInit, TablesInv, TypeOK, EntriesFound, Handled

LEMMA TablesStep == TablesInv /\ [SearchNext]_tables => TablesInv'
<1> SUFFICES ASSUME TablesInv, [SearchNext]_tables
             PROVE  TablesInv'
  OBVIOUS
<1> USE DEF TablesInv, TypeOK, EntriesFound, Handled
<1>1. ASSUME NEW l \in Location, SetX2Faces(l)
      PROVE  TablesInv'
  <2>1. Found(l, "up") \in Entry /\ Found(l, "down") \in Entry
    BY FoundType DEF Side
  <2>2. QED BY <1>1, <2>1 DEF SetX2Faces, Side
<1>2. ASSUME NEW l \in Location, SetX3Faces(l)
      PROVE  TablesInv'
  <2>1. Found(l, "left") \in Entry /\ Found(l, "right") \in Entry
    BY FoundType DEF Side
  <2>2. QED BY <1>2, <2>1 DEF SetX3Faces, Side
<1>3. CASE UNCHANGED tables
  BY <1>3 DEF tables
<1>4. QED BY <1>1, <1>2, <1>3 DEF SearchNext, Built

(* In every reachable state the tables are well formed and hold nothing but *)
(* what TransformOX finds.                                                  *)
THEOREM TablesFound == SearchSpec => []TablesInv
<1>1. QED BY TablesInit, TablesStep, PTL DEF SearchSpec

LEMMA FoundReciprocal == TablesInv => Reciprocal
<1> SUFFICES ASSUME TablesInv, NEW l \in Location, NEW s \in Side,
                    IsSet(l, s),
                    IsSet(neighbor[l][s].loc, neighbor[l][s].side)
             PROVE  neighbor[neighbor[l][s].loc][neighbor[l][s].side]
                      = [loc |-> l, side |-> s]
  BY DEF Reciprocal
<1> DEFINE n == NeighborLoc(l, s)
           t == NeighborSide(l, s)
<1>1. neighbor[l][s] = [loc |-> n, side |-> t]
  BY DEF TablesInv, EntriesFound, IsSet, Found
<1>2. /\ n \in Location /\ t \in Side
      /\ NeighborLoc(n, t) = l /\ NeighborSide(n, t) = s
  BY NeighborInvolution
<1>3. neighbor[n][t] = Found(n, t)
  BY <1>1, <1>2 DEF TablesInv, EntriesFound, IsSet
<1>4. QED BY <1>1, <1>2, <1>3 DEF Found

LEMMA FoundFields ==
  ASSUME NEW l \in Location, NEW s \in Side
  PROVE  /\ Found(l, s).loc = NeighborLoc(l, s)
         /\ Found(l, s).side = NeighborSide(l, s)
BY DEF Found

LEMMA FoundNoClash == TablesInv => NoBufferClash
<1> SUFFICES ASSUME TablesInv, NEW l \in Location, NEW m \in Location,
                    NEW s \in Side, NEW t \in Side,
                    IsSet(l, s), IsSet(m, t), neighbor[l][s] = neighbor[m][t]
             PROVE  l = m /\ s = t
  BY DEF NoBufferClash
<1>1. neighbor[l][s] = Found(l, s) /\ neighbor[m][t] = Found(m, t)
  BY DEF TablesInv, EntriesFound, IsSet
<1>2. /\ NeighborLoc(l, s) = NeighborLoc(m, t)
      /\ NeighborSide(l, s) = NeighborSide(m, t)
  BY <1>1, FoundFields
<1>3. /\ NeighborLoc(NeighborLoc(l, s), NeighborSide(l, s)) = l
      /\ NeighborSide(NeighborLoc(l, s), NeighborSide(l, s)) = s
      /\ NeighborLoc(NeighborLoc(m, t), NeighborSide(m, t)) = m
      /\ NeighborSide(NeighborLoc(m, t), NeighborSide(m, t)) = t
  BY NeighborInvolution
<1>4. QED BY <1>2, <1>3

LEMMA FoundSameEdge == TablesInv => SameEdge
<1> SUFFICES ASSUME TablesInv, NEW l \in Location, NEW s \in Side, IsSet(l, s)
             PROVE  FaceCorners(l, s)
                      = FaceCorners(neighbor[l][s].loc, neighbor[l][s].side)
  BY DEF SameEdge
<1>1. neighbor[l][s] = Found(l, s)
  BY DEF TablesInv, EntriesFound, IsSet
<1>2. /\ neighbor[l][s].loc = NeighborLoc(l, s)
      /\ neighbor[l][s].side = NeighborSide(l, s)
  BY <1>1, FoundFields
<1>3. QED BY <1>2, NeighborSharesEdge

(* Every entry ever found names a block of the mesh.                        *)
THEOREM TablesTypeCorrect == SearchSpec => []TypeOK
<1>1. TablesInv => TypeOK
  BY DEF TablesInv
<1>2. QED BY <1>1, TablesFound, PTL

(* Two blocks that list each other list each other's very face, whatever    *)
(* the order in which ranks build their blocks: a buffer filled by one side *)
(* is the buffer the other side reads.                                      *)
THEOREM TablesReciprocal == SearchSpec => []Reciprocal
<1>1. QED BY FoundReciprocal, TablesFound, PTL

(* No boundary buffer of the mesh has two writers.                          *)
THEOREM BuffersUnshared == SearchSpec => []NoBufferClash
<1>1. QED BY FoundNoClash, TablesFound, PTL

(* The faces that exchange data are the same edge of the sphere.            *)
THEOREM TablesMatchCharts == SearchSpec => []SameEdge
<1>1. QED BY FoundSameEdge, TablesFound, PTL

-----------------------------------------------------------------------------
(* The order in which a border is packed.  The n-th value is that of turn   *)
(* Row of the outer loop and turn Col of the inner, of width q.             *)
Row(n, q) == (n - 1) \div q
Col(n, q) == (n - 1) % q

LEMMA RowCol ==
  ASSUME NEW p \in Nat, NEW q \in Nat \ {0}, NEW n \in 1 .. p * q
  PROVE  Row(n, q) \in 0 .. p - 1 /\ Col(n, q) \in 0 .. q - 1
<1> DEFINE d == (n - 1) \div q
           m == (n - 1) % q
<1>1. p * q \in Nat /\ n - 1 \in Nat /\ n - 1 < p * q OBVIOUS
<1>2. d \in Nat /\ m \in 0 .. q - 1 /\ n - 1 = q * d + m BY <1>1
<1> HIDE DEF d, m
<1>3. d < p
  <2> SUFFICES ASSUME d >= p PROVE FALSE BY <1>2
  <2>1. q * d >= q * p BY <1>2
  <2>2. q * p = p * q OBVIOUS
  <2>3. QED BY <1>1, <1>2, <2>1, <2>2
<1>4. QED BY <1>2, <1>3 DEF Row, Col, d, m

LEMMA Counting ==
  ASSUME NEW a \in Int, NEW b \in Int, b - a + 1 \in Nat
  PROVE  /\ Len(Count(a, b)) = b - a + 1
         /\ Len(CountDown(a, b)) = b - a + 1
         /\ \A m \in 0 .. b - a : /\ Count(a, b)[1 + m] = a + m
                                  /\ CountDown(a, b)[1 + m] = b - m
<1>1. Len(Count(a, b)) = b - a + 1 BY DEF Count
<1>2. Len(CountDown(a, b)) = b - a + 1 BY DEF CountDown
<1>3. \A m \in 0 .. b - a : /\ Count(a, b)[1 + m] = a + m
                            /\ CountDown(a, b)[1 + m] = b - m
  BY DEF Count, CountDown
<1>4. QED BY <1>1, <1>2, <1>3

Box == [sj : Int, ej : Int, sk : Int, ek : Int]

\* How many cells a range of indices has along x2 and along x3.
Width2(x) == x.ej - x.sj + 1
Width3(x) == x.ek - x.sk + 1

LEMMA PackOrderAt ==
  ASSUME NEW x \in Box, Width2(x) \in Nat \ {0}, Width3(x) \in Nat \ {0}
  PROVE  /\ \A r \in {"R0", "R1", "R2", "R3"} :
              DOMAIN PackOrder(r, x) = 1 .. Width2(x) * Width3(x)
         /\ \A n \in 1 .. Width2(x) * Width3(x) :
              /\ PackOrder("R0", x)[n] =
                   <<x.sj + Col(n, Width2(x)), x.sk + Row(n, Width2(x))>>
              /\ PackOrder("R1", x)[n] =
                   <<x.ej - Row(n, Width3(x)), x.sk + Col(n, Width3(x))>>
              /\ PackOrder("R2", x)[n] =
                   <<x.ej - Col(n, Width2(x)), x.ek - Row(n, Width2(x))>>
              /\ PackOrder("R3", x)[n] =
                   <<x.sj + Row(n, Width3(x)), x.ek - Col(n, Width3(x))>>
<1> DEFINE v == Width2(x)
           w == Width3(x)
           up2 == Count(x.sj, x.ej)
           down2 == CountDown(x.sj, x.ej)
           up3 == Count(x.sk, x.ek)
           down3 == CountDown(x.sk, x.ek)
<1>1. x.sj \in Int /\ x.ej \in Int /\ x.sk \in Int /\ x.ek \in Int BY DEF Box
<1>2. /\ v = x.ej - x.sj + 1 /\ x.ej - x.sj + 1 \in Nat /\ x.ej - x.sj = v - 1
      /\ w = x.ek - x.sk + 1 /\ x.ek - x.sk + 1 \in Nat /\ x.ek - x.sk = w - 1
  BY <1>1 DEF Width2, Width3
<1>3. /\ Len(up2) = v /\ Len(down2) = v
      /\ \A m \in 0 .. v - 1 : up2[1 + m] = x.sj + m /\ down2[1 + m] = x.ej - m
  <2> HIDE DEF v
  <2>1. /\ Len(up2) = x.ej - x.sj + 1 /\ Len(down2) = x.ej - x.sj + 1
        /\ \A m \in 0 .. x.ej - x.sj : up2[1 + m] = x.sj + m /\ down2[1 + m] = x.ej - m
    BY <1>1, <1>2, Counting, Zenon
  <2>2. QED BY <1>2, <2>1, Zenon
<1>4. /\ Len(up3) = w /\ Len(down3) = w
      /\ \A m \in 0 .. w - 1 : up3[1 + m] = x.sk + m /\ down3[1 + m] = x.ek - m
  <2> HIDE DEF w
  <2>1. /\ Len(up3) = x.ek - x.sk + 1 /\ Len(down3) = x.ek - x.sk + 1
        /\ \A m \in 0 .. x.ek - x.sk : up3[1 + m] = x.sk + m /\ down3[1 + m] = x.ek - m
    BY <1>1, <1>2, Counting, Zenon
  <2>2. QED BY <1>2, <2>1, Zenon
<1>5. v \in Nat \ {0} /\ w \in Nat \ {0} /\ w * v = v * w OBVIOUS
<1>6. /\ PackOrder("R0", x) = [n \in 1 .. w * v |->
           <<up2[1 + Col(n, v)], up3[1 + Row(n, v)]>>]
      /\ PackOrder("R1", x) = [n \in 1 .. v * w |->
           <<down2[1 + Row(n, w)], up3[1 + Col(n, w)]>>]
      /\ PackOrder("R2", x) = [n \in 1 .. w * v |->
           <<down2[1 + Col(n, v)], down3[1 + Row(n, v)]>>]
      /\ PackOrder("R3", x) = [n \in 1 .. v * w |->
           <<up2[1 + Row(n, w)], down3[1 + Col(n, w)]>>]
  <2>1. PackOrder("R0", x) = [n \in 1 .. Len(up3) * Len(up2) |->
          <<up2[1 + ((n - 1) % Len(up2))], up3[1 + (n - 1) \div Len(up2)]>>]
    BY DEF PackOrder, Nested, KJ, JK
  <2>2. PackOrder("R1", x) = [n \in 1 .. Len(down2) * Len(up3) |->
          <<down2[1 + (n - 1) \div Len(up3)], up3[1 + ((n - 1) % Len(up3))]>>]
    BY DEF PackOrder, Nested, KJ, JK
  <2>3. PackOrder("R2", x) = [n \in 1 .. Len(down3) * Len(down2) |->
          <<down2[1 + ((n - 1) % Len(down2))], down3[1 + (n - 1) \div Len(down2)]>>]
    BY DEF PackOrder, Nested, KJ, JK
  <2>4. PackOrder("R3", x) = [n \in 1 .. Len(up2) * Len(down3) |->
          <<up2[1 + (n - 1) \div Len(down3)], down3[1 + ((n - 1) % Len(down3))]>>]
    BY DEF PackOrder, Nested, KJ, JK
  <2> HIDE DEF v, w, up2, up3, down2, down3
  <2>5. QED BY <1>3, <1>4, <2>1, <2>2, <2>3, <2>4 DEF Row, Col
<1> HIDE DEF v, w, up2, up3, down2, down3
<1>7. \A n \in 1 .. v * w : /\ Row(n, v) \in 0 .. w - 1 /\ Col(n, v) \in 0 .. v - 1
                            /\ Row(n, w) \in 0 .. v - 1 /\ Col(n, w) \in 0 .. w - 1
  BY <1>5, RowCol
<1>8. \A r \in {"R0", "R1", "R2", "R3"} : DOMAIN PackOrder(r, x) = 1 .. v * w
  BY <1>5, <1>6
<1>9. ASSUME NEW n \in 1 .. v * w
      PROVE  /\ PackOrder("R0", x)[n] = <<x.sj + Col(n, v), x.sk + Row(n, v)>>
             /\ PackOrder("R1", x)[n] = <<x.ej - Row(n, w), x.sk + Col(n, w)>>
             /\ PackOrder("R2", x)[n] = <<x.ej - Col(n, v), x.ek - Row(n, v)>>
             /\ PackOrder("R3", x)[n] = <<x.sj + Row(n, w), x.ek - Col(n, w)>>
  <2>1. n \in 1 .. w * v BY <1>5
  <2>2. /\ PackOrder("R0", x)[n] = <<up2[1 + Col(n, v)], up3[1 + Row(n, v)]>>
        /\ PackOrder("R1", x)[n] = <<down2[1 + Row(n, w)], up3[1 + Col(n, w)]>>
        /\ PackOrder("R2", x)[n] = <<down2[1 + Col(n, v)], down3[1 + Row(n, v)]>>
        /\ PackOrder("R3", x)[n] = <<up2[1 + Row(n, w)], down3[1 + Col(n, w)]>>
    BY <1>6, <2>1
  <2>3. /\ Row(n, v) \in 0 .. w - 1 /\ Col(n, v) \in 0 .. v - 1
        /\ Row(n, w) \in 0 .. v - 1 /\ Col(n, w) \in 0 .. w - 1
    BY <1>7
  <2>4. QED BY <1>3, <1>4, <2>2, <2>3
<1>10. QED BY <1>8, <1>9 DEF v, w

\* The cells at turn n of the two loops, N values of NGHOST or NGHOST of N.
LEMMA CellsAt ==
  ASSUME NEW n \in 1 .. N * NGHOST
  PROVE  LET A == Row(n, NGHOST)
             C == Col(n, NGHOST)
             D == Row(n, N)
             E == Col(n, N)
             M == N - NGHOST
             H == NGHOST - 1
             L == N - 1
             Reads(r, x, j, k) == PackOrder(r, x)[n] = <<j, k>>
         IN  /\ A \in 0 .. L /\ C \in 0 .. H /\ D \in 0 .. H /\ E \in 0 .. L
             /\ Reads("R0", Sent("up"), C, A)
             /\ Reads("R1", Sent("up"), H - D, E)
             /\ Reads("R2", Sent("up"), H - C, L - A)
             /\ Reads("R3", Sent("up"), D, L - E)
             /\ Reads("R0", Sent("down"), M + C, A)
             /\ Reads("R1", Sent("down"), L - D, E)
             /\ Reads("R2", Sent("down"), L - C, L - A)
             /\ Reads("R3", Sent("down"), M + D, L - E)
             /\ Reads("R0", Sent("left"), E, D)
             /\ Reads("R1", Sent("left"), L - A, C)
             /\ Reads("R2", Sent("left"), L - E, H - D)
             /\ Reads("R3", Sent("left"), A, H - C)
             /\ Reads("R0", Sent("right"), E, M + D)
             /\ Reads("R1", Sent("right"), L - A, M + C)
             /\ Reads("R2", Sent("right"), L - E, L - D)
             /\ Reads("R3", Sent("right"), A, L - C)
             /\ Reads("R0", Behind("up"), C - NGHOST, A)
             /\ Reads("R0", Behind("down"), N + C, A)
             /\ Reads("R0", Behind("left"), E, D - NGHOST)
             /\ Reads("R0", Behind("right"), E, N + D)
<1> DEFINE A == Row(n, NGHOST)
           C == Col(n, NGHOST)
           D == Row(n, N)
           E == Col(n, N)
<1>1. NGHOST * N = N * NGHOST /\ N \in Nat \ {0} /\ NGHOST \in Nat \ {0}
  BY GhostAssumption
<1>2. /\ A \in 0 .. N - 1 /\ C \in 0 .. NGHOST - 1
      /\ D \in 0 .. NGHOST - 1 /\ E \in 0 .. N - 1
  BY <1>1, RowCol
<1>3. ASSUME NEW x \in Box, Width2(x) = NGHOST, Width3(x) = N
      PROVE  /\ PackOrder("R0", x)[n] = <<x.sj + C, x.sk + A>>
             /\ PackOrder("R1", x)[n] = <<x.ej - D, x.sk + E>>
             /\ PackOrder("R2", x)[n] = <<x.ej - C, x.ek - A>>
             /\ PackOrder("R3", x)[n] = <<x.sj + D, x.ek - E>>
  BY <1>1, <1>3, PackOrderAt
<1>4. ASSUME NEW x \in Box, Width2(x) = N, Width3(x) = NGHOST
      PROVE  /\ PackOrder("R0", x)[n] = <<x.sj + E, x.sk + D>>
             /\ PackOrder("R1", x)[n] = <<x.ej - A, x.sk + C>>
             /\ PackOrder("R2", x)[n] = <<x.ej - E, x.ek - D>>
             /\ PackOrder("R3", x)[n] = <<x.sj + A, x.ek - C>>
  BY <1>1, <1>4, PackOrderAt
<1>5. \A x \in {Sent("up"), Sent("down"), Behind("up"), Behind("down")} :
        x \in Box /\ Width2(x) = NGHOST /\ Width3(x) = N
  BY <1>1 DEF Sent, Behind, Box, Width2, Width3
<1>6. \A x \in {Sent("left"), Sent("right"), Behind("left"), Behind("right")} :
        x \in Box /\ Width2(x) = N /\ Width3(x) = NGHOST
  BY <1>1 DEF Sent, Behind, Box, Width2, Width3
<1> HIDE DEF A, C, D, E
<1>7. /\ PackOrder("R0", Sent("up"))[n] = <<C, A>>
      /\ PackOrder("R1", Sent("up"))[n] = <<NGHOST - 1 - D, E>>
      /\ PackOrder("R2", Sent("up"))[n] = <<NGHOST - 1 - C, N - 1 - A>>
      /\ PackOrder("R3", Sent("up"))[n] = <<D, N - 1 - E>>
  BY <1>1, <1>2, <1>3, <1>5 DEF Sent
<1>8. /\ PackOrder("R0", Sent("down"))[n] = <<N - NGHOST + C, A>>
      /\ PackOrder("R1", Sent("down"))[n] = <<N - 1 - D, E>>
      /\ PackOrder("R2", Sent("down"))[n] = <<N - 1 - C, N - 1 - A>>
      /\ PackOrder("R3", Sent("down"))[n] = <<N - NGHOST + D, N - 1 - E>>
  BY <1>1, <1>2, <1>3, <1>5 DEF Sent
<1>9. /\ PackOrder("R0", Sent("left"))[n] = <<E, D>>
      /\ PackOrder("R1", Sent("left"))[n] = <<N - 1 - A, C>>
      /\ PackOrder("R2", Sent("left"))[n] = <<N - 1 - E, NGHOST - 1 - D>>
      /\ PackOrder("R3", Sent("left"))[n] = <<A, NGHOST - 1 - C>>
  BY <1>1, <1>2, <1>4, <1>6 DEF Sent
<1>10. /\ PackOrder("R0", Sent("right"))[n] = <<E, N - NGHOST + D>>
      /\ PackOrder("R1", Sent("right"))[n] = <<N - 1 - A, N - NGHOST + C>>
      /\ PackOrder("R2", Sent("right"))[n] = <<N - 1 - E, N - 1 - D>>
      /\ PackOrder("R3", Sent("right"))[n] = <<A, N - 1 - C>>
  BY <1>1, <1>2, <1>4, <1>6 DEF Sent
<1>11. /\ PackOrder("R0", Behind("up"))[n] = <<C - NGHOST, A>>
       /\ PackOrder("R0", Behind("down"))[n] = <<N + C, A>>
  BY <1>1, <1>2, <1>3, <1>5 DEF Behind
<1>12. /\ PackOrder("R0", Behind("left"))[n] = <<E, D - NGHOST>>
       /\ PackOrder("R0", Behind("right"))[n] = <<E, N + D>>
  BY <1>1, <1>2, <1>4, <1>6 DEF Behind
<1>13. QED BY <1>2, <1>7, <1>8, <1>9, <1>10, <1>11, <1>12 DEF A, C, D, E

\* How deep a cell lies below face s, or a ghost cell beyond face t, and
\* where along it.
Depth(s, c) == CASE s = "up"   -> c[1] [] s = "down"  -> N - 1 - c[1]
                 [] s = "left" -> c[2] [] s = "right" -> N - 1 - c[2]

Height(t, c) == CASE t = "up"   -> -1 - c[1] [] t = "down"  -> c[1] - N
                  [] t = "left" -> -1 - c[2] [] t = "right" -> c[2] - N

Index(s, c) == IF AlongX3(s) THEN c[2] ELSE c[1]

\* The face through which a border of a panel is seen from the other side.
Back(p, s) ==
  << <<"up", "up", "up", "up">>, <<"down", "up", "right", "left">>,
     <<"left", "left", "right", "left">>, <<"right", "right", "right", "left">>,
     <<"down", "down", "down", "down">>, <<"up", "down", "right", "left">>
  >>[p][Column(s)]

\* A cell of face s lies as deep as a ghost cell behind face t, and at the
\* same place along the border or (rev) at the mirrored one.
Fits(s, t, rev, c, g) ==
  /\ c \in Int \X Int /\ g \in Int \X Int
  /\ Depth(s, c) \in 0 .. NGHOST - 1 /\ Index(s, c) \in 0 .. N - 1
  /\ Height(t, g) = Depth(s, c)
  /\ Index(t, g) = IF rev THEN N - 1 - Index(s, c) ELSE Index(s, c)

\* The n-th value of face s in order r is for the n-th ghost cell behind t.
OrderMatches(s, t, r, rev, n) ==
  Fits(s, t, rev, PackOrder(r, Sent(s))[n], PackOrder("R0", Behind(t))[n])

\* The order that each pair of faces needs.
LEMMA OrdersMatch ==
  ASSUME NEW n \in 1 .. N * NGHOST
  PROVE  /\ OrderMatches("up", "up", "R2", TRUE, n)
         /\ OrderMatches("up", "down", "R0", FALSE, n)
         /\ OrderMatches("up", "left", "R1", FALSE, n)
         /\ OrderMatches("up", "right", "R3", TRUE, n)
         /\ OrderMatches("down", "up", "R0", FALSE, n)
         /\ OrderMatches("down", "down", "R2", TRUE, n)
         /\ OrderMatches("down", "left", "R3", TRUE, n)
         /\ OrderMatches("down", "right", "R1", FALSE, n)
         /\ OrderMatches("left", "right", "R0", FALSE, n)
         /\ OrderMatches("left", "up", "R3", FALSE, n)
         /\ OrderMatches("left", "down", "R1", TRUE, n)
         /\ OrderMatches("right", "left", "R0", FALSE, n)
         /\ OrderMatches("right", "up", "R1", TRUE, n)
         /\ OrderMatches("right", "down", "R3", FALSE, n)
<1> DEFINE A == Row(n, NGHOST)
           C == Col(n, NGHOST)
           D == Row(n, N)
           E == Col(n, N)
<1>1. N \in Nat \ {0} /\ NGHOST \in Nat \ {0} BY GhostAssumption
<1>2. /\ A \in 0 .. N - 1 /\ C \in 0 .. NGHOST - 1
      /\ D \in 0 .. NGHOST - 1 /\ E \in 0 .. N - 1
  BY CellsAt
<1>3. PackOrder("R0", Behind("up"))[n] = <<C - NGHOST, A>> BY CellsAt
<1>4. PackOrder("R0", Behind("down"))[n] = <<N + C, A>> BY CellsAt
<1>5. PackOrder("R0", Behind("left"))[n] = <<E, D - NGHOST>> BY CellsAt
<1>6. PackOrder("R0", Behind("right"))[n] = <<E, N + D>> BY CellsAt
<1>7. OrderMatches("up", "up", "R2", TRUE, n)
  <2>1. PackOrder("R2", Sent("up"))[n] = <<NGHOST - 1 - C, N - 1 - A>> BY CellsAt
  <2> HIDE DEF A, C, D, E
  <2>2. Fits("up", "up", TRUE, <<NGHOST - 1 - C, N - 1 - A>>, <<C - NGHOST, A>>)
    BY <1>1, <1>2 DEF Fits, Depth, Height, Index, AlongX3
  <2>3. QED BY <1>3, <2>1, <2>2 DEF OrderMatches
<1>8. OrderMatches("up", "down", "R0", FALSE, n)
  <2>1. PackOrder("R0", Sent("up"))[n] = <<C, A>> BY CellsAt
  <2> HIDE DEF A, C, D, E
  <2>2. Fits("up", "down", FALSE, <<C, A>>, <<N + C, A>>)
    BY <1>1, <1>2 DEF Fits, Depth, Height, Index, AlongX3
  <2>3. QED BY <1>4, <2>1, <2>2 DEF OrderMatches
<1>9. OrderMatches("up", "left", "R1", FALSE, n)
  <2>1. PackOrder("R1", Sent("up"))[n] = <<NGHOST - 1 - D, E>> BY CellsAt
  <2> HIDE DEF A, C, D, E
  <2>2. Fits("up", "left", FALSE, <<NGHOST - 1 - D, E>>, <<E, D - NGHOST>>)
    BY <1>1, <1>2 DEF Fits, Depth, Height, Index, AlongX3
  <2>3. QED BY <1>5, <2>1, <2>2 DEF OrderMatches
<1>10. OrderMatches("up", "right", "R3", TRUE, n)
  <2>1. PackOrder("R3", Sent("up"))[n] = <<D, N - 1 - E>> BY CellsAt
  <2> HIDE DEF A, C, D, E
  <2>2. Fits("up", "right", TRUE, <<D, N - 1 - E>>, <<E, N + D>>)
    BY <1>1, <1>2 DEF Fits, Depth, Height, Index, AlongX3
  <2>3. QED BY <1>6, <2>1, <2>2 DEF OrderMatches
<1>11. OrderMatches("down", "up", "R0", FALSE, n)
  <2>1. PackOrder("R0", Sent("down"))[n] = <<N - NGHOST + C, A>> BY CellsAt
  <2> HIDE DEF A, C, D, E
  <2>2. Fits("down", "up", FALSE, <<N - NGHOST + C, A>>, <<C - NGHOST, A>>)
    BY <1>1, <1>2 DEF Fits, Depth, Height, Index, AlongX3
  <2>3. QED BY <1>3, <2>1, <2>2 DEF OrderMatches
<1>12. OrderMatches("down", "down", "R2", TRUE, n)
  <2>1. PackOrder("R2", Sent("down"))[n] = <<N - 1 - C, N - 1 - A>> BY CellsAt
  <2> HIDE DEF A, C, D, E
  <2>2. Fits("down", "down", TRUE, <<N - 1 - C, N - 1 - A>>, <<N + C, A>>)
    BY <1>1, <1>2 DEF Fits, Depth, Height, Index, AlongX3
  <2>3. QED BY <1>4, <2>1, <2>2 DEF OrderMatches
<1>13. OrderMatches("down", "left", "R3", TRUE, n)
  <2>1. PackOrder("R3", Sent("down"))[n] = <<N - NGHOST + D, N - 1 - E>> BY CellsAt
  <2> HIDE DEF A, C, D, E
  <2>2. Fits("down", "left", TRUE, <<N - NGHOST + D, N - 1 - E>>, <<E, D - NGHOST>>)
    BY <1>1, <1>2 DEF Fits, Depth, Height, Index, AlongX3
  <2>3. QED BY <1>5, <2>1, <2>2 DEF OrderMatches
<1>14. OrderMatches("down", "right", "R1", FALSE, n)
  <2>1. PackOrder("R1", Sent("down"))[n] = <<N - 1 - D, E>> BY CellsAt
  <2> HIDE DEF A, C, D, E
  <2>2. Fits("down", "right", FALSE, <<N - 1 - D, E>>, <<E, N + D>>)
    BY <1>1, <1>2 DEF Fits, Depth, Height, Index, AlongX3
  <2>3. QED BY <1>6, <2>1, <2>2 DEF OrderMatches
<1>15. OrderMatches("left", "right", "R0", FALSE, n)
  <2>1. PackOrder("R0", Sent("left"))[n] = <<E, D>> BY CellsAt
  <2> HIDE DEF A, C, D, E
  <2>2. Fits("left", "right", FALSE, <<E, D>>, <<E, N + D>>)
    BY <1>1, <1>2 DEF Fits, Depth, Height, Index, AlongX3
  <2>3. QED BY <1>6, <2>1, <2>2 DEF OrderMatches
<1>16. OrderMatches("left", "up", "R3", FALSE, n)
  <2>1. PackOrder("R3", Sent("left"))[n] = <<A, NGHOST - 1 - C>> BY CellsAt
  <2> HIDE DEF A, C, D, E
  <2>2. Fits("left", "up", FALSE, <<A, NGHOST - 1 - C>>, <<C - NGHOST, A>>)
    BY <1>1, <1>2 DEF Fits, Depth, Height, Index, AlongX3
  <2>3. QED BY <1>3, <2>1, <2>2 DEF OrderMatches
<1>17. OrderMatches("left", "down", "R1", TRUE, n)
  <2>1. PackOrder("R1", Sent("left"))[n] = <<N - 1 - A, C>> BY CellsAt
  <2> HIDE DEF A, C, D, E
  <2>2. Fits("left", "down", TRUE, <<N - 1 - A, C>>, <<N + C, A>>)
    BY <1>1, <1>2 DEF Fits, Depth, Height, Index, AlongX3
  <2>3. QED BY <1>4, <2>1, <2>2 DEF OrderMatches
<1>18. OrderMatches("right", "left", "R0", FALSE, n)
  <2>1. PackOrder("R0", Sent("right"))[n] = <<E, N - NGHOST + D>> BY CellsAt
  <2> HIDE DEF A, C, D, E
  <2>2. Fits("right", "left", FALSE, <<E, N - NGHOST + D>>, <<E, D - NGHOST>>)
    BY <1>1, <1>2 DEF Fits, Depth, Height, Index, AlongX3
  <2>3. QED BY <1>5, <2>1, <2>2 DEF OrderMatches
<1>19. OrderMatches("right", "up", "R1", TRUE, n)
  <2>1. PackOrder("R1", Sent("right"))[n] = <<N - 1 - A, N - NGHOST + C>> BY CellsAt
  <2> HIDE DEF A, C, D, E
  <2>2. Fits("right", "up", TRUE, <<N - 1 - A, N - NGHOST + C>>, <<C - NGHOST, A>>)
    BY <1>1, <1>2 DEF Fits, Depth, Height, Index, AlongX3
  <2>3. QED BY <1>3, <2>1, <2>2 DEF OrderMatches
<1>20. OrderMatches("right", "down", "R3", FALSE, n)
  <2>1. PackOrder("R3", Sent("right"))[n] = <<A, N - 1 - C>> BY CellsAt
  <2> HIDE DEF A, C, D, E
  <2>2. Fits("right", "down", FALSE, <<A, N - 1 - C>>, <<N + C, A>>)
    BY <1>1, <1>2 DEF Fits, Depth, Height, Index, AlongX3
  <2>3. QED BY <1>4, <2>1, <2>2 DEF OrderMatches
<1>21. QED BY ONLY <1>7, <1>8, <1>9, <1>10, <1>11, <1>12, <1>13,
               <1>14, <1>15, <1>16, <1>17, <1>18, <1>19, <1>20

\* The table BorderOrder has the order that the two faces of a border need.
LEMMA BordersOrdered ==
  ASSUME NEW p \in Panel, NEW s \in Side, NEW n \in 1 .. N * NGHOST
  PROVE  OrderMatches(s, Back(p, s), BorderOrder(p, s), dinv(p, s), n)
<1>1. CASE s = "up"
  <2>1. CASE p = 1
    <3>1. /\ Back(1, "up") = "up" /\ BorderOrder(1, "up") = "R2"
          /\ dinv(1, "up") = TRUE
      BY DEF Back, BorderOrder, dinv, Column
    <3>2. QED BY ONLY <1>1, <2>1, <3>1, OrdersMatch, n \in 1 .. N * NGHOST
  <2>2. CASE p = 2
    <3>1. /\ Back(2, "up") = "down" /\ BorderOrder(2, "up") = "R0"
          /\ dinv(2, "up") = FALSE
      BY DEF Back, BorderOrder, dinv, Column
    <3>2. QED BY ONLY <1>1, <2>2, <3>1, OrdersMatch, n \in 1 .. N * NGHOST
  <2>3. CASE p = 3
    <3>1. /\ Back(3, "up") = "left" /\ BorderOrder(3, "up") = "R1"
          /\ dinv(3, "up") = FALSE
      BY DEF Back, BorderOrder, dinv, Column
    <3>2. QED BY ONLY <1>1, <2>3, <3>1, OrdersMatch, n \in 1 .. N * NGHOST
  <2>4. CASE p = 4
    <3>1. /\ Back(4, "up") = "right" /\ BorderOrder(4, "up") = "R3"
          /\ dinv(4, "up") = TRUE
      BY DEF Back, BorderOrder, dinv, Column
    <3>2. QED BY ONLY <1>1, <2>4, <3>1, OrdersMatch, n \in 1 .. N * NGHOST
  <2>5. CASE p = 5
    <3>1. /\ Back(5, "up") = "down" /\ BorderOrder(5, "up") = "R0"
          /\ dinv(5, "up") = FALSE
      BY DEF Back, BorderOrder, dinv, Column
    <3>2. QED BY ONLY <1>1, <2>5, <3>1, OrdersMatch, n \in 1 .. N * NGHOST
  <2>6. CASE p = 6
    <3>1. /\ Back(6, "up") = "up" /\ BorderOrder(6, "up") = "R2"
          /\ dinv(6, "up") = TRUE
      BY DEF Back, BorderOrder, dinv, Column
    <3>2. QED BY ONLY <1>1, <2>6, <3>1, OrdersMatch, n \in 1 .. N * NGHOST
  <2>7. QED BY <2>1, <2>2, <2>3, <2>4, <2>5, <2>6 DEF Panel
<1>2. CASE s = "down"
  <2>1. CASE p = 1
    <3>1. /\ Back(1, "down") = "up" /\ BorderOrder(1, "down") = "R0"
          /\ dinv(1, "down") = FALSE
      BY DEF Back, BorderOrder, dinv, Column
    <3>2. QED BY ONLY <1>2, <2>1, <3>1, OrdersMatch, n \in 1 .. N * NGHOST
  <2>2. CASE p = 2
    <3>1. /\ Back(2, "down") = "up" /\ BorderOrder(2, "down") = "R0"
          /\ dinv(2, "down") = FALSE
      BY DEF Back, BorderOrder, dinv, Column
    <3>2. QED BY ONLY <1>2, <2>2, <3>1, OrdersMatch, n \in 1 .. N * NGHOST
  <2>3. CASE p = 3
    <3>1. /\ Back(3, "down") = "left" /\ BorderOrder(3, "down") = "R3"
          /\ dinv(3, "down") = TRUE
      BY DEF Back, BorderOrder, dinv, Column
    <3>2. QED BY ONLY <1>2, <2>3, <3>1, OrdersMatch, n \in 1 .. N * NGHOST
  <2>4. CASE p = 4
    <3>1. /\ Back(4, "down") = "right" /\ BorderOrder(4, "down") = "R1"
          /\ dinv(4, "down") = FALSE
      BY DEF Back, BorderOrder, dinv, Column
    <3>2. QED BY ONLY <1>2, <2>4, <3>1, OrdersMatch, n \in 1 .. N * NGHOST
  <2>5. CASE p = 5
    <3>1. /\ Back(5, "down") = "down" /\ BorderOrder(5, "down") = "R2"
          /\ dinv(5, "down") = TRUE
      BY DEF Back, BorderOrder, dinv, Column
    <3>2. QED BY ONLY <1>2, <2>5, <3>1, OrdersMatch, n \in 1 .. N * NGHOST
  <2>6. CASE p = 6
    <3>1. /\ Back(6, "down") = "down" /\ BorderOrder(6, "down") = "R2"
          /\ dinv(6, "down") = TRUE
      BY DEF Back, BorderOrder, dinv, Column
    <3>2. QED BY ONLY <1>2, <2>6, <3>1, OrdersMatch, n \in 1 .. N * NGHOST
  <2>7. QED BY <2>1, <2>2, <2>3, <2>4, <2>5, <2>6 DEF Panel
<1>3. CASE s = "left"
  <2>1. CASE p = 1
    <3>1. /\ Back(1, "left") = "up" /\ BorderOrder(1, "left") = "R3"
          /\ dinv(1, "left") = FALSE
      BY DEF Back, BorderOrder, dinv, Column
    <3>2. QED BY ONLY <1>3, <2>1, <3>1, OrdersMatch, n \in 1 .. N * NGHOST
  <2>2. CASE p = 2
    <3>1. /\ Back(2, "left") = "right" /\ BorderOrder(2, "left") = "R0"
          /\ dinv(2, "left") = FALSE
      BY DEF Back, BorderOrder, dinv, Column
    <3>2. QED BY ONLY <1>3, <2>2, <3>1, OrdersMatch, n \in 1 .. N * NGHOST
  <2>3. CASE p = 3
    <3>1. /\ Back(3, "left") = "right" /\ BorderOrder(3, "left") = "R0"
          /\ dinv(3, "left") = FALSE
      BY DEF Back, BorderOrder, dinv, Column
    <3>2. QED BY ONLY <1>3, <2>3, <3>1, OrdersMatch, n \in 1 .. N * NGHOST
  <2>4. CASE p = 4
    <3>1. /\ Back(4, "left") = "right" /\ BorderOrder(4, "left") = "R0"
          /\ dinv(4, "left") = FALSE
      BY DEF Back, BorderOrder, dinv, Column
    <3>2. QED BY ONLY <1>3, <2>4, <3>1, OrdersMatch, n \in 1 .. N * NGHOST
  <2>5. CASE p = 5
    <3>1. /\ Back(5, "left") = "down" /\ BorderOrder(5, "left") = "R1"
          /\ dinv(5, "left") = TRUE
      BY DEF Back, BorderOrder, dinv, Column
    <3>2. QED BY ONLY <1>3, <2>5, <3>1, OrdersMatch, n \in 1 .. N * NGHOST
  <2>6. CASE p = 6
    <3>1. /\ Back(6, "left") = "right" /\ BorderOrder(6, "left") = "R0"
          /\ dinv(6, "left") = FALSE
      BY DEF Back, BorderOrder, dinv, Column
    <3>2. QED BY ONLY <1>3, <2>6, <3>1, OrdersMatch, n \in 1 .. N * NGHOST
  <2>7. QED BY <2>1, <2>2, <2>3, <2>4, <2>5, <2>6 DEF Panel
<1>4. CASE s = "right"
  <2>1. CASE p = 1
    <3>1. /\ Back(1, "right") = "up" /\ BorderOrder(1, "right") = "R1"
          /\ dinv(1, "right") = TRUE
      BY DEF Back, BorderOrder, dinv, Column
    <3>2. QED BY ONLY <1>4, <2>1, <3>1, OrdersMatch, n \in 1 .. N * NGHOST
  <2>2. CASE p = 2
    <3>1. /\ Back(2, "right") = "left" /\ BorderOrder(2, "right") = "R0"
          /\ dinv(2, "right") = FALSE
      BY DEF Back, BorderOrder, dinv, Column
    <3>2. QED BY ONLY <1>4, <2>2, <3>1, OrdersMatch, n \in 1 .. N * NGHOST
  <2>3. CASE p = 3
    <3>1. /\ Back(3, "right") = "left" /\ BorderOrder(3, "right") = "R0"
          /\ dinv(3, "right") = FALSE
      BY DEF Back, BorderOrder, dinv, Column
    <3>2. QED BY ONLY <1>4, <2>3, <3>1, OrdersMatch, n \in 1 .. N * NGHOST
  <2>4. CASE p = 4
    <3>1. /\ Back(4, "right") = "left" /\ BorderOrder(4, "right") = "R0"
          /\ dinv(4, "right") = FALSE
      BY DEF Back, BorderOrder, dinv, Column
    <3>2. QED BY ONLY <1>4, <2>4, <3>1, OrdersMatch, n \in 1 .. N * NGHOST
  <2>5. CASE p = 5
    <3>1. /\ Back(5, "right") = "down" /\ BorderOrder(5, "right") = "R3"
          /\ dinv(5, "right") = FALSE
      BY DEF Back, BorderOrder, dinv, Column
    <3>2. QED BY ONLY <1>4, <2>5, <3>1, OrdersMatch, n \in 1 .. N * NGHOST
  <2>6. CASE p = 6
    <3>1. /\ Back(6, "right") = "left" /\ BorderOrder(6, "right") = "R0"
          /\ dinv(6, "right") = FALSE
      BY DEF Back, BorderOrder, dinv, Column
    <3>2. QED BY ONLY <1>4, <2>6, <3>1, OrdersMatch, n \in 1 .. N * NGHOST
  <2>7. QED BY <2>1, <2>2, <2>3, <2>4, <2>5, <2>6 DEF Panel
<1>5. QED BY <1>1, <1>2, <1>3, <1>4 DEF Side

-----------------------------------------------------------------------------
(* Positions on the two sides of a border.                                  *)
LEMMA Angles ==
  ASSUME NEW l \in 0 .. B - 1, NEW i \in Int
  PROVE  /\ B * N \in Int /\ Angle(l, i) \in Int
         /\ Angle(bound_lim - l, N - 1 - i) = - Angle(l, i)
         /\ Angle(0, i) = 2 * i + 1 - B * N
         /\ Angle(bound_lim, i) = 2 * i + 1 + B * N - 2 * N
<1> USE BAssumption, GhostAssumption
<1>1. B * N \in Int /\ l * N \in Int /\ 0 * N = 0 OBVIOUS
<1>2. (B - 1 - l) * N = B * N - N - l * N /\ (B - 1) * N = B * N - N OBVIOUS
<1>3. QED BY <1>1, <1>2 DEF Angle, bound_lim

\* BorderPoint of a block of panel p.
PointAt(p, s, along) ==
  LET edge == IF s \in {"up", "left"} THEN -B * N ELSE B * N
  IN  IF AlongX3(s) THEN SurfacePoint(p, edge, along, B * N)
                    ELSE SurfacePoint(p, along, edge, B * N)

\* The border beyond face s of the block at l2, l3 of panel p is the one the
\* tables take it for: the panel, the angle at the place along it and at the
\* ghost cells of a height, and whether the coordinates change places.
PlaceMatches(p, l2, l3, s, depth, i) ==
  LET r      == Step(p, l2, l3, s)
      t      == r.back
      along  == Angle(IF AlongX3(s) THEN l3 ELSE l2, i)
      turned == IF dinv(p, s) THEN -along ELSE along
      ahead  == IF dinv(p, s) THEN N - 1 - i ELSE i
      cell   == IF t \in {"up", "left"} THEN -1 - depth ELSE N + depth
  IN  /\ t = Back(p, s) /\ r.panel = tgbid(p, s)
      /\ along \in Int /\ ahead \in 0 .. N - 1
      /\ Angle(IF AlongX3(t) THEN r.l3 ELSE r.l2, ahead) = turned
      /\ PointAt(p, s, along) = PointAt(r.panel, t, turned)
      /\ Angle(IF AlongX3(t) THEN r.l2 ELSE r.l3, cell) =
           tgside(p, s) * (2 * depth + 1 + B * N)
      /\ AlongX3(s) => (Swapped(p, tgbid(p, s)) <=> ~ AlongX3(t))

LEMMA BorderPlaces ==
  ASSUME NEW l \in 0 .. B - 1, NEW depth \in 0 .. NGHOST - 1, NEW i \in 0 .. N - 1
  PROVE  /\ PlaceMatches(1, 0, l, "up", depth, i)
         /\ PlaceMatches(1, bound_lim, l, "down", depth, i)
         /\ PlaceMatches(1, l, 0, "left", depth, i)
         /\ PlaceMatches(1, l, bound_lim, "right", depth, i)
         /\ PlaceMatches(2, 0, l, "up", depth, i)
         /\ PlaceMatches(2, bound_lim, l, "down", depth, i)
         /\ PlaceMatches(2, l, 0, "left", depth, i)
         /\ PlaceMatches(2, l, bound_lim, "right", depth, i)
         /\ PlaceMatches(3, 0, l, "up", depth, i)
         /\ PlaceMatches(3, bound_lim, l, "down", depth, i)
         /\ PlaceMatches(3, l, 0, "left", depth, i)
         /\ PlaceMatches(3, l, bound_lim, "right", depth, i)
         /\ PlaceMatches(4, 0, l, "up", depth, i)
         /\ PlaceMatches(4, bound_lim, l, "down", depth, i)
         /\ PlaceMatches(4, l, 0, "left", depth, i)
         /\ PlaceMatches(4, l, bound_lim, "right", depth, i)
         /\ PlaceMatches(5, 0, l, "up", depth, i)
         /\ PlaceMatches(5, bound_lim, l, "down", depth, i)
         /\ PlaceMatches(5, l, 0, "left", depth, i)
         /\ PlaceMatches(5, l, bound_lim, "right", depth, i)
         /\ PlaceMatches(6, 0, l, "up", depth, i)
         /\ PlaceMatches(6, bound_lim, l, "down", depth, i)
         /\ PlaceMatches(6, l, 0, "left", depth, i)
         /\ PlaceMatches(6, l, bound_lim, "right", depth, i)
<1> DEFINE K == B * N
           a == Angle(l, i)
           h == 2 * depth + 1
<1>1. N \in Nat \ {0} /\ depth \in Int /\ i \in Int /\ N + depth \in Int
      /\ -1 - depth \in Int /\ N - 1 - i \in 0 .. N - 1 /\ h \in Int /\ -B * N = -(B * N)
  BY BAssumption, GhostAssumption
<1>2. /\ K \in Int /\ a \in Int /\ h \in Int
      /\ Angle(l, i) = a /\ Angle(bound_lim - l, N - 1 - i) = -a
      /\ B * N = K /\ -B * N = -K /\ 2 * depth + 1 + B * N = h + K
      /\ Angle(0, -1 - depth) = - (h + K) /\ Angle(bound_lim, N + depth) = h + K
      /\ i \in 0 .. N - 1 /\ N - 1 - i \in 0 .. N - 1
  <2>1. /\ K \in Int /\ a \in Int /\ Angle(bound_lim - l, N - 1 - i) = -a
    BY <1>1, Angles
  <2>2. /\ Angle(0, -1 - depth) = 2 * (-1 - depth) + 1 - K
        /\ Angle(bound_lim, N + depth) = 2 * (N + depth) + 1 + K - 2 * N
    BY <1>1, Angles
  <2> HIDE DEF K, a
  <2>3. /\ Angle(0, -1 - depth) = - (h + K) /\ Angle(bound_lim, N + depth) = h + K
    BY <1>1, <2>1, <2>2
  <2>4. QED BY <1>1, <2>1, <2>3 DEF K, a
<1> HIDE DEF K, a, h
<1> USE DEF PlaceMatches, PointAt, SurfacePoint, AlongX3, Back, Column, Place,
            dinv, tgbid, tgside, Swapped
<1>3. PlaceMatches(1, 0, l, "up", depth, i) BY <1>2, EdgeStep
<1>4. PlaceMatches(1, bound_lim, l, "down", depth, i) BY <1>2, EdgeStep
<1>5. PlaceMatches(1, l, 0, "left", depth, i) BY <1>2, EdgeStep
<1>6. PlaceMatches(1, l, bound_lim, "right", depth, i) BY <1>2, EdgeStep
<1>7. PlaceMatches(2, 0, l, "up", depth, i) BY <1>2, EdgeStep
<1>8. PlaceMatches(2, bound_lim, l, "down", depth, i) BY <1>2, EdgeStep
<1>9. PlaceMatches(2, l, 0, "left", depth, i) BY <1>2, EdgeStep
<1>10. PlaceMatches(2, l, bound_lim, "right", depth, i) BY <1>2, EdgeStep
<1>11. PlaceMatches(3, 0, l, "up", depth, i) BY <1>2, EdgeStep
<1>12. PlaceMatches(3, bound_lim, l, "down", depth, i) BY <1>2, EdgeStep
<1>13. PlaceMatches(3, l, 0, "left", depth, i) BY <1>2, EdgeStep
<1>14. PlaceMatches(3, l, bound_lim, "right", depth, i) BY <1>2, EdgeStep
<1>15. PlaceMatches(4, 0, l, "up", depth, i) BY <1>2, EdgeStep
<1>16. PlaceMatches(4, bound_lim, l, "down", depth, i) BY <1>2, EdgeStep
<1>17. PlaceMatches(4, l, 0, "left", depth, i) BY <1>2, EdgeStep
<1>18. PlaceMatches(4, l, bound_lim, "right", depth, i) BY <1>2, EdgeStep
<1>19. PlaceMatches(5, 0, l, "up", depth, i) BY <1>2, EdgeStep
<1>20. PlaceMatches(5, bound_lim, l, "down", depth, i) BY <1>2, EdgeStep
<1>21. PlaceMatches(5, l, 0, "left", depth, i) BY <1>2, EdgeStep
<1>22. PlaceMatches(5, l, bound_lim, "right", depth, i) BY <1>2, EdgeStep
<1>23. PlaceMatches(6, 0, l, "up", depth, i) BY <1>2, EdgeStep
<1>24. PlaceMatches(6, bound_lim, l, "down", depth, i) BY <1>2, EdgeStep
<1>25. PlaceMatches(6, l, 0, "left", depth, i) BY <1>2, EdgeStep
<1>26. PlaceMatches(6, l, bound_lim, "right", depth, i) BY <1>2, EdgeStep
<1>27. QED BY ONLY <1>3, <1>4, <1>5, <1>6, <1>7, <1>8, <1>9, <1>10,
               <1>11, <1>12, <1>13, <1>14, <1>15, <1>16, <1>17, <1>18,
               <1>19, <1>20, <1>21, <1>22, <1>23, <1>24, <1>25, <1>26

LEMMA EdgePlaces ==
  ASSUME NEW p \in Panel, NEW l2 \in 0 .. B - 1, NEW l3 \in 0 .. B - 1,
         NEW s \in Side, OnEdge(l2, l3, s),
         NEW depth \in 0 .. NGHOST - 1, NEW i \in 0 .. N - 1
  PROVE  PlaceMatches(p, l2, l3, s, depth, i)
<1>1. CASE s = "up"    BY <1>1, BorderPlaces DEF OnEdge, Panel
<1>2. CASE s = "down"  BY <1>2, BorderPlaces DEF OnEdge, Panel
<1>3. CASE s = "left"  BY <1>3, BorderPlaces DEF OnEdge, Panel
<1>4. CASE s = "right" BY <1>4, BorderPlaces DEF OnEdge, Panel
<1>5. QED BY <1>1, <1>2, <1>3, <1>4 DEF Side

-----------------------------------------------------------------------------
(* What is in the ghost cells.                                              *)
LEMMA Boxes ==
  ASSUME NEW s \in Side
  PROVE  /\ \A r \in {"R0", "R1", "R2", "R3"} :
              DOMAIN PackOrder(r, Sent(s)) = 1 .. N * NGHOST
         /\ DOMAIN PackOrder("R0", Behind(s)) = 1 .. N * NGHOST
<1>1. N \in Nat \ {0} /\ NGHOST \in Nat \ {0} /\ NGHOST * N = N * NGHOST
  BY GhostAssumption
<1>2. CASE s \in {"up", "down"}
  <2>1. \A x \in {Sent(s), Behind(s)} :
          x \in Box /\ Width2(x) = NGHOST /\ Width3(x) = N
    BY <1>1, <1>2 DEF Sent, Behind, Box, Width2, Width3
  <2>2. QED BY <1>1, <2>1, PackOrderAt
<1>3. CASE s \in {"left", "right"}
  <2>1. \A x \in {Sent(s), Behind(s)} :
          x \in Box /\ Width2(x) = N /\ Width3(x) = NGHOST
    BY <1>1, <1>3 DEF Sent, Behind, Box, Width2, Width3
  <2>2. QED BY <1>1, <2>1, PackOrderAt
<1>4. QED BY <1>2, <1>3 DEF Side

\* The receiver finds in a ghost cell what was put in its place of the buffer.
LEMMA Unpacked ==
  ASSUME NEW s \in Side, NEW values, NEW c \in DOMAIN UnpackData(s, values)
  PROVE  \E n \in 1 .. N * NGHOST :
           /\ PackOrder("R0", Behind(s))[n] = c
           /\ UnpackData(s, values)[c] = values[n]
<1> DEFINE cells == PackOrder("R0", Behind(s))
           m == CHOOSE n \in DOMAIN cells : cells[n] = c
<1>1. DOMAIN cells = 1 .. N * NGHOST BY Boxes
<1>2. UnpackData(s, values) =
        [d \in {cells[n] : n \in DOMAIN cells} |->
          values[CHOOSE n \in DOMAIN cells : cells[n] = d]]
  BY DEF UnpackData
<1> HIDE DEF cells
<1>3. c \in {cells[n] : n \in DOMAIN cells} BY <1>2
<1>4. m \in DOMAIN cells /\ cells[m] = c BY <1>3
<1>5. UnpackData(s, values)[c] = values[m] BY <1>2, <1>3
<1>6. QED BY <1>1, <1>4, <1>5 DEF cells

LEMMA OrderOfBorder ==
  ASSUME NEW p \in Panel, NEW s \in Side
  PROVE  BorderOrder(p, s) \in {"R0", "R1", "R2", "R3"}
BY DEF BorderOrder, Column, Panel, Side

LEMMA Packed ==
  ASSUME NEW l \in Location, NEW s \in Side, NEW n \in 1 .. N * NGHOST
  PROVE  /\ AtPanelEdge(l, s) =>
              LET x == PackOrder(BorderOrder(FindBlockID(l), s), Sent(s))[n]
              IN  PackData(l, s)[n] = Interpolated(l, s, x[1], x[2])
         /\ ~ AtPanelEdge(l, s) =>
              LET x == PackOrder("R0", Sent(s))[n]
              IN  PackData(l, s)[n] = Copied(l, x[1], x[2])
<1> DEFINE r == IF AtPanelEdge(l, s) THEN BorderOrder(FindBlockID(l), s) ELSE "R0"
           cells == PackOrder(r, Sent(s))
<1>1. FindBlockID(l) \in Panel BY LocationIsAt, IndexOfAt
<1>2. r \in {"R0", "R1", "R2", "R3"} BY <1>1, OrderOfBorder
<1>3. PackData(l, s) = [m \in DOMAIN cells |->
        IF AtPanelEdge(l, s) THEN Interpolated(l, s, cells[m][1], cells[m][2])
                             ELSE Copied(l, cells[m][1], cells[m][2])]
  BY DEF PackData
<1>4. DOMAIN cells = 1 .. N * NGHOST
  <2> HIDE DEF r
  <2>1. QED BY <1>2, Boxes
<1> HIDE DEF cells
<1>5. PackData(l, s)[n] = IF AtPanelEdge(l, s)
                          THEN Interpolated(l, s, cells[n][1], cells[n][2])
                          ELSE Copied(l, cells[n][1], cells[n][2])
  BY <1>3, <1>4
<1>6. QED BY <1>5 DEF cells

\* The comparison in Layer tells the two ends of a block apart.
LEMMA LayerIs ==
  ASSUME NEW s \in Side, NEW x \in Int \X Int
  PROVE  Layer(s, x[1], x[2]) =
           [now |-> Depth(s, x), side |-> IF s \in {"up", "left"} THEN -1 ELSE 1]
<1>1. PICK j \in Int, k \in Int : x = <<j, k>> OBVIOUS
<1> USE GhostAssumption DEF Layer, Sent, Depth, AlongX3
<1>2. CASE s = "up"    BY <1>1, <1>2
<1>3. CASE s = "down"  BY <1>1, <1>3
<1>4. CASE s = "left"  BY <1>1, <1>4
<1>5. CASE s = "right" BY <1>1, <1>5
<1>6. QED BY <1>2, <1>3, <1>4, <1>5 DEF Side

-----------------------------------------------------------------------------
(* The exchange of a buffer.                                                *)
IInv ==
  /\ loc \in Location /\ side \in Side
  /\ phase \in {"ready", "sent", "set"}
  /\ phase = "sent" => buf = PackData(loc, side)
  /\ phase = "set" => ghost = UnpackData(toSide, PackData(loc, side))

(* In every behaviour the buffer and then the ghost cells hold what is      *)
(* packed for the face.                                                     *)
THEOREM GhostInvariant == Spec => []IInv
<1>1. Init => IInv BY DEF Init, IInv
<1>2. IInv /\ [Next]_vars => IInv'
  <2> SUFFICES ASSUME IInv, [Next]_vars PROVE IInv'
    OBVIOUS
  <2>1. CASE Load BY <2>1 DEF Load, IInv
  <2>2. CASE SetBoundary BY <2>2 DEF SetBoundary, IInv, toSide
  <2>3. CASE Exchanged BY <2>3 DEF Exchanged, IInv, vars, toSide
  <2>4. CASE UNCHANGED vars BY <2>4 DEF IInv, vars, toSide
  <2>5. QED BY <2>1, <2>2, <2>3, <2>4 DEF Next
<1>3. QED BY <1>1, <1>2, PTL DEF Spec

\* A ghost cell of a finished exchange has the value of its place in the buffer.
LEMMA GhostIsPacked ==
  ASSUME IInv, phase = "set", NEW c \in DOMAIN ghost
  PROVE  /\ toSide \in Side
         /\ \E n \in 1 .. N * NGHOST :
              /\ PackOrder("R0", Behind(toSide))[n] = c
              /\ ghost[c] = PackData(loc, side)[n]
<1>1. loc \in Location /\ side \in Side
      /\ ghost = UnpackData(toSide, PackData(loc, side))
  BY DEF IInv
<1>2. toSide \in Side BY <1>1, NeighborInvolution DEF toSide
<1>3. QED BY <1>1, <1>2, Unpacked

\* What a border ghost cell has, by the panel and place of the sender.
LEMMA BorderGhost ==
  ASSUME IInv, phase = "set", AtPanelEdge(loc, side), NEW c \in DOMAIN ghost
  PROVE  \E p \in Panel, l2, l3 \in 0 .. B - 1, x \in Int \X Int :
           LET r == Step(p, l2, l3, side)
           IN  /\ loc = At(p, l2, l3) /\ OnEdge(l2, l3, side)
               /\ to = At(r.panel, r.l2, r.l3) /\ toSide = r.back
               /\ Fits(side, toSide, dinv(p, side), x, c)
               /\ PlaceMatches(p, l2, l3, side, Depth(side, x), Index(side, x))
               /\ ghost[c] = Interpolated(loc, side, x[1], x[2])
<1>1. loc \in Location /\ side \in Side BY DEF IInv
<1>2. PICK p \in Panel, l2 \in 0 .. B - 1, l3 \in 0 .. B - 1 : loc = At(p, l2, l3)
  BY <1>1, LocationIsAt
<1> DEFINE r == Step(p, l2, l3, side)
<1>3. /\ FindBlockID(loc) = p /\ GetLocalIndex(loc).local_lx2 = l2
      /\ GetLocalIndex(loc).local_lx3 = l3
  BY <1>2, IndexOfAt
<1>4. OnEdge(l2, l3, side) BY <1>3 DEF AtPanelEdge, OnEdge
<1>5. to = At(r.panel, r.l2, r.l3) /\ toSide = r.back
  BY <1>1, <1>2, NeighborIsStep DEF to, toSide
<1>6. PICK n \in 1 .. N * NGHOST : /\ PackOrder("R0", Behind(toSide))[n] = c
                                  /\ ghost[c] = PackData(loc, side)[n]
  BY GhostIsPacked
<1> DEFINE x == PackOrder(BorderOrder(p, side), Sent(side))[n]
<1>7. ghost[c] = Interpolated(loc, side, x[1], x[2])
  BY <1>1, <1>3, <1>6, Packed
<1>8. OrderMatches(side, Back(p, side), BorderOrder(p, side), dinv(p, side), n)
  BY <1>1, BordersOrdered
<1> HIDE DEF r
<1>9. toSide = Back(p, side)
  <2>1. 0 \in 0 .. NGHOST - 1 /\ 0 \in 0 .. N - 1 BY GhostAssumption
  <2>2. PlaceMatches(p, l2, l3, side, 0, 0) BY <1>1, <1>4, <2>1, EdgePlaces
  <2>3. QED BY <1>5, <2>2 DEF PlaceMatches, r
<1>10. Fits(side, toSide, dinv(p, side), x, c)
  BY <1>6, <1>8, <1>9 DEF OrderMatches
<1> HIDE DEF x
<1>11. /\ x \in Int \X Int /\ Depth(side, x) \in 0 .. NGHOST - 1
       /\ Index(side, x) \in 0 .. N - 1
  BY <1>10 DEF Fits
<1>12. PlaceMatches(p, l2, l3, side, Depth(side, x), Index(side, x))
  BY <1>1, <1>4, <1>11, EdgePlaces
<1>13. QED BY <1>2, <1>4, <1>5, <1>7, <1>10, <1>11, <1>12 DEF r

(* Behind every border of a panel, the ghost cells get values of the layer  *)
(* and for the place they stand for: the tables of the sender agree with    *)
(* the order in which the receiver unpacks.                                 *)
THEOREM GhostsRight == Spec => []GhostsMatch
<1>1. IInv => GhostsMatch
  <2> SUFFICES ASSUME IInv, phase = "set", AtPanelEdge(loc, side),
                      NEW c \in DOMAIN ghost
               PROVE  LET v == ghost[c]
                          i == GetLocalIndex(loc)
                      IN  /\ v.depth = GhostDepth(c)
                          /\ BorderPoint(loc, side, v.along) = BorderPoint(to, toSide, GhostAlong(c))
                          /\ v.panel = FindBlockID(to)
                          /\ v.across = CASE side = "up"    -> Angle(i.local_lx2, v.depth)
                                          [] side = "down"  -> Angle(i.local_lx2, N - 1 - v.depth)
                                          [] side = "left"  -> Angle(i.local_lx3, v.depth)
                                          [] side = "right" -> Angle(i.local_lx3, N - 1 - v.depth)
    BY DEF GhostsMatch
  <2>1. PICK p \in Panel, l2 \in 0 .. B - 1, l3 \in 0 .. B - 1, x \in Int \X Int :
          LET r == Step(p, l2, l3, side)
          IN  /\ loc = At(p, l2, l3) /\ OnEdge(l2, l3, side)
              /\ to = At(r.panel, r.l2, r.l3) /\ toSide = r.back
              /\ Fits(side, toSide, dinv(p, side), x, c)
              /\ PlaceMatches(p, l2, l3, side, Depth(side, x), Index(side, x))
              /\ ghost[c] = Interpolated(loc, side, x[1], x[2])
    BY BorderGhost
  <2> DEFINE r == Step(p, l2, l3, side)
             v == ghost[c]
             depth == Depth(side, x)
             along == Angle(IF AlongX3(side) THEN l3 ELSE l2, Index(side, x))
             turned == IF dinv(p, side) THEN -along ELSE along
  <2>2. side \in Side BY DEF IInv
  <2>3. r.panel \in Panel /\ r.l2 \in 0 .. B - 1 /\ r.l3 \in 0 .. B - 1 /\ r.back \in Side
    BY <2>2, StepType
  <2>4. /\ FindBlockID(loc) = p /\ GetLocalIndex(loc).local_lx2 = l2
        /\ GetLocalIndex(loc).local_lx3 = l3
    BY <2>1, IndexOfAt
  <2>5. /\ FindBlockID(to) = r.panel /\ GetLocalIndex(to).local_lx2 = r.l2
        /\ GetLocalIndex(to).local_lx3 = r.l3
    BY <2>1, <2>3, IndexOfAt
  <2>6. Layer(side, x[1], x[2]) =
          [now |-> depth, side |-> IF side \in {"up", "left"} THEN -1 ELSE 1]
    BY <2>2, LayerIs
  <2>7. /\ v.depth = depth /\ v.along = along /\ v.panel = tgbid(p, side)
        /\ v.across = (IF side \in {"up", "left"} THEN -1 ELSE 1) * (B * N - (2 * depth + 1))
    BY <2>1, <2>4, <2>6 DEF Interpolated, Index
  <2>8. depth \in 0 .. NGHOST - 1 /\ Height(toSide, c) = depth
        /\ Index(toSide, c) = IF dinv(p, side) THEN N - 1 - Index(side, x) ELSE Index(side, x)
    BY <2>1 DEF Fits
  <2>9. GhostDepth(c) = Height(toSide, c) BY DEF GhostDepth, Height
  <2>10. /\ toSide = r.back /\ r.panel = tgbid(p, side)
         /\ Angle(IF AlongX3(toSide) THEN r.l3 ELSE r.l2, Index(toSide, c)) = turned
         /\ PointAt(p, side, along) = PointAt(r.panel, toSide, turned)
    BY <2>1, <2>8 DEF PlaceMatches
  <2>11. GhostAlong(c) = turned BY <2>5, <2>10 DEF GhostAlong, Index
  <2>12. /\ BorderPoint(loc, side, along) = PointAt(p, side, along)
         /\ BorderPoint(to, toSide, turned) = PointAt(r.panel, toSide, turned)
    BY <2>4, <2>5 DEF BorderPoint, PointAt
  <2>13. v.across = CASE side = "up"    -> Angle(l2, depth)
                      [] side = "down"  -> Angle(l2, N - 1 - depth)
                      [] side = "left"  -> Angle(l3, depth)
                      [] side = "right" -> Angle(l3, N - 1 - depth)
    <3>1. 0 \in 0 .. B - 1 /\ depth \in Int /\ N - 1 - depth \in Int /\ N \in Int
      BY <2>8, BAssumption, GhostAssumption
    <3>2. /\ B * N \in Int /\ Angle(0, depth) = 2 * depth + 1 - B * N
          /\ Angle(bound_lim, N - 1 - depth) = 2 * (N - 1 - depth) + 1 + B * N - 2 * N
      BY <3>1, Angles
    <3> HIDE DEF depth, v
    <3>3. /\ Angle(0, depth) = (-1) * (B * N - (2 * depth + 1))
          /\ Angle(bound_lim, N - 1 - depth) = 1 * (B * N - (2 * depth + 1))
      BY <3>1, <3>2
    <3>4. OnEdge(l2, l3, side) BY <2>1
    <3>5. CASE side = "up"
      <4>1. v.across = (-1) * (B * N - (2 * depth + 1)) BY <2>7, <3>5
      <4>2. l2 = 0 BY <3>4, <3>5 DEF OnEdge
      <4>3. QED BY <3>3, <3>5, <4>1, <4>2
    <3>6. CASE side = "down"
      <4>1. v.across = 1 * (B * N - (2 * depth + 1)) BY <2>7, <3>6
      <4>2. l2 = bound_lim BY <3>4, <3>6 DEF OnEdge
      <4>3. QED BY <3>3, <3>6, <4>1, <4>2
    <3>7. CASE side = "left"
      <4>1. v.across = (-1) * (B * N - (2 * depth + 1)) BY <2>7, <3>7
      <4>2. l3 = 0 BY <3>4, <3>7 DEF OnEdge
      <4>3. QED BY <3>3, <3>7, <4>1, <4>2
    <3>8. CASE side = "right"
      <4>1. v.across = 1 * (B * N - (2 * depth + 1)) BY <2>7, <3>8
      <4>2. l3 = bound_lim BY <3>4, <3>8 DEF OnEdge
      <4>3. QED BY <3>3, <3>8, <4>1, <4>2
    <3>9. QED BY <2>2, <3>5, <3>6, <3>7, <3>8 DEF Side
  <2>14. QED BY <2>4, <2>5, <2>7, <2>8, <2>9, <2>10, <2>11, <2>12, <2>13
<1>2. QED BY <1>1, GhostInvariant, PTL

(* Where sender and receiver work along the same coordinate, and where      *)
(* InteprolateX3 swaps them, velocities are on the basis of the ghost cell. *)
THEOREM BasisRight == Spec => []BasisUnlessTurned
<1>1. IInv => BasisUnlessTurned
  <2> SUFFICES ASSUME IInv, phase = "set", AtPanelEdge(loc, side), ~ TurnedByX2,
                      NEW c \in DOMAIN ghost
               PROVE  ghost[c].basis = GhostPlace(c)
    BY DEF BasisUnlessTurned
  <2>1. PICK p \in Panel, l2 \in 0 .. B - 1, l3 \in 0 .. B - 1, x \in Int \X Int :
          LET r == Step(p, l2, l3, side)
          IN  /\ loc = At(p, l2, l3) /\ OnEdge(l2, l3, side)
              /\ to = At(r.panel, r.l2, r.l3) /\ toSide = r.back
              /\ Fits(side, toSide, dinv(p, side), x, c)
              /\ PlaceMatches(p, l2, l3, side, Depth(side, x), Index(side, x))
              /\ ghost[c] = Interpolated(loc, side, x[1], x[2])
    BY BorderGhost
  <2> DEFINE r == Step(p, l2, l3, side)
             depth == Depth(side, x)
             along == Angle(IF AlongX3(side) THEN l3 ELSE l2, Index(side, x))
             turned == IF dinv(p, side) THEN -along ELSE along
             beyond == tgside(p, side) * (2 * depth + 1 + B * N)
             cell == IF toSide \in {"up", "left"} THEN -1 - depth ELSE N + depth
  <2>2. side \in Side BY DEF IInv
  <2>3. r.panel \in Panel /\ r.l2 \in 0 .. B - 1 /\ r.l3 \in 0 .. B - 1 /\ r.back \in Side
    BY <2>2, StepType
  <2>4. /\ FindBlockID(loc) = p /\ GetLocalIndex(loc).local_lx2 = l2
        /\ GetLocalIndex(loc).local_lx3 = l3
    BY <2>1, IndexOfAt
  <2>5. GetLocalIndex(to).local_lx2 = r.l2 /\ GetLocalIndex(to).local_lx3 = r.l3
    BY <2>1, <2>3, IndexOfAt
  <2>6. Layer(side, x[1], x[2]).now = depth
    <3>1. Layer(side, x[1], x[2]) =
            [now |-> depth, side |-> IF side \in {"up", "left"} THEN -1 ELSE 1]
      BY <2>2, LayerIs
    <3> HIDE DEF depth
    <3>2. QED BY <3>1
  <2>7. ghost[c].basis =
          IF AlongX3(side)
          THEN IF Swapped(p, tgbid(p, side)) THEN <<turned, beyond>> ELSE <<beyond, turned>>
          ELSE <<turned, beyond>>
    BY <2>1, <2>4, <2>6 DEF Interpolated, Index
  <2>8. /\ depth \in 0 .. NGHOST - 1 /\ Height(toSide, c) = depth /\ c \in Int \X Int
        /\ Index(toSide, c) = IF dinv(p, side) THEN N - 1 - Index(side, x) ELSE Index(side, x)
    BY <2>1 DEF Fits
  <2>9. /\ toSide = r.back
        /\ Angle(IF AlongX3(toSide) THEN r.l3 ELSE r.l2, Index(toSide, c)) = turned
        /\ Angle(IF AlongX3(toSide) THEN r.l2 ELSE r.l3, cell) = beyond
        /\ AlongX3(side) => (Swapped(p, tgbid(p, side)) <=> ~ AlongX3(toSide))
    BY <2>1, <2>8 DEF PlaceMatches
  <2>10. c = IF AlongX3(toSide) THEN <<cell, Index(toSide, c)>>
                                ELSE <<Index(toSide, c), cell>>
    <3>1. PICK j \in Int, k \in Int : c = <<j, k>> BY <2>8
    <3> HIDE DEF depth
    <3>2. QED BY <2>3, <2>8, <2>9, <3>1, GhostAssumption DEF Height, Index, AlongX3, Side
  <2>11. GhostPlace(c) = <<Angle(r.l2, c[1]), Angle(r.l3, c[2])>>
    BY <2>5 DEF GhostPlace
  <2> HIDE DEF r, depth, along, turned, beyond, cell
  <2>12. GhostPlace(c) = IF AlongX3(toSide) THEN <<beyond, turned>> ELSE <<turned, beyond>>
    BY <2>9, <2>10, <2>11
  <2>13. QED BY <2>7, <2>9, <2>12 DEF TurnedByX2
<1>2. QED BY <1>1, GhostInvariant, PTL

(* Inside a panel every ghost cell is a copy of the cell it shadows.        *)
THEOREM GhostsShadow == Spec => []GhostsCopied
<1>1. IInv => GhostsCopied
  <2> SUFFICES ASSUME IInv, phase = "set", ~ AtPanelEdge(loc, side),
                      NEW c \in DOMAIN ghost
               PROVE  ghost[c].cell = <<to.lx2 * N + c[1], to.lx3 * N + c[2]>>
    BY DEF GhostsCopied
  <2>1. loc \in Location /\ side \in Side /\ loc.lx2 \in Int /\ loc.lx3 \in Int
        /\ N \in Int /\ NGHOST \in Int
    BY BAssumption, GhostAssumption DEF IInv, Location
  <2>2. /\ toSide = Opposite(side)
        /\ to = [lx2 |-> loc.lx2 + Ox2(side), lx3 |-> loc.lx3 + Ox3(side)]
    BY DEF to, toSide, NeighborLoc, NeighborSide, TransformOX
  <2>3. PICK n \in 1 .. N * NGHOST : /\ PackOrder("R0", Behind(toSide))[n] = c
                                    /\ ghost[c] = PackData(loc, side)[n]
    BY GhostIsPacked
  <2> DEFINE x == PackOrder("R0", Sent(side))[n]
  <2>4. ghost[c] = Copied(loc, x[1], x[2]) BY <2>1, <2>3, Packed
  <2>5. Fits(side, toSide, FALSE, x, c)
    <3>1. OrderMatches(side, Opposite(side), "R0", FALSE, n)
      BY <2>1, OrdersMatch DEF Opposite, Side
    <3>2. QED BY <2>2, <2>3, <3>1 DEF OrderMatches
  <2> HIDE DEF x
  <2>6. PICK j \in Int, k \in Int, a \in Int, b \in Int : x = <<j, k>> /\ c = <<a, b>>
    BY <2>5 DEF Fits
  <2>7. ghost[c].cell = <<loc.lx2 * N + j, loc.lx3 * N + k>> BY <2>4, <2>6 DEF Copied
  <2>8. /\ (loc.lx2 - 1) * N = loc.lx2 * N - N /\ (loc.lx2 + 1) * N = loc.lx2 * N + N
        /\ (loc.lx3 - 1) * N = loc.lx3 * N - N /\ (loc.lx3 + 1) * N = loc.lx3 * N + N
        /\ loc.lx2 * N \in Int /\ loc.lx3 * N \in Int
    BY <2>1
  <2>9. Height(toSide, c) = Depth(side, x) /\ Index(toSide, c) = Index(side, x)
    BY <2>5 DEF Fits
  <2>10. CASE side = "up"
    <3>1. toSide = "down" /\ to = [lx2 |-> loc.lx2 - 1, lx3 |-> loc.lx3]
      BY <2>1, <2>2, <2>10 DEF Opposite, Ox2, Ox3
    <3>2. Depth(side, x) = j /\ Index(side, x) = k
      BY <2>6, <2>10 DEF Depth, Index, AlongX3
    <3>3. Height(toSide, c) = a - N /\ Index(toSide, c) = b
      BY <2>6, <3>1 DEF Height, Index, AlongX3
    <3>4. j = a - N /\ k = b
      BY <2>1, <2>9, <2>6, <3>2, <3>3
    <3>5. QED BY <2>1, <2>7, <2>8, <2>6, <3>1, <3>4
  <2>11. CASE side = "down"
    <3>1. toSide = "up" /\ to = [lx2 |-> loc.lx2 + 1, lx3 |-> loc.lx3]
      BY <2>1, <2>2, <2>11 DEF Opposite, Ox2, Ox3
    <3>2. Depth(side, x) = N - 1 - j /\ Index(side, x) = k
      BY <2>6, <2>11 DEF Depth, Index, AlongX3
    <3>3. Height(toSide, c) = -1 - a /\ Index(toSide, c) = b
      BY <2>6, <3>1 DEF Height, Index, AlongX3
    <3>4. j = N + a /\ k = b
      BY <2>1, <2>9, <2>6, <3>2, <3>3
    <3>5. QED BY <2>1, <2>7, <2>8, <2>6, <3>1, <3>4
  <2>12. CASE side = "left"
    <3>1. toSide = "right" /\ to = [lx2 |-> loc.lx2, lx3 |-> loc.lx3 - 1]
      BY <2>1, <2>2, <2>12 DEF Opposite, Ox2, Ox3
    <3>2. Depth(side, x) = k /\ Index(side, x) = j
      BY <2>6, <2>12 DEF Depth, Index, AlongX3
    <3>3. Height(toSide, c) = b - N /\ Index(toSide, c) = a
      BY <2>6, <3>1 DEF Height, Index, AlongX3
    <3>4. k = b - N /\ j = a
      BY <2>1, <2>9, <2>6, <3>2, <3>3
    <3>5. QED BY <2>1, <2>7, <2>8, <2>6, <3>1, <3>4
  <2>13. CASE side = "right"
    <3>1. toSide = "left" /\ to = [lx2 |-> loc.lx2, lx3 |-> loc.lx3 + 1]
      BY <2>1, <2>2, <2>13 DEF Opposite, Ox2, Ox3
    <3>2. Depth(side, x) = N - 1 - k /\ Index(side, x) = j
      BY <2>6, <2>13 DEF Depth, Index, AlongX3
    <3>3. Height(toSide, c) = -1 - b /\ Index(toSide, c) = a
      BY <2>6, <3>1 DEF Height, Index, AlongX3
    <3>4. k = N + b /\ j = a
      BY <2>1, <2>9, <2>6, <3>2, <3>3
    <3>5. QED BY <2>1, <2>7, <2>8, <2>6, <3>1, <3>4
  <2>14. QED BY <2>1, <2>10, <2>11, <2>12, <2>13 DEF Side
<1>2. QED BY <1>1, GhostInvariant, PTL


-----------------------------------------------------------------------------
(* A block packs for the neighbour its own rank derived, and that neighbour *)
(* unpacks for the one it derived itself.  Once the tables are built, in    *)
(* whatever order the ranks did that, every exchange is between blocks that *)
(* name each other, face for face: the receiver of GhostsRight, BasisRight  *)
(* and GhostsShadow is the block whose buffer targetid names.               *)
THEOREM TablesServeExchange ==
  SearchSpec /\ Spec =>
    [](AllDone => /\ neighbor[loc][side] = [loc |-> to, side |-> toSide]
                  /\ neighbor[to][toSide] = [loc |-> loc, side |-> side])
<1>1. ASSUME TablesInv, IInv, AllDone
      PROVE  /\ neighbor[loc][side] = [loc |-> to, side |-> toSide]
             /\ neighbor[to][toSide] = [loc |-> loc, side |-> side]
  <2>1. loc \in Location /\ side \in Side BY <1>1 DEF IInv
  <2>2. \A l \in Location, s \in Side : neighbor[l][s] = Found(l, s)
    BY <1>1 DEF TablesInv, Handled, AllDone, Side
  <2>3. neighbor[loc][side] = [loc |-> to, side |-> toSide]
    BY <2>1, <2>2 DEF Found, to, toSide
  <2>4. /\ to \in Location /\ toSide \in Side
        /\ NeighborLoc(to, toSide) = loc /\ NeighborSide(to, toSide) = side
    BY <2>1, NeighborInvolution DEF to, toSide
  <2>5. neighbor[to][toSide] = [loc |-> loc, side |-> side]
    BY <2>2, <2>4 DEF Found
  <2>6. QED BY <2>3, <2>5
<1>2. TablesInv /\ IInv => (AllDone => /\ neighbor[loc][side] = [loc |-> to, side |-> toSide]
                                      /\ neighbor[to][toSide] = [loc |-> loc, side |-> side])
  BY <1>1
<1>3. QED BY <1>2, TablesFound, GhostInvariant, PTL

=============================================================================
