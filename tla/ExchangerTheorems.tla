------------------------- MODULE ExchangerTheorems -------------------------
(***************************************************************************)
(* The groups an exchanger forms are the columns and the planes of the     *)
(* mesh, for any number of ranks in any Cartesian arrangement and any      *)
(* sequence of regroupings.                                                *)
(***************************************************************************)
EXTENDS Exchanger, FiniteSetTheorems, WellFoundedInduction, TLAPS

First(g) == Passes(g)[1]
Second(g) == Passes(g)[2]

InFirstPass == todo = Passes(group)
InSecondPass == group.kind = "planar" /\ todo = <<Second(group)>>

\* The ranks a rank below which is coloured d-wise share its colour.
AlongStacks(d, P) ==
  \A r \in P : Below(d, r) # None => color[r] = color[Below(d, r)]

SameOnlyIfConnected(ds, P) ==
  \A q, r \in P : color[q] = color[r] => Connected(ds, q, r)

\* Between two passes: the colours are those of the first direction.
FirstPassDone ==
  /\ \A r \in Rank : color[r] # None
  /\ AlongStacks(First(group), Rank)
  /\ SameOnlyIfConnected({First(group)}, Rank)

\* In the first pass: ranks from i on have no colour yet.
FirstPassInv ==
  LET Seen == {r \in Rank : r < i}
  IN  /\ \A r \in Rank \ Seen : color[r] = None
      /\ \A r \in Seen : color[r] \in 0 .. c - 1
      /\ AlongStacks(First(group), Seen)
      /\ SameOnlyIfConnected({First(group)}, Seen)

\* In the second pass: ranks before i and those that are the lowest of their
\* stack, whose colour the pass keeps, have their final colours.
Settled == {r \in Rank : r < i \/ Below(Second(group), r) = None}

SecondPassInv ==
  /\ \A r \in Rank : color[r] # None
  /\ AlongStacks(First(group), Settled)
  /\ AlongStacks(Second(group), {r \in Rank : r < i})
  /\ SameOnlyIfConnected(Across(group), Settled)

IInv ==
  /\ TypeOK
  /\ phase \in {"gather", "color"} =>
       group \in [kind : Kind, dir : Dir] /\ (InFirstPass \/ InSecondPass)
  /\ phase = "gather" =>
       IF InFirstPass THEN \A r \in Rank : color[r] = None ELSE FirstPassDone
  /\ phase = "color" =>
       /\ c <= i
       /\ brank = [r \in Rank |-> Below(Head(todo), r)]
       /\ IF InFirstPass THEN FirstPassInv ELSE SecondPassInv
  /\ GroupsConnected

-----------------------------------------------------------------------------
(* What setColor is called for: the direction of a linear exchanger, the    *)
(* two others in turn for a planar one.                                     *)
LEMMA PassesFacts ==
  ASSUME NEW g \in [kind : Kind, dir : Dir]
  PROVE  /\ First(g) \in Dir
         /\ First(g) \in Across(g)
         /\ Across(g) \subseteq Dir
         /\ g.kind = "linear" =>
              Passes(g) = <<First(g)>> /\ Across(g) = {First(g)}
         /\ g.kind # "linear" =>
              /\ g.kind = "planar"
              /\ Passes(g) = <<First(g), Second(g)>>
              /\ Second(g) \in Dir /\ Second(g) # First(g)
              /\ Across(g) = {First(g), Second(g)}
<1>1. CASE g.kind = "linear"
  BY <1>1 DEF First, Second, Passes, Across, Kind
<1>2. CASE g.kind # "linear"
  <2>1. g.kind = "planar"  BY <1>2 DEF Kind
  <2>2. CASE g.dir = "X1DIR"
    BY <1>2, <2>1, <2>2 DEF First, Second, Passes, Across, Dir
  <2>3. CASE g.dir = "X2DIR"
    BY <1>2, <2>1, <2>3 DEF First, Second, Passes, Across, Dir
  <2>4. CASE g.dir = "X3DIR"
    BY <1>2, <2>1, <2>4 DEF First, Second, Passes, Across, Dir
  <2>5. QED  BY <2>2, <2>3, <2>4 DEF Dir
<1>3. QED  BY <1>1, <1>2

(* Being connected is an equivalence, ...                                   *)
LEMMA ConnectedSelf ==
  ASSUME NEW ds, NEW q
  PROVE  Connected(ds, q, q)
BY DEF Connected

LEMMA ConnectedTurned ==
  ASSUME NEW ds, NEW q, NEW r, Connected(ds, q, r)
  PROVE  Connected(ds, r, q)
BY DEF Connected

LEMMA ConnectedOn ==
  ASSUME NEW ds, NEW q, NEW r, NEW s, Connected(ds, q, r), Connected(ds, r, s)
  PROVE  Connected(ds, q, s)
BY DEF Connected

(* ... it has each rank with the one below, ...                             *)
LEMMA ConnectedBelow ==
  ASSUME NEW ds, NEW d \in ds, NEW r \in Rank, Below(d, r) # None
  PROVE  Connected(ds, r, Below(d, r))
BY DEF Connected, Closed

(* ... and more directions connect more.                                    *)
LEMMA ConnectedMore ==
  ASSUME NEW ds, NEW es, ds \subseteq es, NEW q, NEW r, Connected(ds, q, r)
  PROVE  Connected(es, q, r)
BY DEF Connected, Closed

(* Colours that each rank shares with the one below are shared by all that  *)
(* are connected.                                                           *)
LEMMA ColorsFollow ==
  ASSUME NEW ds, \A d \in ds : AlongStacks(d, Rank),
         \A d \in ds, r \in Rank : Below(d, r) # None => Below(d, r) \in Rank,
         NEW q \in Rank, NEW r \in Rank, Connected(ds, q, r)
  PROVE  color[q] = color[r]
<1> DEFINE S == {x \in Rank : color[x] = color[q]}
<1>1. Closed(ds, S)
  BY DEF Closed, AlongStacks
<1>2. q \in S <=> r \in S
  BY <1>1, S \in SUBSET Rank DEF Connected
<1>3. QED  BY <1>2

(* The rank below is a rank, lower in a grid, and squares close.            *)
LEMMA BelowFacts ==
  ASSUME mesh \in Mesh, Grid(mesh), NEW d \in Dir, NEW r \in Rank
  PROVE  /\ Below(d, r) \in Rank \cup {None}
         /\ Below(d, r) # None => Below(d, r) \in Rank /\ Below(d, r) < r
         /\ \A e \in Dir : Below(d, r) # None /\ e # d =>
              /\ Below(e, r) = None <=> Below(e, Below(d, r)) = None
              /\ Below(e, r) # None =>
                   Below(d, Below(e, r)) = Below(e, Below(d, r))
<1>1. /\ mesh.n \in Nat \ {0}
      /\ mesh.below \in [Dir -> [0 .. mesh.n - 1 -> -1 .. mesh.n - 1]]
  BY MeshAssumption DEF MeshType
<1>2. mesh.below[d][r] \in -1 .. mesh.n - 1
  BY <1>1 DEF Rank
<1>3. Below(d, r) \in Rank \cup {None}
  BY <1>1, <1>2 DEF Below, BelowIn, Rank, None
<1>4. Below(d, r) # None =>
        /\ Below(d, r) < r
        /\ \A e \in Dir : e # d =>
             /\ Below(e, r) = None <=> Below(e, Below(d, r)) = None
             /\ Below(e, r) # None =>
                  Below(d, Below(e, r)) = Below(e, Below(d, r))
  BY DEF Grid, Below, Rank
<1>5. QED  BY <1>3, <1>4

(* The mesh stays, and with it who is below and who is connected.           *)
LEMMA MeshStays ==
  ASSUME mesh' = mesh
  PROVE  /\ Rank' = Rank
         /\ \A d, r : Below(d, r)' = Below(d, r)
         /\ \A ds, q, r : Connected(ds, q, r)' <=> Connected(ds, q, r)
<1>1. Rank' = Rank  BY DEF Rank
<1>2. \A d, r : Below(d, r)' = Below(d, r)  BY DEF Below, BelowIn
<1>3. \A ds, S : Closed(ds, S)' <=> Closed(ds, S)  BY <1>1, <1>2 DEF Closed
<1>4. QED  BY <1>1, <1>2, <1>3 DEF Connected

(* In the initial state nothing is grouped.                                 *)
LEMMA InitInv ==
  ASSUME Init
  PROVE  IInv
<1>1. mesh.n \in Nat \ {0}  BY MeshAssumption DEF Init
<1>2. TypeOK  BY <1>1, MeshAssumption DEF Init, TypeOK, Rank, None
<1>3. QED  BY <1>2 DEF Init, IInv, GroupsConnected, Grouped

(* The steps that only begin a grouping or a pass of it.                    *)
LEMMA RegroupInv ==
  ASSUME IInv, NEW g \in [kind : Kind, dir : Dir], Regroup(g)
  PROVE  IInv'
<1>1. mesh' = mesh /\ Rank' = Rank  BY MeshStays DEF Regroup
<1>2. TypeOK'  BY <1>1, MeshAssumption DEF IInv, TypeOK, Regroup
<1>3. InFirstPass' /\ group' = g
  BY DEF Regroup, InFirstPass
<1>4. \A r \in Rank' : color'[r] = None
  BY <1>1 DEF Regroup
<1>5. phase' = "gather"  BY DEF Regroup
<1>6. QED  BY <1>2, <1>3, <1>4, <1>5 DEF IInv, GroupsConnected, Grouped

LEMMA GatherBelowInv ==
  ASSUME IInv, Grid(mesh), GatherBelow
  PROVE  IInv'
<1> DEFINE f == First(group)
           s == Second(group)
<1>1. /\ mesh' = mesh /\ Rank' = Rank
      /\ \A d, r : Below(d, r)' = Below(d, r)
      /\ \A ds, q, r : Connected(ds, q, r)' <=> Connected(ds, q, r)
  BY MeshStays DEF GatherBelow
<1>2. /\ mesh \in Mesh /\ group \in [kind : Kind, dir : Dir]
      /\ mesh.n \in Nat \ {0}
  BY MeshAssumption DEF IInv, TypeOK, GatherBelow
<1>3. InFirstPass \/ InSecondPass  BY DEF IInv, GatherBelow
<1>4. Head(todo) \in Dir
  <2>1. CASE InFirstPass
    BY <1>2, <2>1, PassesFacts DEF InFirstPass, Kind
  <2>2. CASE InSecondPass
    BY <1>2, <2>2, PassesFacts DEF InSecondPass
  <2>3. QED  BY <1>3, <2>1, <2>2
<1>5. \A r \in Rank : Below(Head(todo), r) \in Rank \cup {None}
  BY <1>2, <1>4, BelowFacts
<1>6. TypeOK'
  BY <1>1, <1>2, <1>5 DEF IInv, TypeOK, GatherBelow, Rank
<1>7. /\ phase' = "color" /\ c' = 0 /\ i' = 0 /\ color' = color
      /\ group' = group /\ todo' = todo
      /\ brank' = [r \in Rank |-> Below(Head(todo), r)]
  BY DEF GatherBelow
<1>8. brank' = [r \in Rank' |-> Below(Head(todo), r)']
  BY <1>1, <1>7
<1>9. CASE InFirstPass
  <2>1. \A r \in Rank : color[r] = None  BY <1>9 DEF IInv, GatherBelow
  <2>2. {r \in Rank : r < 0} = {}  BY <1>2 DEF Rank
  <2>3. FirstPassInv'
    BY <1>1, <1>7, <2>1, <2>2
       DEF FirstPassInv, AlongStacks, SameOnlyIfConnected
  <2>4. InFirstPass' BY <1>7, <1>9 DEF InFirstPass
  <2>5. QED
    BY <1>3, <1>6, <1>7, <1>8, <1>9, <2>3, <2>4
       DEF IInv, GatherBelow, GroupsConnected, Grouped, InFirstPass, InSecondPass
<1>10. CASE ~ InFirstPass
  <2>1. FirstPassDone /\ InSecondPass  BY <1>3, <1>10 DEF IInv, GatherBelow
  <2>2. {f} \subseteq Across(group)
    BY <1>2, PassesFacts
  <2>3. \A q, r : Connected({f}, q, r) => Connected(Across(group), q, r)
    BY <2>2, ConnectedMore
  <2>4. Settled \subseteq Rank /\ {r \in Rank : r < 0} = {}
    BY <1>2 DEF Settled, Rank
  <2>5. Settled' \subseteq Rank
    BY <1>1 DEF Settled
  <2>6. AlongStacks(f, Settled)' /\ SameOnlyIfConnected(Across(group), Settled)'
    BY <1>1, <1>7, <2>1, <2>3, <2>5
       DEF FirstPassDone, AlongStacks, SameOnlyIfConnected
  <2>7. AlongStacks(s, {r \in Rank : r < i})'
    BY <1>1, <1>7, <2>4 DEF AlongStacks
  <2>8. \A r \in Rank' : color'[r] # None
    BY <1>1, <1>7, <2>1 DEF FirstPassDone
  <2>9. SecondPassInv'
    BY <1>7, <2>6, <2>7, <2>8 DEF SecondPassInv
  <2>10. ~ InFirstPass'  BY <1>7, <1>10 DEF InFirstPass
  <2>11. QED
    BY <1>3, <1>6, <1>7, <1>8, <1>10, <2>9, <2>10
       DEF IInv, GatherBelow, GroupsConnected, Grouped, InFirstPass, InSecondPass
<1>11. QED  BY <1>9, <1>10

(* A turn of the loop in the first pass: a rank with no rank below starts a *)
(* colour of its own, any other joins the rank below, which is lower and so *)
(* coloured.                                                                *)
LEMMA FirstPassStep ==
  ASSUME IInv, Grid(mesh), ColorRank, InFirstPass
  PROVE  /\ FirstPassInv'
         /\ color' \in [Rank -> Rank \cup {None}]
         /\ c' \in Nat /\ c' <= i'
<1> DEFINE f == First(group)
           Seen == {r \in Rank : r < i}
<1>1. /\ mesh' = mesh /\ Rank' = Rank
      /\ \A d, r : Below(d, r)' = Below(d, r)
      /\ \A ds, q, r : Connected(ds, q, r)' <=> Connected(ds, q, r)
  BY MeshStays DEF ColorRank
<1>2. /\ mesh \in Mesh /\ group \in [kind : Kind, dir : Dir]
      /\ mesh.n \in Nat \ {0} /\ i \in Rank /\ c \in Nat /\ c <= i
      /\ color \in [Rank -> Rank \cup {None}]
      /\ group' = group /\ i' = i + 1
      /\ color' = [color EXCEPT ![i] = NewColor(i)]
  BY MeshAssumption DEF IInv, TypeOK, ColorRank
<1>3. f \in Dir /\ Head(todo) = f
  BY <1>2, PassesFacts DEF InFirstPass, First
<1>4. brank[i] = Below(f, i)  BY <1>2, <1>3 DEF IInv, ColorRank
<1>5. FirstPassInv  BY DEF IInv, ColorRank
<1>6. /\ \A r \in Rank \ Seen : color[r] = None
      /\ \A r \in Seen : color[r] \in 0 .. c - 1
      /\ \A r \in Seen : Below(f, r) # None => color[r] = color[Below(f, r)]
      /\ \A q, r \in Seen : color[q] = color[r] => Connected({f}, q, r)
  BY <1>5 DEF FirstPassInv, AlongStacks, SameOnlyIfConnected
<1>7. i \in Nat /\ Rank \subseteq Nat  BY <1>2 DEF Rank
<1>8. i \notin Seen /\ \A r \in Seen : r \in Rank /\ r < i /\ r # i
  BY <1>7
<1>9. color[i] = None  BY <1>2, <1>6, <1>8
<1>10. \A r \in Rank :
        /\ Below(f, r) \in Rank \cup {None}
        /\ Below(f, r) # None => Below(f, r) \in Rank /\ Below(f, r) < r
  BY <1>2, <1>3, BelowFacts
<1>11. {r \in Rank' : r < i'} = Seen \cup {i}
  BY <1>1, <1>2 DEF Rank
<1>12. \A r \in Seen \cup {i} : Below(f, r) # None => Below(f, r) \in Seen
  <2>1. SUFFICES ASSUME NEW r \in Seen \cup {i}, Below(f, r) # None
                 PROVE  Below(f, r) \in Seen
    OBVIOUS
  <2>2. /\ r \in Nat /\ r <= i /\ r \in Rank
        /\ Below(f, r) \in Rank /\ Below(f, r) < r
    BY <1>2, <1>10, <1>7, <1>8, <2>1
  <2>3. Below(f, r) \in Nat  BY <1>7, <2>2
  <2>4. QED  BY <1>7, <2>2, <2>3
<1>13. CASE Below(f, i) = None
  <2>1. NewColor(i) = c /\ c' = c + 1
    BY <1>4, <1>9, <1>13 DEF NewColor, ColorRank
  <2>2. c \in Rank  BY <1>2, <1>7 DEF Rank
  <2>3. color' \in [Rank -> Rank \cup {None}]  BY <1>2, <2>1, <2>2
  <2>4. \A r \in Rank : color'[r] = IF r = i THEN c ELSE color[r]
    BY <1>2, <2>1
  <2>5. \A r \in Rank \ (Seen \cup {i}) : color'[r] = None
    BY <1>6, <2>4
  <2>6. \A r \in Seen \cup {i} : color'[r] \in 0 .. c' - 1
    BY <1>2, <1>6, <2>1, <2>4
  <2>7. \A r \in Seen \cup {i} : Below(f, r) # None =>
          color'[r] = color'[Below(f, r)]
    BY <1>6, <1>13, <1>8, <1>12, <2>4
  <2>8. \A r \in Seen : color'[r] # c
    BY <1>2, <1>6, <1>8, <2>4
  <2>9. \A q, r \in Seen \cup {i} : color'[q] = color'[r] => Connected({f}, q, r)
    <3> SUFFICES ASSUME NEW q \in Seen \cup {i}, NEW r \in Seen \cup {i},
                        color'[q] = color'[r]
                 PROVE  Connected({f}, q, r)
      OBVIOUS
    <3>1. CASE q = i /\ r = i  BY <3>1, ConnectedSelf
    <3>2. CASE q \in Seen /\ r \in Seen  BY <1>6, <1>8, <2>4, <3>2
    <3>3. ~ (q = i /\ r \in Seen) /\ ~ (q \in Seen /\ r = i)
      BY <1>2, <1>8, <2>4, <2>8
    <3>4. QED  BY <3>1, <3>2, <3>3
  <2>10. FirstPassInv'
    BY <1>1, <1>2, <1>11, <2>5, <2>6, <2>7, <2>9
       DEF FirstPassInv, AlongStacks, SameOnlyIfConnected
  <2>11. QED  BY <1>2, <1>7, <2>1, <2>3, <2>10
<1>14. CASE Below(f, i) # None
  <2> DEFINE b == Below(f, i)
  <2>1. b \in Rank /\ b < i /\ b \in Seen  BY <1>2, <1>10, <1>14
  <2>2. NewColor(i) = color[b] /\ c' = c
    BY <1>4, <1>14 DEF NewColor, ColorRank
  <2>3. color' \in [Rank -> Rank \cup {None}]  BY <1>2, <2>1, <2>2
  <2>4. \A r \in Rank : color'[r] = IF r = i THEN color[b] ELSE color[r]
    BY <1>2, <2>2
  <2>5. \A r \in Rank \ (Seen \cup {i}) : color'[r] = None
    BY <1>6, <2>4
  <2>6. \A r \in Seen \cup {i} : color'[r] \in 0 .. c' - 1
    BY <1>2, <1>6, <2>1, <2>2, <2>4
  <2>7. \A r \in Seen \cup {i} : Below(f, r) # None =>
          color'[r] = color'[Below(f, r)]
    BY <1>2, <1>6, <1>8, <1>12, <2>1, <2>4
  <2>8. Connected({f}, i, b)
    BY <1>2, <1>14, ConnectedBelow
  <2>9. \A q \in Seen : color[q] = color[b] =>
          Connected({f}, q, i) /\ Connected({f}, i, q)
    BY <1>6, <2>1, <2>8, ConnectedOn, ConnectedTurned
  <2>10. \A q, r \in Seen \cup {i} : color'[q] = color'[r] => Connected({f}, q, r)
    <3> SUFFICES ASSUME NEW q \in Seen \cup {i}, NEW r \in Seen \cup {i},
                        color'[q] = color'[r]
                 PROVE  Connected({f}, q, r)
      OBVIOUS
    <3>1. CASE q = i /\ r = i  BY <3>1, ConnectedSelf
    <3>2. CASE q = i /\ r # i  BY <1>2, <2>4, <2>9, <3>2
    <3>3. CASE q # i /\ r = i  BY <1>2, <2>4, <2>9, <3>3
    <3>4. CASE q # i /\ r # i  BY <1>6, <2>4, <3>4
    <3>5. QED  BY <3>1, <3>2, <3>3, <3>4
  <2>11. FirstPassInv'
    BY <1>1, <1>2, <1>11, <2>5, <2>6, <2>7, <2>10
       DEF FirstPassInv, AlongStacks, SameOnlyIfConnected
  <2>12. QED  BY <1>2, <1>7, <2>2, <2>3, <2>11
<1>15. QED  BY <1>13, <1>14

(* A turn in the second pass: the lowest ranks keep their colours; any other *)
(* takes the colour of the rank below, and since squares close it then      *)
(* agrees with its neighbour in the first direction, which has done the     *)
(* same.                                                                    *)
LEMMA SecondPassStep ==
  ASSUME IInv, Grid(mesh), ColorRank, ~ InFirstPass
  PROVE  /\ SecondPassInv'
         /\ color' \in [Rank -> Rank \cup {None}]
         /\ c' \in Nat /\ c' <= i'
<1> DEFINE f == First(group)
           s == Second(group)
<1>1. /\ mesh' = mesh /\ Rank' = Rank
      /\ \A d, r : Below(d, r)' = Below(d, r)
      /\ \A ds, q, r : Connected(ds, q, r)' <=> Connected(ds, q, r)
  BY MeshStays DEF ColorRank
<1>2. /\ mesh \in Mesh /\ group \in [kind : Kind, dir : Dir]
      /\ mesh.n \in Nat \ {0} /\ i \in Rank /\ c \in Nat /\ c <= i
      /\ color \in [Rank -> Rank \cup {None}]
      /\ group' = group /\ i' = i + 1
      /\ color' = [color EXCEPT ![i] = NewColor(i)]
  BY MeshAssumption DEF IInv, TypeOK, ColorRank
<1>3. InSecondPass  BY DEF IInv, ColorRank
<1>4. /\ f \in Dir /\ s \in Dir /\ s # f /\ Head(todo) = s
      /\ Across(group) = {f, s}
  BY <1>2, <1>3, PassesFacts DEF InSecondPass
<1>5. brank[i] = Below(s, i)  BY <1>2, <1>4 DEF IInv, ColorRank
<1>6. SecondPassInv  BY DEF IInv, ColorRank
<1>7. /\ \A r \in Rank : color[r] \in Rank /\ color[r] # None
      /\ \A r \in Settled : Below(f, r) # None => color[r] = color[Below(f, r)]
      /\ \A r \in Rank : r < i /\ Below(s, r) # None => color[r] = color[Below(s, r)]
      /\ \A q, r \in Settled : color[q] = color[r] => Connected({f, s}, q, r)
  BY <1>2, <1>4, <1>6 DEF SecondPassInv, AlongStacks, SameOnlyIfConnected, Settled
<1>8. \A d \in {f, s}, r \in Rank :
        /\ Below(d, r) \in Rank \cup {None}
        /\ Below(d, r) # None => Below(d, r) \in Rank /\ Below(d, r) < r
  BY <1>2, <1>4, BelowFacts
<1>9. i \in Nat /\ Rank \subseteq Nat  BY <1>2 DEF Rank
<1>10. c' = c  BY <1>2, <1>7 DEF ColorRank
<1>11. \A r \in Rank : r < i' <=> r < i \/ r = i  BY <1>2, <1>9
<1>12. Settled' = Settled \cup {i}
  BY <1>1, <1>2, <1>11 DEF Settled
<1>13. CASE Below(s, i) = None
  <2>1. NewColor(i) = color[i]  BY <1>2, <1>5, <1>7, <1>13 DEF NewColor
  <2>2. color' = color  BY <1>2, <2>1
  <2>3. Settled' = Settled  BY <1>2, <1>12, <1>13 DEF Settled
  <2>4. AlongStacks(f, Settled)' /\ SameOnlyIfConnected({f, s}, Settled)'
    BY <1>1, <1>2, <1>7, <2>2, <2>3 DEF AlongStacks, SameOnlyIfConnected
  <2>5. AlongStacks(s, {r \in Rank : r < i})'
    BY <1>1, <1>2, <1>7, <1>11, <1>13, <2>2 DEF AlongStacks
  <2>6. SecondPassInv'
    BY <1>1, <1>2, <1>4, <1>7, <2>2, <2>4, <2>5 DEF SecondPassInv
  <2>7. QED  BY <1>2, <1>9, <1>10, <2>2, <2>6
<1>14. CASE Below(s, i) # None
  <2> DEFINE b == Below(s, i)
  <2>1. b \in Rank /\ b < i /\ b # i /\ b \in Settled
    BY <1>2, <1>8, <1>9, <1>14 DEF Settled
  <2>2. NewColor(i) = color[b]  BY <1>5, <1>14 DEF NewColor
  <2>3. color' \in [Rank -> Rank \cup {None}]  BY <1>2, <2>1, <2>2
  <2>4. \A r \in Rank : color'[r] = IF r = i THEN color[b] ELSE color[r]
    BY <1>2, <2>2
  <2>5. i \notin Settled /\ Settled \subseteq Rank
    BY <1>2, <1>9, <1>14 DEF Settled
  <2>6. \A r \in Rank : color'[r] # None  BY <1>7, <2>1, <2>4
  <2>7. \A r \in Settled : Below(f, r) # None => Below(f, r) \in Settled
    <3> SUFFICES ASSUME NEW r \in Settled, Below(f, r) # None
                 PROVE  Below(f, r) \in Settled
      OBVIOUS
    <3>1. /\ r \in Rank /\ Below(f, r) \in Rank /\ Below(f, r) < r
          /\ Below(s, r) = None <=> Below(s, Below(f, r)) = None
      BY <1>2, <1>4, <2>5, BelowFacts
    <3>2. CASE Below(s, r) = None  BY <3>1, <3>2 DEF Settled
    <3>3. CASE r < i
      <4>1. Below(f, r) < i
        <5>1. Below(f, r) \in Nat /\ r \in Nat  BY <1>9, <3>1
        <5>2. QED  BY <1>9, <3>1, <3>3, <5>1
      <4>2. QED  BY <3>1, <4>1 DEF Settled
    <3>4. QED  BY <3>2, <3>3 DEF Settled
  <2>8. Below(f, i) # None => color[b] = color[Below(f, i)]
    <3> SUFFICES ASSUME Below(f, i) # None
                 PROVE  color[b] = color[Below(f, i)]
      OBVIOUS
    <3> DEFINE e == Below(f, i)
    <3>1. /\ e \in Rank /\ e < i
          /\ Below(s, e) # None
          /\ Below(f, b) = Below(s, e)
      BY <1>2, <1>4, <1>14, BelowFacts
    <3>2. color[e] = color[Below(s, e)]  BY <1>7, <3>1
    <3>3. color[b] = color[Below(f, b)]  BY <1>7, <2>1, <3>1
    <3>4. QED  BY <3>1, <3>2, <3>3
  <2>9. Below(f, i) # i /\ Below(s, i) # i
    BY <1>2, <1>8, <1>9 DEF None
  <2>10. \A r \in Settled \cup {i} : Below(f, r) # None =>
           color'[r] = color'[Below(f, r)]
    <3> SUFFICES ASSUME NEW r \in Settled \cup {i}, Below(f, r) # None
                 PROVE  color'[r] = color'[Below(f, r)]
      OBVIOUS
    <3>1. Below(f, r) \in Rank  BY <1>2, <1>8, <2>5
    <3>2. CASE r = i  BY <1>2, <2>4, <2>8, <2>9, <3>1, <3>2
    <3>3. CASE r \in Settled
      <4>1. r # i /\ Below(f, r) # i  BY <2>5, <2>7, <3>3
      <4>2. QED  BY <1>7, <2>4, <2>5, <3>1, <3>3, <4>1
    <3>4. QED  BY <3>2, <3>3
  <2>11. \A r \in Rank : (r < i \/ r = i) /\ Below(s, r) # None =>
           color'[r] = color'[Below(s, r)]
    <3> SUFFICES ASSUME NEW r \in Rank, r < i \/ r = i, Below(s, r) # None
                 PROVE  color'[r] = color'[Below(s, r)]
      OBVIOUS
    <3>1. Below(s, r) \in Rank /\ Below(s, r) < r  BY <1>8
    <3>2. CASE r = i  BY <2>1, <2>4, <3>2
    <3>3. CASE r < i
      <4>1. Below(s, r) \in Nat /\ r \in Nat  BY <1>9, <3>1
      <4>2. r # i /\ Below(s, r) # i  BY <1>9, <3>1, <3>3, <4>1
      <4>3. QED  BY <1>7, <2>4, <3>1, <3>3, <4>2
    <3>4. QED  BY <3>2, <3>3
  <2>12. Connected({f, s}, i, b)
    BY <1>2, <1>14, ConnectedBelow
  <2>13. \A q \in Settled : color[q] = color[b] =>
           Connected({f, s}, q, i) /\ Connected({f, s}, i, q)
    BY <1>7, <2>1, <2>12, ConnectedOn, ConnectedTurned
  <2>14. \A q, r \in Settled \cup {i} : color'[q] = color'[r] =>
           Connected({f, s}, q, r)
    <3> SUFFICES ASSUME NEW q \in Settled \cup {i}, NEW r \in Settled \cup {i},
                        color'[q] = color'[r]
                 PROVE  Connected({f, s}, q, r)
      OBVIOUS
    <3>1. CASE q = i /\ r = i  BY <3>1, ConnectedSelf
    <3>2. CASE q = i /\ r # i  BY <1>2, <2>4, <2>5, <2>13, <3>2
    <3>3. CASE q # i /\ r = i  BY <1>2, <2>4, <2>5, <2>13, <3>3
    <3>4. CASE q # i /\ r # i  BY <1>7, <2>4, <2>5, <3>4
    <3>5. QED  BY <3>1, <3>2, <3>3, <3>4
  <2>15. AlongStacks(f, Settled)' /\ SameOnlyIfConnected({f, s}, Settled)'
    BY <1>1, <1>2, <1>12, <2>10, <2>14 DEF AlongStacks, SameOnlyIfConnected
  <2>16. AlongStacks(s, {r \in Rank : r < i})'
    BY <1>1, <1>2, <1>11, <2>11 DEF AlongStacks
  <2>17. SecondPassInv'
    BY <1>1, <1>2, <1>4, <2>6, <2>15, <2>16 DEF SecondPassInv
  <2>18. QED  BY <1>2, <1>9, <1>10, <2>3, <2>17
<1>15. QED  BY <1>13, <1>14

LEMMA ColorRankInv ==
  ASSUME IInv, Grid(mesh), ColorRank
  PROVE  IInv'
<1>1. /\ mesh' = mesh /\ Rank' = Rank
      /\ \A d, r : Below(d, r)' = Below(d, r)
  BY MeshStays DEF ColorRank
<1>2. /\ mesh.n \in Nat \ {0} /\ i \in Rank /\ i' = i + 1
      /\ phase = "color" /\ phase' = "color"
      /\ todo' = todo /\ group' = group /\ brank' = brank
      /\ comm' = comm /\ regroups' = regroups
  BY MeshAssumption DEF IInv, TypeOK, ColorRank
<1>3. i' \in 0 .. mesh.n  BY <1>2 DEF Rank
<1>4. color' \in [Rank -> Rank \cup {None}] /\ c' \in Nat /\ c' <= i'
  BY FirstPassStep, SecondPassStep
<1>5. c' \in 0 .. mesh.n  BY <1>2, <1>3, <1>4
<1>6. TypeOK'
  BY <1>1, <1>2, <1>3, <1>4, <1>5 DEF IInv, TypeOK
<1>7. InFirstPass' = InFirstPass /\ InSecondPass' = InSecondPass
  BY <1>2 DEF InFirstPass, InSecondPass
<1>8. IF InFirstPass' THEN FirstPassInv' ELSE SecondPassInv'
  BY <1>7, FirstPassStep, SecondPassStep
<1>9. brank' = [r \in Rank' |-> Below(Head(todo), r)']
  BY <1>1, <1>2 DEF IInv
<1>10. group \in [kind : Kind, dir : Dir] /\ (InFirstPass \/ InSecondPass)
  BY <1>2 DEF IInv
<1>11. brank' = [r \in Rank |-> Below(Head(todo), r)]'
  BY <1>2, <1>9
<1>12. QED
  BY <1>2, <1>4, <1>6, <1>7, <1>8, <1>10, <1>11
     DEF IInv, GroupsConnected, Grouped

(* The loop has run through: if colours follow every stack and equal ones   *)
(* are connected, the communicators are the groups.                         *)
LEMMA SplitGroups ==
  ASSUME IInv, Grid(mesh), Split, phase' = "idle",
         \A d \in Across(group) : AlongStacks(d, Rank),
         SameOnlyIfConnected(Across(group), Rank)
  PROVE  GroupsConnected'
<1>1. /\ mesh' = mesh /\ Rank' = Rank
      /\ \A ds, q, r : Connected(ds, q, r)' <=> Connected(ds, q, r)
  BY MeshStays DEF Split
<1>2. /\ mesh \in Mesh /\ group \in [kind : Kind, dir : Dir] /\ group' = group
      /\ comm' = [r \in Rank |-> {q \in Rank : color[q] = color[r]}]
  BY MeshAssumption DEF IInv, TypeOK, Split
<1>3. \A d \in Across(group), r \in Rank : Below(d, r) # None => Below(d, r) \in Rank
  BY <1>2, BelowFacts, PassesFacts
<1>4. ASSUME NEW q \in Rank, NEW r \in Rank
      PROVE  q \in comm'[r] <=> Connected(Across(group), q, r)
  <2>1. Connected(Across(group), q, r) => color[q] = color[r]
    BY <1>3, ColorsFollow
  <2>2. color[q] = color[r] => Connected(Across(group), q, r)
    BY DEF SameOnlyIfConnected
  <2>3. QED  BY <1>2, <2>1, <2>2
<1>5. QED  BY <1>1, <1>2, <1>4 DEF GroupsConnected

LEMMA SplitInv ==
  ASSUME IInv, Grid(mesh), Split
  PROVE  IInv'
<1> DEFINE f == First(group)
           s == Second(group)
<1>1. /\ mesh' = mesh /\ Rank' = Rank
      /\ \A d, r : Below(d, r)' = Below(d, r)
      /\ \A ds, q, r : Connected(ds, q, r)' <=> Connected(ds, q, r)
  BY MeshStays DEF Split
<1>2. /\ mesh \in Mesh /\ group \in [kind : Kind, dir : Dir]
      /\ mesh.n \in Nat \ {0} /\ i = mesh.n /\ c \in Nat
      /\ color \in [Rank -> Rank \cup {None}]
      /\ group' = group /\ color' = color
      /\ InFirstPass \/ InSecondPass
  BY MeshAssumption DEF IInv, TypeOK, Split
<1>3. TypeOK'
  <2>1. phase' \in {"idle", "gather"}  BY DEF Split
  <2>2. comm' \in [Rank -> SUBSET Rank]  BY DEF Split
  <2>3. QED  BY <1>1, <2>1, <2>2 DEF IInv, TypeOK, Split
<1>4. {r \in Rank : r < i} = Rank  BY <1>2 DEF Rank
<1>5. CASE InFirstPass
  <2>1. FirstPassInv  BY <1>5 DEF IInv, Split
  <2>2. \A r \in Rank : color[r] # None
    BY <1>2, <1>4, <2>1 DEF FirstPassInv, None
  <2>3. AlongStacks(f, Rank) /\ SameOnlyIfConnected({f}, Rank)
    BY <1>4, <2>1 DEF FirstPassInv
  <2>4. CASE group.kind = "linear"
    <3>1. Across(group) = {f} /\ Tail(todo) = <<>>
      <4>1. todo = <<f>> /\ Across(group) = {f}
        BY <1>2, <1>5, <2>4, PassesFacts DEF InFirstPass
      <4>2. \A x : Tail(<<x>>) = <<>>  OBVIOUS
      <4>3. QED  BY <4>1, <4>2
    <3>2. phase' = "idle"  BY <3>1 DEF Split
    <3>3. GroupsConnected'  BY <1>2, <2>3, <3>1, <3>2, SplitGroups
    <3>4. QED  BY <1>3, <3>2, <3>3 DEF IInv
  <2>5. CASE group.kind # "linear"
    <3>1. group.kind = "planar" /\ todo = <<f, s>>
      BY <1>2, <1>5, <2>5, PassesFacts DEF InFirstPass
    <3>2. todo' = <<s>> /\ Tail(todo) # <<>>  BY <3>1 DEF Split
    <3>3. phase' = "gather"  BY <3>2 DEF Split
    <3>4. InSecondPass'
      BY <1>2, <3>1, <3>2 DEF InSecondPass
    <3>5. ~ InFirstPass'
      <4>1. Passes(group) = <<f, s>>  BY <1>2, <2>5, PassesFacts
      <4>2. Len(<<f, s>>) # Len(<<s>>)  OBVIOUS
      <4>3. QED  BY <1>2, <3>2, <4>1, <4>2 DEF InFirstPass
    <3>6. FirstPassDone'
      BY <1>1, <1>2, <2>2, <2>3 DEF FirstPassDone, AlongStacks, SameOnlyIfConnected
    <3>7. QED
      BY <1>2, <1>3, <3>3, <3>4, <3>5, <3>6 DEF IInv, GroupsConnected, Grouped
  <2>6. QED  BY <2>4, <2>5
<1>6. CASE ~ InFirstPass
  <2>1. SecondPassInv /\ InSecondPass  BY <1>2, <1>6 DEF IInv, Split
  <2>2. Across(group) = {f, s}
    BY <1>2, <2>1, PassesFacts DEF InSecondPass
  <2>3. Settled = Rank  BY <1>4 DEF Settled
  <2>4. AlongStacks(f, Rank) /\ AlongStacks(s, Rank)
    BY <1>4, <2>1, <2>3 DEF SecondPassInv
  <2>5. SameOnlyIfConnected(Across(group), Rank)
    BY <2>1, <2>3 DEF SecondPassInv
  <2>6. phase' = "idle"
    BY <2>1 DEF Split, InSecondPass
  <2>7. GroupsConnected'
    BY <1>2, <2>2, <2>4, <2>5, <2>6, SplitGroups
  <2>8. QED  BY <1>3, <2>6, <2>7 DEF IInv
<1>7. QED  BY <1>5, <1>6

-----------------------------------------------------------------------------
(* The loop of setColor is right in every grid, whatever was grouped before.*)
THEOREM GroupingInvariant ==
  ASSUME \A msh \in Mesh : Grid(msh)
  PROVE  Spec => []IInv
<1>1. Init => IInv  BY InitInv
<1>2. IInv /\ [Next]_vars => IInv'
  <2> SUFFICES ASSUME IInv, [Next]_vars
               PROVE  IInv'
    OBVIOUS
  <2>1. Grid(mesh)  BY DEF IInv, TypeOK
  <2>2. CASE \E g \in Request[mesh] : Regroup(g)
    <3>1. Request[mesh] \subseteq [kind : Kind, dir : Dir]
      BY MeshAssumption DEF IInv, TypeOK
    <3>2. QED  BY <2>2, <3>1, RegroupInv
  <2>3. CASE GatherBelow  BY <2>1, <2>3, GatherBelowInv
  <2>4. CASE ColorRank  BY <2>1, <2>4, ColorRankInv
  <2>5. CASE Split  BY <2>1, <2>5, SplitInv
  <2>6. CASE UNCHANGED vars
    <3>1. /\ mesh' = mesh /\ Rank' = Rank
          /\ \A d, r : Below(d, r)' = Below(d, r)
          /\ \A ds, q, r : Connected(ds, q, r)' <=> Connected(ds, q, r)
      BY <2>6, MeshStays DEF vars
    <3>2. TypeOK'  BY <2>6, <3>1 DEF vars, IInv, TypeOK
    <3>3. GroupsConnected'
      BY <2>6, <3>1 DEF vars, IInv, GroupsConnected, Grouped
    <3>4. /\ InFirstPass' = InFirstPass /\ InSecondPass' = InSecondPass
          /\ Settled' = Settled
      BY <2>6, <3>1 DEF vars, InFirstPass, InSecondPass, Settled
    <3>5. FirstPassDone' = FirstPassDone /\ SecondPassInv' = SecondPassInv
      BY <2>6, <3>1, <3>4
         DEF vars, FirstPassDone, SecondPassInv, AlongStacks, SameOnlyIfConnected
    <3>6. FirstPassInv' = FirstPassInv
      BY <2>6, <3>1
         DEF vars, FirstPassInv, AlongStacks, SameOnlyIfConnected
    <3>7. [r \in Rank |-> Below(Head(todo), r)]' = [r \in Rank |-> Below(Head(todo), r)]
      BY <2>6, <3>1 DEF vars
    <3>8. QED
      BY <2>6, <3>1, <3>2, <3>3, <3>4, <3>5, <3>6, <3>7 DEF vars, IInv
  <2>7. QED
    BY <2>2, <2>3, <2>4, <2>5, <2>6 DEF Next, Finished
<1>3. QED  BY <1>1, <1>2, PTL DEF Spec

(* The loop of setColor stays within the ranks, and a colour is a rank's    *)
(* number or that of no rank.                                               *)
THEOREM GroupingTypeCorrect ==
  ASSUME \A msh \in Mesh : Grid(msh)
  PROVE  Spec => []TypeOK
<1>1. IInv => TypeOK  BY DEF IInv
<1>2. QED  BY <1>1, GroupingInvariant, PTL

(* The communicators of an exchanger are the columns or the planes of the   *)
(* mesh, after any sequence of calls of Regroup.                            *)
THEOREM GroupsRight ==
  ASSUME \A msh \in Mesh : Grid(msh)
  PROVE  Spec => []GroupsConnected
<1>1. IInv => GroupsConnected  BY DEF IInv
<1>2. QED  BY <1>1, GroupingInvariant, PTL

(* No rank is left without a colour when the communicator is split.         *)
THEOREM NoRankUncolored ==
  ASSUME \A msh \in Mesh : Grid(msh)
  PROVE  Spec => []ColorsAssigned
<1>1. IInv => ColorsAssigned
  <2> SUFFICES ASSUME IInv, phase = "color", i = mesh.n
               PROVE  \A r \in Rank : color[r] # None
    BY DEF ColorsAssigned
  <2>1. mesh.n \in Nat /\ {r \in Rank : r < i} = Rank
    BY MeshAssumption DEF IInv, TypeOK, Rank
  <2>2. CASE InFirstPass
    <3>1. c \in Nat /\ \A r \in Rank : color[r] \in 0 .. c - 1
      BY <2>1, <2>2 DEF IInv, TypeOK, FirstPassInv
    <3>2. QED  BY <3>1 DEF None
  <2>3. CASE ~ InFirstPass
    BY <2>3 DEF IInv, SecondPassInv
  <2>4. QED  BY <2>2, <2>3
<1>2. QED  BY <1>1, GroupingInvariant, PTL

-----------------------------------------------------------------------------
(* The rank in a group.  The ranks below r in direction d, r included: the  *)
(* least set with r that has the rank below each of its ranks.              *)
DownClosed(d, S) == \A r \in S : Below(d, r) # None => Below(d, r) \in S
Down(d, r) ==
  {q \in Rank : \A S \in SUBSET Rank : r \in S /\ DownClosed(d, S) => q \in S}

LEMMA DownFacts ==
  ASSUME mesh \in Mesh, Grid(mesh), NEW d \in Dir, NEW r \in Rank
  PROVE  /\ r \in Down(d, r) /\ DownClosed(d, Down(d, r)) /\ Down(d, r) \subseteq Rank
         /\ \A q \in Down(d, r) : q <= r
         /\ IsFiniteSet(Down(d, r))
<1>1. mesh.n \in Nat /\ Rank = 0 .. mesh.n - 1  BY MeshAssumption DEF Rank
<1>2. \A q \in Rank : Below(d, q) # None => Below(d, q) \in Rank /\ Below(d, q) < q
  BY BelowFacts
<1>3. DownClosed(d, Down(d, r))  BY <1>2 DEF DownClosed, Down
<1>4. \A q \in Down(d, r) : q <= r
  <2> DEFINE S == {q \in Rank : q <= r}
  <2>1. DownClosed(d, S)
    <3> SUFFICES ASSUME NEW q \in S, Below(d, q) # None
                 PROVE  Below(d, q) \in S
      BY DEF DownClosed
    <3>1. Below(d, q) \in Rank /\ Below(d, q) < q  BY <1>2
    <3>2. q \in Int /\ r \in Int /\ Below(d, q) \in Int /\ q <= r  BY <1>1, <3>1
    <3>3. Below(d, q) <= r  BY <3>1, <3>2
    <3>4. QED  BY <3>1, <3>3
  <2>2. r \in S  BY <1>1
  <2>3. S \in SUBSET Rank  OBVIOUS
  <2> HIDE DEF S
  <2>4. Down(d, r) \subseteq S  BY <2>1, <2>2, <2>3 DEF Down
  <2>5. QED  BY <2>4 DEF S
<1>5. IsFiniteSet(Down(d, r))
  <2>1. IsFiniteSet(0 .. mesh.n - 1)  BY <1>1, FS_Interval
  <2>2. QED  BY <1>1, <2>1, FS_Subset DEF Down
<1>6. QED  BY <1>3, <1>4, <1>5 DEF Down

LEMMA DownStep ==
  ASSUME mesh \in Mesh, Grid(mesh), NEW d \in Dir, NEW r \in Rank
  PROVE  /\ Below(d, r) = None => Down(d, r) = {r}
         /\ Below(d, r) # None => /\ Down(d, r) = Down(d, Below(d, r)) \cup {r}
                                  /\ r \notin Down(d, Below(d, r))
<1>1. r \in Down(d, r) /\ DownClosed(d, Down(d, r)) /\ Down(d, r) \subseteq Rank
  BY DownFacts
<1>2. ASSUME Below(d, r) = None PROVE Down(d, r) = {r}
  <2>1. DownClosed(d, {r})  BY <1>2 DEF DownClosed
  <2>2. Down(d, r) \subseteq {r}  BY <2>1 DEF Down
  <2>3. QED  BY <1>1, <2>2
<1>3. ASSUME Below(d, r) # None
      PROVE  /\ Down(d, r) = Down(d, Below(d, r)) \cup {r}
             /\ r \notin Down(d, Below(d, r))
  <2> DEFINE b == Below(d, r)
  <2>1. b \in Rank /\ b < r  BY <1>3, BelowFacts
  <2>2. /\ b \in Down(d, b) /\ DownClosed(d, Down(d, b)) /\ Down(d, b) \subseteq Rank
        /\ \A q \in Down(d, b) : q <= b
    BY <2>1, DownFacts
  <2>3. DownClosed(d, Down(d, b) \cup {r})  BY <2>2 DEF DownClosed
  <2>4. Down(d, r) \subseteq Down(d, b) \cup {r}
    <3>1. Down(d, b) \cup {r} \in SUBSET Rank  BY <2>2
    <3>2. QED  BY <2>3, <3>1 DEF Down
  <2>5. b \in Down(d, r)  BY <1>1, <1>3 DEF DownClosed
  <2>6. Down(d, b) \subseteq Down(d, r)  BY <1>1, <2>5 DEF Down
  <2>7. r \notin Down(d, b)
    <3>1. Rank \subseteq Int  BY DEF Rank
    <3> HIDE DEF b
    <3>2. b \in Int /\ r \in Int  BY <2>1, <3>1
    <3>3. ~ (r <= b)  BY <2>1, <3>2
    <3>4. QED  BY <2>2, <3>3
  <2>8. QED  BY <1>1, <2>4, <2>6, <2>7
<1>4. QED  BY <1>2, <1>3

(* A rank below r, r excepted, is below one of the ranks below r.           *)
LEMMA DownAbove ==
  ASSUME mesh \in Mesh, Grid(mesh), NEW d \in Dir, NEW r \in Rank,
         NEW y \in Down(d, r), y # r
  PROVE  \E z \in Down(d, r) : Below(d, z) = y
<1> DEFINE S == {r} \cup {q \in Rank : \E z \in Down(d, r) : Below(d, z) = q}
<1>1. r \in Down(d, r) /\ DownClosed(d, Down(d, r)) /\ Down(d, r) \subseteq Rank
  BY DownFacts
<1>2. S \subseteq Down(d, r)
  <2> SUFFICES ASSUME NEW q \in Rank, NEW z \in Down(d, r), Below(d, z) = q
               PROVE  q \in Down(d, r)
    BY <1>1
  <2>1. q # None  BY DEF Rank, None
  <2>2. QED  BY <1>1, <2>1 DEF DownClosed
<1>3. DownClosed(d, S)
  <2> SUFFICES ASSUME NEW q \in S, Below(d, q) # None
               PROVE  Below(d, q) \in S
    BY DEF DownClosed
  <2>1. q \in Down(d, r) /\ q \in Rank  BY <1>1, <1>2
  <2>2. Below(d, q) \in Rank  BY <2>1, BelowFacts
  <2>3. QED  BY <2>1, <2>2
<1>4. y \in S
  <2>1. S \in SUBSET Rank /\ r \in S  OBVIOUS
  <2> HIDE DEF S
  <2>2. QED  BY <1>3, <2>1 DEF Down
<1>5. QED  BY <1>4

LEMMA DownConnected ==
  ASSUME mesh \in Mesh, Grid(mesh), NEW d \in Dir, NEW r \in Rank,
         NEW q \in Down(d, r)
  PROVE  Connected({d}, q, r)
<1> DEFINE S == {x \in Rank : Connected({d}, x, r)}
<1>1. r \in S  BY ConnectedSelf
<1>2. DownClosed(d, S)
  <2> SUFFICES ASSUME NEW x \in S, Below(d, x) # None
               PROVE  Below(d, x) \in S
    BY DEF DownClosed
  <2>1. Below(d, x) \in Rank  BY BelowFacts
  <2>2. Connected({d}, x, Below(d, x))  BY ConnectedBelow
  <2>3. Connected({d}, Below(d, x), x)  BY <2>2, ConnectedTurned
  <2>4. Connected({d}, x, r)  OBVIOUS
  <2>5. Connected({d}, Below(d, x), r)  BY <2>3, <2>4, ConnectedOn
  <2>6. QED  BY <2>1, <2>5
<1>3. S \in SUBSET Rank  OBVIOUS
<1> HIDE DEF S
<1>4. q \in S  BY <1>1, <1>2, <1>3 DEF Down
<1>5. QED  BY <1>4 DEF S

(* A group along a direction is a chain: of two ranks of it, one is below   *)
(* the other.                                                               *)
LEMMA ConnectedIsDown ==
  ASSUME mesh \in Mesh, Grid(mesh), OneAbove(mesh), NEW d \in Dir,
         NEW q \in Rank, NEW r \in Rank, Connected({d}, q, r)
  PROVE  q \in Down(d, r) \/ r \in Down(d, q)
<1> DEFINE S == Down(d, r) \cup {x \in Rank : r \in Down(d, x)}
<1>1. r \in Down(d, r) /\ DownClosed(d, Down(d, r)) /\ Down(d, r) \subseteq Rank
  BY DownFacts
<1>2. ASSUME NEW x \in Rank, Below(d, x) # None
      PROVE  x \in S <=> Below(d, x) \in S
  <2> DEFINE y == Below(d, x)
  <2>1. y \in Rank  BY <1>2, BelowFacts
  <2>2. Down(d, x) = Down(d, y) \cup {x}  BY <1>2, DownStep
  <2>3. y \in Down(d, y)  BY <2>1, DownFacts
  <2>4. ASSUME x \in S PROVE y \in S
    <3>1. CASE x \in Down(d, r)  BY <1>1, <1>2, <3>1 DEF DownClosed
    <3>2. CASE r \in Down(d, x) /\ r # x  BY <2>1, <2>2, <3>2
    <3>3. QED  BY <1>1, <2>4, <3>1, <3>2
  <2>5. ASSUME y \in S PROVE x \in S
    <3>1. CASE r \in Down(d, y)  BY <2>2, <3>1
    <3>2. CASE y \in Down(d, r) /\ y # r
      <4>1. PICK z \in Down(d, r) : Below(d, z) = y  BY <3>2, DownAbove
      <4>2. z \in Rank  BY <1>1
      <4>3. z = x  BY <1>2, <4>1, <4>2 DEF OneAbove, Below, Rank
      <4>4. QED  BY <4>1, <4>3
    <3>3. CASE y = r  BY <2>2, <2>3, <3>3
    <3>4. QED  BY <2>5, <3>1, <3>2, <3>3
  <2>6. QED  BY <2>4, <2>5
<1>3. Closed({d}, S)
  <2> HIDE DEF S
  <2>1. QED  BY <1>2 DEF Closed
<1>4. S \in SUBSET Rank /\ r \in S  BY <1>1
<1>5. q \in S
  <2> HIDE DEF S
  <2>1. QED  BY <1>3, <1>4 DEF Connected
<1>6. QED  BY <1>5

(* Walking down from a rank counts the ranks below it.                      *)
LEMMA WalkCounts ==
  ASSUME mesh \in Mesh, Grid(mesh), NEW d \in Dir,
         brank = [r \in Rank |-> Below(d, r)], NEW x \in Rank
  PROVE  GetRankInGroup[x] = Cardinality(Down(d, x)) - 1
<1> DEFINE Walk(f) ==
             f = [r \in Rank |-> IF brank[r] = None THEN 0 ELSE 1 + f[brank[r]]]
           g == [r \in Rank |-> Cardinality(Down(d, r)) - 1]
           walk == CHOOSE f : Walk(f)
<1>1. ASSUME NEW r \in Rank
      PROVE  /\ brank[r] = Below(d, r)
             /\ brank[r] # None => brank[r] \in Rank /\ brank[r] < r
             /\ g[r] = IF brank[r] = None THEN 0 ELSE 1 + g[brank[r]]
  <2>1. brank[r] = Below(d, r)  OBVIOUS
  <2>2. brank[r] # None => brank[r] \in Rank /\ brank[r] < r  BY <2>1, BelowFacts
  <2>3. CASE brank[r] = None
    <3>1. Down(d, r) = {r}  BY <2>1, <2>3, DownStep
    <3>2. Cardinality({r}) = 1  BY FS_Singleton
    <3>3. QED  BY <2>1, <2>3, <3>1, <3>2
  <2>4. CASE brank[r] # None
    <3> DEFINE b == brank[r]
    <3>1. b \in Rank  BY <2>2, <2>4
    <3>2. Down(d, r) = Down(d, b) \cup {r} /\ r \notin Down(d, b)
      BY <2>1, <2>4, DownStep
    <3>3. IsFiniteSet(Down(d, b))  BY <3>1, DownFacts
    <3>4. Cardinality(Down(d, r)) = Cardinality(Down(d, b)) + 1
          /\ Cardinality(Down(d, b)) \in Nat
      <4> HIDE DEF b
      <4>1. QED  BY <3>2, <3>3, FS_AddElement, FS_CardinalityType
    <3>5. g[r] = Cardinality(Down(d, r)) - 1 /\ g[b] = Cardinality(Down(d, b)) - 1
      BY <3>1
    <3> HIDE DEF g, b
    <3>6. g[r] = 1 + g[b]  BY <3>4, <3>5
    <3>7. QED  BY <2>1, <2>2, <2>4, <3>6 DEF b
  <2>5. QED  BY <2>1, <2>2, <2>3, <2>4
<1>2. Walk(g)
  <2>1. g = [r \in Rank |-> g[r]]  OBVIOUS
  <2> HIDE DEF g
  <2>2. QED  BY <1>1, <2>1
<1>3. Walk(walk)
  <2> HIDE DEF g, Walk
  <2>1. QED  BY <1>2
<1>4. GetRankInGroup = walk  BY DEF GetRankInGroup
<1>5. \A r \in Rank : walk[r] = IF brank[r] = None THEN 0 ELSE 1 + walk[brank[r]]
  <2> HIDE DEF walk
  <2>1. QED  BY <1>3
<1> HIDE DEF walk, g, Walk
<1> DEFINE Differ == {r \in Rank : walk[r] # g[r]}
<1>6. Differ = {}
  <2> SUFFICES ASSUME Differ # {} PROVE FALSE  OBVIOUS
  <2> DEFINE R == OpToRel(<, Nat)
  <2>1. IsWellFoundedOn(R, Nat)  BY NatLessThanWellFounded
  <2>2. \A y, z \in Nat : y < z => <<y, z>> \in R  BY DEF OpToRel
  <2>3. Differ \subseteq Nat /\ Rank \subseteq Nat
    BY MeshAssumption DEF Rank
  <2> HIDE DEF R, Differ
  <2>4. PICK r \in Differ : \A y \in Differ : ~ (<<y, r>> \in R)
    BY <2>1, <2>3, WFMin, Zenon
  <2>5. r \in Rank /\ walk[r] # g[r]  BY DEF Differ
  <2>6. brank[r] # None  BY <1>1, <1>5, <2>5
  <2>7. brank[r] \in Rank /\ brank[r] < r  BY <1>1, <2>5, <2>6
  <2>8. brank[r] \notin Differ  BY <2>2, <2>3, <2>4, <2>7
  <2>9. walk[brank[r]] = g[brank[r]]  BY <2>7, <2>8 DEF Differ
  <2>10. walk[r] = 1 + walk[brank[r]] /\ g[r] = 1 + g[brank[r]]
    BY <1>1, <1>5, <2>5, <2>6
  <2>11. QED  BY <2>5, <2>9, <2>10
<1>7. walk[x] = g[x]  BY <1>6
<1>8. QED  BY <1>4, <1>7 DEF g

\* What gather of the last grouping left: the ranks below.
BelowKept ==
  Grouped /\ group.kind = "linear" =>
    /\ group.dir \in Dir
    /\ brank = [r \in Rank |-> Below(group.dir, r)]

LEMMA BelowKeptStep ==
  ASSUME IInv, BelowKept, Grid(mesh), [Next]_vars
  PROVE  BelowKept'
<1>1. CASE phase' # "idle"  BY <1>1 DEF BelowKept, Grouped
<1>2. CASE Split /\ phase' = "idle"
  <2> SUFFICES ASSUME Grouped', group'.kind = "linear"
               PROVE  /\ group'.dir \in Dir
                      /\ brank' = [r \in Rank |-> Below(group.dir, r)]'
    BY DEF BelowKept
  <2>1. mesh' = mesh /\ Rank' = Rank /\ \A d, r : Below(d, r)' = Below(d, r)
    BY <1>2, MeshStays DEF Split
  <2>2. group' = group /\ brank' = brank /\ phase = "color"  BY <1>2 DEF Split
  <2>3. /\ group \in [kind : Kind, dir : Dir]
        /\ InFirstPass \/ InSecondPass
        /\ brank = [r \in Rank |-> Below(Head(todo), r)]
    BY <2>2 DEF IInv
  <2>4. InFirstPass  BY <2>2, <2>3 DEF InSecondPass
  <2>5. todo = <<group.dir>>  BY <2>2, <2>4 DEF InFirstPass, Passes
  <2>6. Head(todo) = group.dir  BY <2>5
  <2>7. group'.dir \in Dir  BY <2>2, <2>3
  <2>8. brank' = [r \in Rank |-> Below(group.dir, r)]  BY <2>2, <2>3, <2>6
  <2>9. [r \in Rank |-> Below(group.dir, r)]' = [r \in Rank |-> Below(group.dir, r)]
    BY <2>1, <2>2
  <2>10. QED  BY <2>7, <2>8, <2>9
<1>3. CASE UNCHANGED vars
  <2>1. /\ mesh' = mesh /\ Rank' = Rank /\ \A d, r : Below(d, r)' = Below(d, r)
        /\ group' = group /\ brank' = brank /\ phase' = phase
    BY <1>3, MeshStays DEF vars
  <2>2. QED  BY <2>1 DEF BelowKept, Grouped
<1>4. QED  BY <1>1, <1>2, <1>3 DEF Next, Regroup, GatherBelow, ColorRank, Finished

(* In every grid in which no two ranks have the same rank below, the rank   *)
(* that a linear exchanger finds by walking down is its place among the     *)
(* ranks of its communicator, after any sequence of regroupings: what       *)
(* GatherAll puts at place n comes from the block n above the lowest.       *)
THEOREM GatherInOrder ==
  ASSUME \A msh \in Mesh : Grid(msh) /\ OneAbove(msh)
  PROVE  Spec => []GatheredInOrder
<1>1. Spec => []IInv  BY GroupingInvariant
<1>2. IInv => mesh \in Mesh /\ Grid(mesh) /\ OneAbove(mesh)  BY DEF IInv, TypeOK
<1>3. Init => BelowKept  BY DEF Init, BelowKept, Grouped
<1>4. IInv /\ BelowKept /\ [Next]_vars => BelowKept'  BY <1>2, BelowKeptStep
<1>5. IInv /\ BelowKept => GatheredInOrder
  <2> SUFFICES ASSUME IInv, BelowKept, Grouped, group.kind = "linear", NEW r \in Rank
               PROVE  GetRankInGroup[r] = Cardinality({q \in comm[r] : q < r})
    BY DEF GatheredInOrder
  <2> DEFINE d == group.dir
  <2>1. /\ mesh \in Mesh /\ Grid(mesh) /\ OneAbove(mesh)
        /\ d \in Dir /\ brank = [x \in Rank |-> Below(d, x)]
    BY <1>2 DEF BelowKept
  <2>2. Across(group) = {d}  BY DEF Across
  <2>3. \A q \in Rank : q \in comm[r] <=> Connected({d}, q, r)
    BY <2>2 DEF IInv, GroupsConnected
  <2>4. comm[r] \subseteq Rank  BY DEF IInv, TypeOK
  <2>5. Rank \subseteq Int  BY DEF Rank
  <2>6. /\ r \in Down(d, r) /\ Down(d, r) \subseteq Rank /\ IsFiniteSet(Down(d, r))
        /\ \A q \in Down(d, r) : q <= r
    BY <2>1, DownFacts
  <2>7. ASSUME NEW q \in Rank
        PROVE  q \in comm[r] /\ q < r <=> q \in Down(d, r) /\ q # r
    <3>1. q \in Int /\ r \in Int  BY <2>5
    <3>2. ASSUME q \in comm[r], q < r PROVE q \in Down(d, r) /\ q # r
      <4>1. Connected({d}, q, r)  BY <2>3, <3>2
      <4>2. q \in Down(d, r) \/ r \in Down(d, q)  BY <2>1, <4>1, ConnectedIsDown
      <4>3. \A y \in Down(d, q) : y <= q  BY <2>1, DownFacts
      <4>4. ~ (r <= q)  BY <3>1, <3>2
      <4>5. QED  BY <3>1, <3>2, <4>2, <4>3, <4>4
    <3>3. ASSUME q \in Down(d, r), q # r PROVE q \in comm[r] /\ q < r
      <4>1. Connected({d}, q, r)  BY <2>1, <3>3, DownConnected
      <4>2. q <= r  BY <2>6, <3>3
      <4>3. QED  BY <2>3, <3>1, <3>3, <4>1, <4>2
    <3>4. QED  BY <3>2, <3>3
  <2>8. {q \in comm[r] : q < r} = Down(d, r) \ {r}  BY <2>4, <2>6, <2>7
  <2>9. Cardinality(Down(d, r) \ {r}) = Cardinality(Down(d, r)) - 1
    BY <2>6, FS_RemoveElement
  <2>10. GetRankInGroup[r] = Cardinality(Down(d, r)) - 1  BY <2>1, WalkCounts
  <2>11. QED  BY <2>8, <2>9, <2>10
<1>6. QED  BY <1>1, <1>3, <1>4, <1>5, PTL DEF Spec

=============================================================================
