---------------------- MODULE ColumnRadiationTheorems ----------------------
(* Proofs about ColumnRadiation, for any stack of blocks, any number of     *)
(* columns and time steps.  All ranks run the same loop on counters of the  *)
(* same value; so their n-th calls of GatherAll in a step are for the same  *)
(* column, and what they gather and keep depends only on the step and the   *)
(* column.                                                                  *)
EXTENDS ColumnRadiation, SequenceTheorems, WellFoundedInduction, TLAPS

\* What is at place p of the buffers gathered for column c in step s.
Entry(s, c, p) ==
  IF p \div SendSize \in Rank THEN Packed(p \div SendSize, s, c, p % SendSize) ELSE Outside
TemfEntry(s, c, p) ==
  IF p \div nlevels \in Rank
  THEN [block |-> p \div nlevels, step |-> s, column |-> c, face |-> (p % nlevels) - NGHOST]
  ELSE Outside

\* What every rank solves for column c in step s, and rank r keeps of it.
TemperOf(s, c) ==
  [l \in 0 .. nlyr |->
    LET up == nlyr - l
        q  == LastWriter(up)
    IN  TemfEntry(s, c, q * nlevels + (up - q * nlayers) + NGHOST)]
LayersOf(s, c, b) == [l \in 0 .. nlyr - 1 |-> Entry(s, c, b * nlayers + (nlyr - 1 - l))]
Given(s, c) ==
  [b \in 0 .. nspec - 1 |-> [temper |-> TemperOf(s, c), layers |-> LayersOf(s, c, b)]]
Keeps(r, s, c) ==
  [step |-> s, given |-> Given(s, c), face |-> BandFlux(r, c, Given(s, c))]

FluxOf(r, s, c) == IF s = 0 THEN NoFlux ELSE Keeps(r, s, c)

\* The fluxes of rank r when the columns before j are those of step t, the
\* others those of step s.
Fluxes(r, j, t, s) ==
  [c \in 1 .. ncolumns |-> FluxOf(r, IF c < j THEN t ELSE s, c)]

Call == [step : 1 .. MaxStep, column : 1 .. ncolumns]
Calls(t, n) == [m \in 1 .. n |-> [step |-> t, column |-> m]]
Stored == {FluxOf(r, s, c) : r \in Rank, s \in 0 .. MaxStep, c \in 1 .. ncolumns}

Typed ==
  /\ step \in 1 .. MaxStep /\ dt \in Dt /\ last \in Dt \cup {0} /\ age \in Nat
  /\ pc \in [Rank -> {"add", "count", "pack", "gather", "done"}]
  /\ counter \in [Rank -> Int]
  /\ column \in [Rank -> 1 .. ncolumns]
  /\ sent \in [Rank -> Seq(Call)]
  /\ flux \in [Rank -> [1 .. ncolumns -> Stored]]
  /\ added \in [Rank -> [1 .. ncolumns -> Stored]]

(* Where rank r is in a step that began with counters of k and fluxes of    *)
(* step s everywhere.                                                       *)
Before(r, k, s) ==
  counter[r] = k /\ sent[r] = <<>> /\ flux[r] = Fluxes(r, 1, step, s)

Renewing(r, k, s) ==
  /\ k <= 0 /\ counter[r] = Cooldown
  /\ sent[r] = Calls(step, IF pc[r] = "pack" THEN column[r] - 1 ELSE column[r])
  /\ flux[r] = Fluxes(r, column[r], step, s)

After(r, k, s) ==
  IF k > 0
  THEN counter[r] = k - dt /\ sent[r] = <<>> /\ flux[r] = Fluxes(r, 1, step, s)
  ELSE /\ counter[r] = Cooldown /\ sent[r] = Calls(step, ncolumns)
       /\ flux[r] = Fluxes(r, ncolumns + 1, step, s)

InStep(r, k, s) ==
  /\ pc[r] \in {"add", "count"} => Before(r, k, s)
  /\ pc[r] \in {"pack", "gather"} => Renewing(r, k, s)
  /\ pc[r] = "done" => After(r, k, s)
  /\ pc[r] # "add" => added[r] = Fluxes(r, 1, step, s)

\* How old the fluxes of step s are.
Aged(k, s) ==
  s # 0 => k = Cooldown - age /\ (age = 0 \/ age - last < Cooldown)

Lockstep ==
  \E k \in Int, s \in 0 .. step - 1 : Aged(k, s) /\ \A r \in Rank : InStep(r, k, s)

IInv == Typed /\ Lockstep

-----------------------------------------------------------------------------
(* The fluxes a rank can have are of the type of flux and added.            *)
LEMMA FluxesTyped ==
  ASSUME NEW r \in Rank, NEW j \in Int, NEW t \in 0 .. MaxStep, NEW s \in 0 .. MaxStep
  PROVE  Fluxes(r, j, t, s) \in [1 .. ncolumns -> Stored]
<1>1. ASSUME NEW c \in 1 .. ncolumns
      PROVE  FluxOf(r, IF c < j THEN t ELSE s, c) \in Stored
  <2> DEFINE u == IF c < j THEN t ELSE s
  <2>1. u \in 0 .. MaxStep OBVIOUS
  <2> HIDE DEF u
  <2>2. FluxOf(r, u, c) \in Stored BY <2>1 DEF Stored
  <2>3. QED BY <2>2 DEF u
<1>2. QED BY <1>1, Zenon DEF Fluxes

(* Calls of a rank in their order.                                          *)
LEMMA CallsTyped ==
  ASSUME NEW t \in 1 .. MaxStep, NEW n \in 0 .. ncolumns
  PROVE  /\ Calls(t, n) \in Seq(Call)
         /\ Len(Calls(t, n)) = n
         /\ \A m \in 1 .. n : Calls(t, n)[m] = [step |-> t, column |-> m]
<1>1. ncolumns \in Nat /\ n \in Nat BY RadiationAssumption
<1>2. \A m \in 1 .. n : m \in 1 .. ncolumns BY <1>1
<1>3. \A m \in 1 .. n : [step |-> t, column |-> m] \in Call BY <1>2 DEF Call
<1>4. Calls(t, n) \in [1 .. n -> Call] BY <1>3, Zenon DEF Calls
<1>5. Calls(t, n) \in Seq(Call) BY <1>1, <1>4
<1>6. DOMAIN Calls(t, n) = 1 .. n BY DEF Calls
<1>7. Len(Calls(t, n)) = n BY <1>1, <1>5, <1>6
<1>8. QED BY <1>5, <1>7, Zenon DEF Calls

LEMMA CallsNone ==
  ASSUME NEW t
  PROVE  Calls(t, 0) = <<>>
BY DEF Calls

(* One more call.                                                           *)
LEMMA CallsAppend ==
  ASSUME NEW t \in 1 .. MaxStep, NEW n \in 1 .. ncolumns
  PROVE  Append(Calls(t, n - 1), [step |-> t, column |-> n]) = Calls(t, n)
<1>1. ncolumns \in Nat /\ n \in Nat /\ n - 1 \in 0 .. ncolumns BY RadiationAssumption
<1>2. Calls(t, n - 1) \in Seq(Call) /\ Len(Calls(t, n - 1)) = n - 1
  BY <1>1, CallsTyped
<1>3. QED BY <1>1, <1>2 DEF Calls

(* With the columns below j renewed, renewing column j leaves those below   *)
(* j + 1.                                                                   *)
LEMMA FluxesRenewed ==
  ASSUME NEW r \in Rank, NEW j \in 1 .. ncolumns,
         NEW t \in 1 .. MaxStep, NEW s \in 0 .. MaxStep
  PROVE  [Fluxes(r, j, t, s) EXCEPT ![j] = Keeps(r, t, j)]
           = Fluxes(r, j + 1, t, s)
<1>1. ncolumns \in Nat /\ t # 0 BY RadiationAssumption
<1>2. Keeps(r, t, j) = FluxOf(r, t, j) BY <1>1, Zenon DEF FluxOf
<1>3. \A c \in 1 .. ncolumns : c # j => (c < j <=> c < j + 1) BY <1>1
<1>4. j < j + 1 BY <1>1
<1> DEFINE one == [Fluxes(r, j, t, s) EXCEPT ![j] = Keeps(r, t, j)]
           two == Fluxes(r, j + 1, t, s)
<1>5. \A c \in 1 .. ncolumns : one[c] = two[c]
  BY <1>2, <1>3, <1>4 DEF Fluxes
<1>6. one = [c \in 1 .. ncolumns |-> one[c]] /\ two = [c \in 1 .. ncolumns |-> two[c]]
  BY DEF Fluxes
<1>7. QED BY <1>5, <1>6, Zenon

(* What is gathered when all ranks that have come to the n-th call made it  *)
(* for column n is that column.                                             *)
LEMMA GatheredColumn ==
  ASSUME NEW n, \A q \in Rank : sent[q][n] = [step |-> step, column |-> n]
  PROVE  Gathered(n) = Given(step, n)
<1>1. \A q \in Rank : sent[q][n].step = step /\ sent[q][n].column = n OBVIOUS
<1>2. ASSUME NEW p PROVE Received(n, p) = Entry(step, n, p)
  <2>1. CASE p \div SendSize \in Rank
    <3> DEFINE q == p \div SendSize
    <3>1. Received(n, p) = Packed(q, sent[q][n].step, sent[q][n].column, p % SendSize)
      BY <2>1 DEF Received
    <3>2. sent[q][n].step = step /\ sent[q][n].column = n BY <1>1, <2>1, Zenon
    <3>3. Entry(step, n, p) = Packed(q, step, n, p % SendSize) BY <2>1, Zenon DEF Entry
    <3>4. QED BY <3>1, <3>2, <3>3, Zenon
  <2>2. CASE p \div SendSize \notin Rank
    BY <2>2 DEF Received, Entry
  <2>3. QED BY <2>1, <2>2
<1>3. ASSUME NEW p PROVE ReceivedTemf(n, p) = TemfEntry(step, n, p)
  <2>1. CASE p \div nlevels \in Rank
    <3> DEFINE q == p \div nlevels
    <3>1. ReceivedTemf(n, p) =
            [block |-> q, step |-> sent[q][n].step, column |-> sent[q][n].column,
             face |-> (p % nlevels) - NGHOST]
      BY <2>1, Zenon DEF ReceivedTemf
    <3>2. sent[q][n].step = step /\ sent[q][n].column = n BY <1>1, <2>1, Zenon
    <3>3. TemfEntry(step, n, p) =
            [block |-> q, step |-> step, column |-> n, face |-> (p % nlevels) - NGHOST]
      BY <2>1, Zenon DEF TemfEntry
    <3>4. QED BY <3>1, <3>2, <3>3, Zenon
  <2>2. CASE p \div nlevels \notin Rank
    BY <2>2, Zenon DEF ReceivedTemf, TemfEntry
  <2>3. QED BY <2>1, <2>2
<1>4. UnpackedTemf(n) = TemperOf(step, n) BY <1>3, Zenon DEF UnpackedTemf, TemperOf
<1>5. \A b : Unpacked(n, b) = LayersOf(step, n, b) BY <1>2, Zenon DEF Unpacked, LayersOf
<1>6. QED BY <1>4, <1>5, Zenon DEF Gathered, Given

-----------------------------------------------------------------------------
LEMMA InitInvariant == Init => IInv
<1> SUFFICES ASSUME Init PROVE IInv
  OBVIOUS
<1>1. MaxStep \in Nat \ {0} /\ 1 \in 1 .. MaxStep /\ 0 \in 0 .. MaxStep
  BY RadiationAssumption
<1>2. ncolumns \in Nat \ {0} /\ 1 \in 1 .. ncolumns BY RadiationAssumption
<1>3. ASSUME NEW r \in Rank PROVE [c \in 1 .. ncolumns |-> NoFlux] = Fluxes(r, 1, step, 0)
  <2>1. \A c \in 1 .. ncolumns : ~ (c < 1) BY <1>2
  <2>2. QED BY <2>1 DEF Fluxes, FluxOf
<1>4. ASSUME NEW r \in Rank PROVE [c \in 1 .. ncolumns |-> NoFlux] \in [1 .. ncolumns -> Stored]
  BY <1>1, <1>3, FluxesTyped DEF Init
<1>5. Typed
  <2>1. step \in 1 .. MaxStep /\ dt \in Dt /\ last \in Dt \cup {0} /\ age \in Nat
    BY <1>1 DEF Init
  <2>2. pc \in [Rank -> {"add", "count", "pack", "gather", "done"}] BY DEF Init
  <2>3. counter \in [Rank -> Int] /\ column \in [Rank -> 1 .. ncolumns] BY <1>2 DEF Init
  <2>4. sent \in [Rank -> Seq(Call)] BY DEF Init
  <2>5. flux \in [Rank -> [1 .. ncolumns -> Stored]] BY <1>4, Zenon DEF Init
  <2>6. added \in [Rank -> [1 .. ncolumns -> Stored]] BY <1>4, Zenon DEF Init
  <2>7. QED BY <2>1, <2>2, <2>3, <2>4, <2>5, <2>6, Zenon DEF Typed
<1>6. \A r \in Rank : InStep(r, 0, 0) BY <1>3 DEF Init, InStep, Before
<1>7. Aged(0, 0) BY DEF Aged
<1>8. 0 \in 0 .. step - 1 BY DEF Init
<1>9. Lockstep BY <1>6, <1>7, <1>8 DEF Lockstep
<1>10. QED BY <1>5, <1>9, Zenon DEF IInv

(* A rank nothing happens to stays where it is.                             *)
LEMMA OthersStay ==
  ASSUME NEW q \in Rank, NEW k, NEW s, InStep(q, k, s),
         step' = step, dt' = dt, pc'[q] = pc[q], counter'[q] = counter[q],
         column'[q] = column[q], sent'[q] = sent[q], flux'[q] = flux[q],
         added'[q] = added[q]
  PROVE  InStep(q, k, s)'
BY DEF InStep, Before, Renewing, After

(* A step of rank r keeps the invariant if it keeps that of rank r.         *)
LEMMA OneRank ==
  ASSUME Typed', NEW r \in Rank, NEW k \in Int, NEW s \in 0 .. step - 1, Aged(k, s),
         UNCHANGED <<step, dt, last, age>>, InStep(r, k, s)',
         \A q \in Rank : InStep(q, k, s),
         \A q \in Rank \ {r} :
           /\ pc'[q] = pc[q] /\ counter'[q] = counter[q] /\ column'[q] = column[q]
           /\ sent'[q] = sent[q] /\ flux'[q] = flux[q] /\ added'[q] = added[q]
  PROVE  IInv'
<1>1. \A q \in Rank : InStep(q, k, s)'
  <2> TAKE q \in Rank
  <2>1. CASE q = r BY <2>1
  <2>2. CASE q # r BY <2>2, OthersStay
  <2>3. QED BY <2>1, <2>2
<1>2. Aged(k, s)' BY DEF Aged
<1>3. s \in 0 .. step' - 1 OBVIOUS
<1>4. QED BY <1>1, <1>2, <1>3 DEF IInv, Lockstep

LEMMA AddInvariant ==
  ASSUME IInv, NEW r \in Rank, AddRadiativeFlux(r)
  PROVE  IInv'
<1>1. PICK k \in Int, s \in 0 .. step - 1 : Aged(k, s) /\ \A q \in Rank : InStep(q, k, s)
  BY DEF IInv, Lockstep
<1>2. Typed' BY DEF IInv, Typed, AddRadiativeFlux
<1>3. pc[r] = "add" /\ pc'[r] = "count" BY DEF IInv, Typed, AddRadiativeFlux
<1>4. added'[r] = flux[r] BY DEF IInv, Typed, AddRadiativeFlux
<1>5. UNCHANGED <<step, dt, last, age, counter, column, sent, flux>> BY DEF AddRadiativeFlux
<1>6. Before(r, k, s) BY <1>1, <1>3 DEF InStep
<1>7. InStep(r, k, s)' BY <1>3, <1>4, <1>5, <1>6 DEF InStep, Before
<1>8. \A q \in Rank \ {r} : pc'[q] = pc[q] /\ added'[q] = added[q]
  BY DEF IInv, Typed, AddRadiativeFlux
<1>9. QED BY <1>1, <1>2, <1>5, <1>7, <1>8, OneRank

LEMMA CountInvariant ==
  ASSUME IInv, NEW r \in Rank, Count(r)
  PROVE  IInv'
<1>1. PICK k \in Int, s \in 0 .. step - 1 : Aged(k, s) /\ \A q \in Rank : InStep(q, k, s)
  BY DEF IInv, Lockstep
<1> USE RadiationAssumption
<1>2. counter[r] \in Int /\ dt \in Int /\ Cooldown \in Int BY DEF IInv, Typed
<1>3. 1 \in 1 .. ncolumns OBVIOUS
<1>4. Typed'
  <2>1. counter' \in [Rank -> Int] BY <1>2 DEF IInv, Typed, Count
  <2>2. pc' \in [Rank -> {"add", "count", "pack", "gather", "done"}]
    BY DEF IInv, Typed, Count
  <2>3. column' \in [Rank -> 1 .. ncolumns] BY <1>3 DEF IInv, Typed, Count
  <2>4. QED BY <2>1, <2>2, <2>3 DEF IInv, Typed, Count
<1>5. UNCHANGED <<step, dt, last, age, sent, flux, added>> BY DEF Count
<1>6. Before(r, k, s) /\ added[r] = Fluxes(r, 1, step, s) BY <1>1 DEF InStep, Count
<1>7. column'[r] = 1 BY DEF IInv, Typed, Count
<1>8. InStep(r, k, s)'
  <2>1. CASE k > 0
    <3>1. counter'[r] = k - dt /\ pc'[r] = "done"
      BY <2>1, <1>6 DEF IInv, Typed, Count, Reuse, Before
    <3>2. After(r, k, s)' BY <2>1, <3>1, <1>5, <1>6 DEF After, Before
    <3>3. QED BY <3>1, <3>2, <1>5, <1>6 DEF InStep
  <2>2. CASE ~ (k > 0)
    <3>1. counter'[r] = Cooldown /\ pc'[r] = "pack"
      BY <2>2, <1>6 DEF IInv, Typed, Count, Reuse, Before
    <3>2. sent'[r] = Calls(step, 1 - 1) BY <1>5, <1>6, CallsNone DEF Before
    <3>3. Renewing(r, k, s)'
      BY <2>2, <3>1, <3>2, <1>5, <1>6, <1>7 DEF Renewing, Before
    <3>4. QED BY <3>1, <3>3, <1>5, <1>6 DEF InStep
  <2>3. QED BY <2>1, <2>2
<1>9. \A q \in Rank \ {r} :
        pc'[q] = pc[q] /\ counter'[q] = counter[q] /\ column'[q] = column[q]
  BY DEF IInv, Typed, Count
<1>10. QED BY <1>1, <1>4, <1>5, <1>8, <1>9, OneRank

LEMMA GatherInvariant ==
  ASSUME IInv, NEW r \in Rank, GatherAll(r)
  PROVE  IInv'
<1>1. PICK k \in Int, s \in 0 .. step - 1 : Aged(k, s) /\ \A q \in Rank : InStep(q, k, s)
  BY DEF IInv, Lockstep
<1>2. step \in 1 .. MaxStep /\ column[r] \in 1 .. ncolumns BY DEF IInv, Typed
<1>3. [step |-> step, column |-> column[r]] \in Call BY <1>2 DEF Call
<1>4. Typed' BY <1>3 DEF IInv, Typed, GatherAll
<1>5. UNCHANGED <<step, dt, last, age, counter, column, flux, added>> BY DEF GatherAll
<1>6. pc[r] = "pack" /\ pc'[r] = "gather" BY DEF IInv, Typed, GatherAll
<1>7. Renewing(r, k, s) /\ added[r] = Fluxes(r, 1, step, s) BY <1>1, <1>6 DEF InStep
<1>8. sent'[r] = Append(sent[r], [step |-> step, column |-> column[r]])
  BY DEF IInv, Typed, GatherAll
<1>9. sent'[r] = Calls(step, column[r])
  BY <1>2, <1>6, <1>7, <1>8, CallsAppend DEF Renewing
<1>10. InStep(r, k, s)' BY <1>5, <1>6, <1>7, <1>9 DEF InStep, Renewing
<1>11. \A q \in Rank \ {r} : pc'[q] = pc[q] /\ sent'[q] = sent[q]
  BY DEF IInv, Typed, GatherAll
<1>12. QED BY <1>1, <1>4, <1>5, <1>10, <1>11, OneRank

(* Ranks that have entered the n-th call of a step entered it for column n. *)
LEMMA SameColumn ==
  ASSUME IInv, NEW k \in Int, NEW s, k <= 0, NEW q \in Rank, InStep(q, k, s),
         NEW n \in 1 .. ncolumns, Len(sent[q]) >= n
  PROVE  sent[q][n] = [step |-> step, column |-> n]
<1>1. ncolumns \in Nat \ {0} BY RadiationAssumption
<1>2. step \in 1 .. MaxStep /\ column[q] \in 1 .. ncolumns BY DEF IInv, Typed
<1>3. pc[q] \notin {"add", "count"} BY DEF InStep, Before
<1>4. PICK m \in 0 .. ncolumns : sent[q] = Calls(step, m)
  <2>1. CASE pc[q] = "done"
    <3>1. After(q, k, s) BY <2>1 DEF InStep
    <3>2. sent[q] = Calls(step, ncolumns) BY <3>1 DEF After
    <3>3. ncolumns \in 0 .. ncolumns BY <1>1
    <3>4. QED BY <3>2, <3>3, Zenon
  <2>2. CASE pc[q] \in {"pack", "gather"}
    <3> DEFINE m == IF pc[q] = "pack" THEN column[q] - 1 ELSE column[q]
    <3>1. Renewing(q, k, s) BY <2>2 DEF InStep
    <3>2. sent[q] = Calls(step, m) BY <3>1, Zenon DEF Renewing
    <3>3. m \in 0 .. ncolumns BY <1>1, <1>2
    <3>4. QED BY <3>2, <3>3, Zenon
  <2>3. QED BY <1>3, <2>1, <2>2 DEF IInv, Typed
<1>5. Len(Calls(step, m)) = m BY <1>2, CallsTyped
<1>6. n \in 1 .. m BY <1>1, <1>4, <1>5
<1>7. QED BY <1>2, <1>4, <1>6, CallsTyped

LEMMA SolveInvariant ==
  ASSUME IInv, NEW r \in Rank, CalBandFlux(r)
  PROVE  IInv'
<1>1. PICK k \in Int, s \in 0 .. step - 1 : Aged(k, s) /\ \A q \in Rank : InStep(q, k, s)
  BY DEF IInv, Lockstep
<1> DEFINE n == column[r]
<1>2. /\ step \in 1 .. MaxStep /\ n \in 1 .. ncolumns
      /\ ncolumns \in Nat \ {0} /\ MaxStep \in Nat
  BY RadiationAssumption DEF IInv, Typed
<1>3. s \in 0 .. MaxStep BY <1>2
<1>4. pc[r] = "gather" BY DEF CalBandFlux
<1>5. Renewing(r, k, s) /\ added[r] = Fluxes(r, 1, step, s) BY <1>1, <1>4 DEF InStep
<1>6. k <= 0 /\ sent[r] = Calls(step, n) /\ flux[r] = Fluxes(r, n, step, s)
  BY <1>4, <1>5 DEF Renewing
<1>7. Len(sent[r]) = n
  <2>1. n \in 0 .. ncolumns BY <1>2
  <2>2. QED BY <1>2, <1>6, <2>1, CallsTyped
<1>8. \A q \in Rank : Len(sent[q]) >= n BY <1>7, Zenon DEF CalBandFlux
<1>9. \A q \in Rank : sent[q][n] = [step |-> step, column |-> n]
  BY <1>1, <1>2, <1>6, <1>8, SameColumn
<1>10. Gathered(n) = Given(step, n) BY <1>9, GatheredColumn
<1> HIDE DEF n
<1>11. flux' = [flux EXCEPT ![r][n] = Keeps(r, step, n)]
  BY <1>7, <1>10, Zenon DEF CalBandFlux, Keeps, n
<1>12. flux'[r] = Fluxes(r, n + 1, step, s)
  <2>1. flux'[r] = [Fluxes(r, n, step, s) EXCEPT
                      ![n] = Keeps(r, step, n)]
    BY <1>6, <1>11 DEF IInv, Typed
  <2>2. QED BY <1>2, <1>3, <2>1, FluxesRenewed
<1>13. \A q \in Rank \ {r} : flux'[q] = flux[q] BY <1>11 DEF IInv, Typed
<1>14. UNCHANGED <<step, dt, last, age, counter, sent, added>> BY DEF CalBandFlux
<1>15. flux' \in [Rank -> [1 .. ncolumns -> Stored]]
  <2>1. n + 1 \in Int /\ step \in 0 .. MaxStep BY <1>2
  <2>2. flux'[r] \in [1 .. ncolumns -> Stored] BY <1>3, <1>12, <2>1, FluxesTyped
  <2>3. \A q \in Rank : flux'[q] \in [1 .. ncolumns -> Stored]
    BY <1>13, <2>2 DEF IInv, Typed
  <2>4. flux' = [q \in Rank |-> flux'[q]] BY <1>11 DEF IInv, Typed
  <2>5. QED BY <2>3, <2>4
<1>16. CASE LastColumn(r)
  <2>1. n = ncolumns BY <1>16 DEF LastColumn, n
  <2>2. pc' = [pc EXCEPT ![r] = "done"] /\ column' = column
    BY <1>16 DEF CalBandFlux
  <2>3. Typed' BY <2>2, <1>14, <1>15 DEF IInv, Typed
  <2>4. pc'[r] = "done" BY <2>2 DEF IInv, Typed
  <2>5. After(r, k, s)'
    BY <1>5, <1>6, <1>12, <1>14, <2>1 DEF After, Renewing
  <2>6. InStep(r, k, s)' BY <2>4, <2>5, <1>5, <1>14 DEF InStep
  <2>7. \A q \in Rank \ {r} : pc'[q] = pc[q] BY <2>2 DEF IInv, Typed
  <2>8. QED BY <1>1, <1>13, <1>14, <2>2, <2>3, <2>6, <2>7, OneRank
<1>17. CASE ~ LastColumn(r)
  <2>1. n + 1 \in 1 .. ncolumns BY <1>2, <1>17 DEF LastColumn, n
  <2>2. /\ pc' = [pc EXCEPT ![r] = "pack"]
        /\ column' = [column EXCEPT ![r] = n + 1]
    BY <1>17 DEF CalBandFlux, n
  <2>3. Typed' BY <2>1, <2>2, <1>14, <1>15 DEF IInv, Typed
  <2>4. pc'[r] = "pack" /\ column'[r] = n + 1 BY <2>2 DEF IInv, Typed
  <2>5. (n + 1) - 1 = n BY <1>2
  <2>6. Renewing(r, k, s)'
    BY <1>5, <1>6, <1>12, <1>14, <2>4, <2>5 DEF Renewing
  <2>7. InStep(r, k, s)' BY <2>4, <2>6, <1>5, <1>14 DEF InStep
  <2>8. \A q \in Rank \ {r} : pc'[q] = pc[q] /\ column'[q] = column[q]
    BY <2>2 DEF IInv, Typed
  <2>9. QED BY <1>1, <1>13, <1>14, <2>3, <2>7, <2>8, OneRank
<1>18. QED BY <1>16, <1>17

\* Before a step it does not matter which it is; after one in which all
\* fluxes were renewed they are all those of the step.
LEMMA FluxesOld ==
  ASSUME NEW r, NEW s, NEW t, NEW u
  PROVE  Fluxes(r, 1, t, s) = Fluxes(r, 1, u, s)
<1>1. \A c \in 1 .. ncolumns : ~ (c < 1) BY RadiationAssumption
<1>2. QED BY <1>1 DEF Fluxes

LEMMA FluxesAll ==
  ASSUME NEW r, NEW s, NEW t, NEW u
  PROVE  Fluxes(r, ncolumns + 1, t, s) = Fluxes(r, 1, u, t)
<1>1. \A c \in 1 .. ncolumns : c < ncolumns + 1 /\ ~ (c < 1) BY RadiationAssumption
<1>2. QED BY <1>1 DEF Fluxes

LEMMA NewTimeStepInvariant ==
  ASSUME IInv, NewTimeStep
  PROVE  IInv'
<1>1. PICK k \in Int, s \in 0 .. step - 1 : Aged(k, s) /\ \A q \in Rank : InStep(q, k, s)
  BY DEF IInv, Lockstep
<1>2. /\ step \in 1 .. MaxStep /\ dt \in Nat \ {0} /\ dt \in Dt /\ age \in Nat
      /\ ncolumns \in Nat \ {0} /\ MaxStep \in Nat /\ Cooldown \in Nat
      /\ Dt \subseteq Nat
  BY RadiationAssumption DEF IInv, Typed
<1>3. /\ step' = step + 1 /\ step + 1 \in 1 .. MaxStep /\ dt' \in Dt /\ last' = dt
      /\ age' = Elapsed /\ sent' = [r \in Rank |-> <<>>]
      /\ pc' = [r \in Rank |-> "add"]
      /\ UNCHANGED <<counter, column, flux, added>>
  BY <1>2 DEF NewTimeStep
<1>4. Elapsed \in Nat BY <1>2 DEF Elapsed
<1>5. Typed'
  <2>1. sent' \in [Rank -> Seq(Call)] BY <1>3
  <2>2. pc' \in [Rank -> {"add", "count", "pack", "gather", "done"}] BY <1>3
  <2>3. QED BY <1>3, <1>4, <2>1, <2>2 DEF IInv, Typed
<1>6. \A r \in Rank : After(r, k, s) BY <1>1 DEF InStep, NewTimeStep, StepDone
<1>7. \A r \in Rank : pc'[r] = "add" /\ sent'[r] = <<>> BY <1>3
<1>8. CASE k > 0
  <2>1. \A r \in Rank : counter[r] = k - dt /\ sent[r] = <<>> /\ flux[r] = Fluxes(r, 1, step, s)
    BY <1>6, <1>8 DEF After
  <2>2. age' = age + dt BY <1>3, <2>1 DEF Elapsed
  <2>3. PICK k1 \in Int : k1 = k - dt BY <1>2
  <2>4. \A r \in Rank : InStep(r, k1, s)'
    <3> TAKE r \in Rank
    <3>1. flux'[r] = Fluxes(r, 1, step', s) BY <1>3, <2>1, FluxesOld
    <3>2. Before(r, k1, s)' BY <1>3, <1>7, <2>1, <2>3, <3>1 DEF Before
    <3>3. QED BY <1>7, <3>2 DEF InStep
  <2>5. Aged(k1, s)'
    <3>1. SUFFICES ASSUME s # 0
                   PROVE  k1 = Cooldown - age' /\ age' - last' < Cooldown
      BY Zenon DEF Aged
    <3>2. k = Cooldown - age BY <1>1, <3>1 DEF Aged
    <3>3. k1 = Cooldown - age' BY <1>2, <2>2, <2>3, <3>2
    <3>4. age' - last' < Cooldown BY <1>2, <1>3, <1>8, <2>2, <3>2
    <3>5. QED BY <3>3, <3>4
  <2>6. s \in 0 .. step' - 1 BY <1>2, <1>3
  <2>7. Lockstep' BY <2>4, <2>5, <2>6 DEF Lockstep
  <2>8. QED BY <1>5, <2>7 DEF IInv
<1>9. CASE ~ (k > 0)
  <2>1. \A r \in Rank : /\ counter[r] = Cooldown /\ sent[r] = Calls(step, ncolumns)
                        /\ flux[r] = Fluxes(r, ncolumns + 1, step, s)
    BY <1>6, <1>9 DEF After
  <2>2. age' = 0
    <3>1. 0 \in Rank BY RadiationAssumption DEF Rank
    <3>2. ncolumns \in 0 .. ncolumns BY <1>2
    <3>3. Len(Calls(step, ncolumns)) = ncolumns BY <1>2, <3>2, CallsTyped
    <3>4. sent[0] # <<>> BY <1>2, <2>1, <3>1, <3>3
    <3>5. QED BY <1>3, <3>1, <3>4 DEF Elapsed
  <2>3. PICK s1 \in 0 .. step' - 1 : s1 = step BY <1>2, <1>3
  <2>4. \A r \in Rank : InStep(r, Cooldown, s1)'
    <3> TAKE r \in Rank
    <3>1. flux'[r] = Fluxes(r, 1, step', s1) BY <1>3, <2>1, <2>3, FluxesAll
    <3>2. Before(r, Cooldown, s1)' BY <1>3, <1>7, <2>1, <3>1 DEF Before
    <3>3. QED BY <1>7, <3>2 DEF InStep
  <2>5. Aged(Cooldown, s1)' BY <1>2, <2>2 DEF Aged
  <2>6. Cooldown \in Int BY <1>2
  <2>7. Lockstep' BY <2>4, <2>5, <2>6 DEF Lockstep
  <2>8. QED BY <1>5, <2>7 DEF IInv
<1>10. QED BY <1>8, <1>9

LEMMA RestartInvariant ==
  ASSUME IInv, Restart
  PROVE  IInv'
<1>1. step \in 1 .. MaxStep /\ ncolumns \in Nat \ {0} /\ MaxStep \in Nat
  BY RadiationAssumption DEF IInv, Typed
<1>2. /\ step' = step + 1 /\ step + 1 \in 1 .. MaxStep /\ dt' \in Dt /\ last' = dt
      /\ age' = 0
      /\ pc' = [r \in Rank |-> "add"] /\ counter' = [r \in Rank |-> 0]
      /\ sent' = [r \in Rank |-> <<>>] /\ flux' = Reloaded
      /\ UNCHANGED <<column, added>>
  BY <1>1 DEF Restart
<1>3. ASSUME NEW r \in Rank
      PROVE  /\ flux'[r] = Fluxes(r, 1, step', 0)
             /\ flux'[r] \in [1 .. ncolumns -> Stored]
  <2>1. \A c \in 1 .. ncolumns : ~ (c < 1) BY <1>1
  <2>2. flux'[r] = Fluxes(r, 1, step', 0)
    BY <1>2, <2>1 DEF Reloaded, Fluxes, FluxOf
  <2>3. step' \in 0 .. MaxStep /\ 0 \in 0 .. MaxStep BY <1>1, <1>2
  <2>4. QED BY <2>2, <2>3, FluxesTyped
<1>4. Typed'
  <2>1. flux' \in [Rank -> [1 .. ncolumns -> Stored]]
    <3>1. flux' = [r \in Rank |-> flux'[r]] BY <1>2 DEF Reloaded
    <3>2. QED BY <1>3, <3>1
  <2>2. sent' \in [Rank -> Seq(Call)] BY <1>2
  <2>3. /\ pc' \in [Rank -> {"add", "count", "pack", "gather", "done"}]
        /\ counter' \in [Rank -> Int]
    BY <1>2
  <2>4. QED BY <1>2, <2>1, <2>2, <2>3 DEF IInv, Typed
<1>5. \A r \in Rank : InStep(r, 0, 0)' BY <1>2, <1>3 DEF InStep, Before
<1>6. Aged(0, 0)' BY DEF Aged
<1>7. 0 \in 0 .. step' - 1 BY <1>1, <1>2
<1>8. QED BY <1>4, <1>5, <1>6, <1>7 DEF IInv, Lockstep

LEMMA StutterInvariant ==
  ASSUME IInv, UNCHANGED vars
  PROVE  IInv'
<1>1. Typed' BY DEF IInv, Typed, vars
<1>2. PICK k \in Int, s \in 0 .. step - 1 : Aged(k, s) /\ \A q \in Rank : InStep(q, k, s)
  BY DEF IInv, Lockstep
<1>3. \A q \in Rank : InStep(q, k, s)' BY <1>2, OthersStay DEF vars
<1>4. Aged(k, s)' BY <1>2 DEF Aged, vars
<1>5. s \in 0 .. step' - 1 BY DEF vars
<1>6. QED BY <1>1, <1>3, <1>4, <1>5 DEF IInv, Lockstep

(* In every step all ranks began with the same counter and fluxes of the    *)
(* same step, whatever the interleaving and wherever the run was restarted. *)
THEOREM RadiationInvariant == Spec => []IInv
<1>1. Init => IInv BY InitInvariant
<1>2. IInv /\ [Next]_vars => IInv'
  <2> SUFFICES ASSUME IInv, [Next]_vars PROVE IInv'
    OBVIOUS
  <2>1. ASSUME NEW r \in Rank, RankStep(r) PROVE IInv'
    BY <2>1, AddInvariant, CountInvariant, GatherInvariant, SolveInvariant DEF RankStep
  <2>2. CASE NewTimeStep BY <2>2, NewTimeStepInvariant
  <2>3. CASE Restart BY <2>3, RestartInvariant
  <2>4. CASE Finished BY <2>4, StutterInvariant DEF Finished
  <2>5. CASE UNCHANGED vars BY <2>5, StutterInvariant
  <2>6. QED BY <2>1, <2>2, <2>3, <2>4, <2>5 DEF Next
<1>3. QED BY <1>1, <1>2, PTL DEF Spec

-----------------------------------------------------------------------------
(* Whatever a rank keeps for a column is its part of the solution of that   *)
(* column in some step.                                                     *)
LEMMA KeptOfStep ==
  ASSUME IInv, NEW r \in Rank, NEW c \in 1 .. ncolumns
  PROVE  \E u \in 0 .. MaxStep : flux[r][c] = FluxOf(r, u, c)
<1>1. PICK k \in Int, s \in 0 .. step - 1 : InStep(r, k, s) BY DEF IInv, Lockstep
<1>2. step \in 1 .. MaxStep /\ MaxStep \in Nat BY RadiationAssumption DEF IInv, Typed
<1>3. s \in 0 .. MaxStep /\ step \in 0 .. MaxStep BY <1>2
<1>4. \E j : flux[r] = Fluxes(r, j, step, s)
  BY <1>1 DEF IInv, Typed, InStep, Before, Renewing, After
<1>5. PICK j : flux[r] = Fluxes(r, j, step, s) BY <1>4
<1>6. flux[r][c] = FluxOf(r, IF c < j THEN step ELSE s, c) BY <1>5, Zenon DEF Fluxes
<1>7. CASE c < j BY <1>3, <1>6, <1>7
<1>8. CASE ~ (c < j) BY <1>3, <1>6, <1>8
<1>9. QED BY <1>7, <1>8

LEMMA StepOfFlux ==
  ASSUME NEW r, NEW u, NEW c
  PROVE  /\ FluxOf(r, u, c).step = u
         /\ u # 0 => FluxOf(r, u, c) = Keeps(r, u, c)
         /\ FluxOf(r, u, c) = NoFlux <=> u = 0
<1>1. CASE u = 0 BY <1>1 DEF FluxOf, NoFlux
<1>2. CASE u # 0
  <2>1. FluxOf(r, u, c) = Keeps(r, u, c) BY <1>2, Zenon DEF FluxOf
  <2>2. FluxOf(r, u, c).step = u BY <2>1 DEF Keeps
  <2>3. NoFlux.step = 0 BY DEF NoFlux
  <2>4. QED BY <1>2, <2>1, <2>2, <2>3
<1>3. QED BY <1>1, <1>2

(* The counters, columns and calls are in their bounds, for any stack.      *)
THEOREM RadiationTypeCorrect == Spec => []TypeOK
<1>1. IInv => TypeOK
  <2> SUFFICES ASSUME IInv PROVE TypeOK
    OBVIOUS
  <2>1. PICK k \in Int, s \in 0 .. step - 1 : \A q \in Rank : InStep(q, k, s)
    BY DEF IInv, Lockstep
  <2>2. step \in 1 .. MaxStep /\ ncolumns \in Nat \ {0} BY RadiationAssumption DEF IInv, Typed
  <2>3. ASSUME NEW r \in Rank PROVE \E n \in 0 .. ncolumns : sent[r] = Calls(step, n)
    <3>1. column[r] - 1 \in 0 .. ncolumns /\ column[r] \in 0 .. ncolumns
          /\ 0 \in 0 .. ncolumns /\ ncolumns \in 0 .. ncolumns
      BY <2>2 DEF IInv, Typed
    <3>2. InStep(r, k, s) BY <2>1
    <3>3. \/ sent[r] = <<>> \/ sent[r] = Calls(step, column[r] - 1)
          \/ sent[r] = Calls(step, column[r]) \/ sent[r] = Calls(step, ncolumns)
      BY <3>2 DEF IInv, Typed, InStep, Before, Renewing, After
    <3>4. Calls(step, 0) = <<>> BY CallsNone
    <3>5. QED BY <3>1, <3>3, <3>4
  <2>4. ASSUME NEW r \in Rank
        PROVE  /\ Len(sent[r]) <= ncolumns
               /\ \A n \in 1 .. Len(sent[r]) :
                    sent[r][n] \in [step : 1 .. MaxStep, column : 1 .. ncolumns]
    <3>1. PICK n \in 0 .. ncolumns : sent[r] = Calls(step, n) BY <2>3
    <3>2. Len(sent[r]) = n /\ sent[r] \in Seq(Call) BY <2>2, <3>1, CallsTyped
    <3>3. n \in Nat /\ n <= ncolumns BY <2>2
    <3>4. \A x \in 1 .. Len(sent[r]) : sent[r][x] \in Call BY <3>2
    <3>5. QED BY <2>2, <3>2, <3>3, <3>4 DEF Call
  <2>5. ASSUME NEW r \in Rank, NEW c \in 1 .. ncolumns
        PROVE  flux[r][c].step \in 0 .. MaxStep
    BY KeptOfStep, StepOfFlux
  <2>6. QED BY <2>4, <2>5 DEF IInv, Typed, TypeOK
<1>2. QED BY <1>1, RadiationInvariant, PTL

(* All blocks of a stack add fluxes of one step, an earlier one, or none.   *)
THEOREM FluxesTogether == Spec => []AddedTogether
<1>1. IInv => AddedTogether
  <2> SUFFICES ASSUME IInv,
                      NEW q \in Rank, NEW r \in Rank, pc[q] # "add", pc[r] # "add",
                      NEW c \in 1 .. ncolumns, NEW d \in 1 .. ncolumns
               PROVE  added[q][c].step = added[r][d].step /\ added[q][c].step < step
    BY DEF AddedTogether
  <2>1. PICK k \in Int, s \in 0 .. step - 1 : \A p \in Rank : InStep(p, k, s)
    BY DEF IInv, Lockstep
  <2>2. step \in 1 .. MaxStep /\ ncolumns \in Nat BY RadiationAssumption DEF IInv, Typed
  <2>3. added[q] = Fluxes(q, 1, step, s) /\ added[r] = Fluxes(r, 1, step, s)
    BY <2>1 DEF InStep
  <2>4. ~ (c < 1) /\ ~ (d < 1) BY <2>2
  <2>5. added[q][c] = FluxOf(q, s, c) /\ added[r][d] = FluxOf(r, s, d)
    BY <2>3, <2>4 DEF Fluxes
  <2>6. added[q][c].step = s /\ added[r][d].step = s BY <2>5, StepOfFlux
  <2>7. QED BY <2>2, <2>6
<1>2. QED BY <1>1, RadiationInvariant, PTL

(* A flux is added again only if the time since it was computed, less the   *)
(* last step taken, is shorter than the cooldown.                           *)
THEOREM FluxesRecent == Spec => []FluxRecent
<1>1. IInv => FluxRecent
  <2> SUFFICES ASSUME IInv,
                      NEW r \in Rank, pc[r] # "add",
                      NEW c \in 1 .. ncolumns, added[r][c] # NoFlux
               PROVE  age = 0 \/ age - last < Cooldown
    BY DEF FluxRecent
  <2>1. PICK k \in Int, s \in 0 .. step - 1 : Aged(k, s) /\ InStep(r, k, s)
    BY DEF IInv, Lockstep
  <2>2. ~ (c < 1) BY RadiationAssumption
  <2>3. added[r] = Fluxes(r, 1, step, s) BY <2>1 DEF InStep
  <2>4. added[r][c] = FluxOf(r, s, c) BY <2>2, <2>3 DEF Fluxes
  <2>5. s # 0 BY <2>4, StepOfFlux
  <2>6. QED BY <2>1, <2>5 DEF Aged
<1>2. QED BY <1>1, RadiationInvariant, PTL

-----------------------------------------------------------------------------
(* Quotient and remainder of a place in a buffer of parts of n entries.     *)
LEMMA PlaceOf ==
  ASSUME NEW n \in Nat \ {0}, NEW q \in Nat, NEW a \in 0 .. n - 1
  PROVE  (q * n + a) \div n = q /\ (q * n + a) % n = a
OBVIOUS

LEMMA PlaceInBuffer ==
  ASSUME NEW m \in Nat, NEW n \in Nat \ {0}, NEW a \in Nat, a < m * n
  PROVE  /\ a \div n \in 0 .. m - 1 /\ a % n \in 0 .. n - 1
         /\ a = (a \div n) * n + (a % n)
<1>1. a \div n < m OBVIOUS
<1>2. a \div n >= 0 /\ a \div n \in Int OBVIOUS
<1>3. a % n \in 0 .. n - 1 OBVIOUS
<1>4. a = (a \div n) * n + (a % n) OBVIOUS
<1>5. QED BY <1>1, <1>2, <1>3, <1>4

LEMMA PlaceInPart ==
  ASSUME NEW n \in Nat, NEW a \in Nat, a < n
  PROVE  a \div n = 0 /\ a % n = a
<1>1. a \div n = 0 OBVIOUS
<1>2. a % n = a OBVIOUS
<1>3. QED BY <1>1, <1>2

(* The temperature at a face is in the end that of the block whose lowest   *)
(* layers are above it, and at the top that of the highest block.           *)
LEMMA LastWriterIs ==
  ASSUME NEW r \in Rank, NEW a \in 0 .. nlayers, a < nlayers \/ r = nblocks - 1,
         NEW up, up = r * nlayers + a
  PROVE  LastWriter(up) = r
<1>1. nblocks \in Nat \ {0} /\ nlayers \in Nat \ {0} /\ r \in Nat /\ a \in Nat
  BY RadiationAssumption DEF Rank
<1> DEFINE Last(q) == /\ up - q * nlayers \in 0 .. nlayers
                      /\ \A p \in Rank : up - p * nlayers \in 0 .. nlayers => p <= q
<1>2. Last(r)
  <2>1. up - r * nlayers = a BY <1>1
  <2>2. ASSUME NEW p \in Rank, up - p * nlayers \in 0 .. nlayers PROVE p <= r
    <3>1. CASE r = nblocks - 1 BY <1>1, <3>1 DEF Rank
    <3>2. CASE a < nlayers
      <4>1. p \in Nat /\ p * nlayers \in Nat /\ up \in Nat BY <1>1 DEF Rank
      <4>2. p * nlayers <= up BY <1>1, <2>2, <4>1
      <4>3. up < (r + 1) * nlayers BY <1>1, <3>2
      <4>4. p * nlayers < (r + 1) * nlayers BY <1>1, <4>1, <4>2, <4>3
      <4>5. QED BY <1>1, <4>1, <4>4
    <3>3. QED BY <3>1, <3>2
  <2>3. QED BY <2>1, <2>2
<1>3. LastWriter(up) = CHOOSE q \in Rank : Last(q) BY DEF LastWriter
<1> HIDE DEF Last
<1>4. LastWriter(up) \in Rank /\ Last(LastWriter(up)) BY <1>2, <1>3, Zenon
<1>5. r <= LastWriter(up) /\ LastWriter(up) <= r
  <2>1. up - r * nlayers \in 0 .. nlayers BY <1>2 DEF Last
  <2>2. up - LastWriter(up) * nlayers \in 0 .. nlayers BY <1>4 DEF Last
  <2>3. r <= LastWriter(up) BY <1>4, <2>1, Zenon DEF Last
  <2>4. LastWriter(up) <= r BY <1>2, <1>4, <2>2, Zenon DEF Last
  <2>5. QED BY <2>3, <2>4
<1>6. QED BY <1>1, <1>4, <1>5 DEF Rank

(* A place of the temperature buffer is a face of a block.                  *)
LEMMA TemfPlace ==
  ASSUME NEW s, NEW c, NEW r \in Rank, NEW a \in 0 .. nlayers
  PROVE  TemfEntry(s, c, r * nlevels + a + NGHOST)
           = [block |-> r, step |-> s, column |-> c, face |-> a]
<1>1. nlevels \in Nat \ {0} /\ r \in Nat /\ a \in Nat /\ NGHOST \in Nat
  BY RadiationAssumption DEF Rank, nlevels
<1>2. a + NGHOST \in 0 .. nlevels - 1 BY RadiationAssumption DEF nlevels
<1> DEFINE p == r * nlevels + a + NGHOST
<1>3. p = r * nlevels + (a + NGHOST) BY <1>1
<1>4. p \div nlevels = r /\ p % nlevels = a + NGHOST BY <1>1, <1>2, <1>3, PlaceOf
<1> HIDE DEF p
<1>5. (p % nlevels) - NGHOST = a BY <1>1, <1>4
<1>6. TemfEntry(s, c, p) = [block |-> r, step |-> s, column |-> c, face |-> a]
  BY <1>4, <1>5, Zenon DEF TemfEntry
<1>7. QED BY <1>6 DEF p

(* The temperatures unpacked are those of the whole column.                 *)
LEMMA TemperWhole ==
  ASSUME NEW s, NEW c, NEW b
  PROVE  TemperOf(s, c) = WholeColumn(s, c, b).temper
<1> DEFINE face(l) ==
      LET up == nlyr - l
      IN  IF l = 0 THEN [block |-> nblocks - 1, step |-> s, column |-> c, face |-> nlayers]
          ELSE [block |-> up \div nlayers, step |-> s, column |-> c, face |-> up % nlayers]
    place(l) ==
      LET up == nlyr - l
          q  == LastWriter(up)
      IN  q * nlevels + (up - q * nlayers) + NGHOST
<1>1. nblocks \in Nat \ {0} /\ nlayers \in Nat \ {0} /\ nlyr \in Nat
  BY RadiationAssumption DEF nlyr
<1>2. ASSUME NEW l \in 0 .. nlyr PROVE TemfEntry(s, c, place(l)) = face(l)
  <2>1. PICK up : up = nlyr - l OBVIOUS
  <2>2. up \in Nat BY <1>1, <2>1
  <2>3. CASE l = 0
    <3>1. nblocks - 1 \in Rank /\ nlayers \in 0 .. nlayers BY <1>1 DEF Rank
    <3>2. up = (nblocks - 1) * nlayers + nlayers BY <1>1, <2>1, <2>3 DEF nlyr
    <3>3. LastWriter(up) = nblocks - 1 BY <3>1, <3>2, LastWriterIs
    <3>4. up - (nblocks - 1) * nlayers = nlayers BY <1>1, <3>2
    <3>5. place(l) = (nblocks - 1) * nlevels + nlayers + NGHOST BY <2>1, <3>3, <3>4
    <3>6. QED BY <2>3, <3>1, <3>5, TemfPlace
  <2>4. CASE l # 0
    <3>1. PICK r, a : r = up \div nlayers /\ a = up % nlayers OBVIOUS
    <3>2. up < nblocks * nlayers BY <1>1, <2>1, <2>4 DEF nlyr
    <3>3. r \in Rank /\ a \in 0 .. nlayers - 1 /\ up = r * nlayers + a
      BY <1>1, <2>2, <3>1, <3>2, PlaceInBuffer DEF Rank
    <3>4. a \in 0 .. nlayers /\ a < nlayers /\ r \in Nat BY <1>1, <3>3 DEF Rank
    <3>5. LastWriter(up) = r BY <3>3, <3>4, LastWriterIs
    <3>6. up - r * nlayers = a BY <1>1, <3>3, <3>4
    <3>7. place(l) = r * nlevels + a + NGHOST BY <2>1, <3>5, <3>6
    <3>8. face(l) = [block |-> r, step |-> s, column |-> c, face |-> a]
      BY <2>1, <2>4, <3>1
    <3>9. QED BY <3>3, <3>4, <3>7, <3>8, TemfPlace
  <2>5. QED BY <2>3, <2>4
<1>3. TemperOf(s, c) = [l \in 0 .. nlyr |-> TemfEntry(s, c, place(l))] BY DEF TemperOf
<1>4. WholeColumn(s, c, b).temper = [l \in 0 .. nlyr |-> face(l)] BY DEF WholeColumn
<1> HIDE DEF face, place
<1>5. QED BY <1>2, <1>3, <1>4, Zenon

(* So are the layers, when there is one bin.                                *)
LEMMA LayersWhole ==
  ASSUME NEW s, NEW c
  PROVE  LayersOf(s, c, 0) = WholeColumn(s, c, 0).layers
<1> DEFINE layer(l) ==
      LET up == nlyr - 1 - l
      IN  [block |-> up \div nlayers, step |-> s, column |-> c, bin |-> 0,
           layer |-> up % nlayers]
<1>1. nblocks \in Nat \ {0} /\ nlayers \in Nat \ {0} /\ nlyr \in Nat
  BY RadiationAssumption DEF nlyr
<1>2. ASSUME NEW l \in 0 .. nlyr - 1
      PROVE  Entry(s, c, 0 * nlayers + (nlyr - 1 - l)) = layer(l)
  <2>1. PICK up : up = nlyr - 1 - l OBVIOUS
  <2>2. up \in Nat /\ up < nblocks * nlayers BY <1>1, <2>1 DEF nlyr
  <2>3. PICK r, a : r = up \div nlayers /\ a = up % nlayers OBVIOUS
  <2>4. r \in Rank /\ a \in 0 .. nlayers - 1
    BY <1>1, <2>2, <2>3, PlaceInBuffer DEF Rank
  <2>5. a \in Nat /\ a < nlayers BY <1>1, <2>4
  <2>6. a \div nlayers = 0 /\ a % nlayers = a BY <1>1, <2>5, PlaceInPart
  <2>7. 0 * nlayers + up = up BY <1>1, <2>2
  <2>8. Entry(s, c, up) = Packed(r, s, c, a) BY <2>3, <2>4, Zenon DEF Entry, SendSize
  <2>9. Packed(r, s, c, a) =
          [block |-> r, step |-> s, column |-> c, bin |-> 0, layer |-> a]
    BY <2>6 DEF Packed
  <2>10. QED BY <2>1, <2>3, <2>7, <2>8, <2>9
<1>3. LayersOf(s, c, 0) =
        [l \in 0 .. nlyr - 1 |-> Entry(s, c, 0 * nlayers + (nlyr - 1 - l))]
  BY DEF LayersOf
<1>4. WholeColumn(s, c, 0).layers = [l \in 0 .. nlyr - 1 |-> layer(l)] BY DEF WholeColumn
<1> HIDE DEF layer
<1>5. QED BY <1>2, <1>3, <1>4, Zenon

LEMMA GivenWhole ==
  ASSUME nspec = 1, NEW s, NEW c
  PROVE  Given(s, c)[0] = WholeColumn(s, c, 0)
<1>1. 0 \in 0 .. nspec - 1 OBVIOUS
<1>2. Given(s, c)[0] = [temper |-> TemperOf(s, c), layers |-> LayersOf(s, c, 0)]
  BY <1>1, Zenon DEF Given
<1>3. WholeColumn(s, c, 0) =
        [temper |-> WholeColumn(s, c, 0).temper, layers |-> WholeColumn(s, c, 0).layers]
  BY DEF WholeColumn
<1>4. QED BY <1>2, <1>3, TemperWhole, LayersWhole, Zenon

(* With one spectral bin every flux comes from a whole column in order,     *)
(* however many blocks, layers and ghost cells there are.                   *)
THEOREM WholeColumns ==
  ASSUME nspec = 1
  PROVE  Spec => []ColumnsWhole
<1>1. IInv => ColumnsWhole
  <2> SUFFICES ASSUME IInv, NEW r \in Rank, NEW c \in 1 .. ncolumns, Kept(r, c),
                      NEW b \in 0 .. nspec - 1
               PROVE  flux[r][c].given[b] = WholeColumn(flux[r][c].step, c, b)
    BY DEF ColumnsWhole
  <2>1. PICK u \in 0 .. MaxStep : flux[r][c] = FluxOf(r, u, c) BY KeptOfStep
  <2>2. flux[r][c] = Keeps(r, u, c) BY <2>1, StepOfFlux DEF Kept
  <2>3. flux[r][c].given = Given(u, c) /\ flux[r][c].step = u BY <2>2 DEF Keeps
  <2>4. b = 0 OBVIOUS
  <2>5. QED BY <2>3, <2>4, GivenWhole
<1>2. QED BY <1>1, RadiationInvariant, PTL
-----------------------------------------------------------------------------
(* Induction over an interval of indices, stated with sets: the least       *)
(* natural number outside a set closed under successor does not exist.      *)
LEMMA NatSet ==
  ASSUME NEW S, 0 \in S, \A n \in Nat : n \in S => n + 1 \in S
  PROVE  Nat \subseteq S
<1> DEFINE T == Nat \ S
<1> SUFFICES ASSUME T # {} PROVE FALSE OBVIOUS
<1> DEFINE R == OpToRel(<, Nat)
<1>1. IsWellFoundedOn(R, Nat) BY NatLessThanWellFounded
<1>2. \A x, y \in Nat : y < x => <<y, x>> \in R BY DEF OpToRel
<1> HIDE DEF R
<1>3. T \subseteq Nat OBVIOUS
<1>4. PICK x \in T : \A y \in T : ~ (<<y, x>> \in R) BY <1>1, <1>3, WFMin, Zenon
<1>5. x # 0 BY <1>4
<1>6. x - 1 \in Nat /\ x - 1 < x BY <1>5
<1>7. x - 1 \notin T BY <1>2, <1>4, <1>6
<1>8. x \in S BY <1>6, <1>7
<1>9. QED BY <1>8

(* The same from the last number down.                                      *)
LEMMA Downward ==
  ASSUME NEW b \in Nat, NEW S, b \in S,
         \A i \in 0 .. b - 1 : i + 1 \in S => i \in S
  PROVE  0 .. b \subseteq S
<1> DEFINE T == {n \in Nat : 0 <= b - n => b - n \in S}
<1>1. 0 \in T OBVIOUS
<1>2. \A n \in Nat : n \in T => n + 1 \in T
  <2> SUFFICES ASSUME NEW n \in Nat, 0 <= b - n => b - n \in S, 0 <= b - (n + 1)
               PROVE  b - (n + 1) \in S
    OBVIOUS
  <2>1. b - (n + 1) \in 0 .. b - 1 /\ (b - (n + 1)) + 1 = b - n /\ b - n \in S OBVIOUS
  <2>2. QED BY <2>1
<1>3. Nat \subseteq T
  <2> HIDE DEF T
  <2>1. QED BY <1>1, <1>2, NatSet
<1>4. ASSUME NEW i \in 0 .. b PROVE i \in S
  <2>1. b - i \in Nat /\ b - (b - i) = i OBVIOUS
  <2>2. b - i \in T BY <1>3, <2>1
  <2>3. QED BY <2>1, <2>2
<1>5. QED BY <1>4

-----------------------------------------------------------------------------
\* The corrected flux at face i, when that at the face above is x.
Lower(r, c, f, i, x) ==
  Over(Minus(Times(x, farea[r][c][i + 1]), volh(r, c, i, f)), farea[r][c][i])

\* g is the correction of f from face k up.
CorrectsFrom(k, r, c, f, g) ==
  g = [i \in k .. nlayers |->
        IF i = nlayers THEN f[i] ELSE Lower(r, c, f, i, g[i + 1])]

(* One more face below.                                                     *)
LEMMA CorrectsBelow ==
  ASSUME NEW r, NEW c, NEW f, NEW k \in 0 .. nlayers - 1,
         NEW h, CorrectsFrom(k + 1, r, c, f, h)
  PROVE  \E g : CorrectsFrom(k, r, c, f, g)
<1>1. nlayers \in Nat \ {0} /\ k \in Nat /\ k < nlayers BY RadiationAssumption
<1> DEFINE g == [i \in k .. nlayers |->
             IF i = k THEN Lower(r, c, f, i, h[k + 1]) ELSE h[i]]
<1>2. ASSUME NEW i \in k .. nlayers
      PROVE  g[i] = IF i = nlayers THEN f[i] ELSE Lower(r, c, f, i, g[i + 1])
  <2>1. CASE i = k
    <3>1. i # nlayers /\ i + 1 = k + 1 /\ k + 1 \in k .. nlayers /\ k + 1 # k
      BY <1>1, <2>1
    <3>2. g[k + 1] = h[k + 1] BY <3>1
    <3>3. QED BY <2>1, <3>1, <3>2
  <2>2. CASE i # k
    <3>1. i \in k + 1 .. nlayers BY <1>1, <2>2
    <3>2. g[i] = h[i] BY <2>2
    <3>3. h[i] = IF i = nlayers THEN f[i] ELSE Lower(r, c, f, i, h[i + 1])
      BY <3>1 DEF CorrectsFrom
    <3>4. i # nlayers => i + 1 \in k .. nlayers /\ i + 1 # k BY <1>1, <3>1
    <3>5. i # nlayers => g[i + 1] = h[i + 1] BY <3>4
    <3>6. QED BY <3>2, <3>3, <3>5
  <2>3. QED BY <2>1, <2>2
<1>3. g = [i \in k .. nlayers |-> g[i]] OBVIOUS
<1> HIDE DEF g
<1>4. CorrectsFrom(k, r, c, f, g) BY <1>2, <1>3, Zenon DEF CorrectsFrom
<1>5. QED BY <1>4

(* Corrected satisfies its recursive definition.                            *)
LEMMA CorrectedIs ==
  ASSUME NEW r, NEW c, NEW f
  PROVE  /\ Corrected(r, c, f)[nlayers] = f[nlayers]
         /\ \A i \in 0 .. nlayers - 1 :
              Corrected(r, c, f)[i] = Lower(r, c, f, i, Corrected(r, c, f)[i + 1])
<1>1. nlayers \in Nat \ {0} BY RadiationAssumption
<1> DEFINE Has == {k \in Nat : \E g : CorrectsFrom(k, r, c, f, g)}
           Cells(g) == g = [i \in 0 .. nlayers |->
             IF i = nlayers THEN f[i]
             ELSE Over(Minus(Times(g[i + 1], farea[r][c][i + 1]), volh(r, c, i, f)),
                       farea[r][c][i])]
<1>2. nlayers \in Has
  <2>1. CorrectsFrom(nlayers, r, c, f, [i \in nlayers .. nlayers |-> f[i]])
    BY <1>1 DEF CorrectsFrom
  <2>2. QED BY <1>1, <2>1
<1>3. \A k \in 0 .. nlayers - 1 : k + 1 \in Has => k \in Has
  BY <1>1, CorrectsBelow
<1>4. 0 \in Has
  <2> HIDE DEF Has
  <2>1. 0 .. nlayers \subseteq Has BY <1>1, <1>2, <1>3, Downward
  <2>2. QED BY <1>1, <2>1
<1>5. PICK g : CorrectsFrom(0, r, c, f, g) BY <1>4
<1>6. Cells(g) BY <1>5 DEF CorrectsFrom, Lower
<1>7. Corrected(r, c, f) = CHOOSE h : Cells(h) BY DEF Corrected
<1> HIDE DEF Cells
<1>8. Cells(Corrected(r, c, f)) BY <1>6, <1>7, Zenon
<1>9. nlayers \in 0 .. nlayers BY <1>1
<1>10. \A i \in 0 .. nlayers - 1 : i \in 0 .. nlayers /\ i # nlayers BY <1>1
<1> DEFINE cells == Corrected(r, c, f)
<1>11. Cells(cells) BY <1>8
<1> HIDE DEF cells
<1>12. cells[nlayers] = f[nlayers] BY <1>9, <1>11 DEF Cells
<1>13. \A i \in 0 .. nlayers - 1 : cells[i] = Lower(r, c, f, i, cells[i + 1])
  BY <1>10, <1>11 DEF Cells, Lower
<1>14. QED BY <1>12, <1>13 DEF cells

(* The fluxes of one bin, before the correction, are the plane-parallel     *)
(* fluxes of the column.                                                    *)
LEMMA PlaneParallelOne ==
  ASSUME nspec = 1, NEW s, NEW c, NEW n
  PROVE  PlaneParallel(s, c, n)
           = Plus(Zero, Times(wght[0], Disort(WholeColumn(s, c, 0), nlyr - n)))
<1> DEFINE Term(m) == Times(wght[m - 1], Disort(WholeColumn(s, c, m - 1), nlyr - n))
           Sums(h) == h = [m \in 0 .. nspec |->
             IF m = 0 THEN Zero
             ELSE Plus(h[m - 1],
                       Times(wght[m - 1], Disort(WholeColumn(s, c, m - 1), nlyr - n)))]
           sums == CHOOSE h : Sums(h)
<1>1. 1 - 1 = 0 /\ 0 \in 0 .. nspec /\ 1 \in 0 .. nspec /\ 1 # 0 OBVIOUS
<1>2. Sums([m \in 0 .. nspec |-> IF m = 0 THEN Zero ELSE Plus(Zero, Term(m))])
  <2> DEFINE h == [m \in 0 .. nspec |-> IF m = 0 THEN Zero ELSE Plus(Zero, Term(m))]
  <2>1. h[0] = Zero BY <1>1
  <2>2. ASSUME NEW m \in 0 .. nspec, m # 0 PROVE m = 1 /\ h[m - 1] = Zero
    BY <2>1, <2>2
  <2>3. \A m \in 0 .. nspec : m # 0 => h[m - 1] = Zero BY <2>2
  <2>4. \A m \in 0 .. nspec : h[m] = IF m = 0 THEN Zero ELSE Plus(h[m - 1], Term(m))
    <3> HIDE DEF Term
    <3>1. \A m \in 0 .. nspec : h[m] = IF m = 0 THEN Zero ELSE Plus(Zero, Term(m))
      OBVIOUS
    <3> HIDE DEF h
    <3>2. QED BY <2>3, <3>1, Zenon
  <2>5. h = [m \in 0 .. nspec |-> h[m]] OBVIOUS
  <2> HIDE DEF h
  <2>6. Sums(h) BY <2>4, <2>5, Zenon
  <2>7. QED BY <2>6 DEF h
<1>3. Sums(sums)
  <2> HIDE DEF Sums
  <2>1. QED BY <1>2
<1>4. PlaneParallel(s, c, n) = sums[nspec] BY DEF PlaneParallel
<1> HIDE DEF sums
<1>5. sums[0] = Zero BY <1>1, <1>3
<1>6. sums[1] = Plus(sums[1 - 1], Term(1)) BY <1>1, <1>3, Zenon
<1>7. QED BY <1>1, <1>4, <1>5, <1>6

LEMMA BandFluxOne ==
  ASSUME nspec = 1, NEW r, NEW c, NEW given
  PROVE  BandFlux(r, c, given)
           = addDisortFlux(r, c, 0, given, [i \in 0 .. nlayers |-> Zero])
<1> DEFINE none == [i \in 0 .. nlayers |-> Zero]
           Sums(h) == h = [n \in 0 .. nspec |->
             IF n = 0 THEN none ELSE addDisortFlux(r, c, n - 1, given, h[n - 1])]
           sums == CHOOSE h : Sums(h)
<1>1. 1 - 1 = 0 /\ 0 \in 0 .. nspec /\ 1 \in 0 .. nspec /\ 1 # 0 OBVIOUS
<1>2. BandFlux(r, c, given) = sums[nspec] BY DEF BandFlux
<1> HIDE DEF none
<1>3. \E h : Sums(h)
  <2> DEFINE h == [n \in 0 .. nspec |->
               IF n = 0 THEN none ELSE addDisortFlux(r, c, n - 1, given, none)]
  <2>1. h[0] = none BY <1>1
  <2>2. \A n \in 0 .. nspec : n # 0 => h[n - 1] = none BY <2>1
  <2>3. \A n \in 0 .. nspec :
          h[n] = IF n = 0 THEN none ELSE addDisortFlux(r, c, n - 1, given, none)
    OBVIOUS
  <2>4. h = [n \in 0 .. nspec |-> h[n]] OBVIOUS
  <2> HIDE DEF h
  <2>5. \A n \in 0 .. nspec :
          h[n] = IF n = 0 THEN none ELSE addDisortFlux(r, c, n - 1, given, h[n - 1])
    BY <2>2, <2>3, Zenon
  <2>6. Sums(h) BY <2>4, <2>5, Zenon
  <2>7. QED BY <2>6
<1>4. Sums(sums)
  <2> HIDE DEF Sums
  <2>1. QED BY <1>3
<1> HIDE DEF sums
<1>5. sums[0] = none BY <1>1, <1>4
<1>6. sums[1] = addDisortFlux(r, c, 1 - 1, given, sums[1 - 1]) BY <1>1, <1>4, Zenon
<1>7. QED BY <1>1, <1>2, <1>5, <1>6 DEF none

\* The fluxes of one bin at the faces of rank r in the solution for column c.
PlaneFlux(r, s, c) == [i \in 0 .. nlayers |-> PlaneParallel(s, c, r * nlayers + i)]

(* They are numbers.                                                        *)
LEMMA PlaneFluxNumber ==
  ASSUME nspec = 1, NEW r \in Rank, NEW s \in 1 .. MaxStep, NEW c \in 1 .. ncolumns,
         NEW i \in 0 .. nlayers
  PROVE  PlaneFlux(r, s, c)[i] \in Number
<1>1. nblocks \in Nat \ {0} /\ nlayers \in Nat \ {0} /\ r \in Nat /\ r <= nblocks - 1
  BY RadiationAssumption DEF Rank
<1>2. 0 \in 0 .. nspec - 1 OBVIOUS
<1> DEFINE n == r * nlayers + i
<1>3. nlyr - n \in 0 .. nlyr
  <2>1. r * nlayers \in Nat /\ r * nlayers <= (nblocks - 1) * nlayers BY <1>1
  <2>2. (nblocks - 1) * nlayers + nlayers = nblocks * nlayers BY <1>1
  <2>3. (nblocks - 1) * nlayers \in Nat /\ nblocks * nlayers \in Nat BY <1>1
  <2>4. n \in 0 .. nblocks * nlayers BY <1>1, <2>1, <2>2, <2>3
  <2>5. QED BY <2>3, <2>4 DEF nlyr
<1>4. PlaneFlux(r, s, c)[i] = PlaneParallel(s, c, n) BY DEF PlaneFlux
<1> HIDE DEF n
<1> DEFINE solved == Disort(WholeColumn(s, c, 0), nlyr - n)
<1>5. solved \in Number BY <1>2, <1>3, DisortAssumption, Zenon
<1>6. wght[0] \in Number /\ Zero \in Number BY <1>2, NumberAssumption, Zenon
<1>7. PlaneParallel(s, c, n) = Plus(Zero, Times(wght[0], solved)) BY PlaneParallelOne
<1> HIDE DEF solved
<1>8. Times(wght[0], solved) \in Number BY <1>5, <1>6, NumberAssumption, Zenon
<1>9. Plus(Zero, Times(wght[0], solved)) \in Number BY <1>6, <1>8, NumberAssumption, Zenon
<1>10. QED BY <1>4, <1>7, <1>9

(* What a rank keeps of the solution of a column is their correction.       *)
LEMMA FaceOfKeeps ==
  ASSUME nspec = 1, NEW r \in Rank, NEW s, NEW c
  PROVE  BandFlux(r, c, Given(s, c)) = Corrected(r, c, PlaneFlux(r, s, c))
<1> DEFINE none == [i \in 0 .. nlayers |-> Zero]
           sum == [i \in 0 .. nlayers |->
             Plus(none[i], Times(wght[0], Disort(Given(s, c)[0], Level(r, i))))]
<1>1. BandFlux(r, c, Given(s, c)) = Corrected(r, c, sum)
  BY BandFluxOne, Zenon DEF addDisortFlux
<1>2. ASSUME NEW i \in 0 .. nlayers PROVE sum[i] = PlaneParallel(s, c, r * nlayers + i)
  <2>1. sum[i] = Plus(none[i], Times(wght[0], Disort(Given(s, c)[0], Level(r, i))))
    BY Zenon
  <2>2. none[i] = Zero OBVIOUS
  <2>3. Level(r, i) = nlyr - (r * nlayers + i) BY DEF Level
  <2>4. Given(s, c)[0] = WholeColumn(s, c, 0) BY GivenWhole
  <2>5. PlaneParallel(s, c, r * nlayers + i)
          = Plus(Zero, Times(wght[0],
                             Disort(WholeColumn(s, c, 0), nlyr - (r * nlayers + i))))
    BY PlaneParallelOne
  <2> HIDE DEF sum, none
  <2>6. sum[i] = Plus(Zero, Times(wght[0], Disort(WholeColumn(s, c, 0), Level(r, i))))
    BY <2>1, <2>2, <2>4
  <2>7. QED BY <2>3, <2>5, <2>6
<1>3. sum = PlaneFlux(r, s, c) BY <1>2, Zenon DEF PlaneFlux
<1>4. QED BY <1>1, <1>3

(* The heat a cell gains from such fluxes is a number.                      *)
LEMMA HeatNumber ==
  ASSUME NEW r \in Rank, NEW c \in 1 .. ncolumns, NEW i \in 0 .. nlayers - 1,
         NEW f, f[i] \in Number, f[i + 1] \in Number
  PROVE  volh(r, c, i, f) \in Number
<1>1. vol[r][c][i] \in Number BY NumberAssumption
<1>2. Minus(f[i + 1], f[i]) \in Number BY NumberAssumption
<1>3. \A x \in Number : Over(x, dx1f[r][i]) \in Number BY NumberAssumption
<1>4. Over(Minus(f[i + 1], f[i]), dx1f[r][i]) \in Number BY <1>2, <1>3
<1>5. QED BY <1>1, <1>4, NumberAssumption DEF volh

(* The corrected fluxes are numbers, from the top of the block down.        *)
LEMMA CorrectedNumber ==
  ASSUME NEW r \in Rank, NEW c \in 1 .. ncolumns, NEW f,
         \A i \in 0 .. nlayers : f[i] \in Number
  PROVE  \A i \in 0 .. nlayers : Corrected(r, c, f)[i] \in Number
<1>1. nlayers \in Nat \ {0} /\ nlayers \in 0 .. nlayers BY RadiationAssumption
<1> DEFINE g == Corrected(r, c, f)
           S == {i \in 0 .. nlayers : g[i] \in Number}
<1>2. nlayers \in S BY <1>1, CorrectedIs
<1>3. ASSUME NEW i \in 0 .. nlayers - 1, i + 1 \in S PROVE i \in S
  <2>1. i \in 0 .. nlayers /\ i + 1 \in 0 .. nlayers BY <1>1
  <2>2. g[i + 1] \in Number BY <1>3
  <2>3. volh(r, c, i, f) \in Number BY <2>1, HeatNumber
  <2>4. farea[r][c][i + 1] \in Number BY <2>1, NumberAssumption
  <2>5. \A x \in Number : Over(x, farea[r][c][i]) \in Number BY <2>1, NumberAssumption
  <2>6. g[i] = Lower(r, c, f, i, g[i + 1]) BY CorrectedIs
  <2> HIDE DEF g
  <2>7. Times(g[i + 1], farea[r][c][i + 1]) \in Number BY <2>2, <2>4, NumberAssumption
  <2>8. Minus(Times(g[i + 1], farea[r][c][i + 1]), volh(r, c, i, f)) \in Number
    BY <2>3, <2>7, NumberAssumption
  <2>9. g[i] \in Number BY <2>5, <2>6, <2>8 DEF Lower
  <2>10. QED BY <2>1, <2>9
<1>4. 0 .. nlayers \subseteq S
  <2> HIDE DEF S
  <2>1. QED BY <1>1, <1>2, <1>3, Downward
<1>5. QED BY <1>4

(* The difference of the corrected fluxes, times the areas of their faces,  *)
(* is the heat of the fluxes given.                                         *)
LEMMA CorrectedHeat ==
  ASSUME NEW r \in Rank, NEW c \in 1 .. ncolumns, NEW f,
         \A i \in 0 .. nlayers : f[i] \in Number,
         NEW i \in 0 .. nlayers - 1
  PROVE  Minus(Times(Corrected(r, c, f)[i + 1], farea[r][c][i + 1]),
               Times(Corrected(r, c, f)[i], farea[r][c][i])) = volh(r, c, i, f)
<1>1. nlayers \in Nat \ {0} /\ i \in 0 .. nlayers /\ i + 1 \in 0 .. nlayers
  BY RadiationAssumption
<1> DEFINE g == Corrected(r, c, f)
           above == Times(g[i + 1], farea[r][c][i + 1])
           heat == volh(r, c, i, f)
<1>2. g[i + 1] \in Number BY <1>1, CorrectedNumber
<1>3. farea[r][c][i + 1] \in Number BY <1>1, NumberAssumption
<1>4. g[i] = Over(Minus(above, heat), farea[r][c][i]) BY CorrectedIs DEF Lower
<1>5. heat \in Number BY <1>1, HeatNumber
<1> HIDE DEF g, heat
<1>6. above \in Number BY <1>2, <1>3, NumberAssumption
<1> HIDE DEF above
<1>7. Minus(above, heat) \in Number BY <1>5, <1>6, NumberAssumption
<1>8. \A x \in Number : Times(Over(x, farea[r][c][i]), farea[r][c][i]) = x
  BY <1>1, NumberAssumption
<1>9. Times(g[i], farea[r][c][i]) = Minus(above, heat) BY <1>4, <1>7, <1>8
<1>10. Minus(above, Minus(above, heat)) = heat BY <1>5, <1>6, NumberAssumption
<1>11. Minus(above, Times(g[i], farea[r][c][i])) = heat BY <1>9, <1>10
<1>12. QED BY <1>11 DEF above, heat, g

(* With one spectral bin every block heats its cells as a plane-parallel    *)
(* solution for the whole column does, whatever the areas of the faces and  *)
(* the volumes of the cells, in every interleaving.                         *)
THEOREM HeatingRight ==
  ASSUME nspec = 1
  PROVE  Spec => []HeatingKept
<1>1. IInv => HeatingKept
  <2> SUFFICES ASSUME IInv, NEW r \in Rank, NEW c \in 1 .. ncolumns, Kept(r, c),
                      NEW i \in 0 .. nlayers - 1
               PROVE  Minus(Times(flux[r][c].face[i + 1], farea[r][c][i + 1]),
                            Times(flux[r][c].face[i], farea[r][c][i]))
                        = Times(Over(Minus(PlaneParallel(flux[r][c].step, c,
                                                         (r * nlayers + i) + 1),
                                           PlaneParallel(flux[r][c].step, c,
                                                         r * nlayers + i)),
                                     dx1f[r][i]),
                                vol[r][c][i])
    BY Zenon DEF HeatingKept
  <2>1. PICK u \in 0 .. MaxStep : flux[r][c] = FluxOf(r, u, c) BY KeptOfStep
  <2>2. u # 0 /\ flux[r][c] = Keeps(r, u, c) BY <2>1, StepOfFlux DEF Kept
  <2>3. u \in 1 .. MaxStep BY <2>2, RadiationAssumption
  <2>4. flux[r][c].face = BandFlux(r, c, Given(u, c)) /\ flux[r][c].step = u
    BY <2>2 DEF Keeps
  <2>5. PICK f : f = PlaneFlux(r, u, c) OBVIOUS
  <2>6. flux[r][c].face = Corrected(r, c, f) BY <2>4, <2>5, FaceOfKeeps
  <2>7. \A j \in 0 .. nlayers : f[j] \in Number BY <2>3, <2>5, PlaneFluxNumber
  <2>8. Minus(Times(Corrected(r, c, f)[i + 1], farea[r][c][i + 1]),
              Times(Corrected(r, c, f)[i], farea[r][c][i])) = volh(r, c, i, f)
    BY <2>7, CorrectedHeat
  <2>9. i \in 0 .. nlayers /\ i + 1 \in 0 .. nlayers
        /\ r * nlayers + (i + 1) = (r * nlayers + i) + 1
    <3>1. nlayers \in Nat /\ r \in Nat /\ i \in Nat BY RadiationAssumption DEF Rank
    <3>2. QED BY <3>1
  <2>10. f[i] = PlaneParallel(u, c, r * nlayers + i) BY <2>5, <2>9 DEF PlaneFlux
  <2>11. f[i + 1] = PlaneParallel(u, c, (r * nlayers + i) + 1)
    <3>1. f[i + 1] = PlaneParallel(u, c, r * nlayers + (i + 1))
      BY <2>5, <2>9 DEF PlaneFlux
    <3>2. QED BY <2>9, <3>1
  <2>12. QED BY <2>4, <2>6, <2>8, <2>10, <2>11, Zenon DEF volh
<1>2. QED BY <1>1, RadiationInvariant, PTL
=============================================================================
