--------------------------- MODULE ColumnRadiation ---------------------------
(***************************************************************************)
(* Radiation of a column of air cut into blocks, one per rank, from the    *)
(* surface up (harp/radiation_band*.cpp, rt_solver_disort.cpp and the      *)
(* radiation part of AddFluxToConserved).  Every stage adds the fluxes     *)
(* kept in flxup and flxdn; at the end of a step these are computed anew   *)
(* if a counter has run out.  For that each rank gathers the spectral      *)
(* properties and temperatures of all blocks of the column, solves the     *)
(* whole column and keeps the fluxes at its own faces, scaled for the      *)
(* geometry of its cells.  Every rank does this for each of its columns in *)
(* turn, with one collective call per column.                              *)
(*                                                                         *)
(* A layer's optical thickness, albedo and moments are one entry of the    *)
(* buffers; the Planck function is on.  One band; others follow it with    *)
(* buffers of their own.  The fluxes up and down are treated alike, and    *)
(* one stands for both.                                                    *)
(***************************************************************************)
EXTENDS Integers, Sequences

CONSTANTS
  nblocks,   \* ranks in a group of the exchanger
  nlayers,   \* layers of a block
  nspec,     \* spectral bins of the band
  ncolumns,  \* columns of a block
  NGHOST,    \* ghost cells at either end of a block
  Cooldown,  \* parameter radiation/dt
  Dt,        \* time steps the mesh may take
  MaxStep    \* bound: time steps

CONSTANTS
  Number, Zero, Plus(_, _), Minus(_, _), Times(_, _), Over(_, _),   \* the doubles
  Disort(_, _),   \* Disort(column, l): the flux c_disort finds at level l
  wght,           \* weights of the bins
  farea,          \* farea[r][c][i]: area of face i of column c of rank r
  vol,            \* vol[r][c][i], dx1f[r][i]: volume and height of cell i
  dx1f

ASSUME RadiationAssumption ==
  /\ nblocks \in Nat \ {0} /\ nlayers \in Nat \ {0} /\ nspec \in Nat \ {0}
  /\ ncolumns \in Nat \ {0} /\ Cooldown \in Nat /\ MaxStep \in Nat \ {0}
  /\ NGHOST \in Nat /\ Dt \subseteq Nat \ {0} /\ Dt # {}

Rank == 0 .. nblocks - 1      \* GetRankInGroup, from the surface up
nlyr == nblocks * nlayers
nlevels == nlayers + 2 * NGHOST + 1    \* entries of temf_

\* Numbers are exact; only areas and heights are divided by.
ASSUME NumberAssumption ==
  /\ Zero \in Number
  /\ \A x, y \in Number :
       /\ Plus(x, y) \in Number /\ Minus(x, y) \in Number /\ Times(x, y) \in Number
       /\ Plus(Zero, x) = x /\ Minus(x, Minus(x, y)) = y
  /\ \A b \in 0 .. nspec - 1 : wght[b] \in Number
  /\ \A r \in Rank, c \in 1 .. ncolumns :
       /\ \A i \in 0 .. nlayers :
            /\ farea[r][c][i] \in Number
            /\ \A x \in Number :
                 /\ Over(x, farea[r][c][i]) \in Number
                 /\ Times(Over(x, farea[r][c][i]), farea[r][c][i]) = x
       /\ \A i \in 0 .. nlayers - 1 :
            /\ vol[r][c][i] \in Number
            /\ \A x \in Number : Over(x, dx1f[r][i]) \in Number

VARIABLES
  step, dt,   \* the time step, and its length
  last,       \* length of the step before, 0 in the first
  age,        \* time since the fluxes were computed, up to the last step
  pc,         \* what rank r does next in the step
  counter,    \* counter of the cooldown on each rank
  column,     \* the column rank r computes
  sent,       \* sent[r]: the calls of GatherAll r has entered in this step
  flux,       \* flux[r][c]: the fluxes kept at the faces of column c
  added       \* added[r]: the fluxes AddRadiativeFlux has added in this step

vars == <<step, dt, last, age, pc, counter, column, sent, flux, added>>

NoFlux == [step |-> 0]

-----------------------------------------------------------------------------
\* Entry o of the send buffer as packSpectralProperties fills it in step s:
\* bin after bin, each from the lowest layer up.
Packed(r, s, c, o) ==
  [block |-> r, step |-> s, column |-> c, bin |-> o \div nlayers, layer |-> o % nlayers]

\* Entries in a send buffer: room for one bin.  What packing writes past it
\* is not received by anyone.
SendSize == nlayers

Outside == [block |-> -1]

\* Entry p of the buffer received in call n.
Received(n, p) ==
  LET r == p \div SendSize
  IN  IF r \in Rank
      THEN Packed(r, sent[r][n].step, sent[r][n].column, p % SendSize)
      ELSE Outside

\* unpackSpectralProperties: bin b of the column in call n, from the top down.
\* Variants: a stride that leaves room for the faces; not reversed.
UnpackedFaces(n, b) ==
  [l \in 0 .. nlyr - 1 |->
    LET i == nlyr - 1 - l IN Received(n, b * nlayers + i + i \div nlayers)]
UnpackedUp(n, b) ==
  [l \in 0 .. nlyr - 1 |-> Received(n, b * nlayers + l)]
Unpacked(n, b) ==
  [l \in 0 .. nlyr - 1 |-> Received(n, b * nlayers + (nlyr - 1 - l))]

\* Entry p of the temperatures received in call n: temf_ of a block, its ghost
\* cells included.  Two blocks do not have the same at the face they share, for
\* the topmost of a block is that of the cell below it.
ReceivedTemf(n, p) ==
  LET r == p \div nlevels
  IN  IF r \in Rank
      THEN [block |-> r, step |-> sent[r][n].step, column |-> sent[r][n].column,
            face |-> (p % nlevels) - NGHOST]
      ELSE Outside

\* unpackTemperature, from the top down: what a block has of its topmost face
\* is overwritten by the block above.
LastWriter(up) ==
  CHOOSE r \in Rank : /\ up - r * nlayers \in 0 .. nlayers
                      /\ \A q \in Rank : up - q * nlayers \in 0 .. nlayers => q <= r
UnpackedTemf(n) ==
  [l \in 0 .. nlyr |->
    LET up == nlyr - l
        r  == LastWriter(up)
    IN  ReceivedTemf(n, r * nlevels + (up - r * nlayers) + NGHOST)]

\* What c_disort is given for each bin.
Gathered(n) ==
  [b \in 0 .. nspec - 1 |-> [temper |-> UnpackedTemf(n), layers |-> Unpacked(n, b)]]

\* The level of the solution that is face i of rank r.
Level(r, i) == nlyr - (r * nlayers + i)

\* The heat a cell gains from the fluxes f of a plane-parallel atmosphere.
volh(r, c, i, f) ==
  Times(Over(Minus(f[i + 1], f[i]), dx1f[r][i]), vol[r][c][i])

\* From the top of a block down: fluxes whose difference, times the areas of the
\* faces, is that heat.  Variant: the flux above is not kept in bflx_iu.
CorrectedInPlace(r, c, f) ==
  LET g[i \in 0 .. nlayers] ==
        IF i = nlayers THEN f[i]
        ELSE Over(Minus(Times(g[i + 1], farea[r][c][i + 1]),
                        volh(r, c, i, [f EXCEPT ![i + 1] = g[i + 1]])),
                  farea[r][c][i])
  IN  g
Corrected(r, c, f) ==
  LET g[i \in 0 .. nlayers] ==
        IF i = nlayers THEN f[i]
        ELSE Over(Minus(Times(g[i + 1], farea[r][c][i + 1]), volh(r, c, i, f)),
                  farea[r][c][i])
  IN  g

\* The flux of one bin is added to that of the bins before, and the sum corrected.
addDisortFlux(r, c, b, given, bflx) ==
  Corrected(r, c, [i \in 0 .. nlayers |->
    Plus(bflx[i], Times(wght[b], Disort(given[b], Level(r, i))))])

\* The fluxes of all bins at the faces of column c.
BandFlux(r, c, given) ==
  LET bflx[n \in 0 .. nspec] ==
        IF n = 0 THEN [i \in 0 .. nlayers |-> Zero]
        ELSE addDisortFlux(r, c, n - 1, given, bflx[n - 1])
  IN  bflx[nspec]

-----------------------------------------------------------------------------
Init ==
  /\ step = 1
  /\ dt \in Dt
  /\ last = 0
  /\ age = 0
  /\ pc = [r \in Rank |-> "add"]
  /\ counter = [r \in Rank |-> 0]
  /\ column = [r \in Rank |-> 1]
  /\ sent = [r \in Rank |-> <<>>]
  /\ flux = [r \in Rank |-> [c \in 1 .. ncolumns |-> NoFlux]]
  /\ added = [r \in Rank |-> [c \in 1 .. ncolumns |-> NoFlux]]

(* AddRadiativeFlux in the stages of a step.                                *)
AddRadiativeFlux(r) ==
  /\ pc[r] = "add"
  /\ added' = [added EXCEPT ![r] = flux[r]]
  /\ pc' = [pc EXCEPT ![r] = "count"]
  /\ UNCHANGED <<step, dt, last, age, counter, column, sent, flux>>

\* Variants: the flux is also kept when the counter is at zero; a rank whose
\* sky is dark does not compute it.
ReuseAtZero(r) == counter[r] >= 0 /\ step > 1
ReuseAloft(r) == counter[r] > 0 \/ r = nblocks - 1
Reuse(r) == counter[r] > 0

(* The last stage of a step: count down, or start over and compute.         *)
Count(r) ==
  /\ pc[r] = "count"
  /\ IF Reuse(r)
     THEN /\ counter' = [counter EXCEPT ![r] = @ - dt]
          /\ pc' = [pc EXCEPT ![r] = "done"]
     ELSE /\ counter' = [counter EXCEPT ![r] = Cooldown]
          /\ pc' = [pc EXCEPT ![r] = "pack"]
  /\ column' = [column EXCEPT ![r] = 1]
  /\ UNCHANGED <<step, dt, last, age, sent, flux, added>>

(* Prepare packs the column; GatherAll is entered.                          *)
GatherAll(r) ==
  /\ pc[r] = "pack"
  /\ sent' = [sent EXCEPT ![r] = Append(@, [step |-> step, column |-> column[r]])]
  /\ pc' = [pc EXCEPT ![r] = "gather"]
  /\ UNCHANGED <<step, dt, last, age, counter, column, flux, added>>

\* Variant: one more turn of the loop.
PastLastColumn(r) == column[r] > ncolumns
LastColumn(r) == column[r] = ncolumns

(* When all have entered the call it returns, and the column is solved.     *)
CalBandFlux(r) ==
  LET n == Len(sent[r])
  IN  /\ pc[r] = "gather"
      /\ \A q \in Rank : Len(sent[q]) >= n
      /\ flux' = [flux EXCEPT ![r][column[r]] =
           [step |-> step, given |-> Gathered(n),
            face |-> BandFlux(r, column[r], Gathered(n))]]
      /\ IF LastColumn(r)
         THEN pc' = [pc EXCEPT ![r] = "done"] /\ UNCHANGED column
         ELSE /\ column' = [column EXCEPT ![r] = @ + 1]
              /\ pc' = [pc EXCEPT ![r] = "pack"]
      /\ UNCHANGED <<step, dt, last, age, counter, sent, added>>

StepDone == \A r \in Rank : pc[r] = "done"

\* The time since the end of the step the fluxes were computed in.
Elapsed == IF \E r \in Rank : sent[r] # <<>> THEN 0 ELSE age + dt

(* The ranks agree on the length of the next step.                          *)
NewTimeStep ==
  /\ StepDone /\ step < MaxStep
  /\ step' = step + 1
  /\ dt' \in Dt /\ last' = dt
  /\ age' = Elapsed
  /\ pc' = [r \in Rank |-> "add"]
  /\ sent' = [r \in Rank |-> <<>>]
  /\ UNCHANGED <<counter, column, flux, added>>

\* Variant: only the lowest rank finds its fluxes in the restart file.
ReloadedLowest ==
  [r \in Rank |-> [c \in 1 .. ncolumns |-> IF r = 0 THEN flux[r][c] ELSE NoFlux]]
Reloaded == [r \in Rank |-> [c \in 1 .. ncolumns |-> NoFlux]]

(* The run is ended and restarted from a file: nothing calls                *)
(* Radiation::DumpRestartData or LoadRestartData, so flux and counter go.   *)
Restart ==
  /\ StepDone /\ step < MaxStep
  /\ step' = step + 1
  /\ dt' \in Dt /\ last' = dt
  /\ age' = 0
  /\ pc' = [r \in Rank |-> "add"]
  /\ counter' = [r \in Rank |-> 0]
  /\ sent' = [r \in Rank |-> <<>>]
  /\ flux' = Reloaded
  /\ UNCHANGED <<column, added>>

Finished == StepDone /\ step = MaxStep /\ UNCHANGED vars

RankStep(r) == AddRadiativeFlux(r) \/ Count(r) \/ GatherAll(r) \/ CalBandFlux(r)

Next ==
  \/ \E r \in Rank : RankStep(r)
  \/ NewTimeStep
  \/ Restart
  \/ Finished

Spec == Init /\ [][Next]_vars
FairSpec ==
  /\ Spec
  /\ WF_vars(NewTimeStep \/ Restart)
  /\ \A r \in Rank : WF_vars(RankStep(r))

-----------------------------------------------------------------------------
(* The counters, the columns and the calls are within their bounds.         *)
TypeOK ==
  /\ step \in 1 .. MaxStep /\ dt \in Dt /\ last \in Dt \cup {0} /\ age \in Nat
  /\ pc \in [Rank -> {"add", "count", "pack", "gather", "done"}]
  /\ counter \in [Rank -> Int]
  /\ column \in [Rank -> 1 .. ncolumns]
  /\ \A r \in Rank :
       /\ Len(sent[r]) <= ncolumns
       /\ \A n \in 1 .. Len(sent[r]) :
            sent[r][n] \in [step : 1 .. MaxStep, column : 1 .. ncolumns]
       /\ \A c \in 1 .. ncolumns : flux[r][c].step \in 0 .. MaxStep

Kept(r, c) == flux[r][c] # NoFlux

\* Bin b of column c in step s, from the top down.  The temperature where two
\* blocks meet is that of the upper one.
WholeColumn(s, c, b) ==
  [temper |-> [l \in 0 .. nlyr |->
     LET up == nlyr - l
     IN  IF l = 0 THEN [block |-> nblocks - 1, step |-> s, column |-> c, face |-> nlayers]
         ELSE [block |-> up \div nlayers, step |-> s, column |-> c, face |-> up % nlayers]],
   layers |-> [l \in 0 .. nlyr - 1 |->
     LET up == nlyr - 1 - l
     IN  [block |-> up \div nlayers, step |-> s, column |-> c, bin |-> b,
          layer |-> up % nlayers]]]

ASSUME DisortAssumption ==
  \A s \in 1 .. MaxStep, c \in 1 .. ncolumns, b \in 0 .. nspec - 1, l \in 0 .. nlyr :
    Disort(WholeColumn(s, c, b), l) \in Number

(* What a flux is computed from is that column: all its layers and          *)
(* temperatures of one time step and in order from the top of the highest   *)
(* block down, and the layers of each bin those of that bin.                *)
ColumnsWhole ==
  \A r \in Rank, c \in 1 .. ncolumns : Kept(r, c) =>
    \A b \in 0 .. nspec - 1 :
      flux[r][c].given[b] = WholeColumn(flux[r][c].step, c, b)

\* The flux of column c through its n-th face from below in a plane-parallel
\* atmosphere, all bins together.
PlaneParallel(s, c, n) ==
  LET sum[m \in 0 .. nspec] ==
        IF m = 0 THEN Zero
        ELSE Plus(sum[m - 1], Times(wght[m - 1], Disort(WholeColumn(s, c, m - 1), nlyr - n)))
  IN  sum[nspec]

(* The kept fluxes, times the areas of the faces, heat every cell of every  *)
(* block as a plane-parallel solution for the whole column does ("so that   *)
(* the heating rate is the same as the plane-parallel scheme").             *)
HeatingKept ==
  \A r \in Rank, c \in 1 .. ncolumns : Kept(r, c) =>
    \A i \in 0 .. nlayers - 1 :
      LET f == flux[r][c]
          n == r * nlayers + i
      IN  Minus(Times(f.face[i + 1], farea[r][c][i + 1]), Times(f.face[i], farea[r][c][i]))
            = Times(Over(Minus(PlaneParallel(f.step, c, n + 1), PlaneParallel(f.step, c, n)),
                         dx1f[r][i]),
                    vol[r][c][i])

(* In a step all blocks add fluxes computed in the same step before, or all *)
(* of them none.                                                            *)
AddedTogether ==
  \A q, r \in Rank : pc[q] # "add" /\ pc[r] # "add" =>
    \A c, d \in 1 .. ncolumns :
      /\ added[q][c].step = added[r][d].step
      /\ added[q][c].step < step

(* A flux is added again only if the steps since it was computed, without   *)
(* the last of them, took less time than the cooldown.                      *)
FluxRecent ==
  \A r \in Rank : pc[r] # "add" /\ (\E c \in 1 .. ncolumns : added[r][c] # NoFlux) =>
    age = 0 \/ age - last < Cooldown

(* No rank waits in a collective the others do not call.                    *)
Completes == <>(StepDone /\ step = MaxStep)
=============================================================================
