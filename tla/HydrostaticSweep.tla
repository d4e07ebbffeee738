-------------------------- MODULE HydrostaticSweep --------------------------
(***************************************************************************)
(* The hydrostatic decomposition (snap/decomposition) that opens           *)
(* CalculateFluxes in every stage.  A block calls FindNeighbors, an        *)
(* MPI_Allgather over all ranks; the highest block of a column             *)
(* extrapolates the pressure to its upper face, any other receives the     *)
(* faces next to it from the block above into buffer_; it integrates its   *)
(* own cells downwards, sends its lowest faces to the block below from the *)
(* same buffer_, integrates through its ghost cells, and turns pressure    *)
(* and density into perturbation and temperature.  It waits for its send,  *)
(* reconstructs, and RestoreFromTemperature takes the cells back.          *)
(*                                                                         *)
(* A cell is known by the column, stage and place it belongs to, densities *)
(* and pressures are integers, and the logarithmic mean of the pressures   *)
(* of two faces is the set of the two.  Gravity is not zero (with zero     *)
(* gravity every call returns at once) and points down.                    *)
(***************************************************************************)
EXTENDS Integers, FiniteSets

CONSTANTS
  NColumn,      \* columns of blocks, in a row
  NLayer,       \* blocks of a column
  N,            \* cells of a block along the column
  NGHOST,       \* ghost cells on either side
  Rank,         \* the MPI ranks
  Gid,          \* Gid[b]: number of block b in the mesh
  Setups,       \* the arrangements of blocks and boundaries checked together
  Density,      \* Density[t]: mass of cell t under the unit area
  Extrapolated, \* Extrapolated[t]: isothermal extrapolation from cell t to its top
  MaxStage      \* bound: stages

Block == (1 .. NColumn) \X (1 .. NLayer)
Height == NLayer * N
Token == (1 .. NColumn) \X (1 .. MaxStage) \X (1 .. Height)
Flag == {"reflect", "outflow"}
SetupType == [rankOf : [Block -> Rank], inner : Flag, outer : Flag]

ASSUME DecompositionAssumption ==
  /\ NColumn \in Nat \ {0} /\ NLayer \in Nat \ {0} /\ MaxStage \in Nat \ {0}
  /\ NGHOST \in Nat \ {0} /\ N \in Nat /\ N >= NGHOST
  /\ Setups \subseteq SetupType
  /\ Gid \in [Block -> Nat]
  /\ Density \in [Token -> Nat \ {0}]
  /\ Extrapolated \in [Token -> Nat]

\* Cells and faces of a block, its own being is .. ie; face i is below cell i.
is == 1
ie == N
Cell == is - NGHOST .. ie + NGHOST
Face == is - NGHOST .. ie + NGHOST + 1

VARIABLES
  setup,    \* which rank has which block, what the column ends at
  stage,    \* stage[b]: the stage block b is in
  phase,    \* phase[b]: how far CalculateFluxes has come in it
  calls,    \* calls[r]: how many MPI_Allgather rank r has entered
  w,        \* w[b][i]: the cell, and the pressure taken off it
  psf,      \* psf[b][i]: pressure at faces
  psv,      \* psv[b][i]: mean pressure of cells
  buffer,   \* buffer[b]: buffer_
  net,      \* the messages MPI holds
  pending,  \* pending[b]: req_send_bot_ is not complete
  aborted   \* a local boundary has ended the program

vars == <<setup, stage, phase, calls, w, psf, psv, buffer, net, pending, aborted>>

RankOf(b) == setup.rankOf[b]
HasTop(b) == b[2] < NLayer
HasBot(b) == b[2] > 1
Top(b) == <<b[1], b[2] + 1>>
Bot(b) == <<b[1], b[2] - 1>>

-----------------------------------------------------------------------------
(* What is in the cells of a block when a stage begins: its own cells, those *)
(* of its neighbours, and beyond the ends of the column the boundary's.      *)
Place(z) ==
  CASE z \in 1 .. Height -> z
    [] z < 1             -> IF setup.inner = "reflect" THEN 1 - z ELSE 1
    [] z > Height        -> IF setup.outer = "reflect" THEN 2 * Height + 1 - z
                                                       ELSE Height
Primitive(b, s) ==
  [i \in Cell |-> [of |-> <<b[1], s, Place((b[2] - 1) * N + i)>>, off |-> {}]]

\* A cell that is not restored to what it was.
Refilled == <<0, 0, 0>>

Init ==
  /\ setup \in Setups
  /\ stage = [b \in Block |-> 1]
  /\ phase = [b \in Block |-> "ready"]
  /\ calls = [r \in Rank |-> 0]
  /\ w = [b \in Block |-> Primitive(b, 1)]
  /\ psf = [b \in Block |-> [i \in Face |-> 0]]
  /\ psv = [b \in Block |-> [i \in Cell |-> {}]]
  /\ buffer = [b \in Block |-> <<>>]
  /\ net = {}
  /\ pending = [b \in Block |-> FALSE]
  /\ aborted = FALSE

-----------------------------------------------------------------------------
\* Sums over the steps h[i] between i and i + 1: downwards from v at b, and
\* upwards from v at a.
FromTop(v, h, a, b) ==
  LET sum[i \in a .. b] == IF i = b THEN v ELSE sum[i + 1] + h[i] IN sum
FromBottom(v, h, a, b) ==
  LET sum[i \in a .. b] == IF i = a THEN v ELSE sum[i - 1] - h[i - 1] IN sum

\* IntegrateDownwards and IntegrateUpwards from il to iu; sign is -1 where the
\* code passes -grav.
Weight(cells, sign, il, iu) == [i \in il .. iu |-> sign * Density[cells[i].of]]
Downwards(p, cells, sign, il, iu) ==
  LET sum == FromTop(p[iu + 1], Weight(cells, sign, il, iu), il, iu + 1)
  IN  [i \in Face |-> IF i \in il .. iu THEN sum[i] ELSE p[i]]
Upwards(p, cells, sign, il, iu) ==
  LET sum == FromBottom(p[il], Weight(cells, sign, il, iu), il, iu + 1)
  IN  [i \in Face |-> IF i \in il + 1 .. iu + 1 THEN sum[i] ELSE p[i]]

\* Variant: every boundary but an outflow has its ghost cells reversed.
InnerSignNotOutflow(b) == IF ~ HasBot(b) /\ setup.inner = "outflow" THEN 1 ELSE -1
\* Beyond a wall gravity is reversed.
InnerSign(b) == IF ~ HasBot(b) /\ setup.inner = "reflect" THEN -1 ELSE 1
OuterSign(b) == IF ~ HasTop(b) /\ setup.outer = "reflect" THEN -1 ELSE 1

\* Variants: the message starts a face too low, or is a face short.
LowestFacesBelow(p) == [i \in 0 .. NGHOST |-> p[is + i - 1]]
LowestFacesShort(p) == [i \in 0 .. NGHOST - 1 |-> p[is + i]]

\* What SendToBottom packs and RecvFromTop unpacks.
LowestFaces(p) == [i \in 0 .. NGHOST |-> p[is + i]]
Unpacked(p, data) ==
  [i \in Face |-> IF i \in ie + 1 .. ie + NGHOST + 1 /\ i - ie - 1 \in DOMAIN data
                  THEN data[i - ie - 1] ELSE p[i]]

\* The ghost faces, once the block's own are there.
Populated(b, p) ==
  Upwards(Downwards(p, w[b], InnerSign(b), is - NGHOST, is - 1),
          w[b], OuterSign(b), ie + 1, ie + NGHOST)

\* The cells as perturbations; an outflow boundary copies the cell next to it.
Perturbed(b, mean) ==
  [i \in Cell |->
    LET from == CASE i < is /\ ~ HasBot(b) /\ setup.inner = "outflow" -> is
                  [] i > ie /\ ~ HasTop(b) /\ setup.outer = "outflow" -> ie
                  [] OTHER -> i
    IN  [of |-> w[b][from].of, off |-> mean[from]]]

-----------------------------------------------------------------------------
\* A rank does CalculateFluxes of its blocks one at a time, in their order.
Turn(b) ==
  \A c \in Block \ {b} : RankOf(c) = RankOf(b) =>
    /\ phase[c] \notin {"gathering", "sending"}
    /\ Gid[c] < Gid[b] => stage[c] > stage[b] \/ phase[c] = "restored"

\* Variant: only a block that has one below takes part.
FindNeighborsAbove(b) ==
  /\ ~ aborted /\ phase[b] = "ready" /\ Turn(b)
  /\ phase' = [phase EXCEPT ![b] = "gathering"]
  /\ calls' = [calls EXCEPT ![RankOf(b)] = IF HasBot(b) THEN @ + 1 ELSE @]
  /\ UNCHANGED <<setup, stage, w, psf, psv, buffer, net, pending, aborted>>

\* ChangeToTemperature enters the MPI_Allgather of FindNeighbors.
FindNeighbors(b) ==
  /\ ~ aborted /\ phase[b] = "ready" /\ Turn(b)
  /\ phase' = [phase EXCEPT ![b] = "gathering"]
  /\ calls' = [calls EXCEPT ![RankOf(b)] = @ + 1]
  /\ UNCHANGED <<setup, stage, w, psf, psv, buffer, net, pending, aborted>>

\* It leaves when all ranks have entered it: their n-th calls belong together.
Gathered(b) == \A c \in Block : calls[RankOf(c)] >= calls[RankOf(b)]

Value(m) == IF m.copied THEN m.data ELSE buffer[m.from]

(* ChangeToTemperature from there to its MPI_Wait, given the faces above     *)
(* (top) and the message that brought them (taken).                          *)
Decompose(b, top, received, taken) ==
  LET own  == Downwards(top, w[b], 1, is, ie)
      p    == Populated(b, own)
      mean == [i \in Cell |-> {p[i], p[i + 1]}]
      left == [c \in Block |-> pending[c] /\ ~ \E m \in taken : m.from = c /\ ~ m.copied]
  IN  /\ psf' = [psf EXCEPT ![b] = p]
      /\ psv' = [psv EXCEPT ![b] = mean]
      /\ w' = [w EXCEPT ![b] = Perturbed(b, mean)]
      /\ phase' = [phase EXCEPT ![b] = "sending"]
      /\ IF HasBot(b)
         THEN /\ buffer' = [buffer EXCEPT ![b] = LowestFaces(own)]
              /\ \E copied \in BOOLEAN :
                   /\ net' = (net \ taken) \cup
                        {[to |-> Bot(b), from |-> b, copied |-> copied,
                          data |-> LowestFaces(own)]}
                   /\ pending' = [left EXCEPT ![b] = ~ copied]
         ELSE /\ buffer' = [buffer EXCEPT ![b] = received]
              /\ net' = net \ taken
              /\ pending' = left
      /\ UNCHANGED <<setup, stage, calls, aborted>>

(* ChangeToTemperature after FindNeighbors.                                  *)
ChangeToTemperature(b) ==
  /\ ~ aborted /\ phase[b] = "gathering" /\ Gathered(b)
  /\ \/ /\ ~ HasTop(b)
        /\ Decompose(b, [psf[b] EXCEPT ![ie + 1] = Extrapolated[w[b][ie].of]],
                     buffer[b], {})
     \/ /\ HasTop(b) /\ RankOf(Top(b)) # RankOf(b)
        /\ \E m \in net :
             /\ m.to = b
             /\ Decompose(b, Unpacked(psf[b], Value(m)), Value(m), {m})
     \/ /\ HasTop(b) /\ RankOf(Top(b)) = RankOf(b)
        /\ aborted' = TRUE
        /\ UNCHANGED <<setup, stage, phase, calls, w, psf, psv, buffer, net, pending>>

\* Variant: the cells the flux is computed from are restored, not their ghosts.
RestoredOwn(b) ==
  [i \in Cell |-> IF i \in is .. ie THEN [of |-> w[b][i].of, off |-> {}] ELSE w[b][i]]

\* w after RestoreFromTemperature of all pencils: what was taken off is added.
Restored(b) ==
  [i \in Cell |->
    IF w[b][i].off = psv[b][i] THEN [of |-> w[b][i].of, off |-> {}]
                               ELSE [of |-> Refilled, off |-> {}]]

(* The MPI_Wait, reconstruction and RestoreFromTemperature.                  *)
RestoreFromTemperature(b) ==
  /\ ~ aborted /\ phase[b] = "sending" /\ ~ pending[b]
  /\ w' = [w EXCEPT ![b] = Restored(b)]
  /\ phase' = [phase EXCEPT ![b] = "restored"]
  /\ UNCHANGED <<setup, stage, calls, psf, psv, buffer, net, pending, aborted>>

\* Blocks that exchange ghost cells.
Adjacent(b, c) ==
  \/ b[1] = c[1] /\ b[2] - c[2] \in {-1, 1}
  \/ b[2] = c[2] /\ b[1] - c[1] \in {-1, 1}

\* The rest of a stage: new cells, and ghost cells from neighbours that have
\* come as far.
NextStage(b) ==
  /\ ~ aborted /\ phase[b] = "restored" /\ stage[b] < MaxStage
  /\ \A c \in Block : Adjacent(b, c) =>
       stage[c] > stage[b] \/ (stage[c] = stage[b] /\ phase[c] = "restored")
  /\ stage' = [stage EXCEPT ![b] = @ + 1]
  /\ phase' = [phase EXCEPT ![b] = "ready"]
  /\ w' = [w EXCEPT ![b] = Primitive(b, stage[b] + 1)]
  /\ UNCHANGED <<setup, calls, psf, psv, buffer, net, pending, aborted>>

AllDone == \A b \in Block : stage[b] = MaxStage /\ phase[b] = "restored"

\* The last stage is over, or the program is gone.
Finished == (AllDone \/ aborted) /\ UNCHANGED vars

BlockStep(b) ==
  FindNeighbors(b) \/ ChangeToTemperature(b) \/ RestoreFromTemperature(b) \/ NextStage(b)

Next == (\E b \in Block : BlockStep(b)) \/ Finished

\* A block that can go on does: its rank runs nothing else.
Spec == Init /\ [][Next]_vars
FairSpec == Spec /\ \A b \in Block : WF_vars(BlockStep(b))

-----------------------------------------------------------------------------
Faces == [0 .. NGHOST -> Int]
Message == [to : Block, from : Block, copied : BOOLEAN, data : Faces]

(* Messages and buffers hold NGHOST + 1 faces, phases and counters stay in   *)
(* their ranges (psf_, psv_, buffer_ and the request of a block).            *)
TypeOK ==
  /\ setup \in Setups
  /\ stage \in [Block -> 1 .. MaxStage]
  /\ phase \in [Block -> {"ready", "gathering", "sending", "restored"}]
  /\ calls \in [Rank -> Nat]
  /\ w \in [Block -> [Cell -> [of : Token \cup {Refilled}, off : SUBSET Int]]]
  /\ psf \in [Block -> [Face -> Int]]
  /\ psv \in [Block -> [Cell -> SUBSET Int]]
  /\ buffer \in [Block -> Faces \cup {<<>>}]
  /\ net \subseteq Message
  /\ pending \in [Block -> BOOLEAN]
  /\ aborted \in BOOLEAN

Decomposed(b) == phase[b] \in {"sending", "restored"}

\* The pressure at the faces of column c in stage s, without blocks.
Integral(c, s) ==
  FromTop(Extrapolated[<<c, s, Height>>], [f \in 1 .. Height |-> Density[<<c, s, f>>]],
          1, Height + 1)

\* The same at any face z: beyond a wall it is mirrored, beyond an open end it
\* goes on with the last cell.
Pressure(c, s, z) ==
  LET inside == Integral(c, s)
  IN  CASE z \in 1 .. Height + 1 -> inside[z]
        [] z < 1 -> IF setup.inner = "reflect" THEN inside[2 - z]
                    ELSE inside[1] + (1 - z) * Density[<<c, s, 1>>]
        [] z > Height + 1 -> IF setup.outer = "reflect" THEN inside[2 * Height + 2 - z]
                    ELSE inside[Height + 1] - (z - Height - 1) * Density[<<c, s, Height>>]

(* The pressure of every face of a block, ghost faces included, is that of   *)
(* one integration of the whole column in the stage the block is in,         *)
(* whatever the stages of the blocks whose faces it was handed.              *)
PressureIsIntegral ==
  \A b \in Block : Decomposed(b) =>
    \A i \in Face : psf[b][i] = Pressure(b[1], stage[b], (b[2] - 1) * N + i)

(* Two blocks that share a face reconstruct from the same perturbations and  *)
(* restore with the same pressure on both sides of it: each block's ghost    *)
(* cells are the cells of the other.  The fluxes they compute for the face   *)
(* then agree, and no mass is lost between ranks.                            *)
InterfaceStatesAgree ==
  \A b \in Block : HasTop(b) =>
    LET t == Top(b)
    IN  phase[b] = "sending" /\ phase[t] = "sending" =>
          /\ stage[b] = stage[t]
          /\ \A i \in ie + 1 - NGHOST .. ie + NGHOST :
               w[b][i] = w[t][i - N] /\ psv[b][i] = psv[t][i - N]
          /\ psf[b][ie + 1] = psf[t][is]

(* No block goes on to the fluxes across columns, or to the next stage, with *)
(* a cell left as a perturbation; but beyond an open end the ghost cells are *)
(* not what they were before.                                                *)
RestoredWhole ==
  \A b \in Block : phase[b] \in {"restored", "ready"} =>
    \A i \in Cell :
      \/ w[b][i] = Primitive(b, stage[b])[i]
      \/ /\ i < is /\ ~ HasBot(b) /\ setup.inner = "outflow"
         /\ w[b][i].off = {}
      \/ /\ i > ie /\ ~ HasTop(b) /\ setup.outer = "outflow"
         /\ w[b][i].off = {}

\* Two blocks above each other on one rank.
Stacked == \E b \in Block : HasTop(b) /\ RankOf(Top(b)) = RankOf(b)

\* All ranks have the same number of blocks.
Even ==
  LET Blocks(r) == {b \in Block : RankOf(b) = r}
  IN  \A b, c \in Block : Cardinality(Blocks(RankOf(b))) = Cardinality(Blocks(RankOf(c)))

(* Blocking receives, waits and the collective of every stage let the        *)
(* program come to its end if each rank has as many blocks as any other.     *)
(* With two blocks of a column on one rank it ends in the error of           *)
(* RecvFromTop; if one rank has more blocks than another, that rank waits in *)
(* a collective for ranks that wait for its message, and no end is reached.  *)
Completes ==
  /\ Stacked => <>aborted
  /\ Even /\ ~ Stacked => <>AllDone
  /\ ~ Even /\ ~ Stacked => []~ AllDone

=============================================================================
