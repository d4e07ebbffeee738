# Canoe: a TLA+ model of its parallel core

Canoe is an atmosphere model: it evolves the equations of a moist, radiating
atmosphere on the meshblocks of Athena++, patches that library in a dozen
places and adds a cubed-sphere mesh, a vertically implicit solver, a
hydrostatic decomposition of the pressure, radiation, chemistry and forcing.
Most of its code is arithmetic on arrays. What is hard to get right and hard to
test is how blocks on different MPI ranks hand each other faces, ghost cells,
coefficients and pressures. This directory models that.

Paths below are those of the repository: `src/src/exo3` is the directory `src/exo3`
of Canoe, `src/patches` its patches to Athena++.

## 1. The system

| Part | Where | State it keeps | Operations | Interacts with |
|---|---|---|---|---|
| Cubed-sphere topology | `exo3/cs_find_block_id.cpp`, `cs_transform_ox.cpp`, `patches/30` | neighbour table of each block | `FindBlockID`, `GetLocalIndex`, `TransformOX`, `SearchAndSetNeighbors` | read by every exchange |
| Flux synchronization | `exo3/cubed_sphere.cpp`, `patches/19` | `L3DValues`, `R3DValues`, `LRDataBuffer`, requests | `SaveLR3DValues`, `SynchronizeFluxesSend/Recv/Wait`, `LoadLR3DValues` | called by `Hydro::CalculateFluxes` in each stage; MPI |
| Ghost exchange | `exo3/cubed_sphere_utility.cpp`, `patches/33` | boundary buffers (Athena++) | `PackData` with `InteprolateX2/X3`, `PackDataR0..R3` | the task list's `SEND_HYD`, `SETB_HYD` |
| Implicit solver | `snap/implicit` | `du_`, `buffer_`, `coefficients_`, requests | `SolveImplicit3D`, `ForwardSweep`, `BackwardSubstitution`, periodic variants | task `IMPLICIT_CORR`; MPI along a stack |
| Hydrostatic decomposition | `snap/decomposition` | `psf_`, `psv_`, `gamma_`, `buffer_` | `ChangeToTemperature`, `RestoreFromTemperature` | `CalculateFluxes`; MPI along a column and a collective |
| Exchanger | `exchanger` | `color_`, `brank_`, a communicator, buffers | `Regroup`, `GatherAll`, `ReduceAll`, `SendTo`, `RecvFrom` | radiation, diagnostics |
| Radiation | `harp` | fluxes, optical properties, cooldown counter | `CalFlux`, `AddRadiativeFlux`, pack and unpack of columns | task `ADD_FLX_CONS`, exchanger |
| Task list | `tasklist`, `patches/31`, `24` | task table, finished tasks of each block | constructor, the three tasks it adds and the two it replaces | everything a stage does |
| Block implementation, restart | `impl.cpp`, `virtual_groups.hpp`, `mesh_setup.cpp` | owners of all the above | construct, dump, load | main loop |
| Index map, singletons | `index_map.cpp`, `snap/thermodynamics` | one instance, species offsets | `GetInstance`, `InitFrom...`, `Destroy` | all physics |
| Thermodynamics, EOS, Riemann solvers, turbulence | `snap` | none beyond the fields | formulas per cell | `CalculateFluxes`, the last task of a stage |
| Forcing, microphysics, tracers, opacity, astro | directories of these names | coefficients read at start | source terms per cell | tasks `SRC_TERM`, `UPDATE_ALLCONS` |
| Numerical library | `climath` | none | table lookup, interpolation, linear algebra | physics |
| Diagnostics, outputs | directories of these names | files | reductions and writers | main loop |
| Particles | `nbody` (not built) | particle lists | exchange between blocks | MPI |

The hard behaviours are all of the parallel kind: sends that are complete only
when waited for, blocking receives made in an order that some other rank must
match, buffers used for both, tags computed from block numbers or hashed, tables
written by hand that two ranks must agree on, data of one stage met by a
neighbour in the next, several blocks on one process. Nothing is persisted except
in restart files, and a run that loses a rank is lost.

What makes each part correct:

- topology: the neighbour relation is symmetric, no two faces share a buffer, and
  the faces joined are the same edge of the sphere;
- flux synchronization: the two states given to the Riemann solver are of the
  same point, the same stage and on the same basis; buffers are left alone while
  in flight; no block waits forever;
- ghost exchange: each ghost cell gets the value meant for it;
- implicit solver: the sweep distributed over ranks computes what a serial
  tridiagonal solver computes, once per system, and ends;
- decomposition: the pressure of a block, ghost faces included, is the integral over its
  whole column in the stage it is in, and blocks see the same on both sides of a face;
- exchanger: ranks are grouped exactly by column or plane and gathered in order;
- radiation: every rank solves the same whole column, of one step, and heats its
  cells as the plane-parallel solution for that column does; all ranks renew their
  fluxes in the same step;
- task list: ghost cells are sent only after the implicit correction, twice on the
  cubed sphere, and each exchange uses what was sent in it.

`PROJECT.json` lists the hazards at the lines where they bite.

## 2. The modules

| Module | What it is | The code it stands for |
|---|---|---|
| `CubedSphere` | operators: panels, seam table, neighbour, charts | `FindBlockID`, `GetLocalIndex`, `TransformOX`, `RLLFromXYP` |
| `Neighbors` | ranks filling neighbour tables block by block | patched `SearchAndSetNeighbors` |
| `FluxSync` | the stages of `CalculateFluxes` over MPI | `cubed_sphere.cpp` |
| `GhostExchange` | one exchange, for every face of every block | `cubed_sphere_utility.cpp` |
| `SerialSweep` | abstract: systems solved one after the other | what `PartialCorrection` promises |
| `ImplicitSweep` | the sweep with buffers, tags, requests | `ForwardSweep`, `BackwardSubstitution`, `SendBuffer`, `RecvBuffer` |
| `Tridiagonal` | `ImplicitSweep` with the numbers it computes and sends | `ForwardSweep`, `BackwardSubstitution` and their periodic variants |
| `HydrostaticSweep` | the decomposition that opens each stage, down columns of blocks | `ChangeToTemperature`, `RestoreFromTemperature`, `FindNeighbors` |
| `Exchanger` | colouring of ranks, one loop turn per step | `setColor`, `Regroup`, `GetRankInGroup` |
| `ColumnRadiation` | the radiative fluxes of a stack of blocks over time steps | `AddFluxToConserved`, `CalBandFlux`, `addDisortFlux`, pack and unpack |
| `StageTasks` | the task list of every block, scanned by every rank | `ImplicitHydroTasks`, the patched `TimeIntegratorTaskList` |
| `CubedSphereTheorems`, `GhostExchangeTheorems` (which holds those of `Neighbors` too), `FluxSyncTheorems`, `ImplicitSweepTheorems`, `HydrostaticSweepTheorems`, `ExchangerTheorems`, `ColumnRadiationTheorems`, `StageTasksTheorems` | proofs | |
| `MCNeighbors`, `MCFluxSync`, `MCImplicitSweep`, `MCTridiagonal`, `MCHydrostaticSweep`, `MCExchanger`, `MCColumnRadiation`, `MCStageTasks` | instances for TLC | |
| `MCImplicitShared` | `ImplicitSweep` on every placement of a stack on ranks | the loop over the blocks of a rank |

`Neighbors`, `FluxSync` and `GhostExchange` extend `CubedSphere`, so the three
exchanges are checked against one topology. `ImplicitSweep` instantiates
`SerialSweep`, and `Tridiagonal` extends it: same steps, with values. `MCExchanger` instantiates `CubedSphere` for the ranks of a sphere.
`StageTasks` sits above the others: what `FluxSync`, `HydrostaticSweep`, `ImplicitSweep` and
`ColumnRadiation` do inside a task is there one step that waits until the blocks
it talks to have come to the same task.

### Topology

A block is its logical location. `Seam` is the `switch` of `TransformOX`, one line
per case; what differs between the build with `USE_NBLOCKS` and the one without is
only how a quotient by the number `B` of blocks along a panel side is written.
`SurfacePoint` is `RLLFromXYP` without its trigonometry: the point of a cube below
the direction whose longitude and latitude the code returns. Angles of the chart
stand for their tangents; both are odd and increasing, so equality of points
along a border is not affected. In `Neighbors` each rank
constructs its blocks in order and sets first the x2 and then the x3 faces;
nothing synchronizes ranks.

### Flux synchronization

`SaveAndSend` is everything a block does up to its first receive, `Recv` one
blocking receive and what it unpacks, `Wait` the wait for its sends, after which
the Riemann problems read the states. A channel between two ranks is the sequence of messages
in the order posted; a receive takes the first with its tag, as MPI promises.
`eager`, chosen once, says whether MPI copies the data when a send is posted or
reads the sender's buffer when it is matched: the two behaviours an MPI library can have.
A state of a face is recorded as the stage and the face it comes from; each cell of
a packed face carries the panel and the position whose basis its velocity is given on.

### Ghost exchange

The module unrolls `PackData` for one buffer: which layers are sent, the order
they are packed in, and for each value the layer, the angle along the border and
the basis it was made for. The receiver unpacks in plain order behind its face.

### Implicit sweep

Systems (columns of a block, stage after stage) are numbered; `ColumnOf` gives
the slot of `buffer_` and `coefficients_` that one uses. A value is a token: the
right coefficients of system i at block b, the right solution, or anything else.
`ForwardSweep` receives from below, eliminates, saves and sends up;
`BackwardSubstitution` loads, receives from above, substitutes and sends down;
the waits at its end are the guard of the next `ForwardSweep`. A message holds
the value or, if MPI has not copied it, refers to the buffer, so that a buffer
overwritten too early is seen. Tags are an arbitrary function of receiver, sender
and direction: `Tag` covers every hash of these, the worst included. That the hash
also has the column in it is left out, which can only add collisions. Other traffic
on `MPI_COMM_WORLD` that could have an equal tag is not modelled. The local branch of
`SendBuffer` is modelled as written, with the block `bblock` it always uses. A rank that
has several blocks does all columns of one before it comes to the next, in each stage from the
lowest up (`Turn`): that is the loop of the task list, in which `IMPLICIT_CORR` does not return
before its last column is done.

`Tridiagonal` adds to each block the coefficients and solutions of each system. A
block's elimination is a function of what the block below sent and of its own
cells, so the numbers are attached to the steps of `ImplicitSweep` whenever what was
received is what was sent for the system (`SolutionsRight` says it always is). The
blocks of the matrix are 2 x 2 matrices over the integers modulo q, a prime in the run: they do not
commute, and every equation can be tested exactly. An Eigen inverse of a singular pivot would be
garbage; so it is here (`Inverted`), and the pivots of the run are regular. How fluxes and
Jacobians become coefficients is not modelled: they are given, all different.
In the periodic sweep the first block uses an element below its first cell and
the last one, an element two below its last. The latter comes from the block's own cells or the
message, as in the code. The former is the diagonal entry of a ghost cell; `DiagU` assumes that it equals that
of the cell which the ghost cell is a copy of. The code that would exchange it is commented out, so that a ghost
cell whose entry differs is not covered by any property (it is listed as a hazard).

### Hydrostatic decomposition

`FindNeighbors` enters the collective, `ChangeToTemperature` is everything from the
return of the collective to the wait for the send (which is one step, since the only thing
that blocks in between is the receive at its beginning), `RestoreFromTemperature` that
wait and the restore; `NextStage` stands for the rest of a stage, of which only the
exchange of ghost cells holds a block back. Densities are integers
that no two cells share, so a pressure tells which cells were
summed. The mean pressure of a cell is known by its two faces; what is taken off a
cell must be what is added again. A message is a copy, or refers to `buffer_`,
which also takes what comes from above. Ranks do their blocks one after another and their
n-th calls of the collective belong together.

### Exchanger

Every rank runs the same loop on the same gathered `brank_`, so one copy of it is
modelled, one rank per step. A mesh is given by the rank below each rank in each
direction, as the neighbour table has it, and by the ranks at the lower end,
where `find_neighbors` undoes the wrap of a periodic mesh. A planar exchanger
colours twice, the second time on top of the first.

### Radiation

A buffer is its entries, one per layer: the block, step, column, bin and layer an
entry was packed from. `Packed`, `Received` and `Unpacked` are the index arithmetic
of the code; what `packSpectralProperties` writes beyond the end of the buffer is
not represented, only that nobody receives it. Temperatures travel with their ghost cells
(`ReceivedTemf`, `UnpackedTemf`; the Planck function is on); the topmost face of a block and the lowest of the one
above are the same face with two temperatures, of which unpacking leaves the upper one's. The n-th call of
`GatherAll` of every rank meets the n-th of the others, with whatever columns these are at; the gathers
of the properties and of the temperatures follow each other at once and are one step.

The numbers are given by their operations: `NumberAssumption` says which laws of exact
arithmetic are used, so rounding is left out. `Disort` is any function of what `c_disort` was given and of the level.
`addDisortFlux` takes the flux at a block's own levels, adds it to those of the bins before and
then rewrites all faces but the topmost from there down, with the areas and volumes of the cells, as
the code does. The fluxes up and down go through the same lines and one stands for both.
`age` and `last`, the length of the step before, only record time for `FluxRecent`.
`Restart` may come between any two steps: nothing in the program calls the dump
and load functions of `Radiation`.

Two blocks need not have the same flux at the face they share: each keeps its own topmost one and corrects those below
with its own geometry, so on a spherical mesh the face's two values differ, as the comments at
`rt_solver_disort.cpp:296` and 301 (marked `\bug`) admit. What the code promises there (lines 311-314) is the heating, which is
what `HeatingKept` states. It holds for one bin. With several, the correction is applied to a sum
of which the part of the bins before has been corrected already, and the heating is not that of the plane-parallel sum; since several bins
do not get through the buffers either (`radiation_bins`), that is not pursued.

### Task list

`List` is the order of the `AddTask` calls, `Dep` what each task waits for after
`ImplicitHydroTasks` has overwritten entries. A rank visits its blocks in turn;
a visit scans the list from the beginning and runs what it can until a task says
`success` (as the tasks of Athena++ that exchange do) rather than `next`. A value is the set of
contributions that went into it, each with its stage, so that a task run too
early, twice or on data of another stage shows in what is sent and read. Both
exchanges of a stage use one set of requests, flags and buffers, as in the code.
No task depends on the tasks that send; that they run at all before
`CLEAR_ALLBND` follows from the scan order, which is why the scan is modelled.
The fluxes wait for the blocks above and below (the collective and the pressure), the
radiation and the implicit correction for the column.

## 3. The runs

| Run | Instance | Checks | Shows |
|---|---|---|---|
| `neighbors` | 24 blocks (B = 2), 3 ranks | `TypeOK`, `Reciprocal`, `NoBufferClash`, `SameEdge` | all tables agree, in every interleaving |
| `flux_sync` | 6 blocks, 6 ranks, 2 x 2 cells, 3 stages | `TypeOK`, `FaceStatesAgree`, `StageSkew`, `BufferHeld`, `Completes` | right states in every interleaving; at most one stage apart; receives never wait in a circle |
| `ghost_exchange` | B = 2, 4 cells, 2 ghost layers | `GhostsMatch`, `GhostsCopied`, `BasisUnlessTurned` | every ghost cell gets its value |
| `ghost_basis` | the same | `BasisAtGhost` (violated) | wrong basis over four borders |
| `implicit_sweep` | 5 blocks of 2 cells, 5 ranks, 2 columns, 8 systems, 4 of them periodic, one tag | `TypeOK`, `SolutionsRight`, `OneMessage`, `SolvesSystem`, `BufferStable`, `ImplementsSerial`, `Completes` | the sweep is the serial solver, and what it finds solves the system |
| `implicit_shared` | 4 blocks on 1 to 4 ranks, all 15 placements, distinct tags, 2 columns, 4 systems | `Ends` | which placements of a stack end, and that the others never do |
| `implicit_local` | 2 blocks on 1 rank | `SolutionsRight` (violated) | wrong solutions within a process |
| `exchanger` | 12 Cartesian meshes of 3 to 8 blocks, periodic or not, and 6 panels; 2 groupings | `TypeOK`, `GroupsConnected`, `ColorsAssigned`, `GatheredInOrder` | groups are lines and planes (or columns and spheres), in order |
| `radiation` | 3 ranks, 2 layers, 2 columns, 1 bin, 6 steps, restarts | `TypeOK`, `ColumnsWhole`, `HeatingKept`, `AddedTogether`, `FluxRecent`, `Completes` | whole columns, the heating of the whole column in every block, fluxes no older than the cooldown and a step |
| `radiation_bins` | 2 ranks, 2 bins | `ColumnsWhole` (violated) | buffers hold one bin only |
| `stage_tasks` | cubed sphere: 3 panels on 3 ranks, or 2 with passive scalars; Cartesian: 3 blocks in a row on 2 ranks, or above each other on 3; 3 stages | `TypeOK`, `SentWhole`, `PrimitivesOfStage`, `MessagesBounded`, `Completes` | two exchanges a stage, never confused; copies within a rank; tasks that wait for the column |
| `hydrostatic` | 2 columns of 3 blocks of 3 cells, 2 ghost cells, 3 stages; 6 ranks with 4 combinations of walls and open ends, 3 ranks with 2 blocks each, 5 ranks | `TypeOK`, `PressureIsIntegral`, `InterfaceStatesAgree`, `RestoredWhole`, `Completes` | right pressures in every stage; who may not run this way |

**Bounds.** With B = 2 a panel has blocks with one and with two border faces, and
positions 0 and 1 that a missing reversal would exchange; all 24 seams occur. `FluxSync`
uses B = 1, where every face is a border and each block has the most partners, and one
block per rank: `recvNeighborBlocks` blocks in `MPI_Recv`, and `doc/README-exo2.md` requires
as many processes as blocks;
two cells along a face suffice to see an order reversed; three stages let a fast
block meet leftovers of the stage before and run one ahead. `GhostExchange` needs
more cells than ghost layers plus one. Five blocks give the sweep a bottom, a top
and three in between; eight systems over two columns use each slot of the buffer
four times. The meshes of `exchanger` have every number of directions and, with three blocks along one, a Z
curve that does not run along it; two groupings show what the first leaves behind. Three
ranks give the radiation a block that is neither lowest nor highest; with steps of 1 or 2 and a
cooldown of 3, six steps hold two renewals. Its numbers are integers modulo 31, in which only 0 has no
inverse and no two cells have the same geometry. In `StageTasks` three stages are one time step of two
and the first of the next, and three blocks let a chain of waiting form. `HydrostaticSweep`
has a block with neighbours on both sides, ghost cells that reach
less far than a block, and two columns that meet only through the collective and the
ghost cells; with three stages a fast block sends for the next stage while
an earlier message is under way. Two cells in a block are the fewest the periodic elimination
distinguishes (its last block reaches into the one below); 997 leaves no
equation true by accident. `MaxStage`,
`MaxSolve`, `MaxRegroup` and `MaxStep` are the only bounds in guards.

**Fairness.** Weak fairness throughout: a rank that can go on does, since
it runs nothing but this program, and MPI delivers. `FluxSync` assumes even less, that some rank
goes on while one can. In `StageTasks` each rank's visits are fair, for a rank that polls does not
stop the others, and so are starts of stages and deliveries; in `ColumnRadiation` each rank and the
time loop, which may restart or not. In `HydrostaticSweep` each block's
step is fair. `CHECK_DEADLOCK FALSE` stands in
the runs whose liveness property itself says that the run may not hang.

In `ImplicitSweep` a rank is fair if it can go on in the receive of the block whose turn it is, and only there:
a rank that waits in one block does nothing for its others. The one-block-per-rank runs are the case in which
that is fairness of each block.

**What `implicit_shared` says of placements.** If the blocks of each rank lie next to each other in the
stack, the sweep ends, perhaps in the failure of a local send whose `bblock` does not exist. If another rank's block lies
between two of a rank's, the sweep never ends, since the upper of its two blocks would have to run before the lower one gets its
message back. Athena++ deals blocks out in the order of their Z curve, in which those of a rank are contiguous, and
so are they along a stack. The run has one stack and no more: ranks
that also hold blocks of other stacks may wait for each other across stacks. With 4 x 2 blocks numbered along the
curve and dealt to three ranks as 3, 3 and 2, for instance, block 1 waits for block 4 while the rank of block 4 waits in block 3 for block 2, whose turn
comes after block 1. That is left out; one block per rank, as the exchange of fluxes needs it, excludes it.

**What `hydrostatic` says of placements.** `Completes` has three parts. With as many blocks
on every rank and no two of a column together, the program ends. With two neighbours of a column on one rank
it ends in the error of `RecvFromTop` (the code says that this case is not
implemented). With unequal numbers of blocks it hangs: the collective in `FindNeighbors`
is entered once per block and the surplus call of one rank waits for the next stage of the
others, which wait for its faces. Athena++ permits such placements; no doc of
the repository excludes them for this path, and none promises them either.

**The violations.** `ghost_basis`: `InteprolateX2` leaves the
coordinates of the target in the order (along, beyond) for receivers that have
them the other way round; `InteprolateX3` has the exchange, for the pairs of panels
that only `InteprolateX2` serves. `implicit_local`: `SendBuffer` copies to `bblock`
whichever way it sends, and `RecvBuffer` leaves the buffer as it is when the sender is local. So nothing
waits for a local block: the rank comes to the lower one first, which eliminates and at once substitutes with what is in its buffer, before
the upper one has begun. Copying to `tblock` in the forward sweep would not cure that. `radiation_bins`: `RadiationBand::Resize` leaves the number
of spectral bins out of the size of the buffer that takes all of them, and
`unpackSpectralProperties` steps from bin to bin as if blocks came within bins.

## 4. The proofs

TLAPS checks every theorem; there is no unproved step. Liveness under fairness
stays with TLC.

**Topology** (any B). `NeighborInvolution` and `NeighborSharesEdge` follow from one
lemma per operator and a case per seam: quotient and remainder of the location
reached are those the table wrote, so the seam entry of the other side applies.

**Neighbour tables** (any B, any placement on ranks; in `GhostExchangeTheorems`). `TablesInv` says that
an entry that is set is the one `NeighborLoc` and `NeighborSide` compute, and that x2 entries are
set exactly when the first half of the constructor has run. It is inductive
because ranks compute entries from locations alone; `Reciprocal`, `NoBufferClash`
and `SameEdge` then are the topology theorems. `TablesServeExchange` joins tables and ghost exchange:
once all tables are filled, in whatever order ranks did that, the entry of the block that
packs names the face it packs for, and the entry of that face names the one packed.

**Flux synchronization** (any B, any number of cells and stages; `OneBlockPerRank`, which
`doc/README-exo2.md` requires: with several blocks on a rank tags are not unique, see the
hazard of the tag stride). `BorderMatches` goes through the 24 border faces: the position along the face
reached is the one along the face left, negated where `dinv` says so and counted from the other end
(`AlongMirror`), so what is packed is found at the same point and on the basis of the receiver. No block lies
across two borders of one other (`OverInjective`: the rows of `tgbid` have no entry twice),
so between two ranks all messages belong to one face. `IInv` says they are those of the stages sent and
not yet received there, at most one if MPI does not copy, and that a send is incomplete exactly
then. A receive thus takes the message of its own stage, or reads a buffer
that still holds it. `FacesAgree` adds the geometry; `SkewBounded` and
`BuffersHeld` are read off.

**Ghost exchange** (any B, any number of cells and of ghost layers with N > NGHOST + 1). The
invariant only says that the buffer, then the ghost cells hold what `PackData` makes; the work is in two lemmas
about a single ghost cell. `OrdersMatch`: the n-th cell in pack order lies as deep below the sender's face as the
n-th ghost cell lies beyond the receiver's, at the same place along it or the mirrored one. It holds of
14 pairs of faces with the order each needs, since both loops split n by the same width
(`RowCol`, `PackOrderAt`); `BordersOrdered` checks the 24 entries of the table against it.
`BorderPlaces` goes through the 24 borders in angles: where `dinv` reverses the place along, the point, panel and angle
are those of the receiver, and `tgside` gives the angle of the ghost layer; `Swapped` holds exactly where the receiver works
along the other coordinate. `LayerIs` is where N > NGHOST + 1 is needed. `GhostsRight`, `GhostsShadow` and `BasisRight`
put the two together; `BasisAtGhost` without the exception is what `ghost_basis` refutes.

**Implicit sweep** (any number of blocks, systems, columns, any `Tag`). Type
correctness holds for every placement, the rest under `OneBlockPerRank`, which is
what the code supports. `SolutionsRight` is not inductive: what arrives must be
right, so the invariant says what a message holds (`UpRight`, `DownRight`) in terms
of the counters; a receive must take that message although tags may be equal,
so at most one message is between two ranks (`OneMessage`); that in turn needs that
no block below has eliminated less or solved more (`SweepOrder`), for then a
message up and one down between two blocks cannot exist together. `CoefficientsRight`
covers what `SaveCoefficients` keeps between the sweeps. The same invariant gives
`BufferStable` (a block whose send is under way cannot take a step that writes the
buffer: its partner has not received, so it waits) and the refinement `SweepIsSerial`:
a step of block b is the serial step, because by `SweepOrder` the first
block starts a system only when all above have left the one before.

`SweepSolves` is about the numbers (any number of blocks, of at least two cells each, any
modulus q > 2, any coefficients, periodic or not). Its hypotheses are `OneBlockPerRank` and `RegularPivots`: all that
an elimination inverts has an inverse, without which the code divides by zero; the run
evaluates it (`PivotsRegular`). The argument has four parts. The matrices are a ring
in which `Inverted` of a regular matrix is an inverse (`Associative`, `TimesSum`, `SumTimes`, `RightInverse`). In one
column without blocks each equation of an open system follows from
the elimination of its cell and of the one below (`OpenInside`); in a periodic one so do all but the
last, in which the sums of beta times gamma and zeta telescope: `SumsLeave` says what they
amount to up to a cell, and is an induction over cells. The recursive definitions of the sweeps over the cells of a block are
shown to have the values they are written to have (`RecursionUp`, `RecursionDown`), and chained over the blocks
they are the column (`OpenSystem`, `LoopSystem`), the two corner cells of the last block included.
`ValueInv` then says that each block holds what it computes from what its neighbours hold,
although they may be at other systems by now: an entry is not replaced after it has been used, by `SweepOrder`.

**Exchanger** (any mesh, any sequence of groupings). `MeshAssumption` of the module
types a mesh; the theorems suppose in addition that each is a `Grid`: the rank below is a lower one, and
down in two directions gives the same in either order. A Z-ordered Cartesian mesh
is one (`CartesianGrids` evaluates this for the meshes of the run); the sphere is
not, and is only model-checked. In the first pass a rank is given the colour of a lower rank, which
is settled; equal colours mean connected and new ones are unused. In the second
pass the colours of the first are merged while the loop runs: the invariant says what ranks
behind the loop and ahead of it have, and that squares close makes the merged colours
of two neighbours equal. `GroupsRight` is stated with `Connected`, which
quantifies over closed sets and so needs no induction on paths.

`GatherInOrder` supposes also that no two ranks have the same rank below them (`OneAbove`, evaluated with
`CartesianGrids`). `GetRankInGroup` walks down the line of a rank and counts: the ranks it meets are `Down`, the
least set with the rank that is closed under going below; of two ranks of a group one is in
the `Down` of the other (`ConnectedIsDown`), so the count is the number of lower ranks of the group.

**Hydrostatic decomposition** (any number of columns, blocks, cells, ghost cells and stages, any
placement on ranks, any densities, walls or open ends). `Count` is how often a block has decomposed its column. A block sends
after its decomposition and the one below cannot do the same one before it has received, so
no block counts more than the one above, and since it also needs the ghost cells of the block below to go on,
no block is ahead of the one below by more than a stage (`Flowing`). A message is thus the one that the block
below needs next; `MessageRight` adds what it says: the pressure at the face they share, as the
integral over the whole column gives it. `FacesFromTop` shows that a block which starts from this face and goes
down its own cells, then through its ghost cells, has that integral at every face, for walls and open
ends alike. The sums are recursive functions on intervals of indices; that they exist and what they add up to is an induction
over sets of indices (`Upward`, `Downward`). `IInv` keeps for each
block what its cells and faces hold in each phase, so that `SweepIntegrates` is one of its parts and `SweepRestores` reads off
that what `RestoreFromTemperature` adds is what was taken off. `InterfacesAgree` is arithmetic on the places of
the faces of two neighbours in the column.

**Radiation** (any number of blocks in the stack, layers, columns, bins and time steps, any
cooldown and lengths of step, restarts anywhere). `Lockstep` says that all ranks began the time step with one
counter k and fluxes of one step s, and writes out what each has at every point of the
step in terms of these: the calls of `GatherAll` it has entered are for columns 1, 2, ... in turn, and the fluxes of the columns before
the one it is at are new. So the n-th call is for column n on every rank that has entered it, what is
gathered depends on the column and the step alone (`GatheredColumn`), and so does what a rank keeps;
`AddedTogether` is read off. For `FluxRecent` the invariant relates k to the age of the fluxes and the length of the step taken
last. `WholeColumns` and `HeatingRight` are for one bin; with two `ColumnsWhole` does not hold (`radiation_bins`).
`WholeColumns` is arithmetic on the places of the buffers: layers by quotient and remainder, and of the blocks that write the temperature of a
face the last is the one above it (`LastWriterIs`). `HeatingRight` holds for any areas, volumes and heights and any `Disort`, in numbers with the laws
of `NumberAssumption`. The corrected fluxes are a recursive function of the fluxes given: it exists and its values
are numbers by induction from the top face of the block down (`CorrectedIs`, `CorrectedNumber`), the fluxes given are the plane-parallel ones
of the column at the block's faces (`FaceOfKeeps`), and the difference over a cell is the heat it was built from (`CorrectedHeat`).

**Task list** (any mesh, any number of stages, cubed sphere or not, with scalars or not).
`StageAssumption` supposes of a mesh that adjacency is symmetric, that on a sphere no block
is adjacent to itself, and `OneBlockPerRank` where the code needs it. `StageTasksTheorems` first
derives, from the four lists as sequences, what is before what. Its `IInv` says that the tasks a block
has done are closed under `Dep`, that `u`, the fluxes and what was sent are functions of these tasks and the stage,
and that a scan beyond a send has made it if its dependencies were done: that is why `SEND_HYD` and the like,
on which no task depends, are made before `CLEAR_ALLBND`, and `SentWhole` follows.
Its second part numbers messages and receive requests of a pair of blocks over
all stages. How many a block has sent, taken and asked for follow from its stage and `done`; a message k
belongs to the stage and exchange its number gives. `XInv` says of each link which numbers are in
the channel, in the receive buffer and in the ghost cells, for every combination of flags, requests and an `eager` MPI. A block
cannot send a message before it has taken its neighbour's one before, hence
`MessagesBounded`; that the ghost cells at `CONS2PRIM` are the stage's own is `PrimitivesOfStage`.
Its third part is `StagesTyped`: what fields and buffers hold are parts of their variable and of
stages that are run. `TypeOK` is inductive only relative to the other two invariants, which say what a message is and which
blocks and tasks a rank is at; that `Least` and `After` find a block follows from the numbering of the blocks of a rank.

## 5. Only model-checked, and not modelled

All liveness under fairness is checked by TLC only: `Completes` of five runs and `Ends`.
Every other property of a passing run is proved, under the hypotheses section 4 names: `ColumnsWhole` and
`HeatingKept` for one bin, as in their run, and the exchanger's for grids, so that the panels of a sphere stay with TLC.
Induction theorems whose premise is an operator cannot be used with the installed provers; induction over a set of
naturals can (`NatSet` from well-foundedness), and serves for the sums of the
decomposition and of the implicit solver, the walk of `GetRankInGroup` and the scan of blocks.

Not modelled: arithmetic (Riemann solvers, equations of state, radiative
transfer, chemistry, opacities), coordinates and metric terms, input and output,
problem generators, the directories that are not built (`nbody`, `inversion`,
`single_column`, `torch`, `modules`, `surface`, `transport`), mesh refinement (the
cubed sphere supports one level) and buffers of edges and corners, which the code
copies untransformed. By far most lines of the repository are of this kind: tables of
opacities (`opacity/Giants` alone is more than half of it) and of astronomical data.
The older decompositions (`ChangeToEntropy` and others) are not called.
`SolveImplicit3D` runs the sweep in up to three directions in turn; each runs to its
waits before the next begins, so one direction is modelled; what its copies to and from `du_`
leave out in X2 and X3 is listed as a hazard only. Of the neighbour searches in
`exchanger.cpp` only `find_neighbors` is modelled. The six that take no direction
are used by the forcing and by a decomposition nothing calls; `find_right_neighbor` and `find_front_neighbor` test `ox1 = 1`
as well and so find an edge or a corner, never a face, which decides the right sponge layer in `forcing_factory.cpp:62`. Without gravity the decomposition
returns at once on all ranks.

## 6. Plan

1. (done) Topology, flux synchronization, ghost exchange, implicit sweep, exchanger,
   radiation of a column, task list; with proofs.
2. (done) `HydrostaticSweep`: `ChangeToTemperature` over columns of ranks with its collective; the
   pressure of a stage is that of a serial integration.
3. (done) `Tridiagonal`: elimination over non-commuting entries, block by block, with the
   periodic variant. Open: the three directions of the implicit solver in turn.
4. The means diagnostics take with `ReduceAll`.
5. Singletons and index map, restart and main loop, `locate`, particles.
6. (done) Proofs of all safety properties of the runs, for any size.
