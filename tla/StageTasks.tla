----------------------------- MODULE StageTasks -----------------------------
(***************************************************************************)
(* The tasks of a stage of the time integrator, with those that canoe adds *)
(* (tasklist/implicit_hydro_tasks.cpp, patches 24 and 31).  A task of a    *)
(* block may run once the tasks it depends on have; the constructor of     *)
(* ImplicitHydroTasks appends three tasks to the list Athena++ made and    *)
(* overwrites the dependencies of those that must now wait for them, and   *)
(* the patched list of the cubed sphere exchanges ghost cells twice.       *)
(* No task depends on one that sends: that messages are sent before the    *)
(* flags are cleared is left to the order of the list, which is scanned    *)
(* from its beginning in each visit to a block.                            *)
(*                                                                         *)
(* A value of u, du, a flux or a ghost cell is what went into it: the set  *)
(* of pairs of a part and the stage it was computed in.                    *)
(***************************************************************************)
EXTENDS Integers, Sequences, FiniteSets, Functions

CONSTANTS
  Setup,        \* programs and meshes, see SetupType
  nstages,      \* stages of a time step
  MaxStage      \* bound: stages run, of one step or of several

\* Build options CUBED_SPHERE and NSCALARS > 0; the meshblocks, numbered, and
\* their ranks; the pairs of blocks that exchange ghost cells; the blocks above
\* and below a block, and itself.
SetupType(B) ==
  [sphere : BOOLEAN, scalars : BOOLEAN, block : {B}, rank : [B -> Nat],
   links : SUBSET (B \X B), stack : [B -> SUBSET B]]

\* The number of meshblocks must be the number of processes, says
\* doc/README-exo2.md of the cubed sphere; the implicit solver needs it too.
OneBlockPerRank(st) ==
  \A b \in st.block :
    st.sphere \/ st.stack[b] \ {b} # {} =>
      \A a \in st.block \ {b} : st.rank[a] # st.rank[b]

ASSUME StageAssumption ==
  /\ nstages \in Nat \ {0} /\ MaxStage \in Nat
  /\ \A st \in Setup :
       /\ st.block \subseteq Nat /\ st.block # {} /\ st \in SetupType(st.block)
       /\ \A l \in st.links :
            <<l[2], l[1]>> \in st.links /\ (st.sphere => l[1] # l[2])
       /\ OneBlockPerRank(st)

VARIABLE setup    \* the program and the mesh of this run

Block == setup.block
RankOf == setup.rank
Link == setup.links         \* from a block to one adjacent to it
CubedSphere == setup.sphere
Scalars == setup.scalars
Adjacent(b) == {a \in Block : <<a, b>> \in Link}

Var == IF Scalars THEN {"hyd", "sclr"} ELSE {"hyd"}

\* The list in the order of AddTask: Athena++ with the second exchange, then
\* what ImplicitHydroTasks appends.
SecondHydro == <<"RESTART_RECV", "SEND_HYD2", "RECV_HYD2", "SETB_HYD2">>
SecondScalars == <<"CLEAR_ALLBND2", "SEND_SCLR2", "RECV_SCLR2", "SETB_SCLR2">>
When(c, seq) == IF c THEN seq ELSE <<>>
Added == <<"ADD_FLX_CONS", "IMPLICIT_CORR", "UPDATE_ALLCONS">>

AthenaList(sphere, scalars) ==
  <<"CALC_HYDFLX">> \o When(scalars, <<"CALC_SCLRFLX">>)
  \o <<"INT_HYD", "SRC_TERM", "SEND_HYD", "RECV_HYD", "SETB_HYD">>
  \o When(sphere, When(~ scalars, <<"CLEAR_ALLBND2">>) \o SecondHydro)
  \o When(scalars, <<"INT_SCLR", "SEND_SCLR", "RECV_SCLR", "SETB_SCLR">>
                   \o When(sphere, SecondScalars))
  \o <<"CONS2PRIM", "CLEAR_ALLBND">>

ListOf ==
  [sphere \in BOOLEAN |-> [scalars \in BOOLEAN |-> AthenaList(sphere, scalars) \o Added]]
TaskOf ==
  [sphere \in BOOLEAN |-> [scalars \in BOOLEAN |-> Range(ListOf[sphere][scalars])]]
PositionOf ==
  [sphere \in BOOLEAN |-> [scalars \in BOOLEAN |-> AntiFunction(ListOf[sphere][scalars])]]
Position(t) == PositionOf[CubedSphere][Scalars][t]
List == ListOf[CubedSphere][Scalars]
Task == TaskOf[CubedSphere][Scalars]

WithScalars(S) == IF Scalars THEN S ELSE {}

\* TimeIntegratorTaskList, as patched: what each task waits for.
AthenaDep(t) ==
  CASE t = "CALC_SCLRFLX" -> {"CALC_HYDFLX"}
    [] t = "INT_HYD" -> {"CALC_HYDFLX"}
    [] t = "INT_SCLR" -> {"CALC_SCLRFLX"}
    [] t = "SRC_TERM" -> {"INT_HYD"} \cup WithScalars({"INT_SCLR"})
    [] t \in {"SEND_HYD", "SEND_SCLR"} -> {"SRC_TERM"}
    [] t = "SETB_HYD" -> {"RECV_HYD", "SRC_TERM"}
    [] t = "SETB_SCLR" -> {"RECV_SCLR", "SRC_TERM"}
    [] t = "CLEAR_ALLBND2" -> {"SETB_HYD"} \cup WithScalars({"SETB_SCLR"})
    [] t \in {"RESTART_RECV", "SEND_HYD2", "SEND_SCLR2"} -> {"CLEAR_ALLBND2"}
    [] t \in {"RECV_HYD2", "RECV_SCLR2"} -> {"RESTART_RECV"}
    [] t = "SETB_HYD2" -> {"RECV_HYD2"}
    [] t = "SETB_SCLR2" -> {"RECV_SCLR2"}
    [] t = "CONS2PRIM" ->
         IF CubedSphere THEN {"SETB_HYD2"} \cup WithScalars({"SETB_SCLR2"})
         ELSE {"SETB_HYD"} \cup WithScalars({"SETB_SCLR"})
    [] t = "CLEAR_ALLBND" -> {"CONS2PRIM"}
    [] OTHER -> {}

\* The tasks ImplicitHydroTasks adds and the dependencies it overwrites.
CanoeDep(t) ==
  CASE t = "ADD_FLX_CONS" -> {"CALC_HYDFLX"} \cup WithScalars({"CALC_SCLRFLX"})
    [] t = "IMPLICIT_CORR" -> {"SRC_TERM"}
    [] t = "UPDATE_ALLCONS" -> {"IMPLICIT_CORR"}
    [] t = "INT_HYD" -> {"ADD_FLX_CONS"}
    [] t \in {"SEND_HYD", "SEND_SCLR"} -> {"UPDATE_ALLCONS"}
    [] t = "SETB_HYD" -> {"RECV_HYD", "UPDATE_ALLCONS"}
    [] t = "SETB_SCLR" -> {"RECV_SCLR", "UPDATE_ALLCONS"}
    [] OTHER -> AthenaDep(t)

\* Variants: sends are left as they were; the second receive waits for nothing,
\* as the first; sends wait for receives.
DepSendEarly(t) == IF t = "SEND_HYD" THEN AthenaDep(t) ELSE CanoeDep(t)
DepUnrestarted(t) == IF t = "RECV_HYD2" THEN {} ELSE CanoeDep(t)
DepSendLast(t) == IF t = "SEND_HYD" THEN {"RECV_HYD"} ELSE CanoeDep(t)
Dep(t) == CanoeDep(t)

\* What goes into the conserved variables in stage s.
LastStage(s) == s % nstages = 0
Part(v) ==
  IF v = "hyd" THEN {"flux", "radiation", "source", "implicit", "update"}
  ELSE {"flux", "source"}
Whole(v, s) == (IF LastStage(s) THEN Part(v) ELSE Part(v) \ {"update"}) \X {s}
Value(v) == SUBSET (Part(v) \X (0 .. MaxStage))

\* What is packed: the value, and whether the ghost cells it is interpolated
\* from were those of the same stage.
Packed(v) == [value : Value(v), fresh : BOOLEAN]
WholePacked(v, s) == [value |-> Whole(v, s), fresh |-> TRUE]
LinksTo(b) == {l \in Link : l[2] = b}
LinksFrom(b) == {l \in Link : l[1] = b}
Local(l) == RankOf[l[1]] = RankOf[l[2]]
Remote(l) == ~ Local(l)

Rank == {RankOf[b] : b \in Block}

VARIABLES
  eager,    \* MPI copies what it sends at once, or reads it when received
  stage,    \* stage[b]: the stage b is in
  done,     \* done[b]: the tasks of this stage that b has finished
  visit,    \* visit[r]: the block rank r is at, and how far it got in the list
  flux,     \* flux[b][v]: what went into the flux array
  du,       \* du[b]: the increment of the hydrodynamic variables
  u,        \* u[b][v]: the conserved variables in the cells of b
  ghost,    \* ghost[l][v]: and in the ghost cells filled over l
  sflag,    \* sflag[b]: the variables sent since the flags were cleared
  sendbuf,  \* sendbuf[b][v]: the send buffers of b
  chan,     \* chan[l][v]: messages on their way
  active,   \* active[l][v]: the receive request has been started
  flag,     \* flag[l][v]: what the receiver knows of the buffer
  recvbuf   \* recvbuf[l][v]: the receive buffer

state == <<stage, done, visit>>
fields == <<flux, du, u, ghost>>
sends == <<sflag, sendbuf, chan>>
receives == <<active, flag, recvbuf>>
vars == <<setup, eager, state, fields, sends, receives>>

\* The blocks on rank r, visited in turn.
Blocks(r) == {b \in Block : RankOf[b] = r}
Least(S) == CHOOSE b \in S : \A a \in S : b <= a
After(b) ==
  LET Later == {a \in Blocks(RankOf[b]) : a > b}
  IN  IF Later = {} THEN Least(Blocks(RankOf[b])) ELSE Least(Later)
Visit(b, n) == [block |-> b, passed |-> n]

-----------------------------------------------------------------------------
(* After Mesh::Initialize, with the ghost cells of the initial state, which *)
(* the cubed sphere exchanges twice too.                                    *)
Init ==
  /\ setup \in Setup
  /\ eager \in BOOLEAN
  /\ stage = [b \in Block |-> 0]
  /\ done = [b \in Block |-> Task]
  /\ visit = [r \in Rank |-> Visit(Least(Blocks(r)), 0)]
  /\ flux = [b \in Block |-> [v \in Var |-> {}]]
  /\ du = [b \in Block |-> {}]
  /\ u = [b \in Block |-> [v \in Var |-> Whole(v, 0)]]
  /\ ghost = [l \in Link |-> [v \in Var |-> WholePacked(v, 0)]]
  /\ sflag = [b \in Block |-> {}]
  /\ sendbuf = [b \in Block |-> [v \in Var |-> WholePacked(v, 0)]]
  /\ chan = [l \in Link |-> [v \in Var |-> <<>>]]
  /\ active = [l \in Link |-> [v \in Var |-> FALSE]]
  /\ flag = [l \in Link |-> [v \in Var |-> "waiting"]]
  /\ recvbuf = [l \in Link |-> [v \in Var |-> WholePacked(v, 0)]]

\* Receive requests started for all variables of the blocks in S.
Started(S) ==
  [l \in Link |-> [v \in Var |-> active[l][v] \/ (l[2] \in S /\ Remote(l))]]

(* DoTaskListOneStage: when all blocks of the rank have finished a stage,   *)
(* StartupTaskList for each of them.                                        *)
Startup(r) ==
  /\ \A b \in Blocks(r) : done[b] = Task /\ stage[b] < MaxStage
  /\ stage' = [b \in Block |-> IF b \in Blocks(r) THEN stage[b] + 1 ELSE stage[b]]
  /\ done' = [b \in Block |-> IF b \in Blocks(r) THEN {} ELSE done[b]]
  /\ visit' = [visit EXCEPT ![r] = Visit(Least(Blocks(r)), 0)]
  /\ active' = Started(Blocks(r))
  /\ UNCHANGED <<setup, eager, fields, sends, flag, recvbuf>>

\* Both exchanges use the same functions, buffers, requests and flags.
SendTask(v) == IF v = "hyd" THEN {"SEND_HYD", "SEND_HYD2"} ELSE {"SEND_SCLR", "SEND_SCLR2"}
RecvTask(v) == IF v = "hyd" THEN {"RECV_HYD", "RECV_HYD2"} ELSE {"RECV_SCLR", "RECV_SCLR2"}
SetTask(v) == IF v = "hyd" THEN {"SETB_HYD", "SETB_HYD2"} ELSE {"SETB_SCLR", "SETB_SCLR2"}

\* Every buffer of b has arrived.  A request that was not started tests as
\* complete, and what is not waited for is not tested.
AllArrived(b, v) ==
  \A l \in LinksTo(b) : flag[l][v] = "waiting" => Remote(l) /\ ~ active[l][v]

\* Task t of b is not done and can be.
Executable(b, t) ==
  /\ t \notin done[b] /\ Dep(t) \subseteq done[b]
  /\ \A v \in Var : t \in RecvTask(v) => AllArrived(b, v)

\* Tasks after which the scan of the list goes on; the others end the visit.
Goes(b, t) ==
  \/ t \in {"CALC_HYDFLX", "CALC_SCLRFLX", "ADD_FLX_CONS", "INT_HYD", "INT_SCLR",
           "SRC_TERM", "IMPLICIT_CORR"}
  \/ t = "UPDATE_ALLCONS" /\ ~ LastStage(stage[b])

(* DoAllAvailableTasks: the scan has come to task t of b, the first that    *)
(* can be done after those it has passed.                                   *)
Ready(b, t) ==
  LET at == visit[RankOf[b]]
  IN  /\ at.block = b
      /\ t \in Task \ done[b] /\ at.passed < Position(t)
      /\ Executable(b, t)
      /\ \A m \in at.passed + 1 .. Position(t) - 1 : ~ Executable(b, List[m])

Finish(b, t) ==
  /\ done' = [done EXCEPT ![b] = @ \cup {t}]
  /\ visit' = [visit EXCEPT ![RankOf[b]] =
       IF Goes(b, t) THEN Visit(b, Position(t)) ELSE Visit(After(b), 0)]
  /\ UNCHANGED <<setup, eager, stage>>

(* Nothing more in this scan: on to the next block.                         *)
EndVisit(b) ==
  LET at == visit[RankOf[b]]
  IN  /\ at.block = b
      /\ at # Visit(After(b), 0)
      /\ \A n \in at.passed + 1 .. Len(List) : ~ Executable(b, List[n])
      /\ visit' = [visit EXCEPT ![RankOf[b]] = Visit(After(b), 0)]
      /\ UNCHANGED <<setup, eager, stage, done, fields, sends, receives>>

\* Block a has come to task t of the stage b is in, or is past it.
CameTo(a, b, t) ==
  stage[a] > stage[b] \/ (stage[a] = stage[b] /\ Dep(t) \subseteq done[a])

Computed(part, b) == {<<part, stage[b]>>}

(* CalculateHydroFlux.  It takes the pressure from the column above it      *)
(* (module HydrostaticSweep) and on the cubed sphere exchanges face states  *)
(* with the adjacent blocks (module FluxSync); these must have come to it.  *)
CalculateHydroFlux(b) ==
  /\ Ready(b, "CALC_HYDFLX")
  /\ \A a \in setup.stack[b] : CameTo(a, b, "CALC_HYDFLX")
  /\ CubedSphere => \A a \in Adjacent(b) : CameTo(a, b, "CALC_HYDFLX")
  /\ flux' = [flux EXCEPT ![b]["hyd"] = Computed("flux", b)]
  /\ Finish(b, "CALC_HYDFLX")
  /\ UNCHANGED <<du, u, ghost, sends, receives>>

CalculateScalarFlux(b) ==
  /\ Ready(b, "CALC_SCLRFLX")
  /\ flux' = [flux EXCEPT ![b]["sclr"] = Computed("flux", b)]
  /\ Finish(b, "CALC_SCLRFLX")
  /\ UNCHANGED <<du, u, ghost, sends, receives>>

(* The radiative flux is added to the flux of the Riemann solver.  The one  *)
(* for the next steps, computed in the last stage, needs the whole column   *)
(* (module ColumnRadiation).                                                *)
AddFluxToConserved(b) ==
  /\ Ready(b, "ADD_FLX_CONS")
  /\ LastStage(stage[b]) => \A a \in setup.stack[b] : CameTo(a, b, "ADD_FLX_CONS")
  /\ flux' = [flux EXCEPT ![b]["hyd"] = @ \cup Computed("radiation", b)]
  /\ Finish(b, "ADD_FLX_CONS")
  /\ UNCHANGED <<du, u, ghost, sends, receives>>

\* The weighted average of the stages before; it may be made by swapping the
\* array, ghost cells included, for one that holds older ones.
Averaged(b, v) ==
  \/ UNCHANGED ghost
  \/ ghost' = [l \in Link |->
       IF l[2] = b THEN [ghost[l] EXCEPT ![v] = [value |-> {}, fresh |-> FALSE]]
       ELSE ghost[l]]

(* The average goes to u, the flux divergence to du.                        *)
IntegrateHydro(b) ==
  /\ Ready(b, "INT_HYD")
  /\ Averaged(b, "hyd")
  /\ u' = [u EXCEPT ![b]["hyd"] = {}]
  /\ du' = [du EXCEPT ![b] = flux[b]["hyd"]]
  /\ Finish(b, "INT_HYD")
  /\ UNCHANGED <<flux, sends, receives>>

(* Scalars have no du: the divergence goes to s.                            *)
IntegrateScalars(b) ==
  /\ Ready(b, "INT_SCLR")
  /\ Averaged(b, "sclr")
  /\ u' = [u EXCEPT ![b]["sclr"] = flux[b]["sclr"]]
  /\ Finish(b, "INT_SCLR")
  /\ UNCHANGED <<flux, du, sends, receives>>

(* Source terms and forcings.                                               *)
AddSourceTerms(b) ==
  /\ Ready(b, "SRC_TERM")
  /\ du' = [du EXCEPT ![b] = @ \cup Computed("source", b)]
  /\ u' = IF Scalars THEN [u EXCEPT ![b]["sclr"] = @ \cup Computed("source", b)]
          ELSE u
  /\ Finish(b, "SRC_TERM")
  /\ UNCHANGED <<flux, ghost, sends, receives>>

(* SolveImplicit3D, which every block coupled with b must have come to (see *)
(* module ImplicitSweep), corrects du; u takes it.                          *)
ImplicitCorrection(b) ==
  /\ Ready(b, "IMPLICIT_CORR")
  /\ \A a \in setup.stack[b] : CameTo(a, b, "IMPLICIT_CORR")
  /\ du' = [du EXCEPT ![b] = @ \cup Computed("implicit", b)]
  /\ u' = [u EXCEPT ![b]["hyd"] = @ \cup du'[b]]
  /\ Finish(b, "IMPLICIT_CORR")
  /\ UNCHANGED <<flux, ghost, sends, receives>>

(* Saturation adjustment, in the last stage of a step.                      *)
UpdateAllConserved(b) ==
  /\ Ready(b, "UPDATE_ALLCONS")
  /\ u' = IF LastStage(stage[b])
          THEN [u EXCEPT ![b]["hyd"] = @ \cup Computed("update", b)] ELSE u
  /\ Finish(b, "UPDATE_ALLCONS")
  /\ UNCHANGED <<flux, du, ghost, sends, receives>>

-----------------------------------------------------------------------------
\* Variant: the scalars' buffer is filled from the hydrodynamic variables.
PackHydro(b, v) == [value |-> u[b]["hyd"], fresh |-> TRUE]

\* What b packs.  On the cubed sphere the cells sent are interpolated, at the
\* ends of the block from its own ghost cells.
Pack(b, v) ==
  [value |-> u[b][v],
   fresh |-> CubedSphere =>
     \A l \in LinksTo(b) : ghost[l][v].value = Whole(v, stage[b])]

(* SendHydro, SendScalars: what is marked as sent is not sent again.        *)
Send(b, t, v) ==
  /\ t \in SendTask(v)
  /\ Ready(b, t)
  /\ IF v \in sflag[b] THEN UNCHANGED <<sends, receives>>
     ELSE /\ sflag' = [sflag EXCEPT ![b] = @ \cup {v}]
          /\ sendbuf' = [sendbuf EXCEPT ![b][v] = Pack(b, v)]
          /\ chan' = [l \in Link |->
               IF l \in LinksFrom(b) /\ Remote(l)
               THEN [chan[l] EXCEPT ![v] = Append(@, Pack(b, v))] ELSE chan[l]]
          /\ recvbuf' = [l \in Link |->
               IF l \in LinksFrom(b) /\ Local(l)
               THEN [recvbuf[l] EXCEPT ![v] = Pack(b, v)] ELSE recvbuf[l]]
          /\ flag' = [l \in Link |->
               IF l \in LinksFrom(b) /\ Local(l)
               THEN [flag[l] EXCEPT ![v] = "arrived"] ELSE flag[l]]
          /\ UNCHANGED active
  /\ Finish(b, t)
  /\ UNCHANGED fields

(* MPI matches a started receive with the first message sent to it.         *)
Deliver(l, v) ==
  /\ active[l][v] /\ chan[l][v] # <<>>
  /\ recvbuf' = [recvbuf EXCEPT ![l][v] =
       IF eager THEN Head(chan[l][v]) ELSE sendbuf[l[1]][v]]
  /\ chan' = [chan EXCEPT ![l][v] = Tail(@)]
  /\ active' = [active EXCEPT ![l][v] = FALSE]
  /\ UNCHANGED <<setup, eager, state, fields, sflag, sendbuf, flag>>

(* ReceiveHydro, ReceiveScalars, when all buffers have arrived.             *)
Receive(b, t, v) ==
  /\ t \in RecvTask(v)
  /\ Ready(b, t)
  /\ flag' = [l \in Link |->
       IF l \in LinksTo(b) /\ flag[l][v] = "waiting"
       THEN [flag[l] EXCEPT ![v] = "arrived"] ELSE flag[l]]
  /\ Finish(b, t)
  /\ UNCHANGED <<fields, sends, active, recvbuf>>

(* SetBoundariesHydro, SetBoundariesScalars.                                *)
SetBoundaries(b, t, v) ==
  /\ t \in SetTask(v)
  /\ Ready(b, t)
  /\ ghost' = [l \in Link |->
       IF l \in LinksTo(b) THEN [ghost[l] EXCEPT ![v] = recvbuf[l][v]] ELSE ghost[l]]
  /\ flag' = [l \in Link |->
       IF l \in LinksTo(b) THEN [flag[l] EXCEPT ![v] = "completed"] ELSE flag[l]]
  /\ Finish(b, t)
  /\ UNCHANGED <<flux, du, u, sends, active, recvbuf>>

\* All messages of b are out of its buffers.  Variant: not waited for.
SendsUnwaited(b) == TRUE
SendsComplete(b) == eager \/ \A l \in LinksFrom(b), v \in Var : chan[l][v] = <<>>

(* Waits for the sends, and holds up the rank until then.                   *)
ClearAllBoundary(b, t) ==
  /\ t \in {"CLEAR_ALLBND", "CLEAR_ALLBND2"}
  /\ Ready(b, t)
  /\ SendsComplete(b)
  /\ sflag' = [sflag EXCEPT ![b] = {}]
  /\ flag' = [l \in Link |->
       IF l \in LinksTo(b) THEN [v \in Var |-> "waiting"] ELSE flag[l]]
  /\ Finish(b, t)
  /\ UNCHANGED <<fields, sendbuf, chan, active, recvbuf>>

(* RestartReceiving: start the requests once more, for the second exchange. *)
RestartReceiving(b) ==
  /\ Ready(b, "RESTART_RECV")
  /\ active' = Started({b})
  /\ Finish(b, "RESTART_RECV")
  /\ UNCHANGED <<fields, sends, flag, recvbuf>>

(* CONS2PRIM, and what follows it up to the next stage, read u and its      *)
(* ghost cells.                                                             *)
Primitives(b) ==
  /\ Ready(b, "CONS2PRIM")
  /\ Finish(b, "CONS2PRIM")
  /\ UNCHANGED <<fields, sends, receives>>

Compute(b) ==
  \/ CalculateHydroFlux(b) \/ CalculateScalarFlux(b)
  \/ AddFluxToConserved(b)
  \/ IntegrateHydro(b) \/ IntegrateScalars(b)
  \/ AddSourceTerms(b)
  \/ ImplicitCorrection(b)
  \/ UpdateAllConserved(b)
  \/ Primitives(b)

Exchange(b) ==
  \/ \E t \in Task, v \in Var : Send(b, t, v)
  \/ \E t \in Task, v \in Var : Receive(b, t, v)
  \/ \E t \in Task, v \in Var : SetBoundaries(b, t, v)
  \/ \E t \in Task : ClearAllBoundary(b, t)
  \/ RestartReceiving(b)

BlockStep(b) == Compute(b) \/ Exchange(b) \/ EndVisit(b)

Finished ==
  /\ \A b \in Block : stage[b] = MaxStage /\ done[b] = Task
  /\ UNCHANGED vars

Next ==
  \/ \E r \in Rank : Startup(r)
  \/ \E b \in Block : BlockStep(b)
  \/ \E l \in Link, v \in Var : Deliver(l, v)
  \/ Finished

Spec == Init /\ [][Next]_vars
\* No rank stops as long as it can go on, and MPI delivers.
AnyRank == UNION {{st.rank[b] : b \in st.block} : st \in Setup}
FairSpec ==
  /\ Spec
  /\ \A r \in AnyRank : WF_vars(\E b \in Block : RankOf[b] = r /\ BlockStep(b))
  /\ WF_vars(\E r \in Rank : Startup(r))
  /\ WF_vars(\E l \in Link, v \in Var : Deliver(l, v))

-----------------------------------------------------------------------------
(* The fields hold parts of stages, the flags and buffers what they may.    *)
TypeOK ==
  /\ setup \in Setup /\ eager \in BOOLEAN
  /\ stage \in [Block -> 0 .. MaxStage]
  /\ done \in [Block -> SUBSET Task]
  /\ visit \in [Rank -> [block : Block, passed : 0 .. Len(List)]]
  /\ \A b \in Block, v \in Var :
       /\ flux[b][v] \in Value("hyd") /\ u[b][v] \in Value(v)
       /\ sendbuf[b][v] \in Packed(v)
  /\ \A b \in Block : du[b] \in Value("hyd") /\ sflag[b] \subseteq Var
  /\ \A l \in Link, v \in Var :
       /\ ghost[l][v] \in Packed(v) /\ recvbuf[l][v] \in Packed(v)
       /\ chan[l][v] \in Seq(Packed(v))
       /\ active[l][v] \in BOOLEAN
       /\ flag[l][v] \in {"waiting", "arrived", "completed"}

(* What a block sends holds everything its stage adds to the conserved      *)
(* variables, the implicit correction and the thermodynamics included.      *)
SentWhole ==
  \A b \in Block, v \in Var :
    v \in sflag[b] => sendbuf[b][v].value = Whole(v, stage[b])

(* The primitive variables, from which the fluxes of the next stage are     *)
(* computed, are made of the whole conserved variables of one stage, in the *)
(* cells of the block and in its ghost cells, however fast the neighbours   *)
(* are; on the cubed sphere the ghost cells come from the second exchange.  *)
PrimitivesOfStage ==
  \A b \in Block, v \in Var : "CONS2PRIM" \in done[b] =>
    /\ u[b][v] = Whole(v, stage[b])
    /\ \A l \in LinksTo(b) : ghost[l][v] = WholePacked(v, stage[b])

(* Blocks that exchange ghost cells are at most a stage apart, and no more  *)
(* than two messages of a variable are ever on the way between them.        *)
MessagesBounded ==
  \A l \in Link :
    /\ stage[l[1]] - stage[l[2]] \in -1 .. 1
    /\ \A v \in Var : Len(chan[l][v]) <= IF eager THEN 2 ELSE 1

(* Nobody waits forever.                                                    *)
Completes == <>(\A b \in Block : stage[b] = MaxStage /\ done[b] = Task)
=============================================================================
