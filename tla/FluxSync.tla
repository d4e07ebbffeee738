------------------------------ MODULE FluxSync ------------------------------
(***************************************************************************)
(* The exchange of reconstructed states across panel borders               *)
(* (exo3/cubed_sphere.cpp, called from the patched Hydro::CalculateFluxes).*)
(* In every stage a block saves the left and right states of its faces,    *)
(* sends its inner state of each border face to the block on the other     *)
(* panel (MPI_Isend from a buffer kept per face), receives that block's    *)
(* inner state in place of its own extrapolated outer one (blocking        *)
(* MPI_Recv, one face after the other), waits for its sends and solves the *)
(* Riemann problems.                                                       *)
(*                                                                         *)
(* A state on a face is abstracted to where it comes from and, for the     *)
(* velocity in it, the panel and the position in that panel's chart whose  *)
(* basis it is projected on.                                               *)
(***************************************************************************)
EXTENDS CubedSphere, SequencesExt

CONSTANTS
  N,          \* cells along a block side
  Rank,       \* the MPI ranks
  Gid,        \* the global ids of the blocks
  LocOf,      \* the logical location of a block
  RankOf,     \* the rank that owns a block
  MaxStage    \* bound: integration stages run

ASSUME FluxAssumption ==
  /\ N \in Nat \ {0}
  /\ Gid \subseteq Nat
  /\ LocOf \in [Gid -> Location]
  /\ \A loc \in Location : \E g \in Gid : LocOf[g] = loc
  /\ \A g, h \in Gid : LocOf[g] = LocOf[h] => g = h
  /\ RankOf \in [Gid -> Rank]
  /\ MaxStage \in Nat \ {0}

VARIABLES
  stage,          \* stage[loc]: the stage the block is in or has finished
  phase,          \* phase[loc]: where in CalculateFluxes the block is
  L3DValues,      \* L3DValues[loc][s]: states left of the border face s
  R3DValues,      \* R3DValues[loc][s]: states right of it
  LRDataBuffer,   \* LRDataBuffer[loc][s]: the send buffer of the face
  send_request,   \* send_request[loc][s]: the send is not complete
  chan,           \* chan[a][b]: messages from rank a to rank b, in order
  eager           \* MPI copies a message when it is posted, not when matched

vars == <<stage, phase, L3DValues, R3DValues, LRDataBuffer, send_request,
          chan, eager>>

\* The neighbour table, and the faces that lie on a panel border; the others
\* are not synchronized.
Neighbor ==
  [g \in Gid |-> [s \in Side |->
    [gid  |-> CHOOSE h \in Gid : LocOf[h] = NeighborLoc(LocOf[g], s),
     side |-> NeighborSide(LocOf[g], s)]]]

Border == [g \in Gid |-> {s \in Side : AtPanelEdge(LocOf[g], s)}]
Partners == [g \in Gid |-> {Neighbor[g][s].gid : s \in Border[g]}]

-----------------------------------------------------------------------------
\* Positions: the centre of cell i along face s, in the chart of the panel
\* scaled so that a panel runs from -B * N to B * N.
Along(l, i) == 2 * (l * N + i) + 1 - B * N

FacePosition(g, s, i) ==
  LET x == GetLocalIndex(LocOf[g])
  IN  CASE s = "up"    -> <<-B * N, Along(x.local_lx3, i)>>
        [] s = "down"  -> << B * N, Along(x.local_lx3, i)>>
        [] s = "left"  -> <<Along(x.local_lx2, i), -B * N>>
        [] s = "right" -> <<Along(x.local_lx2, i),  B * N>>

\* The same point in space.
FacePoint(g, s, i) ==
  LET pos == FacePosition(g, s, i)
  IN  SurfacePoint(FindBlockID(LocOf[g]), pos[1], pos[2], B * N)

\* The tables of sendNeighborBlocks: target panel and reversed order.
tgbid(p, s) ==
  CASE s = "up"    -> <<6, 1, 1, 1, 2, 1>>[p]
    [] s = "down"  -> <<2, 5, 5, 5, 6, 5>>[p]
    [] s = "left"  -> <<3, 3, 6, 2, 3, 4>>[p]
    [] s = "right" -> <<4, 4, 2, 6, 4, 3>>[p]

\* Variant: a row of the table is wrong.
dinvLost(p, s) ==
  <<p, s>> \in {<<1, "up">>, <<1, "right">>, <<3, "down">>, <<4, "up">>,
                <<5, "down">>, <<6, "up">>, <<6, "down">>}

dinv(p, s) ==
  <<p, s>> \in {<<1, "up">>, <<1, "right">>, <<3, "down">>, <<4, "up">>,
                <<5, "down">>, <<5, "left">>, <<6, "up">>, <<6, "down">>}

\* Where the velocity is projected to: on the border tox of the target, at
\* the position along the face, negated where the order is reversed.
ProjectedTo(g, s, i) ==
  LET x   == GetLocalIndex(LocOf[g])
      pos == Along(IF s \in {"up", "down"} THEN x.local_lx3 ELSE x.local_lx2, i)
      to  == IF dinv(FindBlockID(LocOf[g]), s) THEN -pos ELSE pos
      t   == Neighbor[g][s].side
  IN  CASE t = "up"    -> <<-B * N, to>>
        [] t = "down"  -> << B * N, to>>
        [] t = "left"  -> <<to, -B * N>>
        [] t = "right" -> <<to,  B * N>>

\* A cell of a border face, with the panel and the position whose basis its
\* velocity is given on.
Cell(g, s, i, panel, pos) ==
  [gid |-> g, face |-> s, cell |-> i, panel |-> panel, pos |-> pos]

Own(g, s) ==
  [i \in 1 .. N |-> Cell(g, s, i - 1, FindBlockID(LocOf[g]), FacePosition(g, s, i - 1))]

\* The order in which sendNeighborBlocks puts them in the buffer, each
\* projected for the panel tgbid.
Packed(g, s) ==
  LET p    == FindBlockID(LocOf[g])
      data == [i \in 1 .. N |->
                Cell(g, s, i - 1, tgbid(p, s), ProjectedTo(g, s, i - 1))]
  IN  IF dinv(p, s) THEN Reverse(data) ELSE data

\* The states of all cells of a face in one stage: the inner ones, those
\* extrapolated from ghost cells, or the inner ones packed for the neighbour.
States(st, g, s, kind) == [stage |-> st, gid |-> g, face |-> s, kind |-> kind]
NoStates == [stage |-> 0, kind |-> "none"]

InnerIsLeft(s) == s \in {"down", "right"}

DirectionTag(s) == CASE s = "up" -> 0 [] s = "down"  -> 1
                     [] s = "left" -> 2 [] s = "right" -> 3

\* The first of some faces in the order of pbval->neighbor, which is that of
\* the direction tags, or the wait for the sends.
FirstOf(faces) ==
  IF faces = {} THEN "wait"
  ELSE CHOOSE s \in faces : \A t \in faces : DirectionTag(s) <= DirectionTag(t)

\* The tag of the message that arrives at face s of block g.
DirTag(from, g, s) == DirectionTag(s) + 4 * from + 24 * B * g

-----------------------------------------------------------------------------
NoValues == [s \in Side |-> NoStates]

Init ==
  /\ stage = [g \in Gid |-> 0]
  /\ phase = [g \in Gid |-> "idle"]
  /\ L3DValues = [g \in Gid |-> NoValues]
  /\ R3DValues = [g \in Gid |-> NoValues]
  /\ LRDataBuffer = [g \in Gid |-> NoValues]
  /\ send_request = [g \in Gid |-> [s \in Side |-> FALSE]]
  /\ chan = [a \in Rank |-> [b \in Rank |-> <<>>]]
  /\ eager \in BOOLEAN

OnRankOf == [g \in Gid |-> {h \in Gid : RankOf[h] = RankOf[g]}]

\* A rank runs CalculateFluxes for one block at a time and starts a stage
\* when all its blocks have ended the one before.
Free(g) ==
  \A h \in OnRankOf[g] :
    phase[h] = "idle" /\ stage[h] \in {stage[g], stage[g] + 1}

\* The integrator has a stage left (variant: it runs one too many).
StageLeftOff(g) == stage[g] <= MaxStage
StageLeft(g) == stage[g] < MaxStage

\* The message of border face s, its data already copied or still in the
\* buffer of the sender.
Message(g, s, data) ==
  [tag  |-> DirTag(g, Neighbor[g][s].gid, Neighbor[g][s].side),
   from |-> <<g, s>>,
   data |-> IF eager THEN data ELSE NoStates]

\* What block g sends to rank b in stage st, in the order of pbval->neighbor.
Sent(g, s, b, st) ==
  IF s \in Border[g] /\ RankOf[Neighbor[g][s].gid] = b
  THEN <<Message(g, s, States(st, g, s, "packed"))>> ELSE <<>>
SentTo(g, b, st) ==
  Sent(g, "up", b, st) \o Sent(g, "down", b, st)
    \o Sent(g, "left", b, st) \o Sent(g, "right", b, st)

(* SaveLR3DValues for every face, then SynchronizeFluxesSend.               *)
SaveAndSend(g) ==
  LET st == stage[g] + 1
      faces == Border[g]
      Saved(left) == [s \in Side |->
        IF s \in faces
        THEN States(st, g, s, IF InnerIsLeft(s) = left THEN "inner" ELSE "outer")
        ELSE NoStates]
      buffer == [s \in Side |->
        IF s \in faces THEN States(st, g, s, "packed") ELSE NoStates]
  IN  /\ StageLeft(g)
      /\ Free(g)
      /\ stage' = [stage EXCEPT ![g] = st]
      /\ L3DValues' = [L3DValues EXCEPT ![g] = Saved(TRUE)]
      /\ R3DValues' = [R3DValues EXCEPT ![g] = Saved(FALSE)]
      /\ LRDataBuffer' = [LRDataBuffer EXCEPT ![g] = buffer]
      /\ send_request' = [send_request EXCEPT
           ![g] = [s \in Side |-> s \in faces /\ ~ eager]]
      /\ chan' = [chan EXCEPT ![RankOf[g]] = [b \in Rank |-> @[b] \o SentTo(g, b, st)]]
      /\ phase' = [phase EXCEPT ![g] = FirstOf(faces)]
      /\ UNCHANGED eager

\* The face received after s, or the wait for the sends (variant: the same
\* face again).
AfterFaceAgain(g, s) ==
  FirstOf({t \in Border[g] : DirectionTag(t) >= DirectionTag(s)})

AfterFace(g, s) ==
  FirstOf({t \in Border[g] : DirectionTag(t) > DirectionTag(s)})

\* Variant: go on when nothing has arrived.
RecvPolled(g) ==
  LET s == phase[g]
  IN  /\ s \in Side
      /\ phase' = [phase EXCEPT ![g] = AfterFace(g, s)]
      /\ UNCHANGED <<stage, L3DValues, R3DValues, LRDataBuffer, send_request,
                     chan, eager>>

\* The place in chan of the oldest message with the tag that face s of block
\* g waits for, if there is one.
Arrived(g, s) ==
  LET from   == Neighbor[g][s].gid
      queue  == chan[RankOf[from]][RankOf[g]]
      tagged == {n \in DOMAIN queue : queue[n].tag = DirTag(from, g, s)}
  IN  {n \in tagged : \A m \in tagged : n <= m}

(* recvNeighborBlocks: block until the message for this face arrives, then  *)
(* put it in place of the outer state.                                      *)
Recv(g) ==
  /\ phase[g] \in Side
  /\ \E n \in Arrived(g, phase[g]) :
       LET s    == phase[g]
           a    == RankOf[Neighbor[g][s].gid]
           b    == RankOf[g]
           msg  == chan[a][b][n]
           data == IF eager THEN msg.data ELSE LRDataBuffer[msg.from[1]][msg.from[2]]
       IN  /\ chan' = [chan EXCEPT ![a][b] = RemoveAt(@, n)]
           /\ send_request' = [send_request EXCEPT ![msg.from[1]][msg.from[2]] = FALSE]
           /\ IF InnerIsLeft(s)
              THEN R3DValues' = [R3DValues EXCEPT ![g][s] = data] /\ UNCHANGED L3DValues
              ELSE L3DValues' = [L3DValues EXCEPT ![g][s] = data] /\ UNCHANGED R3DValues
           /\ phase' = [phase EXCEPT ![g] = AfterFace(g, s)]
  /\ UNCHANGED <<stage, LRDataBuffer, eager>>

AllSent(g) == \A s \in Side : ~ send_request[g][s]

\* Variant: the sends are not waited for.
WaitUnchecked(g) ==
  /\ phase[g] = "wait"
  /\ phase' = [phase EXCEPT ![g] = "idle"]
  /\ UNCHANGED <<stage, L3DValues, R3DValues, LRDataBuffer, send_request, chan, eager>>

(* SynchronizeFluxesWait, then the Riemann solver reads the states.         *)
Wait(g) ==
  /\ phase[g] = "wait"
  /\ AllSent(g)
  /\ phase' = [phase EXCEPT ![g] = "idle"]
  /\ UNCHANGED <<stage, L3DValues, R3DValues, LRDataBuffer, send_request, chan, eager>>

AllDone == \A g \in Gid : stage[g] = MaxStage /\ phase[g] = "idle"

\* Every stage is integrated.
Finished == AllDone /\ UNCHANGED vars

BlockStep(g) == SaveAndSend(g) \/ Recv(g) \/ Wait(g)

Next == (\E g \in Gid : BlockStep(g)) \/ Finished

Spec == Init /\ [][Next]_vars
\* While ranks can go on, one of them does.
FairSpec == Spec /\ WF_vars(Next)

-----------------------------------------------------------------------------
FaceStates ==
  [stage : 1 .. MaxStage, gid : Gid, face : Side,
   kind : {"inner", "outer", "packed"}] \cup {NoStates}

(* The stages run, and what is in the face states and the send buffers.     *)
TypeOK ==
  /\ stage \in [Gid -> 0 .. MaxStage]
  /\ phase \in [Gid -> {"idle", "wait"} \cup Side]
  /\ send_request \in [Gid -> [Side -> BOOLEAN]]
  /\ L3DValues \in [Gid -> [Side -> FaceStates]]
  /\ R3DValues \in [Gid -> [Side -> FaceStates]]
  /\ LRDataBuffer \in [Gid -> [Side -> FaceStates]]
  /\ eager \in BOOLEAN

\* The packed cells of face t of block m fit face s of block g: each comes
\* from the same point of the sphere and is given on the basis found there.
FaceMatches ==
  [m \in Gid |-> [t \in Side |-> [g \in Gid |-> [s \in Side |->
    \A i \in 1 .. N :
      LET c == Packed(m, t)[i]
      IN  /\ c.gid # g
          /\ FacePoint(c.gid, c.face, c.cell) = FacePoint(g, s, i - 1)
          /\ c.panel = Own(g, s)[i].panel
          /\ c.pos = Own(g, s)[i].pos]]]]

(* When the Riemann solver of a block runs, the inner state of each border  *)
(* face is the block's own of this stage, and the outer one is the inner    *)
(* state, of the same stage, that the block on the other panel has at the   *)
(* very same point of the sphere, its velocity projected on the basis of    *)
(* this panel at this point (tables tgbid and dinv, tags, buffer reuse).    *)
FaceStatesAgree ==
  \A g \in Gid : phase[g] = "idle" /\ stage[g] > 0 =>
    \A s \in Border[g] :
      LET inner == IF InnerIsLeft(s) THEN L3DValues[g][s] ELSE R3DValues[g][s]
          outer == IF InnerIsLeft(s) THEN R3DValues[g][s] ELSE L3DValues[g][s]
      IN  /\ inner = States(stage[g], g, s, "inner")
          /\ outer.stage = stage[g] /\ outer.kind = "packed"
          /\ FaceMatches[outer.gid][outer.face][g][s]

(* No block runs two stages ahead of a block it exchanges states with, so   *)
(* MPI never holds more than two messages of a face.                        *)
StageSkew ==
  \A g \in Gid : \A h \in Partners[g] : stage[g] - stage[h] <= 1

(* A send buffer is not rewritten while MPI may still read it.              *)
BufferHeld ==
  [][\A g \in Gid : LRDataBuffer'[g] # LRDataBuffer[g] =>
       \A s \in Side :
         send_request[g][s] => LRDataBuffer'[g][s] = LRDataBuffer[g][s]]_vars

(* Every block gets through all its stages.                                 *)
Completes == <>AllDone

=============================================================================
