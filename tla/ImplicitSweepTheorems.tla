------------------------ MODULE ImplicitSweepTheorems ------------------------
(***************************************************************************)
(* Proofs about the implicit solver's sweep, for every number of blocks,   *)
(* columns and systems, every hash of the tags and every choice of MPI     *)
(* between copying a message and reading the sender's buffer.  The second  *)
(* part is about the numbers: the elimination and the substitution, split  *)
(* between the blocks, solve the block tridiagonal system of a column.     *)
(***************************************************************************)
EXTENDS Tridiagonal, WellFoundedInduction, TLAPS

-----------------------------------------------------------------------------
(* The column of a system is a column of the block (the loop over k and j). *)
LEMMA ColumnType ==
  \A i \in Nat : ColumnOf(i) \in Column
  BY CommunicationAssumption DEF ColumnOf, Column

(* What a message brings is a token.                                        *)
LEMMA ValueType ==
  ASSUME TypeOK, NEW m \in net
  PROVE  Value(m) \in Token
<1>1. m \in Message
  BY DEF TypeOK
<1>2. m.from \in Block /\ m.solve \in Nat /\ m.data \in Token
  BY <1>1 DEF Message, Solve
<1>3. buffer[m.from][ColumnOf(m.solve)] \in Token
  BY <1>2, ColumnType DEF TypeOK
<1>4. QED
  BY <1>2, <1>3 DEF Value

(* A send, whichever branch of SendBuffer it takes, leaves the buffers, the *)
(* messages and the requests well typed.                                    *)
LEMMA SendType ==
  ASSUME TypeOK, NEW b \in Block, NEW nb \in Block, NEW way \in Way,
         NEW i \in Solve, NEW value \in Token, NEW taken \in SUBSET net,
         SendBuffer(b, nb, way, i, value, taken)
  PROVE  /\ buffer' \in [Block -> [Column -> Token]]
         /\ net' \subseteq Message
         /\ pending' \in [Block -> SUBSET Way]
         /\ posted' \in [Rank -> Nat]
         /\ crashed' \in BOOLEAN
<1>1. ColumnOf(i) \in Column
  BY ColumnType DEF Solve
<1>2. StillPending(taken) \in [Block -> SUBSET Way]
  BY DEF StillPending, TypeOK
<1>3. RankOf[b] \in Rank /\ RankOf[nb] \in Rank /\ Tag[nb][b][way] \in Nat
  BY CommunicationAssumption
<1>4. CASE SendRemote(b, nb, way, i, value, taken)
  <2>1. buffer' \in [Block -> [Column -> Token]]
    BY <1>1, <1>4 DEF SendRemote, TypeOK
  <2>2. PICK copied \in BOOLEAN :
          /\ net' = (net \ taken) \cup
               {[src |-> RankOf[b], dst |-> RankOf[nb], tag |-> Tag[nb][b][way],
                 order |-> posted[RankOf[b]], from |-> b, way |-> way,
                 solve |-> i, copied |-> copied, data |-> value]}
          /\ pending' = [StillPending(taken) EXCEPT
               ![b] = IF copied THEN @ ELSE @ \cup {way}]
    BY <1>4 DEF SendRemote
  <2>3. [src |-> RankOf[b], dst |-> RankOf[nb], tag |-> Tag[nb][b][way],
         order |-> posted[RankOf[b]], from |-> b, way |-> way,
         solve |-> i, copied |-> copied, data |-> value] \in Message
    BY <1>3 DEF Message, TypeOK
  <2>4. net' \subseteq Message
    BY <2>2, <2>3 DEF TypeOK
  <2>5. pending' \in [Block -> SUBSET Way]
    BY <1>2, <2>2
  <2>6. posted' \in [Rank -> Nat]
    BY <1>3, <1>4 DEF SendRemote, TypeOK
  <2>7. crashed' \in BOOLEAN
    BY <1>4 DEF SendRemote, TypeOK
  <2>8. QED
    BY <2>1, <2>4, <2>5, <2>6, <2>7
<1>5. CASE SendLocal(b, nb, way, i, value, taken)
  <2> DEFINE sent == [buffer EXCEPT ![b][ColumnOf(i)] = value]
  <2>1. buffer' \in [Block -> [Column -> Token]]
    <3>1. sent \in [Block -> [Column -> Token]]
      BY <1>1 DEF TypeOK
    <3>2. ASSUME NEW t \in Block
          PROVE  [sent EXCEPT ![t][ColumnOf(i)] = value]
                   \in [Block -> [Column -> Token]]
      BY <1>1, <3>1
    <3>3. \/ buffer' = sent
          \/ \E t \in Block : buffer' = [sent EXCEPT ![t][ColumnOf(i)] = value]
      BY <1>5 DEF SendLocal
    <3>4. QED
      BY <3>1, <3>2, <3>3
  <2>2. net' \subseteq Message
    BY <1>5 DEF SendLocal, TypeOK
  <2>3. QED
    BY <1>2, <1>5, <2>1, <2>2 DEF SendLocal, TypeOK
<1>6. QED
  BY <1>4, <1>5 DEF SendBuffer

(* The same for a block that sends nothing.                                 *)
LEMMA NoSendType ==
  ASSUME TypeOK, NEW b \in Block, NEW i \in Solve, NEW received \in Token,
         NEW taken \in SUBSET net, NoSend(b, i, received, taken)
  PROVE  /\ buffer' \in [Block -> [Column -> Token]]
         /\ net' \subseteq Message
         /\ pending' \in [Block -> SUBSET Way]
         /\ posted' \in [Rank -> Nat]
         /\ crashed' \in BOOLEAN
<1>1. ColumnOf(i) \in Column
  BY ColumnType DEF Solve
<1>2. StillPending(taken) \in [Block -> SUBSET Way]
  BY DEF StillPending, TypeOK
<1>3. QED
  BY <1>1, <1>2 DEF NoSend, TypeOK

(* Eliminate and Substitute keep the types, whatever was received.          *)
LEMMA EliminateType ==
  ASSUME TypeOK, NEW b \in Block, NEW received \in Token,
         NEW taken \in SUBSET net,
         eliminated[b] = solved[b], eliminated[b] < MaxSolve,
         Eliminate(b, eliminated[b] + 1, received, taken)
  PROVE  TypeOK'
<1> DEFINE i == eliminated[b] + 1
           value == IF b = 1 \/ received = Eliminated(i, b - 1)
                    THEN Eliminated(i, b) ELSE Wrong
<1>1. i \in Solve /\ i \in 0 .. MaxSolve
  BY CommunicationAssumption DEF TypeOK, Solve
<1>2. value \in Token
  BY <1>1 DEF Token
<1>3. coefficient' \in [Block -> [Column -> Token]]
  <2>1. coefficient' = [coefficient EXCEPT ![b][ColumnOf(i)] = value]
    BY DEF Eliminate
  <2>2. QED
    BY <1>1, <1>2, <2>1, ColumnType DEF TypeOK
<1>4. /\ eliminated' = [eliminated EXCEPT ![b] = i]
      /\ UNCHANGED <<solved, solution>>
  BY DEF Eliminate
<1>5. \A c \in Block : eliminated'[c] - solved'[c] \in {0, 1}
  BY <1>4 DEF TypeOK
<1>6. /\ buffer' \in [Block -> [Column -> Token]]
      /\ net' \subseteq Message
      /\ pending' \in [Block -> SUBSET Way]
      /\ posted' \in [Rank -> Nat]
      /\ crashed' \in BOOLEAN
  <2>1. CASE b < P
    <3>1. SendBuffer(b, b + 1, "up", i, value, taken)
      BY <2>1 DEF Eliminate
    <3>2. b + 1 \in Block /\ "up" \in Way
      BY <2>1, CommunicationAssumption DEF Block, Way
    <3>3. QED
      BY <1>1, <1>2, <3>1, <3>2, SendType
  <2>2. CASE ~ b < P
    BY <1>1, <2>2, NoSendType DEF Eliminate
  <2>3. QED
    BY <2>1, <2>2
<1>7. QED
  BY <1>1, <1>3, <1>4, <1>5, <1>6 DEF TypeOK

LEMMA SubstituteType ==
  ASSUME TypeOK, NEW b \in Block, NEW received \in Token,
         NEW taken \in SUBSET net, solved[b] < eliminated[b],
         Substitute(b, solved[b] + 1, received, taken)
  PROVE  TypeOK'
<1> DEFINE i == solved[b] + 1
           value == IF /\ coefficient[b][ColumnOf(i)] = Eliminated(i, b)
                       /\ b = P \/ received = Solved(i, b + 1)
                    THEN Solved(i, b) ELSE Wrong
<1>1. i \in Solve /\ i \in 0 .. MaxSolve /\ i = eliminated[b]
  <2>1. /\ solved[b] \in 0 .. MaxSolve
        /\ eliminated[b] \in 0 .. MaxSolve
        /\ eliminated[b] - solved[b] \in {0, 1}
    BY DEF TypeOK
  <2>2. QED
    BY <2>1, CommunicationAssumption DEF Solve
<1>2. value \in Token
  BY <1>1 DEF Token
<1>3. /\ solution' = [solution EXCEPT ![b][i] = value]
      /\ solved' = [solved EXCEPT ![b] = i]
      /\ UNCHANGED <<eliminated, coefficient>>
  BY DEF Substitute
<1>4. solution' \in [Block -> [Solve -> Token]]
  BY <1>1, <1>2, <1>3 DEF TypeOK
<1>5. \A c \in Block : eliminated'[c] - solved'[c] \in {0, 1}
  BY <1>1, <1>3 DEF TypeOK
<1>6. /\ buffer' \in [Block -> [Column -> Token]]
      /\ net' \subseteq Message
      /\ pending' \in [Block -> SUBSET Way]
      /\ posted' \in [Rank -> Nat]
      /\ crashed' \in BOOLEAN
  <2>1. CASE b > 1
    <3>1. SendBuffer(b, b - 1, "down", i, value, taken)
      BY <2>1 DEF Substitute
    <3>2. b - 1 \in Block /\ "down" \in Way
      BY <2>1, CommunicationAssumption DEF Block, Way
    <3>3. QED
      BY <1>1, <1>2, <3>1, <3>2, SendType
  <2>2. CASE ~ b > 1
    BY <1>1, <2>2, NoSendType DEF Substitute
  <2>3. QED
    BY <2>1, <2>2
<1>7. QED
  BY <1>1, <1>3, <1>4, <1>5, <1>6 DEF TypeOK

(* The types hold to begin with.                                            *)
LEMMA InitType ==
  ASSUME Init
  PROVE  TypeOK
<1>1. None \in Token
  BY DEF Token
<1>2. 0 \in 0 .. MaxSolve /\ 0 - 0 \in {0, 1}
  BY CommunicationAssumption
<1>3. /\ eliminated \in [Block -> 0 .. MaxSolve]
      /\ solved \in [Block -> 0 .. MaxSolve]
      /\ \A b \in Block : eliminated[b] - solved[b] \in {0, 1}
  BY <1>2 DEF Init
<1>4. /\ solution \in [Block -> [Solve -> Token]]
      /\ buffer \in [Block -> [Column -> Token]]
      /\ coefficient \in [Block -> [Column -> Token]]
  BY <1>1 DEF Init
<1>5. /\ pending \in [Block -> SUBSET Way]
      /\ net \subseteq Message
      /\ posted \in [Rank -> Nat]
      /\ crashed \in BOOLEAN
  BY DEF Init
<1>6. QED
  BY <1>3, <1>4, <1>5 DEF TypeOK

(* Type correctness for every placement of the blocks: the systems solved   *)
(* never run ahead of those eliminated, nor these by more than one.         *)
THEOREM SweepTypeCorrect == Spec => []TypeOK
<1>1. Init => TypeOK
  BY InitType
<1>2. TypeOK /\ [Next]_vars => TypeOK'
  <2> SUFFICES ASSUME TypeOK, [Next]_vars
               PROVE  TypeOK'
    OBVIOUS
  <2>1. ASSUME NEW b \in Block, ForwardSweep(b)
        PROVE  TypeOK'
    <3>1. eliminated[b] = solved[b] /\ eliminated[b] < MaxSolve
      BY <2>1 DEF ForwardSweep
    <3>2. CASE Eliminate(b, eliminated[b] + 1,
                         buffer[b][ColumnOf(eliminated[b] + 1)], {})
      <4>1. buffer[b][ColumnOf(eliminated[b] + 1)] \in Token
        BY ColumnType DEF TypeOK
      <4>2. QED
        BY <3>1, <3>2, <4>1, EliminateType
    <3>3. ASSUME NEW m \in First(Matching(b, b - 1, "up")),
                 Eliminate(b, eliminated[b] + 1, Value(m), {m})
          PROVE  TypeOK'
      <4>1. m \in net
        BY DEF First, Matching
      <4>2. QED
        BY <3>1, <3>3, <4>1, ValueType, EliminateType
    <3>4. QED
      BY <2>1, <3>2, <3>3 DEF ForwardSweep
  <2>2. ASSUME NEW b \in Block, BackwardSubstitution(b)
        PROVE  TypeOK'
    <3>1. solved[b] < eliminated[b]
      BY <2>2 DEF BackwardSubstitution
    <3>2. CASE Substitute(b, solved[b] + 1,
                          buffer[b][ColumnOf(solved[b] + 1)], {})
      <4>1. buffer[b][ColumnOf(solved[b] + 1)] \in Token
        BY ColumnType DEF TypeOK
      <4>2. QED
        BY <3>1, <3>2, <4>1, SubstituteType
    <3>3. ASSUME NEW m \in First(Matching(b, b + 1, "down")),
                 Substitute(b, solved[b] + 1, Value(m), {m})
          PROVE  TypeOK'
      <4>1. m \in net
        BY DEF First, Matching
      <4>2. QED
        BY <3>1, <3>3, <4>1, ValueType, SubstituteType
    <3>4. QED
      BY <2>2, <3>2, <3>3 DEF BackwardSubstitution
  <2>3. CASE Stopped
    BY <2>3 DEF Stopped, vars, TypeOK
  <2>4. CASE UNCHANGED vars
    BY <2>4 DEF vars, TypeOK
  <2>5. QED
    BY <2>1, <2>2, <2>3, <2>4 DEF Next
<1>3. QED
  BY <1>1, <1>2, PTL DEF Spec

-----------------------------------------------------------------------------
(* With a block per rank a block never takes the local branch of SendBuffer.*)
LEMMA SendsRemote ==
  ASSUME OneBlockPerRank, NEW b \in Block, NEW nb \in Block, b # nb
  PROVE  Remote(b, nb)
  BY DEF OneBlockPerRank, Remote

(* What the counters say of the block next above and next below.            *)
LEMMA NextBlocks ==
  ASSUME TypeOK, SweepOrder, NEW b \in Block
  PROVE  /\ eliminated[b] \in Nat /\ solved[b] \in Nat
         /\ solved[b] <= eliminated[b] /\ eliminated[b] <= solved[b] + 1
         /\ b < P => /\ b + 1 \in Block
                     /\ eliminated[b + 1] \in Nat /\ solved[b + 1] \in Nat
                     /\ eliminated[b + 1] <= eliminated[b]
                     /\ solved[b] <= solved[b + 1]
                     /\ solved[b + 1] <= eliminated[b + 1]
                     /\ eliminated[b + 1] <= solved[b + 1] + 1
         /\ b > 1 => /\ b - 1 \in Block
                     /\ eliminated[b - 1] \in Nat /\ solved[b - 1] \in Nat
                     /\ eliminated[b] <= eliminated[b - 1]
                     /\ solved[b - 1] <= solved[b]
                     /\ solved[b - 1] <= eliminated[b - 1]
                     /\ eliminated[b - 1] <= solved[b - 1] + 1
<1>1. ASSUME NEW c \in Block
      PROVE  /\ eliminated[c] \in Nat /\ solved[c] \in Nat
             /\ solved[c] <= eliminated[c] /\ eliminated[c] <= solved[c] + 1
  <2>1. /\ solved[c] \in 0 .. MaxSolve /\ eliminated[c] \in 0 .. MaxSolve
        /\ eliminated[c] - solved[c] \in {0, 1}
    BY DEF TypeOK
  <2>2. QED
    BY <2>1, CommunicationAssumption
<1>2. /\ b < P => b + 1 \in Block /\ b <= b + 1
      /\ b > 1 => b - 1 \in Block /\ b - 1 <= b
  BY CommunicationAssumption DEF Block
<1>3. QED
  BY <1>1, <1>2 DEF SweepOrder

(* The source of a message, told by its rank.                               *)
LEMMA SourceBlock ==
  ASSUME IInv, OneBlockPerRank, NEW m \in net, NEW b \in Block,
         m.src = RankOf[b]
  PROVE  m.from = b
<1>1. m.from \in Block
  BY DEF IInv, TypeOK, Message
<1>2. RankOf[m.from] = RankOf[b]
  BY DEF IInv, MessagesRight
<1>3. QED
  BY <1>1, <1>2 DEF OneBlockPerRank

(* A message goes up or down.                                               *)
LEMMA MessageWay ==
  ASSUME IInv, NEW m \in net
  PROVE  m.from \in Block /\ (m.way = "up" \/ m.way = "down")
  BY DEF IInv, TypeOK, Message, Way

(* A receive from below takes the one message from below.                   *)
LEMMA FromBelow ==
  ASSUME IInv, OneBlockPerRank, NEW b \in Block, b > 1,
         NEW m \in First(Matching(b, b - 1, "up"))
  PROVE  /\ m \in net /\ m.from = b - 1 /\ m.way = "up"
         /\ eliminated[b - 1] = eliminated[b] + 1
         /\ Value(m) = Eliminated(eliminated[b] + 1, b - 1)
         /\ \A o \in net : o.from = b - 1 /\ o.way = "up" => o = m
<1>1. b - 1 \in Block /\ b - 2 # b
  BY CommunicationAssumption DEF Block
<1>2. m \in net /\ m.src = RankOf[b - 1] /\ m.dst = RankOf[b]
  BY DEF First, Matching
<1>3. m.from = b - 1
  BY <1>1, <1>2, SourceBlock
<1>4. m.way = "up"
  <2>1. SUFFICES ASSUME m.way = "down" PROVE FALSE
    BY <1>2, MessageWay
  <2>2. m.from > 1 /\ m.dst = RankOf[m.from - 1]
    BY <1>2, <2>1 DEF IInv, MessagesRight, DownRight
  <2>3. b - 2 \in Block /\ RankOf[b - 2] = RankOf[b]
    <3>1. m.from - 1 = b - 2 /\ b - 1 > 1
      BY <1>3, <2>2 DEF Block
    <3>2. b - 2 \in Block
      BY <3>1, CommunicationAssumption DEF Block
    <3>3. QED
      BY <1>2, <2>2, <3>1, <3>2
  <2>4. QED
    BY <1>1, <2>3 DEF OneBlockPerRank
<1>5. /\ m.solve = eliminated[b - 1] /\ m.solve = eliminated[b] + 1
      /\ Value(m) = Eliminated(m.solve, b - 1)
  <2>1. UpRight(m)
    BY <1>2 DEF IInv, MessagesRight
  <2>2. b - 1 + 1 = b
    BY DEF Block
  <2>3. QED
    BY <1>3, <1>4, <2>1, <2>2 DEF UpRight
<1>6. ASSUME NEW o \in net, o.from = b - 1, o.way = "up"
      PROVE  o = m
  <2>1. o.src = RankOf[b - 1] /\ o.dst = RankOf[b - 1 + 1]
    BY <1>6 DEF IInv, MessagesRight, UpRight
  <2>2. b - 1 + 1 = b
    BY DEF Block
  <2>3. QED
    BY <1>2, <2>1, <2>2 DEF IInv, OneMessage
<1>7. QED
  BY <1>2, <1>3, <1>4, <1>5, <1>6

(* A receive from above takes the one message from above.                   *)
LEMMA FromAbove ==
  ASSUME IInv, OneBlockPerRank, NEW b \in Block, b < P,
         NEW m \in First(Matching(b, b + 1, "down"))
  PROVE  /\ m \in net /\ m.from = b + 1 /\ m.way = "down"
         /\ solved[b + 1] = solved[b] + 1
         /\ Value(m) = Solved(solved[b] + 1, b + 1)
         /\ \A o \in net : o.from = b + 1 /\ o.way = "down" => o = m
<1>1. b + 1 \in Block /\ b + 2 # b
  BY CommunicationAssumption DEF Block
<1>2. m \in net /\ m.src = RankOf[b + 1] /\ m.dst = RankOf[b]
  BY DEF First, Matching
<1>3. m.from = b + 1
  BY <1>1, <1>2, SourceBlock
<1>4. m.way = "down"
  <2>1. SUFFICES ASSUME m.way = "up" PROVE FALSE
    BY <1>2, MessageWay
  <2>2. m.from < P /\ m.dst = RankOf[m.from + 1]
    BY <1>2, <2>1 DEF IInv, MessagesRight, UpRight
  <2>3. b + 2 \in Block /\ RankOf[b + 2] = RankOf[b]
    <3>1. m.from + 1 = b + 2 /\ b + 1 < P
      BY <1>3, <2>2 DEF Block
    <3>2. b + 2 \in Block
      BY <3>1, CommunicationAssumption DEF Block
    <3>3. QED
      BY <1>2, <2>2, <3>1, <3>2
  <2>4. QED
    BY <1>1, <2>3 DEF OneBlockPerRank
<1>5. /\ m.solve = solved[b + 1] /\ m.solve = solved[b] + 1
      /\ Value(m) = Solved(m.solve, b + 1)
  <2>1. DownRight(m)
    BY <1>2 DEF IInv, MessagesRight
  <2>2. m.from - 1 = b
    BY <1>3 DEF Block
  <2>3. QED
    BY <1>3, <1>4, <2>1, <2>2 DEF DownRight
<1>6. ASSUME NEW o \in net, o.from = b + 1, o.way = "down"
      PROVE  o = m
  <2>1. o.src = RankOf[b + 1] /\ o.dst = RankOf[o.from - 1]
    BY <1>6 DEF IInv, MessagesRight, DownRight
  <2>2. o.from - 1 = b
    BY <1>6 DEF Block
  <2>3. QED
    BY <1>2, <2>1, <2>2 DEF IInv, OneMessage
<1>7. QED
  BY <1>2, <1>3, <1>4, <1>5, <1>6

(* When a block can take a step no message of its own is left in MPI: this  *)
(* is what makes one buffer for both ways safe.                             *)
LEMMA NoneLeft ==
  ASSUME IInv, NEW b \in Block,
         \/ /\ eliminated[b] = solved[b]
            /\ b > 1 => eliminated[b - 1] = eliminated[b] + 1
         \/ /\ solved[b] < eliminated[b]
            /\ b < P => solved[b + 1] = solved[b] + 1,
         NEW m \in net
  PROVE  m.from # b
<1> SUFFICES ASSUME m.from = b PROVE FALSE
  OBVIOUS
<1>0. TypeOK /\ SweepOrder
  BY DEF IInv
<1>1. CASE m.way = "up"
  <2>1. b < P /\ m.solve = eliminated[b] /\ m.solve = eliminated[b + 1] + 1
    BY <1>1 DEF IInv, MessagesRight, UpRight
  <2>2. /\ eliminated[b] \in Nat /\ solved[b] \in Nat
        /\ eliminated[b + 1] \in Nat /\ solved[b + 1] \in Nat
        /\ eliminated[b] <= solved[b] + 1
        /\ solved[b] <= solved[b + 1]
        /\ solved[b + 1] <= eliminated[b + 1]
    BY <1>0, <2>1, NextBlocks
  <2>3. \/ eliminated[b] = solved[b]
        \/ solved[b] < eliminated[b] /\ solved[b + 1] = solved[b] + 1
    BY <2>1
  <2>4. QED
    BY <2>1, <2>2, <2>3
<1>2. CASE m.way = "down"
  <2>1. b > 1 /\ m.solve = solved[b] /\ m.solve = solved[b - 1] + 1
    BY <1>2 DEF IInv, MessagesRight, DownRight
  <2>2. /\ eliminated[b] \in Nat /\ solved[b] \in Nat
        /\ eliminated[b - 1] \in Nat /\ solved[b - 1] \in Nat
        /\ eliminated[b] <= eliminated[b - 1]
        /\ eliminated[b - 1] <= solved[b - 1] + 1
    BY <1>0, <2>1, NextBlocks
  <2>3. \/ eliminated[b] = solved[b] /\ eliminated[b - 1] = eliminated[b] + 1
        \/ solved[b] < eliminated[b]
    BY <2>1
  <2>4. QED
    BY <2>1, <2>2, <2>3
<1>3. QED
  BY <1>1, <1>2, MessageWay

\* A message just posted by block b.
Fresh(m, b, nb, way, i, value) ==
  /\ m.src = RankOf[b] /\ m.dst = RankOf[nb] /\ m.from = b
  /\ m.way = way /\ m.solve = i /\ m.data = value

(* What a send leaves: its value in the block's own buffer and one message. *)
LEMMA SendEffect ==
  ASSUME OneBlockPerRank, NEW b \in Block, NEW nb \in Block, b # nb,
         NEW way, NEW i, NEW value, NEW taken,
         SendBuffer(b, nb, way, i, value, taken)
  PROVE  /\ buffer' = [buffer EXCEPT ![b][ColumnOf(i)] = value]
         /\ \A m \in net' : m \in net \ taken \/ Fresh(m, b, nb, way, i, value)
         /\ \A m, o \in net' : m \notin net /\ o \notin net => m = o
<1>1. SendRemote(b, nb, way, i, value, taken)
  BY SendsRemote DEF SendBuffer, SendLocal
<1>2. PICK copied \in BOOLEAN :
        net' = (net \ taken) \cup
             {[src |-> RankOf[b], dst |-> RankOf[nb], tag |-> Tag[nb][b][way],
               order |-> posted[RankOf[b]], from |-> b, way |-> way,
               solve |-> i, copied |-> copied, data |-> value]}
  BY <1>1 DEF SendRemote
<1>3. QED
  BY <1>1, <1>2 DEF SendRemote, Fresh

(* The receive of ForwardSweep brings what the block below has eliminated.  *)
LEMMA ForwardReceives ==
  ASSUME IInv, OneBlockPerRank, NEW b \in Block, ForwardSweep(b)
  PROVE  /\ eliminated[b] = solved[b] /\ eliminated[b] < MaxSolve
         /\ b > 1 => eliminated[b - 1] = eliminated[b] + 1
         /\ \E received \in Token, taken \in SUBSET net :
              /\ Eliminate(b, eliminated[b] + 1, received, taken)
              /\ b > 1 => /\ received = Eliminated(eliminated[b] + 1, b - 1)
                          /\ \A o \in net : o.from = b - 1 /\ o.way = "up"
                               => o \in taken
<1>1. eliminated[b] = solved[b] /\ eliminated[b] < MaxSolve
  BY DEF ForwardSweep
<1>2. CASE b > 1
  <2>1. b - 1 \in Block /\ b - 1 # b
    BY <1>2, CommunicationAssumption DEF Block
  <2>2. Remote(b, b - 1)
    BY <2>1, SendsRemote
  <2>3. PICK m \in First(Matching(b, b - 1, "up")) :
          Eliminate(b, eliminated[b] + 1, Value(m), {m})
    BY <1>2, <2>2 DEF ForwardSweep
  <2>4. /\ m \in net /\ eliminated[b - 1] = eliminated[b] + 1
        /\ Value(m) = Eliminated(eliminated[b] + 1, b - 1)
        /\ \A o \in net : o.from = b - 1 /\ o.way = "up" => o = m
    BY <1>2, FromBelow
  <2>5. Value(m) \in Token /\ {m} \in SUBSET net
    BY <2>4, ValueType DEF IInv
  <2>6. QED
    BY <1>1, <2>3, <2>4, <2>5
<1>3. CASE ~ b > 1
  <2>1. Eliminate(b, eliminated[b] + 1, buffer[b][ColumnOf(eliminated[b] + 1)], {})
    BY <1>3 DEF ForwardSweep
  <2>2. eliminated[b] + 1 \in Nat
    BY DEF IInv, TypeOK
  <2>3. buffer[b][ColumnOf(eliminated[b] + 1)] \in Token
    BY <2>2, ColumnType DEF IInv, TypeOK
  <2>4. QED
    BY <1>1, <1>3, <2>1, <2>3
<1>4. QED
  BY <1>2, <1>3

(* The receive of BackwardSubstitution brings the solution above.           *)
LEMMA BackwardReceives ==
  ASSUME IInv, OneBlockPerRank, NEW b \in Block, BackwardSubstitution(b)
  PROVE  /\ solved[b] < eliminated[b]
         /\ b < P => solved[b + 1] = solved[b] + 1
         /\ \E received \in Token, taken \in SUBSET net :
              /\ Substitute(b, solved[b] + 1, received, taken)
              /\ b < P => /\ received = Solved(solved[b] + 1, b + 1)
                          /\ \A o \in net : o.from = b + 1 /\ o.way = "down"
                               => o \in taken
<1>1. solved[b] < eliminated[b]
  BY DEF BackwardSubstitution
<1>2. CASE b < P
  <2>1. b + 1 \in Block /\ b + 1 # b
    BY <1>2, CommunicationAssumption DEF Block
  <2>2. Remote(b, b + 1)
    BY <2>1, SendsRemote
  <2>3. PICK m \in First(Matching(b, b + 1, "down")) :
          Substitute(b, solved[b] + 1, Value(m), {m})
    BY <1>2, <2>2 DEF BackwardSubstitution
  <2>4. /\ m \in net /\ solved[b + 1] = solved[b] + 1
        /\ Value(m) = Solved(solved[b] + 1, b + 1)
        /\ \A o \in net : o.from = b + 1 /\ o.way = "down" => o = m
    BY <1>2, FromAbove
  <2>5. Value(m) \in Token /\ {m} \in SUBSET net
    BY <2>4, ValueType DEF IInv
  <2>6. QED
    BY <1>1, <2>3, <2>4, <2>5
<1>3. CASE ~ b < P
  <2>1. Substitute(b, solved[b] + 1, buffer[b][ColumnOf(solved[b] + 1)], {})
    BY <1>3 DEF BackwardSubstitution
  <2>2. solved[b] + 1 \in Nat
    BY DEF IInv, TypeOK
  <2>3. buffer[b][ColumnOf(solved[b] + 1)] \in Token
    BY <2>2, ColumnType DEF IInv, TypeOK
  <2>4. QED
    BY <1>1, <1>3, <2>1, <2>3
<1>4. QED
  BY <1>2, <1>3

(* ForwardSweep keeps the invariant.                                        *)
LEMMA ForwardInvariant ==
  ASSUME IInv, OneBlockPerRank, NEW b \in Block, ForwardSweep(b)
  PROVE  IInv'
<1> DEFINE i == eliminated[b] + 1
<1>1. /\ eliminated[b] = solved[b] /\ eliminated[b] < MaxSolve
      /\ b > 1 => eliminated[b - 1] = i
  BY ForwardReceives
<1>2. PICK received \in Token, taken \in SUBSET net :
        /\ Eliminate(b, i, received, taken)
        /\ b > 1 => /\ received = Eliminated(i, b - 1)
                    /\ \A o \in net : o.from = b - 1 /\ o.way = "up" => o \in taken
  BY ForwardReceives
<1>3. TypeOK /\ SweepOrder /\ b \in Nat /\ i \in Solve /\ ColumnOf(i) \in Column
  BY <1>1, ColumnType, CommunicationAssumption DEF IInv, TypeOK, Solve, Block
<1>4. \A m \in net : m.from # b
  BY <1>1, NoneLeft
<1>5. /\ eliminated' = [eliminated EXCEPT ![b] = i]
      /\ coefficient' = [coefficient EXCEPT ![b][ColumnOf(i)] = Eliminated(i, b)]
      /\ UNCHANGED <<solved, solution>>
  <2>1. b = 1 \/ received = Eliminated(i, b - 1)
    BY <1>2, CommunicationAssumption DEF Block
  <2>2. QED
    BY <1>2, <2>1 DEF Eliminate
<1>6. PICK v : /\ buffer' = [buffer EXCEPT ![b][ColumnOf(i)] = v]
               /\ b < P => v = Eliminated(i, b)
               /\ \A m \in net' :
                    \/ m \in net \ taken
                    \/ b < P /\ Fresh(m, b, b + 1, "up", i, v)
               /\ \A m, o \in net' : m \notin net /\ o \notin net => m = o
  <2>1. CASE b < P
    <3>1. b + 1 \in Block /\ b # b + 1
      BY <2>1, CommunicationAssumption DEF Block
    <3>2. SendBuffer(b, b + 1, "up", i, Eliminated(i, b), taken)
      <4>1. b = 1 \/ received = Eliminated(i, b - 1)
        BY <1>2, CommunicationAssumption DEF Block
      <4>2. QED
        BY <1>2, <2>1, <4>1 DEF Eliminate
    <3>3. QED
      BY <2>1, <3>1, <3>2, SendEffect
  <2>2. CASE ~ b < P
    BY <1>2, <2>2 DEF Eliminate, NoSend
  <2>3. QED
    BY <2>1, <2>2
<1>7. TypeOK'
  BY <1>1, <1>2, <1>3, EliminateType
<1>8. SweepOrder'
  <2> SUFFICES ASSUME NEW c \in Block, NEW d \in Block, c <= d
               PROVE  eliminated'[d] <= eliminated'[c] /\ solved'[c] <= solved'[d]
    BY DEF SweepOrder
  <2>1. /\ eliminated[c] \in Nat /\ eliminated[d] \in Nat /\ eliminated[b] \in Nat
        /\ eliminated[d] <= eliminated[c] /\ solved[c] <= solved[d]
    BY <1>3, NextBlocks DEF SweepOrder
  <2>2. CASE d = b /\ c # b
    <3>1. b > 1 /\ b - 1 \in Block /\ c <= b - 1
      BY <2>2, CommunicationAssumption DEF Block
    <3>2. eliminated[b - 1] <= eliminated[c]
      BY <1>3, <3>1 DEF SweepOrder
    <3>3. QED
      BY <1>1, <1>3, <1>5, <2>1, <2>2, <3>1, <3>2 DEF TypeOK
  <2>3. CASE ~ (d = b /\ c # b)
    BY <1>3, <1>5, <2>1, <2>3 DEF TypeOK
  <2>4. QED
    BY <2>2, <2>3
<1>9. CoefficientsRight'
  <2> SUFFICES ASSUME NEW c \in Block, solved'[c] < eliminated'[c]
               PROVE  coefficient'[c][ColumnOf(eliminated'[c])]
                        = Eliminated(eliminated'[c], c)
    BY DEF CoefficientsRight
  <2>1. CASE c = b
    BY <1>3, <1>5, <2>1 DEF TypeOK
  <2>2. CASE c # b
    BY <1>3, <1>5, <2>2 DEF TypeOK, IInv, CoefficientsRight
  <2>3. QED
    BY <2>1, <2>2
<1>10. MessagesRight'
  <2> SUFFICES ASSUME NEW m \in net'
               PROVE  m.src = RankOf[m.from] /\ UpRight(m)' /\ DownRight(m)'
    BY DEF MessagesRight
  <2>1. CASE m \in net \ taken
    <3>1. /\ m.src = RankOf[m.from] /\ UpRight(m) /\ DownRight(m)
          /\ m.from \in Block /\ m.from # b
      BY <1>4, <2>1, MessageWay DEF IInv, MessagesRight
    <3>2. Value(m)' = Value(m)
      BY <1>3, <1>6, <3>1 DEF TypeOK, Value
    <3>3. UpRight(m)'
      <4> SUFFICES ASSUME m.way = "up"
                   PROVE  UpRight(m)'
        BY DEF UpRight
      <4>1. m.from < P /\ m.from + 1 \in Block
        BY <3>1, CommunicationAssumption DEF UpRight, Block
      <4>2. m.from + 1 # b
        <5>1. SUFFICES ASSUME m.from + 1 = b PROVE FALSE
          OBVIOUS
        <5>2. b > 1 /\ m.from = b - 1
          BY <3>1, <5>1 DEF Block
        <5>3. QED
          BY <1>2, <2>1, <5>2
      <4>3. eliminated'[m.from] = eliminated[m.from]
              /\ eliminated'[m.from + 1] = eliminated[m.from + 1]
        BY <1>3, <1>5, <3>1, <4>1, <4>2 DEF TypeOK
      <4>4. QED
        BY <3>1, <3>2, <4>3 DEF UpRight
    <3>4. DownRight(m)'
      BY <1>5, <3>1, <3>2 DEF DownRight
    <3>5. QED
      BY <3>1, <3>3, <3>4
  <2>2. CASE b < P /\ Fresh(m, b, b + 1, "up", i, v)
    <3>1. b + 1 \in Block /\ b + 1 # b
      BY <2>2, CommunicationAssumption DEF Block
    <3>2. Value(m)' = Eliminated(i, b)
      BY <1>3, <1>6, <2>2 DEF TypeOK, Value, Fresh
    <3>3. eliminated[b + 1] = eliminated[b]
      <4>1. /\ eliminated[b] \in Nat /\ eliminated[b + 1] \in Nat
            /\ solved[b] \in Nat /\ solved[b + 1] \in Nat
            /\ eliminated[b + 1] <= eliminated[b] /\ solved[b] <= solved[b + 1]
            /\ solved[b + 1] <= eliminated[b + 1]
        BY <1>3, <2>2, NextBlocks
      <4>2. QED
        BY <1>1, <4>1
    <3>4. eliminated'[b] = i /\ eliminated'[b + 1] + 1 = i
      BY <1>3, <1>5, <3>1, <3>3 DEF TypeOK
    <3>5. QED
      BY <2>2, <3>2, <3>4 DEF Fresh, UpRight, DownRight
  <2>3. QED
    BY <1>6, <2>1, <2>2
<1>11. SolutionsRight'
  BY <1>5 DEF IInv, SolutionsRight
<1>12. OneMessage'
  <2> SUFFICES ASSUME NEW m \in net', NEW o \in net', m.src = o.src, m.dst = o.dst
               PROVE  m = o
    BY DEF OneMessage
  <2>1. \A x \in net' : x.src = RankOf[b] => x \notin net
    BY <1>4, SourceBlock
  <2>2. \A x \in net' : x \notin net => x.src = RankOf[b]
    BY <1>6 DEF Fresh
  <2>3. QED
    BY <1>6, <2>1, <2>2 DEF IInv, OneMessage
<1>13. QED
  BY <1>7, <1>8, <1>9, <1>10, <1>11, <1>12 DEF IInv

(* BackwardSubstitution keeps the invariant.                                *)
LEMMA BackwardInvariant ==
  ASSUME IInv, OneBlockPerRank, NEW b \in Block, BackwardSubstitution(b)
  PROVE  IInv'
<1> DEFINE i == solved[b] + 1
<1>1. /\ solved[b] < eliminated[b]
      /\ b < P => solved[b + 1] = i
  BY BackwardReceives
<1>2. PICK received \in Token, taken \in SUBSET net :
        /\ Substitute(b, i, received, taken)
        /\ b < P => /\ received = Solved(i, b + 1)
                    /\ \A o \in net : o.from = b + 1 /\ o.way = "down" => o \in taken
  BY BackwardReceives
<1>3. TypeOK /\ SweepOrder /\ b \in Nat
  BY DEF IInv, Block
<1>4. i = eliminated[b] /\ i \in Solve /\ ColumnOf(i) \in Column
  <2>1. /\ eliminated[b] \in 0 .. MaxSolve /\ solved[b] \in 0 .. MaxSolve
        /\ eliminated[b] - solved[b] \in {0, 1}
    BY <1>3 DEF TypeOK
  <2>2. i = eliminated[b] /\ i \in Solve
    BY <1>1, <2>1, CommunicationAssumption DEF Solve
  <2>3. QED
    BY <2>2, ColumnType DEF Solve
<1>5. \A m \in net : m.from # b
  BY <1>1, NoneLeft
<1>6. /\ solved' = [solved EXCEPT ![b] = i]
      /\ solution' = [solution EXCEPT ![b][i] = Solved(i, b)]
      /\ UNCHANGED <<eliminated, coefficient>>
  <2>1. coefficient[b][ColumnOf(i)] = Eliminated(i, b)
    BY <1>1, <1>4 DEF IInv, CoefficientsRight
  <2>2. b = P \/ received = Solved(i, b + 1)
    BY <1>2, CommunicationAssumption DEF Block
  <2>3. QED
    BY <1>2, <2>1, <2>2 DEF Substitute
<1>7. PICK v : /\ buffer' = [buffer EXCEPT ![b][ColumnOf(i)] = v]
               /\ b > 1 => v = Solved(i, b)
               /\ \A m \in net' :
                    \/ m \in net \ taken
                    \/ b > 1 /\ Fresh(m, b, b - 1, "down", i, v)
               /\ \A m, o \in net' : m \notin net /\ o \notin net => m = o
  <2>1. CASE b > 1
    <3>1. b - 1 \in Block /\ b # b - 1
      BY <2>1, CommunicationAssumption DEF Block
    <3>2. SendBuffer(b, b - 1, "down", i, Solved(i, b), taken)
      <4>1. coefficient[b][ColumnOf(i)] = Eliminated(i, b)
        BY <1>1, <1>4 DEF IInv, CoefficientsRight
      <4>2. b = P \/ received = Solved(i, b + 1)
        BY <1>2, CommunicationAssumption DEF Block
      <4>3. QED
        BY <1>2, <2>1, <4>1, <4>2 DEF Substitute
    <3>3. QED
      BY <2>1, <3>1, <3>2, SendEffect
  <2>2. CASE ~ b > 1
    BY <1>2, <2>2 DEF Substitute, NoSend
  <2>3. QED
    BY <2>1, <2>2
<1>8. TypeOK'
  BY <1>1, <1>2, <1>3, SubstituteType
<1>9. SweepOrder'
  <2> SUFFICES ASSUME NEW c \in Block, NEW d \in Block, c <= d
               PROVE  eliminated'[d] <= eliminated'[c] /\ solved'[c] <= solved'[d]
    BY DEF SweepOrder
  <2>1. /\ solved[c] \in Nat /\ solved[d] \in Nat /\ solved[b] \in Nat
        /\ eliminated[d] <= eliminated[c] /\ solved[c] <= solved[d]
    BY <1>3, NextBlocks DEF SweepOrder
  <2>2. CASE c = b /\ d # b
    <3>1. b < P /\ b + 1 \in Block /\ b + 1 <= d
      BY <2>2, CommunicationAssumption DEF Block
    <3>2. solved[b + 1] <= solved[d]
      BY <1>3, <3>1 DEF SweepOrder
    <3>3. QED
      BY <1>1, <1>3, <1>6, <2>1, <2>2, <3>1, <3>2 DEF TypeOK
  <2>3. CASE ~ (c = b /\ d # b)
    BY <1>3, <1>6, <2>1, <2>3 DEF TypeOK
  <2>4. QED
    BY <2>2, <2>3
<1>10. CoefficientsRight'
  <2> SUFFICES ASSUME NEW c \in Block, solved'[c] < eliminated'[c]
               PROVE  coefficient[c][ColumnOf(eliminated[c])]
                        = Eliminated(eliminated[c], c)
    BY <1>6 DEF CoefficientsRight
  <2>1. c # b
    BY <1>3, <1>4, <1>6 DEF TypeOK
  <2>2. solved[c] < eliminated[c]
    BY <1>3, <1>6, <2>1 DEF TypeOK
  <2>3. QED
    BY <2>2 DEF IInv, CoefficientsRight
<1>11. MessagesRight'
  <2> SUFFICES ASSUME NEW m \in net'
               PROVE  m.src = RankOf[m.from] /\ UpRight(m)' /\ DownRight(m)'
    BY DEF MessagesRight
  <2>1. CASE m \in net \ taken
    <3>1. /\ m.src = RankOf[m.from] /\ UpRight(m) /\ DownRight(m)
          /\ m.from \in Block /\ m.from # b
      BY <1>5, <2>1, MessageWay DEF IInv, MessagesRight
    <3>2. Value(m)' = Value(m)
      BY <1>3, <1>7, <3>1 DEF TypeOK, Value
    <3>3. DownRight(m)'
      <4> SUFFICES ASSUME m.way = "down"
                   PROVE  DownRight(m)'
        BY DEF DownRight
      <4>1. m.from > 1 /\ m.from - 1 \in Block
        BY <3>1, CommunicationAssumption DEF DownRight, Block
      <4>2. m.from - 1 # b
        <5>1. SUFFICES ASSUME m.from - 1 = b PROVE FALSE
          OBVIOUS
        <5>2. b < P /\ m.from = b + 1
          <6>1. m.from \in 1 .. P /\ b \in 1 .. P /\ P \in Nat
            BY <3>1, CommunicationAssumption DEF Block
          <6>2. QED
            BY <5>1, <6>1
        <5>3. QED
          BY <1>2, <2>1, <5>2
      <4>3. solved'[m.from] = solved[m.from]
              /\ solved'[m.from - 1] = solved[m.from - 1]
        BY <1>3, <1>6, <3>1, <4>1, <4>2 DEF TypeOK
      <4>4. QED
        BY <3>1, <3>2, <4>3 DEF DownRight
    <3>4. UpRight(m)'
      BY <1>6, <3>1, <3>2 DEF UpRight
    <3>5. QED
      BY <3>1, <3>3, <3>4
  <2>2. CASE b > 1 /\ Fresh(m, b, b - 1, "down", i, v)
    <3>1. b - 1 \in Block /\ b - 1 # b
      BY <2>2, CommunicationAssumption DEF Block
    <3>2. Value(m)' = Solved(i, b)
      BY <1>3, <1>4, <1>7, <2>2 DEF TypeOK, Value, Fresh
    <3>3. solved[b - 1] = solved[b]
      <4>1. /\ eliminated[b] \in Nat /\ eliminated[b - 1] \in Nat
            /\ solved[b] \in Nat /\ solved[b - 1] \in Nat
            /\ eliminated[b] <= eliminated[b - 1] /\ solved[b - 1] <= solved[b]
            /\ eliminated[b - 1] <= solved[b - 1] + 1
        BY <1>3, <2>2, NextBlocks
      <4>2. QED
        BY <1>1, <4>1
    <3>4. solved'[b] = i /\ solved'[b - 1] + 1 = i
      BY <1>3, <1>6, <3>1, <3>3 DEF TypeOK
    <3>5. QED
      BY <2>2, <3>2, <3>4 DEF Fresh, UpRight, DownRight
  <2>3. QED
    BY <1>7, <2>1, <2>2
<1>12. SolutionsRight'
  <2> SUFFICES ASSUME NEW c \in Block, NEW j \in 1 .. solved'[c]
               PROVE  solution'[c][j] = Solved(j, c)
    BY DEF SolutionsRight
  <2>1. solved[c] \in 0 .. MaxSolve /\ solved[b] \in 0 .. MaxSolve
    BY <1>3 DEF TypeOK
  <2>2. CASE c = b /\ j = i
    BY <1>3, <1>4, <1>6, <2>2 DEF TypeOK
  <2>3. CASE ~ (c = b /\ j = i)
    <3>1. j \in 1 .. solved[c]
      <4>1. solved' = [solved EXCEPT ![b] = i] /\ solved \in [Block -> 0 .. MaxSolve]
        BY <1>3, <1>6 DEF TypeOK
      <4>2. CASE c = b
        <5>1. j \in 1 .. i /\ j # i /\ i = solved[b] + 1 BY <1>3, <1>6, <2>3, <4>1, <4>2
        <5>2. QED BY <2>1, <4>2, <5>1
      <4>3. CASE c # b BY <4>1, <4>3
      <4>4. QED BY <4>2, <4>3
    <3>2. solution'[c][j] = solution[c][j]
      BY <1>3, <1>6, <2>3, <3>1 DEF TypeOK
    <3>3. QED
      BY <3>1, <3>2 DEF IInv, SolutionsRight
  <2>4. QED
    BY <2>2, <2>3
<1>13. OneMessage'
  <2> SUFFICES ASSUME NEW m \in net', NEW o \in net', m.src = o.src, m.dst = o.dst
               PROVE  m = o
    BY DEF OneMessage
  <2>1. \A x \in net' : x.src = RankOf[b] => x \notin net
    BY <1>5, SourceBlock
  <2>2. \A x \in net' : x \notin net => x.src = RankOf[b]
    BY <1>7 DEF Fresh
  <2>3. QED
    BY <1>7, <2>1, <2>2 DEF IInv, OneMessage
<1>14. QED
  BY <1>8, <1>9, <1>10, <1>11, <1>12, <1>13 DEF IInv

-----------------------------------------------------------------------------
(* The strengthened invariant: the counters of the stack are ordered, every *)
(* message in MPI is the next one its receiver needs, and all is right.     *)
THEOREM SweepInvariant == OneBlockPerRank => (Spec => []IInv)
<1> SUFFICES ASSUME OneBlockPerRank
             PROVE  Spec => []IInv
  OBVIOUS
<1>1. Init => IInv
  <2> SUFFICES ASSUME Init
               PROVE  IInv
    OBVIOUS
  <2>1. TypeOK
    BY InitType
  <2>2. SweepOrder /\ CoefficientsRight /\ SolutionsRight
    BY DEF Init, SweepOrder, CoefficientsRight, SolutionsRight
  <2>3. MessagesRight /\ OneMessage
    BY DEF Init, MessagesRight, OneMessage
  <2>4. QED
    BY <2>1, <2>2, <2>3 DEF IInv
<1>2. IInv /\ [Next]_vars => IInv'
  <2> SUFFICES ASSUME IInv, [Next]_vars
               PROVE  IInv'
    OBVIOUS
  <2>1. CASE UNCHANGED vars
    BY <2>1 DEF vars, IInv, TypeOK, SweepOrder, CoefficientsRight, MessagesRight,
                UpRight, DownRight, Value, SolutionsRight, OneMessage
  <2>2. CASE Stopped
    BY <2>1, <2>2 DEF Stopped
  <2>3. QED
    BY <2>1, <2>2, ForwardInvariant, BackwardInvariant DEF Next
<1>3. QED
  BY <1>1, <1>2, PTL DEF Spec

(* Sharing one buffer between both ways and hashing the tags do no harm:    *)
(* every solution is that of a serial solver.                               *)
THEOREM SweepRight == OneBlockPerRank => (Spec => []SolutionsRight)
<1>1. IInv => SolutionsRight
  BY DEF IInv
<1>2. QED
  BY <1>1, SweepInvariant, PTL

(* MPI never holds two messages between the same two ranks, so that no      *)
(* receive depends on the tags.                                             *)
THEOREM SweepOneMessage == OneBlockPerRank => (Spec => []OneMessage)
<1>1. IInv => OneMessage
  BY DEF IInv
<1>2. QED
  BY <1>1, SweepInvariant, PTL

(* A step of a block leaves the buffers of the others alone.                *)
LEMMA OwnBufferOnly ==
  ASSUME IInv, OneBlockPerRank, NEW b \in Block,
         ForwardSweep(b) \/ BackwardSubstitution(b),
         NEW c \in Block, c # b
  PROVE  buffer'[c] = buffer[c]
<1>1. \A nb \in Block, way \in Way, i \in Solve, value \in Token, taken \in SUBSET net :
        b # nb /\ SendBuffer(b, nb, way, i, value, taken) => buffer'[c] = buffer[c]
  <2> SUFFICES ASSUME NEW nb \in Block, NEW way \in Way, NEW i \in Solve,
                      NEW value \in Token, NEW taken \in SUBSET net,
                      b # nb, SendBuffer(b, nb, way, i, value, taken)
               PROVE  buffer'[c] = buffer[c]
    OBVIOUS
  <2>1. buffer' = [buffer EXCEPT ![b][ColumnOf(i)] = value]
    BY SendEffect
  <2>2. QED
    BY <2>1 DEF IInv, TypeOK
<1>2. \A i, received, taken : NoSend(b, i, received, taken) => buffer'[c] = buffer[c]
  BY DEF NoSend, IInv, TypeOK
<1>3. CASE ForwardSweep(b)
  <2> DEFINE i == eliminated[b] + 1
  <2>1. eliminated[b] \in 0 .. MaxSolve /\ eliminated[b] < MaxSolve
    BY <1>3, ForwardReceives DEF IInv, TypeOK
  <2>2. i \in Solve
    BY <2>1, CommunicationAssumption DEF Solve
  <2>3. PICK received \in Token, taken \in SUBSET net : Eliminate(b, i, received, taken)
    BY <1>3, ForwardReceives
  <2>4. CASE b < P
    <3>1. b + 1 \in Block /\ b # b + 1 /\ "up" \in Way
      BY <2>4, CommunicationAssumption DEF Block, Way
    <3>2. PICK value \in Token : SendBuffer(b, b + 1, "up", i, value, taken)
      BY <2>2, <2>3, <2>4 DEF Eliminate, Token
    <3>3. QED
      BY <1>1, <2>2, <3>1, <3>2
  <2>5. CASE ~ b < P
    BY <1>2, <2>3, <2>5 DEF Eliminate
  <2>6. QED
    BY <2>4, <2>5
<1>4. CASE BackwardSubstitution(b)
  <2> DEFINE i == solved[b] + 1
  <2>1. /\ eliminated[b] \in 0 .. MaxSolve /\ solved[b] \in 0 .. MaxSolve
        /\ solved[b] < eliminated[b]
    BY <1>4, BackwardReceives DEF IInv, TypeOK
  <2>2. i \in Solve
    BY <2>1, CommunicationAssumption DEF Solve
  <2>3. PICK received \in Token, taken \in SUBSET net : Substitute(b, i, received, taken)
    BY <1>4, BackwardReceives
  <2>4. CASE b > 1
    <3>1. b - 1 \in Block /\ b # b - 1 /\ "down" \in Way
      BY <2>4, CommunicationAssumption DEF Block, Way
    <3>2. PICK value \in Token : SendBuffer(b, b - 1, "down", i, value, taken)
      BY <2>2, <2>3, <2>4 DEF Substitute, Token
    <3>3. QED
      BY <1>1, <2>2, <3>1, <3>2
  <2>5. CASE ~ b > 1
    BY <1>2, <2>3, <2>5 DEF Substitute
  <2>6. QED
    BY <2>4, <2>5
<1>5. QED
  BY <1>3, <1>4

(* No buffer is rewritten while MPI may still read it, even though a block  *)
(* waits for its sends only at the end of a column.                         *)
THEOREM SweepBufferStable == OneBlockPerRank => (Spec => BufferStable)
<1> SUFFICES ASSUME OneBlockPerRank
             PROVE  Spec => BufferStable
  OBVIOUS
<1> DEFINE Kept ==
      \A m \in net : ~ m.copied /\ m \in net' =>
        buffer'[m.from][ColumnOf(m.solve)] = buffer[m.from][ColumnOf(m.solve)]
<1>1. IInv /\ [Next]_vars => [Kept]_vars
  <2> SUFFICES ASSUME IInv, Next, NEW m \in net
               PROVE  buffer'[m.from][ColumnOf(m.solve)]
                        = buffer[m.from][ColumnOf(m.solve)]
    OBVIOUS
  <2>1. ASSUME NEW b \in Block, ForwardSweep(b) \/ BackwardSubstitution(b)
        PROVE  buffer'[m.from] = buffer[m.from]
    <3>1. m.from # b
      BY <2>1, ForwardReceives, BackwardReceives, NoneLeft
    <3>2. m.from \in Block
      BY MessageWay
    <3>3. QED
      BY <2>1, <3>1, <3>2, OwnBufferOnly
  <2>2. CASE Stopped
    BY <2>2 DEF Stopped, vars
  <2>3. QED
    BY <2>1, <2>2 DEF Next
<1>2. QED
  BY <1>1, SweepInvariant, PTL DEF Spec, BufferStable

-----------------------------------------------------------------------------
(* A step of the stack is a step of the serial solver.                      *)
LEMMA SerialStep ==
  ASSUME IInv, OneBlockPerRank, Next
  PROVE  Serial!Next \/ UNCHANGED <<eliminated, solved, solution>>
<1>1. ASSUME NEW b \in Block, ForwardSweep(b)
      PROVE  Serial!Next
  <2>1. /\ eliminated[b] = solved[b] /\ eliminated[b] < MaxSolve
        /\ b > 1 => eliminated[b - 1] = eliminated[b] + 1
        /\ \E received \in Token, taken \in SUBSET net :
             Eliminate(b, eliminated[b] + 1, received, taken)
    BY <1>1, ForwardReceives
  <2>2. /\ eliminated' = [eliminated EXCEPT ![b] = @ + 1]
        /\ UNCHANGED <<solved, solution>>
    BY <2>1 DEF Eliminate, IInv, TypeOK
  <2>3. CASE b = 1
    <3>1. ASSUME NEW c \in Block
          PROVE  solved[c] = eliminated[b]
      <4>1. /\ solved[b] <= solved[c] /\ eliminated[c] <= eliminated[b]
            /\ solved[c] <= eliminated[c]
            /\ solved[c] \in Nat /\ eliminated[c] \in Nat /\ eliminated[b] \in Nat
        BY <2>3, NextBlocks DEF IInv, SweepOrder, Block
      <4>2. QED
        BY <2>1, <4>1
    <3>2. QED
      BY <2>1, <2>2, <2>3, <3>1 DEF Serial!Next, Serial!Eliminate, Serial!Block, Block
  <2>4. CASE b # 1
    <3>1. b > 1 /\ eliminated[b] \in Nat
      BY <2>4, NextBlocks DEF IInv, Block
    <3>2. eliminated[b - 1] > eliminated[b]
      BY <2>1, <3>1
    <3>3. QED
      BY <2>1, <2>2, <2>4, <3>2 DEF Serial!Next, Serial!Eliminate, Serial!Block, Block
  <2>5. QED
    BY <2>3, <2>4
<1>2. ASSUME NEW b \in Block, BackwardSubstitution(b)
      PROVE  Serial!Next
  <2>1. /\ solved[b] < eliminated[b]
        /\ b < P => solved[b + 1] = solved[b] + 1
    BY <1>2, BackwardReceives
  <2>2. /\ solved' = [solved EXCEPT ![b] = @ + 1]
        /\ solution' = [solution EXCEPT ![b][solved[b] + 1] = Solved(solved[b] + 1, b)]
        /\ UNCHANGED eliminated
    <3>1. PICK received \in Token, taken \in SUBSET net :
            /\ Substitute(b, solved[b] + 1, received, taken)
            /\ b < P => received = Solved(solved[b] + 1, b + 1)
      BY <1>2, BackwardReceives
    <3>2. solved[b] + 1 = eliminated[b]
      BY <2>1, NextBlocks DEF IInv
    <3>3. coefficient[b][ColumnOf(solved[b] + 1)] = Eliminated(solved[b] + 1, b)
      BY <2>1, <3>2 DEF IInv, CoefficientsRight
    <3>4. b = P \/ received = Solved(solved[b] + 1, b + 1)
      BY <3>1, CommunicationAssumption DEF Block
    <3>5. QED
      BY <3>1, <3>3, <3>4 DEF Substitute
  <2>3. CASE b = P
    <3>1. ASSUME NEW c \in Block
          PROVE  eliminated[c] = eliminated[b]
      <4>1. c <= b
        BY <2>3, CommunicationAssumption DEF Block
      <4>2. /\ solved[c] <= solved[b] /\ eliminated[b] <= eliminated[c]
            /\ eliminated[c] <= solved[c] + 1
            /\ solved[b] \in Nat /\ solved[c] \in Nat
            /\ eliminated[c] \in Nat /\ eliminated[b] \in Nat
        BY <4>1, NextBlocks DEF IInv, SweepOrder
      <4>3. QED
        BY <2>1, <4>2
    <3>2. QED
      BY <2>1, <2>2, <2>3, <3>1
      DEF Serial!Next, Serial!Substitute, Serial!Block, Block, Solved
  <2>4. CASE b # P
    <3>1. b < P /\ solved[b] \in Nat
      BY <2>4, NextBlocks, CommunicationAssumption DEF IInv, Block
    <3>2. solved[b + 1] > solved[b]
      BY <2>1, <3>1
    <3>3. QED
      BY <2>1, <2>2, <2>4, <3>2
      DEF Serial!Next, Serial!Substitute, Serial!Block, Block, Solved
  <2>5. QED
    BY <2>3, <2>4
<1>3. QED
  BY <1>1, <1>2 DEF Next, Stopped, vars

(* Refinement: with a block per rank the distributed sweep is the serial    *)
(* algorithm; no two blocks ever work at the same time.                     *)
THEOREM SweepIsSerial == OneBlockPerRank => (Spec => ImplementsSerial)
<1> SUFFICES ASSUME OneBlockPerRank
             PROVE  Spec => ImplementsSerial
  OBVIOUS
<1>1. Init => Serial!Init
  BY DEF Init, Serial!Init, Block, Solve, Serial!Block, Serial!Solve, None
<1>2. IInv /\ [Next]_vars => [Serial!Next]_(Serial!vars)
  BY SerialStep DEF vars, Serial!vars
<1>3. QED
  BY <1>1, <1>2, SweepInvariant, PTL DEF Spec, ImplementsSerial, Serial!Spec

-----------------------------------------------------------------------------
(* Numbers modulo q.                                                        *)
Residue == 0 .. q - 1

(* What the constants are, once more.                                       *)
LEMMA Sizes ==
  /\ q \in Nat /\ q > 2 /\ N \in Nat /\ N >= 2 /\ P \in Nat /\ P >= 2
  /\ \A i \in Solve : System[i] \in SystemType
BY SystemAssumption, CommunicationAssumption DEF SystemType

(* A number is its remainder and a multiple of q.                           *)
LEMMA Quotient ==
  ASSUME NEW x \in Int
  PROVE  x % q \in Residue /\ \E k \in Int : x = q * k + (x % q)
<1>1. x \div q \in Int /\ x % q \in Residue /\ x = q * (x \div q) + (x % q)
  BY Sizes DEF Residue
<1>2. QED BY <1>1

(* The remainder that % computes is the only one.                           *)
LEMMA Remainder ==
  ASSUME NEW k \in Int, NEW r \in Residue
  PROVE  (q * k + r) % q = r
BY Sizes DEF Residue

(* A residue is its own remainder.                                          *)
LEMMA Small ==
  ASSUME NEW x \in Residue
  PROVE  x % q = x
BY Sizes DEF Residue

(* Numbers that differ by a multiple of q have the same remainder.          *)
LEMMA Congruent ==
  ASSUME NEW x \in Int, NEW y \in Int, NEW k \in Int, x = y + q * k
  PROVE  x % q = y % q
<1>1. PICK m \in Int : y = q * m + (y % q) BY Quotient
<1>2. y % q \in Residue /\ y % q \in Int BY Quotient, Sizes DEF Residue
<1>3. x = q * (m + k) + (y % q)
  <2>1. q \in Int BY Sizes
  <2>2. QED BY <1>1, <1>2, <2>1
<1>4. m + k \in Int OBVIOUS
<1>5. QED BY <1>2, <1>3, <1>4, Remainder

(* Remainders may be taken before a sum or a sum of products.              *)
LEMMA SumOfRemainders ==
  ASSUME NEW x \in Int, NEW y \in Int
  PROVE  ((x % q) + (y % q)) % q = (x + y) % q
<1>1. PICK k \in Int : x = q * k + (x % q) BY Quotient
<1>2. PICK m \in Int : y = q * m + (y % q) BY Quotient
<1> DEFINE u == x % q
           v == y % q
<1>3. u \in Int /\ v \in Int /\ q \in Int /\ x = q * k + u /\ y = q * m + v
  BY <1>1, <1>2, Quotient, Sizes DEF Residue
<1> HIDE DEF u, v
<1>4. x + y = (u + v) + q * (k + m) BY <1>3
<1>5. k + m \in Int /\ u + v \in Int /\ x + y \in Int BY <1>3
<1>6. QED BY <1>4, <1>5, Congruent DEF u, v

(* Taking the remainder of the factors first changes nothing.               *)
LEMMA ProductOfRemainders ==
  ASSUME NEW x \in Int, NEW y \in Int, NEW c \in Int, NEW d \in Int
  PROVE  /\ ((x % q) * c + (y % q) * d) % q = (x * c + y * d) % q
         /\ (c * (x % q) + d * (y % q)) % q = (c * x + d * y) % q
<1>1. PICK k \in Int : x = q * k + (x % q) BY Quotient
<1>2. PICK m \in Int : y = q * m + (y % q) BY Quotient
<1> DEFINE u == x % q
           v == y % q
<1>3. u \in Int /\ v \in Int /\ q \in Int /\ x = q * k + u /\ y = q * m + v
  BY <1>1, <1>2, Quotient, Sizes DEF Residue
<1> HIDE DEF u, v
<1>4. /\ x * c + y * d = (u * c + v * d) + q * (k * c + m * d)
      /\ c * x + d * y = x * c + y * d /\ c * u + d * v = u * c + v * d
  BY <1>3
<1>5. (x * c + y * d) % q = (u * c + v * d) % q
  <2>1. k * c + m * d \in Int /\ u * c + v * d \in Int /\ x * c + y * d \in Int BY <1>3
  <2>2. QED BY <1>4, <2>1, Congruent
<1>6. QED BY <1>4, <1>5 DEF u, v

-----------------------------------------------------------------------------
(* Matrices.                                                                *)
One == <<<<1, 0>>, <<0, 1>>>>

(* The entries of a matrix are residues.                                    *)
LEMMA Entries ==
  ASSUME NEW A \in Matrix
  PROVE  \A r, s \in 1 .. 2 : A[r][s] \in Residue /\ A[r][s] \in Int
BY Sizes DEF Matrix, Residue

(* Matrices with equal entries are equal.                                   *)
LEMMA SameEntries ==
  ASSUME NEW A \in Matrix, NEW B \in Matrix, \A r, s \in 1 .. 2 : A[r][s] = B[r][s]
  PROVE  A = B
<1>1. \A r \in 1 .. 2 : A[r] = B[r]
  <2> SUFFICES ASSUME NEW r \in 1 .. 2 PROVE A[r] = B[r] OBVIOUS
  <2>1. A[r] \in [1 .. 2 -> 0 .. q - 1] /\ B[r] \in [1 .. 2 -> 0 .. q - 1] BY DEF Matrix
  <2>2. QED BY <2>1
<1>2. QED BY <1>1 DEF Matrix

(* Sum, difference and product of matrices are matrices, entry by entry.    *)
LEMMA SumEntries ==
  ASSUME NEW A \in Matrix, NEW B \in Matrix
  PROVE  /\ A ++ B \in Matrix
         /\ \A r, s \in 1 .. 2 : (A ++ B)[r][s] = (A[r][s] + B[r][s]) % q
         /\ A -- B \in Matrix
         /\ \A r, s \in 1 .. 2 : (A -- B)[r][s] = (A[r][s] - B[r][s]) % q
         /\ A ** B \in Matrix
         /\ \A r, s \in 1 .. 2 :
              (A ** B)[r][s] = (A[r][1] * B[1][s] + A[r][2] * B[2][s]) % q
<1>1. \A r, s \in 1 .. 2 :
        /\ (A[r][s] + B[r][s]) % q \in 0 .. q - 1
        /\ (A[r][s] - B[r][s]) % q \in 0 .. q - 1
        /\ (A[r][1] * B[1][s] + A[r][2] * B[2][s]) % q \in 0 .. q - 1
  <2> SUFFICES ASSUME NEW r \in 1 .. 2, NEW s \in 1 .. 2
               PROVE  /\ (A[r][s] + B[r][s]) % q \in 0 .. q - 1
                      /\ (A[r][s] - B[r][s]) % q \in 0 .. q - 1
                      /\ (A[r][1] * B[1][s] + A[r][2] * B[2][s]) % q \in 0 .. q - 1
    OBVIOUS
  <2>1. /\ A[r][s] + B[r][s] \in Int
        /\ A[r][s] - B[r][s] \in Int
        /\ A[r][1] * B[1][s] + A[r][2] * B[2][s] \in Int
    BY Entries
  <2>2. QED BY <2>1, Quotient DEF Residue
<1>2. QED BY <1>1 DEF ++, --, **, Matrix

(* The zero matrix.                                                         *)
LEMMA ZeroTyped == Zero \in Matrix /\ \A r, s \in 1 .. 2 : Zero[r][s] = 0
BY Sizes DEF Zero, Matrix

(* The unit matrix.                                                         *)
LEMMA OneTyped ==
  /\ One \in Matrix /\ One[1][1] = 1 /\ One[1][2] = 0 /\ One[2][1] = 0 /\ One[2][2] = 1
BY Sizes DEF One, Matrix

(* What a wall does is a matrix.                                            *)
LEMMA BndTyped == Bnd \in Matrix
BY Sizes DEF Bnd, Matrix


(* Products of matrices can be regrouped; they do not commute.              *)
LEMMA Associative ==
  ASSUME NEW A \in Matrix, NEW B \in Matrix, NEW C \in Matrix
  PROVE  (A ** B) ** C = A ** (B ** C)
<1>1. A ** B \in Matrix /\ B ** C \in Matrix BY SumEntries
<1>2. (A ** B) ** C \in Matrix /\ A ** (B ** C) \in Matrix BY <1>1, SumEntries
<1>3. ASSUME NEW r \in 1 .. 2, NEW s \in 1 .. 2
      PROVE  ((A ** B) ** C)[r][s] = (A ** (B ** C))[r][s]
  <2> DEFINE a1 == A[r][1]
             a2 == A[r][2]
             b11 == B[1][1]
             b12 == B[1][2]
             b21 == B[2][1]
             b22 == B[2][2]
             c1 == C[1][s]
             c2 == C[2][s]
  <2>1. /\ a1 \in Int /\ a2 \in Int /\ b11 \in Int /\ b12 \in Int /\ b21 \in Int
        /\ b22 \in Int /\ c1 \in Int /\ c2 \in Int
    BY Entries
  <2>2. ((A ** B) ** C)[r][s]
          = (((a1 * b11 + a2 * b21) % q) * c1 + ((a1 * b12 + a2 * b22) % q) * c2) % q
    BY <1>1, SumEntries
  <2>3. (A ** (B ** C))[r][s]
          = (a1 * ((b11 * c1 + b12 * c2) % q) + a2 * ((b21 * c1 + b22 * c2) % q)) % q
    BY <1>1, SumEntries
  <2> HIDE DEF a1, a2, b11, b12, b21, b22, c1, c2
  <2>4. /\ a1 * b11 + a2 * b21 \in Int /\ a1 * b12 + a2 * b22 \in Int
        /\ b11 * c1 + b12 * c2 \in Int /\ b21 * c1 + b22 * c2 \in Int
    BY <2>1
  <2>5. ((A ** B) ** C)[r][s]
          = ((a1 * b11 + a2 * b21) * c1 + (a1 * b12 + a2 * b22) * c2) % q
    BY <2>1, <2>2, <2>4, ProductOfRemainders
  <2>6. (A ** (B ** C))[r][s]
          = (a1 * (b11 * c1 + b12 * c2) + a2 * (b21 * c1 + b22 * c2)) % q
    BY <2>1, <2>3, <2>4, ProductOfRemainders
  <2>7. (a1 * b11 + a2 * b21) * c1 + (a1 * b12 + a2 * b22) * c2
          = a1 * (b11 * c1 + b12 * c2) + a2 * (b21 * c1 + b22 * c2)
    BY <2>1
  <2>8. QED BY <2>5, <2>6, <2>7
<1>4. QED BY <1>2, <1>3, SameEntries

(* A product distributes over a sum on the right.                           *)
LEMMA TimesSum ==
  ASSUME NEW A \in Matrix, NEW B \in Matrix, NEW C \in Matrix
  PROVE  A ** (B ++ C) = (A ** B) ++ (A ** C)
<1>1. A ** B \in Matrix /\ A ** C \in Matrix /\ B ++ C \in Matrix BY SumEntries
<1>2. A ** (B ++ C) \in Matrix /\ (A ** B) ++ (A ** C) \in Matrix BY <1>1, SumEntries
<1>3. ASSUME NEW r \in 1 .. 2, NEW s \in 1 .. 2
      PROVE  (A ** (B ++ C))[r][s] = ((A ** B) ++ (A ** C))[r][s]
  <2> DEFINE a1 == A[r][1]
             a2 == A[r][2]
             b1 == B[1][s]
             b2 == B[2][s]
             c1 == C[1][s]
             c2 == C[2][s]
             u == b1 + c1
             v == b2 + c2
  <2>1. /\ a1 \in Int /\ a2 \in Int /\ b1 \in Int /\ b2 \in Int /\ c1 \in Int /\ c2 \in Int
        /\ u \in Int /\ v \in Int
    BY Entries
  <2>2. (A ** (B ++ C))[r][s] = (a1 * (u % q) + a2 * (v % q)) % q
    BY <1>1, SumEntries
  <2>3. ((A ** B) ++ (A ** C))[r][s]
          = (((a1 * b1 + a2 * b2) % q) + ((a1 * c1 + a2 * c2) % q)) % q
    BY <1>1, SumEntries
  <2> HIDE DEF a1, a2, b1, b2, c1, c2
  <2>4. a1 * b1 + a2 * b2 \in Int /\ a1 * c1 + a2 * c2 \in Int BY <2>1
  <2>5. (A ** (B ++ C))[r][s] = (a1 * u + a2 * v) % q
    <3> HIDE DEF u, v
    <3>1. (a1 * (u % q) + a2 * (v % q)) % q = (a1 * u + a2 * v) % q
      BY <2>1, ProductOfRemainders
    <3>2. QED BY <2>2, <3>1
  <2>6. ((A ** B) ++ (A ** C))[r][s] = ((a1 * b1 + a2 * b2) + (a1 * c1 + a2 * c2)) % q
    BY <2>3, <2>4, SumOfRemainders
  <2>7. a1 * u + a2 * v = (a1 * b1 + a2 * b2) + (a1 * c1 + a2 * c2)
    BY <2>1
  <2>8. QED BY <2>5, <2>6, <2>7
<1>4. QED BY <1>2, <1>3, SameEntries

(* A product distributes over a sum on the left.                            *)
LEMMA SumTimes ==
  ASSUME NEW A \in Matrix, NEW B \in Matrix, NEW C \in Matrix
  PROVE  (A ++ B) ** C = (A ** C) ++ (B ** C)
<1>1. A ** C \in Matrix /\ B ** C \in Matrix /\ A ++ B \in Matrix BY SumEntries
<1>2. (A ++ B) ** C \in Matrix /\ (A ** C) ++ (B ** C) \in Matrix BY <1>1, SumEntries
<1>3. ASSUME NEW r \in 1 .. 2, NEW s \in 1 .. 2
      PROVE  ((A ++ B) ** C)[r][s] = ((A ** C) ++ (B ** C))[r][s]
  <2> DEFINE a1 == A[r][1]
             a2 == A[r][2]
             b1 == B[r][1]
             b2 == B[r][2]
             c1 == C[1][s]
             c2 == C[2][s]
             u == a1 + b1
             v == a2 + b2
  <2>1. /\ a1 \in Int /\ a2 \in Int /\ b1 \in Int /\ b2 \in Int /\ c1 \in Int /\ c2 \in Int
        /\ u \in Int /\ v \in Int
    BY Entries
  <2>2. ((A ++ B) ** C)[r][s] = ((u % q) * c1 + (v % q) * c2) % q
    BY <1>1, SumEntries
  <2>3. ((A ** C) ++ (B ** C))[r][s]
          = (((a1 * c1 + a2 * c2) % q) + ((b1 * c1 + b2 * c2) % q)) % q
    BY <1>1, SumEntries
  <2> HIDE DEF a1, a2, b1, b2, c1, c2
  <2>4. a1 * c1 + a2 * c2 \in Int /\ b1 * c1 + b2 * c2 \in Int BY <2>1
  <2>5. ((A ++ B) ** C)[r][s] = (u * c1 + v * c2) % q
    <3> HIDE DEF u, v
    <3>1. ((u % q) * c1 + (v % q) * c2) % q = (u * c1 + v * c2) % q
      BY <2>1, ProductOfRemainders
    <3>2. QED BY <2>2, <3>1
  <2>6. ((A ** C) ++ (B ** C))[r][s] = ((a1 * c1 + a2 * c2) + (b1 * c1 + b2 * c2)) % q
    BY <2>3, <2>4, SumOfRemainders
  <2>7. u * c1 + v * c2 = (a1 * c1 + a2 * c2) + (b1 * c1 + b2 * c2)
    BY <2>1
  <2>8. QED BY <2>5, <2>6, <2>7
<1>4. QED BY <1>2, <1>3, SameEntries

(* Addition: the order of the terms does not matter, a difference and what  *)
(* was taken off give what there was.                                       *)
LEMMA Commute ==
  ASSUME NEW A \in Matrix, NEW B \in Matrix
  PROVE  A ++ B = B ++ A
<1>1. ASSUME NEW r \in 1 .. 2, NEW s \in 1 .. 2 PROVE (A ++ B)[r][s] = (B ++ A)[r][s]
  <2>1. A[r][s] + B[r][s] = B[r][s] + A[r][s] BY Entries
  <2>2. QED BY <2>1, SumEntries
<1>2. QED BY <1>1, SumEntries, SameEntries

(* Sums can be regrouped.                                                   *)
LEMMA Regroup ==
  ASSUME NEW A \in Matrix, NEW B \in Matrix, NEW C \in Matrix
  PROVE  (A ++ B) ++ C = A ++ (B ++ C)
<1>1. A ++ B \in Matrix /\ B ++ C \in Matrix BY SumEntries
<1>2. (A ++ B) ++ C \in Matrix /\ A ++ (B ++ C) \in Matrix BY <1>1, SumEntries
<1>3. ASSUME NEW r \in 1 .. 2, NEW s \in 1 .. 2
      PROVE  ((A ++ B) ++ C)[r][s] = (A ++ (B ++ C))[r][s]
  <2> DEFINE a == A[r][s]
             b == B[r][s]
             c == C[r][s]
  <2>1. a \in Int /\ b \in Int /\ c \in Int /\ a = a % q /\ c = c % q BY Entries, Small
  <2>2. ((A ++ B) ++ C)[r][s] = (((a + b) % q) + c) % q BY <1>1, SumEntries
  <2>3. (A ++ (B ++ C))[r][s] = (a + ((b + c) % q)) % q BY <1>1, SumEntries
  <2> HIDE DEF a, b, c
  <2>4. a + b \in Int /\ b + c \in Int BY <2>1
  <2>5. (((a + b) % q) + (c % q)) % q = ((a + b) + c) % q BY <2>1, <2>4, SumOfRemainders
  <2>6. ((a % q) + ((b + c) % q)) % q = (a + (b + c)) % q BY <2>1, <2>4, SumOfRemainders
  <2>7. (a + b) + c = a + (b + c) BY <2>1
  <2>8. QED BY <2>1, <2>2, <2>3, <2>5, <2>6, <2>7
<1>4. QED BY <1>2, <1>3, SameEntries

(* What is taken away and put back.                                         *)
LEMMA Taken ==
  ASSUME NEW A \in Matrix, NEW B \in Matrix
  PROVE  (A -- B) ++ B = A
<1>1. A -- B \in Matrix BY SumEntries
<1>2. (A -- B) ++ B \in Matrix BY <1>1, SumEntries
<1>3. ASSUME NEW r \in 1 .. 2, NEW s \in 1 .. 2 PROVE ((A -- B) ++ B)[r][s] = A[r][s]
  <2> DEFINE a == A[r][s]
             b == B[r][s]
  <2>1. a \in Int /\ b \in Int /\ a = a % q /\ b = b % q BY Entries, Small
  <2>2. ((A -- B) ++ B)[r][s] = (((a - b) % q) + b) % q BY <1>1, SumEntries
  <2> HIDE DEF a, b
  <2>3. a - b \in Int /\ (a - b) + b = a BY <2>1
  <2>4. (((a - b) % q) + (b % q)) % q = ((a - b) + b) % q BY <2>1, <2>3, SumOfRemainders
  <2>5. ((A -- B) ++ B)[r][s] = a BY <2>1, <2>2, <2>3, <2>4
  <2>6. QED BY <2>5 DEF a
<1>4. QED BY <1>2, <1>3, SameEntries

(* The zero matrix adds nothing.                                            *)
LEMMA ZeroPlus ==
  ASSUME NEW A \in Matrix
  PROVE  Zero ++ A = A
<1>1. ASSUME NEW r \in 1 .. 2, NEW s \in 1 .. 2 PROVE (Zero ++ A)[r][s] = A[r][s]
  <2>1. (Zero ++ A)[r][s] = (0 + A[r][s]) % q BY ZeroTyped, SumEntries
  <2>2. 0 + A[r][s] = A[r][s] BY Entries
  <2>3. QED BY <2>1, <2>2, Entries, Small
<1>2. QED BY <1>1, ZeroTyped, SumEntries, SameEntries

(* The zero matrix cancels what it multiplies.                              *)
LEMMA ZeroTimes ==
  ASSUME NEW A \in Matrix
  PROVE  Zero ** A = Zero
<1>1. Zero ** A \in Matrix BY ZeroTyped, SumEntries
<1>2. ASSUME NEW r \in 1 .. 2, NEW s \in 1 .. 2 PROVE (Zero ** A)[r][s] = Zero[r][s]
  <2>1. (Zero ** A)[r][s] = (0 * A[1][s] + 0 * A[2][s]) % q BY ZeroTyped, SumEntries
  <2>2. 0 * A[1][s] + 0 * A[2][s] = 0 BY Entries
  <2>3. 0 \in Residue BY Sizes DEF Residue
  <2>4. QED BY <2>1, <2>2, <2>3, Small, ZeroTyped
<1>3. QED BY <1>1, <1>2, ZeroTyped, SameEntries

(* The unit matrix changes nothing.                                         *)
LEMMA OneTimes ==
  ASSUME NEW A \in Matrix
  PROVE  One ** A = A
<1>1. One ** A \in Matrix BY OneTyped, SumEntries
<1>2. ASSUME NEW r \in 1 .. 2, NEW s \in 1 .. 2 PROVE (One ** A)[r][s] = A[r][s]
  <2>1. (One ** A)[r][s] = (One[r][1] * A[1][s] + One[r][2] * A[2][s]) % q
    BY OneTyped, SumEntries
  <2>2. One[r][1] * A[1][s] + One[r][2] * A[2][s] = A[r][s]
    <3>1. A[1][s] \in Int /\ A[2][s] \in Int BY Entries
    <3>2. CASE r = 1 BY <3>1, <3>2, OneTyped
    <3>3. CASE r = 2 BY <3>1, <3>3, OneTyped
    <3>4. QED BY <3>2, <3>3
  <2>3. QED BY <2>1, <2>2, Entries, Small
<1>3. QED BY <1>1, <1>2, SameEntries

(* The inverse of a regular matrix is one, on the right.                    *)
LEMMA InvertedTyped ==
  ASSUME NEW A \in Matrix
  PROVE  /\ Determinant(A) \in Residue /\ Reciprocal[Determinant(A)] \in Residue
         /\ Inverted(A) \in Matrix
<1>1. A[1][1] * A[2][2] - A[1][2] * A[2][1] \in Int BY Entries
<1>2. Determinant(A) \in Residue BY <1>1, Quotient DEF Determinant
<1>3. \A x \in Residue : Reciprocal[x] \in Residue
  <2> SUFFICES ASSUME NEW x \in Residue PROVE Reciprocal[x] \in Residue OBVIOUS
  <2>1. 0 \in Residue /\ 1 .. q - 1 \subseteq Residue BY Sizes DEF Residue
  <2>2. Reciprocal[x] = IF \E y \in 1 .. q - 1 : (x * y) % q = 1
                        THEN CHOOSE y \in 1 .. q - 1 : (x * y) % q = 1 ELSE 0
    BY DEF Reciprocal, Residue
  <2>3. CASE \E y \in 1 .. q - 1 : (x * y) % q = 1
    <3>1. Reciprocal[x] \in 1 .. q - 1 BY <2>2, <2>3
    <3>2. QED BY <2>1, <3>1
  <2>4. CASE ~ \E y \in 1 .. q - 1 : (x * y) % q = 1 BY <2>1, <2>2, <2>4
  <2>5. QED BY <2>3, <2>4
<1> DEFINE d == Reciprocal[Determinant(A)]
<1>4. d \in Residue /\ d \in Int BY <1>2, <1>3, Sizes DEF Residue
<1> HIDE DEF d
<1>5. /\ d * A[2][2] \in Int /\ d * (- A[1][2]) \in Int
      /\ d * (- A[2][1]) \in Int /\ d * A[1][1] \in Int
  BY <1>4, Entries
<1>6. /\ (d * A[2][2]) % q \in 0 .. q - 1 /\ (d * (- A[1][2])) % q \in 0 .. q - 1
      /\ (d * (- A[2][1])) % q \in 0 .. q - 1 /\ (d * A[1][1]) % q \in 0 .. q - 1
  BY <1>5, Quotient DEF Residue
<1>7. Inverted(A) = <<<<(d * A[2][2]) % q, (d * (- A[1][2])) % q>>,
                      <<(d * (- A[2][1])) % q, (d * A[1][1]) % q>>>>
  BY DEF Inverted, d
<1>8. Inverted(A) \in Matrix BY <1>6, <1>7 DEF Matrix
<1>9. QED BY <1>2, <1>4, <1>8 DEF d

(* Inverted computes an inverse when the determinant has a reciprocal: here *)
(* q need not be a prime.                                                   *)
LEMMA RightInverse ==
  ASSUME NEW A \in Matrix, Regular(A)
  PROVE  A ** Inverted(A) = One
<1> DEFINE x == Determinant(A)
           d == Reciprocal[x]
           a == A[1][1]
           b == A[1][2]
           c == A[2][1]
           e == A[2][2]
           V == Inverted(A)
<1>1. V \in Matrix /\ x \in Residue /\ d \in Residue BY InvertedTyped
<1>2. d # 0 /\ (x * d) % q = 1
  <2>1. d # 0 BY DEF Regular
  <2>2. d = IF \E y \in 1 .. q - 1 : (x * y) % q = 1
            THEN CHOOSE y \in 1 .. q - 1 : (x * y) % q = 1 ELSE 0
    BY <1>1 DEF Reciprocal, Residue
  <2> HIDE DEF x, d
  <2>3. \E y \in 1 .. q - 1 : (x * y) % q = 1 BY <2>1, <2>2
  <2>4. d = CHOOSE y \in 1 .. q - 1 : (x * y) % q = 1 BY <2>2, <2>3
  <2>5. QED BY <2>1, <2>3, <2>4
<1>3. a \in Int /\ b \in Int /\ c \in Int /\ e \in Int BY Entries
<1>4. V = <<<<(d * e) % q, (d * (- b)) % q>>, <<(d * (- c)) % q, (d * a) % q>>>>
  BY DEF Inverted
<1>5. /\ V[1][1] = (d * e) % q /\ V[1][2] = (d * (- b)) % q
      /\ V[2][1] = (d * (- c)) % q /\ V[2][2] = (d * a) % q
  <2> HIDE DEF V, a, b, c, e, d
  <2>1. QED BY <1>4
<1>6. x = (a * e - b * c) % q BY DEF Determinant
<1>7. x \in Int /\ d \in Int /\ q \in Int BY <1>1, Sizes DEF Residue
<1>8. ((a * e - b * c) * d) % q = 1
  <2> HIDE DEF x, d, a, b, c, e
  <2> DEFINE f == a * e - b * c
  <2>1. f \in Int BY <1>3
  <2>2. x = f % q BY <1>6
  <2> HIDE DEF f
  <2>3. PICK k \in Int : f = q * k + x BY <2>1, <2>2, Quotient
  <2>4. f * d = x * d + q * (k * d) /\ k * d \in Int /\ x * d \in Int /\ f * d \in Int
    BY <1>7, <2>1, <2>3
  <2>5. (f * d) % q = (x * d) % q BY <2>4, Congruent
  <2>6. QED BY <1>2, <2>5 DEF f
<1>9. A ** V \in Matrix BY <1>1, SumEntries
<1>10. /\ (A ** V)[1][1] = (a * V[1][1] + b * V[2][1]) % q
       /\ (A ** V)[1][2] = (a * V[1][2] + b * V[2][2]) % q
       /\ (A ** V)[2][1] = (c * V[1][1] + e * V[2][1]) % q
       /\ (A ** V)[2][2] = (c * V[1][2] + e * V[2][2]) % q
  BY <1>1, SumEntries
<1> HIDE DEF x, d, a, b, c, e, V
<1>11. /\ d * e \in Int /\ d * (- b) \in Int /\ d * (- c) \in Int /\ d * a \in Int
  BY <1>3, <1>7
<1>12. /\ (A ** V)[1][1] = (a * (d * e) + b * (d * (- c))) % q
       /\ (A ** V)[1][2] = (a * (d * (- b)) + b * (d * a)) % q
       /\ (A ** V)[2][1] = (c * (d * e) + e * (d * (- c))) % q
       /\ (A ** V)[2][2] = (c * (d * (- b)) + e * (d * a)) % q
  <2> DEFINE de == d * e
             db == d * (- b)
             dc == d * (- c)
             da == d * a
  <2>1. /\ V[1][1] = de % q /\ V[1][2] = db % q /\ V[2][1] = dc % q /\ V[2][2] = da % q
        /\ de \in Int /\ db \in Int /\ dc \in Int /\ da \in Int
    BY <1>5, <1>11
  <2> HIDE DEF de, db, dc, da
  <2>2. (a * (de % q) + b * (dc % q)) % q = (a * de + b * dc) % q
    BY <1>3, <2>1, ProductOfRemainders
  <2>3. (a * (db % q) + b * (da % q)) % q = (a * db + b * da) % q
    BY <1>3, <2>1, ProductOfRemainders
  <2>4. (c * (de % q) + e * (dc % q)) % q = (c * de + e * dc) % q
    BY <1>3, <2>1, ProductOfRemainders
  <2>5. (c * (db % q) + e * (da % q)) % q = (c * db + e * da) % q
    BY <1>3, <2>1, ProductOfRemainders
  <2>6. QED BY <1>10, <2>1, <2>2, <2>3, <2>4, <2>5 DEF de, db, dc, da
<1>13. /\ a * (d * e) + b * (d * (- c)) = (a * e - b * c) * d
       /\ a * (d * (- b)) + b * (d * a) = 0
       /\ c * (d * e) + e * (d * (- c)) = 0
       /\ c * (d * (- b)) + e * (d * a) = (a * e - b * c) * d
  BY <1>3, <1>7
<1>14. 0 % q = 0
  <2>1. 0 \in Residue BY Sizes DEF Residue
  <2>2. QED BY <2>1, Small
<1>15. /\ (A ** V)[1][1] = 1 /\ (A ** V)[1][2] = 0
       /\ (A ** V)[2][1] = 0 /\ (A ** V)[2][2] = 1
  BY <1>8, <1>12, <1>13, <1>14
<1>16. ASSUME NEW r \in 1 .. 2, NEW s \in 1 .. 2 PROVE (A ** V)[r][s] = One[r][s]
  <2>1. (r = 1 \/ r = 2) /\ (s = 1 \/ s = 2) OBVIOUS
  <2>2. QED BY <1>15, <2>1, OneTyped
<1>17. A ** V = One BY <1>9, <1>16, OneTyped, SameEntries
<1>18. QED BY <1>17 DEF V

(* What is multiplied by the inverse and then by the matrix is unchanged.   *)
LEMMA RightInverseTimes ==
  ASSUME NEW A \in Matrix, Regular(A), NEW B \in Matrix
  PROVE  A ** (Inverted(A) ** B) = B
BY Associative, RightInverse, OneTimes, InvertedTyped

(* Matrices are closed under the operators.                                 *)
LEMMA Closed ==
  ASSUME NEW A \in Matrix, NEW B \in Matrix
  PROVE  A ++ B \in Matrix /\ A -- B \in Matrix /\ A ** B \in Matrix
BY SumEntries

(* How the terms of an equation come together: px is what is left of ax     *)
(* when w is taken off, and so on.                                          *)
LEMMA Carry ==
  ASSUME NEW x \in Matrix, NEW p \in Matrix, NEW w \in Matrix
  PROVE  x ++ (p ++ w) = p ++ (x ++ w)
<1>1. x ++ (p ++ w) = (x ++ p) ++ w BY Regroup
<1>2. (x ++ p) ++ w = (p ++ x) ++ w BY Commute
<1>3. (p ++ x) ++ w = p ++ (x ++ w) BY Regroup
<1>4. QED BY <1>1, <1>2, <1>3

(* The terms of an equation in the order in which an open system needs      *)
(* them.                                                                    *)
LEMMA OpenSum ==
  ASSUME NEW bx \in Matrix, NEW px \in Matrix, NEW w \in Matrix, NEW cy \in Matrix
  PROVE  (bx ++ (px ++ w)) ++ cy = (px ++ cy) ++ (bx ++ w)
<1>1. bx ++ w \in Matrix BY Closed
<1>2. bx ++ (px ++ w) = px ++ (bx ++ w) BY Carry
<1>3. (px ++ (bx ++ w)) ++ cy = px ++ ((bx ++ w) ++ cy) BY <1>1, Regroup
<1>4. (bx ++ w) ++ cy = cy ++ (bx ++ w) BY <1>1, Commute
<1>5. px ++ (cy ++ (bx ++ w)) = (px ++ cy) ++ (bx ++ w) BY <1>1, Regroup
<1>6. QED BY <1>2, <1>3, <1>4, <1>5

(* The same for an equation inside a periodic system.                       *)
LEMMA LoopSum ==
  ASSUME NEW bx \in Matrix, NEW px \in Matrix, NEW w \in Matrix, NEW lg \in Matrix,
         NEW k \in Matrix
  PROVE  (bx ++ (px ++ w)) ++ (k ++ lg) = (px ++ k) ++ ((bx ++ lg) ++ w)
<1>1. bx ++ w \in Matrix /\ k ++ lg \in Matrix BY Closed
<1>2. (bx ++ (px ++ w)) ++ (k ++ lg) = (px ++ (k ++ lg)) ++ (bx ++ w) BY <1>1, OpenSum
<1>3. (px ++ (k ++ lg)) ++ (bx ++ w) = (px ++ k) ++ (lg ++ (bx ++ w))
  <2>1. px ++ (k ++ lg) = (px ++ k) ++ lg BY Regroup
  <2>2. QED BY <1>1, <2>1, Closed, Regroup
<1>4. lg ++ (bx ++ w) = (bx ++ lg) ++ w
  <2>1. lg ++ (bx ++ w) = bx ++ (lg ++ w) BY Carry
  <2>2. QED BY <2>1, Regroup
<1>5. QED BY <1>2, <1>3, <1>4

(* How the sum of beta times the solutions goes on by a cell.               *)
LEMMA LoopStep ==
  ASSUME NEW cx \in Matrix, NEW g \in Matrix, NEW e \in Matrix, NEW bw \in Matrix,
         NEW u \in Matrix, NEW f \in Matrix, bw ++ e = Zero
  PROVE  ((cx ++ g) ++ e) ++ ((bw ++ u) ++ f) = (cx ++ (g ++ u)) ++ f
<1> DEFINE h == cx ++ g
           k == u ++ f
<1>1. h \in Matrix /\ k \in Matrix BY Closed
<1>2. (bw ++ u) ++ f = bw ++ k BY Regroup
<1>3. (cx ++ (g ++ u)) ++ f = h ++ k
  <2>1. cx ++ (g ++ u) = h ++ u BY Regroup
  <2>2. (h ++ u) ++ f = h ++ k BY <1>1, Regroup
  <2>3. QED BY <2>1, <2>2
<1>4. (h ++ e) ++ (bw ++ k) = h ++ k
  <2> HIDE DEF h, k
  <2>1. (h ++ e) ++ (bw ++ k) = h ++ (e ++ (bw ++ k)) BY <1>1, Closed, Regroup
  <2>2. e ++ (bw ++ k) = (e ++ bw) ++ k BY <1>1, Regroup
  <2>3. e ++ bw = Zero BY Commute
  <2>4. QED BY <1>1, <2>1, <2>2, <2>3, ZeroPlus
<1>5. QED BY <1>2, <1>3, <1>4

(* How it ends at the last cell but one.                                    *)
LEMMA LoopClose ==
  ASSUME NEW cx \in Matrix, NEW g \in Matrix, NEW e \in Matrix, NEW dx \in Matrix,
         NEW u \in Matrix
  PROVE  ((cx ++ g) ++ e) ++ (dx ++ u) = (cx ++ (dx ++ e)) ++ (g ++ u)
<1> DEFINE h == cx ++ g
           bx == dx ++ e
<1>1. h \in Matrix /\ bx \in Matrix /\ bx ++ u \in Matrix /\ g ++ u \in Matrix BY Closed
<1>2. (h ++ e) ++ (dx ++ u) = h ++ (bx ++ u)
  <2>1. (h ++ e) ++ (dx ++ u) = h ++ (e ++ (dx ++ u)) BY <1>1, Closed, Regroup
  <2>2. e ++ (dx ++ u) = (e ++ dx) ++ u BY Regroup
  <2>3. e ++ dx = bx BY Commute
  <2>4. QED BY <2>1, <2>2, <2>3
<1>3. h ++ (bx ++ u) = cx ++ (g ++ (bx ++ u)) BY <1>1, Regroup
<1>4. g ++ (bx ++ u) = bx ++ (g ++ u) BY <1>1, Carry
<1>5. cx ++ (bx ++ (g ++ u)) = (cx ++ bx) ++ (g ++ u) BY <1>1, Regroup
<1>6. QED BY <1>2, <1>3, <1>4, <1>5

(* The terms of the last equation of a periodic system.                     *)
LEMMA LoopEnd ==
  ASSUME NEW bx \in Matrix, NEW cx \in Matrix, NEW pl \in Matrix, NEW gl \in Matrix
  PROVE  (bx ++ (pl ++ gl)) ++ cx = pl ++ ((cx ++ bx) ++ gl)
<1>1. bx ++ gl \in Matrix BY Closed
<1>2. bx ++ (pl ++ gl) = pl ++ (bx ++ gl) BY Carry
<1>3. (pl ++ (bx ++ gl)) ++ cx = pl ++ ((bx ++ gl) ++ cx) BY <1>1, Regroup
<1>4. (bx ++ gl) ++ cx = cx ++ (bx ++ gl) BY <1>1, Commute
<1>5. cx ++ (bx ++ gl) = (cx ++ bx) ++ gl BY Regroup
<1>6. QED BY <1>2, <1>3, <1>4, <1>5

(* A difference under a product.                                            *)
LEMMA TimesDifference ==
  ASSUME NEW A \in Matrix, NEW B \in Matrix, NEW C \in Matrix
  PROVE  (A ** (B -- C)) ++ (A ** C) = A ** B
<1>1. B -- C \in Matrix BY Closed
<1>2. (A ** (B -- C)) ++ (A ** C) = A ** ((B -- C) ++ C) BY <1>1, TimesSum
<1>3. QED BY <1>2, Taken

(* A difference, multiplied, and what was taken away.                       *)
LEMMA DifferenceTimes ==
  ASSUME NEW A \in Matrix, NEW B \in Matrix, NEW C \in Matrix
  PROVE  ((A -- B) ** C) ++ (B ** C) = A ** C
<1>1. A -- B \in Matrix BY Closed
<1>2. ((A -- B) ** C) ++ (B ** C) = ((A -- B) ++ B) ** C BY <1>1, SumTimes
<1>3. QED BY <1>2, Taken

(* Two differences, multiplied, and what was taken away.                    *)
LEMMA TimesDifferences ==
  ASSUME NEW A \in Matrix, NEW B \in Matrix, NEW C \in Matrix, NEW D \in Matrix
  PROVE  ((A ** ((B -- C) -- D)) ++ (A ** D)) ++ (A ** C) = A ** B
BY Closed, TimesDifference

-----------------------------------------------------------------------------

-----------------------------------------------------------------------------
(* A column of cells.                                                       *)
LEMMA ColumnSize == P * N \in Nat /\ P * N >= 4 /\ Row = 1 .. P * N
<1>1. /\ P \in Nat /\ P >= 2 /\ N \in Nat /\ N >= 2 BY Sizes
<1>2. P * N >= 2 * N BY <1>1
<1>3. QED BY <1>1, <1>2 DEF Row

\* An open system and what the two sweeps make of it.
OpenColumn(s, C, X) ==
  /\ s \in SystemType /\ ~ s.periodic
  /\ C \in [Row -> [a : Matrix, delta : Matrix]] /\ X \in [Row -> Matrix]
  /\ \A j \in Row :
       /\ Regular(Pivot(s, j, C[j - 1])) /\ C[j] = ForwardCell(s, j, C[j - 1])
       /\ X[j] = IF j = P * N THEN C[j].delta ELSE C[j].delta -- (C[j].a ** X[j + 1])

(* The coefficients of a cell are matrices.                                 *)
LEMMA SystemTyped ==
  ASSUME NEW s \in SystemType, NEW j \in Row
  PROVE  s.a[j] \in Matrix /\ s.b[j] \in Matrix /\ s.c[j] \in Matrix /\ s.rhs[j] \in Matrix
BY DEF SystemType

(* The equation of a cell between the ends of an open column.               *)
LEMMA OpenInside ==
  ASSUME NEW s, NEW C, NEW X, OpenColumn(s, C, X), NEW j \in 2 .. P * N - 1
  PROVE  (s.b[j] ** X[j - 1]) ++ (s.a[j] ** X[j]) ++ (s.c[j] ** X[j + 1]) = s.rhs[j]
<1> DEFINE a == s.a[j]
           b == s.b[j]
           c == s.c[j]
           r == s.rhs[j]
           Ap == C[j - 1].a
           Dp == C[j - 1].delta
           x == X[j]
           y == X[j + 1]
           p == a -- (b ** Ap)
           v == Inverted(p)
           u == b ** Dp
           w == (b ** Ap) ** x
           t == r -- u
           cy == c ** y
           px == p ** x
           bx == b ** X[j - 1]
<1>1. j \in Row /\ j - 1 \in Row /\ j + 1 \in Row /\ j # 1 /\ j # P * N /\ j - 1 # P * N
  BY ColumnSize
<1>2. /\ a \in Matrix /\ b \in Matrix /\ c \in Matrix /\ r \in Matrix
      /\ Ap \in Matrix /\ Dp \in Matrix /\ x \in Matrix /\ y \in Matrix
  BY <1>1, SystemTyped DEF OpenColumn
<1>3. Pivot(s, j, C[j - 1]) = p BY <1>1 DEF OpenColumn, Pivot, Diag
<1>4. Regular(p) BY <1>1, <1>3 DEF OpenColumn
<1>5. X[j - 1] = Dp -- (Ap ** x) BY <1>1 DEF OpenColumn
<1>6. x = (v ** t) -- ((v ** c) ** y)
  <2>1. C[j].a = v ** c /\ C[j].delta = v ** t
    BY <1>1, <1>3 DEF OpenColumn, ForwardCell
  <2>2. QED BY <1>1, <2>1 DEF OpenColumn
<1> HIDE DEF a, b, c, r, Ap, Dp, x, y
<1>7. /\ b ** Ap \in Matrix /\ u \in Matrix /\ cy \in Matrix /\ Ap ** x \in Matrix
      /\ b ** (Ap ** x) \in Matrix /\ p \in Matrix /\ t \in Matrix /\ w \in Matrix
      /\ px \in Matrix /\ X[j - 1] \in Matrix /\ bx \in Matrix
  BY <1>2, <1>5, Closed
<1>8. v \in Matrix BY <1>7, InvertedTyped
<1>9. v ** t \in Matrix /\ v ** c \in Matrix /\ (v ** c) ** y \in Matrix
  BY <1>2, <1>7, <1>8, Closed
<1>10. bx ++ w = u
  <2>1. bx ++ (b ** (Ap ** x)) = u BY <1>2, <1>5, <1>7, TimesDifference
  <2>2. b ** (Ap ** x) = w BY <1>2, Associative
  <2>3. QED BY <2>1, <2>2
<1>11. t ++ u = r BY <1>2, <1>7, Taken
<1>12. px ++ cy = t
  <2>1. px ++ (p ** ((v ** c) ** y)) = p ** (v ** t) BY <1>6, <1>7, <1>9, TimesDifference
  <2>2. p ** (v ** t) = t BY <1>4, <1>7, RightInverseTimes
  <2>3. (v ** c) ** y = v ** cy BY <1>2, <1>8, Associative
  <2>4. p ** (v ** cy) = cy BY <1>4, <1>7, RightInverseTimes
  <2>5. QED BY <2>1, <2>2, <2>3, <2>4
<1>13. a ** x = px ++ w BY <1>2, <1>7, DifferenceTimes
<1> HIDE DEF p, v, u, w, t, cy, px, bx
<1>14. (bx ++ (px ++ w)) ++ cy = (px ++ cy) ++ (bx ++ w) BY <1>7, OpenSum
<1>15. (bx ++ (a ** x)) ++ cy = r BY <1>10, <1>11, <1>12, <1>13, <1>14
<1>16. QED BY <1>15 DEF a, b, c, r, x, y, cy, bx

\* The first row: a wall is in the diagonal.
LEMMA OpenFirst ==
  ASSUME NEW s, NEW C, NEW X, OpenColumn(s, C, X)
  PROVE  (s.b[1] ** (Bnd ** X[1])) ++ (s.a[1] ** X[1]) ++ (s.c[1] ** X[2]) = s.rhs[1]
<1> DEFINE a == s.a[1]
           b == s.b[1]
           c == s.c[1]
           r == s.rhs[1]
           x == X[1]
           y == X[2]
           p == a ++ (b ** Bnd)
           v == Inverted(p)
           cy == c ** y
           px == p ** x
           bx == b ** (Bnd ** x)
<1>1. 1 \in Row /\ 2 \in Row /\ 1 # P * N /\ 1 + 1 = 2 BY ColumnSize
<1>2. /\ a \in Matrix /\ b \in Matrix /\ c \in Matrix /\ r \in Matrix
      /\ x \in Matrix /\ y \in Matrix
  BY <1>1, SystemTyped DEF OpenColumn
<1>3. Pivot(s, 1, C[1 - 1]) = p BY <1>1 DEF OpenColumn, Pivot, Diag
<1>4. Regular(p) BY <1>1, <1>3 DEF OpenColumn
<1>5. x = (v ** r) -- ((v ** c) ** y)
  <2>1. C[1].a = v ** c /\ C[1].delta = v ** r
    BY <1>1, <1>3 DEF OpenColumn, ForwardCell
  <2>2. QED BY <1>1, <2>1 DEF OpenColumn
<1> HIDE DEF a, b, c, r, x, y
<1>6. /\ b ** Bnd \in Matrix /\ p \in Matrix /\ cy \in Matrix /\ px \in Matrix
      /\ Bnd ** x \in Matrix /\ bx \in Matrix /\ a ** x \in Matrix
  BY <1>2, BndTyped, Closed
<1>7. v \in Matrix BY <1>6, InvertedTyped
<1>8. v ** r \in Matrix /\ v ** c \in Matrix /\ (v ** c) ** y \in Matrix
  BY <1>2, <1>7, Closed
<1>9. px ++ cy = r
  <2>1. px ++ (p ** ((v ** c) ** y)) = p ** (v ** r) BY <1>5, <1>6, <1>8, TimesDifference
  <2>2. p ** (v ** r) = r BY <1>2, <1>4, <1>6, RightInverseTimes
  <2>3. (v ** c) ** y = v ** cy BY <1>2, <1>7, Associative
  <2>4. p ** (v ** cy) = cy BY <1>4, <1>6, RightInverseTimes
  <2>5. QED BY <2>1, <2>2, <2>3, <2>4
<1>10. px = (a ** x) ++ bx
  <2>1. px = (a ** x) ++ ((b ** Bnd) ** x) BY <1>2, <1>6, SumTimes
  <2>2. (b ** Bnd) ** x = bx BY <1>2, BndTyped, Associative
  <2>3. QED BY <2>1, <2>2
<1>11. (a ** x) ++ bx = bx ++ (a ** x) BY <1>6, Commute
<1>12. (bx ++ (a ** x)) ++ cy = r BY <1>9, <1>10, <1>11
<1>13. QED BY <1>12 DEF a, b, c, r, x, y

\* The last row, with the other wall.
LEMMA OpenLast ==
  ASSUME NEW s, NEW C, NEW X, OpenColumn(s, C, X), NEW n, n = P * N
  PROVE  (s.b[n] ** X[n - 1]) ++ (s.a[n] ** X[n]) ++ (s.c[n] ** (Bnd ** X[n])) = s.rhs[n]
<1> DEFINE a == s.a[n]
           b == s.b[n]
           c == s.c[n]
           r == s.rhs[n]
           Ap == C[n - 1].a
           Dp == C[n - 1].delta
           x == X[n]
           d == a ++ (c ** Bnd)
           p == d -- (b ** Ap)
           u == b ** Dp
           w == (b ** Ap) ** x
           t == r -- u
           cx == c ** (Bnd ** x)
           ax == a ** x
           px == p ** x
           bx == b ** X[n - 1]
<1>1. n \in Row /\ n - 1 \in Row /\ n # 1 /\ n - 1 # P * N /\ (n - 1) + 1 = n /\ n = P * N
  BY ColumnSize
<1>2. /\ a \in Matrix /\ b \in Matrix /\ c \in Matrix /\ r \in Matrix
      /\ Ap \in Matrix /\ Dp \in Matrix /\ x \in Matrix
  BY <1>1, SystemTyped DEF OpenColumn
<1>3. Pivot(s, n, C[n - 1]) = p BY <1>1 DEF OpenColumn, Pivot, Diag
<1>4. Regular(p) BY <1>1, <1>3 DEF OpenColumn
<1>5. X[n - 1] = Dp -- (Ap ** x) BY <1>1 DEF OpenColumn
<1>6. x = Inverted(p) ** t
  <2>1. C[n].delta = Inverted(p) ** t
    BY <1>1, <1>3 DEF OpenColumn, ForwardCell
  <2>2. QED BY <1>1, <2>1 DEF OpenColumn
<1> HIDE DEF a, b, c, r, Ap, Dp, x
<1>7. /\ c ** Bnd \in Matrix /\ b ** Ap \in Matrix /\ u \in Matrix /\ Ap ** x \in Matrix
      /\ b ** (Ap ** x) \in Matrix /\ d \in Matrix /\ p \in Matrix /\ t \in Matrix
      /\ w \in Matrix /\ px \in Matrix /\ X[n - 1] \in Matrix /\ bx \in Matrix
      /\ ax \in Matrix /\ Bnd ** x \in Matrix /\ cx \in Matrix
  BY <1>2, <1>5, BndTyped, Closed
<1>8. bx ++ w = u
  <2>1. bx ++ (b ** (Ap ** x)) = u BY <1>2, <1>5, <1>7, TimesDifference
  <2>2. b ** (Ap ** x) = w BY <1>2, Associative
  <2>3. QED BY <2>1, <2>2
<1>9. t ++ u = r BY <1>2, <1>7, Taken
<1>10. px = t BY <1>4, <1>6, <1>7, RightInverseTimes
<1>11. ax ++ cx = px ++ w
  <2>1. d ** x = px ++ w BY <1>2, <1>7, DifferenceTimes
  <2>2. d ** x = ax ++ ((c ** Bnd) ** x) BY <1>2, <1>7, SumTimes
  <2>3. (c ** Bnd) ** x = cx BY <1>2, BndTyped, Associative
  <2>4. QED BY <2>1, <2>2, <2>3
<1> HIDE DEF d, p, u, w, t, cx, ax, px, bx
<1>12. (bx ++ ax) ++ cx = bx ++ (ax ++ cx) BY <1>7, Regroup
<1>13. bx ++ (px ++ w) = px ++ (bx ++ w) BY <1>7, Carry
<1>14. (bx ++ ax) ++ cx = r BY <1>8, <1>9, <1>10, <1>11, <1>12, <1>13
<1>15. QED BY <1>14 DEF a, b, c, r, x, bx, ax, cx

-----------------------------------------------------------------------------
(* Taking away zero.                                                        *)
LEMMA MinusZero ==
  ASSUME NEW A \in Matrix
  PROVE  A -- Zero = A
<1>1. A -- Zero \in Matrix BY ZeroTyped, Closed
<1>2. (A -- Zero) ++ Zero = A BY ZeroTyped, Taken
<1>3. (A -- Zero) ++ Zero = Zero ++ (A -- Zero) BY <1>1, ZeroTyped, Commute
<1>4. QED BY <1>1, <1>2, <1>3, ZeroPlus

LoopCell == [ainv : Matrix, gamma : Matrix, beta : Matrix, zeta : Matrix]

\* A periodic system, what the two sweeps make of it, and the sums of
\* beta gamma and beta zeta up to each cell.
LoopColumn(s, C, G, Z, X) ==
  LET n == P * N
  IN  /\ s \in SystemType /\ s.periodic
      /\ C \in [Row -> LoopCell] /\ X \in [Row -> Matrix]
      /\ G \in [0 .. n - 1 -> Matrix] /\ Z \in [0 .. n - 1 -> Matrix]
      /\ G[0] = Zero /\ Z[0] = Zero
      /\ \A j \in 1 .. n - 1 :
           LET cell == PeriodicCell(s, j, C[j - 1])
           IN  /\ Regular(PeriodicPivot(s, j, C[j - 1]))
               /\ C[j].ainv = cell.ainv /\ C[j].zeta = cell.zeta
               /\ j < n - 1 => C[j].gamma = cell.gamma /\ C[j].beta = cell.beta
               /\ G[j] = G[j - 1] ++ (C[j].beta ** C[j].gamma)
               /\ Z[j] = Z[j - 1] ++ (C[j].beta ** C[j].zeta)
               /\ X[j] = C[j].ainv ** (C[j].zeta
                           -- ((IF j = n - 1 THEN Zero ELSE s.c[j]) ** X[j + 1])
                           -- (C[j].gamma ** X[n]))
      /\ C[n - 1].gamma = s.c[n - 1] -- (s.b[n - 1] ** C[n - 2].ainv ** C[n - 2].gamma)
      /\ C[n - 1].beta = (s.b[n] -- (C[n - 2].beta ** s.c[n - 2])) ** C[n - 1].ainv
      /\ Regular(s.a[n] -- G[n - 1])
      /\ X[n] = Inverted(s.a[n] -- G[n - 1]) ** (s.rhs[n] -- Z[n - 1])

(* The parts of a periodic column are matrices.                             *)
LEMMA LoopTyped ==
  ASSUME NEW s, NEW C, NEW G, NEW Z, NEW X, LoopColumn(s, C, G, Z, X), NEW j \in Row
  PROVE  /\ s \in SystemType /\ s.periodic
         /\ s.a[j] \in Matrix /\ s.b[j] \in Matrix /\ s.c[j] \in Matrix /\ s.rhs[j] \in Matrix
         /\ C[j].ainv \in Matrix /\ C[j].gamma \in Matrix
         /\ C[j].beta \in Matrix /\ C[j].zeta \in Matrix /\ X[j] \in Matrix
<1>1. s \in SystemType /\ s.periodic /\ C[j] \in LoopCell /\ X[j] \in Matrix
  BY DEF LoopColumn
<1>2. QED BY <1>1, SystemTyped DEF LoopCell

\* What a cell is, and its solution, written out.
LEMMA LoopCells ==
  ASSUME NEW s, NEW C, NEW G, NEW Z, NEW X, LoopColumn(s, C, G, Z, X),
         NEW j \in 2 .. P * N - 1
  PROVE  LET left == s.b[j] ** C[j - 1].ainv
             p    == s.a[j] -- (left ** s.c[j - 1])
         IN  /\ Regular(p) /\ C[j].ainv = Inverted(p)
             /\ C[j].zeta = s.rhs[j] -- (left ** C[j - 1].zeta)
             /\ j < P * N - 1 =>
                  /\ C[j].gamma = Zero -- (left ** C[j - 1].gamma)
                  /\ C[j].beta = Zero -- (C[j - 1].beta ** s.c[j - 1] ** C[j].ainv)
<1>1. /\ j \in 1 .. P * N - 1 /\ j # 1 /\ j - 1 # 0 BY ColumnSize
<1>2. s.periodic BY DEF LoopColumn
<1>3. DiagU(s, j - 1) = s.c[j - 1] /\ Diag(s, j) = s.a[j] BY <1>1, <1>2 DEF DiagU, Diag
<1>4. PeriodicPivot(s, j, C[j - 1])
        = s.a[j] -- (s.b[j] ** C[j - 1].ainv ** s.c[j - 1])
  BY <1>1, <1>3 DEF PeriodicPivot
<1>5. /\ PeriodicCell(s, j, C[j - 1]).ainv = Inverted(PeriodicPivot(s, j, C[j - 1]))
      /\ PeriodicCell(s, j, C[j - 1]).zeta
           = s.rhs[j] -- (s.b[j] ** C[j - 1].ainv ** C[j - 1].zeta)
      /\ PeriodicCell(s, j, C[j - 1]).gamma
           = Zero -- (s.b[j] ** C[j - 1].ainv ** C[j - 1].gamma)
      /\ PeriodicCell(s, j, C[j - 1]).beta
           = Zero -- (C[j - 1].beta ** s.c[j - 1] ** PeriodicCell(s, j, C[j - 1]).ainv)
  BY <1>1, <1>3 DEF PeriodicCell
<1>6. /\ Regular(PeriodicPivot(s, j, C[j - 1]))
      /\ C[j].ainv = PeriodicCell(s, j, C[j - 1]).ainv
      /\ C[j].zeta = PeriodicCell(s, j, C[j - 1]).zeta
      /\ j < P * N - 1 => /\ C[j].gamma = PeriodicCell(s, j, C[j - 1]).gamma
                          /\ C[j].beta = PeriodicCell(s, j, C[j - 1]).beta
  BY <1>1 DEF LoopColumn
<1>7. QED BY <1>4, <1>5, <1>6

(* The substitution of a cell below the last, regrouped.                    *)
LEMMA LoopSolution ==
  ASSUME NEW s, NEW C, NEW G, NEW Z, NEW X, LoopColumn(s, C, G, Z, X),
         NEW j \in 1 .. P * N - 1
  PROVE  X[j] = C[j].ainv ** ((C[j].zeta
                  -- ((IF j = P * N - 1 THEN Zero ELSE s.c[j]) ** X[j + 1]))
                  -- (C[j].gamma ** X[P * N]))
BY DEF LoopColumn

(* The first cell of a periodic column.                                     *)
LEMMA LoopFirst ==
  ASSUME NEW s, NEW C, NEW G, NEW Z, NEW X, LoopColumn(s, C, G, Z, X)
  PROVE  /\ Regular(s.a[1]) /\ C[1].ainv = Inverted(s.a[1]) /\ C[1].zeta = s.rhs[1]
         /\ C[1].gamma = s.b[1] /\ C[1].beta = s.c[P * N] ** C[1].ainv
<1>1. 1 \in 1 .. P * N - 1 /\ 1 < P * N - 1 BY ColumnSize
<1>2. s.periodic BY DEF LoopColumn
<1>3. DiagU(s, 1 - 1) = s.c[P * N] /\ Diag(s, 1) = s.a[1] BY <1>2 DEF DiagU, Diag
<1>4. PeriodicPivot(s, 1, C[1 - 1]) = s.a[1] BY <1>3 DEF PeriodicPivot
<1>5. /\ PeriodicCell(s, 1, C[1 - 1]).ainv = Inverted(PeriodicPivot(s, 1, C[1 - 1]))
      /\ PeriodicCell(s, 1, C[1 - 1]).zeta = s.rhs[1]
      /\ PeriodicCell(s, 1, C[1 - 1]).gamma = s.b[1]
      /\ PeriodicCell(s, 1, C[1 - 1]).beta
           = s.c[P * N] ** PeriodicCell(s, 1, C[1 - 1]).ainv
  BY <1>3 DEF PeriodicCell
<1>6. /\ Regular(PeriodicPivot(s, 1, C[1 - 1]))
      /\ C[1].ainv = PeriodicCell(s, 1, C[1 - 1]).ainv
      /\ C[1].zeta = PeriodicCell(s, 1, C[1 - 1]).zeta
      /\ C[1].gamma = PeriodicCell(s, 1, C[1 - 1]).gamma
      /\ C[1].beta = PeriodicCell(s, 1, C[1 - 1]).beta
  BY <1>1 DEF LoopColumn
<1>7. QED BY <1>4, <1>5, <1>6

-----------------------------------------------------------------------------
\* The first row; below the first cell is the last.
LEMMA LoopRowFirst ==
  ASSUME NEW s, NEW C, NEW G, NEW Z, NEW X, LoopColumn(s, C, G, Z, X)
  PROVE  (s.b[1] ** X[P * N]) ++ (s.a[1] ** X[1]) ++ (s.c[1] ** X[2]) = s.rhs[1]
<1> DEFINE a == s.a[1]
           b == s.b[1]
           c == s.c[1]
           r == s.rhs[1]
           x == X[1]
           y == X[2]
           l == X[P * N]
           bl == b ** l
           cy == c ** y
           t == r -- cy
<1>1. /\ 1 \in Row /\ 2 \in Row /\ P * N \in Row
      /\ 1 \in 1 .. P * N - 1 /\ 1 # P * N - 1 /\ 1 + 1 = 2
  BY ColumnSize
<1>2. /\ a \in Matrix /\ b \in Matrix /\ c \in Matrix /\ r \in Matrix
      /\ x \in Matrix /\ y \in Matrix /\ l \in Matrix
  BY <1>1, LoopTyped
<1>3. Regular(a) /\ x = Inverted(a) ** ((r -- (c ** y)) -- (b ** l))
  <2>1. /\ Regular(a) /\ C[1].ainv = Inverted(a) /\ C[1].zeta = r /\ C[1].gamma = b
    BY LoopFirst
  <2> HIDE DEF a, b, c, r, x, y, l
  <2>2. PICK j : j = 1 OBVIOUS
  <2>3. j \in 1 .. P * N - 1 BY <1>1, <2>2
  <2>4. X[j] = C[j].ainv ** ((C[j].zeta
                  -- ((IF j = P * N - 1 THEN Zero ELSE s.c[j]) ** X[j + 1]))
                  -- (C[j].gamma ** X[P * N]))
    BY <2>3, LoopSolution
  <2>5. QED BY <1>1, <2>1, <2>2, <2>4 DEF c, x, y, l
<1> HIDE DEF a, b, c, r, x, y, l
<1>4. bl \in Matrix /\ cy \in Matrix /\ t \in Matrix /\ t -- bl \in Matrix
  BY <1>2, Closed
<1>5. a ** x = t -- bl BY <1>2, <1>3, <1>4, RightInverseTimes
<1>6. (t -- bl) ++ bl = t /\ t ++ cy = r BY <1>2, <1>4, Taken
<1>7. bl ++ (t -- bl) = t BY <1>4, <1>6, Commute
<1>8. (bl ++ (a ** x)) ++ cy = r BY <1>5, <1>6, <1>7
<1>9. QED BY <1>8 DEF a, b, c, r, x, y, l

\* A row above it, up to what gamma is.
LEMMA LoopRow ==
  ASSUME NEW s, NEW C, NEW G, NEW Z, NEW X, LoopColumn(s, C, G, Z, X),
         NEW j \in 2 .. P * N - 1
  PROVE  (s.b[j] ** X[j - 1]) ++ (s.a[j] ** X[j])
           ++ (((C[j].gamma ** X[P * N])
                 ++ ((IF j = P * N - 1 THEN Zero ELSE s.c[j]) ** X[j + 1]))
               ++ (((s.b[j] ** C[j - 1].ainv) ** C[j - 1].gamma) ** X[P * N])) = s.rhs[j]
<1> DEFINE a == s.a[j]
           b == s.b[j]
           c == IF j = P * N - 1 THEN Zero ELSE s.c[j]
           r == s.rhs[j]
           vp == C[j - 1].ainv
           cp == s.c[j - 1]
           zp == C[j - 1].zeta
           gp == C[j - 1].gamma
           g == C[j].gamma
           x == X[j]
           xp == X[j - 1]
           y == X[j + 1]
           L == X[P * N]
           uy == c ** y
           gl == g ** L
           left == b ** vp
           p == a -- (left ** cp)
           lz == left ** zp
           lg == (left ** gp) ** L
           w == (left ** cp) ** x
           z == r -- lz
           k == gl ++ uy
           px == p ** x
           ax == a ** x
           inner == (zp -- (cp ** x)) -- (gp ** L)
           bx == b ** xp
<1>1. /\ j \in Row /\ j - 1 \in Row /\ j + 1 \in Row /\ P * N \in Row
      /\ j \in 1 .. P * N - 1 /\ j - 1 \in 1 .. P * N - 1 /\ j - 1 # P * N - 1
      /\ (j - 1) + 1 = j
  BY ColumnSize
<1>2. /\ a \in Matrix /\ b \in Matrix /\ c \in Matrix /\ r \in Matrix
      /\ vp \in Matrix /\ cp \in Matrix /\ zp \in Matrix /\ gp \in Matrix /\ g \in Matrix
      /\ x \in Matrix /\ xp \in Matrix /\ y \in Matrix /\ L \in Matrix
  <2>1. /\ a \in Matrix /\ b \in Matrix /\ s.c[j] \in Matrix /\ r \in Matrix
        /\ g \in Matrix /\ x \in Matrix
    BY <1>1, LoopTyped
  <2>2. /\ vp \in Matrix /\ cp \in Matrix /\ zp \in Matrix /\ gp \in Matrix
        /\ xp \in Matrix
    BY <1>1, LoopTyped
  <2>3. y \in Matrix BY <1>1, LoopTyped
  <2>4. L \in Matrix BY <1>1, LoopTyped
  <2>5. QED BY <2>1, <2>2, <2>3, <2>4, ZeroTyped
<1>3. Regular(p) /\ C[j].ainv = Inverted(p) /\ C[j].zeta = z
  BY LoopCells
<1>4. x = Inverted(p) ** ((z -- uy) -- gl)
  <2>1. x = C[j].ainv ** ((C[j].zeta -- uy) -- gl) BY <1>1, LoopSolution
  <2>2. QED BY <1>3, <2>1
<1>5. xp = vp ** inner
  <2>1. X[j - 1] = C[j - 1].ainv ** ((C[j - 1].zeta -- (s.c[j - 1] ** X[(j - 1) + 1]))
                                      -- (C[j - 1].gamma ** X[P * N]))
    BY <1>1, LoopSolution
  <2>2. QED BY <1>1, <2>1
<1> HIDE DEF a, b, c, r, vp, cp, zp, gp, g, x, xp, y, L
<1>6. /\ left \in Matrix /\ cp ** x \in Matrix /\ gp ** L \in Matrix
      /\ uy \in Matrix /\ gl \in Matrix
  BY <1>2, Closed
<1>7. /\ left ** cp \in Matrix /\ lz \in Matrix /\ left ** gp \in Matrix
      /\ zp -- (cp ** x) \in Matrix
  BY <1>2, <1>6, Closed
<1>8. /\ p \in Matrix /\ lg \in Matrix /\ w \in Matrix /\ z \in Matrix /\ k \in Matrix
      /\ inner \in Matrix
  BY <1>2, <1>6, <1>7, Closed
<1>9. z -- uy \in Matrix /\ px \in Matrix /\ ax \in Matrix /\ bx \in Matrix
  BY <1>2, <1>6, <1>8, Closed
<1>10. (z -- uy) -- gl \in Matrix BY <1>6, <1>9, Closed
<1>11. (bx ++ lg) ++ w = lz
  <2>1. bx = left ** inner BY <1>2, <1>5, <1>8, Associative
  <2>2. ((left ** inner) ++ (left ** (gp ** L))) ++ (left ** (cp ** x)) = lz
    BY <1>2, <1>6, TimesDifferences
  <2>3. left ** (gp ** L) = lg /\ left ** (cp ** x) = w BY <1>2, <1>6, Associative
  <2>4. QED BY <2>1, <2>2, <2>3
<1>12. z ++ lz = r BY <1>2, <1>7, Taken
<1>13. px ++ k = z
  <2>1. px = (z -- uy) -- gl BY <1>3, <1>4, <1>8, <1>10, RightInverseTimes
  <2>2. px ++ k = (px ++ gl) ++ uy BY <1>6, <1>9, Regroup
  <2>3. px ++ gl = z -- uy BY <1>6, <1>9, <2>1, Taken
  <2>4. (z -- uy) ++ uy = z BY <1>6, <1>8, Taken
  <2>5. QED BY <2>2, <2>3, <2>4
<1>14. ax = px ++ w BY <1>2, <1>7, DifferenceTimes
<1> HIDE DEF p, lz, w, z, px, ax, inner, bx, lg, k
<1>15. (bx ++ (px ++ w)) ++ (k ++ lg) = (px ++ k) ++ ((bx ++ lg) ++ w)
  BY <1>8, <1>9, LoopSum
<1>16. (bx ++ ax) ++ (k ++ lg) = r BY <1>11, <1>12, <1>13, <1>14, <1>15
<1> USE DEF bx, ax, k, lg, left, gl, uy
<1>17. QED BY <1>16 DEF a, b, c, r, vp, gp, g, x, xp, y, L

(* The equation of a cell inside a periodic column.                         *)
LEMMA LoopRowInside ==
  ASSUME NEW s, NEW C, NEW G, NEW Z, NEW X, LoopColumn(s, C, G, Z, X),
         NEW j \in 2 .. P * N - 2
  PROVE  (s.b[j] ** X[j - 1]) ++ (s.a[j] ** X[j]) ++ (s.c[j] ** X[j + 1]) = s.rhs[j]
<1> DEFINE L == X[P * N]
           lg == (s.b[j] ** C[j - 1].ainv) ** C[j - 1].gamma
           gl == (Zero -- lg) ** L
           cy == s.c[j] ** X[j + 1]
           lgl == lg ** L
<1>1. /\ j \in Row /\ j - 1 \in Row /\ j + 1 \in Row /\ P * N \in Row
      /\ j \in 2 .. P * N - 1 /\ j < P * N - 1 /\ j # P * N - 1
  BY ColumnSize
<1>2. /\ s.b[j] \in Matrix /\ s.c[j] \in Matrix /\ C[j - 1].ainv \in Matrix
      /\ C[j - 1].gamma \in Matrix /\ X[j + 1] \in Matrix /\ L \in Matrix
  BY <1>1, LoopTyped
<1>3. C[j].gamma = Zero -- lg BY <1>1, LoopCells
<1>4. (s.b[j] ** X[j - 1]) ++ (s.a[j] ** X[j]) ++ ((gl ++ cy) ++ lgl) = s.rhs[j]
  <2>1. (s.b[j] ** X[j - 1]) ++ (s.a[j] ** X[j])
           ++ (((C[j].gamma ** X[P * N])
                 ++ ((IF j = P * N - 1 THEN Zero ELSE s.c[j]) ** X[j + 1]))
               ++ (((s.b[j] ** C[j - 1].ainv) ** C[j - 1].gamma) ** X[P * N])) = s.rhs[j]
    BY <1>1, LoopRow
  <2>2. QED BY <1>1, <1>3, <2>1
<1>5. s.b[j] ** C[j - 1].ainv \in Matrix BY <1>2, Closed
<1>6. lg \in Matrix /\ cy \in Matrix BY <1>2, <1>5, Closed
<1> HIDE DEF L, lg, cy
<1>7. Zero -- lg \in Matrix /\ lgl \in Matrix BY <1>2, <1>6, ZeroTyped, Closed
<1>8. gl \in Matrix BY <1>2, <1>7, Closed
<1>9. gl ++ lgl = Zero
  BY <1>2, <1>6, ZeroTyped, DifferenceTimes, ZeroTimes
<1> HIDE DEF gl, lgl
<1>10. (gl ++ cy) ++ lgl = cy
  <2>1. gl ++ cy = cy ++ gl BY <1>6, <1>8, Commute
  <2>2. (cy ++ gl) ++ lgl = cy ++ (gl ++ lgl) BY <1>6, <1>7, <1>8, Regroup
  <2>3. cy ++ Zero = Zero ++ cy BY <1>6, ZeroTyped, Commute
  <2>4. QED BY <1>6, <1>9, <2>1, <2>2, <2>3, ZeroPlus
<1>11. QED BY <1>4, <1>10 DEF cy

\* The row before the last, whose right neighbour is the last cell.
LEMMA LoopRowCorner ==
  ASSUME NEW s, NEW C, NEW G, NEW Z, NEW X, LoopColumn(s, C, G, Z, X),
         NEW j, j = P * N - 1
  PROVE  (s.b[j] ** X[j - 1]) ++ (s.a[j] ** X[j]) ++ (s.c[j] ** X[j + 1]) = s.rhs[j]
<1> DEFINE L == X[P * N]
           lg == (s.b[j] ** C[j - 1].ainv) ** C[j - 1].gamma
           gl == (s.c[j] -- lg) ** L
           uy == Zero ** L
           lgl == lg ** L
<1>1. /\ j \in Row /\ j - 1 \in Row /\ j + 1 = P * N /\ P * N \in Row
      /\ j \in 2 .. P * N - 1 /\ j - 1 = P * N - 2
  BY ColumnSize
<1>2. /\ s.b[j] \in Matrix /\ s.c[j] \in Matrix /\ C[j - 1].ainv \in Matrix
      /\ C[j - 1].gamma \in Matrix /\ L \in Matrix
  BY <1>1, LoopTyped
<1>3. C[j].gamma = s.c[j] -- lg BY <1>1 DEF LoopColumn
<1>4. (s.b[j] ** X[j - 1]) ++ (s.a[j] ** X[j]) ++ ((gl ++ uy) ++ lgl) = s.rhs[j]
  <2>1. (s.b[j] ** X[j - 1]) ++ (s.a[j] ** X[j])
           ++ (((C[j].gamma ** X[P * N])
                 ++ ((IF j = P * N - 1 THEN Zero ELSE s.c[j]) ** X[j + 1]))
               ++ (((s.b[j] ** C[j - 1].ainv) ** C[j - 1].gamma) ** X[P * N])) = s.rhs[j]
    BY <1>1, LoopRow
  <2>2. QED BY <1>1, <1>3, <2>1
<1>5. s.b[j] ** C[j - 1].ainv \in Matrix BY <1>2, Closed
<1>6. lg \in Matrix /\ uy \in Matrix BY <1>2, <1>5, ZeroTyped, Closed
<1>7. X[j + 1] = L BY <1>1
<1> HIDE DEF L, lg
<1>8. s.c[j] -- lg \in Matrix /\ lgl \in Matrix BY <1>2, <1>6, Closed
<1>9. gl \in Matrix BY <1>2, <1>8, Closed
<1>10. gl ++ lgl = s.c[j] ** L BY <1>2, <1>6, DifferenceTimes
<1>11. gl ++ uy = gl
  <2>1. gl ++ uy = uy ++ gl BY <1>6, <1>9, Commute
  <2>2. uy = Zero BY <1>2, ZeroTimes
  <2>3. QED BY <1>9, <2>1, <2>2, ZeroPlus
<1>12. QED BY <1>4, <1>7, <1>10, <1>11

-----------------------------------------------------------------------------
(* Induction over an interval of indices, stated with sets: the least       *)
(* natural number outside a set closed under successor does not exist.      *)
LEMMA NatSet ==
  ASSUME NEW S, 0 \in S, \A n \in Nat : n \in S => n + 1 \in S
  PROVE  Nat \subseteq S
<1> DEFINE T == Nat \ S
<1> SUFFICES ASSUME T # {} PROVE FALSE OBVIOUS
<1> DEFINE R == OpToRel(<, Nat)
<1>1. IsWellFoundedOn(R, Nat) BY NatLessThanWellFounded
<1>2. \A x, y \in Nat : y < x => <<y, x>> \in R BY DEF OpToRel
<1> HIDE DEF R
<1>3. T \subseteq Nat OBVIOUS
<1>4. PICK x \in T : \A y \in T : ~ (<<y, x>> \in R) BY <1>1, <1>3, WFMin, Zenon
<1>5. x # 0 BY <1>4
<1>6. x - 1 \in Nat /\ x - 1 < x BY <1>5
<1>7. x - 1 \notin T BY <1>2, <1>4, <1>6
<1>8. x \in S BY <1>6, <1>7
<1>9. QED BY <1>8

(* A set with the first number and the successor of each has them all.      *)
LEMMA Upward ==
  ASSUME NEW a \in Int, NEW b \in Int, NEW S, a \in S,
         \A i \in a .. b - 1 : i \in S => i + 1 \in S
  PROVE  a .. b \subseteq S
<1> DEFINE T == {n \in Nat : a + n <= b => a + n \in S}
<1>1. 0 \in T OBVIOUS
<1>2. \A n \in Nat : n \in T => n + 1 \in T
  <2> SUFFICES ASSUME NEW n \in Nat, a + n <= b => a + n \in S, a + (n + 1) <= b
               PROVE  a + (n + 1) \in S
    OBVIOUS
  <2>1. a + n \in a .. b - 1 /\ a + n \in S OBVIOUS
  <2>2. (a + n) + 1 \in S BY <2>1
  <2>3. QED BY <2>2
<1>3. Nat \subseteq T
  <2> HIDE DEF T
  <2>1. QED BY <1>1, <1>2, NatSet
<1>4. ASSUME NEW i \in a .. b PROVE i \in S
  <2>1. i - a \in Nat /\ a + (i - a) = i OBVIOUS
  <2>2. i - a \in T BY <1>3, <2>1
  <2>3. QED BY <2>1, <2>2
<1>5. QED BY <1>4

(* The same from the last number down.                                      *)
LEMMA Downward ==
  ASSUME NEW a \in Int, NEW b \in Int, NEW S, b \in S,
         \A i \in a .. b - 1 : i + 1 \in S => i \in S
  PROVE  a .. b \subseteq S
<1> DEFINE T == {n \in Nat : a <= b - n => b - n \in S}
<1>1. 0 \in T OBVIOUS
<1>2. \A n \in Nat : n \in T => n + 1 \in T
  <2> SUFFICES ASSUME NEW n \in Nat, a <= b - n => b - n \in S, a <= b - (n + 1)
               PROVE  b - (n + 1) \in S
    OBVIOUS
  <2>1. b - (n + 1) \in a .. b - 1 /\ (b - (n + 1)) + 1 = b - n /\ b - n \in S OBVIOUS
  <2>2. QED BY <2>1
<1>3. Nat \subseteq T
  <2> HIDE DEF T
  <2>1. QED BY <1>1, <1>2, NatSet
<1>4. ASSUME NEW i \in a .. b PROVE i \in S
  <2>1. b - i \in Nat /\ b - (b - i) = i OBVIOUS
  <2>2. b - i \in T BY <1>3, <2>1
  <2>3. QED BY <2>1, <2>2
<1>5. QED BY <1>4


-----------------------------------------------------------------------------
(* What the sums amount to: up to a cell they leave, of the first cell's     *)
(* term in the last row, one of the next cell.                              *)
SumsLeave(s, C, G, Z, X, k) ==
  ((s.c[P * N] ** X[1]) ++ (G[k] ** X[P * N])) ++ ((C[k].beta ** s.c[k]) ** X[k + 1]) = Z[k]

(* The running sums of a periodic column grow by one cell at a time.        *)
LEMMA LoopSums ==
  ASSUME NEW s, NEW C, NEW G, NEW Z, NEW X, LoopColumn(s, C, G, Z, X),
         NEW j \in 1 .. P * N - 1
  PROVE  /\ G[j] \in Matrix /\ Z[j] \in Matrix /\ G[j - 1] \in Matrix /\ Z[j - 1] \in Matrix
         /\ G[j] = G[j - 1] ++ (C[j].beta ** C[j].gamma)
         /\ Z[j] = Z[j - 1] ++ (C[j].beta ** C[j].zeta)
<1>1. P * N \in Nat BY ColumnSize
<1>2. j \in 0 .. P * N - 1 /\ j - 1 \in 0 .. P * N - 1 BY <1>1
<1>3. QED BY <1>2 DEF LoopColumn

(* The invariant of the running sums holds at the first cell,               *)
LEMMA SumsFirst ==
  ASSUME NEW s, NEW C, NEW G, NEW Z, NEW X, LoopColumn(s, C, G, Z, X)
  PROVE  SumsLeave(s, C, G, Z, X, 1)
<1>0. PICK j : j = 1 OBVIOUS
<1> DEFINE v == C[j].ainv
           z == C[j].zeta
           c == s.c[j]
           g == C[j].gamma
           beta == C[j].beta
           x == X[j]
           y == X[j + 1]
           L == X[P * N]
           cn == s.c[P * N]
           inner == (z -- (c ** y)) -- (g ** L)
<1>1. /\ j \in Row /\ j + 1 \in Row /\ P * N \in Row
      /\ j \in 1 .. P * N - 1 /\ j # P * N - 1 /\ j - 1 = 0
  BY <1>0, ColumnSize
<1>2. /\ v \in Matrix /\ z \in Matrix /\ c \in Matrix /\ g \in Matrix
      /\ beta \in Matrix /\ x \in Matrix
  BY <1>1, LoopTyped
<1>3. y \in Matrix BY <1>1, LoopTyped
<1>4. L \in Matrix /\ cn \in Matrix BY <1>1, LoopTyped
<1>5. beta = cn ** v BY <1>0, LoopFirst
<1>6. x = v ** inner
  <2>1. j \in 1 .. P * N - 1 BY <1>1
  <2>2. X[j] = C[j].ainv ** ((C[j].zeta
                  -- ((IF j = P * N - 1 THEN Zero ELSE s.c[j]) ** X[j + 1]))
                  -- (C[j].gamma ** X[P * N]))
    BY <2>1, LoopSolution
  <2>3. QED BY <1>1, <2>2
<1>7. G[j] = Zero ++ (beta ** g) /\ Z[j] = Zero ++ (beta ** z)
  <2>1. G[0] = Zero /\ Z[0] = Zero BY DEF LoopColumn
  <2>2. QED BY <1>1, <2>1, LoopSums
<1>8. X[1] = x BY <1>0
<1> HIDE DEF v, z, c, g, beta, x, y, L, cn
<1>9. c ** y \in Matrix /\ g ** L \in Matrix BY <1>2, <1>3, <1>4, Closed
<1>10. z -- (c ** y) \in Matrix /\ beta ** g \in Matrix /\ beta ** z \in Matrix
  BY <1>2, <1>9, Closed
<1>11. inner \in Matrix BY <1>9, <1>10, Closed
<1>12. cn ** x = beta ** inner BY <1>2, <1>4, <1>5, <1>6, <1>11, Associative
<1>13. G[j] = beta ** g /\ Z[j] = beta ** z BY <1>7, <1>10, ZeroPlus
<1>14. (beta ** g) ** L = beta ** (g ** L) /\ (beta ** c) ** y = beta ** (c ** y)
  BY <1>2, <1>3, <1>4, Associative
<1>15. ((beta ** inner) ++ (beta ** (g ** L))) ++ (beta ** (c ** y)) = beta ** z
  BY <1>2, <1>9, TimesDifferences
<1> HIDE DEF inner
<1>16. ((cn ** x) ++ (G[j] ** L)) ++ ((beta ** c) ** y) = Z[j]
  BY <1>12, <1>13, <1>14, <1>15
<1>17. ((cn ** X[1]) ++ (G[j] ** L)) ++ ((beta ** c) ** y) = Z[j] BY <1>8, <1>16
<1>18. QED BY <1>0, <1>17 DEF SumsLeave, cn, L, beta, c, y

(* and at a cell when it holds at the one below,                            *)
LEMMA SumsNext ==
  ASSUME NEW s, NEW C, NEW G, NEW Z, NEW X, LoopColumn(s, C, G, Z, X),
         NEW j \in 2 .. P * N - 2, SumsLeave(s, C, G, Z, X, j - 1)
  PROVE  SumsLeave(s, C, G, Z, X, j)
<1> DEFINE v == C[j].ainv
           z == C[j].zeta
           c == s.c[j]
           g == C[j].gamma
           beta == C[j].beta
           x == X[j]
           y == X[j + 1]
           L == X[P * N]
           cx == s.c[P * N] ** X[1]
           M == C[j - 1].beta ** s.c[j - 1]
           bg == G[j - 1]
           bz == Z[j - 1]
           inner == (z -- (c ** y)) -- (g ** L)
           bw == beta ** inner
           e == M ** x
           u == beta ** (g ** L)
           f == beta ** (c ** y)
           gl == bg ** L
<1>1. /\ j \in Row /\ j + 1 \in Row /\ P * N \in Row /\ j - 1 \in Row /\ 1 \in Row
      /\ j \in 2 .. P * N - 1 /\ j \in 1 .. P * N - 1 /\ j < P * N - 1 /\ j # P * N - 1
      /\ (j - 1) + 1 = j
  BY ColumnSize
<1>2. /\ v \in Matrix /\ z \in Matrix /\ c \in Matrix /\ g \in Matrix
      /\ beta \in Matrix /\ x \in Matrix
  BY <1>1, LoopTyped
<1>3. y \in Matrix BY <1>1, LoopTyped
<1>4. L \in Matrix /\ s.c[P * N] \in Matrix BY <1>1, LoopTyped
<1>5. X[1] \in Matrix BY <1>1, LoopTyped
<1>6. C[j - 1].beta \in Matrix /\ s.c[j - 1] \in Matrix BY <1>1, LoopTyped
<1>7. cx \in Matrix BY <1>4, <1>5, Closed
<1>8. M \in Matrix BY <1>6, Closed
<1>9. /\ bg \in Matrix /\ bz \in Matrix
      /\ G[j] = bg ++ (beta ** g) /\ Z[j] = bz ++ (beta ** z)
  BY <1>1, LoopSums
<1>10. beta = Zero -- (M ** v) BY <1>1, LoopCells
<1>11. x = v ** inner
  <2>1. X[j] = C[j].ainv ** ((C[j].zeta
                  -- ((IF j = P * N - 1 THEN Zero ELSE s.c[j]) ** X[j + 1]))
                  -- (C[j].gamma ** X[P * N]))
    BY <1>1, LoopSolution
  <2>2. QED BY <1>1, <2>1
<1>12. (cx ++ gl) ++ e = bz BY <1>1 DEF SumsLeave
<1> HIDE DEF v, z, c, g, beta, x, y, L, cx, M, bg, bz
<1>13. M ** v \in Matrix /\ c ** y \in Matrix /\ g ** L \in Matrix
  BY <1>2, <1>3, <1>4, <1>8, Closed
<1>14. z -- (c ** y) \in Matrix BY <1>2, <1>13, Closed
<1>15. /\ inner \in Matrix /\ gl \in Matrix /\ e \in Matrix /\ u \in Matrix
       /\ f \in Matrix /\ beta ** g \in Matrix
  BY <1>2, <1>4, <1>8, <1>9, <1>13, <1>14, Closed
<1>16. bw \in Matrix BY <1>2, <1>15, Closed
<1>17. bw ++ e = Zero
  <2>1. e = (M ** v) ** inner BY <1>2, <1>8, <1>11, <1>15, Associative
  <2>2. bw ++ ((M ** v) ** inner) = Zero ** inner
    BY <1>10, <1>13, <1>15, ZeroTyped, DifferenceTimes
  <2>3. QED BY <1>15, <2>1, <2>2, ZeroTimes
<1>18. (bw ++ u) ++ f = beta ** z BY <1>2, <1>13, TimesDifferences
<1>19. (bg ++ (beta ** g)) ** L = gl ++ u
  <2>1. (bg ++ (beta ** g)) ** L = gl ++ ((beta ** g) ** L) BY <1>4, <1>9, <1>15, SumTimes
  <2>2. (beta ** g) ** L = u BY <1>2, <1>4, Associative
  <2>3. QED BY <2>1, <2>2
<1>20. (beta ** c) ** y = f BY <1>2, <1>3, Associative
<1> HIDE DEF inner, bw, e, u, f, gl
<1>21. ((cx ++ gl) ++ e) ++ ((bw ++ u) ++ f) = (cx ++ (gl ++ u)) ++ f
  BY <1>7, <1>15, <1>16, <1>17, LoopStep
<1>22. (cx ++ (G[j] ** L)) ++ ((beta ** c) ** y) = Z[j]
  BY <1>9, <1>12, <1>18, <1>19, <1>20, <1>21
<1>23. QED BY <1>22 DEF SumsLeave, cx, L, beta, c, y

(* and so up to the last cell but two.                                      *)
LEMMA SumsAll ==
  ASSUME NEW s, NEW C, NEW G, NEW Z, NEW X, LoopColumn(s, C, G, Z, X)
  PROVE  \A j \in 1 .. P * N - 2 : SumsLeave(s, C, G, Z, X, j)
<1> DEFINE S == {j \in Int : SumsLeave(s, C, G, Z, X, j)}
           n == P * N - 2
<1>1. n \in Int BY ColumnSize
<1>2. 1 \in S BY SumsFirst
<1>3. ASSUME NEW i \in 1 .. n - 1, i \in S PROVE i + 1 \in S
  <2>1. i + 1 \in 2 .. P * N - 2 /\ (i + 1) - 1 = i /\ i + 1 \in Int BY ColumnSize
  <2>2. SumsLeave(s, C, G, Z, X, (i + 1) - 1) BY <1>3, <2>1
  <2>3. SumsLeave(s, C, G, Z, X, i + 1) BY <2>1, <2>2, SumsNext
  <2>4. QED BY <2>1, <2>3
<1>4. 1 .. n \subseteq S
  <2> HIDE DEF S, n
  <2>1. 1 \in Int OBVIOUS
  <2>2. QED BY <1>1, <1>2, <1>3, <2>1, Upward
<1>5. QED BY <1>4

\* With the cell before the last they leave its term in the last row.
LEMMA SumsLast ==
  ASSUME NEW s, NEW C, NEW G, NEW Z, NEW X, LoopColumn(s, C, G, Z, X),
         NEW j, j = P * N - 1
  PROVE  ((s.c[P * N] ** X[1]) ++ (s.b[P * N] ** X[j])) ++ (G[j] ** X[P * N]) = Z[j]
<1> DEFINE v == C[j].ainv
           z == C[j].zeta
           g == C[j].gamma
           beta == C[j].beta
           b == s.b[P * N]
           x == X[j]
           L == X[P * N]
           cx == s.c[P * N] ** X[1]
           M == C[j - 1].beta ** s.c[j - 1]
           bg == G[j - 1]
           bz == Z[j - 1]
           inner == z -- (g ** L)
           dx == (b -- M) ** x
           e == M ** x
           u == beta ** (g ** L)
           gl == bg ** L
<1>1. /\ j \in Row /\ j + 1 = P * N /\ P * N \in Row /\ j - 1 \in Row /\ 1 \in Row
      /\ j \in 2 .. P * N - 1 /\ j \in 1 .. P * N - 1 /\ j - 1 = P * N - 2
      /\ (j - 1) + 1 = j /\ j - 1 \in 1 .. P * N - 2
  BY ColumnSize
<1>2. /\ v \in Matrix /\ z \in Matrix /\ g \in Matrix
      /\ beta \in Matrix /\ x \in Matrix
  BY <1>1, LoopTyped
<1>3. L \in Matrix /\ s.c[P * N] \in Matrix /\ b \in Matrix BY <1>1, LoopTyped
<1>4. X[1] \in Matrix BY <1>1, LoopTyped
<1>5. C[j - 1].beta \in Matrix /\ s.c[j - 1] \in Matrix BY <1>1, LoopTyped
<1>6. cx \in Matrix BY <1>3, <1>4, Closed
<1>7. M \in Matrix BY <1>5, Closed
<1>8. /\ bg \in Matrix /\ bz \in Matrix
      /\ G[j] = bg ++ (beta ** g) /\ Z[j] = bz ++ (beta ** z)
  BY <1>1, LoopSums
<1>9. beta = (b -- M) ** v BY <1>1 DEF LoopColumn
<1>10. x = v ** ((z -- (Zero ** L)) -- (g ** L))
  <2>1. X[j] = C[j].ainv ** ((C[j].zeta
                  -- ((IF j = P * N - 1 THEN Zero ELSE s.c[j]) ** X[j + 1]))
                  -- (C[j].gamma ** X[P * N]))
    BY <1>1, LoopSolution
  <2>2. QED BY <1>1, <2>1
<1>11. (cx ++ gl) ++ e = bz
  <2>1. SumsLeave(s, C, G, Z, X, j - 1) BY <1>1, SumsAll
  <2>2. QED BY <1>1, <2>1 DEF SumsLeave
<1> HIDE DEF v, z, g, beta, x, b, L, cx, M, bg, bz
<1>12. b -- M \in Matrix /\ g ** L \in Matrix BY <1>2, <1>3, <1>7, Closed
<1>13. inner \in Matrix BY <1>2, <1>12, Closed
<1>14. /\ dx \in Matrix /\ e \in Matrix /\ u \in Matrix /\ gl \in Matrix
       /\ beta ** g \in Matrix
  BY <1>2, <1>3, <1>7, <1>8, <1>12, Closed
<1>15. x = v ** inner BY <1>2, <1>3, <1>10, ZeroTimes, MinusZero
<1>16. dx ++ e = b ** x BY <1>2, <1>3, <1>7, DifferenceTimes
<1>17. dx ++ u = beta ** z
  <2>1. dx = beta ** inner BY <1>2, <1>9, <1>12, <1>13, <1>15, Associative
  <2>2. QED BY <1>2, <1>12, <2>1, TimesDifference
<1>18. (bg ++ (beta ** g)) ** L = gl ++ u
  <2>1. (bg ++ (beta ** g)) ** L = gl ++ ((beta ** g) ** L) BY <1>3, <1>8, <1>14, SumTimes
  <2>2. (beta ** g) ** L = u BY <1>2, <1>3, Associative
  <2>3. QED BY <2>1, <2>2
<1> HIDE DEF inner, dx, e, u, gl
<1>19. ((cx ++ gl) ++ e) ++ (dx ++ u) = (cx ++ (dx ++ e)) ++ (gl ++ u)
  BY <1>6, <1>14, LoopClose
<1>20. (cx ++ (b ** x)) ++ (G[j] ** L) = Z[j]
  BY <1>8, <1>11, <1>16, <1>17, <1>18, <1>19
<1>21. QED BY <1>20 DEF cx, b, x, L

\* The last row; above the last cell is the first.
LEMMA LoopRowLast ==
  ASSUME NEW s, NEW C, NEW G, NEW Z, NEW X, LoopColumn(s, C, G, Z, X), NEW n, n = P * N
  PROVE  (s.b[n] ** X[n - 1]) ++ (s.a[n] ** X[n]) ++ (s.c[n] ** X[1]) = s.rhs[n]
<1> DEFINE a == s.a[n]
           r == s.rhs[n]
           bg == G[n - 1]
           bz == Z[n - 1]
           L == X[n]
           p == a -- bg
           pl == p ** L
           gl == bg ** L
           bx == s.b[n] ** X[n - 1]
           cx == s.c[n] ** X[1]
<1>1. n \in Row /\ n - 1 \in Row /\ n - 1 \in 1 .. P * N - 1 /\ 1 \in Row BY ColumnSize
<1>2. a \in Matrix /\ r \in Matrix /\ L \in Matrix /\ s.b[n] \in Matrix /\ s.c[n] \in Matrix
  BY <1>1, LoopTyped
<1>3. X[n - 1] \in Matrix BY <1>1, LoopTyped
<1>4. X[1] \in Matrix BY <1>1, LoopTyped
<1>5. bg \in Matrix /\ bz \in Matrix BY <1>1, LoopSums
<1>6. bx \in Matrix /\ cx \in Matrix BY <1>2, <1>3, <1>4, Closed
<1>7. Regular(p) /\ L = Inverted(p) ** (r -- bz) BY DEF LoopColumn
<1>8. (cx ++ bx) ++ gl = bz BY <1>1, SumsLast
<1> HIDE DEF a, r, bg, bz, L, bx, cx
<1>9. p \in Matrix /\ gl \in Matrix /\ r -- bz \in Matrix BY <1>2, <1>5, Closed
<1>10. pl = r -- bz BY <1>7, <1>9, RightInverseTimes
<1>11. pl ++ bz = r BY <1>2, <1>5, <1>10, Taken
<1>12. a ** L = pl ++ gl BY <1>2, <1>5, DifferenceTimes
<1>13. pl \in Matrix BY <1>9, <1>10
<1> HIDE DEF p, pl, gl
<1>14. (bx ++ (pl ++ gl)) ++ cx = pl ++ ((cx ++ bx) ++ gl) BY <1>6, <1>9, <1>13, LoopEnd
<1>15. (bx ++ (a ** L)) ++ cx = r BY <1>8, <1>11, <1>12, <1>14
<1>16. QED BY <1>15 DEF a, r, L, bx, cx

-----------------------------------------------------------------------------
(* Blocks and cells.                                                        *)
LEMMA Blocks ==
  /\ P * N >= 4 /\ P \in Block /\ 1 \in Block /\ iu(P) = P * N /\ il(1) = 1
  /\ \A b \in Block :
       /\ b \in Nat /\ il(b) \in Nat /\ iu(b) \in Nat /\ il(b) >= 1
       /\ iu(b) = il(b) + N - 1 /\ il(b) < iu(b) /\ il(b) .. iu(b) \subseteq Row
       /\ b < P => b + 1 \in Block /\ il(b + 1) = iu(b) + 1 /\ iu(b) < P * N
       /\ b > 1 => b - 1 \in Block /\ il(b) = iu(b - 1) + 1 /\ il(b) > 1
<1>1. P \in Nat /\ P >= 2 /\ N \in Nat /\ N >= 2 BY Sizes
<1>2. P * N \in Nat /\ P * N >= 4 /\ Row = 1 .. P * N BY ColumnSize
<1>3. Block = 1 .. P BY DEF Block
<1>4. ASSUME NEW b \in Block
      PROVE  /\ b \in Nat /\ il(b) \in Nat /\ iu(b) \in Nat /\ il(b) >= 1
             /\ iu(b) = il(b) + N - 1 /\ il(b) < iu(b) /\ il(b) .. iu(b) \subseteq Row
             /\ b < P => b + 1 \in Block /\ il(b + 1) = iu(b) + 1 /\ iu(b) < P * N
             /\ b > 1 => b - 1 \in Block /\ il(b) = iu(b - 1) + 1 /\ il(b) > 1
  <2>1. b \in Nat /\ 1 <= b /\ b <= P BY <1>1, <1>3
  <2>2. b * N \in Nat /\ (b - 1) * N = b * N - N /\ b * N <= P * N BY <1>1, <2>1
  <2>3. (b - 1) * N \in Nat BY <1>1, <2>1
  <2>4. ((b + 1) - 1) * N = b * N BY <2>1
  <2>5. b < P => b * N < P * N BY <1>1, <2>1
  <2>6. b > 1 => (b - 1) * N > 0 BY <1>1, <2>1
  <2>7. QED BY <1>1, <1>2, <1>3, <2>1, <2>2, <2>3, <2>4, <2>5, <2>6 DEF il, iu
<1>5. il(1) = 1 /\ iu(P) = P * N BY <1>1 DEF il, iu
<1>6. P \in Block /\ 1 \in Block BY <1>1, <1>3
<1>7. P * N >= 4 BY <1>2
<1> HIDE DEF il, iu, Block, Row
<1>8. QED BY <1>4, <1>5, <1>6, <1>7

\* The block of a cell.
BlockOf(j) == (j - 1) \div N + 1

(* Each cell of the column lies in its block,                               *)
LEMMA BlockOfRow ==
  ASSUME NEW j \in Row
  PROVE  BlockOf(j) \in Block /\ j \in il(BlockOf(j)) .. iu(BlockOf(j))
<1>1. P \in Nat /\ P >= 2 /\ N \in Nat /\ N >= 2 BY Sizes
<1>2. j \in 1 .. P * N BY ColumnSize
<1> DEFINE d == (j - 1) \div N
<1>3. d \in Int /\ N * d <= j - 1 /\ j - 1 < N * d + N
  BY <1>1, <1>2
<1> HIDE DEF d
<1>4. d >= 0 BY <1>1, <1>2, <1>3
<1>5. d < P BY <1>1, <1>2, <1>3
<1>6. ((d + 1) - 1) * N = N * d /\ (d + 1) * N = N * d + N BY <1>1, <1>3
<1>7. d + 1 \in Block /\ j \in il(d + 1) .. iu(d + 1)
  BY <1>1, <1>2, <1>3, <1>4, <1>5, <1>6 DEF il, iu, Block
<1>8. QED BY <1>7 DEF BlockOf, d

(* and each cell of a block is a cell of the column that lies in no other   *)
(* block.                                                                   *)
LEMMA RowOfBlock ==
  ASSUME NEW b \in Block, NEW j \in il(b) .. iu(b)
  PROVE  j \in Row /\ BlockOf(j) = b
<1>1. j \in Row BY Blocks
<1>2. BlockOf(j) \in Block /\ j \in il(BlockOf(j)) .. iu(BlockOf(j)) BY <1>1, BlockOfRow
<1> DEFINE c == BlockOf(j)
<1>3. N \in Nat /\ N >= 2 BY Sizes
<1>4. b \in Nat /\ c \in Nat BY <1>2, Blocks
<1> HIDE DEF c
<1>5. (b - 1) * N + 1 <= j /\ j <= b * N /\ (c - 1) * N + 1 <= j /\ j <= c * N
  <2>1. il(b) <= j /\ j <= iu(b) BY Blocks
  <2>2. il(c) <= j /\ j <= iu(c) BY <1>2, Blocks DEF c
  <2>3. QED BY <2>1, <2>2 DEF il, iu
<1>6. (b - 1) * N = b * N - N /\ (c - 1) * N = c * N - N BY <1>3, <1>4
<1>7. ~ (b < c)
  <2> SUFFICES ASSUME b < c PROVE FALSE OBVIOUS
  <2>1. b <= c - 1 BY <1>4
  <2>2. b * N <= (c - 1) * N BY <1>3, <1>4, <2>1
  <2>3. j \in Int /\ b * N \in Int /\ (c - 1) * N \in Int BY <1>3, <1>4, <1>1 DEF Row
  <2>4. QED BY <1>5, <2>2, <2>3
<1>8. ~ (c < b)
  <2> SUFFICES ASSUME c < b PROVE FALSE OBVIOUS
  <2>1. c <= b - 1 BY <1>4
  <2>2. c * N <= (b - 1) * N BY <1>3, <1>4, <2>1
  <2>3. j \in Int /\ c * N \in Int /\ (b - 1) * N \in Int BY <1>3, <1>4, <1>1 DEF Row
  <2>4. QED BY <1>5, <2>2, <2>3
<1>9. QED BY <1>1, <1>4, <1>7, <1>8 DEF c

-----------------------------------------------------------------------------
(* A recursive function is what its definition says when some function is.  *)
(* The recursions of the sweeps share one proof: a record r names the one    *)
(* that is meant and holds what its step uses besides the value before.      *)
Step(r, i, x) ==
  CASE r.of = "forward"   -> ForwardCell(r.s, i, x)
    [] r.of = "loop"      -> PeriodicCell(r.s, i, x)
    [] r.of = "sum"       -> x ++ r.term[i]
    [] r.of = "blocks"    -> Swept(r.i, i, x.up)
    [] r.of = "back"      -> r.cell[i].delta -- (r.cell[i].a ** x)
    [] r.of = "loop back" ->
         r.cell[i].ainv ** (r.cell[i].zeta -- (PeriodicU(r.s, r.b, i) ** x)
                              -- (r.cell[i].gamma ** r.last))

IsUpward(f, a, b, r, start) ==
  f = [i \in a .. b |-> IF i = a THEN start ELSE Step(r, i, f[i - 1])]
IsDownward(f, a, b, r, start) ==
  f = [i \in a .. b |-> IF i = b THEN start ELSE Step(r, i, f[i + 1])]

(* There is a function that is defined by what is below.                    *)
LEMMA RecursionUp ==
  ASSUME NEW a \in Int, NEW b \in Int, a <= b, NEW r, NEW start
  PROVE  \E f : IsUpward(f, a, b, r, start)
<1> DEFINE Sofar(k, f) == f = [i \in a .. k |->
             IF i = a THEN start ELSE Step(r, i, f[i - 1])]
           Has == {k \in Int : \E f : Sofar(k, f)}
<1>1. a \in Has
  <2>1. Sofar(a, [i \in a .. a |-> start]) OBVIOUS
  <2>2. QED BY <2>1
<1>2. ASSUME NEW k \in a .. b - 1, k \in Has PROVE k + 1 \in Has
  <2>1. k \in Int /\ a <= k OBVIOUS
  <2>2. PICK f : Sofar(k, f) BY <1>2
  <2> DEFINE g == [i \in a .. k + 1 |-> IF i = k + 1 THEN Step(r, i, f[k]) ELSE f[i]]
  <2>3. ASSUME NEW i \in a .. k + 1
        PROVE  g[i] = IF i = a THEN start ELSE Step(r, i, g[i - 1])
    <3>1. CASE i = k + 1
      <4>1. i # a /\ i - 1 = k /\ k \in a .. k + 1 /\ k # k + 1
        BY <2>1, <3>1
      <4>2. g[k] = f[k] BY <4>1
      <4>3. QED BY <3>1, <4>1, <4>2
    <3>2. CASE i # k + 1
      <4>1. i \in a .. k BY <2>1, <3>2
      <4>2. g[i] = f[i] BY <3>2
      <4>3. f[i] = IF i = a THEN start ELSE Step(r, i, f[i - 1])
        BY <2>2, <4>1
      <4>4. i # a => i - 1 \in a .. k + 1 /\ i - 1 # k + 1
        BY <2>1, <4>1
      <4>5. i # a => g[i - 1] = f[i - 1] BY <4>4
      <4>6. QED BY <4>2, <4>3, <4>5
    <3>3. QED BY <3>1, <3>2
  <2>4. Sofar(k + 1, g) BY <2>3
  <2>5. k + 1 \in Int BY <2>1
  <2> HIDE DEF Sofar, g
  <2>6. QED BY <2>4, <2>5
<1>3. b \in Has
  <2> HIDE DEF Has
  <2>1. a .. b \subseteq Has BY <1>1, <1>2, Upward
  <2>2. QED BY <2>1
<1>4. QED BY <1>3 DEF IsUpward

(* There is a function that is defined by what is above.                    *)
LEMMA RecursionDown ==
  ASSUME NEW a \in Int, NEW b \in Int, a <= b, NEW r, NEW start
  PROVE  \E f : IsDownward(f, a, b, r, start)
<1> DEFINE Sofar(k, f) == f = [i \in k .. b |->
             IF i = b THEN start ELSE Step(r, i, f[i + 1])]
           Has == {k \in Int : \E f : Sofar(k, f)}
<1>1. b \in Has
  <2>1. Sofar(b, [i \in b .. b |-> start]) OBVIOUS
  <2>2. QED BY <2>1
<1>2. ASSUME NEW k \in a .. b - 1, k + 1 \in Has PROVE k \in Has
  <2>1. k \in Int /\ k < b OBVIOUS
  <2>2. PICK f : Sofar(k + 1, f) BY <1>2
  <2> DEFINE g == [i \in k .. b |-> IF i = k THEN Step(r, i, f[k + 1]) ELSE f[i]]
  <2>3. ASSUME NEW i \in k .. b
        PROVE  g[i] = IF i = b THEN start ELSE Step(r, i, g[i + 1])
    <3>1. CASE i = k
      <4>1. i # b /\ i + 1 = k + 1 /\ k + 1 \in k .. b /\ k # k + 1
        BY <2>1, <3>1
      <4>2. g[k + 1] = f[k + 1] BY <4>1
      <4>3. QED BY <3>1, <4>1, <4>2
    <3>2. CASE i # k
      <4>1. i \in k + 1 .. b BY <2>1, <3>2
      <4>2. g[i] = f[i] BY <3>2
      <4>3. f[i] = IF i = b THEN start ELSE Step(r, i, f[i + 1])
        BY <2>2, <4>1
      <4>4. i # b => i + 1 \in k .. b /\ i + 1 # k
        BY <2>1, <4>1
      <4>5. i # b => g[i + 1] = f[i + 1] BY <4>4
      <4>6. QED BY <4>2, <4>3, <4>5
    <3>3. QED BY <3>1, <3>2
  <2>4. Sofar(k, g) BY <2>3
  <2> HIDE DEF Sofar, g
  <2>5. QED BY <2>1, <2>4
<1>3. a \in Has
  <2> HIDE DEF Has
  <2>1. a .. b \subseteq Has BY <1>1, <1>2, Downward
  <2>2. QED BY <2>1
<1>4. QED BY <1>3 DEF IsDownward

(* ForwardCells satisfies its recursive definition;                         *)
LEMMA ForwardCellsAre ==
  ASSUME NEW s, NEW b \in Block, NEW below
  PROVE  LET f == ForwardCells(s, b, below)
         IN  /\ f[il(b) - 1] = below
             /\ \A i \in il(b) .. iu(b) : f[i] = ForwardCell(s, i, f[i - 1])
<1> DEFINE Cells(f) == f = [i \in il(b) - 1 .. iu(b) |->
             IF i < il(b) THEN below ELSE ForwardCell(s, i, f[i - 1])]
           r == [of |-> "forward", s |-> s]
           cells == ForwardCells(s, b, below)
<1>1. /\ il(b) \in Int /\ iu(b) \in Int /\ il(b) - 1 \in Int /\ il(b) - 1 <= iu(b)
  BY Blocks DEF Summed
<1>2. PICK f : IsUpward(f, il(b) - 1, iu(b), r, below)
  <2> HIDE DEF r
  <2>1. QED BY <1>1, RecursionUp
<1>3. Cells(f)
  <2>1. \A i \in il(b) - 1 .. iu(b) : (i = il(b) - 1) <=> (i < il(b)) BY <1>1
  <2>2. \A i, x : Step(r, i, x) = ForwardCell(s, i, x) BY DEF Step
  <2> HIDE DEF r
  <2>3. \A i \in il(b) - 1 .. iu(b) :
          (IF i = il(b) - 1 THEN below ELSE Step(r, i, f[i - 1]))
            = IF i < il(b) THEN below ELSE ForwardCell(s, i, f[i - 1])
    BY <2>1, <2>2
  <2>4. QED BY <1>2, <2>3 DEF IsUpward
<1>4. Cells(cells)
  <2>1. Cells(CHOOSE g : Cells(g))
    <3> HIDE DEF Cells
    <3>1. QED BY <1>3
  <2>2. cells = CHOOSE g : Cells(g) BY DEF ForwardCells
  <2>3. QED BY <2>1, <2>2
<1> HIDE DEF cells
<1>5. /\ il(b) - 1 \in il(b) - 1 .. iu(b) /\ il(b) - 1 < il(b)
      /\ \A i \in il(b) .. iu(b) : i \in il(b) - 1 .. iu(b) /\ ~ i < il(b)
  BY <1>1
<1>6. QED BY <1>4, <1>5 DEF cells

(* so does PeriodicCells,                                                   *)
LEMMA PeriodicCellsAre ==
  ASSUME NEW s, NEW b \in Block, NEW below
  PROVE  LET f == PeriodicCells(s, b, below)
         IN  /\ f = [i \in il(b) - 1 .. iu(b) |-> f[i]]
             /\ f[il(b) - 1] = below
             /\ \A i \in il(b) .. iu(b) : f[i] = PeriodicCell(s, i, f[i - 1])
<1> DEFINE Cells(f) == f = [i \in il(b) - 1 .. iu(b) |->
             IF i < il(b) THEN below ELSE PeriodicCell(s, i, f[i - 1])]
           r == [of |-> "loop", s |-> s]
           cells == PeriodicCells(s, b, below)
<1>1. /\ il(b) \in Int /\ iu(b) \in Int /\ il(b) - 1 \in Int /\ il(b) - 1 <= iu(b)
  BY Blocks DEF Summed
<1>2. PICK f : IsUpward(f, il(b) - 1, iu(b), r, below)
  <2> HIDE DEF r
  <2>1. QED BY <1>1, RecursionUp
<1>3. Cells(f)
  <2>1. \A i \in il(b) - 1 .. iu(b) : (i = il(b) - 1) <=> (i < il(b)) BY <1>1
  <2>2. \A i, x : Step(r, i, x) = PeriodicCell(s, i, x) BY DEF Step
  <2> HIDE DEF r
  <2>3. \A i \in il(b) - 1 .. iu(b) :
          (IF i = il(b) - 1 THEN below ELSE Step(r, i, f[i - 1]))
            = IF i < il(b) THEN below ELSE PeriodicCell(s, i, f[i - 1])
    BY <2>1, <2>2
  <2>4. QED BY <1>2, <2>3 DEF IsUpward
<1>4. Cells(cells)
  <2>1. Cells(CHOOSE g : Cells(g))
    <3> HIDE DEF Cells
    <3>1. QED BY <1>3
  <2>2. cells = CHOOSE g : Cells(g) BY DEF PeriodicCells
  <2>3. QED BY <2>1, <2>2
<1> HIDE DEF cells
<1>5. /\ il(b) - 1 \in il(b) - 1 .. iu(b) /\ il(b) - 1 < il(b)
      /\ \A i \in il(b) .. iu(b) : i \in il(b) - 1 .. iu(b) /\ ~ i < il(b)
  BY <1>1
<1>6. cells = [i \in il(b) - 1 .. iu(b) |-> cells[i]] BY <1>4
<1>7. QED BY <1>4, <1>5, <1>6 DEF cells

(* Totals,                                                                  *)
LEMMA TotalsAre ==
  ASSUME NEW b \in Block, NEW from, NEW term
  PROVE  LET f == Totals(b, from, term)
         IN  /\ f[il(b) - 1] = from
             /\ \A i \in il(b) .. Summed(b) : f[i] = f[i - 1] ++ term[i]
<1> DEFINE Cells(f) == f = [i \in il(b) - 1 .. Summed(b) |->
             IF i < il(b) THEN from ELSE f[i - 1] ++ term[i]]
           r == [of |-> "sum", term |-> term]
           cells == Totals(b, from, term)
<1>1. /\ il(b) \in Int /\ Summed(b) \in Int /\ il(b) - 1 \in Int /\ il(b) - 1 <= Summed(b)
  BY Blocks DEF Summed
<1>2. PICK f : IsUpward(f, il(b) - 1, Summed(b), r, from)
  <2> HIDE DEF r
  <2>1. QED BY <1>1, RecursionUp
<1>3. Cells(f)
  <2>1. \A i \in il(b) - 1 .. Summed(b) : (i = il(b) - 1) <=> (i < il(b)) BY <1>1
  <2>2. \A i, x : Step(r, i, x) = x ++ term[i] BY DEF Step
  <2> HIDE DEF r
  <2>3. \A i \in il(b) - 1 .. Summed(b) :
          (IF i = il(b) - 1 THEN from ELSE Step(r, i, f[i - 1]))
            = IF i < il(b) THEN from ELSE f[i - 1] ++ term[i]
    BY <2>1, <2>2
  <2>4. QED BY <1>2, <2>3 DEF IsUpward
<1>4. Cells(cells)
  <2>1. Cells(CHOOSE g : Cells(g))
    <3> HIDE DEF Cells
    <3>1. QED BY <1>3
  <2>2. cells = CHOOSE g : Cells(g) BY DEF Totals
  <2>3. QED BY <2>1, <2>2
<1> HIDE DEF cells
<1>5. /\ il(b) - 1 \in il(b) - 1 .. Summed(b) /\ il(b) - 1 < il(b)
      /\ \A i \in il(b) .. Summed(b) : i \in il(b) - 1 .. Summed(b) /\ ~ i < il(b)
  BY <1>1
<1>6. QED BY <1>4, <1>5 DEF cells

(* Eliminations,                                                            *)
LEMMA EliminationsAre ==
  ASSUME NEW i
  PROVE  \A b \in Block :
           Eliminations(i)[b]
             = Swept(i, b, IF b = 1 THEN <<>> ELSE Eliminations(i)[b - 1].up)
<1> DEFINE Sweeps(f) == f = [b \in Block |->
             Swept(i, b, IF b = 1 THEN <<>> ELSE f[b - 1].up)]
           r == [of |-> "blocks", i |-> i]
           sweeps == Eliminations(i)
<1>1. P \in Int /\ 1 \in Int /\ 1 <= P /\ Block = 1 .. P BY Sizes DEF Block
<1>2. PICK f : IsUpward(f, 1, P, r, Swept(i, 1, <<>>))
  <2> HIDE DEF r
  <2>1. QED BY <1>1, RecursionUp
<1>3. Sweeps(f)
  <2>1. \A b, x : Step(r, b, x) = Swept(i, b, x.up) BY DEF Step
  <2> HIDE DEF r
  <2>2. \A b \in Block :
          (IF b = 1 THEN Swept(i, 1, <<>>) ELSE Step(r, b, f[b - 1]))
            = Swept(i, b, IF b = 1 THEN <<>> ELSE f[b - 1].up)
    BY <2>1
  <2>3. QED BY <1>1, <1>2, <2>2 DEF IsUpward
<1>4. Sweeps(sweeps)
  <2>1. Sweeps(CHOOSE g : Sweeps(g))
    <3> HIDE DEF Sweeps
    <3>1. QED BY <1>3
  <2>2. sweeps = CHOOSE g : Sweeps(g) BY DEF Eliminations
  <2>3. QED BY <2>1, <2>2
<1> HIDE DEF sweeps
<1>5. \A b \in Block : sweeps[b] = Swept(i, b, IF b = 1 THEN <<>> ELSE sweeps[b - 1].up)
  BY <1>4
<1>6. QED BY <1>5 DEF sweeps

(* BackwardCells,                                                           *)
LEMMA BackwardCellsAre ==
  ASSUME NEW s, NEW b \in Block, NEW cell, NEW above
  PROVE  LET f == BackwardCells(s, b, cell, above)
         IN  \A i \in il(b) .. iu(b) :
               f[i] = IF i = P * N THEN cell[i].delta
                      ELSE cell[i].delta --
                             (cell[i].a ** (IF i = iu(b) THEN above.delta ELSE f[i + 1]))
<1> DEFINE Delta(f, i) ==
             IF i = P * N THEN cell[i].delta
             ELSE cell[i].delta --
                    (cell[i].a ** (IF i = iu(b) THEN above.delta ELSE f[i + 1]))
           Cells(f) == f = [i \in il(b) .. iu(b) |-> Delta(f, i)]
           r == [of |-> "back", cell |-> cell]
           cells == BackwardCells(s, b, cell, above)
           top == IF iu(b) = P * N THEN cell[iu(b)].delta
                  ELSE cell[iu(b)].delta -- (cell[iu(b)].a ** above.delta)
<1>1. /\ il(b) \in Int /\ iu(b) \in Int /\ il(b) <= iu(b) /\ P * N \in Int
      /\ iu(b) <= P * N
  BY Blocks, ColumnSize
<1>2. PICK f : IsDownward(f, il(b), iu(b), r, top)
  <2> HIDE DEF r, top
  <2>1. QED BY <1>1, RecursionDown
<1>3. Cells(f)
  <2>1. \A i \in il(b) .. iu(b) : i # iu(b) => i # P * N BY <1>1
  <2>2. \A i, x : Step(r, i, x) = cell[i].delta -- (cell[i].a ** x) BY DEF Step
  <2> HIDE DEF r
  <2>3. \A i \in il(b) .. iu(b) :
          (IF i = iu(b) THEN top ELSE Step(r, i, f[i + 1])) = Delta(f, i)
    BY <2>1, <2>2
  <2>4. QED BY <1>2, <2>3 DEF IsDownward
<1>4. Cells(cells)
  <2>1. Cells(CHOOSE g : Cells(g))
    <3> HIDE DEF Cells
    <3>1. QED BY <1>3
  <2>2. cells = CHOOSE g : Cells(g) BY DEF BackwardCells
  <2>3. QED BY <2>1, <2>2
<1> HIDE DEF cells
<1>5. QED BY <1>4 DEF cells

(* and PeriodicBackwardCells.                                               *)
LEMMA PeriodicBackwardCellsAre ==
  ASSUME NEW s, NEW b \in Block, NEW cell, NEW above, NEW last, NEW i \in il(b) .. iu(b)
  PROVE  LET f == PeriodicBackwardCells(s, b, cell, above, last)
             Solution(x) == cell[i].ainv **
               (cell[i].zeta -- (PeriodicU(s, b, i) ** x) -- (cell[i].gamma ** last))
         IN  /\ i = P * N => f[i] = last
             /\ i # P * N /\ i = iu(b) => f[i] = Solution(above.delta)
             /\ i # P * N /\ i # iu(b) => f[i] = Solution(f[i + 1])
<1> DEFINE Delta(f, k) ==
             IF k = P * N THEN last
             ELSE cell[k].ainv **
                    (cell[k].zeta
                       -- (PeriodicU(s, b, k)
                             ** (IF k = iu(b) THEN above.delta ELSE f[k + 1]))
                       -- (cell[k].gamma ** last))
           Cells(f) == f = [k \in il(b) .. iu(b) |-> Delta(f, k)]
           r == [of |-> "loop back", cell |-> cell, s |-> s, b |-> b, last |-> last]
           cells == PeriodicBackwardCells(s, b, cell, above, last)
           top == IF iu(b) = P * N THEN last
                  ELSE cell[iu(b)].ainv **
                         (cell[iu(b)].zeta -- (PeriodicU(s, b, iu(b)) ** above.delta)
                            -- (cell[iu(b)].gamma ** last))
<1>1. /\ il(b) \in Int /\ iu(b) \in Int /\ il(b) <= iu(b) /\ P * N \in Int
      /\ iu(b) <= P * N
  BY Blocks, ColumnSize
<1>2. PICK f : IsDownward(f, il(b), iu(b), r, top)
  <2> HIDE DEF r, top
  <2>1. QED BY <1>1, RecursionDown
<1>3. Cells(f)
  <2>1. \A k \in il(b) .. iu(b) : k # iu(b) => k # P * N BY <1>1
  <2>2. \A k, x : Step(r, k, x)
                    = cell[k].ainv ** (cell[k].zeta -- (PeriodicU(s, b, k) ** x)
                                         -- (cell[k].gamma ** last))
    BY DEF Step
  <2> HIDE DEF r
  <2>3. \A k \in il(b) .. iu(b) :
          (IF k = iu(b) THEN top ELSE Step(r, k, f[k + 1])) = Delta(f, k)
    BY <2>1, <2>2
  <2>4. QED BY <1>2, <2>3 DEF IsDownward
<1>4. Cells(cells)
  <2>1. Cells(CHOOSE g : Cells(g))
    <3> HIDE DEF Cells
    <3>1. QED BY <1>3
  <2>2. cells = CHOOSE g : Cells(g) BY DEF PeriodicBackwardCells
  <2>3. QED BY <2>1, <2>2
<1> HIDE DEF cells
<1>5. cells[i] = Delta(cells, i) BY <1>4
<1>6. QED BY <1>5 DEF cells

-----------------------------------------------------------------------------
(* e[b] and f[b] are what the two sweeps of system i leave in block b and   *)
(* send, from what the block below and the block above have sent; what they *)
(* invert has an inverse.                                                   *)
Under(e, b) == IF b = 1 THEN <<>> ELSE e[b - 1].up
Above(f, b) == IF b = P THEN <<>> ELSE f[b + 1].down
Chained(i, e, f) ==
  LET s == System[i]
  IN  \A b \in Block :
        /\ e[b] = Swept(i, b, Under(e, b))
        /\ f[b] = IF s.periodic THEN PeriodicBackward(s, b, e[b].cell, Above(f, b))
                                ELSE Backward(s, b, e[b].cell, Above(f, b))
        /\ \A j \in il(b) .. iu(b) :
             Regular(IF ~ s.periodic THEN Pivot(s, j, e[b].cell[j - 1])
                     ELSE IF j = P * N THEN Diag(s, j) -- e[b].up.bg
                     ELSE PeriodicPivot(s, j, e[b].cell[j - 1]))

\* The cells of all blocks, as one column.
ColumnCells(e) == [j \in Row |-> e[BlockOf(j)].cell[j]]

(* A cell of the column is one of the block it lies in.                     *)
LEMMA ColumnCell ==
  ASSUME NEW e, NEW b \in Block, NEW j \in il(b) .. iu(b)
  PROVE  ColumnCells(e)[j] = e[b].cell[j]
BY RowOfBlock DEF ColumnCells

\* The block of the cell below a cell, and of the one above it.
LEMMA CellUnder ==
  ASSUME NEW b \in Block, NEW j \in il(b) .. iu(b), j # 1
  PROVE  \/ j - 1 \in il(b) .. iu(b)
         \/ b # 1 /\ j = il(b) /\ b - 1 \in Block /\ j - 1 = iu(b - 1)
              /\ j - 1 \in il(b - 1) .. iu(b - 1)
<1>1. /\ b \in Nat /\ il(b) \in Nat /\ iu(b) \in Nat
      /\ b > 1 => b - 1 \in Block /\ il(b) = iu(b - 1) + 1
  BY Blocks
<1>2. CASE j # il(b) BY <1>1, <1>2
<1>3. CASE j = il(b)
  <2>1. b # 1 BY <1>3, Blocks
  <2>2. b > 1 /\ b - 1 \in Block /\ j - 1 = iu(b - 1)
    <3>1. b \in 1 .. P BY DEF Block
    <3>2. b > 1 BY <1>1, <2>1, <3>1
    <3>3. b - 1 \in Block /\ iu(b - 1) \in Nat BY <1>1, <3>2, Blocks
    <3>4. QED BY <1>1, <1>3, <3>2, <3>3
  <2>3. il(b - 1) \in Nat /\ iu(b - 1) \in Nat /\ il(b - 1) < iu(b - 1) BY <2>2, Blocks
  <2>4. j - 1 \in il(b - 1) .. iu(b - 1) BY <2>2, <2>3
  <2>5. QED BY <1>3, <2>1, <2>2, <2>4
<1>4. QED BY <1>2, <1>3

(* The block of the cell above a cell.                                      *)
LEMMA CellOver ==
  ASSUME NEW b \in Block, NEW j \in il(b) .. iu(b), j # P * N
  PROVE  \/ j # iu(b) /\ j + 1 \in il(b) .. iu(b)
         \/ b # P /\ j = iu(b) /\ b + 1 \in Block /\ j + 1 = il(b + 1)
              /\ j + 1 \in il(b + 1) .. iu(b + 1)
<1>1. /\ b \in Nat /\ il(b) \in Nat /\ iu(b) \in Nat
      /\ b < P => b + 1 \in Block /\ il(b + 1) = iu(b) + 1
  BY Blocks
<1>2. CASE j # iu(b) BY <1>1, <1>2
<1>3. CASE j = iu(b)
  <2>1. b # P BY <1>3, Blocks
  <2>2. b < P
    <3>1. b \in 1 .. P /\ P \in Nat BY Sizes DEF Block
    <3>2. QED BY <1>1, <2>1, <3>1
  <2>3. b + 1 \in Block /\ j + 1 = il(b + 1) BY <1>1, <1>3, <2>2
  <2>4. il(b + 1) \in Nat /\ iu(b + 1) \in Nat /\ il(b + 1) < iu(b + 1) BY <2>3, Blocks
  <2>5. j + 1 \in il(b + 1) .. iu(b + 1) BY <2>3, <2>4
  <2>6. QED BY <1>3, <2>1, <2>3, <2>5
<1>4. QED BY <1>2, <1>3

-----------------------------------------------------------------------------
(* The first cell of a column looks at nothing below it.                    *)
LEMMA ForwardCellFirst ==
  ASSUME NEW s, NEW x, NEW y
  PROVE  Pivot(s, 1, x) = Pivot(s, 1, y) /\ ForwardCell(s, 1, x) = ForwardCell(s, 1, y)
<1>1. Pivot(s, 1, x) = Pivot(s, 1, y) BY DEF Pivot
<1>2. QED BY <1>1 DEF ForwardCell

(* The diagonal, walls included, is a matrix.                               *)
LEMMA DiagTyped ==
  ASSUME NEW s \in SystemType, NEW j \in Row
  PROVE  Diag(s, j) \in Matrix
<1>1. s.a[j] \in Matrix /\ s.b[j] \in Matrix /\ s.c[j] \in Matrix BY SystemTyped
<1>2. s.b[j] ** Bnd \in Matrix /\ s.c[j] ** Bnd \in Matrix BY <1>1, BndTyped, Closed
<1>3. s.a[j] ++ (s.b[j] ** Bnd) \in Matrix /\ s.a[j] ++ (s.c[j] ** Bnd) \in Matrix
  BY <1>1, <1>2, Closed
<1>4. QED BY <1>1, <1>3 DEF Diag

OpenCell == [a : Matrix, delta : Matrix]

(* ForwardCell leaves matrices.                                             *)
LEMMA ForwardCellTyped ==
  ASSUME NEW s \in SystemType, NEW j \in Row, NEW x, j # 1 => x \in OpenCell
  PROVE  ForwardCell(s, j, x) \in OpenCell
<1> DEFINE p == Pivot(s, j, x)
           v == Inverted(p)
           r == IF j = 1 THEN s.rhs[j] ELSE s.rhs[j] -- (s.b[j] ** x.delta)
<1>1. /\ s.b[j] \in Matrix /\ s.c[j] \in Matrix /\ s.rhs[j] \in Matrix
      /\ Diag(s, j) \in Matrix
  BY SystemTyped, DiagTyped
<1>2. j # 1 => x.a \in Matrix /\ x.delta \in Matrix BY DEF OpenCell
<1>3. j # 1 => s.b[j] ** x.a \in Matrix /\ s.b[j] ** x.delta \in Matrix
  BY <1>1, <1>2, Closed
<1>4. j # 1 => /\ Diag(s, j) -- (s.b[j] ** x.a) \in Matrix
              /\ s.rhs[j] -- (s.b[j] ** x.delta) \in Matrix
  BY <1>1, <1>3, Closed
<1>5. p \in Matrix /\ r \in Matrix BY <1>1, <1>4 DEF Pivot
<1>6. ForwardCell(s, j, x) = [a |-> v ** s.c[j], delta |-> v ** r] BY DEF ForwardCell
<1> HIDE DEF p, r
<1>7. v \in Matrix BY <1>5, InvertedTyped
<1>8. v ** s.c[j] \in Matrix /\ v ** r \in Matrix BY <1>1, <1>5, <1>7, Closed
<1>9. QED BY <1>6, <1>8 DEF OpenCell

(* What the sweeps of an open system leave and send.                        *)
LEMMA OpenParts ==
  ASSUME NEW s, NEW b, NEW x
  PROVE  /\ Forward(s, b, x).cell = ForwardCells(s, b, x)
         /\ Forward(s, b, x).up = Forward(s, b, x).cell[iu(b)]
         /\ \A cell : /\ Backward(s, b, cell, x).cell = BackwardCells(s, b, cell, x)
                     /\ Backward(s, b, cell, x).down.delta
                          = Backward(s, b, cell, x).cell[il(b)]
BY DEF Forward, Backward

(* Put together, the blocks of an open system make one elimination and one  *)
(* substitution of the column.                                              *)
LEMMA OpenCells ==
  ASSUME NEW i \in Solve, ~ System[i].periodic, NEW e, NEW f, Chained(i, e, f),
         NEW b \in Block, NEW j \in il(b) .. iu(b)
  PROVE  LET s == System[i]
             C == ColumnCells(e)
             X == ColumnCells(f)
         IN  /\ Regular(Pivot(s, j, C[j - 1])) /\ C[j] = ForwardCell(s, j, C[j - 1])
             /\ X[j] = IF j = P * N THEN C[j].delta
                       ELSE C[j].delta -- (C[j].a ** X[j + 1])
<1> DEFINE s == System[i]
           C == ColumnCells(e)
           X == ColumnCells(f)
           below == Under(e, b)
<1>1. \A d \in Block : /\ e[d] = Forward(s, d, Under(e, d))
                       /\ f[d] = Backward(s, d, e[d].cell, Above(f, d))
  <2> TAKE d \in Block
  <2>1. e[d] = Swept(i, d, Under(e, d))
          /\ f[d] = IF s.periodic THEN PeriodicBackward(s, d, e[d].cell, Above(f, d))
                                  ELSE Backward(s, d, e[d].cell, Above(f, d))
    BY DEF Chained
  <2>2. Swept(i, d, Under(e, d)) = Forward(s, d, Under(e, d)) BY DEF Swept
  <2>3. QED BY <2>1, <2>2
<1>2. \A d \in Block : e[d].up = e[d].cell[iu(d)] /\ f[d].down.delta = f[d].cell[il(d)]
  <2> TAKE d \in Block
  <2>1. PICK y : y = Under(e, d) OBVIOUS
  <2>2. PICK z : z = Above(f, d) OBVIOUS
  <2>3. PICK c : c = e[d].cell OBVIOUS
  <2>4. e[d] = Forward(s, d, y) /\ f[d] = Backward(s, d, c, z) BY <1>1, <2>1, <2>2, <2>3
  <2>5. Forward(s, d, y).up = Forward(s, d, y).cell[iu(d)] BY OpenParts
  <2>6. Backward(s, d, c, z).down.delta = Backward(s, d, c, z).cell[il(d)] BY DEF Backward
  <2>7. QED BY <2>4, <2>5, <2>6
<1>3. /\ e[b].cell = ForwardCells(s, b, below)
      /\ f[b].cell = BackwardCells(s, b, e[b].cell, Above(f, b))
  <2>1. /\ e[b] = Forward(s, b, below)
        /\ f[b] = Backward(s, b, e[b].cell, Above(f, b))
    BY <1>1
  <2> HIDE DEF below, s
  <2>2. Forward(s, b, below).cell = ForwardCells(s, b, below) BY OpenParts
  <2>3. Backward(s, b, e[b].cell, Above(f, b)).cell
          = BackwardCells(s, b, e[b].cell, Above(f, b))
    BY OpenParts
  <2>4. QED BY <2>1, <2>2, <2>3
<1>4. e[b].cell[j] = ForwardCell(s, j, e[b].cell[j - 1])
  BY <1>3, ForwardCellsAre
<1>5. j # 1 => e[b].cell[j - 1] = C[j - 1]
  <2> SUFFICES ASSUME j # 1 PROVE e[b].cell[j - 1] = C[j - 1] OBVIOUS
  <2>1. CASE j - 1 \in il(b) .. iu(b) BY <2>1, ColumnCell
  <2>2. CASE b # 1 /\ j = il(b) /\ b - 1 \in Block /\ j - 1 = iu(b - 1)
               /\ j - 1 \in il(b - 1) .. iu(b - 1)
    <3>1. e[b].cell[il(b) - 1] = below BY <1>3, ForwardCellsAre
    <3>2. below = e[b - 1].cell[j - 1] BY <1>2, <2>2 DEF Under
    <3>3. C[j - 1] = e[b - 1].cell[j - 1] BY <2>2, ColumnCell
    <3>4. QED BY <2>2, <3>1, <3>2, <3>3
  <2>3. QED BY <2>1, <2>2, CellUnder
<1>6. C[j] = e[b].cell[j] /\ X[j] = f[b].cell[j] BY ColumnCell
<1>7. Regular(Pivot(s, j, e[b].cell[j - 1])) BY DEF Chained
<1>8. Regular(Pivot(s, j, C[j - 1])) /\ C[j] = ForwardCell(s, j, C[j - 1])
  <2>1. CASE j = 1 BY <1>4, <1>6, <1>7, <2>1, ForwardCellFirst
  <2>2. CASE j # 1 BY <1>4, <1>5, <1>6, <1>7, <2>2
  <2>3. QED BY <2>1, <2>2
<1>9. X[j] = IF j = P * N THEN C[j].delta ELSE C[j].delta -- (C[j].a ** X[j + 1])
  <2>1. f[b].cell[j] = IF j = P * N THEN e[b].cell[j].delta
                       ELSE e[b].cell[j].delta --
                              (e[b].cell[j].a
                                 ** (IF j = iu(b) THEN Above(f, b).delta ELSE f[b].cell[j + 1]))
    <3> DEFINE k == e[b].cell
               x == Above(f, b)
    <3> HIDE DEF k, x
    <3>1. BackwardCells(s, b, k, x)[j]
            = IF j = P * N THEN k[j].delta
              ELSE k[j].delta --
                     (k[j].a ** (IF j = iu(b) THEN x.delta
                                 ELSE BackwardCells(s, b, k, x)[j + 1]))
      BY BackwardCellsAre
    <3>2. f[b].cell = BackwardCells(s, b, k, x) BY <1>3 DEF k, x
    <3>3. QED BY <3>1, <3>2 DEF k, x
  <2>2. j # P * N => (IF j = iu(b) THEN Above(f, b).delta ELSE f[b].cell[j + 1]) = X[j + 1]
    <3> SUFFICES ASSUME j # P * N
                 PROVE (IF j = iu(b) THEN Above(f, b).delta ELSE f[b].cell[j + 1]) = X[j + 1]
      OBVIOUS
    <3>1. CASE j # iu(b) /\ j + 1 \in il(b) .. iu(b) BY <3>1, ColumnCell
    <3>2. CASE b # P /\ j = iu(b) /\ b + 1 \in Block /\ j + 1 = il(b + 1)
                 /\ j + 1 \in il(b + 1) .. iu(b + 1)
      <4>1. Above(f, b).delta = f[b + 1].cell[j + 1] BY <1>2, <3>2 DEF Above
      <4>2. X[j + 1] = f[b + 1].cell[j + 1] BY <3>2, ColumnCell
      <4>3. QED BY <3>2, <4>1, <4>2
    <3>3. QED BY <3>1, <3>2, CellOver
  <2>3. QED BY <1>6, <2>1, <2>2
<1>10. QED BY <1>8, <1>9

(* So that they are an open column.                                         *)
LEMMA OpenSystem ==
  ASSUME NEW i \in Solve, ~ System[i].periodic, NEW e, NEW f, Chained(i, e, f)
  PROVE  OpenColumn(System[i], ColumnCells(e), ColumnCells(f))
<1> DEFINE s == System[i]
           C == ColumnCells(e)
           X == ColumnCells(f)
<1>1. \A j \in Row :
        /\ Regular(Pivot(s, j, C[j - 1])) /\ C[j] = ForwardCell(s, j, C[j - 1])
        /\ X[j] = IF j = P * N THEN C[j].delta ELSE C[j].delta -- (C[j].a ** X[j + 1])
  <2> SUFFICES ASSUME NEW j \in Row
               PROVE  /\ Regular(Pivot(s, j, C[j - 1])) /\ C[j] = ForwardCell(s, j, C[j - 1])
                      /\ X[j] = IF j = P * N THEN C[j].delta
                                ELSE C[j].delta -- (C[j].a ** X[j + 1])
    OBVIOUS
  <2>1. BlockOf(j) \in Block /\ j \in il(BlockOf(j)) .. iu(BlockOf(j)) BY BlockOfRow
  <2>2. QED BY <2>1, OpenCells
<1>2. s \in SystemType BY Sizes
<1>3. P * N \in Nat /\ P * N >= 4 /\ Row = 1 .. P * N BY ColumnSize
<1>4. \A j \in Row : C[j] \in OpenCell
  <2> DEFINE S == {j \in Int : C[j] \in OpenCell}
  <2>1. 1 \in S
    <3>1. ForwardCell(s, 1, C[1 - 1]) \in OpenCell BY <1>2, <1>3, ForwardCellTyped
    <3>2. QED BY <1>1, <1>3, <3>1
  <2>2. ASSUME NEW j \in 1 .. P * N - 1, j \in S PROVE j + 1 \in S
    <3>1. j + 1 \in Row /\ j + 1 # 1 /\ (j + 1) - 1 = j /\ j + 1 \in Int BY <1>3
    <3>2. C[(j + 1) - 1] \in OpenCell BY <2>2, <3>1
    <3>3. C[j + 1] = ForwardCell(s, j + 1, C[(j + 1) - 1]) BY <1>1, <3>1
    <3> HIDE DEF C
    <3>4. ForwardCell(s, j + 1, C[(j + 1) - 1]) \in OpenCell
      BY <1>2, <3>1, <3>2, ForwardCellTyped
    <3>5. QED BY <3>1, <3>3, <3>4
  <2>3. 1 .. P * N \subseteq S
    <3> HIDE DEF S
    <3>1. P * N \in Int /\ 1 \in Int BY <1>3
    <3>2. QED BY <2>1, <2>2, <3>1, Upward
  <2>4. QED BY <1>3, <2>3
<1>5. \A j \in Row : X[j] \in Matrix
  <2> DEFINE S == {j \in Int : X[j] \in Matrix}
  <2>1. P * N \in S
    <3>1. P * N \in Row BY <1>3
    <3>2. C[P * N].delta \in Matrix BY <1>4, <3>1 DEF OpenCell
    <3>3. QED BY <1>1, <1>3, <3>1, <3>2
  <2>2. ASSUME NEW j \in 1 .. P * N - 1, j + 1 \in S PROVE j \in S
    <3>1. j \in Row /\ j # P * N /\ j \in Int BY <1>3
    <3>2. X[j + 1] \in Matrix BY <2>2
    <3>3. C[j].delta \in Matrix /\ C[j].a \in Matrix BY <1>4, <3>1 DEF OpenCell
    <3>4. X[j] = C[j].delta -- (C[j].a ** X[j + 1]) BY <1>1, <3>1
    <3> HIDE DEF C, X
    <3>5. C[j].a ** X[j + 1] \in Matrix BY <3>2, <3>3, Closed
    <3>6. X[j] \in Matrix BY <3>3, <3>4, <3>5, Closed
    <3>7. QED BY <3>1, <3>6
  <2>3. 1 .. P * N \subseteq S
    <3> HIDE DEF S
    <3>1. P * N \in Int /\ 1 \in Int BY <1>3
    <3>2. QED BY <2>1, <2>2, <3>1, Downward
  <2>4. QED BY <1>3, <2>3
<1>6. /\ C \in [Row -> [a : Matrix, delta : Matrix]]
      /\ X \in [Row -> Matrix]
  BY <1>4, <1>5 DEF ColumnCells, OpenCell
<1>7. QED BY <1>1, <1>2, <1>6 DEF OpenColumn

-----------------------------------------------------------------------------
(* Sums that the blocks carry on from one to the next are sums over the     *)
(* column, up to the cell before its last.                                  *)
Before(u, b) == IF b = 1 THEN Zero ELSE u[b - 1]

(* Sums that each block carries on from the block below are sums over the   *)
(* column.                                                                  *)
LEMMA ColumnSums ==
  ASSUME NEW u, NEW term, \A b \in Block : u[b] = Total(b, Before(u, b), term[b]),
         \A b \in Block : \A j \in il(b) .. Summed(b) : term[b][j] \in Matrix
  PROVE  \E G \in [0 .. P * N - 1 -> Matrix] :
           /\ G[0] = Zero /\ u[P] = G[P * N - 1]
           /\ \A j \in 1 .. P * N - 1 : G[j] = G[j - 1] ++ term[BlockOf(j)][j]
<1> DEFINE n == P * N
           T(c) == Totals(c, Before(u, c), term[c])
           G == [j \in 0 .. n - 1 |-> IF j = 0 THEN Zero ELSE T(BlockOf(j))[j]]
<1>1. n \in Nat /\ n >= 4 /\ Row = 1 .. n /\ P \in Block /\ iu(P) = n /\ P \in Nat
  BY ColumnSize, Blocks, Sizes
<1>2. \A b \in Block : u[b] = T(b)[Summed(b)] BY DEF Total
<1>3. \A b \in Block : /\ T(b)[il(b) - 1] = Before(u, b)
                       /\ \A j \in il(b) .. Summed(b) : T(b)[j] = T(b)[j - 1] ++ term[b][j]
  BY TotalsAre
<1> HIDE DEF T
<1>4. \A b \in Block : \A j \in il(b) .. iu(b) : j # n => j \in il(b) .. Summed(b)
  <2> SUFFICES ASSUME NEW b \in Block, NEW j \in il(b) .. iu(b), j # n
               PROVE  j \in il(b) .. Summed(b)
    OBVIOUS
  <2>1. iu(b) \in Nat /\ il(b) \in Nat BY Blocks
  <2>2. QED BY <1>1, <2>1 DEF Summed
<1>5. ASSUME NEW b \in Block, NEW j \in il(b) .. iu(b), j # 1
      PROVE  T(b)[j - 1] = T(BlockOf(j - 1))[j - 1]
  <2>1. CASE j - 1 \in il(b) .. iu(b)
    <3>1. BlockOf(j - 1) = b BY <2>1, RowOfBlock
    <3>2. QED BY <3>1
  <2>2. CASE b # 1 /\ j = il(b) /\ b - 1 \in Block /\ j - 1 = iu(b - 1)
               /\ j - 1 \in il(b - 1) .. iu(b - 1)
    <3>1. BlockOf(j - 1) = b - 1 BY <2>2, RowOfBlock
    <3>2. T(b)[j - 1] = u[b - 1] BY <1>3, <2>2 DEF Before
    <3>3. Summed(b - 1) = iu(b - 1)
      <4>1. b \in 1 .. P BY DEF Block
      <4>2. b - 1 # P BY <1>1, <4>1
      <4>3. QED BY <4>2 DEF Summed
    <3>4. u[b - 1] = T(b - 1)[j - 1] BY <1>2, <2>2, <3>3
    <3>5. QED BY <3>1, <3>2, <3>4
  <2>3. QED BY <1>5, <2>1, <2>2, CellUnder
<1>6. \A j \in 1 .. n - 1 : G[j] = G[j - 1] ++ term[BlockOf(j)][j]
  <2> SUFFICES ASSUME NEW j \in 1 .. n - 1
               PROVE  G[j] = G[j - 1] ++ term[BlockOf(j)][j]
    OBVIOUS
  <2> DEFINE b == BlockOf(j)
  <2>1. j \in Row /\ j # n /\ j # 0 /\ j \in 0 .. n - 1 /\ j - 1 \in 0 .. n - 1 BY <1>1
  <2>2. b \in Block /\ j \in il(b) .. iu(b) BY <2>1, BlockOfRow
  <2>3. G[j] = T(b)[j] BY <2>1
  <2> HIDE DEF b
  <2>4. j \in il(b) .. Summed(b) BY <1>4, <2>1, <2>2
  <2>5. T(b)[j] = T(b)[j - 1] ++ term[b][j] BY <1>3, <2>2, <2>4
  <2>6. T(b)[j - 1] = G[j - 1]
    <3>1. CASE j = 1
      <4>1. b = 1
        <5>1. 1 \in Block /\ 1 \in il(1) .. iu(1)
          <6>1. 1 \in Block /\ il(1) = 1 /\ iu(1) \in Nat /\ il(1) < iu(1) BY Blocks
          <6>2. QED BY <6>1
        <5>2. QED BY <3>1, <5>1, RowOfBlock DEF b
      <4>2. T(b)[j - 1] = Zero
        <5>1. il(b) - 1 = j - 1 BY <3>1, <4>1, Blocks
        <5>2. QED BY <1>3, <2>2, <4>1, <5>1 DEF Before
      <4>3. QED BY <2>1, <3>1, <4>2
    <3>2. CASE j # 1
      <4>1. T(b)[j - 1] = T(BlockOf(j - 1))[j - 1] BY <1>5, <2>2, <3>2
      <4>2. j - 1 # 0 BY <3>2
      <4>3. QED BY <2>1, <4>1, <4>2
    <3>3. QED BY <3>1, <3>2
  <2>7. QED BY <2>3, <2>5, <2>6 DEF b
<1>7. u[P] = G[n - 1]
  <2>1. Summed(P) = n - 1 BY <1>1 DEF Summed
  <2>2. n - 1 \in il(P) .. iu(P)
    <3>1. il(P) \in Nat /\ il(P) < iu(P) BY <1>1, Blocks
    <3>2. QED BY <1>1, <3>1
  <2>3. BlockOf(n - 1) = P BY <1>1, <2>2, RowOfBlock
  <2>4. n - 1 \in 0 .. n - 1 /\ n - 1 # 0 BY <1>1
  <2>5. QED BY <1>1, <1>2, <2>1, <2>3, <2>4
<1>8. G[0] = Zero BY <1>1
<1>9. G \in [0 .. n - 1 -> Matrix]
  <2> DEFINE S == {j \in Int : G[j] \in Matrix}
  <2>1. 0 \in S BY <1>8, ZeroTyped
  <2>2. ASSUME NEW j \in 0 .. (n - 1) - 1, j \in S PROVE j + 1 \in S
    <3>1. /\ j + 1 \in 1 .. n - 1 /\ j + 1 \in Row /\ j + 1 # n /\ (j + 1) - 1 = j
          /\ j + 1 \in Int
      BY <1>1
    <3>2. /\ BlockOf(j + 1) \in Block
          /\ j + 1 \in il(BlockOf(j + 1)) .. iu(BlockOf(j + 1))
      BY <3>1, BlockOfRow
    <3>3. term[BlockOf(j + 1)][j + 1] \in Matrix BY <1>4, <3>1, <3>2
    <3>4. G[j + 1] = G[j] ++ term[BlockOf(j + 1)][j + 1] BY <1>6, <3>1
    <3>5. G[j] \in Matrix BY <2>2
    <3> HIDE DEF G
    <3>6. G[j + 1] \in Matrix BY <3>3, <3>4, <3>5, Closed
    <3>7. QED BY <3>1, <3>6
  <2>3. 0 .. n - 1 \subseteq S
    <3> HIDE DEF S, n
    <3>1. n - 1 \in Int /\ 0 \in Int BY <1>1
    <3>2. QED BY <2>1, <2>2, <3>1, Upward
  <2>4. \A j \in 0 .. n - 1 : G[j] \in Matrix BY <2>3
  <2>5. QED BY <2>4
<1> HIDE DEF G
<1>10. QED BY <1>6, <1>7, <1>8, <1>9

-----------------------------------------------------------------------------
(* The parts of a block's elimination in a periodic system.                 *)
Raw(s, b, x) == PeriodicCells(s, b, IF b = 1 THEN <<>> ELSE x.cell)
Together(s, b, x) == Joined(s, b, Raw(s, b, x))
Gammas(s, b, x) ==
  [j \in il(b) .. iu(b) |-> Together(s, b, x)[j].beta ** Together(s, b, x)[j].gamma]
Zetas(s, b, x) ==
  [j \in il(b) .. iu(b) |-> Together(s, b, x)[j].beta ** Together(s, b, x)[j].zeta]

(* What PeriodicForward sends up.                                           *)
LEMMA LoopUp ==
  ASSUME NEW s, NEW b, NEW x
  PROVE  /\ PeriodicForward(s, b, x).up.cell = Together(s, b, x)[iu(b)]
         /\ PeriodicForward(s, b, x).up.bg
              = Total(b, IF b = 1 THEN Zero ELSE x.bg, Gammas(s, b, x))
         /\ PeriodicForward(s, b, x).up.bz
              = Total(b, IF b = 1 THEN Zero ELSE x.bz, Zetas(s, b, x))
BY DEF PeriodicForward, Together, Raw, Gammas, Zetas

(* The cells PeriodicForward leaves.                                        *)
LEMMA LoopCellsLeft ==
  ASSUME NEW s, NEW b, NEW x
  PROVE  LET y == PeriodicForward(s, b, x)
             n == iu(b)
         IN  y.cell = IF b < P THEN Together(s, b, x)
                      ELSE [Together(s, b, x) EXCEPT
                              ![n].ainv = Inverted(Diag(s, n) -- y.up.bg),
                              ![n].zeta = s.rhs[n] -- y.up.bz]
BY DEF PeriodicForward, Together, Raw, Gammas, Zetas

(* What PeriodicBackward leaves and sends down.                             *)
LEMMA LoopBackParts ==
  ASSUME NEW s, NEW b, NEW cell, NEW x
  PROVE  LET y == PeriodicBackward(s, b, cell, x)
             last == y.down.last
         IN  /\ last = IF b = P THEN cell[iu(b)].ainv ** cell[iu(b)].zeta ELSE x.last
             /\ y.cell = PeriodicBackwardCells(s, b, cell, x, last)
             /\ y.down.delta = y.cell[il(b)]
BY DEF PeriodicBackward

(* The first cell of a periodic column looks at nothing below it.           *)
LEMMA PeriodicCellFirst ==
  ASSUME NEW s, NEW x, NEW y
  PROVE  /\ PeriodicPivot(s, 1, x) = PeriodicPivot(s, 1, y)
         /\ PeriodicCell(s, 1, x) = PeriodicCell(s, 1, y)
<1>1. PeriodicPivot(s, 1, x) = PeriodicPivot(s, 1, y) BY DEF PeriodicPivot
<1>2. QED BY <1>1 DEF PeriodicCell

(* PeriodicCell leaves matrices.                                            *)
LEMMA PeriodicCellTyped ==
  ASSUME NEW s \in SystemType, NEW j \in Row, NEW x, j # 1 => x \in LoopCell
  PROVE  PeriodicCell(s, j, x) \in LoopCell
<1> DEFINE p == PeriodicPivot(s, j, x)
           v == Inverted(p)
           u == DiagU(s, j - 1)
           left == s.b[j] ** x.ainv
<1>1. /\ s.b[j] \in Matrix /\ s.rhs[j] \in Matrix /\ Diag(s, j) \in Matrix
  BY SystemTyped, DiagTyped
<1>2. u \in Matrix
  <2>1. P * N \in Row /\ (j - 1 # 0 => j - 1 \in Row) BY ColumnSize
  <2>2. QED BY <2>1, SystemTyped DEF DiagU
<1>3. j # 1 => /\ x.ainv \in Matrix /\ x.gamma \in Matrix
              /\ x.beta \in Matrix /\ x.zeta \in Matrix
  BY DEF LoopCell
<1> HIDE DEF u
<1>4. j # 1 => left \in Matrix BY <1>1, <1>3, Closed
<1> HIDE DEF left
<1>5. j # 1 => /\ left ** u \in Matrix /\ left ** x.gamma \in Matrix
              /\ left ** x.zeta \in Matrix /\ x.beta ** u \in Matrix
  BY <1>2, <1>3, <1>4, Closed
<1>6. j # 1 => /\ Diag(s, j) -- (left ** u) \in Matrix
              /\ Zero -- (left ** x.gamma) \in Matrix
              /\ s.rhs[j] -- (left ** x.zeta) \in Matrix
  BY <1>1, <1>5, ZeroTyped, Closed
<1>7. p \in Matrix BY <1>1, <1>6 DEF PeriodicPivot, left, u
<1> HIDE DEF p
<1>8. v \in Matrix BY <1>7, InvertedTyped
<1> HIDE DEF v
<1>9. u ** v \in Matrix /\ (j # 1 => (x.beta ** u) ** v \in Matrix)
  BY <1>2, <1>5, <1>8, Closed
<1>10. j # 1 => Zero -- ((x.beta ** u) ** v) \in Matrix BY <1>9, ZeroTyped, Closed
<1>11. CASE j = 1
  <2>1. PeriodicCell(s, j, x)
          = [ainv |-> v, gamma |-> s.b[j], beta |-> u ** v, zeta |-> s.rhs[j]]
    BY <1>11 DEF PeriodicCell, v, p, u
  <2>2. QED BY <1>1, <1>8, <1>9, <2>1 DEF LoopCell
<1>12. CASE j # 1
  <2>1. PeriodicCell(s, j, x)
          = [ainv |-> v, gamma |-> Zero -- (left ** x.gamma),
             beta |-> Zero -- ((x.beta ** u) ** v), zeta |-> s.rhs[j] -- (left ** x.zeta)]
    BY <1>12 DEF PeriodicCell, v, p, u, left
  <2>2. QED BY <1>6, <1>8, <1>10, <1>12, <2>1 DEF LoopCell
<1>13. QED BY <1>11, <1>12

-----------------------------------------------------------------------------
(* What the elimination of a periodic system has left in the cells.         *)
LoopChained(i, e, f) == i \in Solve /\ System[i].periodic /\ Chained(i, e, f)

(* The sweeps of a periodic system.                                         *)
LEMMA LoopBlocks ==
  ASSUME NEW i, NEW e, NEW f, LoopChained(i, e, f), NEW b \in Block
  PROVE  /\ e[b] = PeriodicForward(System[i], b, Under(e, b))
         /\ f[b] = PeriodicBackward(System[i], b, e[b].cell, Above(f, b))
BY DEF LoopChained, Chained, Swept

RawCells(i, e) == [j \in Row |-> Raw(System[i], BlockOf(j), Under(e, BlockOf(j)))[j]]

\* The cells before the last block joins the corners.
LEMMA RawUnder ==
  ASSUME NEW i, NEW e, NEW f, LoopChained(i, e, f), NEW b \in Block,
         NEW j \in il(b) .. iu(b), j # 1
  PROVE  Raw(System[i], b, Under(e, b))[j - 1] = RawCells(i, e)[j - 1]
<1> DEFINE s == System[i]
           R(c) == Raw(s, c, Under(e, c))
<1>1. CASE j - 1 \in il(b) .. iu(b)
  <2>1. j - 1 \in Row /\ BlockOf(j - 1) = b BY <1>1, RowOfBlock
  <2>2. QED BY <2>1 DEF RawCells
<1>2. CASE b # 1 /\ j = il(b) /\ b - 1 \in Block /\ j - 1 = iu(b - 1)
             /\ j - 1 \in il(b - 1) .. iu(b - 1)
  <2>1. j - 1 \in Row /\ BlockOf(j - 1) = b - 1 BY <1>2, RowOfBlock
  <2>2. R(b)[il(b) - 1] = Under(e, b).cell
    <3> DEFINE x == Under(e, b)
    <3> HIDE DEF x
    <3>1. Raw(s, b, x) = PeriodicCells(s, b, x.cell) BY <1>2 DEF Raw
    <3>2. PeriodicCells(s, b, x.cell)[il(b) - 1] = x.cell BY PeriodicCellsAre
    <3>3. Raw(s, b, x)[il(b) - 1] = x.cell BY <3>1, <3>2
    <3>4. QED BY <3>3 DEF x
  <2>3. Under(e, b) = e[b - 1].up BY <1>2 DEF Under
  <2>4. e[b - 1].up.cell = Together(s, b - 1, Under(e, b - 1))[iu(b - 1)]
    <3> DEFINE d == b - 1
               x == Under(e, b - 1)
    <3>1. e[d] = PeriodicForward(s, d, x) BY <1>2, LoopBlocks
    <3> HIDE DEF s, d, x
    <3>2. PeriodicForward(s, d, x).up.cell = Together(s, d, x)[iu(d)] BY LoopUp
    <3>3. QED BY <3>1, <3>2 DEF s, d, x
  <2>5. b - 1 < P
    <3>1. b \in 1 .. P /\ P \in Nat BY Sizes DEF Block
    <3>2. QED BY <3>1
  <2>6. Together(s, b - 1, Under(e, b - 1)) = R(b - 1) BY <2>5 DEF Together, Joined
  <2>7. RawCells(i, e)[j - 1] = R(b - 1)[j - 1] BY <2>1 DEF RawCells
  <2> HIDE DEF R
  <2>8. R(b)[j - 1] = RawCells(i, e)[j - 1] BY <1>2, <2>2, <2>3, <2>4, <2>6, <2>7
  <2>9. QED BY <2>8 DEF R
<1>3. QED BY <1>1, <1>2, CellUnder

(* Before the corners are joined, the cells are one elimination of the      *)
(* column,                                                                  *)
LEMMA RawCell ==
  ASSUME NEW i, NEW e, NEW f, LoopChained(i, e, f), NEW j \in Row
  PROVE  RawCells(i, e)[j] = PeriodicCell(System[i], j, RawCells(i, e)[j - 1])
<1> DEFINE s == System[i]
           b == BlockOf(j)
           x == Under(e, b)
           below == IF b = 1 THEN <<>> ELSE x.cell
<1>1. b \in Block /\ j \in il(b) .. iu(b) BY BlockOfRow
<1>2. RawCells(i, e)[j] = Raw(s, b, x)[j] BY DEF RawCells
<1>3. j # 1 => Raw(s, b, x)[j - 1] = RawCells(i, e)[j - 1] BY <1>1, RawUnder
<1> HIDE DEF s, b, x
<1>4. Raw(s, b, x)[j] = PeriodicCell(s, j, Raw(s, b, x)[j - 1])
  <2>1. Raw(s, b, x) = PeriodicCells(s, b, below) BY DEF Raw
  <2> HIDE DEF below
  <2>2. PeriodicCells(s, b, below)[j] = PeriodicCell(s, j, PeriodicCells(s, b, below)[j - 1])
    BY <1>1, PeriodicCellsAre
  <2>3. QED BY <2>1, <2>2
<1>5. CASE j = 1 BY <1>2, <1>4, <1>5, PeriodicCellFirst DEF s
<1>6. CASE j # 1 BY <1>2, <1>3, <1>4, <1>6 DEF s
<1>7. QED BY <1>5, <1>6

(* and they are matrices.                                                   *)
LEMMA RawTyped ==
  ASSUME NEW i, NEW e, NEW f, LoopChained(i, e, f)
  PROVE  \A j \in Row : RawCells(i, e)[j] \in LoopCell
<1> DEFINE s == System[i]
           R == RawCells(i, e)
           S == {j \in Int : R[j] \in LoopCell}
<1>1. s \in SystemType BY Sizes DEF LoopChained
<1>2. P * N \in Nat /\ P * N >= 4 /\ Row = 1 .. P * N BY ColumnSize
<1>3. \A j \in Row : R[j] = PeriodicCell(s, j, R[j - 1]) BY RawCell
<1> HIDE DEF R, s
<1>4. 1 \in S
  <2>1. PeriodicCell(s, 1, R[1 - 1]) \in LoopCell BY <1>1, <1>2, PeriodicCellTyped
  <2>2. QED BY <1>2, <1>3, <2>1
<1>5. ASSUME NEW j \in 1 .. P * N - 1, j \in S PROVE j + 1 \in S
  <2>1. j + 1 \in Row /\ j + 1 # 1 /\ (j + 1) - 1 = j /\ j + 1 \in Int BY <1>2
  <2>2. R[(j + 1) - 1] \in LoopCell BY <1>5, <2>1
  <2>3. R[j + 1] = PeriodicCell(s, j + 1, R[(j + 1) - 1]) BY <1>3, <2>1
  <2>4. PeriodicCell(s, j + 1, R[(j + 1) - 1]) \in LoopCell
    BY <1>1, <2>1, <2>2, PeriodicCellTyped
  <2>5. QED BY <2>1, <2>3, <2>4
<1>6. 1 .. P * N \subseteq S
  <2> HIDE DEF S
  <2>1. P * N \in Int /\ 1 \in Int BY <1>2
  <2>2. QED BY <1>4, <1>5, <2>1, Upward
<1>7. QED BY <1>2, <1>6 DEF R

-----------------------------------------------------------------------------
Top == P * N
RawBlock(i, e, b) == Raw(System[i], b, Under(e, b))
BothBlock(i, e, b) == Together(System[i], b, Under(e, b))

(* The cells of a block before the corners are joined, as a function.       *)
LEMMA RawFunction ==
  ASSUME NEW i, NEW e, NEW b \in Block
  PROVE  RawBlock(i, e, b) = [j \in il(b) - 1 .. iu(b) |-> RawBlock(i, e, b)[j]]
<1> DEFINE s == System[i]
           x == Under(e, b)
           raw == Raw(s, b, x)
           below == IF b = 1 THEN <<>> ELSE x.cell
<1> HIDE DEF s, x
<1>1. raw = PeriodicCells(s, b, below) BY DEF Raw
<1> HIDE DEF raw, below
<1>2. PeriodicCells(s, b, below)
        = [j \in il(b) - 1 .. iu(b) |-> PeriodicCells(s, b, below)[j]]
  BY PeriodicCellsAre
<1>3. raw = [j \in il(b) - 1 .. iu(b) |-> raw[j]] BY <1>1, <1>2
<1>4. QED BY <1>3 DEF raw, s, x, RawBlock

(* They are those of the column.                                            *)
LEMMA RawOfBlock ==
  ASSUME NEW i, NEW e, NEW f, LoopChained(i, e, f), NEW b \in Block,
         NEW j \in il(b) .. iu(b)
  PROVE  RawBlock(i, e, b)[j] = RawCells(i, e)[j] /\ RawBlock(i, e, b)[j] \in LoopCell
<1>1. j \in Row /\ BlockOf(j) = b BY RowOfBlock
<1>2. RawCells(i, e)[j] = RawBlock(i, e, b)[j] BY <1>1 DEF RawCells, RawBlock
<1>3. RawCells(i, e)[j] \in LoopCell BY <1>1, RawTyped
<1>4. QED BY <1>2, <1>3

\* Below the last block nothing is joined.
LEMMA LowerCells ==
  ASSUME NEW i, NEW e, NEW f, LoopChained(i, e, f), NEW b \in Block, b # P
  PROVE  BothBlock(i, e, b) = RawBlock(i, e, b) /\ e[b].cell = RawBlock(i, e, b)
<1> DEFINE s == System[i]
           x == Under(e, b)
<1>1. b < P
  <2>1. b \in 1 .. P /\ P \in Nat BY Sizes DEF Block
  <2>2. QED BY <2>1
<1>2. e[b] = PeriodicForward(s, b, x) BY LoopBlocks
<1> HIDE DEF s, x
<1>3. Together(s, b, x) = Raw(s, b, x) BY <1>1 DEF Together, Joined
<1>4. e[b].cell = Together(s, b, x) BY <1>1, <1>2, LoopCellsLeft
<1>5. QED BY <1>3, <1>4 DEF s, x, BothBlock, RawBlock

(* The record of a cell that the corner elements are joined to.             *)
LEMMA CornersReplaced ==
  ASSUME NEW u \in LoopCell, NEW x, NEW y
  PROVE  [u EXCEPT !.gamma = x, !.beta = y]
           = [ainv |-> u.ainv, gamma |-> x, beta |-> y, zeta |-> u.zeta]
<1> DEFINE g == [u EXCEPT !.gamma = x]
<1>1. g = [ainv |-> u.ainv, gamma |-> x, beta |-> u.beta, zeta |-> u.zeta] BY DEF LoopCell
<1>2. [u EXCEPT !.gamma = x, !.beta = y] = [g EXCEPT !.beta = y] BY DEF LoopCell
<1> HIDE DEF g
<1>3. [g EXCEPT !.beta = y] = [ainv |-> u.ainv, gamma |-> x, beta |-> y, zeta |-> u.zeta]
  BY <1>1
<1>4. QED BY <1>2, <1>3

(* The record of the last cell.                                             *)
LEMMA LastReplaced ==
  ASSUME NEW u \in LoopCell, NEW x, NEW y
  PROVE  [u EXCEPT !.ainv = x, !.zeta = y]
           = [ainv |-> x, gamma |-> u.gamma, beta |-> u.beta, zeta |-> y]
<1> DEFINE a == [u EXCEPT !.ainv = x]
<1>1. a = [ainv |-> x, gamma |-> u.gamma, beta |-> u.beta, zeta |-> u.zeta] BY DEF LoopCell
<1>2. [u EXCEPT !.ainv = x, !.zeta = y] = [a EXCEPT !.zeta = y] BY DEF LoopCell
<1> HIDE DEF a
<1>3. [a EXCEPT !.zeta = y] = [ainv |-> x, gamma |-> u.gamma, beta |-> u.beta, zeta |-> y]
  BY <1>1
<1>4. QED BY <1>2, <1>3

\* In the last block the last two cells are.
LEMMA UpperCells ==
  ASSUME NEW i, NEW e, NEW f, LoopChained(i, e, f)
  PROVE  LET s    == System[i]
             raw  == RawBlock(i, e, P)
             both == BothBlock(i, e, P)
             n    == Top
         IN  /\ \A j \in il(P) - 1 .. n - 2 : both[j] = raw[j] /\ e[P].cell[j] = raw[j]
             /\ e[P].cell[n - 1] = both[n - 1]
             /\ both[n - 1]
                  = [ainv |-> raw[n - 1].ainv,
                     gamma |-> DiagU(s, n - 1) -- (s.b[n - 1] ** raw[n - 2].ainv
                                                     ** raw[n - 2].gamma),
                     beta |-> (s.b[n] -- (raw[n - 2].beta ** DiagU(s, n - 2)))
                                ** raw[n - 1].ainv,
                     zeta |-> raw[n - 1].zeta]
             /\ e[P].cell[n]
                  = [ainv |-> Inverted(Diag(s, n) -- e[P].up.bg),
                     gamma |-> raw[n].gamma, beta |-> raw[n].beta,
                     zeta |-> s.rhs[n] -- e[P].up.bz]
<1> DEFINE n == Top
           s == System[i]
           x == Under(e, P)
           raw == Raw(s, P, x)
           both == Together(s, P, x)
           first == il(P) - 1
           gamma == DiagU(s, n - 1) -- (s.b[n - 1] ** raw[n - 2].ainv ** raw[n - 2].gamma)
           beta == (s.b[n] -- (raw[n - 2].beta ** DiagU(s, n - 2))) ** raw[n - 1].ainv
           ainv == Inverted(Diag(s, n) -- e[P].up.bg)
           zeta == s.rhs[n] -- e[P].up.bz
<1>1. /\ P \in Block /\ iu(P) = n /\ n \in Nat /\ il(P) \in Nat /\ il(P) <= n - 1
      /\ ~ P < P
  <2>1. P \in Block /\ iu(P) = n /\ n \in Nat /\ P \in Nat
    BY Blocks, ColumnSize, Sizes DEF Top
  <2>2. il(P) \in Nat /\ il(P) < iu(P) BY <2>1, Blocks
  <2>3. QED BY <2>1, <2>2
<1>2. /\ raw = [j \in first .. n |-> raw[j]]
      /\ \A j \in il(P) .. n : raw[j] \in LoopCell
  <2>1. raw = [j \in first .. n |-> raw[j]] BY <1>1, RawFunction DEF RawBlock
  <2>2. ASSUME NEW j \in il(P) .. iu(P) PROVE raw[j] \in LoopCell
    BY <1>1, RawOfBlock DEF RawBlock
  <2>3. QED BY <1>1, <2>1, <2>2
<1>3. e[P] = PeriodicForward(s, P, x) BY <1>1, LoopBlocks
<1> HIDE DEF s, x, n
<1>4. both = [raw EXCEPT ![n - 1].gamma = gamma, ![n - 1].beta = beta]
  BY <1>1 DEF Together, Joined
<1>5. e[P].cell = [both EXCEPT ![n].ainv = ainv, ![n].zeta = zeta]
  <2>1. PeriodicForward(s, P, x).cell
          = [both EXCEPT ![n].ainv = Inverted(Diag(s, n) -- PeriodicForward(s, P, x).up.bg),
                         ![n].zeta = s.rhs[n] -- PeriodicForward(s, P, x).up.bz]
    <3> HIDE DEF both
    <3>1. QED BY <1>1, LoopCellsLeft DEF both
  <2>2. QED BY <1>3, <2>1
<1>6. first \in Int /\ n - 1 \in first .. n /\ n \in first .. n /\ n # n - 1
  BY <1>1
<1> HIDE DEF raw, both, gamma, beta, ainv, zeta, first
<1>7. raw[n - 1] \in LoopCell /\ raw[n] \in LoopCell
  <2>1. n - 1 \in il(P) .. n /\ n \in il(P) .. n BY <1>1
  <2>2. QED BY <1>2, <2>1
<1>8. /\ both = [j \in first .. n |-> both[j]]
      /\ \A j \in first .. n : j # n - 1 => both[j] = raw[j]
      /\ both[n - 1] = [raw[n - 1] EXCEPT !.gamma = gamma, !.beta = beta]
  BY <1>2, <1>4, <1>6
<1>9. /\ \A j \in first .. n : j # n => e[P].cell[j] = both[j]
      /\ e[P].cell[n] = [both[n] EXCEPT !.ainv = ainv, !.zeta = zeta]
  BY <1>5, <1>6, <1>8
<1>10. /\ both[n - 1] = [ainv |-> raw[n - 1].ainv, gamma |-> gamma,
                         beta |-> beta, zeta |-> raw[n - 1].zeta]
       /\ e[P].cell[n] = [ainv |-> ainv, gamma |-> raw[n].gamma,
                          beta |-> raw[n].beta, zeta |-> zeta]
  <2>1. both[n] = raw[n] BY <1>6, <1>8
  <2>2. /\ both[n - 1] = [raw[n - 1] EXCEPT !.gamma = gamma, !.beta = beta]
        /\ e[P].cell[n] = [raw[n] EXCEPT !.ainv = ainv, !.zeta = zeta]
    BY <1>8, <1>9, <2>1
  <2> DEFINE u == raw[n - 1]
             w == raw[n]
  <2> HIDE DEF u, w
  <2>3. [u EXCEPT !.gamma = gamma, !.beta = beta]
          = [ainv |-> u.ainv, gamma |-> gamma, beta |-> beta, zeta |-> u.zeta]
    <3>1. u \in LoopCell BY <1>7 DEF u
    <3>2. QED BY <3>1, CornersReplaced
  <2>4. [w EXCEPT !.ainv = ainv, !.zeta = zeta]
          = [ainv |-> ainv, gamma |-> w.gamma, beta |-> w.beta, zeta |-> zeta]
    <3>1. w \in LoopCell BY <1>7 DEF w
    <3>2. QED BY <3>1, LastReplaced
  <2>5. QED BY <2>2, <2>3, <2>4 DEF u, w
<1>11. \A j \in first .. n - 2 : j \in first .. n /\ j # n - 1 /\ j # n
  BY <1>1, <1>6
<1>12. \A j \in first .. n - 2 : both[j] = raw[j] /\ e[P].cell[j] = raw[j]
  BY <1>8, <1>9, <1>11
<1>13. e[P].cell[n - 1] = both[n - 1] BY <1>6, <1>9
<1>14. QED BY <1>10, <1>12, <1>13 DEF raw, both, gamma, beta, ainv, zeta, first, s, x, n,
                                    RawBlock, BothBlock

-----------------------------------------------------------------------------
(* The last block and its cells.                                            *)
LEMMA LastBlock ==
  /\ P \in Block /\ P \in Nat /\ Top \in Nat /\ Top >= 4 /\ Row = 1 .. Top
  /\ il(P) \in Nat /\ iu(P) = Top /\ Top - 1 \in il(P) .. iu(P) /\ Top \in il(P) .. iu(P)
  /\ Top \in Row /\ Top - 1 \in Row /\ Top - 2 \in Row
  /\ Top - 1 # 0 /\ Top - 2 # 0 /\ Top - 1 # 1 /\ Top # 1
  /\ BlockOf(Top - 1) = P /\ BlockOf(Top) = P
<1>1. P \in Block /\ P \in Nat /\ Top \in Nat /\ Top >= 4 /\ Row = 1 .. Top /\ iu(P) = Top
  BY Blocks, ColumnSize, Sizes DEF Top
<1>2. il(P) \in Nat /\ il(P) < iu(P) BY <1>1, Blocks
<1>3. Top - 1 \in il(P) .. iu(P) /\ Top \in il(P) .. iu(P) BY <1>1, <1>2
<1>4. BlockOf(Top - 1) = P /\ BlockOf(Top) = P BY <1>1, <1>3, RowOfBlock
<1>5. /\ Top \in Row /\ Top - 1 \in Row /\ Top - 2 \in Row
      /\ Top - 1 # 0 /\ Top - 2 # 0 /\ Top - 1 # 1 /\ Top # 1
  BY <1>1
<1>6. QED BY <1>1, <1>2, <1>3, <1>4, <1>5

\* The cells of a block, before and after, in the whole column.
LEMMA CellKept ==
  ASSUME NEW i, NEW e, NEW f, LoopChained(i, e, f), NEW b \in Block,
         NEW j \in il(b) .. iu(b), j < Top - 1
  PROVE  /\ ColumnCells(e)[j] = RawCells(i, e)[j]
         /\ BothBlock(i, e, b)[j] = RawCells(i, e)[j]
<1>1. RawBlock(i, e, b)[j] = RawCells(i, e)[j] BY RawOfBlock
<1>2. ColumnCells(e)[j] = e[b].cell[j] BY ColumnCell
<1>3. CASE b # P
  <2>1. BothBlock(i, e, b) = RawBlock(i, e, b) /\ e[b].cell = RawBlock(i, e, b)
    BY <1>3, LowerCells
  <2>2. QED BY <1>1, <1>2, <2>1
<1>4. CASE b = P
  <2>1. j \in il(P) - 1 .. Top - 2
    <3>1. il(P) \in Nat /\ iu(P) = Top /\ Top \in Nat BY LastBlock
    <3>2. QED BY <1>4, <3>1
  <2>2. /\ BothBlock(i, e, P)[j] = RawBlock(i, e, P)[j]
        /\ e[P].cell[j] = RawBlock(i, e, P)[j]
    BY <2>1, UpperCells
  <2>3. QED BY <1>1, <1>2, <1>4, <2>2
<1>5. QED BY <1>3, <1>4

(* The two cells the corner elements meet.                                  *)
LEMMA LastCells ==
  ASSUME NEW i, NEW e, NEW f, LoopChained(i, e, f)
  PROVE  LET s == System[i]
             R == RawCells(i, e)
             C == ColumnCells(e)
             n == Top
         IN  /\ C[n - 1] = [ainv |-> R[n - 1].ainv,
                            gamma |-> s.c[n - 1] -- (s.b[n - 1] ** R[n - 2].ainv
                                                       ** R[n - 2].gamma),
                            beta |-> (s.b[n] -- (R[n - 2].beta ** s.c[n - 2]))
                                       ** R[n - 1].ainv,
                            zeta |-> R[n - 1].zeta]
             /\ BothBlock(i, e, P)[n - 1] = C[n - 1]
             /\ C[n] = [ainv |-> Inverted(s.a[n] -- e[P].up.bg), gamma |-> R[n].gamma,
                        beta |-> R[n].beta, zeta |-> s.rhs[n] -- e[P].up.bz]
<1> DEFINE s == System[i]
           raw == RawBlock(i, e, P)
           both == BothBlock(i, e, P)
           R == RawCells(i, e)
           C == ColumnCells(e)
           n == Top
<1>1. s.periodic BY DEF LoopChained
<1>2. /\ P \in Block /\ n - 1 \in il(P) .. iu(P) /\ n \in il(P) .. iu(P)
      /\ n - 1 # 0 /\ n - 2 # 0 /\ n - 1 # 1 /\ n # 1 /\ n \in Nat /\ n = P * N
  BY LastBlock DEF Top
<1>3. DiagU(s, n - 1) = s.c[n - 1] /\ DiagU(s, n - 2) = s.c[n - 2] /\ Diag(s, n) = s.a[n]
  BY <1>1, <1>2 DEF DiagU, Diag
<1>4. raw[n - 1] = R[n - 1] /\ raw[n] = R[n] BY <1>2, RawOfBlock
<1>5. raw[n - 2] = R[n - 2]
  <2>1. raw[(n - 1) - 1] = R[(n - 1) - 1] BY <1>2, RawUnder DEF RawBlock
  <2>2. (n - 1) - 1 = n - 2 BY <1>2
  <2>3. QED BY <2>1, <2>2
<1>6. C[n - 1] = e[P].cell[n - 1] /\ C[n] = e[P].cell[n] BY <1>2, ColumnCell
<1>7. e[P].cell[n - 1] = both[n - 1] BY UpperCells
<1>8. both[n - 1]
        = [ainv |-> raw[n - 1].ainv,
           gamma |-> DiagU(s, n - 1) -- (s.b[n - 1] ** raw[n - 2].ainv ** raw[n - 2].gamma),
           beta |-> (s.b[n] -- (raw[n - 2].beta ** DiagU(s, n - 2))) ** raw[n - 1].ainv,
           zeta |-> raw[n - 1].zeta]
  BY UpperCells
<1>9. e[P].cell[n]
        = [ainv |-> Inverted(Diag(s, n) -- e[P].up.bg),
           gamma |-> raw[n].gamma, beta |-> raw[n].beta,
           zeta |-> s.rhs[n] -- e[P].up.bz]
  BY UpperCells
<1> HIDE DEF s, raw, both, R, C, n
<1>10. QED BY <1>3, <1>4, <1>5, <1>6, <1>7, <1>8, <1>9 DEF s, both, R, C, n

-----------------------------------------------------------------------------
(* All cells but the last are matrices.                                     *)
LEMMA LoopCellsTyped ==
  ASSUME NEW i, NEW e, NEW f, LoopChained(i, e, f), NEW j \in 1 .. Top - 1
  PROVE  ColumnCells(e)[j] \in LoopCell
<1> DEFINE s == System[i]
           R == RawCells(i, e)
           C == ColumnCells(e)
           n == Top
<1>1. /\ n \in Nat /\ n >= 4 /\ Row = 1 .. n /\ n - 1 \in Row /\ n - 2 \in Row /\ n \in Row
  BY LastBlock
<1>2. j \in Row /\ (j # n - 1 => j < n - 1) BY <1>1
<1>3. CASE j # n - 1
  <2>1. BlockOf(j) \in Block /\ j \in il(BlockOf(j)) .. iu(BlockOf(j)) BY <1>2, BlockOfRow
  <2>2. C[j] = R[j] BY <1>2, <1>3, <2>1, CellKept
  <2>3. R[j] \in LoopCell BY <1>2, RawTyped
  <2>4. QED BY <2>2, <2>3
<1>4. CASE j = n - 1
  <2>1. C[n - 1] = [ainv |-> R[n - 1].ainv,
                    gamma |-> s.c[n - 1] -- (s.b[n - 1] ** R[n - 2].ainv ** R[n - 2].gamma),
                    beta |-> (s.b[n] -- (R[n - 2].beta ** s.c[n - 2])) ** R[n - 1].ainv,
                    zeta |-> R[n - 1].zeta]
    BY LastCells
  <2>2. R[n - 1] \in LoopCell /\ R[n - 2] \in LoopCell BY <1>1, RawTyped
  <2>3. s \in SystemType BY Sizes DEF LoopChained
  <2>4. /\ s.c[n - 1] \in Matrix /\ s.b[n - 1] \in Matrix /\ s.b[n] \in Matrix
        /\ s.c[n - 2] \in Matrix
    BY <1>1, <2>3, SystemTyped
  <2>5. /\ R[n - 1].ainv \in Matrix /\ R[n - 1].zeta \in Matrix /\ R[n - 2].ainv \in Matrix
        /\ R[n - 2].gamma \in Matrix /\ R[n - 2].beta \in Matrix
    BY <2>2 DEF LoopCell
  <2> DEFINE u == s.b[n - 1] ** R[n - 2].ainv
             w == R[n - 2].beta ** s.c[n - 2]
             ug == u ** R[n - 2].gamma
             bw == s.b[n] -- w
             g == s.c[n - 1] -- ug
             h == bw ** R[n - 1].ainv
  <2> HIDE DEF R, s
  <2>6. u \in Matrix /\ w \in Matrix BY <2>4, <2>5, Closed
  <2> HIDE DEF u, w
  <2>7. ug \in Matrix /\ bw \in Matrix BY <2>4, <2>5, <2>6, Closed
  <2> HIDE DEF ug, bw
  <2>8. g \in Matrix /\ h \in Matrix BY <2>4, <2>5, <2>7, Closed
  <2>9. C[n - 1] = [ainv |-> R[n - 1].ainv, gamma |-> g, beta |-> h, zeta |-> R[n - 1].zeta]
    BY <2>1 DEF g, h, ug, bw, u, w
  <2> HIDE DEF C, g, h
  <2>10. C[n - 1] \in LoopCell BY <2>5, <2>8, <2>9 DEF LoopCell
  <2>11. QED BY <1>4, <2>10 DEF C
<1>5. QED BY <1>3, <1>4

\* What the last block has joined is what it adds to the sums.
LEMMA SummedCells ==
  ASSUME NEW i, NEW e, NEW f, LoopChained(i, e, f), NEW b \in Block,
         NEW j \in il(b) .. iu(b), j # Top
  PROVE  /\ BothBlock(i, e, b)[j] = ColumnCells(e)[j]
         /\ ColumnCells(e)[j] \in LoopCell
<1>1. P \in Block /\ Top \in Nat /\ Row = 1 .. Top /\ BlockOf(Top - 1) = P BY LastBlock
<1>2. j \in Row /\ BlockOf(j) = b BY RowOfBlock
<1>3. j \in 1 .. Top - 1 /\ (j # Top - 1 => j < Top - 1) BY <1>1, <1>2
<1>4. ColumnCells(e)[j] \in LoopCell BY <1>3, LoopCellsTyped
<1>5. CASE j # Top - 1 BY <1>3, <1>4, <1>5, CellKept
<1>6. CASE j = Top - 1
  <2>1. b = P BY <1>1, <1>2, <1>6
  <2>2. BothBlock(i, e, P)[Top - 1] = ColumnCells(e)[Top - 1] BY LastCells
  <2>3. QED BY <1>4, <1>6, <2>1, <2>2
<1>7. QED BY <1>5, <1>6

-----------------------------------------------------------------------------
(* The sums the blocks carry up are sums over the cells of the column.      *)
LEMMA GammaSums ==
  ASSUME NEW i, NEW e, NEW f, LoopChained(i, e, f)
  PROVE  LET C == ColumnCells(e)
         IN  \E G \in [0 .. P * N - 1 -> Matrix] :
               /\ G[0] = Zero /\ e[P].up.bg = G[P * N - 1]
               /\ \A j \in 1 .. P * N - 1 : G[j] = G[j - 1] ++ (C[j].beta ** C[j].gamma)
<1> DEFINE s == System[i]
           C == ColumnCells(e)
           u == [b \in Block |-> e[b].up.bg]
           term == [b \in Block |-> Gammas(s, b, Under(e, b))]
<1>1. \A b \in Block : u[b] = Total(b, Before(u, b), term[b])
  <2> SUFFICES ASSUME NEW b \in Block PROVE u[b] = Total(b, Before(u, b), term[b])
    OBVIOUS
  <2> DEFINE x == Under(e, b)
             from == IF b = 1 THEN Zero ELSE x.bg
             t == Gammas(s, b, x)
  <2>1. e[b] = PeriodicForward(s, b, x) BY LoopBlocks
  <2>2. from = Before(u, b)
    <3>1. b # 1 => b - 1 \in Block
      <4>1. b > 1 => b - 1 \in Block BY Blocks
      <4>2. b \in 1 .. P BY DEF Block
      <4>3. QED BY <4>1, <4>2
    <3>2. b # 1 => u[b - 1] = x.bg BY <3>1 DEF Under
    <3>3. QED BY <3>2 DEF Before
  <2>3. u[b] = e[b].up.bg /\ term[b] = t OBVIOUS
  <2> HIDE DEF s, x, u, term
  <2>4. PeriodicForward(s, b, x).up.bg = Total(b, from, t) BY LoopUp
  <2>5. QED BY <2>1, <2>2, <2>3, <2>4
<1>2. ASSUME NEW b \in Block, NEW j \in il(b) .. iu(b), j # Top
      PROVE  term[b][j] = C[j].beta ** C[j].gamma /\ term[b][j] \in Matrix
  <2>1. BothBlock(i, e, b)[j] = C[j] /\ C[j] \in LoopCell BY <1>2, SummedCells
  <2>2. term[b][j] = BothBlock(i, e, b)[j].beta ** BothBlock(i, e, b)[j].gamma
    BY DEF Gammas, BothBlock
  <2> HIDE DEF C, term
  <2>3. C[j].beta \in Matrix /\ C[j].gamma \in Matrix BY <2>1 DEF LoopCell
  <2>4. C[j].beta ** C[j].gamma \in Matrix BY <2>3, Closed
  <2>5. QED BY <2>1, <2>2, <2>4
<1>3. ASSUME NEW b \in Block, NEW j \in il(b) .. Summed(b) PROVE term[b][j] \in Matrix
  <2>1. j \in il(b) .. iu(b) /\ j # Top
    <3>1. il(b) \in Nat /\ iu(b) \in Nat /\ b \in Nat /\ (b < P => iu(b) < Top)
      BY Blocks DEF Top
    <3>2. b \in 1 .. P /\ P \in Nat /\ iu(P) = Top /\ Top \in Nat BY LastBlock DEF Block
    <3>3. QED BY <3>1, <3>2 DEF Summed
  <2>2. QED BY <1>2, <2>1
<1>4. u[P] = e[P].up.bg BY LastBlock
<1> HIDE DEF u, term
<1>5. PICK G \in [0 .. P * N - 1 -> Matrix] :
        /\ G[0] = Zero /\ u[P] = G[P * N - 1]
        /\ \A j \in 1 .. P * N - 1 : G[j] = G[j - 1] ++ term[BlockOf(j)][j]
  BY <1>1, <1>3, ColumnSums
<1>6. \A j \in 1 .. P * N - 1 : term[BlockOf(j)][j] = C[j].beta ** C[j].gamma
  <2> SUFFICES ASSUME NEW j \in 1 .. P * N - 1
               PROVE  term[BlockOf(j)][j] = C[j].beta ** C[j].gamma
    OBVIOUS
  <2>1. j \in Row /\ j # Top BY LastBlock DEF Top
  <2>2. BlockOf(j) \in Block /\ j \in il(BlockOf(j)) .. iu(BlockOf(j)) BY <2>1, BlockOfRow
  <2>3. QED BY <1>2, <2>1, <2>2
<1> HIDE DEF C
<1>7. \A j \in 1 .. P * N - 1 : G[j] = G[j - 1] ++ (C[j].beta ** C[j].gamma)
  BY <1>5, <1>6
<1>8. QED BY <1>4, <1>5, <1>7 DEF C

(* The sums of beta zeta likewise.                                          *)
LEMMA ZetaSums ==
  ASSUME NEW i, NEW e, NEW f, LoopChained(i, e, f)
  PROVE  LET C == ColumnCells(e)
         IN  \E G \in [0 .. P * N - 1 -> Matrix] :
               /\ G[0] = Zero /\ e[P].up.bz = G[P * N - 1]
               /\ \A j \in 1 .. P * N - 1 : G[j] = G[j - 1] ++ (C[j].beta ** C[j].zeta)
<1> DEFINE s == System[i]
           C == ColumnCells(e)
           u == [b \in Block |-> e[b].up.bz]
           term == [b \in Block |-> Zetas(s, b, Under(e, b))]
<1>1. \A b \in Block : u[b] = Total(b, Before(u, b), term[b])
  <2> SUFFICES ASSUME NEW b \in Block PROVE u[b] = Total(b, Before(u, b), term[b])
    OBVIOUS
  <2> DEFINE x == Under(e, b)
             from == IF b = 1 THEN Zero ELSE x.bz
             t == Zetas(s, b, x)
  <2>1. e[b] = PeriodicForward(s, b, x) BY LoopBlocks
  <2>2. from = Before(u, b)
    <3>1. b # 1 => b - 1 \in Block
      <4>1. b > 1 => b - 1 \in Block BY Blocks
      <4>2. b \in 1 .. P BY DEF Block
      <4>3. QED BY <4>1, <4>2
    <3>2. b # 1 => u[b - 1] = x.bz BY <3>1 DEF Under
    <3>3. QED BY <3>2 DEF Before
  <2>3. u[b] = e[b].up.bz /\ term[b] = t OBVIOUS
  <2> HIDE DEF s, x, u, term
  <2>4. PeriodicForward(s, b, x).up.bz = Total(b, from, t) BY LoopUp
  <2>5. QED BY <2>1, <2>2, <2>3, <2>4
<1>2. ASSUME NEW b \in Block, NEW j \in il(b) .. iu(b), j # Top
      PROVE  term[b][j] = C[j].beta ** C[j].zeta /\ term[b][j] \in Matrix
  <2>1. BothBlock(i, e, b)[j] = C[j] /\ C[j] \in LoopCell BY <1>2, SummedCells
  <2>2. term[b][j] = BothBlock(i, e, b)[j].beta ** BothBlock(i, e, b)[j].zeta
    BY DEF Zetas, BothBlock
  <2> HIDE DEF C, term
  <2>3. C[j].beta \in Matrix /\ C[j].zeta \in Matrix BY <2>1 DEF LoopCell
  <2>4. C[j].beta ** C[j].zeta \in Matrix BY <2>3, Closed
  <2>5. QED BY <2>1, <2>2, <2>4
<1>3. ASSUME NEW b \in Block, NEW j \in il(b) .. Summed(b) PROVE term[b][j] \in Matrix
  <2>1. j \in il(b) .. iu(b) /\ j # Top
    <3>1. il(b) \in Nat /\ iu(b) \in Nat /\ b \in Nat /\ (b < P => iu(b) < Top)
      BY Blocks DEF Top
    <3>2. b \in 1 .. P /\ P \in Nat /\ iu(P) = Top /\ Top \in Nat BY LastBlock DEF Block
    <3>3. QED BY <3>1, <3>2 DEF Summed
  <2>2. QED BY <1>2, <2>1
<1>4. u[P] = e[P].up.bz BY LastBlock
<1> HIDE DEF u, term
<1>5. PICK G \in [0 .. P * N - 1 -> Matrix] :
        /\ G[0] = Zero /\ u[P] = G[P * N - 1]
        /\ \A j \in 1 .. P * N - 1 : G[j] = G[j - 1] ++ term[BlockOf(j)][j]
  BY <1>1, <1>3, ColumnSums
<1>6. \A j \in 1 .. P * N - 1 : term[BlockOf(j)][j] = C[j].beta ** C[j].zeta
  <2> SUFFICES ASSUME NEW j \in 1 .. P * N - 1
               PROVE  term[BlockOf(j)][j] = C[j].beta ** C[j].zeta
    OBVIOUS
  <2>1. j \in Row /\ j # Top BY LastBlock DEF Top
  <2>2. BlockOf(j) \in Block /\ j \in il(BlockOf(j)) .. iu(BlockOf(j)) BY <2>1, BlockOfRow
  <2>3. QED BY <1>2, <2>1, <2>2
<1> HIDE DEF C
<1>7. \A j \in 1 .. P * N - 1 : G[j] = G[j - 1] ++ (C[j].beta ** C[j].zeta)
  BY <1>5, <1>6
<1>8. QED BY <1>4, <1>5, <1>7 DEF C

-----------------------------------------------------------------------------
\* All blocks get the solution of the last cell.
LEMMA LastSent ==
  ASSUME NEW i, NEW e, NEW f, LoopChained(i, e, f), NEW b \in Block
  PROVE  f[b].down.last = ColumnCells(e)[Top].ainv ** ColumnCells(e)[Top].zeta
<1> DEFINE s == System[i]
           L == ColumnCells(e)[Top].ainv ** ColumnCells(e)[Top].zeta
           S == {c \in Int : f[c].down.last = L}
<1>1. /\ P \in Block /\ P \in Nat /\ Block = 1 .. P /\ iu(P) = Top /\ Top \in il(P) .. iu(P)
  BY LastBlock DEF Block
<1>2. ASSUME NEW c \in Block
      PROVE  f[c].down.last = IF c = P THEN e[c].cell[iu(c)].ainv ** e[c].cell[iu(c)].zeta
                              ELSE Above(f, c).last
  <2> DEFINE k == e[c].cell
             x == Above(f, c)
  <2>1. f[c] = PeriodicBackward(s, c, k, x) BY LoopBlocks
  <2> HIDE DEF s, k, x
  <2>2. PeriodicBackward(s, c, k, x).down.last
          = IF c = P THEN k[iu(c)].ainv ** k[iu(c)].zeta ELSE x.last
    BY LoopBackParts
  <2>3. QED BY <2>1, <2>2 DEF k, x
<1>3. P \in S
  <2>1. ColumnCells(e)[Top] = e[P].cell[Top] BY <1>1, ColumnCell
  <2>2. f[P].down.last = e[P].cell[Top].ainv ** e[P].cell[Top].zeta BY <1>1, <1>2
  <2>3. QED BY <1>1, <2>1, <2>2
<1>4. ASSUME NEW c \in 1 .. P - 1, c + 1 \in S PROVE c \in S
  <2>1. c \in Block /\ c # P /\ c \in Int BY <1>1
  <2>2. f[c].down.last = f[c + 1].down.last BY <1>2, <2>1 DEF Above
  <2>3. QED BY <1>4, <2>1, <2>2
<1>5. 1 .. P \subseteq S
  <2> HIDE DEF S
  <2>1. P \in Int /\ 1 \in Int BY <1>1
  <2>2. QED BY <1>3, <1>4, <2>1, Downward
<1>6. b \in S BY <1>1, <1>5
<1>7. QED BY <1>6

(* Put together, the blocks make one substitution of the column.            *)
LEMMA SolutionCell ==
  ASSUME NEW i, NEW e, NEW f, LoopChained(i, e, f), NEW b \in Block,
         NEW j \in il(b) .. iu(b)
  PROVE  LET C == ColumnCells(e)
             X == ColumnCells(f)
             L == C[Top].ainv ** C[Top].zeta
         IN  X[j] = IF j = Top THEN L
                    ELSE C[j].ainv ** (C[j].zeta
                           -- ((IF j = Top - 1 THEN Zero ELSE System[i].c[j]) ** X[j + 1])
                           -- (C[j].gamma ** L))
<1> DEFINE s == System[i]
           C == ColumnCells(e)
           X == ColumnCells(f)
           L == C[Top].ainv ** C[Top].zeta
           k == e[b].cell
           x == Above(f, b)
           h == f[b].cell
           over == IF j = iu(b) THEN x.delta ELSE h[j + 1]
<1>1. C[j] = k[j] /\ X[j] = h[j] BY ColumnCell
<1>2. \A c \in Block : f[c].down.delta = f[c].cell[il(c)]
  <2> SUFFICES ASSUME NEW c \in Block PROVE f[c].down.delta = f[c].cell[il(c)] OBVIOUS
  <2> DEFINE kc == e[c].cell
             xc == Above(f, c)
  <2>1. f[c] = PeriodicBackward(s, c, kc, xc) BY LoopBlocks
  <2> HIDE DEF s, kc, xc
  <2>2. PeriodicBackward(s, c, kc, xc).down.delta
          = PeriodicBackward(s, c, kc, xc).cell[il(c)]
    BY LoopBackParts
  <2>3. QED BY <2>1, <2>2
<1>3. j # Top => over = X[j + 1]
  <2> SUFFICES ASSUME j # Top PROVE over = X[j + 1] OBVIOUS
  <2>1. CASE j # iu(b) /\ j + 1 \in il(b) .. iu(b)
    <3>1. X[j + 1] = h[j + 1] BY <2>1, ColumnCell
    <3>2. QED BY <2>1, <3>1
  <2>2. CASE b # P /\ j = iu(b) /\ b + 1 \in Block /\ j + 1 = il(b + 1)
               /\ j + 1 \in il(b + 1) .. iu(b + 1)
    <3>1. x.delta = f[b + 1].cell[j + 1] BY <1>2, <2>2 DEF Above
    <3>2. X[j + 1] = f[b + 1].cell[j + 1] BY <2>2, ColumnCell
    <3>3. QED BY <2>2, <3>1, <3>2
  <2>3. QED BY <2>1, <2>2, CellOver DEF Top
<1>4. f[b].down.last = L BY LastSent
<1>5. f[b] = PeriodicBackward(s, b, k, x) BY LoopBlocks
<1>6. PeriodicU(s, b, j) = IF j = Top - 1 THEN Zero ELSE s.c[j]
  <2>1. P \in Block /\ iu(P) = Top /\ BlockOf(Top - 1) = P BY LastBlock
  <2>2. BlockOf(j) = b /\ j \in Row BY RowOfBlock
  <2>3. j # 0
    <3>1. il(b) >= 1 /\ il(b) \in Nat /\ iu(b) \in Nat BY Blocks
    <3>2. QED BY <3>1
  <2>4. (b = P /\ j = iu(b) - 1) <=> j = Top - 1 BY <2>1, <2>2
  <2>5. DiagU(s, j) = s.c[j] BY <2>3 DEF DiagU
  <2>6. QED BY <2>4, <2>5 DEF PeriodicU
<1>7. h[j] = IF j = Top THEN L
             ELSE k[j].ainv ** (k[j].zeta -- (PeriodicU(s, b, j) ** over) -- (k[j].gamma ** L))
  <2> HIDE DEF s, k, x, L
  <2>1. /\ PeriodicBackward(s, b, k, x).cell = PeriodicBackwardCells(s, b, k, x, L)
    <3>1. PeriodicBackward(s, b, k, x).down.last = L BY <1>4, <1>5
    <3>2. PeriodicBackward(s, b, k, x).cell
            = PeriodicBackwardCells(s, b, k, x, PeriodicBackward(s, b, k, x).down.last)
      BY LoopBackParts
    <3>3. QED BY <3>1, <3>2
  <2>2. h = PeriodicBackwardCells(s, b, k, x, L) BY <1>5, <2>1
  <2> HIDE DEF h
  <2> DEFINE d == PeriodicBackwardCells(s, b, k, x, L)
             Solution(y) == k[j].ainv **
               (k[j].zeta -- (PeriodicU(s, b, j) ** y) -- (k[j].gamma ** L))
  <2>3. /\ j = P * N => d[j] = L
        /\ j # P * N /\ j = iu(b) => d[j] = Solution(x.delta)
        /\ j # P * N /\ j # iu(b) => d[j] = Solution(d[j + 1])
    BY PeriodicBackwardCellsAre
  <2> HIDE DEF d
  <2>4. h[j] = IF j = P * N THEN L ELSE Solution(over)
    <3>1. h = d BY <2>2 DEF d
    <3>2. QED BY <2>3, <3>1
  <2>5. QED BY <2>4 DEF Top
<1> HIDE DEF over, C, X, L, k, h, s
<1>8. QED BY <1>1, <1>3, <1>6, <1>7 DEF C, X, L, s

-----------------------------------------------------------------------------
(* What is inverted in a cell below the last, and what is left there.       *)
LEMMA LoopPivot ==
  ASSUME NEW i, NEW e, NEW f, LoopChained(i, e, f), NEW b \in Block,
         NEW j \in il(b) .. iu(b), j # Top
  PROVE  LET s == System[i]
             C == ColumnCells(e)
             cell == PeriodicCell(s, j, C[j - 1])
         IN  /\ Regular(PeriodicPivot(s, j, C[j - 1]))
             /\ C[j].ainv = cell.ainv /\ C[j].zeta = cell.zeta
             /\ j < Top - 1 => C[j].gamma = cell.gamma /\ C[j].beta = cell.beta
<1> DEFINE s == System[i]
           C == ColumnCells(e)
           R == RawCells(i, e)
<1>1. /\ Top \in Nat /\ Top >= 4 /\ Row = 1 .. Top /\ il(P) \in Nat /\ iu(P) = Top
  BY LastBlock
<1>2. j \in Row /\ BlockOf(j) = b /\ s.periodic BY RowOfBlock DEF LoopChained
<1>3. j # 1 => R[j - 1] = C[j - 1]
  <2> SUFFICES ASSUME j # 1 PROVE R[j - 1] = C[j - 1] OBVIOUS
  <2>1. j - 1 \in Row /\ j - 1 < Top - 1 BY <1>1, <1>2
  <2>2. /\ BlockOf(j - 1) \in Block
        /\ j - 1 \in il(BlockOf(j - 1)) .. iu(BlockOf(j - 1))
    BY <2>1, BlockOfRow
  <2>3. QED BY <2>1, <2>2, CellKept
<1>4. j # 1 => e[b].cell[j - 1] = C[j - 1]
  <2> SUFFICES ASSUME j # 1 PROVE e[b].cell[j - 1] = C[j - 1] OBVIOUS
  <2>1. RawBlock(i, e, b)[j - 1] = R[j - 1] BY RawUnder DEF RawBlock
  <2>2. e[b].cell[j - 1] = RawBlock(i, e, b)[j - 1]
    <3>1. CASE b # P BY <3>1, LowerCells
    <3>2. CASE b = P
      <4>1. j - 1 \in il(P) - 1 .. Top - 2 BY <1>1, <3>2
      <4>2. e[P].cell[j - 1] = RawBlock(i, e, P)[j - 1] BY <4>1, UpperCells
      <4>3. QED BY <3>2, <4>2
    <3>3. QED BY <3>1, <3>2
  <2>3. QED BY <1>3, <2>1, <2>2
<1>5. Regular(PeriodicPivot(s, j, e[b].cell[j - 1]))
  BY <1>2 DEF LoopChained, Chained, Top
<1>6. R[j] = PeriodicCell(s, j, R[j - 1]) BY <1>2, RawCell
<1> HIDE DEF s, R
<1>7. /\ Regular(PeriodicPivot(s, j, C[j - 1]))
      /\ R[j] = PeriodicCell(s, j, C[j - 1])
  <2>1. CASE j = 1 BY <1>5, <1>6, <2>1, PeriodicCellFirst
  <2>2. CASE j # 1 BY <1>3, <1>4, <1>5, <1>6, <2>2
  <2>3. QED BY <2>1, <2>2
<1>8. CASE j < Top - 1
  <2>1. C[j] = R[j] BY <1>8, CellKept DEF R
  <2>2. QED BY <1>7, <2>1 DEF s
<1>9. CASE j = Top - 1
  <2>1. C[Top - 1].ainv = R[Top - 1].ainv /\ C[Top - 1].zeta = R[Top - 1].zeta
    <3> DEFINE g == s.c[Top - 1] -- (s.b[Top - 1] ** R[Top - 2].ainv ** R[Top - 2].gamma)
               h == (s.b[Top] -- (R[Top - 2].beta ** s.c[Top - 2])) ** R[Top - 1].ainv
    <3>1. C[Top - 1] = [ainv |-> R[Top - 1].ainv, gamma |-> g, beta |-> h,
                        zeta |-> R[Top - 1].zeta]
      BY LastCells DEF s, R
    <3> HIDE DEF g, h, C
    <3>2. QED BY <3>1
  <2>2. ~ j < Top - 1 BY <1>1, <1>9
  <2>3. QED BY <1>7, <1>9, <2>1, <2>2 DEF s
<1>10. QED
  <2>1. j < Top - 1 \/ j = Top - 1 BY <1>1, <1>2
  <2>2. QED BY <1>8, <1>9, <2>1

-----------------------------------------------------------------------------
(* So that the blocks of a periodic system are a periodic column.           *)
LEMMA LoopSystem ==
  ASSUME NEW i, NEW e, NEW f, LoopChained(i, e, f)
  PROVE  \E G, Z : LoopColumn(System[i], ColumnCells(e), G, Z, ColumnCells(f))
<1> DEFINE s == System[i]
           C == ColumnCells(e)
           X == ColumnCells(f)
           R == RawCells(i, e)
           L == C[Top].ainv ** C[Top].zeta
<1>1. /\ Top = P * N /\ Top \in Nat /\ Top >= 4 /\ Row = 1 .. Top /\ Top \in Row
      /\ P \in Block /\ Top \in il(P) .. iu(P)
  BY LastBlock DEF Top
<1>2. s \in SystemType /\ s.periodic BY Sizes DEF LoopChained
<1>3. PICK G \in [0 .. P * N - 1 -> Matrix] :
        /\ G[0] = Zero /\ e[P].up.bg = G[P * N - 1]
        /\ \A j \in 1 .. P * N - 1 : G[j] = G[j - 1] ++ (C[j].beta ** C[j].gamma)
  BY GammaSums
<1>4. PICK Z \in [0 .. P * N - 1 -> Matrix] :
        /\ Z[0] = Zero /\ e[P].up.bz = Z[P * N - 1]
        /\ \A j \in 1 .. P * N - 1 : Z[j] = Z[j - 1] ++ (C[j].beta ** C[j].zeta)
  BY ZetaSums
<1> DEFINE p == s.a[Top] -- G[Top - 1]
           z == s.rhs[Top] -- Z[Top - 1]
<1>5. C[Top] = [ainv |-> Inverted(p), gamma |-> R[Top].gamma, beta |-> R[Top].beta, zeta |-> z]
  <2>1. C[Top] = [ainv |-> Inverted(s.a[Top] -- e[P].up.bg), gamma |-> R[Top].gamma,
                  beta |-> R[Top].beta, zeta |-> s.rhs[Top] -- e[P].up.bz]
    BY LastCells
  <2>2. e[P].up.bg = G[Top - 1] /\ e[P].up.bz = Z[Top - 1] BY <1>1, <1>3, <1>4
  <2>3. QED BY <2>1, <2>2
<1>6. C[Top].ainv = Inverted(p) /\ C[Top].zeta = z
  <2> HIDE DEF C, p, z, R
  <2>1. QED BY <1>5
<1>7. Regular(p)
  <2>1. Diag(s, Top) = s.a[Top] BY <1>2 DEF Diag
  <2>2. Regular(Diag(s, Top) -- e[P].up.bg) BY <1>1, <1>2 DEF LoopChained, Chained
  <2>3. e[P].up.bg = G[Top - 1] BY <1>1, <1>3
  <2>4. QED BY <2>1, <2>2, <2>3
<1>8. C[Top] \in LoopCell /\ L \in Matrix
  <2>1. R[Top] \in LoopCell BY <1>1, RawTyped
  <2>2. R[Top].gamma \in Matrix /\ R[Top].beta \in Matrix BY <2>1 DEF LoopCell
  <2>3. s.a[Top] \in Matrix /\ s.rhs[Top] \in Matrix BY <1>1, <1>2, SystemTyped
  <2>4. G[Top - 1] \in Matrix /\ Z[Top - 1] \in Matrix BY <1>1, <1>3, <1>4
  <2>5. p \in Matrix /\ z \in Matrix BY <2>3, <2>4, Closed
  <2> HIDE DEF C, R, p, z
  <2>6. Inverted(p) \in Matrix BY <2>5, InvertedTyped
  <2>7. Inverted(p) ** z \in Matrix BY <2>5, <2>6, Closed
  <2>8. C[Top] \in LoopCell BY <1>5, <2>2, <2>5, <2>6 DEF LoopCell
  <2>9. QED BY <1>6, <2>7, <2>8
<1>9. \A j \in Row : C[j] \in LoopCell
  <2>1. \A j \in Row : j = Top \/ j \in 1 .. Top - 1 BY <1>1
  <2>2. QED BY <1>8, <2>1, LoopCellsTyped
<1>10. ASSUME NEW j \in Row
       PROVE  X[j] = IF j = Top THEN L
                     ELSE C[j].ainv ** (C[j].zeta
                            -- ((IF j = Top - 1 THEN Zero ELSE s.c[j]) ** X[j + 1])
                            -- (C[j].gamma ** L))
  <2>1. BlockOf(j) \in Block /\ j \in il(BlockOf(j)) .. iu(BlockOf(j)) BY BlockOfRow
  <2>2. QED BY <2>1, SolutionCell
<1>11. X[Top] = L BY <1>1, <1>10
<1>12. \A j \in Row : X[j] \in Matrix
  <2> DEFINE S == {j \in Int : X[j] \in Matrix}
  <2>1. Top \in S BY <1>1, <1>8, <1>11
  <2>2. ASSUME NEW j \in 1 .. Top - 1, j + 1 \in S PROVE j \in S
    <3> DEFINE c == IF j = Top - 1 THEN Zero ELSE s.c[j]
    <3>1. j \in Row /\ j # Top /\ j \in Int BY <1>1
    <3>2. X[j + 1] \in Matrix BY <2>2
    <3>3. C[j].ainv \in Matrix /\ C[j].zeta \in Matrix /\ C[j].gamma \in Matrix
      BY <1>9, <3>1 DEF LoopCell
    <3>4. c \in Matrix BY <1>2, <3>1, SystemTyped, ZeroTyped
    <3>5. X[j] = C[j].ainv ** ((C[j].zeta -- (c ** X[j + 1])) -- (C[j].gamma ** L))
      BY <1>10, <3>1
    <3> HIDE DEF c, C, X, L
    <3>6. c ** X[j + 1] \in Matrix /\ C[j].gamma ** L \in Matrix
      BY <1>8, <3>2, <3>3, <3>4, Closed
    <3>7. C[j].zeta -- (c ** X[j + 1]) \in Matrix BY <3>3, <3>6, Closed
    <3>8. (C[j].zeta -- (c ** X[j + 1])) -- (C[j].gamma ** L) \in Matrix
      BY <3>6, <3>7, Closed
    <3>9. X[j] \in Matrix BY <3>3, <3>5, <3>8, Closed
    <3>10. QED BY <3>1, <3>9
  <2>3. 1 .. Top \subseteq S
    <3> HIDE DEF S
    <3>1. Top \in Int /\ 1 \in Int BY <1>1
    <3>2. QED BY <2>1, <2>2, <3>1, Downward
  <2>4. QED BY <1>1, <2>3
<1>13. ASSUME NEW j \in 1 .. Top - 1
       PROVE  LET cell == PeriodicCell(s, j, C[j - 1])
              IN  /\ Regular(PeriodicPivot(s, j, C[j - 1]))
                  /\ C[j].ainv = cell.ainv /\ C[j].zeta = cell.zeta
                  /\ j < Top - 1 => C[j].gamma = cell.gamma /\ C[j].beta = cell.beta
  <2>1. j \in Row /\ j # Top BY <1>1
  <2>2. BlockOf(j) \in Block /\ j \in il(BlockOf(j)) .. iu(BlockOf(j)) BY <2>1, BlockOfRow
  <2>3. QED BY <2>1, <2>2, LoopPivot
<1>14. ASSUME NEW j \in 1 .. Top - 1
       PROVE  X[j] = C[j].ainv ** (C[j].zeta
                       -- ((IF j = Top - 1 THEN Zero ELSE s.c[j]) ** X[j + 1])
                       -- (C[j].gamma ** X[Top]))
  <2>1. j \in Row /\ j # Top BY <1>1
  <2>2. QED BY <1>10, <1>11, <2>1
<1>15. /\ C[Top - 1].gamma = s.c[Top - 1] -- (s.b[Top - 1] ** C[Top - 2].ainv
                                                ** C[Top - 2].gamma)
       /\ C[Top - 1].beta = (s.b[Top] -- (C[Top - 2].beta ** s.c[Top - 2]))
                              ** C[Top - 1].ainv
  <2> DEFINE g == s.c[Top - 1] -- (s.b[Top - 1] ** R[Top - 2].ainv ** R[Top - 2].gamma)
             h == (s.b[Top] -- (R[Top - 2].beta ** s.c[Top - 2])) ** R[Top - 1].ainv
  <2>1. C[Top - 1] = [ainv |-> R[Top - 1].ainv, gamma |-> g, beta |-> h,
                      zeta |-> R[Top - 1].zeta]
    BY LastCells
  <2>2. C[Top - 2] = R[Top - 2]
    <3>1. Top - 2 \in Row /\ Top - 2 < Top - 1 BY <1>1
    <3>2. /\ BlockOf(Top - 2) \in Block
          /\ Top - 2 \in il(BlockOf(Top - 2)) .. iu(BlockOf(Top - 2))
      BY <3>1, BlockOfRow
    <3>3. QED BY <3>1, <3>2, CellKept
  <2>3. C[Top - 1].ainv = R[Top - 1].ainv /\ C[Top - 1].gamma = g /\ C[Top - 1].beta = h
    <3> HIDE DEF C, R, g, h
    <3>1. QED BY <2>1
  <2>4. QED BY <2>2, <2>3
<1>16. C \in [Row -> LoopCell] /\ X \in [Row -> Matrix] BY <1>9, <1>12 DEF ColumnCells
<1>17. X[Top] = Inverted(p) ** z BY <1>6, <1>11
<1> HIDE DEF s, C, X, R, L
<1>18. LoopColumn(s, C, G, Z, X)
  <2>1. \A j \in 1 .. P * N - 1 :
          LET cell == PeriodicCell(s, j, C[j - 1])
          IN  /\ Regular(PeriodicPivot(s, j, C[j - 1]))
              /\ C[j].ainv = cell.ainv /\ C[j].zeta = cell.zeta
              /\ j < P * N - 1 => C[j].gamma = cell.gamma /\ C[j].beta = cell.beta
              /\ G[j] = G[j - 1] ++ (C[j].beta ** C[j].gamma)
              /\ Z[j] = Z[j - 1] ++ (C[j].beta ** C[j].zeta)
              /\ X[j] = C[j].ainv ** (C[j].zeta
                          -- ((IF j = P * N - 1 THEN Zero ELSE s.c[j]) ** X[j + 1])
                          -- (C[j].gamma ** X[P * N]))
    BY <1>1, <1>3, <1>4, <1>13, <1>14
  <2>2. QED BY <1>1, <1>2, <1>3, <1>4, <1>7, <1>15, <1>16, <1>17, <2>1 DEF LoopColumn
<1>19. QED BY <1>18 DEF s, C, X

-----------------------------------------------------------------------------
\* Beyond, of a column whose cells are X.
Near(i, X, j) ==
  IF j \in Row THEN X[j]
  ELSE IF System[i].periodic THEN X[IF j = 0 THEN P * N ELSE 1]
  ELSE Bnd ** X[IF j = 0 THEN 1 ELSE P * N]

(* What is chained satisfies every equation of the system.                  *)
LEMMA ChainSolves ==
  ASSUME NEW i \in Solve, NEW e, NEW f, Chained(i, e, f), NEW j \in Row,
         NEW X, X = ColumnCells(f)
  PROVE  (System[i].b[j] ** Near(i, X, j - 1)) ++ (System[i].a[j] ** Near(i, X, j))
           ++ (System[i].c[j] ** Near(i, X, j + 1)) = System[i].rhs[j]
<1> DEFINE s == System[i]
<1>1. PICK n : n = P * N OBVIOUS
<1>2. n \in Nat /\ n >= 4 /\ Row = 1 .. n BY <1>1, ColumnSize
<1>3. /\ Near(i, X, j) = X[j]
      /\ j # 1 => Near(i, X, j - 1) = X[j - 1]
      /\ j # n => Near(i, X, j + 1) = X[j + 1]
  BY <1>2 DEF Near
<1>4. /\ s.periodic => Near(i, X, 0) = X[n] /\ Near(i, X, n + 1) = X[1]
      /\ ~ s.periodic => Near(i, X, 0) = Bnd ** X[1] /\ Near(i, X, n + 1) = Bnd ** X[n]
  <2>1. 0 \notin Row /\ n + 1 \notin Row /\ n + 1 # 0 BY <1>2
  <2>2. QED BY <1>1, <2>1 DEF Near
<1>5. CASE ~ s.periodic
  <2>1. OpenColumn(s, ColumnCells(e), X) BY <1>5, OpenSystem
  <2>2. CASE j = 1
    <3>1. j # n /\ j - 1 = 0 /\ j + 1 = 2 BY <1>2, <2>2
    <3>2. (s.b[1] ** (Bnd ** X[1])) ++ (s.a[1] ** X[1]) ++ (s.c[1] ** X[2]) = s.rhs[1]
      BY <2>1, OpenFirst
    <3>3. Near(i, X, j - 1) = Bnd ** X[1] BY <1>4, <1>5, <3>1
    <3>4. Near(i, X, j) = X[1] /\ Near(i, X, j + 1) = X[2] BY <1>3, <2>2, <3>1
    <3>5. QED BY <2>2, <3>2, <3>3, <3>4
  <2>3. CASE j = n
    <3>1. j # 1 BY <1>2, <2>3
    <3>2. (s.b[n] ** X[n - 1]) ++ (s.a[n] ** X[n]) ++ (s.c[n] ** (Bnd ** X[n])) = s.rhs[n]
      BY <1>1, <2>1, OpenLast
    <3>3. Near(i, X, j + 1) = Bnd ** X[n] BY <1>4, <1>5, <2>3
    <3>4. Near(i, X, j) = X[n] /\ Near(i, X, j - 1) = X[n - 1] BY <1>3, <2>3, <3>1
    <3>5. QED BY <2>3, <3>2, <3>3, <3>4
  <2>4. CASE j # 1 /\ j # n
    <3>1. j \in 2 .. P * N - 1
      <4>1. j \in 2 .. n - 1 BY <1>2, <2>4
      <4>2. QED BY <1>1, <4>1
    <3>2. QED BY <1>3, <2>1, <2>4, <3>1, OpenInside
  <2>5. QED BY <2>2, <2>3, <2>4
<1>6. CASE s.periodic
  <2>1. LoopChained(i, e, f) BY <1>6 DEF LoopChained
  <2>2. PICK G, Z : LoopColumn(s, ColumnCells(e), G, Z, X) BY <2>1, LoopSystem
  <2>3. CASE j = 1
    <3>1. j # n /\ j - 1 = 0 /\ j + 1 = 2 BY <1>2, <2>3
    <3>2. (s.b[1] ** X[n]) ++ (s.a[1] ** X[1]) ++ (s.c[1] ** X[2]) = s.rhs[1]
      BY <1>1, <2>2, LoopRowFirst
    <3>3. Near(i, X, j - 1) = X[n] BY <1>4, <1>6, <3>1
    <3>4. Near(i, X, j) = X[1] /\ Near(i, X, j + 1) = X[2] BY <1>3, <2>3, <3>1
    <3>5. QED BY <2>3, <3>2, <3>3, <3>4
  <2>4. CASE j = n
    <3>1. j # 1 BY <1>2, <2>4
    <3>2. (s.b[n] ** X[n - 1]) ++ (s.a[n] ** X[n]) ++ (s.c[n] ** X[1]) = s.rhs[n]
      BY <1>1, <2>2, LoopRowLast
    <3>3. Near(i, X, j + 1) = X[1] BY <1>4, <1>6, <2>4
    <3>4. Near(i, X, j) = X[n] /\ Near(i, X, j - 1) = X[n - 1] BY <1>3, <2>4, <3>1
    <3>5. QED BY <2>4, <3>2, <3>3, <3>4
  <2>5. CASE j = n - 1
    <3>1. j # 1 /\ j # n BY <1>2, <2>5
    <3>2. j = P * N - 1 BY <1>1, <2>5
    <3>3. (s.b[j] ** X[j - 1]) ++ (s.a[j] ** X[j]) ++ (s.c[j] ** X[j + 1]) = s.rhs[j]
      BY <2>2, <3>2, LoopRowCorner
    <3>4. QED BY <1>3, <3>1, <3>3
  <2>6. CASE j # 1 /\ j # n /\ j # n - 1
    <3>1. j \in 2 .. P * N - 2
      <4>1. j \in 2 .. n - 2 BY <1>2, <2>6
      <4>2. QED BY <1>1, <4>1
    <3>2. QED BY <1>3, <2>2, <2>6, <3>1, LoopRowInside
  <2>7. QED BY <2>3, <2>4, <2>5, <2>6
<1>7. QED BY <1>5, <1>6

-----------------------------------------------------------------------------
\* One entry for each block and system.
IsTable(t) == t = [b \in Block |-> [i \in Solve |-> t[b][i]]]

Replaced(t, b, i, v) == [t EXCEPT ![b][i] = v]

(* Replacing one entry of a table leaves the others alone.                  *)
LEMMA TableEntry ==
  ASSUME NEW t, IsTable(t), NEW b \in Block, NEW i \in Solve, NEW v
  PROVE  /\ IsTable(Replaced(t, b, i, v)) /\ Replaced(t, b, i, v)[b][i] = v
         /\ \A c \in Block : \A j \in Solve :
              (c # b \/ j # i) => Replaced(t, b, i, v)[c][j] = t[c][j]
<1> DEFINE V == {t[c][j] : c \in Block, j \in Solve} \cup {v}
<1>1. PICK g : g = t OBVIOUS
<1>2. g \in [Block -> [Solve -> V]] BY <1>1 DEF IsTable
<1>3. PICK u : u = [g EXCEPT ![b][i] = v] OBVIOUS
<1>4. u \in [Block -> [Solve -> V]] BY <1>2, <1>3
<1>5. u[b][i] = v BY <1>2, <1>3
<1>6. \A c \in Block : \A j \in Solve : (c # b \/ j # i) => u[c][j] = t[c][j]
  BY <1>1, <1>2, <1>3
<1>7. IsTable(u)
  <2> HIDE DEF V
  <2>1. \A c \in Block : u[c] = [j \in Solve |-> u[c][j]] BY <1>4
  <2>2. QED BY <1>4, <2>1 DEF IsTable
<1>8. u = Replaced(t, b, i, v) BY <1>1, <1>3 DEF Replaced
<1>9. QED BY <1>5, <1>6, <1>7, <1>8

(* What a block has eliminated it has computed from what the block below    *)
(* sent, and what it has solved from its own coefficients and what the      *)
(* block above sent, also after they have gone on to other systems.         *)
EliminatedValues ==
  \A b \in Block : \A i \in Solve : i <= eliminated[b] => swept[b][i] = Elimination(i, b)
SolvedValues ==
  \A b \in Block : \A i \in Solve : i <= solved[b] => found[b][i] = Substitution(i, b)
UnsolvedValues ==
  \A b \in Block : \A i \in Solve : ~ i <= solved[b] => found[b][i] = <<>>
ValueInv ==
  /\ IInv /\ IsTable(swept) /\ IsTable(found)
  /\ EliminatedValues /\ SolvedValues /\ UnsolvedValues

(* A forward sweep keeps the invariant: no block above has used the entry   *)
(* it replaces.                                                             *)
LEMMA ForwardValuesInvariant ==
  ASSUME ValueInv, OneBlockPerRank, NEW b \in Block, ForwardValues(b)
  PROVE  ValueInv'
<1> DEFINE i == eliminated[b] + 1
<1>1. ForwardSweep(b) /\ IInv BY DEF ForwardValues, ValueInv
<1>2. PICK received \in Token, taken \in SUBSET net :
        /\ Eliminate(b, i, received, taken)
        /\ b > 1 => received = Eliminated(i, b - 1)
  BY <1>1, ForwardReceives
<1>3. /\ TypeOK /\ SweepOrder /\ b \in Nat /\ i \in Solve /\ ColumnOf(i) \in Column
      /\ eliminated[b] \in Nat
  <2>1. TypeOK /\ SweepOrder /\ b \in Nat BY <1>1, CommunicationAssumption DEF IInv, Block
  <2>2. eliminated[b] < MaxSolve BY <1>1, ForwardReceives
  <2>3. i \in Solve /\ eliminated[b] \in Nat
    BY <2>1, <2>2, CommunicationAssumption DEF TypeOK, Solve
  <2>4. ColumnOf(i) \in Column BY <2>3, ColumnType DEF Solve
  <2>5. QED BY <2>1, <2>3, <2>4
<1>4. /\ eliminated' = [eliminated EXCEPT ![b] = i]
      /\ coefficient' = [coefficient EXCEPT ![b][ColumnOf(i)] = Eliminated(i, b)]
      /\ UNCHANGED solved
  <2>1. b = 1 \/ received = Eliminated(i, b - 1)
    BY <1>2, CommunicationAssumption DEF Block
  <2>2. QED BY <1>2, <2>1 DEF Eliminate
<1>5. swept' = [swept EXCEPT ![b][i] = Elimination(i, b)] /\ found' = found
  <2>1. coefficient'[b][ColumnOf(i)] = Eliminated(i, b) BY <1>3, <1>4 DEF TypeOK
  <2>2. QED BY <2>1 DEF ForwardValues
<1>6. /\ IsTable(swept)' /\ swept'[b][i] = Elimination(i, b)
      /\ \A c \in Block : \A j \in Solve :
           (c # b \/ j # i) => swept'[c][j] = swept[c][j]
  <2>1. IsTable(swept) BY DEF ValueInv
  <2>2. swept' = Replaced(swept, b, i, Elimination(i, b)) BY <1>5 DEF Replaced
  <2>3. /\ IsTable(swept') /\ swept'[b][i] = Elimination(i, b)
        /\ \A c \in Block : \A j \in Solve :
             (c # b \/ j # i) => swept'[c][j] = swept[c][j]
    <3> DEFINE v == Elimination(i, b)
    <3>1. /\ IsTable(Replaced(swept, b, i, v)) /\ Replaced(swept, b, i, v)[b][i] = v
          /\ \A c \in Block : \A j \in Solve :
               (c # b \/ j # i) => Replaced(swept, b, i, v)[c][j] = swept[c][j]
      <4> HIDE DEF v
      <4>1. QED BY <1>3, <2>1, TableEntry
    <3>2. QED BY <2>2, <3>1
  <2>4. QED BY <2>3 DEF IsTable
<1>7. IInv' BY <1>1, ForwardInvariant
<1>8. EliminatedValues'
  <2> SUFFICES ASSUME NEW c \in Block, NEW j \in Solve, j <= eliminated'[c]
               PROVE  swept'[c][j] = Elimination(j, c)'
    BY DEF EliminatedValues
  <2>1. CASE c = b /\ j = i
    <3>1. c # 1 => c - 1 \in Block /\ c - 1 # b
      BY <2>1, CommunicationAssumption DEF Block
    <3>2. c # 1 => swept'[c - 1][j] = swept[c - 1][j] BY <1>6, <3>1
    <3>3. Elimination(j, c)' = Elimination(j, c) BY <3>2 DEF Elimination
    <3>4. QED BY <1>6, <2>1, <3>3
  <2>2. CASE c # b \/ j # i
    <3>1. j <= eliminated[c]
      <4>1. CASE c = b
        <5>1. j \in Nat /\ j <= i /\ j # i
          BY <1>3, <1>4, <2>2, <4>1, CommunicationAssumption DEF TypeOK, Solve
        <5>2. QED BY <1>3, <4>1, <5>1
      <4>2. CASE c # b BY <1>4, <4>2 DEF TypeOK
      <4>3. QED BY <4>1, <4>2
    <3>2. c # 1 => c - 1 \in Block /\ c - 1 <= c
      BY CommunicationAssumption DEF Block
    <3>3. c # 1 => c - 1 # b \/ j # i
      <4> SUFFICES ASSUME c # 1, c - 1 = b, j = i PROVE FALSE OBVIOUS
      <4>1. eliminated[c] <= eliminated[b] BY <1>3, <3>2 DEF SweepOrder
      <4>2. eliminated[c] \in Nat BY <1>3, NextBlocks
      <4>3. QED BY <1>3, <3>1, <4>1, <4>2
    <3>4. c # 1 => swept'[c - 1][j] = swept[c - 1][j] BY <1>6, <3>2, <3>3
    <3>5. Elimination(j, c)' = Elimination(j, c) BY <3>4 DEF Elimination
    <3>6. swept[c][j] = Elimination(j, c) BY <3>1 DEF ValueInv, EliminatedValues
    <3>7. QED BY <1>6, <2>2, <3>5, <3>6
  <2>3. QED BY <2>1, <2>2
<1>9. SolvedValues'
  <2> SUFFICES ASSUME NEW c \in Block, NEW j \in Solve, j <= solved[c]
               PROVE  found'[c][j] = Substitution(j, c)'
    BY <1>4 DEF SolvedValues
  <2>1. c # b \/ j # i
    <3> SUFFICES ASSUME c = b, j = i PROVE FALSE OBVIOUS
    <3>1. solved[b] \in Nat /\ solved[b] <= eliminated[b] BY <1>3, NextBlocks
    <3>2. QED BY <1>3, <3>1
  <2>2. swept'[c][j] = swept[c][j] BY <1>6, <2>1
  <2>3. Substitution(j, c)' = Substitution(j, c) BY <1>5, <2>2 DEF Substitution
  <2>4. found[c][j] = Substitution(j, c) BY DEF ValueInv, SolvedValues
  <2>5. QED BY <1>5, <2>3, <2>4
<1>10. UnsolvedValues' BY <1>4, <1>5 DEF ValueInv, UnsolvedValues
<1>11. IsTable(found)' BY <1>5 DEF ValueInv, IsTable
<1>12. QED BY <1>6, <1>7, <1>8, <1>9, <1>10, <1>11 DEF ValueInv

(* A substitution keeps it: no block below has used the entry it replaces.  *)
LEMMA BackwardValuesInvariant ==
  ASSUME ValueInv, OneBlockPerRank, NEW b \in Block, BackwardValues(b)
  PROVE  ValueInv'
<1> DEFINE i == solved[b] + 1
<1>1. BackwardSubstitution(b) /\ IInv BY DEF BackwardValues, ValueInv
<1>2. PICK received \in Token, taken \in SUBSET net :
        /\ Substitute(b, i, received, taken)
        /\ b < P => received = Solved(i, b + 1)
  BY <1>1, BackwardReceives
<1>3. /\ TypeOK /\ SweepOrder /\ b \in Nat /\ i \in Solve /\ solved[b] \in Nat
      /\ solved[b] < eliminated[b] /\ i = eliminated[b]
  <2>1. TypeOK /\ SweepOrder /\ b \in Nat /\ solved[b] < eliminated[b]
    BY <1>1, BackwardReceives, CommunicationAssumption DEF IInv, Block
  <2>2. solved[b] \in Nat /\ eliminated[b] \in 0 .. MaxSolve /\ eliminated[b] <= solved[b] + 1
    BY <2>1, NextBlocks DEF TypeOK
  <2>3. QED BY <2>1, <2>2, CommunicationAssumption DEF Solve
<1>4. /\ solved' = [solved EXCEPT ![b] = i]
      /\ solution' = [solution EXCEPT ![b][i] = Solved(i, b)]
      /\ UNCHANGED eliminated
  <2>1. b = P \/ received = Solved(i, b + 1)
    BY <1>2, CommunicationAssumption DEF Block
  <2>2. coefficient[b][ColumnOf(i)] = Eliminated(i, b)
    BY <1>1, <1>3 DEF IInv, CoefficientsRight
  <2>3. QED BY <1>2, <2>1, <2>2 DEF Substitute
<1>5. found' = [found EXCEPT ![b][i] = Substitution(i, b)] /\ swept' = swept
  <2>1. solution'[b][i] = Solved(i, b) BY <1>3, <1>4 DEF TypeOK
  <2>2. QED BY <2>1 DEF BackwardValues
<1>6. /\ IsTable(found)' /\ found'[b][i] = Substitution(i, b)
      /\ \A c \in Block : \A j \in Solve :
           (c # b \/ j # i) => found'[c][j] = found[c][j]
  <2>1. IsTable(found) BY DEF ValueInv
  <2>2. found' = Replaced(found, b, i, Substitution(i, b)) BY <1>5 DEF Replaced
  <2>3. /\ IsTable(found') /\ found'[b][i] = Substitution(i, b)
        /\ \A c \in Block : \A j \in Solve :
             (c # b \/ j # i) => found'[c][j] = found[c][j]
    <3> DEFINE v == Substitution(i, b)
    <3>1. /\ IsTable(Replaced(found, b, i, v)) /\ Replaced(found, b, i, v)[b][i] = v
          /\ \A c \in Block : \A j \in Solve :
               (c # b \/ j # i) => Replaced(found, b, i, v)[c][j] = found[c][j]
      <4> HIDE DEF v
      <4>1. QED BY <1>3, <2>1, TableEntry
    <3>2. QED BY <2>2, <3>1
  <2>4. QED BY <2>3 DEF IsTable
<1>7. IInv' BY <1>1, BackwardInvariant
<1>8. \A c \in Block : \A j \in Solve : c # b \/ j # i =>
        /\ j <= solved'[c] => j <= solved[c]
        /\ j <= solved[c] => j <= solved'[c]
  <2> TAKE c \in Block
  <2> TAKE j \in Solve
  <2> HAVE c # b \/ j # i
  <2>1. j \in Nat BY CommunicationAssumption DEF Solve
  <2>2. CASE c # b BY <1>3, <1>4, <2>2 DEF TypeOK
  <2>3. CASE c = b
    <3>1. solved'[c] = i /\ solved[c] = solved[b] /\ j # i BY <1>3, <1>4, <2>3 DEF TypeOK
    <3>2. QED BY <1>3, <2>1, <3>1
  <2>4. QED BY <2>2, <2>3
<1>9. SolvedValues'
  <2> SUFFICES ASSUME NEW c \in Block, NEW j \in Solve, j <= solved'[c]
               PROVE  found'[c][j] = Substitution(j, c)'
    BY DEF SolvedValues
  <2>1. CASE c = b /\ j = i
    <3>1. c # P => c + 1 \in Block /\ c + 1 # b
      BY <2>1, CommunicationAssumption DEF Block
    <3>2. c # P => found'[c + 1][j] = found[c + 1][j] BY <1>6, <3>1
    <3>3. Substitution(j, c)' = Substitution(j, c) BY <1>5, <3>2 DEF Substitution
    <3>4. QED BY <1>6, <2>1, <3>3
  <2>2. CASE c # b \/ j # i
    <3>1. j <= solved[c] BY <1>8, <2>2
    <3>2. c # P => c + 1 \in Block /\ c <= c + 1
      BY CommunicationAssumption DEF Block
    <3>3. c # P => c + 1 # b \/ j # i
      <4> SUFFICES ASSUME c # P, c + 1 = b, j = i PROVE FALSE OBVIOUS
      <4>1. solved[c] <= solved[b] BY <1>3, <3>2 DEF SweepOrder
      <4>2. solved[c] \in Nat BY <1>3, NextBlocks
      <4>3. QED BY <1>3, <3>1, <4>1, <4>2
    <3>4. c # P => found'[c + 1][j] = found[c + 1][j] BY <1>6, <3>2, <3>3
    <3>5. Substitution(j, c)' = Substitution(j, c) BY <1>5, <3>4 DEF Substitution
    <3>6. found[c][j] = Substitution(j, c) BY <3>1 DEF ValueInv, SolvedValues
    <3>7. QED BY <1>6, <2>2, <3>5, <3>6
  <2>3. QED BY <2>1, <2>2
<1>10. UnsolvedValues'
  <2> SUFFICES ASSUME NEW c \in Block, NEW j \in Solve, ~ j <= solved'[c]
               PROVE  found'[c][j] = <<>>
    BY DEF UnsolvedValues
  <2>1. c # b \/ j # i
    <3> SUFFICES ASSUME c = b, j = i PROVE FALSE OBVIOUS
    <3>1. solved'[b] = i BY <1>3, <1>4 DEF TypeOK
    <3>2. QED BY <1>3, <3>1
  <2>2. ~ j <= solved[c] BY <1>8, <2>1
  <2>3. QED BY <1>6, <2>1, <2>2 DEF ValueInv, UnsolvedValues
<1>11. EliminatedValues'
  BY <1>4, <1>5 DEF ValueInv, EliminatedValues, Elimination
<1>12. IsTable(swept)' BY <1>5 DEF ValueInv, IsTable
<1>13. QED BY <1>6, <1>7, <1>9, <1>10, <1>11, <1>12 DEF ValueInv

-----------------------------------------------------------------------------
\* What the blocks hold of system i.
SweptOf(i) == [b \in Block |-> swept[b][i]]
FoundOf(i) == [b \in Block |-> found[b][i]]

(* Once all blocks have solved a system, what they hold is chained.         *)
LEMMA ValuesChained ==
  ASSUME ValueInv, RegularPivots, NEW i \in Solve, \A b \in Block : found[b][i] # <<>>
  PROVE  Chained(i, SweptOf(i), FoundOf(i))
<1> DEFINE e == SweptOf(i)
           f == FoundOf(i)
           E == Eliminations(i)
           s == System[i]
<1>1. ASSUME NEW b \in Block
      PROVE  i <= solved[b] /\ i <= eliminated[b]
  <2>1. i <= solved[b] BY DEF ValueInv, UnsolvedValues
  <2>2. solved[b] \in Nat /\ eliminated[b] \in Nat /\ solved[b] <= eliminated[b]
    BY NextBlocks DEF ValueInv, IInv
  <2>3. i \in Nat BY CommunicationAssumption DEF Solve
  <2>4. QED BY <2>1, <2>2, <2>3
<1>2. \A b \in Block : e[b] = swept[b][i] /\ f[b] = found[b][i] BY DEF SweptOf, FoundOf
<1>3. \A b \in Block : e[b] = Swept(i, b, Under(e, b))
  <2> TAKE b \in Block
  <2>1. swept[b][i] = Elimination(i, b) BY <1>1 DEF ValueInv, EliminatedValues
  <2>2. b # 1 => b - 1 \in Block BY CommunicationAssumption DEF Block
  <2>3. QED BY <1>2, <2>1, <2>2 DEF Elimination, Under
<1>4. \A b \in Block :
        f[b] = IF s.periodic THEN PeriodicBackward(s, b, e[b].cell, Above(f, b))
                             ELSE Backward(s, b, e[b].cell, Above(f, b))
  <2> TAKE b \in Block
  <2>1. found[b][i] = Substitution(i, b) BY <1>1 DEF ValueInv, SolvedValues
  <2>2. b # P => b + 1 \in Block BY CommunicationAssumption DEF Block
  <2>3. QED BY <1>2, <2>1, <2>2 DEF Substitution, Above
<1>5. \A b \in Block : e[b] = E[b]
  <2> DEFINE S == {b \in Block : e[b] = E[b]}
  <2>1. \A b \in Block : E[b] = Swept(i, b, IF b = 1 THEN <<>> ELSE E[b - 1].up)
    BY EliminationsAre
  <2>2. 1 \in S
    <3>1. 1 \in Block BY CommunicationAssumption DEF Block
    <3>2. e[1] = Swept(i, 1, <<>>) BY <1>3, <3>1 DEF Under
    <3>3. E[1] = Swept(i, 1, <<>>) BY <2>1, <3>1
    <3>4. QED BY <3>1, <3>2, <3>3
  <2>3. \A b \in 1 .. P - 1 : b \in S => b + 1 \in S
    <3> TAKE b \in 1 .. P - 1
    <3> HAVE b \in S
    <3>1. b + 1 \in Block /\ b + 1 # 1 /\ (b + 1) - 1 = b
      BY CommunicationAssumption DEF Block
    <3>2. e[b + 1] = Swept(i, b + 1, e[b].up) BY <1>3, <3>1 DEF Under
    <3>3. E[b + 1] = Swept(i, b + 1, E[b].up) BY <2>1, <3>1
    <3>4. QED BY <3>1, <3>2, <3>3
  <2>4. P \in Int /\ 1 \in Int BY CommunicationAssumption
  <2> HIDE DEF S
  <2>5. 1 .. P \subseteq S BY <2>2, <2>3, <2>4, Upward
  <2>6. QED BY <2>5 DEF S, Block
<1>6. \A b \in Block : \A j \in il(b) .. iu(b) :
        Regular(IF ~ s.periodic THEN Pivot(s, j, e[b].cell[j - 1])
                ELSE IF j = P * N THEN Diag(s, j) -- e[b].up.bg
                ELSE PeriodicPivot(s, j, e[b].cell[j - 1]))
  <2> TAKE b \in Block
  <2>1. RegularSystem(i) BY DEF RegularPivots
  <2>2. \A j \in il(b) .. iu(b) :
          Regular(IF ~ s.periodic THEN Pivot(s, j, E[b].cell[j - 1])
                  ELSE IF j = P * N THEN Diag(s, j) -- E[b].up.bg
                  ELSE PeriodicPivot(s, j, E[b].cell[j - 1]))
    BY <2>1 DEF RegularSystem
  <2>3. e[b] = E[b] BY <1>5
  <2> HIDE DEF e, E, s
  <2>4. QED BY <2>2, <2>3
<1> HIDE DEF e, f, E
<1>7. Chained(i, e, f) BY <1>3, <1>4, <1>6 DEF Chained
<1>8. QED BY <1>7 DEF e, f

(* The sweeps of forward_backward.hpp and periodic_forward_backward.hpp     *)
(* solve the block tridiagonal system of a column, whatever its matrices,   *)
(* the number of blocks it spans and the cells of each, open or periodic:   *)
(* once every block has solved it, what they have left satisfies the        *)
(* equation of each cell, also of those that join two blocks or the ends of *)
(* a periodic column and of those the walls are folded into.                *)
THEOREM SweepSolves ==
  OneBlockPerRank /\ RegularPivots => (ValueSpec => []SolvesSystem)
<1> SUFFICES ASSUME OneBlockPerRank, RegularPivots
             PROVE  ValueSpec => []SolvesSystem
  OBVIOUS
<1>1. ValueInit => Init BY DEF ValueInit
<1>2. [ValueNext]_valueVars => [Next]_vars
  BY DEF ValueNext, valueVars, ForwardValues, BackwardValues, Next
<1>3. ValueInit /\ IInv => ValueInv
  <2> SUFFICES ASSUME ValueInit, IInv PROVE ValueInv OBVIOUS
  <2>1. IsTable(swept) /\ IsTable(found) BY DEF ValueInit, IsTable
  <2>2. \A b \in Block : \A i \in Solve : ~ i <= eliminated[b] /\ ~ i <= solved[b]
    BY CommunicationAssumption DEF ValueInit, Init, Solve
  <2>3. UnsolvedValues BY DEF ValueInit, UnsolvedValues
  <2>4. QED BY <2>1, <2>2, <2>3 DEF ValueInv, EliminatedValues, SolvedValues
<1>4. ValueInv /\ IInv /\ IInv' /\ [ValueNext]_valueVars => ValueInv'
  <2> SUFFICES ASSUME ValueInv, IInv', [ValueNext]_valueVars PROVE ValueInv' OBVIOUS
  <2>1. CASE UNCHANGED <<eliminated, solved, swept, found>>
    BY <2>1 DEF ValueInv, IsTable, EliminatedValues, SolvedValues, UnsolvedValues,
                Elimination, Substitution
  <2>2. ASSUME NEW b \in Block, ForwardValues(b) \/ BackwardValues(b)
        PROVE  ValueInv'
    BY <2>2, ForwardValuesInvariant, BackwardValuesInvariant
  <2>3. CASE Stopped /\ UNCHANGED <<swept, found>> BY <2>1, <2>3 DEF Stopped, vars
  <2>4. CASE UNCHANGED valueVars BY <2>1, <2>4 DEF valueVars, vars
  <2>5. QED BY <2>2, <2>3, <2>4 DEF ValueNext
<1>5. ValueInv => SolvesSystem
  <2> SUFFICES ASSUME ValueInv, NEW i \in Solve, \A b \in Block : found[b][i] # <<>>,
                      NEW j \in Row
               PROVE  (System[i].b[j] ** Beyond(i, j - 1)) ++ (System[i].a[j] ** Beyond(i, j))
                        ++ (System[i].c[j] ** Beyond(i, j + 1)) = System[i].rhs[j]
    BY DEF SolvesSystem
  <2>1. PICK X : X = ColumnCells(FoundOf(i)) OBVIOUS
  <2>2. \A k \in Row : Cell(i, k) = X[k]
    <3> TAKE k \in Row
    <3>1. BlockOf(k) \in Block BY BlockOfRow
    <3>2. X[k] = FoundOf(i)[BlockOf(k)].cell[k] BY <2>1 DEF ColumnCells
    <3>3. FoundOf(i)[BlockOf(k)] = found[BlockOf(k)][i] BY <3>1 DEF FoundOf
    <3>4. QED BY <3>2, <3>3 DEF Cell, BlockOf
  <2>3. \A k : Beyond(i, k) = Near(i, X, k)
    <3> TAKE k
    <3>1. 1 \in Row /\ P * N \in Row
      <4>1. PICK n : n = P * N OBVIOUS
      <4>2. n \in Nat /\ n >= 4 /\ Row = 1 .. n BY <4>1, ColumnSize
      <4>3. QED BY <4>1, <4>2
    <3>2. Cell(i, 1) = X[1] /\ Cell(i, P * N) = X[P * N] BY <2>2, <3>1
    <3>3. QED BY <2>2, <3>2 DEF Beyond, Near
  <2>4. Chained(i, SweptOf(i), FoundOf(i)) BY ValuesChained
  <2>5. (System[i].b[j] ** Near(i, X, j - 1)) ++ (System[i].a[j] ** Near(i, X, j))
          ++ (System[i].c[j] ** Near(i, X, j + 1)) = System[i].rhs[j]
    BY <2>1, <2>4, ChainSolves
  <2>6. QED BY <2>3, <2>5
<1>6. Spec => []IInv BY SweepInvariant
<1>7. QED BY <1>1, <1>2, <1>3, <1>4, <1>5, <1>6, PTL DEF ValueSpec, Spec
=============================================================================
