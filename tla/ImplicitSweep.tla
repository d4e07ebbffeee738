---------------------------- MODULE ImplicitSweep ----------------------------
(***************************************************************************)
(* The implicit solver's sweep over a stack of meshblocks (snap/implicit). *)
(* PartialCorrection and FullCorrection solve one column after the other.  *)
(* In ForwardSweep a block receives the coefficients of the block below    *)
(* into buffer_[k][j], eliminates its own cells, saves its coefficients    *)
(* and sends its last ones up from the same buffer_[k][j]; in              *)
(* BackwardSubstitution it receives from above into that buffer, solves,   *)
(* sends its lowest solution down from it, and waits for both its sends.   *)
(* PeriodicForwardSweep and PeriodicBackwardSubstitution send and receive  *)
(* in the same order.                                                      *)
(*                                                                         *)
(* MPI may copy a message when it is posted or read the sender's buffer    *)
(* when it is received; a receive takes the first message of its source    *)
(* rank and tag.  The column is left out of the tag, as if all columns had *)
(* the same hash; nothing else uses the communicator.  Values are          *)
(* abstracted to whether they are what a serial solver would have computed.*)
(***************************************************************************)
EXTENDS Naturals

CONSTANTS
  P,          \* blocks stacked along the direction that is solved
  MaxSolve,   \* bound: systems solved
  Rank,       \* the MPI ranks
  RankOf,     \* the rank that owns a block
  NColumn,    \* columns of a block, solved in turn in every stage
  Tag         \* Tag[to][from][way]: CreateMPITag of any column, in MPI's range

Block == 1 .. P
Solve == 1 .. MaxSolve
Way == {"up", "down"}

ASSUME CommunicationAssumption ==
  /\ P \in Nat \ {0} /\ MaxSolve \in Nat /\ NColumn \in Nat \ {0}
  /\ RankOf \in [Block -> Rank]
  /\ Tag \in [Block -> [Block -> [Way -> Nat]]]

VARIABLES
  eliminated,   \* eliminated[b]: systems block b has eliminated
  solved,       \* solved[b]: systems block b has solved
  solution,     \* solution[b][i]: what it left in du_ for system i
  buffer,       \* buffer[b][c]: buffer_ of the block, for column c
  coefficient,  \* coefficient[b][c]: what SaveCoefficients kept
  pending,      \* pending[b]: the block's sends that are not complete
  net,          \* the messages MPI holds
  posted,       \* posted[r]: how many messages rank r has posted
  crashed       \* a rank has used the null pointer of a block it does not own

vars == <<eliminated, solved, solution, buffer, coefficient, pending, net,
          posted, crashed>>

Serial == INSTANCE SerialSweep

\* What a serial solver computes, what is there before, and anything else.
Eliminated(i, b) == Serial!Eliminated(i, b)
Solved(i, b) == Serial!Solved(i, b)
None == Serial!None
Wrong == <<"wrong", 0, 0>>

\* The column of system i.
Column == 0 .. NColumn - 1
ColumnOf(i) == i % NColumn

\* MPI is needed to reach block nb (variant: never).
RemoteNever(b, nb) == FALSE
Remote(b, nb) == RankOf[b] # RankOf[nb]

-----------------------------------------------------------------------------
Init ==
  /\ eliminated = [b \in Block |-> 0]
  /\ solved = [b \in Block |-> 0]
  /\ solution = [b \in Block |-> [i \in Solve |-> None]]
  /\ buffer = [b \in Block |-> [c \in Column |-> None]]
  /\ coefficient = [b \in Block |-> [c \in Column |-> None]]
  /\ pending = [b \in Block |-> {}]
  /\ net = {}
  /\ posted = [r \in Rank |-> 0]
  /\ crashed = FALSE

\* The task list comes to the blocks of a rank from the lowest up, once in a
\* stage, and SolveImplicit3D does all columns of one before it returns.
Turn(b) ==
  LET stage == solved[b] \div NColumn
  IN  \A c \in Block \ {b} : RankOf[c] = RankOf[b] =>
        /\ eliminated[c] = solved[c] /\ pending[c] = {}
        /\ solved[c] = (IF c < b THEN stage + 1 ELSE stage) * NColumn

\* RecvBuffer: the messages that match a receive from block nb, the first of
\* which is taken, and the value it brings.
Matching(b, nb, way) ==
  {m \in net : /\ m.src = RankOf[nb] /\ m.dst = RankOf[b]
               /\ m.tag = Tag[b][nb][way]}
First(S) == {m \in S : \A o \in S : m.order <= o.order}
Value(m) == IF m.copied THEN m.data ELSE buffer[m.from][ColumnOf(m.solve)]

\* Variant: a request that is not the last one is never completed.
StillPendingAll(taken) == pending

\* The requests left when the messages in taken are received.
StillPending(taken) ==
  [x \in Block |->
    pending[x] \ {w \in Way : \E m \in taken : m.from = x /\ m.way = w /\ ~ m.copied}]

(* SendBuffer of the value of system i from block b to block nb, after a    *)
(* receive that has taken some messages.                                    *)
SendRemote(b, nb, way, i, value, taken) ==
  /\ Remote(b, nb)
  /\ buffer' = [buffer EXCEPT ![b][ColumnOf(i)] = value]
  /\ \E copied \in BOOLEAN :
       /\ net' = (net \ taken) \cup
            {[src |-> RankOf[b], dst |-> RankOf[nb], tag |-> Tag[nb][b][way],
              order |-> posted[RankOf[b]], from |-> b, way |-> way,
              solve |-> i, copied |-> copied, data |-> value]}
       /\ pending' = [StillPending(taken) EXCEPT
            ![b] = IF copied THEN @ ELSE @ \cup {way}]
  /\ posted' = [posted EXCEPT ![RankOf[b]] = @ + 1]
  /\ UNCHANGED crashed

\* On the same rank the value is copied to the buffer of the block bblock,
\* whichever way it is sent.  If that block is not on this rank the pointer is
\* null; the bblock of the bottom block is not set and may be any block.
SendLocal(b, nb, way, i, value, taken) ==
  /\ ~ Remote(b, nb)
  /\ \/ \E t \in Block :
          /\ RankOf[t] = RankOf[b]
          /\ b > 1 => t = b - 1
          /\ buffer' = [buffer EXCEPT ![b][ColumnOf(i)] = value,
                                      ![t][ColumnOf(i)] = value]
          /\ UNCHANGED crashed
     \/ /\ b > 1 => RankOf[b - 1] # RankOf[b]
        /\ crashed' = TRUE
        /\ buffer' = [buffer EXCEPT ![b][ColumnOf(i)] = value]
  /\ net' = net \ taken
  /\ pending' = StillPending(taken)
  /\ UNCHANGED posted

SendBuffer(b, nb, way, i, value, taken) ==
  SendRemote(b, nb, way, i, value, taken) \/ SendLocal(b, nb, way, i, value, taken)

\* The last block in the way of the sweep sends nothing; its buffer holds
\* what it has received, if it has received at all.
NoSend(b, i, received, taken) ==
  /\ buffer' = [buffer EXCEPT ![b][ColumnOf(i)] = received]
  /\ net' = net \ taken
  /\ pending' = StillPending(taken)
  /\ UNCHANGED <<posted, crashed>>

-----------------------------------------------------------------------------
\* The elimination of system i in block b, from the value received.
Eliminate(b, i, received, taken) ==
  LET value == IF b = 1 \/ received = Eliminated(i, b - 1)
               THEN Eliminated(i, b) ELSE Wrong
  IN  /\ coefficient' = [coefficient EXCEPT ![b][ColumnOf(i)] = value]
      /\ eliminated' = [eliminated EXCEPT ![b] = i]
      /\ IF b < P THEN SendBuffer(b, b + 1, "up", i, value, taken)
                  ELSE NoSend(b, i, received, taken)
      /\ UNCHANGED <<solved, solution>>

\* Variants: the next column is started before the one in hand is solved; its
\* sends are not waited for either.
ForwardPipelined(b) ==
  LET i == eliminated[b] + 1
  IN  /\ ~ crashed
      /\ eliminated[b] < MaxSolve
      /\ pending[b] = {}
      /\ Turn(b)
      /\ \/ /\ b > 1 => ~ Remote(b, b - 1)
            /\ Eliminate(b, i, buffer[b][ColumnOf(i)], {})
         \/ /\ b > 1 /\ Remote(b, b - 1)
            /\ \E m \in First(Matching(b, b - 1, "up")) :
                 Eliminate(b, i, Value(m), {m})

ForwardUnwaited(b) ==
  LET i == eliminated[b] + 1
  IN  /\ ~ crashed
      /\ eliminated[b] < MaxSolve
      /\ Turn(b)
      /\ \/ /\ b > 1 => ~ Remote(b, b - 1)
            /\ Eliminate(b, i, buffer[b][ColumnOf(i)], {})
         \/ /\ b > 1 /\ Remote(b, b - 1)
            /\ \E m \in First(Matching(b, b - 1, "up")) :
                 Eliminate(b, i, Value(m), {m})

(* ForwardSweep, once the sends of the column before are complete (MPI_Wait *)
(* at the end of BackwardSubstitution).                                     *)
ForwardSweep(b) ==
  LET i == eliminated[b] + 1
  IN  /\ ~ crashed
      /\ eliminated[b] = solved[b] /\ eliminated[b] < MaxSolve
      /\ pending[b] = {}
      /\ Turn(b)
      /\ \/ /\ b > 1 => ~ Remote(b, b - 1)
            /\ Eliminate(b, i, buffer[b][ColumnOf(i)], {})
         \/ /\ b > 1 /\ Remote(b, b - 1)
            /\ \E m \in First(Matching(b, b - 1, "up")) :
                 Eliminate(b, i, Value(m), {m})

\* LoadCoefficients and the substitution of system i in block b.
Substitute(b, i, received, taken) ==
  LET value == IF /\ coefficient[b][ColumnOf(i)] = Eliminated(i, b)
                  /\ b = P \/ received = Solved(i, b + 1)
               THEN Solved(i, b) ELSE Wrong
  IN  /\ solution' = [solution EXCEPT ![b][i] = value]
      /\ solved' = [solved EXCEPT ![b] = i]
      /\ IF b > 1 THEN SendBuffer(b, b - 1, "down", i, value, taken)
                  ELSE NoSend(b, i, received, taken)
      /\ UNCHANGED <<eliminated, coefficient>>

\* Variant: the buffer is read without a receive.
BackwardUnreceived(b) ==
  LET i == solved[b] + 1
  IN  /\ ~ crashed
      /\ solved[b] < eliminated[b]
      /\ Substitute(b, i, buffer[b][ColumnOf(i)], {})

(* BackwardSubstitution, up to its waits.                                   *)
BackwardSubstitution(b) ==
  LET i == solved[b] + 1
  IN  /\ ~ crashed
      /\ solved[b] < eliminated[b]
      /\ \/ /\ b < P => ~ Remote(b, b + 1)
            /\ Substitute(b, i, buffer[b][ColumnOf(i)], {})
         \/ /\ b < P /\ Remote(b, b + 1)
            /\ \E m \in First(Matching(b, b + 1, "down")) :
                 Substitute(b, i, Value(m), {m})

AllSolved == \A b \in Block : solved[b] = MaxSolve /\ pending[b] = {}

\* The last column is solved, or the program is gone.
Stopped == (AllSolved \/ crashed) /\ UNCHANGED vars

Next ==
  \/ \E b \in Block : ForwardSweep(b) \/ BackwardSubstitution(b)
  \/ Stopped

\* A rank that can go on does: it waits only in the receives of the block
\* whose turn it is.
RankStep(r) ==
  \E b \in Block : RankOf[b] = r /\ (ForwardSweep(b) \/ BackwardSubstitution(b))
Fairness == \A r \in Rank : WF_vars(RankStep(r))

Spec == Init /\ [][Next]_vars
FairSpec == Spec /\ Fairness

-----------------------------------------------------------------------------
OneBlockPerRank == \A b, c \in Block : RankOf[b] = RankOf[c] => b = c

\* Between two blocks of a rank there is none of another.
Contiguous ==
  \A b, c, d \in Block : b < c /\ c < d /\ RankOf[b] = RankOf[d] => RankOf[c] = RankOf[b]

Token ==
  {Eliminated(i, b) : i \in Solve, b \in Block} \cup
  {Solved(i, b) : i \in Solve, b \in Block} \cup {None, Wrong}

Message ==
  [src : Rank, dst : Rank, tag : Nat, order : Nat, from : Block, way : Way,
   solve : Solve, copied : BOOLEAN, data : Token]

(* The counters stay within the systems to solve, and a block has solved    *)
(* none it has not eliminated (du_, buffer_, coefficients_, MPI requests).  *)
TypeOK ==
  /\ eliminated \in [Block -> 0 .. MaxSolve]
  /\ solved \in [Block -> 0 .. MaxSolve]
  /\ \A b \in Block : eliminated[b] - solved[b] \in {0, 1}
  /\ solution \in [Block -> [Solve -> Token]]
  /\ buffer \in [Block -> [Column -> Token]]
  /\ coefficient \in [Block -> [Column -> Token]]
  /\ pending \in [Block -> SUBSET Way]
  /\ net \subseteq Message
  /\ posted \in [Rank -> Nat]
  /\ crashed \in BOOLEAN

(* Every solution a block has put in du_ is the one of a serial solver:     *)
(* sharing one buffer between receives and sends of both ways, hashed tags  *)
(* that may collide and sends not waited for until the end do no harm.      *)
SolutionsRight ==
  \A b \in Block : \A i \in 1 .. solved[b] : solution[b][i] = Solved(i, b)

(* Between two blocks MPI holds at most one message: the number of          *)
(* unexpected messages does not grow, and equal tags cannot be confused.    *)
OneMessage ==
  \A m, o \in net : m.src = o.src /\ m.dst = o.dst => m = o

\* Why it is so, with a block per rank: towards the top no block has
\* eliminated more or solved less, so the counters say which message is held.
SweepOrder ==
  \A b, c \in Block : b <= c =>
    eliminated[c] <= eliminated[b] /\ solved[b] <= solved[c]

CoefficientsRight ==
  \A b \in Block : solved[b] < eliminated[b] =>
    coefficient[b][ColumnOf(eliminated[b])] = Eliminated(eliminated[b], b)

UpRight(m) ==
  m.way = "up" =>
    /\ m.from < P /\ m.dst = RankOf[m.from + 1]
    /\ m.solve = eliminated[m.from] /\ m.solve = eliminated[m.from + 1] + 1
    /\ Value(m) = Eliminated(m.solve, m.from)

DownRight(m) ==
  m.way = "down" =>
    /\ m.from > 1 /\ m.dst = RankOf[m.from - 1]
    /\ m.solve = solved[m.from] /\ m.solve = solved[m.from - 1] + 1
    /\ Value(m) = Solved(m.solve, m.from)

MessagesRight ==
  \A m \in net : m.src = RankOf[m.from] /\ UpRight(m) /\ DownRight(m)

IInv == TypeOK /\ SweepOrder /\ CoefficientsRight /\ MessagesRight
          /\ SolutionsRight /\ OneMessage

(* No buffer is rewritten, by a receive or by the next send, while MPI may  *)
(* still read it.                                                           *)
BufferStable ==
  [][\A m \in net : ~ m.copied /\ m \in net' =>
       buffer'[m.from][ColumnOf(m.solve)] = buffer[m.from][ColumnOf(m.solve)]]_vars

(* The sweep is the serial algorithm, step by step: a block never starts a  *)
(* column that the blocks above have not left, and no two blocks ever work  *)
(* at the same time.                                                        *)
ImplementsSerial == Serial!Spec

(* Every column of every block is solved and every send is complete.        *)
Completes == <>AllSolved

=============================================================================
