--------------------------- MODULE MCImplicitShared ---------------------------
(* ImplicitSweep on a stack of P blocks, placed on ranks in every way there *)
(* is up to the names of the ranks, and with tags that are all different.   *)
EXTENDS Naturals

CONSTANTS P, MaxSolve, Rank, NColumn

ASSUME RankAssumption == Rank = 1 .. P

VARIABLES
  place,        \* place[b]: the rank of block b
  eliminated, solved, solution, buffer, coefficient, pending, net, posted, crashed

\* Ranks are numbered in the order in which the stack comes to them.
Placements ==
  {p \in [1 .. P -> Rank] :
     \A b \in 1 .. P : \A r \in 1 .. p[b] - 1 : \E c \in 1 .. b - 1 : p[c] = r}

MCTag ==
  [b \in 1 .. P |-> [c \in 1 .. P |-> [w \in {"up", "down"} |->
    2 * (P * b + c) + (IF w = "up" THEN 1 ELSE 0)]]]

On(p) == INSTANCE ImplicitSweep WITH RankOf <- p, Tag <- MCTag

pvars == <<place, eliminated, solved, solution, buffer, coefficient, pending,
           net, posted, crashed>>

Init == \E p \in Placements : place = p /\ On(p)!Init
Next == \E p \in Placements : place = p /\ On(p)!Next /\ UNCHANGED place

RankStep(r) ==
  \E p \in Placements : place = p /\ On(p)!RankStep(r) /\ UNCHANGED place

FairSpec == Init /\ [][Next]_pvars /\ \A r \in Rank : WF_pvars(RankStep(r))

Contiguous == \E p \in Placements : place = p /\ On(p)!Contiguous
AllSolved == \E p \in Placements : place = p /\ On(p)!AllSolved

(* On ranks that have no other stack: if the blocks of each rank lie next   *)
(* to each other in the stack, none waits forever for a message that is     *)
(* never sent: the sweep ends, if only with the program gone.  If they do   *)
(* not, it never ends: a rank waits in one of its blocks for what another   *)
(* of its own blocks has still to send.                                     *)
Ends ==
  /\ Contiguous => <>(AllSolved \/ crashed)
  /\ ~ Contiguous => []~AllSolved
===============================================================================
