------------------------- MODULE MCHydrostaticSweep -------------------------
(* Instances of HydrostaticSweep: two columns of three blocks, and          *)
(* densities and top pressures that no two cells have in common.            *)
EXTENDS HydrostaticSweep, TLC

\* The order of blocks in the mesh of three by two: Z order.
MCGid == <<1, 1>> :> 0 @@ <<1, 2>> :> 1 @@ <<2, 1>> :> 2 @@ <<2, 2>> :> 3
         @@ <<1, 3>> :> 4 @@ <<2, 3>> :> 5

\* Six ranks with a block each; three with two successive blocks; and five,
\* the last of which has the upper blocks of both columns.
MCSetups ==
  [rankOf : {MCGid}, inner : Flag, outer : Flag] \cup
  [rankOf : {[b \in Block |-> MCGid[b] \div 2],
             [b \in Block |-> IF MCGid[b] = 5 THEN 4 ELSE MCGid[b]]},
   inner : {"reflect"}, outer : {"outflow"}]

MCDensity == [t \in Token |-> 2 ^ t[3] + 100 * t[2] + 1000 * t[1]]
MCExtrapolated == [t \in Token |-> 7 * t[3] + 50 * t[2] + 500 * t[1]]
=============================================================================
