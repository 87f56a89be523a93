------------------------------- MODULE MCPPLNS -------------------------------
(***************************************************************************)
(* Instances of PPLNS: five shares of two miners, two of them of the same  *)
(* date and one without network difficulty, and three blocks, the last of  *)
(* which leaves nothing to the miners.                                     *)
(***************************************************************************)
EXTENDS PPLNS

CONSTANTS alice, bob

Dates == [s \in Shares |-> CASE s = 1 -> 1 [] s = 2 -> 2 [] s = 3 -> 2 [] s = 4 -> 3 [] OTHER -> 4]
Scores == [s \in Shares |-> CASE s = 1 -> 1 [] s = 2 -> 2 [] s = 3 -> 1 [] s = 4 -> -1 [] OTHER -> 2]
Finders == [s \in Shares |-> IF s \in {1, 3} THEN alice ELSE bob]

BlockDates == [b \in Blocks |-> IF b = 1 THEN 3 ELSE 4]
LeftForMiners == [b \in Blocks |-> IF b = 3 THEN 0 ELSE 1]

=============================================================================
