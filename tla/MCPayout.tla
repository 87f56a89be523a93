------------------------------ MODULE MCPayout ------------------------------
(***************************************************************************)
(* Instances of Payout: one pool with a miner and a reward recipient, and  *)
(* the deployments that show a single disagreement with the code.          *)
(***************************************************************************)
EXTENDS Payout

CONSTANTS p1, p2, miner, recipient

OnePool == [b \in Blocks |-> p1]
PoolEach == [b \in Blocks |-> IF b = 1 THEN p1 ELSE p2]
AccountsOfOnePool == [a \in Accounts |-> p1]

Ascending == [b \in Blocks |-> b - 1]
SameHeight == [b \in Blocks |-> 0]

(* the miner's share shrinks from block to block, the recipient's grows *)
Rewards == [b \in Blocks |-> [a \in Accounts |-> IF a = miner THEN 3 - b ELSE b - 1]]

Corrections == {1, -1}

=============================================================================
