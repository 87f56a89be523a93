----------------------------- MODULE MCBalances -----------------------------
(* Two blocks, of the PPLNS and of the solo scheme, that credit a          *)
(* recipient of the pool twice and a miner, and four requests for the     *)
(* same addresses: more than a pool of three connections can serve.        *)
EXTENDS Balances, TLC

CONSTANTS pool, miner, payments, request1, request2, request3, request4

MCWork ==
  payments :> << PPLNSBlock(TRUE, Add(pool, 1), Add(miner, 3) \o Add(pool, 2)),
                 SoloBlock(FALSE, Add(pool, 1), Add(miner, 5)) >>
  @@ request1 :> <<Add(miner, 10)>>
  @@ request2 :> <<Add(pool, -4)>>
  @@ request3 :> <<Add(pool, 20)>>
  @@ request4 :> <<Add(pool, 40)>>

=============================================================================
