---------------------------- MODULE BalanceLedger ----------------------------
(***************************************************************************)
(* What the balances promise: a transaction adds all of its amounts at     *)
(* once, each thread's transactions in order and once.  The transactions   *)
(* of the payment thread are never given up; a request of the admin API    *)
(* that fails is.                                                          *)
(***************************************************************************)
EXTENDS Integers

CONSTANTS
  Addresses,
  Threads,
  Payer,    \* the payment thread
  Effect    \* Effect[w][i][a]: what the i-th transaction of w adds to a

VARIABLES balance, next

Init == balance = [a \in Addresses |-> 0] /\ next = [w \in Threads |-> 1]

Pass(some) ==
  /\ \A w \in some : next[w] \in DOMAIN Effect[w]
  /\ next' = [w \in Threads |-> IF w \in some THEN next[w] + 1 ELSE next[w]]

Apply(w) ==
  /\ Pass({w})
  /\ balance' = [a \in Addresses |-> balance[a] + Effect[w][next[w]][a]]

GiveUp(some) == Pass(some) /\ UNCHANGED balance

Next == (\E w \in Threads : Apply(w)) \/ (\E some \in SUBSET (Threads \ {Payer}) : GiveUp(some))

Spec == Init /\ [][Next]_<<balance, next>>

=============================================================================
