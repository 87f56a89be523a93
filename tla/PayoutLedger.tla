---------------------------- MODULE PayoutLedger ----------------------------
(***************************************************************************)
(* What the payment processor promises, without pools, daemons, snapshots  *)
(* or database transactions: a block is credited at most once, and every   *)
(* coin that leaves the wallet towards an account was gained by that       *)
(* account before, except for the coins of transfers whose bookkeeping was *)
(* lost.  Payout implements this ledger.                                   *)
(***************************************************************************)
EXTENDS Integers

CONSTANTS
  Blocks,     \* rows of the table blocks
  Accounts,   \* rows of the table balances: (pool, address) pairs
  Reward,     \* Reward[b][a]: what account a gains when block b is confirmed
  Donations   \* amounts the operator may add to an account

VARIABLES
  credited,     \* blocks whose reward was distributed
  gained,       \* gained[a]: everything ever credited to a
  transferred,  \* transferred[a]: everything ever sent to a on the chain
  forgotten     \* forgotten[a]: what was sent to a and never booked

vars == <<credited, gained, transferred, forgotten>>

Init ==
  /\ credited = {}
  /\ gained = [a \in Accounts |-> 0]
  /\ transferred = [a \in Accounts |-> 0]
  /\ forgotten = [a \in Accounts |-> 0]

Credit(b) ==
  /\ b \notin credited
  /\ credited' = credited \cup {b}
  /\ gained' = [a \in Accounts |-> gained[a] + Reward[b][a]]
  /\ UNCHANGED <<transferred, forgotten>>

Donate(a, n) ==  \* a correction by the operator in the account's favour
  /\ gained' = [gained EXCEPT ![a] = @ + n]
  /\ UNCHANGED <<credited, transferred, forgotten>>

Transfer(a, n) ==  \* its bookkeeping follows, or is lost at once
  /\ transferred' = [transferred EXCEPT ![a] = @ + n]
  /\ forgotten' \in {forgotten, [forgotten EXCEPT ![a] = @ + n]}
  /\ UNCHANGED <<credited, gained>>

Forget(a, n) ==
  /\ forgotten' = [forgotten EXCEPT ![a] = @ + n]
  /\ UNCHANGED <<credited, gained, transferred>>

(***************************************************************************)
(* A transfer is covered by what the account gained and was not yet sent,  *)
(* not counting what the books forgot; only what was sent can be           *)
(* forgotten.                                                              *)
(***************************************************************************)
Covered(a) == gained[a] + forgotten[a] - transferred[a]

Next ==
  \/ \E b \in Blocks : Credit(b)
  \/ \E a \in Accounts :
       \/ \E n \in Donations : Donate(a, n)
       \/ \E n \in 0 .. Covered(a) : Transfer(a, n)
       \/ \E n \in 0 .. transferred[a] - forgotten[a] : Forget(a, n)

Spec == Init /\ [][Next]_vars

=============================================================================
