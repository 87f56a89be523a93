---------------------------- MODULE MCAionShares ----------------------------
(***************************************************************************)
(* Instances of AionShares: two connections, two templates one backlog     *)
(* apart, of which the second has the lower target.  Difficulties are      *)
(* counted in halves: a hash of 3.0 is a share at 3.5, whose target is     *)
(* that of 3, and none at 4.0; it finds a block on the second template.    *)
(* Texts 1 and 3 write the same nonce, 1 and 2 differ in the case of       *)
(* letters only, and 4 is another nonce.                                   *)
(***************************************************************************)
EXTENDS AionShares, TLC

CONSTANTS c1, c2, alice, bob

Heights == [j \in Jobs |-> 2 * j]
Targets == [j \in Jobs |-> IF j = 1 THEN 8 ELSE 6]
Told == [j \in Jobs |-> IF j = 1 THEN 4 ELSE 0]  \* the daemon did not answer
LowerCase == [x \in Texts |-> IF x = 2 THEN 1 ELSE x]
Bytes == [x \in Texts |-> IF x = 4 THEN 4 ELSE 1]
HashOf == [n \in Nonces |-> 6]

Symmetric == Permutations(Clients) \cup Permutations(Miners)

=============================================================================
