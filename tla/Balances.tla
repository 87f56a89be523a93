------------------------------ MODULE Balances ------------------------------
(***************************************************************************)
(* The tables balances and balance_changes and the threads that write      *)
(* them: the payment thread, which credits the reward of a block in one    *)
(* transaction, and requests of the admin API.  PostgreSQL runs their      *)
(* statements at READ COMMITTED: a statement sees what was committed and   *)
(* what its own transaction wrote, and waits for a row another transaction *)
(* wrote.  Connections come from a pool; the payment thread opens a second *)
(* one inside its transaction.                                             *)
(***************************************************************************)
EXTENDS Integers, Sequences, FiniteSets, Sums

CONSTANTS
  Addresses,
  Threads,
  Payer,       \* the payment thread
  Work,        \* the transactions of a thread, in order
  PoolSize,    \* connections of the pool
  None,        \* no row, no holder
  MaxCrashes   \* bound

Adds == [op : {"add"}, address : Addresses, amount : Int]
Steps == Adds \cup {[op |-> "read"]}

ASSUME BalancesAssumption ==
  /\ Work \in [Threads -> Seq(Seq(Steps))]
  /\ PoolSize \in Nat /\ MaxCrashes \in Nat
  /\ None \notin Int \cup Threads

(* What a transaction does to balances and connections: AddAmountAsync and *)
(* cf.Run, a query on a connection of its own.                             *)
Add(a, x) == <<[op |-> "add", address |-> a, amount |-> x]>>
Read == <<[op |-> "read"]>>

(* the reward of a block: its effort, if it has none yet, the recipients,  *)
(* and the shares of the scheme, before it adds and after it               *)
CalculateBlockEffort(hasEffort) == IF hasEffort THEN <<>> ELSE Read
PPLNSBlock(hasEffort, recipients, rewards) ==
  CalculateBlockEffort(hasEffort) \o recipients \o Read \o rewards \o Read
SoloBlock(hasEffort, recipients, rewards) ==
  CalculateBlockEffort(hasEffort) \o recipients \o rewards

VARIABLES
  (* the database *)
  balances,    \* committed amount of an address, None without a row
  changes,     \* committed sum of its balance_changes
  holder,      \* transaction that wrote the row and has not ended
  written,     \* what it wrote
  (* transactions *)
  next,        \* transaction a thread is at
  pc,
  step,        \* step of the transaction
  found,       \* did the query find a row
  inserted,    \* sum of the balance_changes a transaction inserted
  crashes

database == <<balances, changes, holder, written>>
vars == <<database, next, pc, step, found, inserted, crashes>>

TypeOK ==
  /\ balances \in [Addresses -> Int \cup {None}] /\ changes \in [Addresses -> Int]
  /\ holder \in [Addresses -> Threads \cup {None}] /\ written \in [Addresses -> Int]
  /\ next \in [Threads -> Nat \ {0}] /\ step \in [Threads -> Nat \ {0}]
  /\ \A w \in Threads : next[w] <= Len(Work[w]) + 1
  /\ pc \in [Threads -> {"closed", "next", "query", "balance", "reading"}]
  /\ \A w \in Threads : pc[w] # "closed" => next[w] <= Len(Work[w])
  /\ found \in [Threads -> BOOLEAN]
  /\ inserted \in [Threads -> [Addresses -> Int]]
  /\ crashes \in 0 .. MaxCrashes

Init ==
  /\ balances = [a \in Addresses |-> None] /\ changes = [a \in Addresses |-> 0]
  /\ holder = [a \in Addresses |-> None] /\ written = [a \in Addresses |-> 0]
  /\ next = [w \in Threads |-> 1] /\ step = [w \in Threads |-> 1]
  /\ pc = [w \in Threads |-> "closed"]
  /\ found = [w \in Threads |-> FALSE]
  /\ inserted = [w \in Threads |-> [a \in Addresses |-> 0]]
  /\ crashes = 0

Transaction(w) == Work[w][next[w]]
Current(w) == Transaction(w)[step[w]]
Address(w) == Current(w).address
Amount(w) == Current(w).amount
At(w, where) == pc[w] = where
Goto(w, where) == pc' = [pc EXCEPT ![w] = where]
AtStep(w, op) == step[w] <= Len(Transaction(w)) /\ Current(w).op = op

Opened == Cardinality({w \in Threads : pc[w] # "closed"})
            + Cardinality({w \in Threads : pc[w] = "reading"})

-----------------------------------------------------------------------------
(* the end of a transaction *)
Release(w) ==
  /\ holder' = [a \in Addresses |-> IF holder[a] = w THEN None ELSE holder[a]]
  /\ written' = [a \in Addresses |-> IF holder[a] = w THEN 0 ELSE written[a]]

Close(w) ==
  /\ Goto(w, "closed")
  /\ step' = [step EXCEPT ![w] = 1] /\ found' = [found EXCEPT ![w] = FALSE]
  /\ inserted' = [inserted EXCEPT ![w] = [a \in Addresses |-> 0]]

Amounts(a) == IF balances[a] = None THEN 0 ELSE balances[a]

Advance(w) ==
  /\ Goto(w, "next")
  /\ step' = [step EXCEPT ![w] = @ + 1]
  /\ found' = [found EXCEPT ![w] = FALSE]

Committed(w) ==
  /\ balances' = [a \in Addresses |-> IF holder[a] = w THEN written[a] ELSE balances[a]]
  /\ changes' = [a \in Addresses |-> changes[a] + inserted[w][a]]

(***************************************************************************)
(* Slips: how operators below could go wrong.  No specification uses them; *)
(* each refutes the property it is paired with.                            *)
(***************************************************************************)
KeepsOpen(w) ==  \* the connection is not disposed of
  /\ At(w, "next") /\ step[w] > Len(Transaction(w))
  /\ Committed(w) /\ Release(w)
  /\ next' = [next EXCEPT ![w] = @ + 1]
  /\ UNCHANGED <<pc, step, found, inserted, crashes>>
CommitsAnyway(w) ==  \* the commit is in a finally block
  /\ Committed(w) /\ Release(w) /\ Close(w)
  /\ next' = IF w = Payer THEN next ELSE [next EXCEPT ![w] = @ + 1]
  /\ UNCHANGED crashes
DoNothingOnConflict(w) ==
  /\ At(w, "balance") /\ ~found[w] /\ holder[Address(w)] = None
  /\ \/ /\ balances[Address(w)] = None
        /\ holder' = [holder EXCEPT ![Address(w)] = w]
        /\ written' = [written EXCEPT ![Address(w)] = Amount(w)]
     \/ balances[Address(w)] # None /\ UNCHANGED <<holder, written>>
  /\ Advance(w)
  /\ UNCHANGED <<balances, changes, next, inserted, crashes>>

Commit(w) ==
  /\ At(w, "next") /\ step[w] > Len(Transaction(w))
  /\ Committed(w) /\ Release(w) /\ Close(w)
  /\ next' = [next EXCEPT ![w] = @ + 1]
  /\ UNCHANGED crashes

(* an exception: the block stays as it was and the payment thread takes it *)
(* up at its next interval, a request is answered with an error            *)
Rollback(w) ==
  /\ Release(w) /\ Close(w)
  /\ next' = IF w = Payer THEN next ELSE [next EXCEPT ![w] = @ + 1]
  /\ UNCHANGED <<balances, changes, crashes>>

-----------------------------------------------------------------------------
(* OpenConnectionAsync: a pool without a free connection makes its caller  *)
(* wait until it throws.                                                   *)
Exhausted == Opened >= PoolSize

OpenConnection(w) ==
  /\ At(w, "closed") /\ next[w] <= Len(Work[w])
  /\ \/ /\ ~Exhausted /\ Goto(w, "next")
        /\ UNCHANGED <<database, next, step, found, inserted, crashes>>
     \/ /\ Exhausted /\ w # Payer /\ Rollback(w)

WaitsForever(w) ==  \* slip: no timeout
  /\ At(w, "next") /\ AtStep(w, "read")
  /\ ~Exhausted /\ Goto(w, "reading")
  /\ UNCHANGED <<database, next, step, found, inserted, crashes>>

OpenSecond(w) ==
  /\ At(w, "next") /\ AtStep(w, "read")
  /\ \/ /\ ~Exhausted /\ Goto(w, "reading")
        /\ UNCHANGED <<database, next, step, found, inserted, crashes>>
     \/ Exhausted /\ Rollback(w)

CloseSecond(w) ==
  /\ At(w, "reading") /\ Advance(w)
  /\ UNCHANGED <<database, next, inserted, crashes>>

-----------------------------------------------------------------------------
(* AddAmountAsync, statement by statement *)
InsertBalanceChange(w) ==
  /\ At(w, "next") /\ AtStep(w, "add")
  /\ inserted' = [inserted EXCEPT ![w][Address(w)] = @ + Amount(w)]
  /\ Goto(w, "query")
  /\ UNCHANGED <<database, next, step, found, crashes>>

QueryBalance(w) ==
  LET a == Address(w)
  IN /\ At(w, "query") /\ Goto(w, "balance")
     /\ found' = [found EXCEPT ![w] = holder[a] = w \/ balances[a] # None]
     /\ UNCHANGED <<database, next, step, inserted, crashes>>

Write(w, amount) ==
  /\ holder' = [holder EXCEPT ![Address(w)] = w]
  /\ written' = [written EXCEPT ![Address(w)] = amount]
  /\ Advance(w)
  /\ UNCHANGED <<balances, changes, next, inserted, crashes>>

(* a key that was committed since the query is a violation of its index *)
InsertBalance(w) ==
  LET a == Address(w)
  IN /\ At(w, "balance") /\ ~found[w]
     /\ holder[a] = None
     /\ \/ balances[a] = None /\ Write(w, Amount(w))
        \/ balances[a] # None /\ Rollback(w)

UpdateBalance(w) ==
  LET a == Address(w)
  IN /\ At(w, "balance") /\ found[w]
     /\ \/ holder[a] = w /\ Write(w, written[a] + Amount(w))
        \/ holder[a] = None /\ Write(w, Amounts(a) + Amount(w))

(* CommandTimeout of a statement that waits *)
CommandTimeout(w) ==
  /\ At(w, "balance") /\ holder[Address(w)] \notin {None, w}
  /\ Rollback(w)

Crash ==
  /\ crashes < MaxCrashes /\ crashes' = crashes + 1
  /\ holder' = [a \in Addresses |-> None] /\ written' = [a \in Addresses |-> 0]
  /\ pc' = [w \in Threads |-> "closed"] /\ step' = [w \in Threads |-> 1]
  /\ found' = [w \in Threads |-> FALSE]
  /\ inserted' = [w \in Threads |-> [a \in Addresses |-> 0]]
  /\ next' = [w \in Threads |->
                IF w # Payer /\ pc[w] # "closed" THEN next[w] + 1 ELSE next[w]]
  /\ UNCHANGED <<balances, changes>>

AddAmount(w) ==
  InsertBalanceChange(w) \/ QueryBalance(w) \/ InsertBalance(w) \/ UpdateBalance(w)

Thread(w) ==
  OpenConnection(w) \/ OpenSecond(w) \/ CloseSecond(w) \/ AddAmount(w) \/ Commit(w)

Next == Crash \/ \E w \in Threads : Thread(w) \/ CommandTimeout(w)

Spec == Init /\ [][Next]_vars

(* Threads run; the database hands a row to those who wait for it. *)
FairSpec ==
  /\ Spec
  /\ \A w \in Threads : WF_vars(Thread(w)) /\ SF_vars(InsertBalance(w) \/ UpdateBalance(w))

-----------------------------------------------------------------------------
(***************************************************************************)
(* A balance is the sum of its journal: whatever transactions add to one   *)
(* address at the same time, fail halfway or race to create its row, what  *)
(* balance_changes says of an address adds up to its row in balances.      *)
(***************************************************************************)
JournalMatches == \A a \in Addresses : Amounts(a) = changes[a]

(* what a transaction is to add to an address *)
Gain(transaction, a) ==
  [i \in DOMAIN transaction |->
     IF transaction[i].op = "add" /\ transaction[i].address = a THEN transaction[i].amount ELSE 0]

Effect ==
  [w \in Threads |-> [i \in DOMAIN Work[w] |->
     [a \in Addresses |-> Total(Gain(Work[w][i], a), DOMAIN Work[w][i])]]]

(***************************************************************************)
(* Transactions are atomic: seen through its committed rows the database   *)
(* adds all amounts of a transaction at once, in the order of its thread,  *)
(* and a block's exactly once.                                             *)
(***************************************************************************)
Ledger == INSTANCE BalanceLedger WITH balance <- [a \in Addresses |-> Amounts(a)]
AddsAtomically == Ledger!Spec

(***************************************************************************)
(* Everybody comes through: every block is credited and every request is   *)
(* answered, although the payment thread holds rows while it asks the pool *)
(* for a second connection and requests hold connections while they wait   *)
(* for those rows.                                                         *)
(***************************************************************************)
Settles == <>(\A w \in Threads : next[w] > Len(Work[w]))

=============================================================================
