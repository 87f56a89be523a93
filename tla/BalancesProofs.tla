--------------------------- MODULE BalancesProofs ---------------------------
(***************************************************************************)
(* Theorems about Balances, for every set of threads, whatever their       *)
(* transactions add, and every size of the connection pool.                *)
(***************************************************************************)
EXTENDS Balances, SumLemmas, TLAPS

(***************************************************************************)
(* Types: a thread in the middle of AddAmountAsync is at such a step.      *)
(***************************************************************************)
Adding == \A w \in Threads : pc[w] \in {"query", "balance"} => AtStep(w, "add")
TypeInv == TypeOK /\ Adding

(***************************************************************************)
(* AddingStep: what is added, and to which address.                        *)
(***************************************************************************)
LEMMA AddingStep ==
  ASSUME TypeOK, NEW w \in Threads, pc[w] # "closed", AtStep(w, "add")
  PROVE  Address(w) \in Addresses /\ Amount(w) \in Int
<1>1. Transaction(w) \in Seq(Steps)
  BY BalancesAssumption DEF TypeOK, Transaction
<1>2. Current(w) \in Steps
  BY <1>1 DEF Current, AtStep, TypeOK
<1>3. Current(w) \in Adds
  BY <1>2 DEF Steps, AtStep
<1> QED
  BY <1>3 DEF Adds, Address, Amount

LEMMA AmountsInt ==
  ASSUME TypeOK, NEW a \in Addresses
  PROVE  Amounts(a) \in Int
BY DEF TypeOK, Amounts

(***************************************************************************)
(* Ends: the end of a transaction and a step inside it keep the types.     *)
(***************************************************************************)
LEMMA CloseTyped ==
  ASSUME TypeOK, NEW w \in Threads, Close(w)
  PROVE  /\ pc' \in [Threads -> {"closed", "next", "query", "balance", "reading"}]
         /\ step' \in [Threads -> Nat \ {0}] /\ found' \in [Threads -> BOOLEAN]
         /\ inserted' \in [Threads -> [Addresses -> Int]]
         /\ pc'[w] = "closed"
         /\ \A v \in Threads \ {w} : pc'[v] = pc[v] /\ step'[v] = step[v]
BY DEF Close, Goto, TypeOK

LEMMA ReleaseTyped ==
  ASSUME TypeOK, NEW w \in Threads, Release(w)
  PROVE  holder' \in [Addresses -> Threads \cup {None}] /\ written' \in [Addresses -> Int]
BY DEF Release, TypeOK

LEMMA RollbackTyped ==
  ASSUME TypeInv, NEW w \in Threads, Rollback(w), pc[w] # "closed" \/ next[w] <= Len(Work[w])
  PROVE  TypeInv'
<1> USE DEF TypeInv
<1>1. /\ next' \in [Threads -> Nat \ {0}] /\ \A v \in Threads : next'[v] <= Len(Work[v]) + 1
      /\ \A v \in Threads \ {w} : next'[v] = next[v]
  <2>1. next[w] <= Len(Work[w]) /\ Len(Work[w]) \in Nat
    BY BalancesAssumption DEF TypeOK
  <2> QED
    BY <2>1 DEF Rollback, TypeOK
<1>2. TypeOK'
  <2>1. \A v \in Threads : pc'[v] # "closed" => next'[v] <= Len(Work[v])
    BY <1>1, CloseTyped DEF Rollback, TypeOK
  <2> QED
    BY <1>1, <2>1, CloseTyped, ReleaseTyped DEF Rollback, TypeOK
<1>3. Adding'
  BY <1>1, CloseTyped DEF Rollback, Adding, AtStep, Current, Transaction
<1> QED
  BY <1>2, <1>3

LEMMA WriteTyped ==
  ASSUME TypeInv, NEW w \in Threads, pc[w] = "balance", NEW amount \in Int, Write(w, amount)
  PROVE  TypeInv'
<1> USE DEF TypeInv
<1>1. Address(w) \in Addresses
  BY AddingStep DEF Adding
<1>2. TypeOK'
  BY <1>1 DEF Write, Advance, Goto, TypeOK
<1>3. Adding'
  BY DEF Write, Advance, Goto, Adding, AtStep, Current, Transaction, TypeOK
<1> QED
  BY <1>2, <1>3

(***************************************************************************)
(* TypeInit, TypeStep: TypeInv is inductive.                               *)
(***************************************************************************)
LEMMA TypeInit == Init => TypeInv
<1>1. \A w \in Threads : Len(Work[w]) \in Nat
  BY BalancesAssumption
<1> QED
  BY <1>1, BalancesAssumption DEF Init, TypeInv, TypeOK, Adding

LEMMA TypeStep == TypeInv /\ [Next]_vars => TypeInv'
<1> SUFFICES ASSUME TypeInv, [Next]_vars PROVE TypeInv'
  OBVIOUS
<1> USE DEF TypeInv, database
<1>1. CASE Crash
  <2>1. /\ next' \in [Threads -> Nat \ {0}] /\ \A w \in Threads : next'[w] <= Len(Work[w]) + 1
    <3>1. \A w \in Threads : Len(Work[w]) \in Nat
      BY BalancesAssumption
    <3> QED
      BY <1>1, <3>1 DEF Crash, TypeOK
  <2> QED
    BY <1>1, <2>1, BalancesAssumption DEF Crash, TypeOK, Adding
<1>2. ASSUME NEW w \in Threads, OpenConnection(w) PROVE TypeInv'
  <2>1. CASE Rollback(w)
    BY <1>2, <2>1, RollbackTyped DEF OpenConnection
  <2>2. CASE Goto(w, "next") /\ UNCHANGED <<database, next, step, found, inserted, crashes>>
    BY <1>2, <2>2
    DEF OpenConnection, Goto, At, TypeOK, Adding, AtStep, Current, Transaction
  <2> QED
    BY <1>2, <2>1, <2>2 DEF OpenConnection
<1>3. ASSUME NEW w \in Threads, OpenSecond(w) PROVE TypeInv'
  <2>1. CASE Rollback(w)
    BY <1>3, <2>1, RollbackTyped DEF OpenSecond, At
  <2>2. CASE Goto(w, "reading") /\ UNCHANGED <<database, next, step, found, inserted, crashes>>
    BY <1>3, <2>2 DEF OpenSecond, Goto, At, TypeOK, Adding, AtStep, Current, Transaction
  <2> QED
    BY <1>3, <2>1, <2>2 DEF OpenSecond
<1>4. ASSUME NEW w \in Threads, CloseSecond(w) PROVE TypeInv'
  <2>1. TypeOK'
    BY <1>4 DEF CloseSecond, Advance, Goto, At, TypeOK
  <2>2. Adding'
    BY <1>4 DEF CloseSecond, Advance, Goto, TypeOK, Adding, AtStep, Current, Transaction
  <2> QED
    BY <2>1, <2>2
<1>5. ASSUME NEW w \in Threads, InsertBalanceChange(w) PROVE TypeInv'
  <2>1. Address(w) \in Addresses /\ Amount(w) \in Int
    BY <1>5, AddingStep DEF InsertBalanceChange, At
  <2>2. inserted' \in [Threads -> [Addresses -> Int]]
    <3> DEFINE sums == [inserted[w] EXCEPT ![Address(w)] = @ + Amount(w)]
    <3>1. sums \in [Addresses -> Int]
      BY <2>1 DEF TypeOK
    <3>2. inserted' = [inserted EXCEPT ![w] = sums]
      BY <1>5 DEF InsertBalanceChange
    <3> HIDE DEF sums
    <3> QED
      BY <3>1, <3>2 DEF TypeOK
  <2>3. TypeOK'
    BY <1>5, <2>2 DEF InsertBalanceChange, Goto, At, TypeOK
  <2>4. Adding'
    BY <1>5 DEF InsertBalanceChange, Goto, TypeOK, Adding, AtStep, Current, Transaction
  <2> QED
    BY <2>3, <2>4
<1>6. ASSUME NEW w \in Threads, QueryBalance(w) PROVE TypeInv'
  <2>1. TypeOK'
    BY <1>6 DEF QueryBalance, Goto, At, TypeOK
  <2>2. Adding'
    BY <1>6 DEF QueryBalance, Goto, At, TypeOK, Adding, AtStep, Current, Transaction
  <2> QED
    BY <2>1, <2>2
<1>7. ASSUME NEW w \in Threads, InsertBalance(w) PROVE TypeInv'
  <2>1. pc[w] = "balance" /\ Amount(w) \in Int
    BY <1>7, AddingStep DEF InsertBalance, At, Adding
  <2> QED
    BY <1>7, <2>1, WriteTyped, RollbackTyped DEF InsertBalance
<1>8. ASSUME NEW w \in Threads, UpdateBalance(w) PROVE TypeInv'
  <2>1. pc[w] = "balance" /\ Amount(w) \in Int /\ Address(w) \in Addresses
    BY <1>8, AddingStep DEF UpdateBalance, At, Adding
  <2>2. /\ written[Address(w)] + Amount(w) \in Int
        /\ Amounts(Address(w)) + Amount(w) \in Int
    BY <2>1, AmountsInt DEF TypeOK
  <2> QED
    BY <1>8, <2>1, <2>2, WriteTyped DEF UpdateBalance
<1>9. ASSUME NEW w \in Threads, Commit(w) PROVE TypeInv'
  <2>1. /\ next' \in [Threads -> Nat \ {0}] /\ \A v \in Threads : next'[v] <= Len(Work[v]) + 1
        /\ \A v \in Threads \ {w} : next'[v] = next[v]
    <3>1. next[w] <= Len(Work[w]) /\ Len(Work[w]) \in Nat
      BY <1>9, BalancesAssumption DEF Commit, At, TypeOK
    <3> QED
      BY <1>9, <3>1 DEF Commit, TypeOK
  <2>2. balances' \in [Addresses -> Int \cup {None}] /\ changes' \in [Addresses -> Int]
    BY <1>9 DEF Commit, Committed, TypeOK
  <2>3. \A v \in Threads : pc'[v] # "closed" => next'[v] <= Len(Work[v])
    BY <1>9, <2>1, CloseTyped DEF Commit, TypeOK
  <2>4. TypeOK'
    BY <1>9, <2>1, <2>2, <2>3, CloseTyped, ReleaseTyped DEF Commit, TypeOK
  <2>5. Adding'
    BY <1>9, <2>1, CloseTyped DEF Commit, Adding, AtStep, Current, Transaction
  <2> QED
    BY <2>4, <2>5
<1>10. ASSUME NEW w \in Threads, CommandTimeout(w) PROVE TypeInv'
  BY <1>10, RollbackTyped DEF CommandTimeout, At
<1>11. CASE UNCHANGED vars
  BY <1>11 DEF vars, TypeOK, Adding, AtStep, Current, Transaction
<1> QED
  BY <1>1, <1>2, <1>3, <1>4, <1>5, <1>6, <1>7, <1>8, <1>9, <1>10, <1>11
  DEF Next, Thread, AddAmount

(***************************************************************************)
(* TypeCorrect: the tables and the transactions on them are well typed,    *)
(* and no thread holds a connection when its work is done.                 *)
(***************************************************************************)
THEOREM TypeCorrect == Spec => []TypeOK
<1>1. TypeInv => TypeOK
  BY DEF TypeInv
<1> QED
  BY <1>1, TypeInit, TypeStep, PTL DEF Spec

-----------------------------------------------------------------------------
(***************************************************************************)
(* What JournalMatches rests on.  InFlight is what AddAmountAsync has      *)
(* written to the journal and not yet to the balance.  RowsOwed: a row a   *)
(* transaction holds differs from the committed one by what the            *)
(* transaction journaled; of an address whose row it does not hold it      *)
(* journaled nothing but what is in flight.                                *)
(***************************************************************************)
InFlight(w, a) ==
  IF pc[w] \in {"query", "balance"} /\ Address(w) = a THEN Amount(w) ELSE 0

RowsOwed ==
  \A w \in Threads, a \in Addresses :
    /\ holder[a] = w => written[a] = Amounts(a) + inserted[w][a] - InFlight(w, a)
    /\ holder[a] # w => inserted[w][a] = InFlight(w, a)

JournalInv == TypeInv /\ RowsOwed /\ JournalMatches

(***************************************************************************)
(* Frames: what a step of one thread means for the others.                 *)
(***************************************************************************)
LEMMA InFlightOther ==
  ASSUME NEW w, UNCHANGED <<pc[w], next[w], step[w]>>, NEW a
  PROVE  InFlight(w, a)' = InFlight(w, a)
BY DEF InFlight, Address, Amount, Current, Transaction

LEMMA RollbackOwed ==
  ASSUME JournalInv, NEW w \in Threads, Rollback(w)
  PROVE  RowsOwed' /\ JournalMatches'
<1> USE DEF JournalInv, TypeInv
<1>1. JournalMatches'
  BY DEF Rollback, JournalMatches, Amounts
<1>2. ASSUME NEW a \in Addresses
      PROVE  (/\ holder[a] = w => written[a] = Amounts(a) + inserted[w][a] - InFlight(w, a)
              /\ holder[a] # w => inserted[w][a] = InFlight(w, a))'
  <2>1. holder'[a] # w
    BY BalancesAssumption DEF Rollback, Release
  <2>2. inserted'[w][a] = 0 /\ InFlight(w, a)' = 0
    BY CloseTyped DEF Rollback, Close, InFlight, TypeOK
  <2> QED
    BY <2>1, <2>2
<1>3. ASSUME NEW v \in Threads \ {w}, NEW a \in Addresses
      PROVE  (/\ holder[a] = v => written[a] = Amounts(a) + inserted[v][a] - InFlight(v, a)
              /\ holder[a] # v => inserted[v][a] = InFlight(v, a))'
  <2>1. next'[v] = next[v] /\ pc'[v] = pc[v] /\ step'[v] = step[v]
    BY CloseTyped DEF Rollback, TypeOK
  <2>2. InFlight(v, a)' = InFlight(v, a)
    BY <2>1, InFlightOther
  <2>3. inserted'[v] = inserted[v]
    BY DEF Rollback, Close, TypeOK
  <2>4. Amounts(a)' = Amounts(a)
    BY DEF Rollback, Amounts
  <2>5. /\ holder'[a] = v <=> holder[a] = v
        /\ holder[a] = v => written'[a] = written[a]
    BY BalancesAssumption DEF Rollback, Release
  <2> QED
    BY <2>2, <2>3, <2>4, <2>5 DEF RowsOwed
<1> QED
  BY <1>1, <1>2, <1>3 DEF RowsOwed

LEMMA WriteOwed ==
  ASSUME JournalInv, NEW w \in Threads, pc[w] = "balance", NEW amount \in Int,
         holder[Address(w)] \in {None, w}, Write(w, amount),
         amount = (IF holder[Address(w)] = w THEN written[Address(w)] ELSE Amounts(Address(w)))
                    + Amount(w)
  PROVE  RowsOwed' /\ JournalMatches'
<1> USE DEF JournalInv, TypeInv
<1>1. JournalMatches'
  BY DEF Write, JournalMatches, Amounts
<1>2. Address(w) \in Addresses /\ Amount(w) \in Int
  BY AddingStep DEF Adding
<1>3. \A a \in Addresses : Amounts(a)' = Amounts(a) /\ Amounts(a) \in Int
  BY AmountsInt DEF Write, Amounts
<1>4. pc'[w] = "next" /\ inserted' = inserted
  BY DEF Write, Advance, Goto, TypeOK
<1>5. ASSUME NEW a \in Addresses
      PROVE  (/\ holder[a] = w => written[a] = Amounts(a) + inserted[w][a] - InFlight(w, a)
              /\ holder[a] # w => inserted[w][a] = InFlight(w, a))'
  <2>1. InFlight(w, a)' = 0
    BY <1>4 DEF InFlight
  <2>2. inserted[w][a] \in Int /\ written[a] \in Int
    BY DEF TypeOK
  <2>3. CASE a = Address(w)
    <3>1. holder'[a] = w /\ written'[a] = amount
      BY <1>2, <2>3 DEF Write, TypeOK
    <3>2. InFlight(w, a) = Amount(w)
      BY <2>3 DEF InFlight
    <3>3. CASE holder[a] = w
      <4>1. written[a] = Amounts(a) + inserted[w][a] - Amount(w) /\ amount = written[a] + Amount(w)
        BY <2>3, <3>2, <3>3 DEF RowsOwed
      <4> QED
        BY <1>2, <1>3, <1>4, <2>1, <2>2, <3>1, <4>1
    <3>4. CASE holder[a] # w
      <4>1. inserted[w][a] = Amount(w) /\ amount = Amounts(a) + Amount(w)
        BY <2>3, <3>2, <3>4 DEF RowsOwed
      <4> QED
        BY <1>2, <1>3, <1>4, <2>1, <2>2, <3>1, <4>1
    <3> QED
      BY <3>3, <3>4
  <2>4. CASE a # Address(w)
    <3>1. holder'[a] = holder[a] /\ written'[a] = written[a]
      BY <2>4 DEF Write, TypeOK
    <3>2. InFlight(w, a) = 0
      BY <2>4 DEF InFlight
    <3> QED
      BY <1>3, <1>4, <2>1, <3>1, <3>2 DEF RowsOwed
  <2> QED
    BY <2>3, <2>4
<1>6. ASSUME NEW v \in Threads \ {w}, NEW a \in Addresses
      PROVE  (/\ holder[a] = v => written[a] = Amounts(a) + inserted[v][a] - InFlight(v, a)
              /\ holder[a] # v => inserted[v][a] = InFlight(v, a))'
  <2>1. InFlight(v, a)' = InFlight(v, a)
    <3>1. next'[v] = next[v] /\ pc'[v] = pc[v] /\ step'[v] = step[v]
      BY DEF Write, Advance, Goto, TypeOK
    <3> QED
      BY <3>1, InFlightOther
  <2>2. /\ holder'[a] = v <=> holder[a] = v
        /\ holder[a] = v => written'[a] = written[a]
    BY <1>2, BalancesAssumption DEF Write, TypeOK
  <2> QED
    BY <1>3, <1>4, <2>1, <2>2 DEF RowsOwed
<1> QED
  BY <1>1, <1>5, <1>6 DEF RowsOwed

(***************************************************************************)
(* OwedStep: RowsOwed and JournalMatches, step by step.                    *)
(***************************************************************************)
LEMMA UnheldOwed ==
  ASSUME JournalInv, UNCHANGED <<balances, changes, holder, written, inserted>>,
         \A w \in Threads, a \in Addresses : InFlight(w, a)' = InFlight(w, a)
  PROVE  RowsOwed' /\ JournalMatches'
BY DEF JournalInv, RowsOwed, JournalMatches, Amounts

(* What a commit adds to the balances is what its transaction journaled. *)
LEMMA CommitAdds ==
  ASSUME JournalInv, NEW w \in Threads, Commit(w), NEW a \in Addresses
  PROVE  /\ Amounts(a)' = Amounts(a) + inserted[w][a]
         /\ holder[a] # w => Amounts(a)' = Amounts(a)
         /\ holder'[a] # w
<1> USE DEF JournalInv, TypeInv
<1>1. InFlight(w, a) = 0
  BY DEF Commit, At, InFlight
<1>2. inserted[w][a] \in Int /\ written[a] \in Int /\ Amounts(a) \in Int /\ written[a] # None
  BY AmountsInt, BalancesAssumption DEF TypeOK
<1>3. holder'[a] # w
  BY BalancesAssumption DEF Commit, Release
<1>4. CASE holder[a] = w
  <2>1. Amounts(a)' = written[a] /\ written[a] = Amounts(a) + inserted[w][a] - 0
    BY <1>1, <1>2, <1>4 DEF Commit, Committed, Amounts, RowsOwed
  <2> QED
    BY <1>2, <1>3, <1>4, <2>1
<1>5. CASE holder[a] # w
  <2>1. Amounts(a)' = Amounts(a) /\ inserted[w][a] = 0
    BY <1>1, <1>5 DEF Commit, Committed, Amounts, RowsOwed
  <2> QED
    BY <1>2, <1>3, <1>5, <2>1
<1> QED
  BY <1>4, <1>5

LEMMA OwedStep == JournalInv /\ [Next]_vars => RowsOwed' /\ JournalMatches'
<1> SUFFICES ASSUME JournalInv, [Next]_vars PROVE RowsOwed' /\ JournalMatches'
  OBVIOUS
<1> USE DEF JournalInv, TypeInv, database
<1>0. ASSUME NEW w \in Threads, UNCHANGED <<balances, changes, holder, written, inserted>>,
             \A a \in Addresses : InFlight(w, a)' = InFlight(w, a),
             \A v \in Threads \ {w} : UNCHANGED <<pc[v], next[v], step[v]>>
      PROVE  RowsOwed' /\ JournalMatches'
  <2>1. \A v \in Threads \ {w}, a \in Addresses : InFlight(v, a)' = InFlight(v, a)
    BY <1>0, InFlightOther
  <2> QED
    BY <1>0, <2>1, UnheldOwed
<1>1. CASE Crash
  <2>1. \A w \in Threads, a \in Addresses : InFlight(w, a)' = 0
    BY <1>1 DEF Crash, InFlight
  <2>2. /\ \A w \in Threads, a \in Addresses : inserted'[w][a] = 0
        /\ \A w \in Threads, a \in Addresses : holder'[a] # w
    BY <1>1, BalancesAssumption DEF Crash
  <2> QED
    BY <1>1, <2>1, <2>2 DEF Crash, RowsOwed, JournalMatches, Amounts
<1>2. ASSUME NEW w \in Threads, OpenConnection(w) PROVE RowsOwed' /\ JournalMatches'
  <2>1. CASE Rollback(w)
    BY <2>1, RollbackOwed
  <2>2. CASE Goto(w, "next") /\ UNCHANGED <<database, next, step, found, inserted, crashes>>
    BY <1>0, <1>2, <2>2 DEF OpenConnection, At, Goto, InFlight, TypeOK
  <2> QED
    BY <1>2, <2>1, <2>2 DEF OpenConnection
<1>3. ASSUME NEW w \in Threads, OpenSecond(w) PROVE RowsOwed' /\ JournalMatches'
  <2>1. CASE Rollback(w)
    BY <2>1, RollbackOwed
  <2>2. CASE Goto(w, "reading") /\ UNCHANGED <<database, next, step, found, inserted, crashes>>
    BY <1>0, <1>3, <2>2 DEF OpenSecond, At, Goto, InFlight, TypeOK
  <2> QED
    BY <1>3, <2>1, <2>2 DEF OpenSecond
<1>4. ASSUME NEW w \in Threads, CloseSecond(w) PROVE RowsOwed' /\ JournalMatches'
  BY <1>0, <1>4 DEF CloseSecond, At, Advance, Goto, InFlight, TypeOK
<1>5. ASSUME NEW w \in Threads, InsertBalanceChange(w) PROVE RowsOwed' /\ JournalMatches'
  <2>1. Address(w) \in Addresses /\ Amount(w) \in Int
    BY <1>5, AddingStep DEF InsertBalanceChange, At
  <2>2. ASSUME NEW a \in Addresses
        PROVE  /\ inserted'[w][a] = inserted[w][a] + InFlight(w, a)' /\ InFlight(w, a) = 0
               /\ InFlight(w, a)' \in Int
    <3>1. InFlight(w, a)' = (IF Address(w) = a THEN Amount(w) ELSE 0)
      BY <1>5 DEF InsertBalanceChange, Goto, InFlight, Address, Amount, Current, Transaction,
         TypeOK
    <3>2. inserted'[w] = [inserted[w] EXCEPT ![Address(w)] = @ + Amount(w)]
      BY <1>5 DEF InsertBalanceChange, TypeOK
    <3>3. inserted'[w][a] = IF Address(w) = a THEN inserted[w][a] + Amount(w) ELSE inserted[w][a]
      BY <2>1, <3>2 DEF TypeOK
    <3>4. inserted[w][a] \in Int
      BY DEF TypeOK
    <3>5. InFlight(w, a) = 0
      BY <1>5 DEF InsertBalanceChange, At, InFlight
    <3> QED
      BY <2>1, <3>1, <3>3, <3>4, <3>5
  <2>3. ASSUME NEW v \in Threads \ {w}, NEW a \in Addresses
        PROVE  inserted'[v] = inserted[v] /\ InFlight(v, a)' = InFlight(v, a)
    <3>1. UNCHANGED <<pc[v], next[v], step[v]>> /\ inserted'[v] = inserted[v]
      BY <1>5 DEF InsertBalanceChange, Goto, TypeOK
    <3> QED
      BY <3>1, InFlightOther
  <2>4. \A a \in Addresses : Amounts(a)' = Amounts(a) /\ Amounts(a) \in Int
    BY <1>5, AmountsInt DEF InsertBalanceChange, Amounts
  <2>5. UNCHANGED <<changes, holder, written>>
    BY <1>5 DEF InsertBalanceChange
  <2>6. \A a \in Addresses : inserted[w][a] \in Int /\ written[a] \in Int
    BY DEF TypeOK
  <2>7. \A a \in Addresses : InFlight(w, a)' \in Int
    BY <2>2
  <2>8. ASSUME NEW a \in Addresses
        PROVE  (/\ holder[a] = w => written[a] = Amounts(a) + inserted[w][a] - InFlight(w, a)
                /\ holder[a] # w => inserted[w][a] = InFlight(w, a))'
    <3>1. /\ holder[a] = w => written[a] = Amounts(a) + inserted[w][a] - 0
          /\ holder[a] # w => inserted[w][a] = 0
      BY <2>2 DEF RowsOwed
    <3> QED
      BY <2>2, <2>4, <2>5, <2>6, <2>7, <3>1
  <2>9. JournalMatches'
    BY <2>4, <2>5 DEF JournalMatches
  <2> QED
    BY <2>3, <2>4, <2>5, <2>8, <2>9 DEF RowsOwed
<1>6. ASSUME NEW w \in Threads, QueryBalance(w) PROVE RowsOwed' /\ JournalMatches'
  <2>1. \A a \in Addresses : InFlight(w, a)' = InFlight(w, a)
    BY <1>6 DEF QueryBalance, At, Goto, InFlight, Address, Amount, Current, Transaction, TypeOK
  <2> QED
    BY <1>0, <1>6, <2>1 DEF QueryBalance, Goto, TypeOK
<1>7. ASSUME NEW w \in Threads, InsertBalance(w) PROVE RowsOwed' /\ JournalMatches'
  <2>1. pc[w] = "balance" /\ Amount(w) \in Int /\ holder[Address(w)] = None
    BY <1>7, AddingStep DEF InsertBalance, At, Adding
  <2>2. CASE Rollback(w)
    BY <2>2, RollbackOwed
  <2>3. CASE balances[Address(w)] = None /\ Write(w, Amount(w))
    <3>1. Amounts(Address(w)) = 0 /\ None # w
      BY <2>3, BalancesAssumption DEF Amounts
    <3> QED
      BY <2>1, <2>3, <3>1, WriteOwed
  <2> QED
    BY <1>7, <2>2, <2>3 DEF InsertBalance
<1>8. ASSUME NEW w \in Threads, UpdateBalance(w) PROVE RowsOwed' /\ JournalMatches'
  <2>1. pc[w] = "balance" /\ Amount(w) \in Int /\ Address(w) \in Addresses /\ None # w
    BY <1>8, AddingStep, BalancesAssumption DEF UpdateBalance, At, Adding
  <2>2. /\ written[Address(w)] + Amount(w) \in Int
        /\ Amounts(Address(w)) + Amount(w) \in Int
    BY <2>1, AmountsInt DEF TypeOK
  <2> QED
    BY <1>8, <2>1, <2>2, WriteOwed DEF UpdateBalance
<1>9. ASSUME NEW w \in Threads, Commit(w) PROVE RowsOwed' /\ JournalMatches'
  <2>1. \A a \in Addresses : /\ Amounts(a)' = Amounts(a) + inserted[w][a]
                             /\ holder[a] # w => Amounts(a)' = Amounts(a)
                             /\ holder'[a] # w
    BY <1>9, CommitAdds
  <2>2. JournalMatches'
    BY <1>9, <2>1 DEF Commit, Committed, JournalMatches
  <2>3. ASSUME NEW a \in Addresses PROVE inserted'[w][a] = 0 /\ InFlight(w, a)' = 0
    BY <1>9, CloseTyped DEF Commit, Close, InFlight, TypeOK
  <2>4. ASSUME NEW v \in Threads \ {w}, NEW a \in Addresses
        PROVE  (/\ holder[a] = v => written[a] = Amounts(a) + inserted[v][a] - InFlight(v, a)
                /\ holder[a] # v => inserted[v][a] = InFlight(v, a))'
    <3>1. UNCHANGED <<pc[v], next[v], step[v]>> /\ inserted'[v] = inserted[v]
      BY <1>9, CloseTyped DEF Commit, Close, TypeOK
    <3>2. InFlight(v, a)' = InFlight(v, a)
      BY <3>1, InFlightOther
    <3>3. /\ holder'[a] = v <=> holder[a] = v
          /\ holder[a] = v => written'[a] = written[a] /\ holder[a] # w
      BY <1>9, BalancesAssumption DEF Commit, Release
    <3> QED
      BY <2>1, <3>1, <3>2, <3>3 DEF RowsOwed
  <2> QED
    BY <2>1, <2>2, <2>3, <2>4 DEF RowsOwed
<1>10. ASSUME NEW w \in Threads, CommandTimeout(w) PROVE RowsOwed' /\ JournalMatches'
  BY <1>10, RollbackOwed DEF CommandTimeout
<1>11. CASE UNCHANGED vars
  <2>1. \A w \in Threads, a \in Addresses : InFlight(w, a)' = InFlight(w, a)
    BY <1>11, InFlightOther DEF vars
  <2> QED
    BY <1>11, <2>1, UnheldOwed DEF vars
<1> QED
  BY <1>1, <1>2, <1>3, <1>4, <1>5, <1>6, <1>7, <1>8, <1>9, <1>10, <1>11
  DEF Next, Thread, AddAmount

(***************************************************************************)
(* BalancesAreJournaled: the balance of every address is the sum of its    *)
(* balance_changes, whatever transactions run at once, fail or crash.      *)
(***************************************************************************)
THEOREM BalancesAreJournaled == Spec => []JournalMatches
<1>1. Init => JournalInv
  BY TypeInit, BalancesAssumption
  DEF Init, JournalInv, RowsOwed, JournalMatches, Amounts, InFlight
<1>2. JournalInv /\ [Next]_vars => JournalInv'
  BY TypeStep, OwedStep DEF JournalInv
<1>3. JournalInv => JournalMatches
  BY DEF JournalInv
<1> QED
  BY <1>1, <1>2, <1>3, PTL DEF Spec

-----------------------------------------------------------------------------
(***************************************************************************)
(* What AddsAtomically rests on: a transaction has journaled what its      *)
(* steps so far add and what is in flight, and nothing when none is open.  *)
(***************************************************************************)
Done(w, a) == Total(Gain(Transaction(w), a), 1 .. step[w] - 1)

StepsOf(w) ==
  /\ pc[w] = "closed" => step[w] = 1 /\ \A a \in Addresses : inserted[w][a] = 0
  /\ pc[w] # "closed" =>
       /\ step[w] <= Len(Transaction(w)) + 1
       /\ \A a \in Addresses : inserted[w][a] = Done(w, a) + InFlight(w, a)
  /\ pc[w] = "reading" => AtStep(w, "read")

StepsJournaled == \A w \in Threads : StepsOf(w)

LedgerInv == JournalInv /\ StepsJournaled

LEMMA GainTyped ==
  ASSUME NEW t \in Seq(Steps), NEW a, NEW i \in DOMAIN t
  PROVE  /\ Gain(t, a)[i] \in Int
         /\ t[i].op = "read" => Gain(t, a)[i] = 0
         /\ t[i].op = "add" => Gain(t, a)[i] = IF t[i].address = a THEN t[i].amount ELSE 0
<1>1. t[i] \in Steps
  OBVIOUS
<1>2. t[i].op = "add" => t[i].amount \in Int
  BY <1>1 DEF Steps, Adds
<1> QED
  BY <1>2 DEF Gain

LEMMA TransactionTyped ==
  ASSUME TypeOK, NEW w \in Threads, next[w] <= Len(Work[w])
  PROVE  /\ next[w] \in DOMAIN Work[w] /\ Transaction(w) \in Seq(Steps)
         /\ Len(Transaction(w)) \in Nat
<1>1. Work[w] \in Seq(Seq(Steps)) /\ next[w] \in Nat \ {0}
  BY BalancesAssumption DEF TypeOK
<1>2. next[w] \in DOMAIN Work[w]
  BY <1>1
<1>3. Work[w][next[w]] \in Seq(Steps)
  BY <1>1, <1>2
<1> QED
  BY <1>2, <1>3 DEF Transaction

LEMMA DoneNothing == ASSUME NEW w, step[w] = 1, NEW a PROVE Done(w, a) = 0
<1>1. 1 .. step[w] - 1 = {}
  OBVIOUS
<1> QED
  BY <1>1, TotalStep DEF Done

LEMMA DoneInt ==
  ASSUME TypeInv, NEW w \in Threads, pc[w] # "closed", step[w] <= Len(Transaction(w)) + 1, NEW a
  PROVE  /\ Transaction(w) \in Seq(Steps) /\ IsFiniteSet(1 .. step[w] - 1)
         /\ 1 .. step[w] - 1 \subseteq DOMAIN Transaction(w)
         /\ \A i \in 1 .. step[w] - 1 : Gain(Transaction(w), a)[i] \in Int
         /\ Done(w, a) \in Int
<1>1. Transaction(w) \in Seq(Steps)
  BY BalancesAssumption DEF TypeInv, TypeOK, Transaction
<1>2. /\ 1 .. step[w] - 1 \subseteq DOMAIN Transaction(w)
      /\ step[w] - 1 \in Int
  BY <1>1 DEF TypeInv, TypeOK
<1>3. IsFiniteSet(1 .. step[w] - 1)
  BY <1>2, FS_Interval
<1>4. \A i \in 1 .. step[w] - 1 : Gain(Transaction(w), a)[i] \in Int
  BY <1>1, <1>2, GainTyped
<1> QED
  BY <1>1, <1>2, <1>3, <1>4, TotalInt DEF Done

LEMMA DoneAdvances ==
  ASSUME TypeInv, NEW w \in Threads, pc[w] # "closed", step[w] <= Len(Transaction(w)),
         next'[w] = next[w], step'[w] = step[w] + 1, NEW a
  PROVE  /\ Done(w, a)' = Done(w, a) + Gain(Transaction(w), a)[step[w]]
         /\ Done(w, a) \in Int /\ Gain(Transaction(w), a)[step[w]] \in Int
<1> DEFINE f == Gain(Transaction(w), a)
           S == 1 .. step[w] - 1
<1>1. step[w] \in Nat \ {0} /\ Transaction(w) \in Seq(Steps) /\ Len(Transaction(w)) \in Nat
  BY BalancesAssumption DEF TypeInv, TypeOK, Transaction
<1>2. IsFiniteSet(S) /\ (\A i \in S : f[i] \in Int) /\ Done(w, a) \in Int
  BY <1>1, DoneInt
<1>3. f[step[w]] \in Int /\ step[w] \notin S
  BY <1>1, GainTyped
<1>4. Done(w, a)' = Total(f, 1 .. step'[w] - 1)
  BY DEF Done, Transaction
<1>5. 1 .. step'[w] - 1 = S \cup {step[w]}
  BY <1>1
<1>6. Total(f, S \cup {step[w]}) = Total(f, S) + f[step[w]]
  <2> HIDE DEF f, S
  <2> QED
    BY <1>2, <1>3, TotalAdd
<1> QED
  BY <1>2, <1>3, <1>4, <1>5, <1>6 DEF Done

(***************************************************************************)
(* StepsJournaled, for the thread that takes a step and for the others.    *)
(***************************************************************************)
LEMMA StepsOfOther ==
  ASSUME NEW v, StepsOf(v), UNCHANGED <<pc[v], next[v], step[v], inserted[v]>>
  PROVE  StepsOf(v)'
BY DEF StepsOf, Done, InFlight, Address, Amount, Current, Transaction, AtStep

LEMMA CloseSteps ==
  ASSUME LedgerInv, NEW w \in Threads, Close(w), \A v \in Threads \ {w} : next'[v] = next[v]
  PROVE  StepsJournaled'
<1>1. ASSUME NEW v \in Threads \ {w} PROVE StepsOf(v)'
  <2>1. UNCHANGED <<pc[v], next[v], step[v], inserted[v]>>
    BY DEF Close, Goto, LedgerInv, JournalInv, TypeInv, TypeOK
  <2> QED
    BY <2>1, StepsOfOther DEF LedgerInv, StepsJournaled
<1>2. StepsOf(w)'
  <2>1. pc'[w] = "closed" /\ step'[w] = 1 /\ \A a \in Addresses : inserted'[w][a] = 0
    BY DEF Close, Goto, LedgerInv, JournalInv, TypeInv, TypeOK
  <2> QED
    BY <2>1 DEF StepsOf
<1> QED
  BY <1>1, <1>2 DEF StepsJournaled

LEMMA RollbackSteps ==
  ASSUME LedgerInv, NEW w \in Threads, Rollback(w)
  PROVE  StepsJournaled'
<1>1. \A v \in Threads \ {w} : next'[v] = next[v]
  BY DEF Rollback, LedgerInv, JournalInv, TypeInv, TypeOK
<1> QED
  BY <1>1, CloseSteps DEF Rollback

(* A step of AddAmountAsync or of a query ends. *)
LEMMA AdvanceSteps ==
  ASSUME LedgerInv, NEW w \in Threads, Advance(w), UNCHANGED <<next, inserted>>,
         pc[w] \in {"balance", "reading"}
  PROVE  StepsJournaled'
<1> USE DEF LedgerInv, JournalInv, TypeInv
<1>1. ASSUME NEW v \in Threads \ {w} PROVE StepsOf(v)'
  <2>1. UNCHANGED <<pc[v], next[v], step[v], inserted[v]>>
    BY DEF Advance, Goto, TypeOK
  <2> QED
    BY <2>1, StepsOfOther DEF StepsJournaled
<1>2. StepsOf(w)'
  <2>1. /\ pc'[w] = "next" /\ step'[w] = step[w] + 1 /\ inserted'[w] = inserted[w]
        /\ next'[w] = next[w] /\ Transaction(w)' = Transaction(w)
    BY DEF Advance, Goto, TypeOK, Transaction
  <2>2. /\ step[w] \in Nat /\ Transaction(w) \in Seq(Steps) /\ Len(Transaction(w)) \in Nat
        /\ step[w] <= Len(Transaction(w))
    <3>1. AtStep(w, "add") \/ AtStep(w, "read")
      BY DEF Adding, StepsJournaled, StepsOf
    <3>2. Transaction(w) \in Seq(Steps)
      BY TransactionTyped DEF TypeOK
    <3>3. step[w] <= Len(Transaction(w))
      BY <3>1 DEF AtStep
    <3> QED
      BY <3>2, <3>3 DEF TypeOK
  <2>3. ASSUME NEW a \in Addresses PROVE inserted'[w][a] = Done(w, a)' + InFlight(w, a)'
    <3>1. inserted[w][a] = Done(w, a) + InFlight(w, a)
      BY DEF StepsJournaled, StepsOf
    <3>2. Gain(Transaction(w), a)[step[w]] = InFlight(w, a)
      <4>1. step[w] \in DOMAIN Transaction(w)
        BY <2>2 DEF TypeOK
      <4>2. CASE pc[w] = "balance"
        <5>1. Transaction(w)[step[w]].op = "add"
          BY <4>2 DEF Adding, AtStep, Current
        <5> QED
          BY <2>2, <4>1, <4>2, <5>1, GainTyped DEF InFlight, Address, Amount, Current
      <4>3. CASE pc[w] = "reading"
        <5>1. Transaction(w)[step[w]].op = "read"
          BY <4>3 DEF StepsJournaled, StepsOf, AtStep, Current
        <5> QED
          BY <2>2, <4>1, <4>3, <5>1, GainTyped DEF InFlight
      <4> QED
        BY <4>2, <4>3
    <3>3. Done(w, a)' = Done(w, a) + InFlight(w, a) /\ Done(w, a) \in Int /\ InFlight(w, a) \in Int
      BY <2>1, <2>2, <3>2, DoneAdvances
    <3>4. InFlight(w, a)' = 0
      BY <2>1 DEF InFlight
    <3> QED
      BY <2>1, <3>1, <3>3, <3>4
  <2>4. step'[w] <= Len(Transaction(w)') + 1
    BY <2>1, <2>2
  <2> QED
    BY <2>1, <2>3, <2>4 DEF StepsOf
<1> QED
  BY <1>1, <1>2 DEF StepsJournaled

LEMMA StepsStep == LedgerInv /\ [Next]_vars => StepsJournaled'
<1> SUFFICES ASSUME LedgerInv, [Next]_vars PROVE StepsJournaled'
  OBVIOUS
<1> USE DEF LedgerInv, JournalInv, TypeInv
<1>0. ASSUME NEW w \in Threads, StepsOf(w)',
             \A v \in Threads \ {w} : UNCHANGED <<pc[v], next[v], step[v], inserted[v]>>
      PROVE  StepsJournaled'
  BY <1>0, StepsOfOther DEF StepsJournaled
<1>1. CASE Crash
  BY <1>1 DEF Crash, StepsJournaled, StepsOf
<1>2. ASSUME NEW w \in Threads, OpenConnection(w) PROVE StepsJournaled'
  <2>1. CASE Rollback(w)
    BY <2>1, RollbackSteps
  <2>2. CASE Goto(w, "next") /\ UNCHANGED <<database, next, step, found, inserted, crashes>>
    <3>1. /\ pc[w] = "closed" /\ pc' = [pc EXCEPT ![w] = "next"] /\ pc'[w] = "next"
          /\ UNCHANGED <<next, step, inserted>>
      BY <1>2, <2>2 DEF OpenConnection, At, Goto, TypeOK
    <3>2. step[w] = 1 /\ \A a \in Addresses : inserted[w][a] = 0
      BY <3>1 DEF StepsJournaled, StepsOf
    <3>3. Transaction(w)' = Transaction(w) /\ Transaction(w) \in Seq(Steps)
      BY <1>2, <3>1, TransactionTyped DEF OpenConnection, Transaction
    <3>4. step'[w] <= Len(Transaction(w)') + 1
      BY <3>1, <3>2, <3>3
    <3>5. ASSUME NEW a \in Addresses PROVE inserted'[w][a] = Done(w, a)' + InFlight(w, a)'
      <4>1. Done(w, a) = 0 /\ Done(w, a)' = Done(w, a)
        BY <3>1, <3>2, DoneNothing DEF Done, Transaction
      <4>2. InFlight(w, a)' = 0
        BY <3>1 DEF InFlight
      <4> QED
        BY <3>1, <3>2, <4>1, <4>2
    <3>6. StepsOf(w)'
      BY <3>1, <3>4, <3>5 DEF StepsOf
    <3> QED
      BY <1>0, <3>1, <3>6
  <2> QED
    BY <1>2, <2>1, <2>2 DEF OpenConnection
<1>3. ASSUME NEW w \in Threads, OpenSecond(w) PROVE StepsJournaled'
  <2>1. CASE Rollback(w)
    BY <2>1, RollbackSteps
  <2>2. CASE Goto(w, "reading") /\ UNCHANGED <<database, next, step, found, inserted, crashes>>
    <3>1. /\ pc[w] = "next" /\ AtStep(w, "read") /\ pc'[w] = "reading"
          /\ UNCHANGED <<next, step, inserted>> /\ \A v \in Threads \ {w} : pc'[v] = pc[v]
      BY <1>3, <2>2 DEF OpenSecond, At, Goto, TypeOK
    <3>2. \A a \in Addresses : InFlight(w, a) = 0 /\ InFlight(w, a)' = 0 /\ Done(w, a)' = Done(w, a)
      BY <3>1 DEF InFlight, Done, Transaction
    <3>3. StepsOf(w)'
      BY <3>1, <3>2 DEF StepsJournaled, StepsOf, AtStep, Current, Transaction
    <3> QED
      BY <1>0, <3>1, <3>3
  <2> QED
    BY <1>3, <2>1, <2>2 DEF OpenSecond
<1>4. ASSUME NEW w \in Threads, CloseSecond(w) PROVE StepsJournaled'
  BY <1>4, AdvanceSteps DEF CloseSecond, At
<1>5. ASSUME NEW w \in Threads, InsertBalanceChange(w) PROVE StepsJournaled'
  <2>1. Address(w) \in Addresses /\ Amount(w) \in Int
    BY <1>5, AddingStep DEF InsertBalanceChange, At
  <2>2. /\ pc[w] = "next" /\ AtStep(w, "add") /\ pc'[w] = "query"
        /\ UNCHANGED <<next, step>> /\ \A v \in Threads \ {w} : pc'[v] = pc[v]
        /\ \A v \in Threads \ {w} : inserted'[v] = inserted[v]
        /\ inserted'[w] = [inserted[w] EXCEPT ![Address(w)] = @ + Amount(w)]
    BY <1>5 DEF InsertBalanceChange, At, Goto, TypeOK
  <2>3. ASSUME NEW a \in Addresses PROVE inserted'[w][a] = Done(w, a)' + InFlight(w, a)'
    <3>1. inserted[w][a] = Done(w, a) + 0
      BY <2>2 DEF StepsJournaled, StepsOf, InFlight
    <3>2. InFlight(w, a)' = IF Address(w) = a THEN Amount(w) ELSE 0
      BY <2>2 DEF InFlight, Address, Amount, Current, Transaction
    <3>3. inserted'[w][a] = IF Address(w) = a THEN inserted[w][a] + Amount(w) ELSE inserted[w][a]
      BY <2>1, <2>2 DEF TypeOK
    <3>4. Done(w, a)' = Done(w, a) /\ Done(w, a) \in Int
      BY <2>2, DoneInt DEF Done, Transaction, StepsJournaled, StepsOf
    <3> QED
      BY <2>1, <3>1, <3>2, <3>3, <3>4
  <2>4. StepsOf(w)'
    BY <2>2, <2>3 DEF StepsJournaled, StepsOf, Transaction
  <2> QED
    BY <1>0, <2>2, <2>4
<1>6. ASSUME NEW w \in Threads, QueryBalance(w) PROVE StepsJournaled'
  <2>1. /\ pc[w] = "query" /\ pc'[w] = "balance" /\ UNCHANGED <<next, step, inserted>>
        /\ \A v \in Threads \ {w} : pc'[v] = pc[v]
    BY <1>6 DEF QueryBalance, At, Goto, TypeOK
  <2>2. \A a \in Addresses : InFlight(w, a)' = InFlight(w, a) /\ Done(w, a)' = Done(w, a)
    BY <2>1 DEF InFlight, Done, Address, Amount, Current, Transaction
  <2>3. StepsOf(w)'
    BY <2>1, <2>2 DEF StepsJournaled, StepsOf, Transaction
  <2> QED
    BY <1>0, <2>1, <2>3
<1>7. ASSUME NEW w \in Threads, InsertBalance(w) PROVE StepsJournaled'
  BY <1>7, RollbackSteps, AdvanceSteps DEF InsertBalance, Write, At
<1>8. ASSUME NEW w \in Threads, UpdateBalance(w) PROVE StepsJournaled'
  BY <1>8, AdvanceSteps DEF UpdateBalance, Write, At
<1>9. ASSUME NEW w \in Threads, Commit(w) PROVE StepsJournaled'
  <2>1. \A v \in Threads \ {w} : next'[v] = next[v]
    BY <1>9 DEF Commit, TypeOK
  <2> QED
    BY <1>9, <2>1, CloseSteps DEF Commit
<1>10. ASSUME NEW w \in Threads, CommandTimeout(w) PROVE StepsJournaled'
  BY <1>10, RollbackSteps DEF CommandTimeout
<1>11. CASE UNCHANGED vars
  BY <1>11, StepsOfOther DEF vars, StepsJournaled
<1> QED
  BY <1>1, <1>2, <1>3, <1>4, <1>5, <1>6, <1>7, <1>8, <1>9, <1>10, <1>11
  DEF Next, Thread, AddAmount

(***************************************************************************)
(* What steps mean to the ledger.  A transaction that commits is through   *)
(* with all of its steps, and its journal is what it was to add.           *)
(***************************************************************************)
LEMMA CommitApplies ==
  ASSUME LedgerInv, NEW w \in Threads, Commit(w)
  PROVE  Ledger!Apply(w)
<1> USE DEF LedgerInv, JournalInv, TypeInv
<1>1. pc[w] = "next" /\ step[w] > Len(Transaction(w)) /\ next' = [next EXCEPT ![w] = @ + 1]
  BY DEF Commit, At
<1>2. /\ next[w] \in DOMAIN Work[w] /\ Transaction(w) \in Seq(Steps)
      /\ step[w] \in Nat /\ Len(Transaction(w)) \in Nat
  BY <1>1, TransactionTyped DEF TypeOK
<1>3. step[w] = Len(Transaction(w)) + 1
  BY <1>1, <1>2 DEF StepsJournaled, StepsOf
<1>4. 1 .. step[w] - 1 = DOMAIN Transaction(w)
  BY <1>2, <1>3
<1>5. ASSUME NEW a \in Addresses
      PROVE  Amounts(a)' = Amounts(a) + Effect[w][next[w]][a]
  <2>1. InFlight(w, a) = 0
    BY <1>1 DEF InFlight
  <2>2. Done(w, a) \in Int
    BY <1>1, DoneInt DEF StepsJournaled, StepsOf
  <2>3. inserted[w][a] = Done(w, a)
    BY <1>1, <2>1, <2>2 DEF StepsJournaled, StepsOf
  <2>4. Effect[w][next[w]][a] = Done(w, a)
    BY <1>2, <1>4 DEF Effect, Done, Transaction
  <2> QED
    BY <2>3, <2>4, CommitAdds
<1>6. DOMAIN Effect[w] = DOMAIN Work[w]
  BY DEF Effect
<1>7. Ledger!Pass({w})
  BY <1>1, <1>2, <1>6 DEF Ledger!Pass, TypeOK
<1>8. [a \in Addresses |-> Amounts(a)]'
        = [a \in Addresses |-> [b \in Addresses |-> Amounts(b)][a] + Effect[w][next[w]][a]]
  BY <1>5
<1> QED
  BY <1>7, <1>8 DEF Ledger!Apply

(* Without a commit no balance changes: seen from the ledger nothing       *)
(* happens, or some threads give their transactions up.                    *)
LEMMA SameBalances ==
  ASSUME UNCHANGED balances
  PROVE  UNCHANGED [a \in Addresses |-> Amounts(a)]
BY DEF Amounts

LEMMA GivesUp ==
  ASSUME LedgerInv, UNCHANGED balances, NEW some \in SUBSET (Threads \ {Payer}),
         \A w \in some : next[w] <= Len(Work[w]),
         next' = [w \in Threads |-> IF w \in some THEN next[w] + 1 ELSE next[w]]
  PROVE  Ledger!Next
<1>1. \A w \in some : next[w] \in DOMAIN Effect[w]
  BY BalancesAssumption DEF LedgerInv, JournalInv, TypeInv, TypeOK, Effect
<1>2. Ledger!GiveUp(some)
  BY <1>1, SameBalances DEF Ledger!GiveUp, Ledger!Pass
<1> QED
  BY <1>2 DEF Ledger!Next

LEMMA RollbackGivesUp ==
  ASSUME LedgerInv, NEW w \in Threads, Rollback(w), pc[w] # "closed" \/ next[w] <= Len(Work[w])
  PROVE  Ledger!Next \/ UNCHANGED <<balances, next>>
<1> USE DEF LedgerInv, JournalInv, TypeInv
<1>1. next[w] <= Len(Work[w])
  BY DEF TypeOK
<1>2. CASE w = Payer
  BY <1>2 DEF Rollback
<1>3. CASE w # Payer
  <2>1. next' = [v \in Threads |-> IF v \in {w} THEN next[v] + 1 ELSE next[v]]
    BY <1>3 DEF Rollback, TypeOK
  <2>2. {w} \in SUBSET (Threads \ {Payer}) /\ UNCHANGED balances
    BY <1>3 DEF Rollback
  <2> QED
    BY <1>1, <2>1, <2>2, GivesUp
<1> QED
  BY <1>2, <1>3

LEMMA NextLedger ==
  ASSUME LedgerInv, [Next]_vars
  PROVE  [Ledger!Next]_<<[a \in Addresses |-> Amounts(a)], next>>
<1> USE DEF LedgerInv, JournalInv, TypeInv
<1>0. UNCHANGED <<balances, next>> => UNCHANGED <<[a \in Addresses |-> Amounts(a)], next>>
  BY SameBalances
<1>1. CASE Crash
  <2> DEFINE some == {w \in Threads : w # Payer /\ pc[w] # "closed"}
  <2>1. next' = [w \in Threads |-> IF w \in some THEN next[w] + 1 ELSE next[w]]
    BY <1>1 DEF Crash
  <2>2. \A w \in some : next[w] <= Len(Work[w])
    BY DEF TypeOK
  <2> QED
    BY <1>1, <2>1, <2>2, GivesUp DEF Crash
<1>2. ASSUME NEW w \in Threads, OpenConnection(w) PROVE Ledger!Next \/ UNCHANGED <<balances, next>>
  BY <1>2, RollbackGivesUp DEF OpenConnection, database
<1>3. ASSUME NEW w \in Threads, OpenSecond(w) PROVE Ledger!Next \/ UNCHANGED <<balances, next>>
  BY <1>3, RollbackGivesUp DEF OpenSecond, At, database
<1>4. ASSUME NEW w \in Threads, CloseSecond(w) PROVE UNCHANGED <<balances, next>>
  BY <1>4 DEF CloseSecond, database
<1>5. ASSUME NEW w \in Threads, InsertBalanceChange(w) \/ QueryBalance(w)
      PROVE  UNCHANGED <<balances, next>>
  BY <1>5 DEF InsertBalanceChange, QueryBalance, database
<1>6. ASSUME NEW w \in Threads, InsertBalance(w) PROVE Ledger!Next \/ UNCHANGED <<balances, next>>
  BY <1>6, RollbackGivesUp DEF InsertBalance, At, Write
<1>7. ASSUME NEW w \in Threads, UpdateBalance(w) PROVE UNCHANGED <<balances, next>>
  BY <1>7 DEF UpdateBalance, Write
<1>8. ASSUME NEW w \in Threads, Commit(w) PROVE Ledger!Next
  BY <1>8, CommitApplies DEF Ledger!Next
<1>9. ASSUME NEW w \in Threads, CommandTimeout(w)
      PROVE  Ledger!Next \/ UNCHANGED <<balances, next>>
  BY <1>9, RollbackGivesUp DEF CommandTimeout, At
<1>10. CASE UNCHANGED vars
  BY <1>0, <1>10 DEF vars, database
<1> QED
  BY <1>0, <1>1, <1>2, <1>3, <1>4, <1>5, <1>6, <1>7, <1>8, <1>9, <1>10 DEF Next, Thread, AddAmount

(***************************************************************************)
(* TransactionsAreAtomic: seen through its committed rows the database     *)
(* adds what a transaction is to add at once, the blocks' in order and     *)
(* once, whatever transactions interleave, wait, fail or crash.            *)
(***************************************************************************)
THEOREM TransactionsAreAtomic == Spec => AddsAtomically
<1>1. Init => LedgerInv
  <2>1. Init => JournalInv
    BY TypeInit, BalancesAssumption
    DEF Init, JournalInv, RowsOwed, JournalMatches, Amounts, InFlight
  <2>2. Init => StepsJournaled
    BY DEF Init, StepsJournaled, StepsOf
  <2> QED
    BY <2>1, <2>2 DEF LedgerInv
<1>2. LedgerInv /\ [Next]_vars => LedgerInv'
  BY TypeStep, OwedStep, StepsStep DEF LedgerInv, JournalInv
<1>3. Init => Ledger!Init
  BY DEF Init, Ledger!Init, Amounts
<1>4. LedgerInv /\ [Next]_vars => [Ledger!Next]_<<[a \in Addresses |-> Amounts(a)], next>>
  BY NextLedger
<1> QED
  BY <1>1, <1>2, <1>3, <1>4, PTL DEF Spec, AddsAtomically, Ledger!Spec

=============================================================================
