---------------------------- MODULE PayoutProofs ----------------------------
(***************************************************************************)
(* Theorems about Payout, for every value of its constants.                *)
(***************************************************************************)
EXTENDS Payout, SumLemmas, TLAPS

(***************************************************************************)
(* Type correctness.  PayeeOK strengthens it: while a transfer is being    *)
(* booked its account exists.                                              *)
(***************************************************************************)
PayeeOK == pc = "book" => payee \in Accounts

TypeInv == TypeOK /\ PayeeOK

LEMMA NothingTyped ==
  /\ Nothing \in [Accounts -> Nat]
  /\ Nothing \in [Accounts -> Int]
  /\ Nothing \in [Accounts -> MinerMinimums]
  BY PayoutAssumption DEF Nothing

LEMMA NoVerdictTyped == NoVerdict \in [Blocks -> Statuses]
  BY DEF NoVerdict, Statuses

LEMMA BoundsTyped ==
  RetryCount \in 0 .. RetryCount /\ 0 \in 0 .. MaxFaults /\ 0 \in 0 .. MaxOutside
  BY PayoutAssumption

LEMMA FaultTyped == ASSUME HistoryOK, Fault PROVE faults' \in 0 .. MaxFaults
  BY PayoutAssumption DEF HistoryOK, Fault

LEMMA LeavePoolTyped == ASSUME LeavePool PROVE HandlerOK' /\ PayeeOK'
<1>1. pc' \in Locations /\ PayeeOK'
  BY DEF LeavePool, Locations, PayeeOK
<1>2. pending' \subseteq Blocks /\ updated' \subseteq Blocks /\ queue' \subseteq Accounts
  BY DEF LeavePool
<1>3. latest' \in Int /\ verdict' \in [Blocks -> Statuses] /\ due' \in [Accounts -> Nat]
  BY NothingTyped, NoVerdictTyped DEF LeavePool
<1>4. payee' \in Accounts \cup {None} /\ retries' \in 0 .. RetryCount /\ booked' \in BOOLEAN
  BY BoundsTyped DEF LeavePool
<1> QED
  BY <1>1, <1>2, <1>3, <1>4 DEF HandlerOK

LEMMA NextBalanceTyped ==
  ASSUME HandlerOK, CycleOK, NEW a, NextBalance(a)
  PROVE  HandlerOK' /\ CycleOK' /\ PayeeOK'
<1>1. pc' \in {"idle", "pay"}
  BY DEF NextBalance
<1> QED
  BY <1>1, BoundsTyped DEF NextBalance, HandlerOK, CycleOK, PayeeOK, Locations, classification

LEMMA BookPaymentTyped ==
  ASSUME TablesOK, HandlerOK, HistoryOK, payee \in Accounts, BookPayment
  PROVE  TablesOK' /\ rebooked' \in [Accounts -> Nat]
  BY DEF BookPayment, TablesOK, HandlerOK, HistoryOK

LEMMA InitTypeInv == Init => TypeInv
<1> SUFFICES ASSUME Init PROVE TypeInv
  OBVIOUS
<1>1. TablesOK
  BY NothingTyped DEF Init, TablesOK
<1>2. ChainOK /\ CycleOK
  BY NothingTyped DEF Init, ChainOK, CycleOK
<1>3. pc \in Locations /\ PayeeOK
  BY DEF Init, Locations, PayeeOK
<1>4. /\ pending \subseteq Blocks /\ updated \subseteq Blocks /\ queue \subseteq Accounts
      /\ latest \in Int /\ verdict \in [Blocks -> Statuses] /\ due \in [Accounts -> Nat]
  BY NothingTyped, NoVerdictTyped DEF Init
<1>5. payee \in Accounts \cup {None} /\ retries \in 0 .. RetryCount /\ booked \in BOOLEAN
  BY BoundsTyped DEF Init
<1>6. HistoryOK
  BY NothingTyped, BoundsTyped DEF Init, HistoryOK
<1> QED
  BY <1>1, <1>2, <1>3, <1>4, <1>5, <1>6 DEF TypeInv, TypeOK, HandlerOK

LEMMA NextTypeInv == TypeInv /\ [Next]_vars => TypeInv'
<1> SUFFICES ASSUME TypeInv, [Next]_vars PROVE TypeInv'
  OBVIOUS
<1> USE PayoutAssumption DEF TypeInv, TypeOK
<1>1. ASSUME NEW p \in Pools, GrowChain(p) PROVE TypeInv'
  BY <1>1 DEF GrowChain, tables, control, classification, batch, booking, history,
              TablesOK, ChainOK, CycleOK, HandlerOK, HistoryOK, PayeeOK
<1>2. ASSUME NEW b \in Blocks, Reorganise(b) PROVE TypeInv'
  BY <1>2 DEF Reorganise, tables, control, classification, batch, booking, history,
              TablesOK, ChainOK, CycleOK, HandlerOK, HistoryOK, PayeeOK
<1>3. ASSUME NEW b \in Blocks, BlockFound(b) PROVE TypeInv'
  BY <1>3 DEF BlockFound, ledger, chain, control, classification, batch, booking, history,
              Statuses, TablesOK, ChainOK, CycleOK, HandlerOK, HistoryOK, PayeeOK
<1>4. ASSUME NEW a \in Accounts, NEW n \in AdminAmounts, AddMinerBalance(a, n)
      PROVE TypeInv'
  <2>1. TablesOK'
    BY <1>4 DEF AddMinerBalance, Outside, TablesOK
  <2>2. ChainOK' /\ CycleOK' /\ HandlerOK' /\ PayeeOK' /\ HistoryOK'
    BY <1>4 DEF AddMinerBalance, Outside, chain, control, classification, batch, booking,
                ChainOK, CycleOK, HandlerOK, HistoryOK, PayeeOK
  <2> QED
    BY <2>1, <2>2
<1>5. ASSUME NEW a \in Accounts, NEW n \in MinerMinimums, SetMinerMinimum(a, n)
      PROVE TypeInv'
  BY <1>5 DEF SetMinerMinimum, Outside, chain, control, classification, batch, booking,
              TablesOK, ChainOK, CycleOK, HandlerOK, HistoryOK, PayeeOK
<1>6. CASE StartCycle
  BY <1>6 DEF StartCycle, tables, chain, classification, batch, booking, history,
              TablesOK, ChainOK, CycleOK, HandlerOK, HistoryOK, PayeeOK
<1>7. CASE PoolFails
  <2>1. HandlerOK' /\ PayeeOK'
    BY <1>7, LeavePoolTyped DEF PoolFails
  <2>2. TablesOK' /\ ChainOK' /\ CycleOK'
    BY <1>7 DEF PoolFails, tables, chain, TablesOK, ChainOK, CycleOK
  <2>3. HistoryOK'
    BY <1>7, FaultTyped DEF PoolFails, HistoryOK
  <2> QED
    BY <2>1, <2>2, <2>3
<1>8. CASE Crash
  <2>1. HandlerOK' /\ PayeeOK'
    BY <1>8, LeavePoolTyped DEF Crash
  <2>2. TablesOK' /\ ChainOK' /\ CycleOK'
    BY <1>8 DEF Crash, tables, chain, TablesOK, ChainOK, CycleOK
  <2>3. HistoryOK'
    BY <1>8, FaultTyped DEF Crash, HistoryOK, HandlerOK, PayeeOK
  <2> QED
    BY <2>1, <2>2, <2>3
<1>9. ASSUME NEW p \in Pools, GetDistinctPendingBlocksForPool(p) PROVE TypeInv'
  BY <1>9 DEF GetDistinctPendingBlocksForPool, DistinctPending, PendingOf, tables, chain,
              batch, booking, history, Locations,
              TablesOK, ChainOK, CycleOK, HandlerOK, HistoryOK, PayeeOK
<1>10. CASE GetLatestBlock
  BY <1>10 DEF GetLatestBlock, tables, chain, batch, booking, history, Locations,
               TablesOK, ChainOK, CycleOK, HandlerOK, HistoryOK, PayeeOK
<1>11. CASE NoLatestBlock
  BY <1>11, FaultTyped
  DEF NoLatestBlock, tables, chain, batch, booking, Locations,
      TablesOK, ChainOK, CycleOK, HandlerOK, HistoryOK, PayeeOK
<1>12. CASE ClassifyPage
  BY <1>12 DEF ClassifyPage, Classify, tables, chain, batch, booking, history, Locations,
               Statuses, TablesOK, ChainOK, CycleOK, HandlerOK, HistoryOK, PayeeOK
<1>13. ASSUME NEW b \in Blocks, StoreBlock(b) PROVE TypeInv'
  <2>1. TablesOK'
    BY <1>13 DEF StoreBlock, UpdateBlock, DistributeReward, TablesOK, HandlerOK
  <2>2. ChainOK'
    BY <1>13 DEF StoreBlock, chain, ChainOK
  <2>3. CASE LeavePool
    BY <1>13, <2>1, <2>2, <2>3, LeavePoolTyped, FaultTyped
    DEF StoreBlock, DistributeReward, CycleOK, HistoryOK
  <2>4. HistoryOK'
    BY <1>13, FaultTyped DEF StoreBlock, DistributeReward, HistoryOK
  <2>5. CASE /\ updated' = updated \ {b}
             /\ verdict' = [verdict EXCEPT ![b] = "pending"]
             /\ UNCHANGED <<pc, pending, latest, batch, booking, faults>>
    <3>1. CycleOK' /\ HandlerOK' /\ PayeeOK'
      BY <1>13, <2>5
      DEF StoreBlock, batch, booking, Statuses, CycleOK, HandlerOK, PayeeOK
    <3> QED
      BY <2>1, <2>2, <2>4, <3>1
  <2> QED
    BY <1>13, <2>3, <2>5 DEF StoreBlock
<1>14. CASE GetPoolBalancesOverThreshold
  BY <1>14 DEF GetPoolBalancesOverThreshold, OverThreshold, tables, chain, classification,
               booking, history, Locations,
               TablesOK, ChainOK, CycleOK, HandlerOK, HistoryOK, PayeeOK
<1>15. ASSUME NEW a \in Accounts, SkipMiner(a) PROVE TypeInv'
  BY <1>15, NextBalanceTyped DEF SkipMiner, tables, chain, history, TablesOK, ChainOK, HistoryOK
<1>16. ASSUME NEW a \in Accounts, SendTransaction(a) PROVE TypeInv'
  BY <1>16 DEF SendTransaction, MaySend, tables, classification, batch, history, Locations,
               TablesOK, ChainOK, CycleOK, HandlerOK, HistoryOK, PayeeOK
<1>17. ASSUME NEW a \in Accounts, SendFails(a) PROVE TypeInv'
  <2>1. HandlerOK' /\ CycleOK' /\ PayeeOK'
    BY <1>17, NextBalanceTyped DEF SendFails
  <2>2. TablesOK'
    BY <1>17 DEF SendFails, tables, TablesOK
  <2>3. ChainOK' /\ HistoryOK'
    BY <1>17, FaultTyped DEF SendFails, ChainOK, HistoryOK, HandlerOK
  <2> QED
    BY <2>1, <2>2, <2>3
<1>18. CASE PersistPayment
  <2>1. HandlerOK' /\ CycleOK' /\ PayeeOK'
    BY <1>18, NextBalanceTyped DEF PersistPayment
  <2>2. TablesOK' /\ rebooked' \in [Accounts -> Nat]
    BY <1>18, BookPaymentTyped DEF PersistPayment, PayeeOK
  <2>3. ChainOK' /\ HistoryOK'
    BY <1>18, <2>2 DEF PersistPayment, chain, ChainOK, HistoryOK
  <2> QED
    BY <2>1, <2>2, <2>3
<1>19. CASE RetryPersist
  <2>1. retries' \in 0 .. RetryCount
    BY <1>19 DEF RetryPersist, MayRetry, HandlerOK
  <2>2. booked' \in BOOLEAN
    BY <1>19 DEF RetryPersist, HandlerOK
  <2>3. HandlerOK' /\ CycleOK' /\ PayeeOK'
    BY <1>19, <2>1, <2>2 DEF RetryPersist, control, classification, batch, HandlerOK,
                             CycleOK, PayeeOK
  <2>4. CASE BookPayment
    <3>1. TablesOK' /\ rebooked' \in [Accounts -> Nat]
      BY <1>19, <2>4, BookPaymentTyped DEF RetryPersist, PayeeOK
    <3>2. ChainOK' /\ HistoryOK'
      BY <1>19, <3>1, FaultTyped DEF RetryPersist, chain, ChainOK, HistoryOK
    <3> QED
      BY <2>3, <3>1, <3>2
  <2>5. CASE UNCHANGED <<tables, rebooked>>
    BY <1>19, <2>3, <2>5, FaultTyped
    DEF RetryPersist, tables, chain, TablesOK, ChainOK, HistoryOK
  <2> QED
    BY <1>19, <2>4, <2>5 DEF RetryPersist
<1>20. CASE GiveUpPersist
  <2>1. HandlerOK' /\ CycleOK' /\ PayeeOK'
    BY <1>20, NextBalanceTyped DEF GiveUpPersist
  <2>2. ChainOK' /\ unbooked' \in [Accounts -> Nat]
    BY <1>20 DEF GiveUpPersist, chain, ChainOK, HistoryOK, HandlerOK, PayeeOK
  <2>3. CASE BookPayment
    <3>1. TablesOK' /\ rebooked' \in [Accounts -> Nat]
      BY <1>20, <2>3, BookPaymentTyped DEF GiveUpPersist, PayeeOK
    <3>2. HistoryOK'
      BY <1>20, <2>2, <3>1, FaultTyped DEF GiveUpPersist, HistoryOK
    <3> QED
      BY <2>1, <2>2, <3>1, <3>2
  <2>4. CASE UNCHANGED <<tables, rebooked>>
    <3>1. TablesOK'
      BY <2>4 DEF tables, TablesOK
    <3>2. HistoryOK'
      BY <1>20, <2>2, <2>4, FaultTyped DEF GiveUpPersist, HistoryOK
    <3> QED
      BY <2>1, <2>2, <3>1, <3>2
  <2> QED
    BY <1>20, <2>3, <2>4 DEF GiveUpPersist
<1>21. CASE UNCHANGED vars
  BY <1>21 DEF vars, tables, chain, control, classification, batch, booking, history,
               TablesOK, ChainOK, CycleOK, HandlerOK, HistoryOK, PayeeOK
<1> QED
  BY <1>1, <1>2, <1>3, <1>4, <1>5, <1>6, <1>7, <1>8, <1>9, <1>10, <1>11, <1>12, <1>13,
     <1>14, <1>15, <1>16, <1>17, <1>18, <1>19, <1>20, <1>21
  DEF Next, ProcessPools, Failure, Environment

(***************************************************************************)
(* Type correctness: amounts sent, booked and lost never become negative,  *)
(* the retries never run below zero, and an account is booked only while   *)
(* it exists.                                                              *)
(***************************************************************************)
THEOREM TypeCorrect == Spec => []TypeOK
<1>1. Spec => []TypeInv
  BY InitTypeInv, NextTypeInv, PTL DEF Spec
<1>2. TypeInv => TypeOK
  BY DEF TypeInv
<1> QED
  BY <1>1, <1>2, PTL

-----------------------------------------------------------------------------
(***************************************************************************)
(* The pool's books and the chain agree, and the pool pays out no more     *)
(* than it owes: any number of pools, blocks, accounts, retries and        *)
(* failures.                                                               *)
(***************************************************************************)

(***************************************************************************)
(* The inductive invariant.  Journal: the column amount is what the        *)
(* journal adds up to.  Covers: the amount read at the start of the        *)
(* payments is still covered by the balance, except for what the admin     *)
(* deducted and what a retry booked twice since, because nothing else      *)
(* lowers a balance between the read and the booking.                      *)
(***************************************************************************)
Journal == \A a \in Accounts : balances[a] + deducted[a] + settled[a] = earned[a] + added[a]

Settling(a) == IF booked /\ payee = a THEN due[a] ELSE 0

Covers ==
  \A a \in Accounts :
    /\ balances[a] + deducted[a] + rebooked[a] + Settling(a) >= due[a]
    /\ settled[a] >= rebooked[a] + Settling(a)

BookedInBook == booked => pc = "book"

MoneyInv == BookedInBook /\ Journal /\ TransfersBooked /\ Covers

money == <<balances, earned, added, deducted, settled, payments, sent, due, payee, booked,
           unbooked, rebooked>>

LEMMA InitMoneyInv == Init => MoneyInv
  BY DEF Init, MoneyInv, BookedInBook, Journal, TransfersBooked, Covers, Settling, InFlight,
         Nothing

(* a step that moves no money *)
LEMMA MoneyUntouched ==
  ASSUME TypeInv, MoneyInv, UNCHANGED money, pc' = "book" <=> pc = "book"
  PROVE  MoneyInv'
  BY DEF money, MoneyInv, BookedInBook, Journal, TransfersBooked, Covers, Settling, InFlight

(* the handler of the pool is left while nothing is being booked *)
LEMMA MoneyLeftBehind ==
  ASSUME TypeInv, MoneyInv, LeavePool, pc # "book",
         UNCHANGED <<balances, earned, added, deducted, settled, payments, sent, unbooked,
                     rebooked>>
  PROVE  MoneyInv'
  BY DEF TypeInv, TypeOK, TablesOK, HandlerOK, HistoryOK, LeavePool, Nothing, MoneyInv,
         BookedInBook, Journal, TransfersBooked, Covers, Settling, InFlight

(* done with an account that was not booked: nothing of it is in flight *)
LEMMA MoneyPassedOver ==
  ASSUME TypeInv, MoneyInv, NEW a \in Accounts, NextBalance(a), pc = "pay",
         UNCHANGED <<balances, earned, added, deducted, settled, payments, sent, unbooked,
                     rebooked>>
  PROVE  MoneyInv'
  BY DEF TypeInv, TypeOK, TablesOK, HandlerOK, HistoryOK, NextBalance, MoneyInv,
         BookedInBook, Journal, TransfersBooked, Covers, Settling, InFlight

(* what booking the payment does to the books of each account *)
LEMMA BookPaymentEffect ==
  ASSUME TypeInv, pc = "book", BookPayment
  PROVE  /\ payee \in Accounts
         /\ balances'[payee] = balances[payee] - due[payee]
         /\ settled'[payee] = settled[payee] + due[payee]
         /\ payments'[payee] = payments[payee] + (IF payee \in Recipients THEN 0 ELSE due[payee])
         /\ rebooked'[payee] = rebooked[payee] + (IF booked THEN due[payee] ELSE 0)
         /\ \A a \in Accounts \ {payee} :
              /\ balances'[a] = balances[a] /\ settled'[a] = settled[a]
              /\ payments'[a] = payments[a] /\ rebooked'[a] = rebooked[a]
         /\ UNCHANGED <<earned, added, deducted>>
  BY DEF BookPayment, TypeInv, TypeOK, TablesOK, HandlerOK, HistoryOK, PayeeOK

(* booked, or given up after it was booked, and on to the next balance *)
LEMMA MoneyBooked ==
  ASSUME TypeInv, MoneyInv, pc = "book", BookPayment, NextBalance(payee),
         UNCHANGED <<sent, unbooked>>
  PROVE  MoneyInv'
<1>1. /\ booked' = FALSE /\ pc' # "book" /\ due'[payee] = 0
      /\ \A a \in Accounts \ {payee} : due'[a] = due[a]
  BY DEF NextBalance, TypeInv, TypeOK, HandlerOK, PayeeOK
<1> USE BookPaymentEffect DEF TypeInv, TypeOK, TablesOK, ChainOK, HandlerOK, HistoryOK, MoneyInv
<1>2. Journal'
  BY DEF Journal
<1>3. TransfersBooked'
  <2> SUFFICES ASSUME NEW a \in Accounts
               PROVE  /\ sent'[a] + rebooked'[a] = settled'[a] + unbooked'[a] + InFlight(a)'
                      /\ payments'[a] = IF a \in Recipients THEN 0 ELSE settled'[a]
    BY DEF TransfersBooked
  <2>1. InFlight(a)' = 0
    BY <1>1 DEF InFlight
  <2>2. CASE a = payee
    BY <2>1, <2>2, SMTT(60) DEF TransfersBooked, InFlight
  <2>3. CASE a # payee
    BY <2>1, <2>3, SMTT(60) DEF TransfersBooked, InFlight
  <2> QED
    BY <2>2, <2>3
<1>4. Covers'
  BY <1>1 DEF Covers, Settling
<1> QED
  BY <1>1, <1>2, <1>3, <1>4 DEF BookedInBook

LEMMA NextMoneyInv == TypeInv /\ MoneyInv /\ [Next]_vars => MoneyInv'
<1> SUFFICES ASSUME TypeInv, MoneyInv, [Next]_vars PROVE MoneyInv'
  OBVIOUS
<1> USE DEF money
<1>1. ASSUME NEW p \in Pools, GrowChain(p) PROVE MoneyInv'
  BY <1>1, MoneyUntouched DEF GrowChain, tables, control, batch, booking, history
<1>2. ASSUME NEW b \in Blocks, Reorganise(b) PROVE MoneyInv'
  BY <1>2, MoneyUntouched DEF Reorganise, tables, control, batch, booking, history
<1>3. ASSUME NEW b \in Blocks, BlockFound(b) PROVE MoneyInv'
  BY <1>3, MoneyUntouched DEF BlockFound, ledger, chain, control, batch, booking, history
<1>4. ASSUME NEW a \in Accounts, NEW n \in AdminAmounts, AddMinerBalance(a, n)
      PROVE MoneyInv'
  <2>1. n \in Int
    BY PayoutAssumption
  <2>2. /\ balances'[a] + deducted'[a] - added'[a] = balances[a] + deducted[a] - added[a]
        /\ balances'[a] + deducted'[a] >= balances[a] + deducted[a]
    BY <1>4, <2>1 DEF AddMinerBalance, Outside, TypeInv, TypeOK, TablesOK
  <2>3. /\ \A c \in Accounts \ {a} : /\ balances'[c] = balances[c]
                                     /\ deducted'[c] = deducted[c]
                                     /\ added'[c] = added[c]
        /\ balances' \in [Accounts -> Int]
        /\ deducted' \in [Accounts -> Nat] /\ added' \in [Accounts -> Nat]
    BY <1>4, <2>1 DEF AddMinerBalance, Outside, TypeInv, TypeOK, TablesOK
  <2>4. UNCHANGED <<earned, settled, payments, sent, pc, due, payee, booked, unbooked, rebooked>>
    BY <1>4 DEF AddMinerBalance, Outside, chain, control, batch, booking
  <2> USE DEF TypeInv, TypeOK, TablesOK, HandlerOK, HistoryOK, MoneyInv
  <2>5. Journal'
    <3> SUFFICES ASSUME NEW c \in Accounts
                 PROVE  balances'[c] + deducted'[c] + settled'[c] = earned'[c] + added'[c]
      BY DEF Journal
    <3>1. balances[c] + deducted[c] + settled[c] = earned[c] + added[c]
      BY DEF Journal
    <3>2. CASE c = a
      BY <2>2, <2>3, <2>4, <3>1, <3>2
    <3>3. CASE c # a
      BY <2>3, <2>4, <3>1, <3>3
    <3> QED
      BY <3>2, <3>3
  <2>6. TransfersBooked' /\ BookedInBook'
    BY <2>4 DEF TransfersBooked, InFlight, BookedInBook
  <2>7. Covers'
    BY <2>2, <2>3, <2>4 DEF Covers, Settling
  <2> QED
    BY <2>5, <2>6, <2>7
<1>5. ASSUME NEW a \in Accounts, NEW n \in MinerMinimums, SetMinerMinimum(a, n)
      PROVE MoneyInv'
  BY <1>5, MoneyUntouched DEF SetMinerMinimum, Outside, chain, control, batch, booking
<1>6. CASE StartCycle
  BY <1>6, MoneyUntouched DEF StartCycle, tables, chain, batch, booking, history
<1>7. CASE PoolFails
  BY <1>7, MoneyLeftBehind DEF PoolFails, tables, chain
<1>8. CASE Crash
  <2>1. CASE pc = "book"
    BY <1>8, <2>1
    DEF Crash, LeavePool, Nothing, tables, chain, TypeInv, TypeOK, TablesOK, ChainOK,
        HandlerOK, HistoryOK, PayeeOK, MoneyInv, BookedInBook, Journal, TransfersBooked,
        Covers, Settling, InFlight
  <2>2. CASE pc # "book"
    BY <1>8, <2>2, MoneyLeftBehind DEF Crash, tables, chain
  <2> QED
    BY <2>1, <2>2
<1>9. ASSUME NEW p \in Pools, GetDistinctPendingBlocksForPool(p) PROVE MoneyInv'
  BY <1>9, MoneyUntouched
  DEF GetDistinctPendingBlocksForPool, tables, chain, batch, booking, history
<1>10. CASE GetLatestBlock
  BY <1>10, MoneyUntouched DEF GetLatestBlock, tables, chain, batch, booking, history
<1>11. CASE NoLatestBlock
  BY <1>11, MoneyUntouched DEF NoLatestBlock, tables, chain, batch, booking
<1>12. CASE ClassifyPage
  BY <1>12, MoneyUntouched DEF ClassifyPage, tables, chain, batch, booking, history
<1>13. ASSUME NEW b \in Blocks, StoreBlock(b) PROVE MoneyInv'
  <2>1. \A a \in Accounts : \E g \in Nat : /\ balances'[a] = balances[a] + g
                                           /\ earned'[a] = earned[a] + g
    <3>1. CASE UNCHANGED <<balances, earned>>
      BY <3>1 DEF TypeInv, TypeOK, TablesOK
    <3>2. CASE DistributeReward(b)
      <4>1. \A a \in Accounts : Reward[b][a] \in Nat
        BY PayoutAssumption
      <4> QED
        BY <3>2, <4>1 DEF DistributeReward
    <3> QED
      BY <1>13, <3>1, <3>2 DEF StoreBlock
  <2>2. UNCHANGED <<added, deducted, settled, payments, sent, unbooked, rebooked>>
    BY <1>13 DEF StoreBlock, chain
  <2>3. /\ pc = "update" /\ booked = FALSE
        /\ booked' = FALSE /\ pc' # "book"
        /\ \A a \in Accounts : due'[a] = due[a] \/ due'[a] = 0
    BY <1>13 DEF StoreBlock, LeavePool, Nothing, batch, booking, TypeInv, TypeOK, HandlerOK,
                 MoneyInv, BookedInBook
  <2> USE DEF TypeInv, TypeOK, TablesOK, HandlerOK, HistoryOK, MoneyInv
  <2>4. Journal'
    <3> SUFFICES ASSUME NEW a \in Accounts
                 PROVE  balances'[a] + deducted'[a] + settled'[a] = earned'[a] + added'[a]
      BY DEF Journal
    <3>1. PICK g \in Nat : balances'[a] = balances[a] + g /\ earned'[a] = earned[a] + g
      BY <2>1
    <3>2. balances[a] + deducted[a] + settled[a] = earned[a] + added[a]
      BY DEF Journal
    <3> QED
      BY <2>2, <3>1, <3>2
  <2>5. TransfersBooked' /\ BookedInBook'
    BY <2>2, <2>3 DEF TransfersBooked, InFlight, BookedInBook
  <2>6. Covers'
    BY <2>1, <2>2, <2>3 DEF Covers, Settling
  <2> QED
    BY <2>4, <2>5, <2>6
<1>14. CASE GetPoolBalancesOverThreshold
  BY <1>14
  DEF GetPoolBalancesOverThreshold, tables, chain, booking, history, TypeInv, TypeOK,
      TablesOK, HandlerOK, HistoryOK, MoneyInv, BookedInBook, Journal, TransfersBooked,
      Covers, Settling, InFlight
<1>15. ASSUME NEW a \in Accounts, SkipMiner(a) PROVE MoneyInv'
  BY <1>15, MoneyPassedOver DEF SkipMiner, tables, chain, history
<1>16. ASSUME NEW a \in Accounts, SendTransaction(a) PROVE MoneyInv'
  BY <1>16
  DEF SendTransaction, MaySend, tables, batch, history, TypeInv, TypeOK, TablesOK, ChainOK,
      HandlerOK, HistoryOK, MoneyInv, BookedInBook, Journal, TransfersBooked, Covers,
      Settling, InFlight
<1>17. ASSUME NEW a \in Accounts, SendFails(a) PROVE MoneyInv'
  <2>1. CASE UNCHANGED <<sent, unbooked>>
    BY <1>17, <2>1, MoneyPassedOver DEF SendFails, MaySend, tables
  <2>2. CASE /\ sent' = [sent EXCEPT ![a] = @ + due[a]]
             /\ unbooked' = [unbooked EXCEPT ![a] = @ + due[a]]
    BY <1>17, <2>2
    DEF SendFails, MaySend, NextBalance, tables, TypeInv, TypeOK, TablesOK, ChainOK,
        HandlerOK, HistoryOK, MoneyInv, BookedInBook, Journal, TransfersBooked, Covers,
        Settling, InFlight
  <2> QED
    BY <1>17, <2>1, <2>2 DEF SendFails
<1>18. CASE PersistPayment
  BY <1>18, MoneyBooked DEF PersistPayment, chain
<1>19. CASE RetryPersist
  <2>1. CASE BookPayment /\ booked' = TRUE
    BY <1>19, <2>1, SMTT(60)
    DEF RetryPersist, BookPayment, control, batch, chain, TypeInv, TypeOK, TablesOK,
        ChainOK, HandlerOK, HistoryOK, PayeeOK, MoneyInv, BookedInBook, Journal,
        TransfersBooked, Covers, Settling, InFlight
  <2>2. CASE UNCHANGED <<tables, rebooked, booked>>
    BY <1>19, <2>2, MoneyUntouched DEF RetryPersist, tables, control, batch, chain
  <2> QED
    BY <1>19, <2>1, <2>2 DEF RetryPersist
<1>20. CASE GiveUpPersist
  <2>1. CASE BookPayment /\ UNCHANGED unbooked
    BY <1>20, <2>1, MoneyBooked DEF GiveUpPersist, chain
  <2>2. CASE /\ unbooked' = IF booked THEN unbooked
                            ELSE [unbooked EXCEPT ![payee] = @ + due[payee]]
             /\ UNCHANGED <<tables, rebooked>>
    BY <1>20, <2>2
    DEF GiveUpPersist, NextBalance, tables, chain, TypeInv, TypeOK, TablesOK, ChainOK,
        HandlerOK, HistoryOK, PayeeOK, MoneyInv, BookedInBook, Journal, TransfersBooked,
        Covers, Settling, InFlight
  <2> QED
    BY <1>20, <2>1, <2>2 DEF GiveUpPersist
<1>21. CASE UNCHANGED vars
  BY <1>21, MoneyUntouched DEF vars, tables, chain, control, batch, booking, history
<1> QED
  BY <1>1, <1>2, <1>3, <1>4, <1>5, <1>6, <1>7, <1>8, <1>9, <1>10, <1>11, <1>12, <1>13,
     <1>14, <1>15, <1>16, <1>17, <1>18, <1>19, <1>20, <1>21
  DEF Next, ProcessPools, Failure, Environment

LEMMA MoneyInvariant == Spec => [](TypeInv /\ MoneyInv)
<1>1. Init => TypeInv /\ MoneyInv
  BY InitTypeInv, InitMoneyInv
<1>2. TypeInv /\ MoneyInv /\ [Next]_vars => TypeInv' /\ MoneyInv'
  BY NextTypeInv, NextMoneyInv
<1> QED
  BY <1>1, <1>2, PTL DEF Spec

(***************************************************************************)
(* Every transfer is booked once, whatever crashes, rolls back or commits  *)
(* unseen on the way: PersistPaymentsAsync and the transfer before it.     *)
(***************************************************************************)
THEOREM TransfersAreBooked == Spec => []TransfersBooked
<1>1. MoneyInv => TransfersBooked
  BY DEF MoneyInv
<1> QED
  BY <1>1, MoneyInvariant, PTL

(***************************************************************************)
(* No account is sent more than it gained and bookkeeping lost, although   *)
(* PayoutAsync pays amounts that were read at the start of the payments.   *)
(***************************************************************************)
THEOREM NeverPaysTooMuch == Spec => []NeverOverpaid
<1>1. TypeInv /\ MoneyInv => NeverOverpaid
  BY DEF TypeInv, TypeOK, TablesOK, ChainOK, HandlerOK, HistoryOK, MoneyInv, Journal,
         TransfersBooked, Covers, Settling, InFlight, NeverOverpaid
<1> QED
  BY <1>1, MoneyInvariant, PTL

-----------------------------------------------------------------------------
(***************************************************************************)
(* What becomes of blocks and their rewards, for every value of the        *)
(* constants of Payout with which the code works as intended:              *)
(* UpdateBlockAsync selects a row by its height alone, so the heights of   *)
(* the table's rows must differ (one pool per database, and each height    *)
(* stored once).  The runs MCPayoutCluster and MCPayoutTwin show what      *)
(* happens when they do not.                                               *)
(***************************************************************************)
DistinctHeights == \A b, c \in Blocks : BlockHeight[b] = BlockHeight[c] => b = c

(***************************************************************************)
(* The inductive invariant: the running cycle classifies and stores only   *)
(* rows that are still pending, and has nothing left to classify when it   *)
(* stores.                                                                 *)
(***************************************************************************)
WorkIsPending == \A b \in pending \cup updated : blocks[b] = "pending"

ClassifiesFirst == pc \notin {"classify", "fetch"} => pending = {}

BlockInv == WorkIsPending /\ ClassifiesFirst /\ CreditedOnce

rows == <<blocks, credits, pc, pending, updated>>

LEMMA InitBlockInv == Init => BlockInv
  BY DEF Init, BlockInv, WorkIsPending, ClassifiesFirst, CreditedOnce

LEMMA BlocksLeftBehind ==
  ASSUME BlockInv, LeavePool, UNCHANGED <<blocks, credits>>
  PROVE  BlockInv'
  BY DEF BlockInv, LeavePool, WorkIsPending, ClassifiesFirst, CreditedOnce

(* steps of the payments touch neither the rows nor the work on them *)
LEMMA BlocksPaid ==
  ASSUME BlockInv, UNCHANGED <<blocks, credits, pending, updated>>,
         pc \notin {"classify", "fetch"}
  PROVE  BlockInv'
  BY DEF BlockInv, WorkIsPending, ClassifiesFirst, CreditedOnce

(* the transaction of one block turns the pending row b into its verdict *)
LEMMA StoreBlockEffect ==
  ASSUME DistinctHeights, TypeInv, BlockInv, NEW b \in Blocks, StoreBlock(b)
  PROVE  /\ blocks[b] = "pending" /\ credits[b] = 0
         /\ blocks' = [blocks EXCEPT ![b] = verdict[b]]
         /\ credits' = IF verdict[b] = "confirmed" THEN [credits EXCEPT ![b] = 1] ELSE credits
<1>1. blocks[b] = "pending" /\ credits[b] = 0
  BY DEF StoreBlock, BlockInv, WorkIsPending, CreditedOnce
<1>2. blocks' = [blocks EXCEPT ![b] = verdict[b]]
  BY <1>1 DEF StoreBlock, UpdateBlock, DistinctHeights, TypeInv, TypeOK, TablesOK
<1>3. credits' = IF verdict[b] = "confirmed" THEN [credits EXCEPT ![b] = 1] ELSE credits
  BY <1>1 DEF StoreBlock, DistributeReward, TypeInv, TypeOK, HistoryOK
<1> QED
  BY <1>1, <1>2, <1>3

LEMMA NextBlockInv ==
  ASSUME DistinctHeights, TypeInv, BlockInv, [Next]_vars
  PROVE  BlockInv'
<1> USE DEF BlockInv
<1>1. ASSUME NEW p \in Pools, GrowChain(p) PROVE BlockInv'
  BY <1>1 DEF GrowChain, tables, control, classification, history, WorkIsPending,
              ClassifiesFirst, CreditedOnce
<1>2. ASSUME NEW b \in Blocks, Reorganise(b) PROVE BlockInv'
  BY <1>2 DEF Reorganise, tables, control, classification, history, WorkIsPending,
              ClassifiesFirst, CreditedOnce
<1>3. ASSUME NEW b \in Blocks, BlockFound(b) PROVE BlockInv'
  BY <1>3 DEF BlockFound, control, classification, history, WorkIsPending,
              ClassifiesFirst, CreditedOnce, TypeInv, TypeOK, TablesOK, HandlerOK
<1>4. ASSUME NEW a \in Accounts, NEW n \in AdminAmounts, AddMinerBalance(a, n)
      PROVE BlockInv'
  BY <1>4 DEF AddMinerBalance, Outside, control, classification, WorkIsPending,
              ClassifiesFirst, CreditedOnce
<1>5. ASSUME NEW a \in Accounts, NEW n \in MinerMinimums, SetMinerMinimum(a, n)
      PROVE BlockInv'
  BY <1>5 DEF SetMinerMinimum, Outside, control, classification, WorkIsPending,
              ClassifiesFirst, CreditedOnce
<1>6. CASE StartCycle
  BY <1>6, BlocksPaid DEF StartCycle, tables, classification, history
<1>7. CASE PoolFails
  BY <1>7, BlocksLeftBehind DEF PoolFails, tables
<1>8. CASE Crash
  BY <1>8, BlocksLeftBehind DEF Crash, tables
<1>9. ASSUME NEW p \in Pools, GetDistinctPendingBlocksForPool(p) PROVE BlockInv'
  BY <1>9 DEF GetDistinctPendingBlocksForPool, DistinctPending, PendingOf, tables, history,
              WorkIsPending, ClassifiesFirst, CreditedOnce
<1>10. CASE GetLatestBlock
  BY <1>10 DEF GetLatestBlock, tables, history, WorkIsPending, ClassifiesFirst, CreditedOnce
<1>11. CASE NoLatestBlock
  BY <1>11 DEF NoLatestBlock, tables, WorkIsPending, ClassifiesFirst, CreditedOnce
<1>12. CASE ClassifyPage
  BY <1>12 DEF ClassifyPage, tables, history, WorkIsPending, ClassifiesFirst, CreditedOnce
<1>13. ASSUME NEW b \in Blocks, StoreBlock(b) PROVE BlockInv'
  <2>1. CreditedOnce'
    BY <1>13, StoreBlockEffect DEF CreditedOnce, TypeInv, TypeOK, TablesOK, HandlerOK, HistoryOK
  <2>2. CASE LeavePool
    BY <2>1, <2>2 DEF LeavePool, WorkIsPending, ClassifiesFirst
  <2>3. CASE updated' = updated \ {b} /\ UNCHANGED <<pc, pending>>
    <3>1. pending' = {} /\ ClassifiesFirst'
      BY <1>13, <2>3 DEF StoreBlock, ClassifiesFirst
    <3>2. WorkIsPending'
      BY <1>13, <2>3, <3>1, StoreBlockEffect
      DEF WorkIsPending, TypeInv, TypeOK, TablesOK, HandlerOK
    <3> QED
      BY <2>1, <3>1, <3>2
  <2> QED
    BY <1>13, <2>2, <2>3 DEF StoreBlock
<1>14. CASE GetPoolBalancesOverThreshold
  BY <1>14, BlocksPaid DEF GetPoolBalancesOverThreshold, tables, classification, history
<1>15. ASSUME NEW a \in Accounts, SkipMiner(a) PROVE BlockInv'
  BY <1>15, BlocksPaid DEF SkipMiner, NextBalance, tables, classification, history
<1>16. ASSUME NEW a \in Accounts, SendTransaction(a) PROVE BlockInv'
  BY <1>16, BlocksPaid DEF SendTransaction, MaySend, tables, classification, history
<1>17. ASSUME NEW a \in Accounts, SendFails(a) PROVE BlockInv'
  BY <1>17, BlocksPaid DEF SendFails, MaySend, NextBalance, tables, classification
<1>18. CASE PersistPayment
  BY <1>18, BlocksPaid DEF PersistPayment, BookPayment, NextBalance, classification
<1>19. CASE RetryPersist
  BY <1>19, BlocksPaid DEF RetryPersist, BookPayment, tables, control, classification
<1>20. CASE GiveUpPersist
  BY <1>20, BlocksPaid DEF GiveUpPersist, BookPayment, NextBalance, tables, classification
<1>21. CASE UNCHANGED vars
  BY <1>21 DEF vars, tables, control, classification, history, WorkIsPending,
               ClassifiesFirst, CreditedOnce
<1> QED
  BY <1>1, <1>2, <1>3, <1>4, <1>5, <1>6, <1>7, <1>8, <1>9, <1>10, <1>11, <1>12, <1>13,
     <1>14, <1>15, <1>16, <1>17, <1>18, <1>19, <1>20, <1>21
  DEF Next, ProcessPools, Failure, Environment

LEMMA BlockInvariant ==
  ASSUME DistinctHeights
  PROVE  Spec => [](TypeInv /\ MoneyInv /\ BlockInv)
<1>1. Init => BlockInv
  BY InitBlockInv
<1>2. TypeInv /\ BlockInv /\ [Next]_vars => BlockInv'
  BY NextBlockInv
<1> QED
  BY <1>1, <1>2, MoneyInvariant, PTL DEF Spec

(***************************************************************************)
(* The reward of a block is distributed exactly once, when its row becomes *)
(* confirmed: DistributeReward and UpdateBlockAsync share a transaction,   *)
(* and no cycle stores a row that is not pending any more.                 *)
(***************************************************************************)
THEOREM RewardsAreCreditedOnce ==
  ASSUME DistinctHeights
  PROVE  Spec => []CreditedOnce
<1>1. BlockInv => CreditedOnce
  BY DEF BlockInv
<1> QED
  BY <1>1, BlockInvariant, PTL

(***************************************************************************)
(* Only two actions change a row: a found block turns an absent row into a *)
(* pending one, and StoreBlock turns a pending row into its verdict.  The  *)
(* latter alone adds to what the journal says was earned.                  *)
(***************************************************************************)
LEMMA RowChanges ==
  ASSUME DistinctHeights, TypeInv, BlockInv, Next
  PROVE  \/ UNCHANGED <<blocks, earned>>
         \/ \E b \in Blocks : BlockFound(b)
         \/ \E b \in Blocks : StoreBlock(b)
<1>1. (\/ StartCycle \/ GetLatestBlock \/ ClassifyPage \/ GetPoolBalancesOverThreshold
       \/ PersistPayment \/ \E p \in Pools : GetDistinctPendingBlocksForPool(p)
       \/ \E a \in Accounts : SkipMiner(a) \/ SendTransaction(a)) => UNCHANGED <<blocks, earned>>
  BY DEF StartCycle, GetLatestBlock, ClassifyPage, GetPoolBalancesOverThreshold,
         PersistPayment, BookPayment, GetDistinctPendingBlocksForPool, SkipMiner,
         SendTransaction, tables
<1>2. Failure => UNCHANGED <<blocks, earned>>
  BY DEF Failure, PoolFails, Crash, NoLatestBlock, RetryPersist, GiveUpPersist, BookPayment,
         SendFails, tables
<1>3. Environment => UNCHANGED <<blocks, earned>> \/ \E b \in Blocks : BlockFound(b)
  BY DEF Environment, GrowChain, Reorganise, AddMinerBalance, SetMinerMinimum, Outside,
         tables
<1> QED
  BY <1>1, <1>2, <1>3 DEF Next, ProcessPools

LEMMA RowsKeepStatus ==
  ASSUME DistinctHeights, TypeInv, BlockInv, [Next]_vars
  PROVE  \A b \in Blocks : blocks[b] \in {"confirmed", "orphaned"} => blocks'[b] = blocks[b]
<1>1. CASE UNCHANGED blocks
  BY <1>1
<1>2. ASSUME NEW b \in Blocks, BlockFound(b)
      PROVE  \A c \in Blocks : blocks[c] \in {"confirmed", "orphaned"} => blocks'[c] = blocks[c]
  BY <1>2 DEF BlockFound
<1>3. ASSUME NEW b \in Blocks, StoreBlock(b)
      PROVE  \A c \in Blocks : blocks[c] \in {"confirmed", "orphaned"} => blocks'[c] = blocks[c]
  BY <1>3, StoreBlockEffect DEF TypeInv, TypeOK, TablesOK
<1>4. CASE UNCHANGED vars
  BY <1>1, <1>4 DEF vars, tables
<1>5. CASE Next
  BY <1>1, <1>2, <1>3, <1>5, RowChanges
<1> QED
  BY <1>4, <1>5

(***************************************************************************)
(* The journal says of every account that it earned the rewards of the     *)
(* confirmed blocks.  These are finitely many, for a step confirms one     *)
(* block at most, and so they have a sum.                                  *)
(***************************************************************************)
Confirmed == {b \in Blocks : blocks[b] = "confirmed"}

EarnedInv == IsFiniteSet(Confirmed) /\ EarnedFromConfirmed

Gain(a) == [b \in Blocks |-> Reward[b][a]]

LEMMA InitEarnedInv == Init => EarnedInv
<1> SUFFICES ASSUME Init
             PROVE  EarnedInv
  OBVIOUS
<1>1. Confirmed = {}
  BY DEF Init, Confirmed
<1>2. ASSUME NEW a \in Accounts
      PROVE  earned[a] = Total(Gain(a), Confirmed)
  BY <1>1, TotalStep DEF Init, Nothing
<1> QED
  BY <1>1, <1>2, FS_EmptySet DEF EarnedInv, EarnedFromConfirmed, Confirmed, Gain

LEMMA NextEarnedInv ==
  ASSUME DistinctHeights, TypeInv, BlockInv, EarnedInv, [Next]_vars
  PROVE  EarnedInv'
<1> USE DEF EarnedInv
<1>1. ASSUME UNCHANGED <<Confirmed, earned>>
      PROVE  EarnedInv'
  BY <1>1 DEF EarnedFromConfirmed, Confirmed
<1>2. CASE UNCHANGED <<blocks, earned>>
  BY <1>1, <1>2 DEF Confirmed
<1>3. ASSUME NEW b \in Blocks, BlockFound(b)
      PROVE  EarnedInv'
  BY <1>1, <1>3 DEF BlockFound, ledger, Confirmed, TypeInv, TypeOK, TablesOK
<1>4. ASSUME NEW b \in Blocks, StoreBlock(b)
      PROVE  EarnedInv'
  <2>1. blocks[b] = "pending" /\ blocks' = [blocks EXCEPT ![b] = verdict[b]]
    BY <1>4, StoreBlockEffect
  <2>2. CASE verdict[b] # "confirmed"
    <3>1. UNCHANGED earned
      BY <1>4, <2>2 DEF StoreBlock
    <3>2. UNCHANGED Confirmed
      BY <2>1, <2>2 DEF Confirmed, TypeInv, TypeOK, TablesOK
    <3> QED
      BY <1>1, <3>1, <3>2
  <2>3. CASE verdict[b] = "confirmed"
    <3>1. b \notin Confirmed /\ Confirmed' = Confirmed \cup {b}
      BY <2>1, <2>3 DEF Confirmed, TypeInv, TypeOK, TablesOK
    <3>2. IsFiniteSet(Confirmed')
      BY <3>1, FS_AddElement
    <3>3. ASSUME NEW a \in Accounts
          PROVE  earned'[a] = Total(Gain(a), Confirmed')
      <4>1. earned'[a] = earned[a] + Reward[b][a]
        BY <1>4, <2>3 DEF StoreBlock, DistributeReward
      <4>2. earned[a] = Total(Gain(a), Confirmed)
        BY DEF EarnedFromConfirmed, Confirmed, Gain
      <4>3. Gain(a)[b] = Reward[b][a] /\ \A c \in Blocks : Gain(a)[c] \in Int
        BY PayoutAssumption DEF Gain
      <4>4. Total(Gain(a), Confirmed \cup {b}) = Total(Gain(a), Confirmed) + Gain(a)[b]
        BY <3>1, <4>3, TotalAdd DEF Confirmed
      <4> QED
        BY <3>1, <4>1, <4>2, <4>3, <4>4
    <3> QED
      BY <3>2, <3>3 DEF EarnedFromConfirmed, Confirmed, Gain
  <2> QED
    BY <2>2, <2>3
<1>5. CASE UNCHANGED vars
  BY <1>2, <1>5 DEF vars, tables
<1>6. CASE Next
  BY <1>2, <1>3, <1>4, <1>6, RowChanges
<1> QED
  BY <1>5, <1>6

(***************************************************************************)
(* What the journal says an account earned is the sum of its rewards over  *)
(* the confirmed blocks.                                                   *)
(***************************************************************************)
THEOREM EarnsConfirmedRewards ==
  ASSUME DistinctHeights
  PROVE  Spec => []EarnedFromConfirmed
<1>1. Init => EarnedInv
  BY InitEarnedInv
<1>2. TypeInv /\ BlockInv /\ EarnedInv /\ [Next]_vars => EarnedInv'
  BY NextEarnedInv
<1>3. EarnedInv => EarnedFromConfirmed
  BY DEF EarnedInv
<1> QED
  BY <1>1, <1>2, <1>3, BlockInvariant, PTL DEF Spec

(***************************************************************************)
(* A confirmed or orphaned block never changes again.                      *)
(***************************************************************************)
THEOREM StatusesAreFinal ==
  ASSUME DistinctHeights
  PROVE  Spec => StatusIsFinal
<1>1. TypeInv /\ BlockInv /\ [Next]_vars
        => [\A b \in Blocks :
              blocks[b] \in {"confirmed", "orphaned"} => blocks'[b] = blocks[b]]_vars
  BY RowsKeepStatus
<1> QED
  BY <1>1, BlockInvariant, PTL DEF Spec, StatusIsFinal

-----------------------------------------------------------------------------
(***************************************************************************)
(* Verdicts outlast reorganisations if the answering daemon is never       *)
(* behind, a mature block is no longer reorganised, and a block is only    *)
(* written off once it is no longer reorganised either: Lost needs more    *)
(* than three quarters of MinConfirmations.                                *)
(***************************************************************************)
DeepEnough ==
  /\ MaxLag = 0
  /\ FinalDepth <= MinConfirmations
  /\ 4 * (FinalDepth - 1) <= 3 * MinConfirmations

(* status s is right for block b, and the chain can not change that *)
Settled(b, s) ==
  /\ s = "confirmed" => ours[b] /\ Depth(b) >= MinConfirmations
  /\ s = "orphaned" => ~ours[b] /\ Depth(b) >= FinalDepth

VerdictInv ==
  /\ \A b \in Blocks : Settled(b, blocks[b])
  /\ \A b \in updated : Settled(b, verdict[b])
  /\ \A b \in Blocks : blocks[b] # "absent" => Depth(b) >= 0
  /\ \A b \in pending : BlockPool[b] = pool
  /\ pc = "fetch" => /\ latest <= height[pool]
                     /\ \A b \in pending : BlockHeight[b] <= latest

view == <<blocks, height, ours, pool, pending, updated, verdict>>

LEMMA DepthTyped ==
  ASSUME TypeInv, NEW b \in Blocks
  PROVE  BlockPool[b] \in Pools /\ BlockHeight[b] \in Nat /\ Depth(b) \in Int
  BY PayoutAssumption DEF TypeInv, TypeOK, ChainOK, Depth

LEMMA InitVerdictInv == Init => VerdictInv
  BY DEF Init, VerdictInv, Settled

LEMMA VerdictsUntouched ==
  ASSUME VerdictInv, UNCHANGED view, pc' = "fetch" => pc = "fetch" /\ latest' = latest
  PROVE  VerdictInv'
  BY DEF view, VerdictInv, Settled, Depth

LEMMA VerdictsLeftBehind ==
  ASSUME VerdictInv, LeavePool, UNCHANGED <<blocks, height, ours>>
  PROVE  VerdictInv'
  BY DEF VerdictInv, Settled, Depth, LeavePool

(* a classified block is settled *)
LEMMA ClassifySettles ==
  ASSUME DeepEnough, TypeInv, BlockInv, VerdictInv, pc = "fetch", NEW b \in pending
  PROVE  Settled(b, Classify(b))
<1>1. BlockHeight[b] <= latest /\ latest - BlockHeight[b] <= Depth(b)
  BY DepthTyped DEF VerdictInv, Depth, TypeInv, TypeOK, ChainOK, CycleOK, HandlerOK
<1>2. Mature(b) => Depth(b) >= MinConfirmations
  BY <1>1, DepthTyped, PayoutAssumption DEF Mature, Wraps, TypeInv, TypeOK, HandlerOK
<1>3. Lost(b) => Depth(b) >= FinalDepth
  BY <1>1, DepthTyped, PayoutAssumption
  DEF Lost, Wraps, DeepEnough, TypeInv, TypeOK, HandlerOK
<1> QED
  BY <1>2, <1>3 DEF Settled, Classify

LEMMA NextVerdictInv ==
  ASSUME DistinctHeights, DeepEnough, TypeInv, BlockInv, VerdictInv, [Next]_vars
  PROVE  VerdictInv'
<1> USE DEF view
<1>1. ASSUME NEW p \in Pools, GrowChain(p) PROVE VerdictInv'
  <2>1. \A b \in Blocks : Depth(b)' >= Depth(b) /\ Depth(b)' \in Int
    BY <1>1, DepthTyped, PayoutAssumption DEF GrowChain, Depth, TypeInv, TypeOK, ChainOK
  <2>2. height'[pool] >= height[pool] /\ height'[pool] \in Int
    BY <1>1 DEF GrowChain, TypeInv, TypeOK, ChainOK, CycleOK
  <2>3. /\ UNCHANGED <<blocks, ours, pc, pool, pending, latest, updated, verdict>>
        /\ updated \subseteq Blocks /\ latest \in Int /\ height[pool] \in Int
    BY <1>1 DEF GrowChain, tables, control, classification, TypeInv, TypeOK, ChainOK, CycleOK,
                HandlerOK
  <2> QED
    BY <2>1, <2>2, <2>3, DepthTyped, PayoutAssumption DEF VerdictInv, Settled
<1>2. ASSUME NEW b \in Blocks, Reorganise(b) PROVE VerdictInv'
  <2>1. \A c \in Blocks : Depth(c)' = Depth(c)
    BY <1>2 DEF Reorganise, Depth
  <2>2. ASSUME NEW c \in Blocks, SameBlock(b, c) PROVE Depth(c) < FinalDepth
    BY <1>2, <2>2, DepthTyped, PayoutAssumption DEF Reorganise, SameBlock, Depth
  <2>3. \A c \in Blocks : Depth(c) >= FinalDepth => ours'[c] = ours[c]
    BY <1>2, <2>2, DepthTyped, PayoutAssumption DEF Reorganise
  <2>4. ASSUME NEW c \in Blocks, NEW s, Settled(c, s)
        PROVE  /\ s = "confirmed" => ours'[c] /\ Depth(c)' >= MinConfirmations
               /\ s = "orphaned" => ~ours'[c] /\ Depth(c)' >= FinalDepth
    BY <2>1, <2>3, <2>4, DepthTyped, PayoutAssumption DEF Settled, DeepEnough
  <2>5. /\ UNCHANGED <<blocks, height, pc, pool, pending, latest, updated, verdict>>
        /\ updated \subseteq Blocks
    BY <1>2 DEF Reorganise, tables, control, classification, TypeInv, TypeOK, HandlerOK
  <2>6. /\ \A c \in Blocks : Settled(c, blocks[c])'
        /\ \A c \in updated' : Settled(c, verdict[c])'
    BY <2>4, <2>5 DEF VerdictInv, Settled
  <2> QED
    BY <2>1, <2>5, <2>6 DEF VerdictInv
<1>3. ASSUME NEW b \in Blocks, BlockFound(b) PROVE VerdictInv'
  <2>1. /\ blocks'[b] = "pending" /\ Depth(b) >= 0
        /\ \A c \in Blocks \ {b} : blocks'[c] = blocks[c]
    BY <1>3 DEF BlockFound, TypeInv, TypeOK, TablesOK
  <2>2. UNCHANGED <<height, ours, pc, pool, pending, latest, updated, verdict>>
    BY <1>3 DEF BlockFound, chain, control, classification
  <2> QED
    BY <2>1, <2>2 DEF VerdictInv, Settled, Depth
<1>4. ASSUME NEW a \in Accounts, NEW n \in AdminAmounts, AddMinerBalance(a, n)
      PROVE VerdictInv'
  BY <1>4, VerdictsUntouched DEF AddMinerBalance, Outside, chain, control, classification
<1>5. ASSUME NEW a \in Accounts, NEW n \in MinerMinimums, SetMinerMinimum(a, n)
      PROVE VerdictInv'
  BY <1>5, VerdictsUntouched DEF SetMinerMinimum, Outside, chain, control, classification
<1>6. CASE StartCycle
  BY <1>6, VerdictsUntouched DEF StartCycle, tables, chain, classification
<1>7. CASE PoolFails
  BY <1>7, VerdictsLeftBehind DEF PoolFails, tables, chain
<1>8. CASE Crash
  BY <1>8, VerdictsLeftBehind DEF Crash, tables, chain
<1>9. ASSUME NEW p \in Pools, GetDistinctPendingBlocksForPool(p) PROVE VerdictInv'
  <2>1. pool' = p /\ pc' # "fetch" /\ \A b \in pending' : BlockPool[b] = p
    BY <1>9 DEF GetDistinctPendingBlocksForPool, DistinctPending, PendingOf
  <2> QED
    BY <1>9, <2>1
    DEF GetDistinctPendingBlocksForPool, tables, chain, VerdictInv, Settled, Depth
<1>10. CASE GetLatestBlock
  <2>1. latest' = height[pool]
    BY <1>10 DEF GetLatestBlock, DeepEnough, TypeInv, TypeOK, ChainOK, CycleOK
  <2>2. ASSUME NEW b \in pending PROVE BlockHeight[b] <= latest'
    <3>1. b \in Blocks /\ Depth(b) >= 0 /\ BlockPool[b] = pool
      BY DEF VerdictInv, BlockInv, WorkIsPending, TypeInv, TypeOK, HandlerOK
    <3> QED
      BY <2>1, <3>1, DepthTyped DEF Depth, TypeInv, TypeOK, ChainOK, CycleOK
  <2>3. UNCHANGED view /\ latest' <= height[pool]
    BY <1>10, <2>1 DEF GetLatestBlock, tables, chain, TypeInv, TypeOK, ChainOK, CycleOK
  <2> QED
    BY <2>2, <2>3 DEF VerdictInv, Settled, Depth
<1>11. CASE NoLatestBlock
  BY <1>11 DEF NoLatestBlock, tables, chain, VerdictInv, Settled, Depth
<1>12. CASE ClassifyPage
  <2>1. PICK page \in SUBSET pending :
          /\ verdict' = [b \in Blocks |-> IF b \in page THEN Classify(b) ELSE verdict[b]]
          /\ updated' = updated \cup page
          /\ pending' = pending \ page
    BY <1>12 DEF ClassifyPage
  <2>2. ASSUME NEW b \in updated' PROVE b \in Blocks /\ Settled(b, verdict'[b])
    <3>1. b \in Blocks
      BY <2>1 DEF TypeInv, TypeOK, HandlerOK
    <3>2. CASE b \in page
      BY <1>12, <2>1, <3>1, <3>2, ClassifySettles DEF ClassifyPage
    <3>3. CASE b \notin page
      BY <2>1, <3>1, <3>3 DEF VerdictInv
    <3> QED
      BY <3>1, <3>2, <3>3
  <2>3. UNCHANGED <<blocks, height, ours, pool>> /\ pc' # "fetch"
    BY <1>12 DEF ClassifyPage, tables, chain
  <2> QED
    BY <2>1, <2>2, <2>3 DEF VerdictInv, Settled, Depth
<1>13. ASSUME NEW b \in Blocks, StoreBlock(b) PROVE VerdictInv'
  <2>1. \A c \in Blocks : /\ Settled(c, blocks'[c])
                          /\ blocks'[c] # "absent" => Depth(c) >= 0
    BY <1>13, StoreBlockEffect DEF StoreBlock, VerdictInv, TypeInv, TypeOK, TablesOK
  <2>2. UNCHANGED <<height, ours, pool>>
    BY <1>13 DEF StoreBlock, chain
  <2>3. CASE LeavePool
    BY <2>1, <2>2, <2>3 DEF LeavePool, VerdictInv, Settled, Depth
  <2>4. CASE /\ updated' = updated \ {b}
             /\ verdict' = [verdict EXCEPT ![b] = "pending"]
             /\ UNCHANGED <<pc, pending>>
    <3>1. \A c \in updated' : Settled(c, verdict'[c])
      BY <2>4 DEF VerdictInv, TypeInv, TypeOK, HandlerOK
    <3>2. pc' # "fetch"
      BY <1>13, <2>4 DEF StoreBlock
    <3> QED
      BY <2>1, <2>2, <2>4, <3>1, <3>2 DEF VerdictInv, Settled, Depth
  <2> QED
    BY <1>13, <2>3, <2>4 DEF StoreBlock
<1>14. CASE GetPoolBalancesOverThreshold
  BY <1>14, VerdictsUntouched DEF GetPoolBalancesOverThreshold, tables, chain, classification
<1>15. ASSUME NEW a \in Accounts, SkipMiner(a) PROVE VerdictInv'
  BY <1>15, VerdictsUntouched DEF SkipMiner, NextBalance, tables, chain, classification
<1>16. ASSUME NEW a \in Accounts, SendTransaction(a) PROVE VerdictInv'
  BY <1>16, VerdictsUntouched DEF SendTransaction, tables, classification
<1>17. ASSUME NEW a \in Accounts, SendFails(a) PROVE VerdictInv'
  BY <1>17, VerdictsUntouched DEF SendFails, NextBalance, tables, classification
<1>18. CASE PersistPayment
  BY <1>18, VerdictsUntouched DEF PersistPayment, BookPayment, NextBalance, chain, classification
<1>19. CASE RetryPersist
  BY <1>19, VerdictsUntouched
  DEF RetryPersist, BookPayment, tables, chain, control, classification
<1>20. CASE GiveUpPersist
  BY <1>20, VerdictsUntouched
  DEF GiveUpPersist, BookPayment, NextBalance, tables, chain, classification
<1>21. CASE UNCHANGED vars
  BY <1>21, VerdictsUntouched DEF vars, tables, chain, control, classification
<1> QED
  BY <1>1, <1>2, <1>3, <1>4, <1>5, <1>6, <1>7, <1>8, <1>9, <1>10, <1>11, <1>12, <1>13,
     <1>14, <1>15, <1>16, <1>17, <1>18, <1>19, <1>20, <1>21
  DEF Next, ProcessPools, Failure, Environment

(***************************************************************************)
(* What ClassifyBlocksAsync decides stays right: a credited block stays    *)
(* the pool's and mature, and a written-off one stays lost.                *)
(***************************************************************************)
THEOREM VerdictsStayRight ==
  ASSUME DistinctHeights, DeepEnough
  PROVE  Spec => []VerdictsAreFinal
<1>1. Init => VerdictInv
  BY InitVerdictInv
<1>2. TypeInv /\ BlockInv /\ VerdictInv /\ [Next]_vars => VerdictInv'
  BY NextVerdictInv
<1>3. VerdictInv => VerdictsAreFinal
  BY DEF VerdictInv, Settled, VerdictsAreFinal
<1> QED
  BY <1>1, <1>2, <1>3, BlockInvariant, PTL DEF Spec

-----------------------------------------------------------------------------
(***************************************************************************)
(* Payout implements PayoutLedger, for every value of the constants with   *)
(* which the heights of the table's rows differ.                           *)
(***************************************************************************)
LEMMA InitLedger == Init => Ledger!Init
  BY DEF Init, Ledger!Init, Nothing

(* money and blocks as the ledger sees them stand still *)
Unseen == <<blocks, earned, added, sent, unbooked>>

LEMMA Stutters == ASSUME UNCHANGED Unseen PROVE UNCHANGED Ledger!vars
  BY DEF Unseen, Ledger!vars

(* what is sent is covered: the ledger's guard, in terms of Payout's state *)
LEMMA DueIsCovered ==
  ASSUME TypeInv, MoneyInv, NEW a \in Accounts, pc = "pay"
  PROVE  due[a] \in 0 .. Ledger!Covered(a)
  BY DEF Ledger!Covered, TypeInv, TypeOK, TablesOK, ChainOK, HandlerOK, HistoryOK, MoneyInv,
         Journal, TransfersBooked, Covers, Settling, InFlight, BookedInBook

(* what bookkeeping loses was sent and not lost before *)
LEMMA ForgottenWasSent ==
  ASSUME TypeInv, MoneyInv, pc = "book", ~booked
  PROVE  payee \in Accounts /\ due[payee] \in 0 .. sent[payee] - unbooked[payee]
  BY DEF TypeInv, TypeOK, TablesOK, ChainOK, HandlerOK, HistoryOK, PayeeOK, MoneyInv,
         TransfersBooked, Covers, Settling, InFlight

LEMMA Forgets ==
  ASSUME TypeInv, MoneyInv, pc = "book", ~booked,
         unbooked' = [unbooked EXCEPT ![payee] = @ + due[payee]],
         UNCHANGED <<blocks, earned, added, sent>>
  PROVE  Ledger!Next
<1>1. Ledger!Forget(payee, due[payee])
  BY DEF Ledger!Forget
<1> QED
  BY <1>1, ForgottenWasSent DEF Ledger!Next

LEMMA NextLedger ==
  ASSUME DistinctHeights, TypeInv, MoneyInv, BlockInv, [Next]_vars
  PROVE  [Ledger!Next]_Ledger!vars
<1> DEFINE Ok == Ledger!Next \/ UNCHANGED Ledger!vars
<1> USE DEF Unseen
<1>1. ASSUME NEW p \in Pools, GrowChain(p) PROVE Ok
  BY <1>1, Stutters DEF GrowChain, tables, history
<1>2. ASSUME NEW b \in Blocks, Reorganise(b) PROVE Ok
  BY <1>2, Stutters DEF Reorganise, tables, history
<1>3. ASSUME NEW b \in Blocks, BlockFound(b) PROVE Ok
  <2>1. {c \in Blocks : blocks'[c] = "confirmed"} = {c \in Blocks : blocks[c] = "confirmed"}
    BY <1>3 DEF BlockFound, TypeInv, TypeOK, TablesOK
  <2> QED
    BY <1>3, <2>1 DEF BlockFound, ledger, chain, history, Ledger!vars
<1>4. ASSUME NEW a \in Accounts, NEW n \in AdminAmounts, AddMinerBalance(a, n) PROVE Ok
  <2>1. n \in Int
    BY PayoutAssumption
  <2>2. CASE n > 0
    <3>1. /\ earned' = earned
          /\ added' = [added EXCEPT ![a] = @ + n]
      BY <1>4, <2>2 DEF AddMinerBalance, Outside
    <3>2. \A c \in Accounts : earned'[c] + added'[c]
                                = IF c = a THEN earned[c] + added[c] + n ELSE earned[c] + added[c]
      BY <2>1, <2>2, <3>1 DEF TypeInv, TypeOK, TablesOK
    <3>3. [c \in Accounts |-> earned'[c] + added'[c]]
            = [[c \in Accounts |-> earned[c] + added[c]] EXCEPT ![a] = @ + n]
      BY <3>2
    <3>4. Ledger!Donate(a, n)
      BY <1>4, <3>3 DEF AddMinerBalance, Outside, chain, Ledger!Donate
    <3> QED
      BY <2>2, <3>4 DEF Ledger!Next
  <2>3. CASE ~(n > 0)
    BY <1>4, <2>3, Stutters
    DEF AddMinerBalance, Outside, chain, TypeInv, TypeOK, TablesOK
  <2> QED
    BY <2>2, <2>3
<1>5. ASSUME NEW a \in Accounts, NEW n \in MinerMinimums, SetMinerMinimum(a, n) PROVE Ok
  BY <1>5, Stutters DEF SetMinerMinimum, Outside, chain
<1>6. CASE StartCycle
  BY <1>6, Stutters DEF StartCycle, tables, chain, history
<1>7. CASE PoolFails
  BY <1>7, Stutters DEF PoolFails, tables, chain
<1>8. CASE Crash
  <2>1. CASE pc = "book" /\ ~booked
    BY <1>8, <2>1, Forgets DEF Crash, tables, chain
  <2>2. CASE ~(pc = "book" /\ ~booked)
    BY <1>8, <2>2, Stutters DEF Crash, tables, chain
  <2> QED
    BY <2>1, <2>2
<1>9. ASSUME NEW p \in Pools, GetDistinctPendingBlocksForPool(p) PROVE Ok
  BY <1>9, Stutters DEF GetDistinctPendingBlocksForPool, tables, chain, history
<1>10. CASE GetLatestBlock
  BY <1>10, Stutters DEF GetLatestBlock, tables, chain, history
<1>11. CASE NoLatestBlock
  BY <1>11, Stutters DEF NoLatestBlock, tables, chain
<1>12. CASE ClassifyPage
  BY <1>12, Stutters DEF ClassifyPage, tables, chain, history
<1>13. ASSUME NEW b \in Blocks, StoreBlock(b) PROVE Ok
  <2>1. /\ blocks[b] = "pending"
        /\ blocks' = [blocks EXCEPT ![b] = verdict[b]]
        /\ UNCHANGED <<added, sent, unbooked>>
    BY <1>13, StoreBlockEffect DEF StoreBlock, chain
  <2>2. CASE verdict[b] = "confirmed"
    <3>1. {c \in Blocks : blocks'[c] = "confirmed"}
            = {c \in Blocks : blocks[c] = "confirmed"} \cup {b}
      BY <2>1, <2>2 DEF TypeInv, TypeOK, TablesOK
    <3>2. \A a \in Accounts : Reward[b][a] \in Nat
      BY PayoutAssumption
    <3>3. [a \in Accounts |-> earned'[a] + added'[a]]
            = [a \in Accounts |-> [c \in Accounts |-> earned[c] + added[c]][a] + Reward[b][a]]
      BY <1>13, <2>1, <2>2, <3>2 DEF StoreBlock, DistributeReward, TypeInv, TypeOK, TablesOK
    <3>4. Ledger!Credit(b)
      BY <2>1, <3>1, <3>3 DEF Ledger!Credit
    <3> QED
      BY <3>4 DEF Ledger!Next
  <2>3. CASE verdict[b] # "confirmed"
    <3>1. {c \in Blocks : blocks'[c] = "confirmed"} = {c \in Blocks : blocks[c] = "confirmed"}
      BY <2>1, <2>3 DEF TypeInv, TypeOK, TablesOK
    <3> QED
      BY <1>13, <2>1, <2>3, <3>1 DEF StoreBlock, Ledger!vars
  <2> QED
    BY <2>2, <2>3
<1>14. CASE GetPoolBalancesOverThreshold
  BY <1>14, Stutters DEF GetPoolBalancesOverThreshold, tables, chain, history
<1>15. ASSUME NEW a \in Accounts, SkipMiner(a) PROVE Ok
  BY <1>15, Stutters DEF SkipMiner, tables, chain, history
<1>16. ASSUME NEW a \in Accounts, SendTransaction(a) PROVE Ok
  <2>1. Ledger!Transfer(a, due[a])
    BY <1>16 DEF SendTransaction, tables, history, Ledger!Transfer
  <2> QED
    BY <1>16, <2>1, DueIsCovered DEF SendTransaction, MaySend, Ledger!Next
<1>17. ASSUME NEW a \in Accounts, SendFails(a) PROVE Ok
  <2>1. CASE UNCHANGED <<sent, unbooked>>
    BY <1>17, <2>1, Stutters DEF SendFails, tables
  <2>2. CASE /\ sent' = [sent EXCEPT ![a] = @ + due[a]]
             /\ unbooked' = [unbooked EXCEPT ![a] = @ + due[a]]
    <3>1. Ledger!Transfer(a, due[a])
      BY <1>17, <2>2 DEF SendFails, tables, Ledger!Transfer
    <3> QED
      BY <1>17, <3>1, DueIsCovered DEF SendFails, MaySend, Ledger!Next
  <2> QED
    BY <1>17, <2>1, <2>2 DEF SendFails
<1>18. CASE PersistPayment
  BY <1>18, Stutters DEF PersistPayment, BookPayment, chain
<1>19. CASE RetryPersist
  BY <1>19, Stutters DEF RetryPersist, BookPayment, tables, chain
<1>20. CASE GiveUpPersist
  <2>1. CASE BookPayment /\ UNCHANGED unbooked
    BY <1>20, <2>1, Stutters DEF GiveUpPersist, BookPayment, chain
  <2>2. CASE /\ unbooked' = IF booked THEN unbooked
                            ELSE [unbooked EXCEPT ![payee] = @ + due[payee]]
             /\ UNCHANGED tables
    BY <1>20, <2>2, Stutters, Forgets DEF GiveUpPersist, tables, chain
  <2> QED
    BY <1>20, <2>1, <2>2 DEF GiveUpPersist
<1>21. CASE UNCHANGED vars
  BY <1>21, Stutters DEF vars, tables, chain, history
<1>22. Ok
  BY <1>1, <1>2, <1>3, <1>4, <1>5, <1>6, <1>7, <1>8, <1>9, <1>10, <1>11, <1>12, <1>13,
     <1>14, <1>15, <1>16, <1>17, <1>18, <1>19, <1>20, <1>21
  DEF Next, ProcessPools, Failure, Environment
<1> QED
  BY <1>22

(***************************************************************************)
(* The payment processor with its crashes, retries, snapshots and          *)
(* reorganisations implements the abstract ledger.                         *)
(***************************************************************************)
THEOREM ImplementsLedger ==
  ASSUME DistinctHeights
  PROVE  Spec => LedgerSpec
<1>1. Init => Ledger!Init
  BY InitLedger
<1>2. TypeInv /\ MoneyInv /\ BlockInv /\ [Next]_vars => [Ledger!Next]_Ledger!vars
  BY NextLedger
<1> QED
  BY <1>1, <1>2, BlockInvariant, PTL DEF Spec, LedgerSpec, Ledger!Spec

=============================================================================
