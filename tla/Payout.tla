------------------------------- MODULE Payout -------------------------------
(***************************************************************************)
(* The payment processor of a cluster: PayoutManager's cycle over the      *)
(* pools, the classification of pending blocks and the transfers of        *)
(* AionPayoutHandler, PayoutHandlerBase's bookkeeping, and the tables      *)
(* blocks, balances, balance_changes and payments they share with the      *)
(* share recorder and the admin API.                                       *)
(*                                                                         *)
(* A database transaction is one step.  It may commit, roll back, or       *)
(* commit without the caller learning of it.  A transfer may reach the     *)
(* chain although its reply does not reach the pool.  The process may      *)
(* crash between any two steps and starts over from the database.          *)
(***************************************************************************)
EXTENDS Integers, FiniteSets, Sums

CONSTANTS
  Pools,           \* pools with payment processing enabled
  Blocks,          \* rows of the table blocks, numbered in the order of "created"
  BlockPool,       \* BlockPool[b]: poolid of row b
  BlockHeight,     \* BlockHeight[b]: blockheight of row b
  Accounts,        \* rows of the table balances
  AccountPool,     \* AccountPool[a]: poolid of row a
  Recipients,      \* accounts whose address is a configured reward recipient
  Reward,          \* Reward[b][a]: what the reward recipients and the payout
                   \*   scheme give account a for block b
  MinPayment,      \* MinimumPayment of the pools
  MinerMinimums,   \* minimum payments miners choose; 0 stands for no choice
  AdminAmounts,    \* amounts of the admin API's addbalance
  MinConfirmations,\* MinimumConfirmations of the pools
  FinalDepth,      \* blocks this deep are no longer reorganised
  PageSize,        \* pending blocks classified per request
  RetryCount,      \* retries of the bookkeeping transaction
  None,            \* no account
  MaxLag,          \* how far the answering daemon may be behind the chain
  MaxHeight,       \* bound: height at which the chain stops growing
  MaxFaults,       \* bound: failures and crashes
  MaxOutside       \* bound: admin changes and changes of a miner's minimum

ASSUME PayoutAssumption ==
  /\ Blocks \subseteq Nat
  /\ BlockPool \in [Blocks -> Pools]
  /\ BlockHeight \in [Blocks -> Nat]
  /\ AccountPool \in [Accounts -> Pools]
  /\ Recipients \subseteq Accounts
  /\ Reward \in [Blocks -> [Accounts -> Nat]]
  /\ MinPayment \in Nat \ {0} /\ MinConfirmations \in Nat \ {0}
  /\ MinerMinimums \subseteq Nat /\ 0 \in MinerMinimums
  /\ AdminAmounts \subseteq Int
  /\ FinalDepth \in Nat
  /\ PageSize \in Nat \ {0}
  /\ RetryCount \in Nat
  /\ MaxLag \in Nat /\ MaxHeight \in Nat /\ MaxFaults \in Nat /\ MaxOutside \in Nat
  /\ None \notin Accounts

VARIABLES
  (* the database *)
  blocks,      \* blocks[b]: status of row b, "absent" until it is inserted
  balances,    \* balances[a]: column amount
  earned,      \* balance_changes by usage: "Reward for ..."
  added,       \*   corrections by the admin API in the account's favour
  deducted,    \*   corrections by the admin API at the account's expense
  settled,     \*   "Balance reset after payment"
  payments,    \* payments[a]: sum of the recorded payments
  minerInfo,   \* minerInfo[a]: minimum payment of the miner
  (* the chain *)
  height,      \* height[p]: head of the chain of pool p
  ours,        \* ours[b]: the chain's block at the height of b was mined by the pool
  sent,        \* sent[a]: sum of the transfers to a the chain accepted
  (* the payment processor *)
  pc,
  poolsLeft,   \* pools the running cycle has not come to
  pool,        \* the pool being processed
  pending,     \* pending blocks still to classify
  latest,      \* latest block height a daemon reported
  updated,     \* classified blocks still to store
  verdict,     \* verdict[b]: status the classification gave to b
  queue,       \* accounts still to pay
  due,         \* due[a]: balance of a when the balances were read
  payee,       \* account whose transfer is being booked
  retries,     \* retries the bookkeeping of that transfer has left
  booked,      \* an attempt at booking it was committed
  (* history *)
  credits,     \* credits[b]: how often the reward of b was distributed
  unbooked,    \* unbooked[a]: sent to a and never booked
  rebooked,    \* rebooked[a]: booked once more although sent once
  faults,      \* failures and crashes so far
  outside      \* outside changes so far

tables == <<blocks, balances, earned, added, deducted, settled, payments, minerInfo>>
ledger == <<balances, earned, added, deducted, settled, payments, minerInfo>>
chain == <<height, ours, sent>>
control == <<pc, poolsLeft, pool>>
classification == <<pending, latest, updated, verdict>>
batch == <<queue, due>>
booking == <<payee, retries, booked>>
history == <<credits, unbooked, rebooked, faults, outside>>
vars == <<tables, chain, control, classification, batch, booking, history>>

Statuses == {"pending", "confirmed", "orphaned"}
Locations == {"idle", "classify", "fetch", "update", "pay", "book"}

NoVerdict == [b \in Blocks |-> "pending"]
Nothing == [a \in Accounts |-> 0]

TablesOK ==
  /\ blocks \in [Blocks -> Statuses \cup {"absent"}]
  /\ balances \in [Accounts -> Int]
  /\ earned \in [Accounts -> Nat]
  /\ added \in [Accounts -> Nat]
  /\ deducted \in [Accounts -> Nat]
  /\ settled \in [Accounts -> Nat]
  /\ payments \in [Accounts -> Nat]
  /\ minerInfo \in [Accounts -> MinerMinimums]

ChainOK ==
  /\ height \in [Pools -> Nat]
  /\ ours \in [Blocks -> BOOLEAN]
  /\ sent \in [Accounts -> Nat]

CycleOK ==
  /\ poolsLeft \subseteq Pools
  /\ pool \in Pools

HandlerOK ==
  /\ pc \in Locations
  /\ pending \subseteq Blocks
  /\ latest \in Int
  /\ updated \subseteq Blocks
  /\ verdict \in [Blocks -> Statuses]
  /\ queue \subseteq Accounts
  /\ due \in [Accounts -> Nat]
  /\ payee \in Accounts \cup {None}
  /\ retries \in 0 .. RetryCount
  /\ booked \in BOOLEAN

HistoryOK ==
  /\ credits \in [Blocks -> Nat]
  /\ unbooked \in [Accounts -> Nat]
  /\ rebooked \in [Accounts -> Nat]
  /\ faults \in 0 .. MaxFaults
  /\ outside \in 0 .. MaxOutside

TypeOK == TablesOK /\ ChainOK /\ CycleOK /\ HandlerOK /\ HistoryOK

Init ==
  /\ blocks = [b \in Blocks |-> "absent"]
  /\ balances = Nothing
  /\ earned = Nothing /\ added = Nothing /\ deducted = Nothing /\ settled = Nothing
  /\ payments = Nothing
  /\ minerInfo = Nothing
  /\ height = [p \in Pools |-> 0]
  /\ ours = [b \in Blocks |-> TRUE]
  /\ sent = Nothing
  /\ pc = "idle"
  /\ poolsLeft = Pools
  /\ pool \in Pools
  /\ pending = {} /\ latest = 0 /\ updated = {} /\ verdict = NoVerdict
  /\ queue = {} /\ due = Nothing
  /\ payee = None /\ retries = RetryCount /\ booked = FALSE
  /\ credits = [b \in Blocks |-> 0]
  /\ unbooked = Nothing /\ rebooked = Nothing
  /\ faults = 0
  /\ outside = 0

(***************************************************************************)
(* Slips: how operators below could go wrong.  No specification uses them; *)
(* each refutes the property it is paired with.                            *)
(***************************************************************************)
KeepStatus(b) == blocks' = blocks

UpdateWholePool(b) ==
  blocks' = [c \in Blocks |-> IF BlockPool[c] = BlockPool[b] /\ blocks[c] # "absent"
                                THEN verdict[b] ELSE blocks[c]]

RewardMinersOnly(b) ==
  LET gain(a) == IF a \in Recipients THEN 0 ELSE Reward[b][a]
  IN /\ balances' = [a \in Accounts |-> balances[a] + gain(a)]
     /\ earned' = [a \in Accounts |-> earned[a] + gain(a)]
     /\ credits' = [credits EXCEPT ![b] = @ + 1]

RecordWithoutReset ==
  /\ settled' = [settled EXCEPT ![payee] = @ + due[payee]]
  /\ payments' = IF payee \in Recipients
                   THEN payments
                   ELSE [payments EXCEPT ![payee] = @ + due[payee]]
  /\ UNCHANGED <<blocks, balances, earned, added, deducted, minerInfo, rebooked>>

ResetToZero ==
  /\ balances' = [balances EXCEPT ![payee] = 0]
  /\ settled' = [settled EXCEPT ![payee] = @ + balances[payee]]
  /\ payments' = IF payee \in Recipients
                   THEN payments
                   ELSE [payments EXCEPT ![payee] = @ + due[payee]]
  /\ rebooked' = IF booked THEN [rebooked EXCEPT ![payee] = @ + due[payee]] ELSE rebooked
  /\ UNCHANGED <<blocks, earned, added, deducted, minerInfo>>

NotOrphanedOf(p) == {b \in Blocks : BlockPool[b] = p /\ blocks[b] \in {"pending", "confirmed"}}

AboveThreshold(p) == {a \in Accounts : AccountPool[a] = p /\ balances[a] > MinPayment}

LostHalfway(b) == 2 * (latest - BlockHeight[b]) >= MinConfirmations

LostPastOne(b) == FALSE  \* the progress is capped at 1

RetryOnceMore == retries >= 0

(***************************************************************************)
(* The environment: the chain, the share recorder, miners and the admin.   *)
(***************************************************************************)
GrowChain(p) ==
  /\ height[p] < MaxHeight
  /\ height' = [height EXCEPT ![p] = @ + 1]
  /\ UNCHANGED <<tables, ours, sent, control, classification, batch, booking, history>>

Depth(b) == height[BlockPool[b]] - BlockHeight[b]

SameBlock(b, c) == BlockPool[b] = BlockPool[c] /\ BlockHeight[b] = BlockHeight[c]

Reorganise(b) ==  \* the chain switches to, or away from, the pool's block
  /\ Depth(b) \in 0 .. FinalDepth - 1
  /\ ours' = [c \in Blocks |-> IF SameBlock(b, c) THEN ~ours[c] ELSE ours[c]]
  /\ UNCHANGED <<tables, height, sent, control, classification, batch, booking, history>>

BlockFound(b) ==  \* ShareRecorder stores an accepted candidate
  /\ blocks[b] = "absent"
  /\ Depth(b) >= 0
  /\ blocks' = [blocks EXCEPT ![b] = "pending"]
  /\ UNCHANGED <<ledger, chain, control, classification, batch, booking, history>>

Outside ==
  /\ outside < MaxOutside
  /\ outside' = outside + 1
  /\ UNCHANGED <<blocks, earned, settled, payments, chain, control, classification,
                 batch, booking, credits, unbooked, rebooked, faults>>

AddMinerBalance(a, n) ==
  /\ Outside
  /\ balances' = [balances EXCEPT ![a] = @ + n]
  /\ added' = [added EXCEPT ![a] = IF n > 0 THEN @ + n ELSE @]
  /\ deducted' = [deducted EXCEPT ![a] = IF n < 0 THEN @ - n ELSE @]
  /\ UNCHANGED minerInfo

SetMinerMinimum(a, n) ==
  /\ Outside
  /\ minerInfo' = [minerInfo EXCEPT ![a] = n]
  /\ UNCHANGED <<balances, added, deducted>>

(***************************************************************************)
(* The cycle over the pools, and how processing a pool ends early.         *)
(***************************************************************************)
Fault ==
  /\ faults < MaxFaults
  /\ faults' = faults + 1

LeavePool ==  \* the handler of the pool and its local variables are gone
  /\ pc' = "idle"
  /\ pending' = {} /\ latest' = 0 /\ updated' = {} /\ verdict' = NoVerdict
  /\ queue' = {} /\ due' = Nothing
  /\ payee' = None /\ retries' = RetryCount /\ booked' = FALSE

StartCycle ==  \* the interval elapsed
  /\ pc = "idle" /\ poolsLeft = {}
  /\ poolsLeft' = Pools
  /\ UNCHANGED <<tables, chain, pc, pool, classification, batch, booking, history>>

PoolFails ==  \* an exception reaches ProcessPoolsAsync
  /\ \/ pc = "idle" /\ \E p \in poolsLeft : poolsLeft' = poolsLeft \ {p}
     \/ pc \in {"classify", "fetch", "update", "pay"} /\ UNCHANGED poolsLeft
  /\ Fault
  /\ LeavePool
  /\ UNCHANGED <<tables, chain, pool, credits, unbooked, rebooked, outside>>

Crash ==  \* also Stop: the thread it joins has ended at the first await
  /\ Fault
  /\ LeavePool
  /\ poolsLeft' = Pools
  /\ unbooked' = IF pc = "book" /\ ~booked
                   THEN [unbooked EXCEPT ![payee] = @ + due[payee]]
                   ELSE unbooked
  /\ UNCHANGED <<tables, chain, pool, credits, rebooked, outside>>

(***************************************************************************)
(* UpdatePoolBalancesAsync: read, classify and store the pending blocks.   *)
(***************************************************************************)
PendingOf(p) == {b \in Blocks : BlockPool[b] = p /\ blocks[b] = "pending"}

DistinctPending(p) ==  \* one row per height, whichever the database returns
  {S \in SUBSET PendingOf(p) :
     \A b \in PendingOf(p) :
       Cardinality({c \in S : BlockHeight[c] = BlockHeight[b]}) = 1}

GetDistinctPendingBlocksForPool(p) ==
  /\ pc = "idle"
  /\ p \in poolsLeft
  /\ poolsLeft' = poolsLeft \ {p}
  /\ pool' = p
  /\ pending' \in DistinctPending(p)
  /\ pc' = IF pending' = {} THEN "update" ELSE "classify"
  /\ UNCHANGED <<tables, chain, latest, updated, verdict, batch, booking, history>>

GetLatestBlock ==  \* the first daemon that answers may lag behind
  /\ pc = "classify"
  /\ \E lag \in 0 .. MaxLag : latest' = height[pool] - lag
  /\ pc' = "fetch"
  /\ UNCHANGED <<tables, chain, poolsLeft, pool, pending, updated, verdict, batch,
                 booking, history>>

NoLatestBlock ==  \* no daemon answers: go on with the pages classified so far
  /\ pc = "classify"
  /\ Fault
  /\ pending' = {}
  /\ pc' = "update"
  /\ UNCHANGED <<tables, chain, poolsLeft, pool, latest, updated, verdict, batch,
                 booking, credits, unbooked, rebooked, outside>>

(* latestBlockHeight - block.BlockHeight is unsigned: it wraps to a huge number *)
Wraps(b) == latest < BlockHeight[b]

Mature(b) == Wraps(b) \/ latest - BlockHeight[b] >= MinConfirmations

(* ConfirmationProgress > 0.75 *)
Lost(b) == Wraps(b) \/ 4 * (latest - BlockHeight[b]) > 3 * MinConfirmations

Classify(b) ==
  IF ours[b] THEN IF Mature(b) THEN "confirmed" ELSE "pending"
             ELSE IF Lost(b) THEN "orphaned" ELSE "pending"

ClassifyPage ==  \* FetchBlocks answers for a page of heights
  /\ pc = "fetch"
  /\ \E page \in SUBSET pending :
       /\ Cardinality(page) = IF PageSize < Cardinality(pending)
                                THEN PageSize ELSE Cardinality(pending)
       /\ verdict' = [b \in Blocks |-> IF b \in page THEN Classify(b) ELSE verdict[b]]
       /\ updated' = updated \cup page
       /\ pending' = pending \ page
  /\ latest' = 0
  /\ pc' = IF pending' = {} THEN "update" ELSE "classify"
  /\ UNCHANGED <<tables, chain, poolsLeft, pool, batch, booking, history>>

(* UPDATE blocks SET ... WHERE blockheight = @blockheight *)
UpdateBlock(b) ==
  blocks' = [c \in Blocks |-> IF BlockHeight[c] = BlockHeight[b] /\ blocks[c] # "absent"
                                THEN verdict[b] ELSE blocks[c]]

DistributeReward(b) ==
  /\ balances' = [a \in Accounts |-> balances[a] + Reward[b][a]]
  /\ earned' = [a \in Accounts |-> earned[a] + Reward[b][a]]
  /\ credits' = [credits EXCEPT ![b] = @ + 1]

StoreBlock(b) ==  \* the transaction of one updated block
  /\ pc = "update"
  /\ b \in updated /\ \A c \in updated : b <= c
  /\ UpdateBlock(b)
  /\ IF verdict[b] = "confirmed" THEN DistributeReward(b)
                                 ELSE UNCHANGED <<balances, earned, credits>>
  /\ \/ /\ updated' = updated \ {b}
        /\ verdict' = [verdict EXCEPT ![b] = "pending"]
        /\ UNCHANGED <<pc, pending, latest, batch, booking, faults>>
     \/ Fault /\ LeavePool  \* committed, but the commit was reported failed
  /\ UNCHANGED <<added, deducted, settled, payments, minerInfo, chain, poolsLeft, pool,
                 unbooked, rebooked, outside>>

(***************************************************************************)
(* PayoutPoolBalancesAsync: pay the balances over the minimum one by one.  *)
(***************************************************************************)
OverThreshold(p) == {a \in Accounts : AccountPool[a] = p /\ balances[a] >= MinPayment}

GetPoolBalancesOverThreshold ==
  /\ pc = "update" /\ updated = {}
  /\ queue' = OverThreshold(pool)
  /\ due' = [a \in Accounts |-> IF a \in queue' THEN balances[a] ELSE 0]
  /\ pc' = IF queue' = {} THEN "idle" ELSE "pay"
  /\ UNCHANGED <<tables, chain, poolsLeft, pool, classification, booking, history>>

NextBalance(a) ==  \* done with a: on to the next balance of the batch
  /\ queue' = queue \ {a}
  /\ due' = [due EXCEPT ![a] = 0]
  /\ pc' = IF queue' = {} THEN "idle" ELSE "pay"
  /\ payee' = None /\ retries' = RetryCount /\ booked' = FALSE
  /\ UNCHANGED <<poolsLeft, pool, classification>>

SkipMiner(a) ==
  /\ pc = "pay" /\ a \in queue
  /\ minerInfo[a] > due[a]
  /\ NextBalance(a)
  /\ UNCHANGED <<tables, chain, history>>

MaySend(a) == pc = "pay" /\ a \in queue /\ minerInfo[a] <= due[a]

(* The daemon numbers the transfers of an unlocked account, so that one    *)
(* it returns a hash for enters the chain.                                 *)
SendTransaction(a) ==
  /\ MaySend(a)
  /\ sent' = [sent EXCEPT ![a] = @ + due[a]]
  /\ payee' = a
  /\ pc' = "book"
  /\ UNCHANGED <<tables, height, ours, poolsLeft, pool, classification, batch, retries,
                 booked, history>>

SendFails(a) ==  \* no unlock, no reply, an error or no valid hash
  /\ MaySend(a)
  /\ Fault
  /\ NextBalance(a)
  /\ \/ UNCHANGED <<sent, unbooked>>
     \/ /\ sent' = [sent EXCEPT ![a] = @ + due[a]]
        /\ unbooked' = [unbooked EXCEPT ![a] = @ + due[a]]
  /\ UNCHANGED <<tables, height, ours, credits, rebooked, outside>>

(***************************************************************************)
(* PersistPaymentsAsync: one transaction, retried.                         *)
(***************************************************************************)
BookPayment ==
  /\ balances' = [balances EXCEPT ![payee] = @ - due[payee]]
  /\ settled' = [settled EXCEPT ![payee] = @ + due[payee]]
  /\ payments' = IF payee \in Recipients
                   THEN payments
                   ELSE [payments EXCEPT ![payee] = @ + due[payee]]
  /\ rebooked' = IF booked THEN [rebooked EXCEPT ![payee] = @ + due[payee]] ELSE rebooked
  /\ UNCHANGED <<blocks, earned, added, deducted, minerInfo>>

PersistPayment ==
  /\ pc = "book"
  /\ BookPayment
  /\ NextBalance(payee)
  /\ UNCHANGED <<chain, credits, unbooked, faults, outside>>

MayRetry == retries > 0

RetryPersist ==  \* rolled back, or committed with the commit reported failed
  /\ pc = "book" /\ MayRetry
  /\ Fault
  /\ retries' = retries - 1
  /\ \/ BookPayment /\ booked' = TRUE
     \/ UNCHANGED <<tables, rebooked, booked>>
  /\ UNCHANGED <<chain, control, classification, batch, payee, credits, unbooked, outside>>

GiveUpPersist ==  \* no retry left, or an exception the policy does not handle
  /\ pc = "book"
  /\ Fault
  /\ \/ BookPayment /\ UNCHANGED unbooked
     \/ /\ unbooked' = IF booked THEN unbooked
                       ELSE [unbooked EXCEPT ![payee] = @ + due[payee]]
        /\ UNCHANGED <<tables, rebooked>>
  /\ NextBalance(payee)
  /\ UNCHANGED <<chain, credits, outside>>

-----------------------------------------------------------------------------
ProcessPools ==
  \/ StartCycle
  \/ \E p \in Pools : GetDistinctPendingBlocksForPool(p)
  \/ GetLatestBlock \/ ClassifyPage
  \/ \E b \in Blocks : StoreBlock(b)
  \/ GetPoolBalancesOverThreshold
  \/ \E a \in Accounts : SkipMiner(a) \/ SendTransaction(a)
  \/ PersistPayment

Failure ==
  \/ PoolFails \/ Crash \/ NoLatestBlock \/ RetryPersist \/ GiveUpPersist
  \/ \E a \in Accounts : SendFails(a)

Environment ==
  \/ \E p \in Pools : GrowChain(p)
  \/ \E b \in Blocks : Reorganise(b) \/ BlockFound(b)
  \/ \E a \in Accounts :
       \/ \E n \in AdminAmounts : AddMinerBalance(a, n)
       \/ \E n \in MinerMinimums : SetMinerMinimum(a, n)

Next == ProcessPools \/ Failure \/ Environment

Spec == Init /\ [][Next]_vars

(***************************************************************************)
(* The payment thread loops for ever and the chain keeps growing.  Nothing *)
(* is asked of failures, of reorganisations or of the outside world.       *)
(***************************************************************************)
FairSpec ==
  /\ Spec
  /\ WF_vars(ProcessPools)
  /\ \A p \in Pools : WF_vars(GrowChain(p))

-----------------------------------------------------------------------------
InFlight(a) == IF pc = "book" /\ payee = a /\ ~booked THEN due[a] ELSE 0

(***************************************************************************)
(* A block's reward is distributed exactly once, in the step that confirms *)
(* it: crashes, rolled back and unreported commits of StoreBlock included. *)
(***************************************************************************)
CreditedOnce ==
  \A b \in Blocks : credits[b] = IF blocks[b] = "confirmed" THEN 1 ELSE 0

(***************************************************************************)
(* What the journal says an account earned is the sum of its rewards over  *)
(* the confirmed blocks: none is lost, doubled or shared out in part.      *)
(***************************************************************************)
EarnedFromConfirmed ==
  \A a \in Accounts :
    earned[a] = Total([b \in Blocks |-> Reward[b][a]], {b \in Blocks : blocks[b] = "confirmed"})

(***************************************************************************)
(* ClassifyBlocksAsync decides for good: a credited block stays the pool's *)
(* and is mature, a written-off one stays lost, although the chain may     *)
(* reorganise between the reads of the daemon and the update of the row.   *)
(***************************************************************************)
VerdictsAreFinal ==
  \A b \in Blocks :
    /\ blocks[b] = "confirmed" => ours[b] /\ Depth(b) >= MinConfirmations
    /\ blocks[b] = "orphaned" => ~ours[b]

(***************************************************************************)
(* Every transfer is booked once: the chain and the journal differ by the  *)
(* transfer in flight, by what failed bookkeeping left out and by what a   *)
(* retry after an unreported commit booked again, and by nothing else; the *)
(* payments table tells miners the same as the journal.                    *)
(***************************************************************************)
TransfersBooked ==
  \A a \in Accounts :
    /\ sent[a] + rebooked[a] = settled[a] + unbooked[a] + InFlight(a)
    /\ payments[a] = IF a \in Recipients THEN 0 ELSE settled[a]

(***************************************************************************)
(* The pool pays out no more than it owes: an account receives at most     *)
(* what it gained, plus what bookkeeping lost, though the amounts are read *)
(* once per cycle and balances change underneath.                          *)
(***************************************************************************)
NeverOverpaid ==
  \A a \in Accounts : sent[a] <= earned[a] + added[a] + unbooked[a]

(***************************************************************************)
(* A confirmed or orphaned block never changes again, whatever stale       *)
(* classification a running cycle still holds.                             *)
(***************************************************************************)
StatusIsFinal ==
  [][\A b \in Blocks :
       blocks[b] \in {"confirmed", "orphaned"} => blocks'[b] = blocks[b]]_vars

(***************************************************************************)
(* Every pending block is decided once the chain has left it behind, even  *)
(* if cycles fail and the process crashes on the way.                      *)
(***************************************************************************)
BlocksDecided ==
  \A b \in Blocks : blocks[b] = "pending" ~> blocks[b] \in {"confirmed", "orphaned"}

(***************************************************************************)
(* Balances over the minimums do not stay: they are paid out and reset.    *)
(***************************************************************************)
BalancesPaidOut ==
  \A a \in Accounts :
    <>[](balances[a] < MinPayment \/ balances[a] < minerInfo[a])

(***************************************************************************)
(* What the code's own comments and schema say, and the code does not do   *)
(* in every deployment.                                                    *)
(*                                                                         *)
(* A confirmed block has balance records for its reward ("blockchains that *)
(* do not support block-reward payments via coinbase Tx must generate      *)
(* balance records for all reward recipients instead").  UpdateBlockAsync  *)
(* selects rows by height only, so a cluster of two pools breaks it.       *)
(***************************************************************************)
ConfirmedIsCredited ==
  \A b \in Blocks : blocks[b] = "confirmed" => credits[b] > 0

(***************************************************************************)
(* Only a mature block is confirmed ("mature?").  The unsigned difference  *)
(* of heights wraps when the answering daemon is behind the block.         *)
(***************************************************************************)
ConfirmedIsMature ==
  \A b \in Blocks : blocks[b] = "confirmed" => Depth(b) >= MinConfirmations

(***************************************************************************)
(* A block of a pool is one row, hence one reward ("CONSTRAINT             *)
(* BLOCKS_POOL_HEIGHT UNIQUE (poolid, blockheight, type)").  The column    *)
(* type stays NULL, so the constraint never applies; a second row that     *)
(* arrives after the first was confirmed is credited again.                *)
(***************************************************************************)
RewardedOnce ==
  \A b, c \in Blocks :
    SameBlock(b, c) /\ credits[b] > 0 /\ credits[c] > 0 => b = c

(***************************************************************************)
(* Payout implements the abstract ledger.                                  *)
(***************************************************************************)
Ledger == INSTANCE PayoutLedger WITH
  Donations <- {n \in AdminAmounts : n > 0},
  credited <- {b \in Blocks : blocks[b] = "confirmed"},
  gained <- [a \in Accounts |-> earned[a] + added[a]],
  transferred <- sent,
  forgotten <- unbooked

LedgerSpec == Ledger!Spec

=============================================================================
