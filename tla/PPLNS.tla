-------------------------------- MODULE PPLNS --------------------------------
(***************************************************************************)
(* PPLNSPaymentScheme: the reward of a block is shared out among the       *)
(* newest shares before it until their scores fill the window.  The shares *)
(* are read page by page on connections of their own, while the share      *)
(* recorder keeps inserting; the balances are credited and the shares      *)
(* behind the window deleted in the transaction that confirms the block.   *)
(*                                                                         *)
(* Scores are integers.  A reward is score * blockReward / window, so what *)
(* a miner gains from a block is given by the score it is paid for.        *)
(***************************************************************************)
EXTENDS Integers, FiniteSets, Sums

CONSTANTS
  Shares,        \* shares the pool accepts
  Created,       \* Created[s]: column created
  Score,         \* Score[s]: difficulty / network difficulty; -1 if the latter is 0
  Miner,         \* Miner[s]: column miner
  Miners,        \* addresses of the miners
  Blocks,        \* blocks that are confirmed one day
  BlockCreated,  \* BlockCreated[b]: created of the share that found b
  BlockReward,   \* BlockReward[b]: what recipients and fee leave of the reward
  Window,        \* Factor of the payout scheme
  PageSize,      \* shares read at once
  None,          \* no block, no date
  MaxFaults      \* bound: failures

ASSUME PPLNSAssumption ==
  /\ Created \in [Shares -> Nat]
  /\ Score \in [Shares -> Nat \cup {-1}]
  /\ IsFiniteSet(Miners)
  /\ Miner \in [Shares -> Miners]
  /\ BlockCreated \in [Blocks -> Nat]
  /\ BlockReward \in [Blocks -> Int]
  /\ Window \in Nat \ {0}
  /\ PageSize \in Nat \ {0}
  /\ None \notin Blocks
  /\ None \notin Nat
  /\ MaxFaults \in Nat

VARIABLES
  (* the database *)
  stored,        \* shares inserted so far
  table,         \* rows of the table shares
  paid,          \* blocks confirmed and credited
  credit,        \* credit[b][m]: score m was paid for when b was confirmed
  mature,        \* blocks ClassifyBlocksAsync would call confirmed
  (* UpdatePoolBalancesAsync, UpdateBalancesAsync and CalculateRewardsAsync *)
  cycle,         \* updatedBlocks still to process
  pc,
  block,
  before, inclusive,   \* bound of the next page
  page,                \* shares of the page still to count
  full,                \* the page has PageSize shares
  accumulatedScore,
  rewards,             \* rewards[m]: score m is paid for
  shareCutOffDate,
  (* history *)
  counted,       \* counted[s]: how often s was counted for the block
  atStart,       \* rows of the table when the calculation began
  cut,           \* latest date before which shares were deleted
  faults

database == <<stored, table, paid, credit>>
pool == <<mature, cycle>>
reading == <<before, inclusive, page, full>>
sharing == <<accumulatedScore, rewards, shareCutOffDate, counted>>
vars == <<database, pool, pc, block, reading, sharing, atStart, cut, faults>>

Nobody == [m \in Miners |-> 0]
Uncounted == [s \in Shares |-> 0]

TypeOK ==
  /\ stored \subseteq Shares /\ table \subseteq stored
  /\ paid \subseteq Blocks
  /\ credit \in [Blocks -> [Miners -> Nat]]
  /\ mature \subseteq Blocks
  /\ cycle \subseteq mature \ paid
  /\ pc \in {"idle", "read", "share", "store"}
  /\ block \in cycle \cup {None}
  /\ before \in Nat
  /\ inclusive \in BOOLEAN
  /\ page \subseteq Shares
  /\ full \in BOOLEAN
  /\ accumulatedScore \in 0 .. Window
  /\ rewards \in [Miners -> Nat]
  /\ shareCutOffDate \in Nat \cup {None}
  /\ counted \in [Shares -> Nat]
  /\ atStart \subseteq Shares
  /\ cut \in Nat
  /\ faults \in 0 .. MaxFaults

Init ==
  /\ stored = {} /\ table = {} /\ paid = {}
  /\ credit = [b \in Blocks |-> Nobody]
  /\ mature = {} /\ cycle = {}
  /\ pc = "idle" /\ block = None
  /\ before = 0 /\ inclusive = TRUE /\ page = {} /\ full = FALSE
  /\ accumulatedScore = 0 /\ rewards = Nobody /\ shareCutOffDate = None
  /\ counted = Uncounted
  /\ atStart = {} /\ cut = 0 /\ faults = 0

(***************************************************************************)
(* Slips: how operators below could go wrong.  No specification uses them; *)
(* each refutes the property it is paired with.                            *)
(***************************************************************************)
InclusiveRows == {s \in table : Created[s] <= before}
ExclusiveRows == {s \in table : Created[s] < before}
AnyRows(rows) ==
  {p \in SUBSET rows :
     Cardinality(p) = IF Cardinality(rows) < PageSize THEN Cardinality(rows) ELSE PageSize}
UpToWindow(s) == accumulatedScore + Score[s] > Window
NoCap(s) == Score[s]
KeepNewer == {s \in table : shareCutOffDate # None => Created[s] > shareCutOffDate}

(***************************************************************************)
(* The share recorder stores shares in any order: it retries, and imports  *)
(* its recovery file.                                                      *)
(***************************************************************************)
StoreShare(s) ==
  /\ s \notin stored
  /\ stored' = stored \cup {s}
  /\ table' = table \cup {s}
  /\ UNCHANGED <<paid, credit, pool, pc, block, reading, sharing, atStart, cut, faults>>

(***************************************************************************)
(* Blocks may mature in any order: one of them is stored late.             *)
(***************************************************************************)
Mature(b) ==
  /\ b \notin mature
  /\ mature' = mature \cup {b}
  /\ UNCHANGED <<database, cycle, pc, block, reading, sharing, atStart, cut, faults>>

StartCycle ==
  /\ pc = "idle" /\ cycle = {} /\ mature \ paid # {}
  /\ cycle' = mature \ paid
  /\ UNCHANGED <<database, mature, pc, block, reading, sharing, atStart, cut, faults>>

(* OrderBy(x => x.Created) *)
Oldest(b) == b \in cycle /\ \A c \in cycle : BlockCreated[b] <= BlockCreated[c]

UpdateBalances(b) ==
  /\ pc = "idle" /\ Oldest(b)
  /\ pc' = "read" /\ block' = b
  /\ before' = BlockCreated[b]
  /\ atStart' = {s \in table : Created[s] <= BlockCreated[b]}
  /\ UNCHANGED <<database, pool, inclusive, page, full, sharing, cut, faults>>

(* SELECT ... WHERE created <= or < @before *)
Rows == {s \in table : Created[s] < before \/ (inclusive /\ Created[s] = before)}

(* ... ORDER BY created DESC FETCH NEXT (@pageSize) ROWS ONLY *)
Pages(rows) ==
  {p \in SUBSET rows :
     /\ Cardinality(p) = IF Cardinality(rows) < PageSize THEN Cardinality(rows) ELSE PageSize
     /\ \A s \in p, t \in rows \ p : Created[s] >= Created[t]}

ReadSharesBeforeCreated ==
  /\ pc = "read"
  /\ page' \in Pages(Rows)
  /\ full' = (Cardinality(page') = PageSize)
  /\ IF page' = {} THEN UNCHANGED before
       ELSE /\ before' \in {Created[s] : s \in page'}
            /\ \A s \in page' : before' <= Created[s]
  /\ inclusive' = FALSE
  /\ pc' = IF page' = {} THEN "store" ELSE "share"
  /\ UNCHANGED <<database, pool, block, sharing, atStart, cut, faults>>

Fills(s) == accumulatedScore + Score[s] >= Window

Capped(s) == IF Fills(s) THEN Window - accumulatedScore ELSE Score[s]

(* blockRewardRemaining, times the window, once s is counted *)
Remaining(s) == BlockReward[block] * (Window - accumulatedScore - Capped(s))

Overflows(s) == Remaining(s) <= 0 /\ ~Fills(s)

Onward(rest) ==  \* the rest of the page, the next page, or the end of the table
  IF rest # {} THEN "share" ELSE IF full THEN "read" ELSE "store"

Newest(s) == s \in page /\ \A t \in page : Created[t] <= Created[s]

SkipShare(s) ==  \* its network difficulty is 0
  /\ pc = "share" /\ Newest(s) /\ Score[s] = -1
  /\ page' = page \ {s}
  /\ pc' = Onward(page')
  /\ UNCHANGED <<database, pool, block, before, inclusive, full, sharing, atStart, cut, faults>>

CountShare(s) ==
  /\ pc = "share" /\ Newest(s) /\ Score[s] # -1 /\ ~Overflows(s)
  /\ accumulatedScore' = accumulatedScore + Capped(s)
  /\ rewards' = IF Capped(s) * BlockReward[block] > 0
                  THEN [rewards EXCEPT ![Miner[s]] = @ + Capped(s)] ELSE rewards
  /\ counted' = [counted EXCEPT ![s] = @ + 1]
  /\ IF Fills(s)
       THEN /\ shareCutOffDate' = Created[s]
            /\ page' = {} /\ pc' = "store"
       ELSE /\ page' = page \ {s} /\ pc' = Onward(page')
            /\ UNCHANGED shareCutOffDate
  /\ UNCHANGED <<database, pool, block, before, inclusive, full, atStart, cut, faults>>

Leave ==  \* the local variables are gone
  /\ pc' = "idle" /\ block' = None
  /\ before' = 0 /\ inclusive' = TRUE /\ page' = {} /\ full' = FALSE
  /\ accumulatedScore' = 0 /\ rewards' = Nobody /\ shareCutOffDate' = None
  /\ counted' = Uncounted /\ atStart' = {}

Abandon ==  \* an exception ends the cycle, the transaction is rolled back
  /\ Leave
  /\ cycle' = {}
  /\ UNCHANGED <<database, mature, cut>>

Overflow(s) ==
  /\ pc = "share" /\ Newest(s) /\ Score[s] # -1 /\ Overflows(s)
  /\ Abandon
  /\ UNCHANGED faults

(* DELETE FROM shares WHERE created < @before *)
Kept == {s \in table : shareCutOffDate # None => Created[s] >= shareCutOffDate}

StoreRewards ==
  /\ pc = "store"
  /\ credit' = [credit EXCEPT ![block] = rewards]
  /\ paid' = paid \cup {block}
  /\ table' = Kept
  /\ cut' = IF shareCutOffDate # None /\ shareCutOffDate > cut THEN shareCutOffDate ELSE cut
  /\ cycle' = cycle \ {block}
  /\ Leave
  /\ UNCHANGED <<stored, mature, faults>>

Fail ==  \* a query fails for good, or the process crashes
  /\ pc # "idle" /\ faults < MaxFaults
  /\ faults' = faults + 1
  /\ Abandon

-----------------------------------------------------------------------------
Calculate ==
  \/ StartCycle
  \/ \E b \in Blocks : UpdateBalances(b)
  \/ ReadSharesBeforeCreated
  \/ \E s \in Shares : SkipShare(s) \/ CountShare(s) \/ Overflow(s)
  \/ StoreRewards

Environment == \/ \E s \in Shares : StoreShare(s)
               \/ \E b \in Blocks : Mature(b)

Next == Calculate \/ Fail \/ Environment

Spec == Init /\ [][Next]_vars

(* the payment thread runs; nothing else has to happen *)
FairSpec == Spec /\ WF_vars(Calculate)

-----------------------------------------------------------------------------
(***************************************************************************)
(* No share is counted twice, although pages are read one after the other  *)
(* while rows are inserted.                                                *)
(***************************************************************************)
CountedOnce == \A s \in Shares : counted[s] <= 1

(***************************************************************************)
(* Newest first without a gap: a share is counted only after every newer   *)
(* share the table held when the calculation began, the one that found the *)
(* block included.  A share whose date another one has too is exempt: the  *)
(* next page starts before the last date of this one, and skips it if a    *)
(* page ends between the two.                                              *)
(***************************************************************************)
NoGap ==
  \A s \in Shares, t \in atStart :
    /\ counted[s] > 0 /\ Created[t] > Created[s] /\ Score[t] # -1
    /\ \A u \in table \ {t} : Created[u] # Created[t]
    => counted[t] > 0

(***************************************************************************)
(* What the miners are paid for adds up to the counted score, which never  *)
(* exceeds the window: the miners get no more than the reward of a block.  *)
(***************************************************************************)
RewardsAddUp ==
  /\ block # None /\ BlockReward[block] > 0 => Total(rewards, Miners) = accumulatedScore
  /\ \A b \in Blocks : Total(credit[b], Miners) <= Window

(***************************************************************************)
(* The reference: the window laid over the shares sorted by date.          *)
(***************************************************************************)
Due(m) ==
  LET rows == {s \in atStart : Score[s] # -1}
      newer(s) == Total(Score, {t \in rows : Created[t] > Created[s]})
      part(s) == IF newer(s) >= Window THEN 0
                 ELSE IF newer(s) + Score[s] > Window THEN Window - newer(s) ELSE Score[s]
  IN Total([s \in rows |-> part(s)], {s \in rows : Miner[s] = m})

(***************************************************************************)
(* Paging does not matter: without equal dates and without rows inserted   *)
(* into the window meanwhile, the pages give every miner its part of the   *)
(* window.                                                                 *)
(***************************************************************************)
RewardsAreDue ==
  pc = "store" /\ BlockReward[block] > 0
  /\ {s \in table : Created[s] <= BlockCreated[block]} = atStart
  /\ (\A s, t \in atStart : Created[s] = Created[t] => s = t)
    => \A m \in Miners : rewards[m] = Due(m)

(***************************************************************************)
(* Deleting the shares behind a window leaves the windows of later blocks  *)
(* whole: the rows that are left fill them.                                *)
(***************************************************************************)
LaterWindowsWhole ==
  \A b \in Blocks \ paid :
    cut > 0 /\ (\A c \in paid : BlockCreated[c] <= BlockCreated[b])
      => Total(Score, {s \in table : /\ Score[s] # -1
                                     /\ cut <= Created[s] /\ Created[s] <= BlockCreated[b]})
           >= Window

(***************************************************************************)
(* Every mature block is paid, whatever the number of pages and however    *)
(* often the calculation fails on the way, unless a block not younger that *)
(* leaves nothing to the miners is in its way: that one overflows in every *)
(* cycle ("this should never happen") and ends it.                         *)
(***************************************************************************)
InTheWay(c, b) ==
  c \in mature \ paid /\ BlockReward[c] <= 0 /\ BlockCreated[c] <= BlockCreated[b]

BlocksPaid ==
  <>[](\A b \in mature : b \in paid \/ \E c \in Blocks : InTheWay(c, b))

=============================================================================
