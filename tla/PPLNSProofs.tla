----------------------------- MODULE PPLNSProofs -----------------------------
(***************************************************************************)
(* Theorems about PPLNS, for every set of shares, window and page size.    *)
(***************************************************************************)
EXTENDS PPLNS, SumLemmas, TLAPS

(***************************************************************************)
(* The type invariant needs one more fact: a calculation has a block.      *)
(***************************************************************************)
Busy == pc # "idle" => block # None

TypeInv == TypeOK /\ Busy

(***************************************************************************)
(* What CalculateRewardsAsync knows between two pages: shares on or after  *)
(* the bound have been read, those of the page are still to be counted,    *)
(* and the next page starts strictly before the bound.                     *)
(***************************************************************************)
CountedAreBehind ==
  \A s \in Shares : counted[s] > 0 => ~inclusive /\ before <= Created[s]

PageIsNew ==
  \A s \in page : ~inclusive /\ before <= Created[s] /\ counted[s] = 0

IdleIsFresh ==
  pc = "idle" => page = {} /\ inclusive /\ \A s \in Shares : counted[s] = 0

PageInv == CountedAreBehind /\ PageIsNew /\ IdleIsFresh /\ CountedOnce

-----------------------------------------------------------------------------
(***************************************************************************)
(* CappedFits: counting a share never takes the score out of the window.   *)
(***************************************************************************)
LEMMA CappedFits ==
  ASSUME TypeOK, NEW s \in Shares, Score[s] # -1
  PROVE  Capped(s) \in Nat /\ accumulatedScore + Capped(s) \in 0 .. Window
<1>1. Score[s] \in Nat /\ accumulatedScore \in 0 .. Window /\ Window \in Nat
  BY PPLNSAssumption DEF TypeOK
<1>2. CASE Fills(s)
  BY <1>1, <1>2 DEF Capped
<1>3. CASE ~Fills(s)
  BY <1>1, <1>3 DEF Capped, Fills
<1> QED
  BY <1>2, <1>3

(***************************************************************************)
(* LeaveTypes: the locals a calculation starts with are well typed.        *)
(***************************************************************************)
LEMMA LeaveTypes ==
  ASSUME TypeOK, Leave
  PROVE  /\ pc' = "idle" /\ block' = None /\ before' \in Nat /\ inclusive' \in BOOLEAN
         /\ page' \subseteq Shares /\ full' \in BOOLEAN
         /\ accumulatedScore' \in 0 .. Window /\ rewards' \in [Miners -> Nat]
         /\ shareCutOffDate' \in Nat \cup {None} /\ counted' \in [Shares -> Nat]
         /\ atStart' \subseteq Shares
<1>1. rewards' \in [Miners -> Nat] /\ counted' \in [Shares -> Nat]
  BY DEF Leave, Nobody, Uncounted
<1>2. before' \in Nat /\ accumulatedScore' \in 0 .. Window
  BY PPLNSAssumption DEF Leave
<1>3. shareCutOffDate' \in Nat \cup {None} /\ inclusive' \in BOOLEAN /\ full' \in BOOLEAN
  BY DEF Leave
<1> QED
  BY <1>1, <1>2, <1>3 DEF Leave

(***************************************************************************)
(* TypeInit, TypeStep: TypeInv is inductive.                               *)
(***************************************************************************)
LEMMA TypeInit == Init => TypeInv
<1> SUFFICES ASSUME Init PROVE TypeInv
  OBVIOUS
<1>1. Nobody \in [Miners -> Nat] /\ Uncounted \in [Shares -> Nat]
  BY DEF Nobody, Uncounted
<1>2. credit \in [Blocks -> [Miners -> Nat]]
  BY <1>1 DEF Init
<1>3. accumulatedScore \in 0 .. Window /\ faults \in 0 .. MaxFaults
  BY PPLNSAssumption DEF Init
<1> QED
  BY <1>1, <1>2, <1>3 DEF Init, TypeInv, TypeOK, Busy

LEMMA TypeStep == TypeInv /\ [Next]_vars => TypeInv'
<1> SUFFICES ASSUME TypeInv, [Next]_vars PROVE TypeInv'
  OBVIOUS
<1> USE DEF TypeInv, database, pool, reading, sharing
<1>1. ASSUME NEW s \in Shares, StoreShare(s) PROVE TypeInv'
  BY <1>1 DEF StoreShare, TypeOK, Busy
<1>2. ASSUME NEW b \in Blocks, Mature(b) PROVE TypeInv'
  BY <1>2 DEF Mature, TypeOK, Busy
<1>3. CASE StartCycle
  BY <1>3 DEF StartCycle, TypeOK, Busy
<1>4. ASSUME NEW b \in Blocks, UpdateBalances(b) PROVE TypeInv'
  BY <1>4, PPLNSAssumption DEF UpdateBalances, Oldest, TypeOK, Busy
<1>5. CASE ReadSharesBeforeCreated
  <2>1. page' \subseteq Shares
    BY <1>5 DEF ReadSharesBeforeCreated, Pages, Rows, TypeOK
  <2>2. before' \in Nat
    BY <1>5, <2>1, PPLNSAssumption DEF ReadSharesBeforeCreated, TypeOK
  <2>3. full' \in BOOLEAN /\ inclusive' \in BOOLEAN /\ pc' \in {"store", "share"} /\ pc # "idle"
    BY <1>5 DEF ReadSharesBeforeCreated
  <2> QED
    BY <1>5, <2>1, <2>2, <2>3 DEF ReadSharesBeforeCreated, TypeOK, Busy
<1>6. ASSUME NEW s \in Shares, SkipShare(s) PROVE TypeInv'
  BY <1>6 DEF SkipShare, Onward, TypeOK, Busy
<1>7. ASSUME NEW s \in Shares, CountShare(s) PROVE TypeInv'
  <2>1. Capped(s) \in Nat /\ accumulatedScore' \in 0 .. Window
    BY <1>7, CappedFits DEF CountShare
  <2>2. rewards' \in [Miners -> Nat]
    <3>1. rewards \in [Miners -> Nat] /\ Miner[s] \in Miners
      BY PPLNSAssumption DEF TypeOK
    <3>2. [rewards EXCEPT ![Miner[s]] = @ + Capped(s)] \in [Miners -> Nat]
      BY <2>1, <3>1
    <3>3. rewards' \in {rewards, [rewards EXCEPT ![Miner[s]] = @ + Capped(s)]}
      BY <1>7, Zenon DEF CountShare
    <3> QED
      BY <3>1, <3>2, <3>3
  <2>3. counted' \in [Shares -> Nat]
    BY <1>7 DEF CountShare, TypeOK
  <2>4. page' \subseteq Shares /\ pc' \in {"read", "share", "store"} /\ pc # "idle"
    BY <1>7 DEF CountShare, Onward, TypeOK
  <2>5. shareCutOffDate' \in Nat \cup {None}
    <3>1. Created[s] \in Nat
      BY PPLNSAssumption
    <3>2. shareCutOffDate' \in {shareCutOffDate, Created[s]}
      BY <1>7 DEF CountShare
    <3> QED
      BY <3>1, <3>2 DEF TypeOK
  <2>6. UNCHANGED <<stored, table, paid, credit, mature, cycle, block, before, inclusive, full,
                    atStart, cut, faults>>
    BY <1>7 DEF CountShare
  <2> QED
    BY <2>1, <2>2, <2>3, <2>4, <2>5, <2>6 DEF TypeOK, Busy
<1>8. ASSUME Abandon, faults' \in 0 .. MaxFaults PROVE TypeInv'
  <2>1. UNCHANGED <<stored, table, paid, credit, mature, cut>> /\ cycle' = {}
    BY <1>8 DEF Abandon
  <2>2. Leave
    BY <1>8 DEF Abandon
  <2> QED
    BY <1>8, <2>1, <2>2, LeaveTypes DEF TypeOK, Busy
<1>9. ASSUME NEW s \in Shares, Overflow(s) PROVE TypeInv'
  BY <1>8, <1>9 DEF Overflow, TypeOK
<1>10. CASE StoreRewards
  <2>1. block \in cycle /\ block \in Blocks
    BY <1>10 DEF StoreRewards, TypeOK, Busy
  <2>2. credit' \in [Blocks -> [Miners -> Nat]]
    BY <1>10, <2>1 DEF StoreRewards, TypeOK
  <2>3. table' \subseteq stored /\ cut' \in Nat
    BY <1>10, PPLNSAssumption DEF StoreRewards, Kept, TypeOK
  <2>4. paid' \subseteq Blocks /\ cycle' \subseteq mature \ paid'
    BY <1>10, <2>1 DEF StoreRewards, TypeOK
  <2>5. UNCHANGED <<stored, mature, faults>> /\ Leave
    BY <1>10 DEF StoreRewards
  <2> QED
    BY <2>2, <2>3, <2>4, <2>5, LeaveTypes DEF TypeOK, Busy
<1>11. CASE Fail
  <2>1. faults' \in 0 .. MaxFaults
    BY <1>11, PPLNSAssumption DEF Fail, TypeOK
  <2> QED
    BY <1>8, <1>11, <2>1 DEF Fail
<1>12. CASE UNCHANGED vars
  BY <1>12 DEF vars, TypeOK, Busy
<1> QED
  BY <1>1, <1>2, <1>3, <1>4, <1>5, <1>6, <1>7, <1>9, <1>10, <1>11, <1>12
  DEF Next, Calculate, Environment

(***************************************************************************)
(* The calculation keeps its types, whatever the shares and the faults.    *)
(***************************************************************************)
THEOREM TypeCorrect == Spec => []TypeOK
<1>1. TypeInv => TypeOK
  BY DEF TypeInv
<1> QED
  BY <1>1, TypeInit, TypeStep, PTL DEF Spec

-----------------------------------------------------------------------------
(***************************************************************************)
(* PageInit, PageStep: PageInv is inductive.  A share is counted once      *)
(* because the bound only moves down, the bound itself is excluded after   *)
(* the first page, and a row inserted meanwhile is never behind a share    *)
(* that was read: it is either below the bound or never read at all.       *)
(***************************************************************************)
LEMMA PageInit == Init => PageInv
BY DEF Init, PageInv, CountedAreBehind, PageIsNew, IdleIsFresh, CountedOnce, Uncounted

LEMMA PageLeave ==
  ASSUME Leave PROVE PageInv'
BY DEF Leave, PageInv, CountedAreBehind, PageIsNew, IdleIsFresh, CountedOnce, Uncounted

LEMMA PageStep == TypeInv /\ PageInv /\ [Next]_vars => PageInv'
<1> SUFFICES ASSUME TypeInv, PageInv, [Next]_vars PROVE PageInv'
  OBVIOUS
<1> DEFINE bounds == <<pc, before, inclusive, page, counted>>
<1>0. ASSUME UNCHANGED bounds PROVE PageInv'
  BY <1>0 DEF PageInv, CountedAreBehind, PageIsNew, IdleIsFresh, CountedOnce
<1>1. ASSUME NEW s \in Shares, StoreShare(s) PROVE PageInv'
  BY <1>0, <1>1 DEF StoreShare, reading, sharing
<1>2. ASSUME NEW b \in Blocks, Mature(b) PROVE PageInv'
  BY <1>0, <1>2 DEF Mature, reading, sharing
<1>3. CASE StartCycle
  BY <1>0, <1>3 DEF StartCycle, reading, sharing
<1>4. ASSUME NEW b \in Blocks, UpdateBalances(b) PROVE PageInv'
  <2>1. page = {} /\ \A s \in Shares : counted[s] = 0
    BY <1>4 DEF UpdateBalances, PageInv, IdleIsFresh
  <2>2. UNCHANGED <<page, counted>> /\ pc' = "read"
    BY <1>4 DEF UpdateBalances, reading, sharing
  <2> QED
    BY <2>1, <2>2 DEF PageInv, CountedAreBehind, PageIsNew, IdleIsFresh, CountedOnce
<1>5. CASE ReadSharesBeforeCreated
  <2>1. UNCHANGED counted /\ ~inclusive' /\ pc' # "idle"
    BY <1>5 DEF ReadSharesBeforeCreated, sharing
  <2>2. \A s \in page' : s \in Shares /\ (Created[s] < before \/ (inclusive /\ Created[s] = before))
    BY <1>5 DEF ReadSharesBeforeCreated, Pages, Rows, TypeInv, TypeOK
  <2>3. \A s \in page' : before' <= Created[s]
    BY <1>5 DEF ReadSharesBeforeCreated
  <2>4. before \in Nat /\ before' \in Nat /\ before' <= before
    <3>1. CASE page' = {}
      BY <1>5, <3>1 DEF ReadSharesBeforeCreated, TypeInv, TypeOK
    <3>2. CASE page' # {}
      <4>1. PICK s \in page' : before' = Created[s]
        BY <1>5, <3>2 DEF ReadSharesBeforeCreated
      <4> QED
        BY <4>1, <2>2, PPLNSAssumption DEF TypeInv, TypeOK
    <3> QED
      BY <3>1, <3>2
  <2>5. \A s \in Shares : Created[s] \in Nat /\ counted[s] \in Nat
    BY PPLNSAssumption DEF TypeInv, TypeOK
  <2>6. CountedAreBehind'
    BY <2>1, <2>4, <2>5 DEF PageInv, CountedAreBehind
  <2>7. PageIsNew'
    <3> SUFFICES ASSUME NEW s \in page' PROVE counted[s] = 0
      BY <2>1, <2>3 DEF PageIsNew
    <3>1. counted[s] > 0 => ~inclusive /\ before <= Created[s]
      BY <2>2 DEF PageInv, CountedAreBehind
    <3> QED
      BY <3>1, <2>2, <2>4, <2>5
  <2> QED
    BY <2>1, <2>6, <2>7 DEF PageInv, IdleIsFresh, CountedOnce
<1>6. ASSUME NEW s \in Shares, SkipShare(s) PROVE PageInv'
  BY <1>6 DEF SkipShare, Onward, sharing, PageInv, CountedAreBehind, PageIsNew, IdleIsFresh, CountedOnce
<1>7. ASSUME NEW s \in Shares, CountShare(s) PROVE PageInv'
  <2>1. s \in page /\ page' \subseteq page \ {s} /\ UNCHANGED <<before, inclusive>>
    BY <1>7 DEF CountShare, Newest
  <2>2. counted[s] = 0 /\ ~inclusive /\ before <= Created[s]
    BY <2>1 DEF PageInv, PageIsNew
  <2>3. counted' = [counted EXCEPT ![s] = 1]
    BY <1>7, <2>2 DEF CountShare
  <2>4. counted \in [Shares -> Nat] /\ page \subseteq Shares
    BY DEF TypeInv, TypeOK
  <2>5. pc' # "idle"
    BY <1>7 DEF CountShare, Onward
  <2>6. \A t \in Shares : counted'[t] = IF t = s THEN 1 ELSE counted[t]
    BY <2>3, <2>4
  <2> QED
    BY <2>1, <2>2, <2>4, <2>5, <2>6
    DEF PageInv, CountedAreBehind, PageIsNew, IdleIsFresh, CountedOnce
<1>8. ASSUME NEW s \in Shares, Overflow(s) PROVE PageInv'
  BY <1>8, PageLeave DEF Overflow, Abandon
<1>9. CASE StoreRewards
  BY <1>9, PageLeave DEF StoreRewards
<1>10. CASE Fail
  BY <1>10, PageLeave DEF Fail, Abandon
<1>11. CASE UNCHANGED vars
  BY <1>0, <1>11 DEF vars, reading, sharing
<1> QED
  BY <1>1, <1>2, <1>3, <1>4, <1>5, <1>6, <1>7, <1>8, <1>9, <1>10, <1>11
  DEF Next, Calculate, Environment

(***************************************************************************)
(* No share counts twice for a block, however the pages and the inserts of *)
(* the share recorder interleave.                                          *)
(***************************************************************************)
THEOREM SharesCountOnce == Spec => []CountedOnce
<1>1. Init => TypeInv /\ PageInv
  BY TypeInit, PageInit
<1>2. TypeInv /\ PageInv /\ [Next]_vars => (TypeInv /\ PageInv)'
  BY TypeStep, PageStep
<1>3. PageInv => CountedOnce
  BY DEF PageInv
<1> QED
  BY <1>1, <1>2, <1>3, PTL DEF Spec

-----------------------------------------------------------------------------
(***************************************************************************)
(* A share that the calculation must not miss: it was in the table at the  *)
(* start, has a score, and no other row has its date.                      *)
(***************************************************************************)
Unmissable(t) ==
  /\ t \in atStart /\ Score[t] # -1
  /\ \A u \in table \ {t} : Created[u] # Created[t]

(***************************************************************************)
(* Down to the bound everything of the start was counted or is in the      *)
(* page; nothing but the transaction of the block deletes rows.            *)
(***************************************************************************)
NothingSkipped ==
  pc \in {"read", "share"} /\ ~inclusive =>
    \A t \in Shares : Unmissable(t) /\ before <= Created[t] => counted[t] > 0 \/ t \in page

AllAhead ==
  /\ atStart \subseteq table
  /\ pc = "read" => page = {}
  /\ pc = "read" /\ inclusive => \A t \in atStart : Created[t] <= before
  /\ pc = "share" => ~inclusive

GapInv == NothingSkipped /\ AllAhead /\ NoGap

(***************************************************************************)
(* GapInit, GapStep: GapInv is inductive, given PageInv.                   *)
(***************************************************************************)
LEMMA GapInit == Init => GapInv
BY DEF Init, GapInv, NothingSkipped, AllAhead, NoGap, Uncounted

LEMMA GapLeave ==
  ASSUME Leave PROVE GapInv'
BY DEF Leave, GapInv, NothingSkipped, AllAhead, NoGap, Uncounted

LEMMA GapRead ==
  ASSUME TypeInv, PageInv, GapInv, ReadSharesBeforeCreated
  PROVE  GapInv'
<1>1. UNCHANGED <<table, atStart, counted>> /\ ~inclusive' /\ pc = "read"
  BY DEF ReadSharesBeforeCreated, database, sharing
<1>2. AllAhead'
  BY <1>1 DEF ReadSharesBeforeCreated, GapInv, AllAhead
<1>3. NoGap'
  BY <1>1 DEF GapInv, NoGap
<1>4. CASE page' = {}
  BY <1>2, <1>3, <1>4 DEF ReadSharesBeforeCreated, GapInv, NothingSkipped
<1>5. CASE page' # {}
  <2>1. PICK u \in page' : before' = Created[u]
    BY <1>5 DEF ReadSharesBeforeCreated
  <2>2. /\ page' \subseteq Rows
        /\ \A s \in page', r \in Rows \ page' : Created[s] >= Created[r]
    BY DEF ReadSharesBeforeCreated, Pages
  <2>3. \A t \in Shares : Created[t] \in Nat
    BY PPLNSAssumption
  <2>4. u \in table /\ u \in Shares /\ before \in Nat
    BY <2>1, <2>2 DEF Rows, TypeInv, TypeOK
  <2>5. ASSUME NEW t \in Shares, Unmissable(t)', before' <= Created[t], ~(counted[t] > 0)
        PROVE  t \in page'
    <3>1. Unmissable(t) /\ t \in table
      BY <1>1, <2>5 DEF Unmissable, GapInv, AllAhead
    <3>2. t \in Rows
      <4>1. CASE inclusive
        BY <1>1, <2>3, <2>4, <3>1, <4>1 DEF Rows, Unmissable, GapInv, AllAhead
      <4>2. CASE ~inclusive
        <5>1. page = {}
          BY <1>1 DEF GapInv, AllAhead
        <5>2. ~(before <= Created[t])
          BY <1>1, <2>5, <3>1, <4>2, <5>1 DEF GapInv, NothingSkipped
        <5> QED
          BY <2>3, <2>4, <3>1, <5>2 DEF Rows
      <4> QED
        BY <4>1, <4>2
    <3>3. SUFFICES ASSUME t \notin page' PROVE FALSE
      OBVIOUS
    <3>4. Created[u] >= Created[t]
      BY <2>1, <2>2, <3>2, <3>3
    <3>5. Created[u] = Created[t] /\ u # t
      BY <2>1, <2>3, <2>4, <2>5, <3>3, <3>4
    <3> QED
      BY <2>4, <3>1, <3>5 DEF Unmissable
  <2>6. NothingSkipped'
    BY <1>1, <2>5 DEF NothingSkipped
  <2> QED
    BY <1>2, <1>3, <2>6 DEF GapInv
<1> QED
  BY <1>4, <1>5

LEMMA GapCount ==
  ASSUME TypeInv, PageInv, GapInv, NEW s \in Shares, CountShare(s)
  PROVE  GapInv'
<1>1. /\ UNCHANGED <<table, atStart, before, inclusive>>
      /\ s \in page /\ (\A t \in page : Created[t] <= Created[s])
      /\ pc = "share" /\ ~inclusive
  BY DEF CountShare, Newest, database, GapInv, AllAhead
<1>2. \A t \in Shares : counted'[t] = IF t = s THEN counted[s] + 1 ELSE counted[t]
  BY DEF CountShare, TypeInv, TypeOK
<1>3. \A t \in Shares : counted[t] \in Nat /\ Created[t] \in Nat
  BY PPLNSAssumption DEF TypeInv, TypeOK
<1>4. before \in Nat /\ before <= Created[s]
  BY <1>1 DEF PageInv, PageIsNew, TypeInv, TypeOK
<1>5. NothingSkipped'
  <2>1. CASE Fills(s)
    BY <2>1 DEF CountShare, NothingSkipped
  <2>2. CASE ~Fills(s)
    <3>1. page' = page \ {s}
      BY <2>2 DEF CountShare
    <3>2. \A t \in Shares : Unmissable(t)' => Unmissable(t)
      BY <1>1 DEF Unmissable
    <3> QED
      BY <1>1, <1>2, <1>3, <3>1, <3>2 DEF GapInv, NothingSkipped
  <2> QED
    BY <2>1, <2>2
<1>6. NoGap'
  <2> SUFFICES ASSUME NEW r \in Shares, NEW t \in atStart,
                      counted'[r] > 0, Created[t] > Created[r], Score[t] # -1,
                      \A u \in table \ {t} : Created[u] # Created[t]
               PROVE  counted'[t] > 0
    BY <1>1 DEF NoGap
  <2>1. t \in Shares
    BY DEF TypeInv, TypeOK
  <2>2. CASE r = s
    <3>1. t \notin page /\ before <= Created[t] /\ t # s
      BY <1>1, <1>3, <1>4, <2>1, <2>2
    <3>2. counted[t] > 0
      BY <1>1, <2>1, <3>1 DEF GapInv, NothingSkipped, Unmissable
    <3> QED
      BY <1>2, <2>1, <3>1, <3>2
  <2>3. CASE r # s
    <3>1. counted[t] > 0
      BY <1>2, <2>3 DEF GapInv, NoGap
    <3> QED
      BY <1>2, <1>3, <2>1, <3>1
  <2> QED
    BY <2>2, <2>3
<1>7. AllAhead'
  <2>1. page' = {} \/ pc' # "read"
    BY DEF CountShare, Onward
  <2> QED
    BY <1>1, <2>1 DEF GapInv, AllAhead
<1> QED
  BY <1>5, <1>6, <1>7 DEF GapInv

LEMMA GapStep == TypeInv /\ PageInv /\ GapInv /\ [Next]_vars => GapInv'
<1> SUFFICES ASSUME TypeInv, PageInv, GapInv, [Next]_vars PROVE GapInv'
  OBVIOUS
<1>0. ASSUME UNCHANGED <<pc, reading, sharing, atStart>>, table \subseteq table' PROVE GapInv'
  BY <1>0 DEF GapInv, NothingSkipped, AllAhead, NoGap, Unmissable, reading, sharing
<1>1. ASSUME NEW s \in Shares, StoreShare(s) PROVE GapInv'
  BY <1>0, <1>1 DEF StoreShare
<1>2. ASSUME NEW b \in Blocks, Mature(b) PROVE GapInv'
  BY <1>0, <1>2 DEF Mature, database
<1>3. CASE StartCycle
  BY <1>0, <1>3 DEF StartCycle, database
<1>4. ASSUME NEW b \in Blocks, UpdateBalances(b) PROVE GapInv'
  <2>1. page = {} /\ \A s \in Shares : counted[s] = 0
    BY <1>4 DEF UpdateBalances, PageInv, IdleIsFresh
  <2>2. UNCHANGED <<table, page, counted, inclusive>> /\ pc' = "read"
    BY <1>4 DEF UpdateBalances, reading, sharing, database
  <2>3. atStart' = {s \in table : Created[s] <= before'}
    BY <1>4 DEF UpdateBalances
  <2>4. inclusive
    BY <1>4 DEF UpdateBalances, PageInv, IdleIsFresh
  <2> QED
    BY <2>1, <2>2, <2>3, <2>4 DEF GapInv, NothingSkipped, AllAhead, NoGap
<1>5. CASE ReadSharesBeforeCreated
  BY <1>5, GapRead
<1>6. ASSUME NEW s \in Shares, SkipShare(s) PROVE GapInv'
  <2>1. /\ UNCHANGED <<table, atStart, before, inclusive, counted>> /\ pc = "share"
        /\ page' = page \ {s} /\ Score[s] = -1 /\ (page' = {} \/ pc' # "read")
    BY <1>6 DEF SkipShare, Onward, database, sharing
  <2> QED
    BY <2>1 DEF GapInv, NothingSkipped, AllAhead, NoGap, Unmissable
<1>7. ASSUME NEW s \in Shares, CountShare(s) PROVE GapInv'
  BY <1>7, GapCount
<1>8. ASSUME NEW s \in Shares, Overflow(s) PROVE GapInv'
  BY <1>8, GapLeave DEF Overflow, Abandon
<1>9. CASE StoreRewards
  BY <1>9, GapLeave DEF StoreRewards
<1>10. CASE Fail
  BY <1>10, GapLeave DEF Fail, Abandon
<1>11. CASE UNCHANGED vars
  BY <1>0, <1>11 DEF vars, database
<1> QED
  BY <1>1, <1>2, <1>3, <1>4, <1>5, <1>6, <1>7, <1>8, <1>9, <1>10, <1>11
  DEF Next, Calculate, Environment

(***************************************************************************)
(* The window is laid over the newest shares without a gap: when a share   *)
(* counts, every newer one of the start that shares its date with no other *)
(* row has counted, for every page size and every interleaving with the    *)
(* share recorder.                                                         *)
(***************************************************************************)
THEOREM NoShareIsSkipped == Spec => []NoGap
<1>1. Init => TypeInv /\ PageInv /\ GapInv
  BY TypeInit, PageInit, GapInit
<1>2. TypeInv /\ PageInv /\ GapInv /\ [Next]_vars => (TypeInv /\ PageInv /\ GapInv)'
  BY TypeStep, PageStep, GapStep
<1>3. GapInv => NoGap
  BY DEF GapInv
<1> QED
  BY <1>1, <1>2, <1>3, PTL DEF Spec

-----------------------------------------------------------------------------
(***************************************************************************)
(* What the miners are paid for adds up.  Each share adds the same to the  *)
(* score and to the reward of its miner, unless the block leaves nothing   *)
(* to pay; a calculation starts with neither.                              *)
(***************************************************************************)
StartsAtZero == pc = "idle" => accumulatedScore = 0 /\ rewards = Nobody

SharedOut ==
  block # None =>
    /\ Total(rewards, Miners) <= accumulatedScore
    /\ BlockReward[block] > 0 => Total(rewards, Miners) = accumulatedScore

RewardInv ==
  StartsAtZero /\ SharedOut /\ \A b \in Blocks : Total(credit[b], Miners) <= Window

LEMMA NobodyTotal == Total(Nobody, Miners) = 0
  BY TotalZero, PPLNSAssumption DEF Nobody

LEMMA RewardInit == Init => RewardInv
<1> SUFFICES ASSUME Init
             PROVE  RewardInv
  OBVIOUS
<1>1. \A b \in Blocks : credit[b] = Nobody
  BY DEF Init
<1> QED
  BY <1>1, NobodyTotal, PPLNSAssumption DEF Init, RewardInv, StartsAtZero, SharedOut

(* The reward a share gains is its capped score, if there is any reward. *)
LEMMA GainsScore ==
  ASSUME NEW s \in Shares, NEW n \in Nat, NEW r \in Int
  PROVE  /\ n * r > 0 => n > 0 /\ r > 0
         /\ r > 0 /\ n > 0 => n * r > 0
<1>1. n = 0 => n * r = 0
  OBVIOUS
<1>2. r <= 0 => n * r <= 0
  OBVIOUS
<1>3. r > 0 /\ n > 0 => n * r > 0
  OBVIOUS
<1> QED
  BY <1>1, <1>2, <1>3

LEMMA RewardCount ==
  ASSUME TypeInv, RewardInv, NEW s \in Shares, CountShare(s)
  PROVE  RewardInv'
<1>1. /\ UNCHANGED <<credit, block>> /\ pc' # "idle"
      /\ accumulatedScore' = accumulatedScore + Capped(s)
      /\ block \in Blocks
  BY DEF CountShare, Onward, database, TypeInv, TypeOK, Busy
<1>2. Capped(s) \in Nat /\ accumulatedScore \in Nat
  BY CappedFits, PPLNSAssumption DEF CountShare, TypeInv, TypeOK
<1>3. /\ rewards \in [Miners -> Nat] /\ Miner[s] \in Miners
      /\ IsFiniteSet(Miners) /\ BlockReward[block] \in Int
  BY <1>1, PPLNSAssumption DEF TypeInv, TypeOK
<1>4. Total(rewards, Miners) \in Nat
  BY <1>3, TotalNat
<1>5. \/ UNCHANGED rewards /\ (Capped(s) = 0 \/ BlockReward[block] <= 0)
      \/ rewards' = [rewards EXCEPT ![Miner[s]] = @ + Capped(s)] /\ BlockReward[block] > 0
  BY <1>2, <1>3, GainsScore DEF CountShare
<1>6. CASE UNCHANGED rewards /\ (Capped(s) = 0 \/ BlockReward[block] <= 0)
  BY <1>1, <1>2, <1>3, <1>4, <1>6 DEF RewardInv, StartsAtZero, SharedOut
<1>7. CASE rewards' = [rewards EXCEPT ![Miner[s]] = @ + Capped(s)] /\ BlockReward[block] > 0
  <2>1. /\ \A m \in Miners \ {Miner[s]} : rewards'[m] = rewards[m]
        /\ rewards'[Miner[s]] = rewards[Miner[s]] + Capped(s)
    BY <1>3, <1>7
  <2>2. Total(rewards', Miners) = Total(rewards, Miners) - rewards[Miner[s]] + rewards'[Miner[s]]
    BY <1>2, <1>3, <2>1, TotalExcept
  <2>3. Total(rewards', Miners) = Total(rewards, Miners) + Capped(s)
    BY <1>2, <1>3, <1>4, <2>1, <2>2
  <2> QED
    BY <1>1, <1>2, <1>4, <1>7, <2>3 DEF RewardInv, StartsAtZero, SharedOut
<1> QED
  BY <1>5, <1>6, <1>7

LEMMA RewardLeave ==
  ASSUME Leave, \A b \in Blocks : Total(credit'[b], Miners) <= Window
  PROVE  RewardInv'
BY DEF Leave, RewardInv, StartsAtZero, SharedOut

LEMMA RewardStep == TypeInv /\ RewardInv /\ [Next]_vars => RewardInv'
<1> SUFFICES ASSUME TypeInv, RewardInv, [Next]_vars PROVE RewardInv'
  OBVIOUS
<1>0. ASSUME UNCHANGED <<credit, block, sharing>>, pc' = "idle" => pc = "idle" PROVE RewardInv'
  BY <1>0 DEF RewardInv, StartsAtZero, SharedOut, sharing
<1>1. ASSUME NEW s \in Shares, StoreShare(s) PROVE RewardInv'
  BY <1>0, <1>1 DEF StoreShare
<1>2. ASSUME NEW b \in Blocks, Mature(b) PROVE RewardInv'
  BY <1>0, <1>2 DEF Mature, database
<1>3. CASE StartCycle
  BY <1>0, <1>3 DEF StartCycle, database
<1>4. ASSUME NEW b \in Blocks, UpdateBalances(b) PROVE RewardInv'
  <2>1. pc = "idle" /\ pc' # "idle" /\ UNCHANGED <<credit, sharing>>
    BY <1>4 DEF UpdateBalances, database
  <2>2. accumulatedScore' = 0 /\ rewards' = Nobody
    BY <2>1 DEF RewardInv, StartsAtZero, sharing
  <2> QED
    BY <2>1, <2>2, NobodyTotal DEF RewardInv, StartsAtZero, SharedOut
<1>5. CASE ReadSharesBeforeCreated
  BY <1>0, <1>5 DEF ReadSharesBeforeCreated, database
<1>6. ASSUME NEW s \in Shares, SkipShare(s) PROVE RewardInv'
  BY <1>0, <1>6 DEF SkipShare, Onward, database
<1>7. ASSUME NEW s \in Shares, CountShare(s) PROVE RewardInv'
  BY <1>7, RewardCount
<1>8. ASSUME NEW s \in Shares, Overflow(s) PROVE RewardInv'
  BY <1>8, RewardLeave DEF Overflow, Abandon, RewardInv, database
<1>9. CASE StoreRewards
  <2>1. block \in Blocks /\ block # None
    BY <1>9 DEF StoreRewards, TypeInv, TypeOK, Busy
  <2>2. Total(rewards, Miners) <= Window
    <3>1. Total(rewards, Miners) <= accumulatedScore /\ accumulatedScore \in 0 .. Window
      BY <2>1 DEF RewardInv, SharedOut, TypeInv, TypeOK
    <3>2. Total(rewards, Miners) \in Nat
      BY TotalNat, PPLNSAssumption DEF TypeInv, TypeOK
    <3> QED
      BY <3>1, <3>2, PPLNSAssumption
  <2>3. \A b \in Blocks : Total(credit'[b], Miners) <= Window
    <3>1. \A b \in Blocks : credit'[b] = IF b = block THEN rewards ELSE credit[b]
      BY <1>9, <2>1 DEF StoreRewards, TypeInv, TypeOK
    <3> QED
      BY <2>2, <3>1 DEF RewardInv
  <2> QED
    BY <1>9, <2>3, RewardLeave DEF StoreRewards
<1>10. CASE Fail
  BY <1>10, RewardLeave DEF Fail, Abandon, RewardInv, database
<1>11. CASE UNCHANGED vars
  BY <1>0, <1>11 DEF vars, database
<1> QED
  BY <1>1, <1>2, <1>3, <1>4, <1>5, <1>6, <1>7, <1>8, <1>9, <1>10, <1>11
  DEF Next, Calculate, Environment

(***************************************************************************)
(* The miners' parts add up to the counted score, and no block is shared   *)
(* out more than once over: for every number of miners and shares, every   *)
(* window and every reward, a negative one included.                       *)
(***************************************************************************)
THEOREM PartsAddUp == Spec => []RewardsAddUp
<1>1. Init => TypeInv /\ RewardInv
  BY TypeInit, RewardInit
<1>2. TypeInv /\ RewardInv /\ [Next]_vars => (TypeInv /\ RewardInv)'
  BY TypeStep, RewardStep
<1>3. RewardInv => RewardsAddUp
  BY DEF RewardInv, SharedOut, RewardsAddUp
<1> QED
  BY <1>1, <1>2, <1>3, PTL DEF Spec

-----------------------------------------------------------------------------
(***************************************************************************)
(* The windows of later blocks stay whole.  A cut-off date is set when the *)
(* counted shares fill the window, and none of them is older; they are the *)
(* rows that stay for the blocks after this one.                           *)
(***************************************************************************)
Counted == {s \in Shares : counted[s] > 0}

InsideBlock ==
  pc # "idle" =>
    /\ before <= BlockCreated[block] /\ page \subseteq table /\ Counted \subseteq table
    /\ \A s \in page \cup Counted : Created[s] <= BlockCreated[block]

HaveScores == \A s \in Counted : Score[s] # -1

NewestFirst == \A s \in Counted, t \in page : Created[t] <= Created[s]

CutOff ==
  /\ shareCutOffDate = None => accumulatedScore < Window
  /\ shareCutOffDate # None =>
       /\ pc = "store" /\ accumulatedScore = Window
       /\ \A s \in Counted : shareCutOffDate <= Created[s]

Filled == accumulatedScore <= Total(Score, Counted)

CountInv == InsideBlock /\ HaveScores /\ NewestFirst /\ CutOff /\ Filled

FiniteTable == IsFiniteSet(stored)

(* the rows a later block can count *)
RowsLeft(b) ==
  {s \in table : Score[s] # -1 /\ cut <= Created[s] /\ Created[s] <= BlockCreated[b]}

WindowInv == FiniteTable /\ CountInv /\ LaterWindowsWhole

LEMMA CountFresh ==
  ASSUME pc = "idle", Counted = {}, page = {}, shareCutOffDate = None, accumulatedScore = 0
  PROVE  CountInv
BY TotalStep, PPLNSAssumption
DEF CountInv, InsideBlock, HaveScores, NewestFirst, CutOff, Filled

LEMMA CountLeave ==
  ASSUME Leave PROVE CountInv'
<1>1. Counted' = {}
  BY DEF Leave, Counted, Uncounted
<1>2. /\ pc' = "idle" /\ page' = {} /\ shareCutOffDate' = None /\ accumulatedScore' = 0
  BY DEF Leave
<1> QED
  BY <1>1, <1>2, TotalStep, PPLNSAssumption
  DEF CountInv, InsideBlock, HaveScores, NewestFirst, CutOff, Filled

LEMMA WindowInit == Init => WindowInv
<1> SUFFICES ASSUME Init
             PROVE  WindowInv
  OBVIOUS
<1>1. Counted = {}
  BY DEF Init, Counted, Uncounted
<1>2. LaterWindowsWhole
  BY DEF Init, LaterWindowsWhole
<1> QED
  BY <1>1, <1>2, CountFresh, FS_EmptySet DEF Init, WindowInv, FiniteTable

LEMMA CountedFinite ==
  ASSUME TypeInv, FiniteTable, CountInv, pc # "idle"
  PROVE  /\ IsFiniteSet(table) /\ IsFiniteSet(Counted) /\ IsFiniteSet(page)
         /\ \A s \in Counted : Score[s] \in Nat
<1>1. IsFiniteSet(table)
  BY FS_Subset DEF FiniteTable, TypeInv, TypeOK
<1>2. IsFiniteSet(Counted) /\ IsFiniteSet(page)
  BY <1>1, FS_Subset DEF CountInv, InsideBlock
<1> QED
  BY <1>1, <1>2, PPLNSAssumption DEF CountInv, HaveScores, Counted

LEMMA CountRead ==
  ASSUME TypeInv, PageInv, CountInv, ReadSharesBeforeCreated
  PROVE  CountInv'
<1>1. /\ UNCHANGED <<table, Counted, block, accumulatedScore, shareCutOffDate>>
      /\ pc = "read" /\ block \in Blocks
  BY DEF ReadSharesBeforeCreated, database, sharing, Counted, TypeInv, TypeOK, Busy
<1>2. page' \subseteq Rows
  BY DEF ReadSharesBeforeCreated, Pages
<1>3. /\ \A s \in Shares : Created[s] \in Nat
      /\ before \in Nat /\ BlockCreated[block] \in Nat /\ Rows \subseteq Shares
  BY <1>1, PPLNSAssumption DEF TypeInv, TypeOK, Rows
<1>4. before <= BlockCreated[block]
  BY <1>1 DEF CountInv, InsideBlock
<1>5. before' <= BlockCreated[block]
  <2>1. CASE page' = {}
    BY <1>4, <2>1 DEF ReadSharesBeforeCreated
  <2>2. CASE page' # {}
    <3>1. PICK s \in page' : before' = Created[s]
      BY <2>2 DEF ReadSharesBeforeCreated
    <3> QED
      BY <1>2, <1>3, <1>4, <3>1 DEF Rows
  <2> QED
    BY <2>1, <2>2
<1>6. \A s \in page' : s \in table /\ Created[s] <= BlockCreated[block]
  BY <1>2, <1>3, <1>4 DEF Rows
<1>7. InsideBlock'
  BY <1>1, <1>5, <1>6 DEF CountInv, InsideBlock
<1>8. NewestFirst'
  <2> SUFFICES ASSUME NEW s \in Counted, NEW t \in page'
               PROVE  Created[t] <= Created[s]
    BY <1>1 DEF NewestFirst
  <2>1. ~inclusive /\ before <= Created[s] /\ s \in Shares
    BY DEF PageInv, CountedAreBehind, Counted
  <2> QED
    BY <1>2, <1>3, <2>1 DEF Rows
<1> QED
  BY <1>1, <1>7, <1>8 DEF CountInv, HaveScores, CutOff, Filled

LEMMA CountCount ==
  ASSUME TypeInv, PageInv, FiniteTable, CountInv, NEW s \in Shares, CountShare(s)
  PROVE  /\ CountInv'
         /\ s \notin Counted /\ Counted' = Counted \cup {s}
         /\ Total(Score, Counted') = Total(Score, Counted) + Score[s]
<1>1. /\ UNCHANGED <<table, block, before>> /\ pc = "share" /\ pc' # "idle"
      /\ page' \subseteq page /\ s \in page /\ Score[s] \in Nat
      /\ block \in Blocks
  BY PPLNSAssumption DEF CountShare, Onward, Newest, database, TypeInv, TypeOK, Busy
<1>2. s \notin Counted /\ Counted' = Counted \cup {s}
  <2>1. counted[s] = 0
    BY <1>1 DEF PageInv, PageIsNew
  <2>2. \A t \in Shares : counted'[t] = IF t = s THEN 1 ELSE counted[t]
    BY <2>1 DEF CountShare, TypeInv, TypeOK
  <2> QED
    BY <2>1, <2>2 DEF Counted
<1>3. IsFiniteSet(Counted) /\ \A t \in Counted : Score[t] \in Nat
  BY <1>1, CountedFinite
<1>4. Total(Score, Counted') = Total(Score, Counted) + Score[s]
  <2>1. Total(Score, Counted \cup {s}) = Total(Score, Counted) + Score[s]
    BY <1>1, <1>2, <1>3, TotalAdd
  <2> QED
    BY <1>2, <2>1
<1>5. InsideBlock'
  BY <1>1, <1>2 DEF CountInv, InsideBlock
<1>6. HaveScores'
  BY <1>1, <1>2 DEF CountInv, HaveScores
<1>7. \A t \in page : Created[t] <= Created[s]
  BY DEF CountShare, Newest
<1>8. NewestFirst'
  BY <1>1, <1>2, <1>7 DEF CountInv, NewestFirst
<1>9. /\ accumulatedScore \in Nat /\ Window \in Nat /\ Total(Score, Counted) \in Nat
      /\ shareCutOffDate = None
  BY <1>1, <1>3, TotalNat, PPLNSAssumption DEF TypeInv, TypeOK, CountInv, CutOff
<1>10. Filled'
  <2>1. accumulatedScore' <= accumulatedScore + Score[s]
    BY <1>1, <1>9 DEF CountShare, Capped, Fills
  <2>2. accumulatedScore' \in Nat
    BY <1>9, CappedFits DEF CountShare, TypeInv
  <2> QED
    BY <1>1, <1>4, <1>9, <2>1, <2>2 DEF CountInv, Filled
<1>11. CutOff'
  <2>1. CASE Fills(s)
    <3>1. shareCutOffDate' = Created[s] /\ pc' = "store" /\ accumulatedScore' = Window
      BY <1>9, <2>1 DEF CountShare, Capped
    <3>2. \A t \in Counted : Created[s] <= Created[t]
      BY <1>1 DEF CountInv, NewestFirst
    <3>3. Created[s] \in Nat
      BY PPLNSAssumption
    <3> QED
      BY <1>2, <3>1, <3>2, <3>3, PPLNSAssumption DEF CutOff
  <2>2. CASE ~Fills(s)
    <3>1. accumulatedScore' < Window
      BY <1>1, <1>9, <2>2 DEF CountShare, Capped, Fills
    <3>2. shareCutOffDate' = None
      BY <1>9, <2>2 DEF CountShare
    <3> QED
      BY <3>1, <3>2 DEF CutOff
  <2> QED
    BY <2>1, <2>2
<1> QED
  BY <1>2, <1>4, <1>5, <1>6, <1>8, <1>10, <1>11 DEF CountInv

LEMMA CountStep == TypeInv /\ PageInv /\ FiniteTable /\ CountInv /\ [Next]_vars => CountInv'
<1> SUFFICES ASSUME TypeInv, PageInv, FiniteTable, CountInv, [Next]_vars PROVE CountInv'
  OBVIOUS
<1>0. ASSUME UNCHANGED <<pc, block, reading, sharing>>, table \subseteq table' PROVE CountInv'
  BY <1>0 DEF CountInv, InsideBlock, HaveScores, NewestFirst, CutOff, Filled, Counted,
              reading, sharing
<1>1. ASSUME NEW s \in Shares, StoreShare(s) PROVE CountInv'
  BY <1>0, <1>1 DEF StoreShare
<1>2. ASSUME NEW b \in Blocks, Mature(b) PROVE CountInv'
  BY <1>0, <1>2 DEF Mature, database
<1>3. CASE StartCycle
  BY <1>0, <1>3 DEF StartCycle, database
<1>4. ASSUME NEW b \in Blocks, UpdateBalances(b) PROVE CountInv'
  <2>1. /\ pc = "idle" /\ pc' = "read" /\ block' = b /\ before' = BlockCreated[b]
        /\ UNCHANGED <<page, sharing>>
    BY <1>4 DEF UpdateBalances, reading
  <2>2. page = {} /\ Counted = {} /\ Counted' = {}
    BY <2>1, PPLNSAssumption
    DEF PageInv, IdleIsFresh, Counted, sharing, TypeInv, TypeOK
  <2>3. BlockCreated[b] \in Nat
    BY PPLNSAssumption
  <2>4. CutOff' /\ Filled' /\ HaveScores' /\ NewestFirst'
    BY <2>1, <2>2 DEF CountInv, CutOff, Filled, HaveScores, NewestFirst, sharing
  <2> QED
    BY <2>1, <2>2, <2>3, <2>4 DEF CountInv, InsideBlock
<1>5. CASE ReadSharesBeforeCreated
  BY <1>5, CountRead
<1>6. ASSUME NEW s \in Shares, SkipShare(s) PROVE CountInv'
  <2>1. /\ UNCHANGED <<table, block, before, sharing>> /\ page' \subseteq page
        /\ pc = "share" /\ pc' # "idle"
    BY <1>6 DEF SkipShare, Onward, database
  <2>2. shareCutOffDate = None
    BY <2>1 DEF CountInv, CutOff
  <2> QED
    BY <2>1, <2>2
    DEF CountInv, InsideBlock, HaveScores, NewestFirst, CutOff, Filled, Counted, sharing
<1>7. ASSUME NEW s \in Shares, CountShare(s) PROVE CountInv'
  BY <1>7, CountCount
<1>8. ASSUME NEW s \in Shares, Overflow(s) PROVE CountInv'
  BY <1>8, CountLeave DEF Overflow, Abandon
<1>9. CASE StoreRewards
  BY <1>9, CountLeave DEF StoreRewards
<1>10. CASE Fail
  BY <1>10, CountLeave DEF Fail, Abandon
<1>11. CASE UNCHANGED vars
  BY <1>0, <1>11 DEF vars, database
<1> QED
  BY <1>1, <1>2, <1>3, <1>4, <1>5, <1>6, <1>7, <1>8, <1>9, <1>10, <1>11
  DEF Next, Calculate, Environment

(* One share is stored at a time. *)
LEMMA FiniteStep == FiniteTable /\ [Next]_vars => FiniteTable'
<1> SUFFICES ASSUME FiniteTable, [Next]_vars PROVE FiniteTable'
  OBVIOUS
<1>1. ASSUME NEW s \in Shares, StoreShare(s) PROVE FiniteTable'
  BY <1>1, FS_AddElement DEF StoreShare, FiniteTable
<1>2. UNCHANGED stored => FiniteTable'
  BY DEF FiniteTable
<1>3. (\E s \in Shares : StoreShare(s)) \/ UNCHANGED stored
  BY DEF Next, Calculate, Environment, StoreShare, Mature, StartCycle, UpdateBalances,
         ReadSharesBeforeCreated, SkipShare, CountShare, Overflow, StoreRewards, Fail,
         Abandon, vars, database
<1> QED
  BY <1>1, <1>2, <1>3

LEMMA RowsLeftFinite ==
  ASSUME TypeInv, FiniteTable, NEW b \in Blocks
  PROVE  IsFiniteSet(RowsLeft(b)) /\ \A s \in RowsLeft(b) : Score[s] \in Nat
<1>1. IsFiniteSet(table) /\ table \subseteq Shares
  BY FS_Subset DEF FiniteTable, TypeInv, TypeOK
<1>2. IsFiniteSet(RowsLeft(b))
  BY <1>1, FS_Subset DEF RowsLeft
<1> QED
  BY <1>1, <1>2, PPLNSAssumption DEF RowsLeft

(* Rows that are added to those of a window keep it whole. *)
LEMMA MoreRows ==
  ASSUME TypeInv', FiniteTable', NEW b \in Blocks, NEW R, R \subseteq RowsLeft(b)',
         Total(Score, R) >= Window
  PROVE  Total(Score, RowsLeft(b)') >= Window
<1> DEFINE L == RowsLeft(b)'
<1>1. IsFiniteSet(L) /\ \A s \in L : Score[s] \in Nat
  <2>1. IsFiniteSet(table') /\ table' \subseteq Shares
    BY FS_Subset DEF FiniteTable, TypeInv, TypeOK
  <2>2. IsFiniteSet(L)
    BY <2>1, FS_Subset DEF RowsLeft
  <2> QED
    BY <2>1, <2>2, PPLNSAssumption DEF RowsLeft
<1> HIDE DEF L
<1>2. IsFiniteSet(R) /\ R \subseteq L
  BY <1>1, FS_Subset DEF L
<1>3. Total(Score, R) <= Total(Score, L)
  BY <1>1, <1>2, TotalMonotone
<1>4. Total(Score, R) \in Nat /\ Total(Score, L) \in Nat
  BY <1>1, <1>2, TotalNat
<1> QED
  BY <1>3, <1>4, PPLNSAssumption DEF L

LEMMA WindowStore ==
  ASSUME TypeInv, TypeInv', FiniteTable', WindowInv, StoreRewards
  PROVE  LaterWindowsWhole'
<1> SUFFICES ASSUME NEW b \in Blocks \ paid', cut' > 0,
                    \A c \in paid' : BlockCreated[c] <= BlockCreated[b]
             PROVE  Total(Score, RowsLeft(b)') >= Window
  BY DEF LaterWindowsWhole, RowsLeft
<1>1. /\ paid' = paid \cup {block} /\ table' = Kept /\ block \in Blocks /\ pc = "store"
      /\ cut' = IF shareCutOffDate # None /\ shareCutOffDate > cut THEN shareCutOffDate ELSE cut
  BY DEF StoreRewards, TypeInv, TypeOK, Busy
<1>2. /\ BlockCreated[block] <= BlockCreated[b] /\ b \in Blocks \ paid
      /\ \A c \in paid : BlockCreated[c] <= BlockCreated[b]
  BY <1>1
<1>3. /\ \A s \in Shares : Created[s] \in Nat
      /\ BlockCreated[b] \in Nat /\ BlockCreated[block] \in Nat /\ cut \in Nat
      /\ shareCutOffDate \in Nat \cup {None} /\ table \subseteq Shares
  BY <1>1, PPLNSAssumption DEF TypeInv, TypeOK
<1>4. CASE shareCutOffDate # None /\ shareCutOffDate > cut
  <2>1. Total(Score, Counted) >= Window
    BY <1>4, TotalNat, PPLNSAssumption DEF WindowInv, CountInv, CutOff, Filled
  <2>2. Counted \subseteq RowsLeft(b)'
    <3> SUFFICES ASSUME NEW s \in Counted
                 PROVE  s \in RowsLeft(b)'
      OBVIOUS
    <3>1. s \in table /\ Created[s] <= BlockCreated[block] /\ Score[s] # -1
      BY <1>1 DEF WindowInv, CountInv, InsideBlock, HaveScores
    <3>2. shareCutOffDate <= Created[s]
      BY <1>4 DEF WindowInv, CountInv, CutOff
    <3>3. s \in table'
      BY <1>1, <1>3, <3>1, <3>2, <1>4 DEF Kept
    <3> QED
      BY <1>1, <1>2, <1>3, <1>4, <3>1, <3>2, <3>3 DEF RowsLeft
  <2> QED
    BY <2>1, <2>2, MoreRows
<1>5. CASE ~(shareCutOffDate # None /\ shareCutOffDate > cut)
  <2>1. cut' = cut /\ cut > 0
    BY <1>1, <1>5
  <2>2. Total(Score, RowsLeft(b)) >= Window
    BY <1>2, <2>1 DEF WindowInv, LaterWindowsWhole, RowsLeft
  <2>3. RowsLeft(b) \subseteq RowsLeft(b)'
    BY <1>1, <1>3, <1>5, <2>1 DEF RowsLeft, Kept
  <2> QED
    BY <2>2, <2>3, MoreRows
<1> QED
  BY <1>4, <1>5

LEMMA WindowStep ==
  ASSUME TypeInv, TypeInv', PageInv, WindowInv, [Next]_vars
  PROVE  WindowInv'
<1>1. FiniteTable' /\ CountInv'
  BY FiniteStep, CountStep DEF WindowInv
<1>2. ASSUME UNCHANGED <<paid, cut>>, table \subseteq table'
      PROVE  LaterWindowsWhole'
  <2> SUFFICES ASSUME NEW b \in Blocks \ paid, cut > 0,
                      \A c \in paid : BlockCreated[c] <= BlockCreated[b]
               PROVE  Total(Score, RowsLeft(b)') >= Window
    BY <1>2 DEF LaterWindowsWhole, RowsLeft
  <2>1. Total(Score, RowsLeft(b)) >= Window
    BY DEF WindowInv, LaterWindowsWhole, RowsLeft
  <2>2. RowsLeft(b) \subseteq RowsLeft(b)'
    BY <1>2 DEF RowsLeft
  <2> QED
    BY <1>1, <2>1, <2>2, MoreRows
<1>3. StoreRewards \/ (UNCHANGED <<paid, cut>> /\ table \subseteq table')
  BY DEF Next, Calculate, Environment, StoreShare, Mature, StartCycle, UpdateBalances,
         ReadSharesBeforeCreated, SkipShare, CountShare, Overflow, Fail, Abandon, vars, database
<1>4. CASE StoreRewards
  BY <1>1, <1>4, WindowStore DEF WindowInv
<1> QED
  BY <1>1, <1>2, <1>3, <1>4 DEF WindowInv

(***************************************************************************)
(* Deleting shares never starves a later block: what is left on or after   *)
(* the latest cut-off date fills the window of every block that is not     *)
(* older than the paid ones, for every window, page size and interleaving  *)
(* with the share recorder.                                                *)
(***************************************************************************)
THEOREM WindowsStayWhole == Spec => []LaterWindowsWhole
<1>1. Init => TypeInv /\ PageInv /\ WindowInv
  BY TypeInit, PageInit, WindowInit
<1>2. TypeInv /\ PageInv /\ WindowInv /\ [Next]_vars => (TypeInv /\ PageInv /\ WindowInv)'
  BY TypeStep, PageStep, WindowStep
<1>3. WindowInv => LaterWindowsWhole
  BY DEF WindowInv
<1> QED
  BY <1>1, <1>2, <1>3, PTL DEF Spec

-----------------------------------------------------------------------------
(***************************************************************************)
(* Every miner gets its part of the window.  While nobody disturbs the     *)
(* calculation, the shares counted so far are the newest of the start, so  *)
(* that the score accumulated when a share is counted is that of all newer *)
(* shares: the share gains what the reference gives to it.                 *)
(***************************************************************************)
WindowRows == {s \in atStart : Score[s] # -1}

Newer(s) == {t \in WindowRows : Created[t] > Created[s]}

Part(s) ==
  IF Total(Score, Newer(s)) >= Window THEN 0
    ELSE IF Total(Score, Newer(s)) + Score[s] > Window
           THEN Window - Total(Score, Newer(s)) ELSE Score[s]

Parts == [s \in WindowRows |-> Part(s)]

CountedOf(m) == {s \in Counted : Miner[s] = m}

(* no equal dates, no rows inserted into the window meanwhile *)
Undisturbed ==
  /\ pc # "idle" /\ BlockReward[block] > 0
  /\ {s \in table : Created[s] <= BlockCreated[block]} = atStart
  /\ \A s, t \in atStart : Created[s] = Created[t] => s = t

StartIsBefore == pc # "idle" => \A s \in atStart : Created[s] <= BlockCreated[block]

(* a page that is not full is the last one *)
AllSeen ==
  (pc = "share" /\ ~full) \/ (pc = "store" /\ shareCutOffDate = None)
    => \A t \in Shares : Unmissable(t) => t \in Counted \/ t \in page

StoreIsLast == pc = "store" => page = {}

Exact ==
  accumulatedScore =
    IF Total(Score, Counted) >= Window THEN Window ELSE Total(Score, Counted)

PaidInParts == Undisturbed => \A m \in Miners : rewards[m] = Total(Parts, CountedOf(m))

DueInv == StartIsBefore /\ AllSeen /\ StoreIsLast /\ Exact /\ PaidInParts

LEMMA DueLeave ==
  ASSUME Leave PROVE DueInv'
<1>1. Counted' = {}
  BY DEF Leave, Counted, Uncounted
<1> QED
  BY <1>1, TotalStep, PPLNSAssumption
  DEF Leave, DueInv, StartIsBefore, AllSeen, StoreIsLast, Exact, PaidInParts, Undisturbed

LEMMA DueInit == Init => DueInv
<1> SUFFICES ASSUME Init
             PROVE  DueInv
  OBVIOUS
<1>1. Counted = {}
  BY DEF Init, Counted, Uncounted
<1> QED
  BY <1>1, TotalStep, PPLNSAssumption
  DEF Init, DueInv, StartIsBefore, AllSeen, StoreIsLast, Exact, PaidInParts, Undisturbed

(* Rows that are inserted can only disturb. *)
LEMMA StaysUndisturbed ==
  ASSUME GapInv, StartIsBefore, UNCHANGED <<block, atStart>>, table \subseteq table',
         pc # "idle", Undisturbed'
  PROVE  Undisturbed
<1>1. \A s \in atStart : s \in table /\ Created[s] <= BlockCreated[block]
  BY DEF GapInv, AllAhead, StartIsBefore
<1> QED
  BY <1>1 DEF Undisturbed

LEMMA UndisturbedRows ==
  ASSUME TypeInv, CountInv, GapInv, StartIsBefore, Undisturbed
  PROVE  /\ \A s \in page \cup Counted : s \in atStart
         /\ Counted \subseteq WindowRows
         /\ \A t \in WindowRows : Unmissable(t)
<1>1. \A s \in page \cup Counted : s \in atStart
  BY DEF CountInv, InsideBlock, Undisturbed
<1>2. Counted \subseteq WindowRows
  BY <1>1 DEF CountInv, HaveScores, WindowRows
<1>3. ASSUME NEW t \in WindowRows, NEW u \in table \ {t}, Created[u] = Created[t]
      PROVE  FALSE
  BY <1>3 DEF WindowRows, StartIsBefore, Undisturbed
<1> QED
  BY <1>1, <1>2, <1>3 DEF Unmissable, WindowRows

(* the newer shares of the one that is counted next are the counted ones *)
LEMMA NewerAreCounted ==
  ASSUME TypeInv, PageInv, CountInv, GapInv, StartIsBefore, Undisturbed,
         NEW s \in Shares, CountShare(s)
  PROVE  s \in WindowRows /\ Newer(s) = Counted
<1>1. /\ s \in page /\ (\A t \in page : Created[t] <= Created[s]) /\ Score[s] # -1
      /\ pc = "share" /\ ~inclusive /\ before <= Created[s] /\ counted[s] = 0
  BY DEF CountShare, Newest, PageInv, PageIsNew
<1>2. s \in WindowRows
  BY <1>1, UndisturbedRows DEF WindowRows
<1>3. /\ \A t \in Shares : Created[t] \in Nat
      /\ before \in Nat /\ atStart \subseteq Shares /\ WindowRows \subseteq Shares
  BY PPLNSAssumption DEF TypeInv, TypeOK, WindowRows
<1>4. ASSUME NEW t \in Newer(s)
      PROVE  t \in Counted
  <2>1. t \in WindowRows /\ Created[t] > Created[s] /\ t \in Shares
    BY <1>3 DEF Newer
  <2>2. before <= Created[t] /\ t \notin page
    BY <1>1, <1>3, <2>1
  <2> QED
    BY <1>1, <2>1, <2>2, UndisturbedRows DEF GapInv, NothingSkipped, Counted
<1>5. ASSUME NEW t \in Counted
      PROVE  t \in Newer(s)
  <2>1. t \in WindowRows /\ t # s /\ Created[s] <= Created[t]
    BY <1>1, UndisturbedRows DEF CountInv, NewestFirst, Counted
  <2>2. Created[s] # Created[t]
    BY <1>2, <2>1 DEF Undisturbed, WindowRows
  <2> QED
    BY <1>3, <2>1, <2>2 DEF Newer
<1> QED
  BY <1>2, <1>4, <1>5

LEMMA DueCount ==
  ASSUME TypeInv, PageInv, GapInv, FiniteTable, CountInv, DueInv,
         NEW s \in Shares, CountShare(s)
  PROVE  DueInv'
<1>1. /\ UNCHANGED <<table, block, atStart, full>> /\ pc = "share" /\ pc' # "idle"
      /\ block \in Blocks /\ Score[s] \in Nat
  BY PPLNSAssumption DEF CountShare, Onward, database, TypeInv, TypeOK, Busy
<1>2. /\ s \notin Counted /\ Counted' = Counted \cup {s} /\ CountInv'
      /\ Total(Score, Counted') = Total(Score, Counted) + Score[s]
  BY CountCount
<1>3. IsFiniteSet(Counted) /\ \A t \in Counted : Score[t] \in Nat
  BY <1>1, CountedFinite
<1>4. /\ Total(Score, Counted) \in Nat /\ Window \in Nat \ {0}
      /\ shareCutOffDate = None /\ accumulatedScore < Window
      /\ accumulatedScore = Total(Score, Counted)
  <2>1. Total(Score, Counted) \in Nat /\ Window \in Nat \ {0}
    BY <1>3, TotalNat, PPLNSAssumption
  <2>2. shareCutOffDate = None /\ accumulatedScore < Window
    BY <1>1 DEF CountInv, CutOff
  <2> QED
    BY <2>1, <2>2 DEF DueInv, Exact
<1>5. StartIsBefore'
  BY <1>1 DEF DueInv, StartIsBefore
<1>6. StoreIsLast'
  BY DEF CountShare, Onward, StoreIsLast
<1>7. Exact'
  BY <1>1, <1>2, <1>4 DEF CountShare, Capped, Fills, Exact
<1>8. AllSeen'
  <2>1. CASE Fills(s)
    <3>1. shareCutOffDate' # None /\ pc' = "store"
      BY <2>1, PPLNSAssumption DEF CountShare
    <3> QED
      BY <3>1 DEF AllSeen
  <2>2. CASE ~Fills(s)
    <3>1. page' = page \ {s} /\ (pc' = "store" => ~full)
      BY <2>2 DEF CountShare, Onward
    <3>2. \A t \in Shares : Unmissable(t)' => Unmissable(t)
      BY <1>1 DEF Unmissable
    <3> QED
      BY <1>1, <1>2, <3>1, <3>2 DEF DueInv, AllSeen
  <2> QED
    BY <2>1, <2>2
<1>9. ASSUME Undisturbed', NEW m \in Miners
      PROVE  rewards'[m] = Total(Parts', CountedOf(m)')
  <2>1. Undisturbed
    BY <1>1, <1>9, StaysUndisturbed DEF DueInv
  <2>2. s \in WindowRows /\ Newer(s) = Counted /\ Counted \subseteq WindowRows
    BY <2>1, NewerAreCounted, UndisturbedRows DEF DueInv
  <2>3. Parts' = Parts
    BY <1>1 DEF Parts, Part, Newer, WindowRows
  <2>4. Parts[s] = Capped(s) /\ Capped(s) \in Nat
    <3>1. Part(s) = Capped(s)
      BY <1>1, <1>4, <2>2 DEF Part, Capped, Fills
    <3>2. Capped(s) \in Nat
      BY <1>1, <1>4 DEF Capped, Fills
    <3> QED
      BY <2>2, <3>1, <3>2 DEF Parts
  <2>5. rewards[m] = Total(Parts, CountedOf(m))
    BY <2>1 DEF DueInv, PaidInParts
  <2>6. CASE Miner[s] # m
    <3>1. CountedOf(m)' = CountedOf(m)
      BY <1>2, <2>6 DEF CountedOf
    <3>2. rewards'[m] = rewards[m]
      BY <2>6 DEF CountShare, TypeInv, TypeOK
    <3> QED
      BY <2>3, <2>5, <3>1, <3>2
  <2>7. CASE Miner[s] = m
    <3>1. CountedOf(m)' = CountedOf(m) \cup {s} /\ s \notin CountedOf(m)
      BY <1>2, <2>7 DEF CountedOf
    <3>2. rewards'[m] = rewards[m] + Capped(s)
      <4>1. BlockReward[block] > 0 /\ BlockReward[block] \in Int
        BY <1>1, <2>1, PPLNSAssumption DEF Undisturbed
      <4>2. rewards \in [Miners -> Nat]
        BY DEF TypeInv, TypeOK
      <4>3. CASE Capped(s) = 0
        BY <2>4, <2>7, <4>1, <4>2, <4>3, GainsScore DEF CountShare
      <4>4. CASE Capped(s) > 0
        <5>1. Capped(s) * BlockReward[block] > 0
          BY <2>4, <4>1, <4>4, GainsScore
        <5> QED
          BY <2>7, <4>2, <5>1 DEF CountShare
      <4> QED
        BY <2>4, <4>3, <4>4
    <3>3. IsFiniteSet(CountedOf(m)) /\ CountedOf(m) \subseteq Counted
      BY <1>3, FS_Subset DEF CountedOf
    <3>4. \A t \in CountedOf(m) : Parts[t] \in Int
      <4> SUFFICES ASSUME NEW t \in CountedOf(m)
                   PROVE  Part(t) \in Int
        BY <2>2, <3>3 DEF Parts
      <4>1. Score[t] \in Nat
        BY <1>3, <3>3
      <4>2. Total(Score, Newer(t)) \in Int
        <5>1. IsFiniteSet(Newer(t))
          <6>1. atStart \subseteq table /\ IsFiniteSet(table)
            BY <1>1, CountedFinite DEF GapInv, AllAhead
          <6> QED
            BY <6>1, FS_Subset DEF Newer, WindowRows
        <5>2. \A u \in Newer(t) : Score[u] \in Int
          BY PPLNSAssumption DEF Newer, WindowRows, TypeInv, TypeOK
        <5> QED
          BY <5>1, <5>2, TotalInt
      <4> QED
        BY <1>4, <4>1, <4>2 DEF Part
    <3>5. Total(Parts, CountedOf(m) \cup {s}) = Total(Parts, CountedOf(m)) + Parts[s]
      BY <2>4, <3>1, <3>3, <3>4, TotalAdd
    <3> QED
      BY <2>3, <2>4, <2>5, <3>1, <3>2, <3>5
  <2> QED
    BY <2>6, <2>7
<1> QED
  BY <1>5, <1>6, <1>7, <1>8, <1>9 DEF DueInv, PaidInParts

LEMMA DueRead ==
  ASSUME TypeInv, GapInv, FiniteTable, CountInv, DueInv, ReadSharesBeforeCreated
  PROVE  DueInv'
<1>1. /\ UNCHANGED <<table, block, atStart, Counted, rewards, accumulatedScore, shareCutOffDate>>
      /\ pc = "read" /\ pc' # "idle"
  BY DEF ReadSharesBeforeCreated, database, sharing, Counted
<1>2. StartIsBefore' /\ Exact'
  BY <1>1 DEF DueInv, StartIsBefore, Exact
<1>3. StoreIsLast'
  BY DEF ReadSharesBeforeCreated, StoreIsLast
<1>4. PaidInParts'
  <2>1. Undisturbed' => Undisturbed
    BY <1>1, StaysUndisturbed DEF DueInv
  <2>2. Parts' = Parts /\ \A m \in Miners : CountedOf(m)' = CountedOf(m)
    BY <1>1 DEF Parts, Part, Newer, WindowRows, CountedOf
  <2> QED
    BY <1>1, <2>1, <2>2 DEF DueInv, PaidInParts
<1>5. AllSeen'
  <2> SUFFICES ASSUME (pc' = "share" /\ ~full') \/ pc' = "store",
                      NEW t \in Shares, Unmissable(t), t \notin Counted
               PROVE  t \in page'
    BY <1>1 DEF AllSeen, Unmissable
  <2>1. /\ page' \subseteq Rows
        /\ Cardinality(page') = IF Cardinality(Rows) < PageSize THEN Cardinality(Rows)
                                                               ELSE PageSize
    BY DEF ReadSharesBeforeCreated, Pages
  <2>2. IsFiniteSet(Rows) /\ Cardinality(Rows) \in Nat /\ PageSize \in Nat \ {0}
    <3>1. IsFiniteSet(table)
      BY <1>1, CountedFinite
    <3>2. IsFiniteSet(Rows)
      BY <3>1, FS_Subset DEF Rows
    <3> QED
      BY <3>2, FS_CardinalityType, PPLNSAssumption
  <2>3. Cardinality(page') = Cardinality(Rows)
    <3>1. Cardinality(page') # PageSize
      <4>1. CASE pc' = "share" /\ ~full'
        BY <4>1 DEF ReadSharesBeforeCreated
      <4>2. CASE pc' = "store"
        BY <2>2, <4>2, FS_EmptySet DEF ReadSharesBeforeCreated
      <4> QED
        BY <4>1, <4>2
    <3> QED
      BY <2>1, <3>1
  <2>4. page' = Rows
    BY <2>1, <2>2, <2>3, FS_Subset
  <2>5. t \in table /\ t \in atStart /\ Created[t] \in Nat /\ before \in Nat
    BY PPLNSAssumption DEF Unmissable, GapInv, AllAhead, TypeInv, TypeOK
  <2>6. CASE inclusive
    BY <1>1, <2>4, <2>5, <2>6 DEF Rows, GapInv, AllAhead
  <2>7. CASE ~inclusive
    <3>1. page = {}
      BY <1>1 DEF GapInv, AllAhead
    <3>2. ~(before <= Created[t])
      BY <1>1, <2>7, <3>1 DEF GapInv, NothingSkipped, Counted
    <3> QED
      BY <2>4, <2>5, <3>2 DEF Rows
  <2> QED
    BY <2>6, <2>7
<1> QED
  BY <1>2, <1>3, <1>4, <1>5 DEF DueInv

LEMMA DueStep ==
  ASSUME TypeInv, PageInv, GapInv, RewardInv, FiniteTable, CountInv, DueInv, [Next]_vars
  PROVE  DueInv'
<1>0. ASSUME UNCHANGED <<pc, block, reading, sharing, atStart>>, table \subseteq table'
      PROVE  DueInv'
  <2>1. UNCHANGED <<Counted, rewards, accumulatedScore, shareCutOffDate, page, full>>
    BY <1>0 DEF Counted, sharing, reading
  <2>2. StartIsBefore' /\ StoreIsLast' /\ Exact'
    BY <1>0, <2>1 DEF DueInv, StartIsBefore, StoreIsLast, Exact
  <2>3. AllSeen'
    <3>1. \A t \in Shares : Unmissable(t)' => Unmissable(t)
      BY <1>0 DEF Unmissable
    <3> QED
      BY <1>0, <2>1, <3>1 DEF DueInv, AllSeen
  <2>4. PaidInParts'
    <3>1. Undisturbed' => Undisturbed
      BY <1>0, StaysUndisturbed DEF DueInv, Undisturbed
    <3>2. Parts' = Parts /\ \A m \in Miners : CountedOf(m)' = CountedOf(m)
      BY <1>0, <2>1 DEF Parts, Part, Newer, WindowRows, CountedOf
    <3> QED
      BY <2>1, <3>1, <3>2 DEF DueInv, PaidInParts
  <2> QED
    BY <2>2, <2>3, <2>4 DEF DueInv
<1>1. ASSUME NEW s \in Shares, StoreShare(s) PROVE DueInv'
  BY <1>0, <1>1 DEF StoreShare
<1>2. ASSUME NEW b \in Blocks, Mature(b) PROVE DueInv'
  BY <1>0, <1>2 DEF Mature, database
<1>3. CASE StartCycle
  BY <1>0, <1>3 DEF StartCycle, database
<1>4. ASSUME NEW b \in Blocks, UpdateBalances(b) PROVE DueInv'
  <2>1. /\ pc = "idle" /\ pc' = "read" /\ block' = b
        /\ atStart' = {s \in table : Created[s] <= BlockCreated[b]}
        /\ UNCHANGED <<page, sharing>>
    BY <1>4 DEF UpdateBalances, reading
  <2>2. Counted' = {} /\ accumulatedScore' = 0 /\ rewards' = Nobody
    BY <1>4, <2>1, PPLNSAssumption
    DEF PageInv, IdleIsFresh, Counted, sharing, TypeInv, TypeOK, RewardInv, StartsAtZero
  <2>3. StartIsBefore' /\ StoreIsLast' /\ AllSeen'
    BY <2>1 DEF StartIsBefore, StoreIsLast, AllSeen
  <2>4. Exact'
    BY <2>2, TotalStep, PPLNSAssumption DEF Exact
  <2>5. \A m \in Miners : rewards'[m] = Total(Parts', CountedOf(m)')
    <3>1. \A m \in Miners : CountedOf(m)' = {} /\ rewards'[m] = 0
      BY <2>2 DEF CountedOf, Nobody
    <3> QED
      BY <3>1, TotalStep
  <2> QED
    BY <2>3, <2>4, <2>5 DEF DueInv, PaidInParts
<1>5. CASE ReadSharesBeforeCreated
  BY <1>5, DueRead
<1>6. ASSUME NEW s \in Shares, SkipShare(s) PROVE DueInv'
  <2>1. /\ UNCHANGED <<table, block, atStart, full, sharing>> /\ page' = page \ {s}
        /\ pc = "share" /\ pc' # "idle" /\ Score[s] = -1
        /\ (pc' = "store" => ~full /\ page' = {})
    BY <1>6 DEF SkipShare, Onward, database
  <2>2. UNCHANGED <<Counted, rewards, accumulatedScore, shareCutOffDate>>
    BY <2>1 DEF Counted, sharing
  <2>3. StartIsBefore' /\ StoreIsLast' /\ Exact'
    BY <2>1, <2>2 DEF DueInv, StartIsBefore, StoreIsLast, Exact
  <2>4. AllSeen'
    <3>1. \A t \in Shares : Unmissable(t)' => Unmissable(t) /\ t # s
      BY <2>1 DEF Unmissable
    <3> QED
      BY <2>1, <2>2, <3>1 DEF DueInv, AllSeen
  <2>5. PaidInParts'
    <3>1. Undisturbed' => Undisturbed
      BY <2>1, StaysUndisturbed DEF DueInv
    <3>2. Parts' = Parts /\ \A m \in Miners : CountedOf(m)' = CountedOf(m)
      BY <2>1, <2>2 DEF Parts, Part, Newer, WindowRows, CountedOf
    <3> QED
      BY <2>2, <3>1, <3>2 DEF DueInv, PaidInParts
  <2> QED
    BY <2>3, <2>4, <2>5 DEF DueInv
<1>7. ASSUME NEW s \in Shares, CountShare(s) PROVE DueInv'
  BY <1>7, DueCount
<1>8. ASSUME NEW s \in Shares, Overflow(s) PROVE DueInv'
  BY <1>8, DueLeave DEF Overflow, Abandon
<1>9. CASE StoreRewards
  BY <1>9, DueLeave DEF StoreRewards
<1>10. CASE Fail
  BY <1>10, DueLeave DEF Fail, Abandon
<1>11. CASE UNCHANGED vars
  BY <1>0, <1>11 DEF vars, database
<1> QED
  BY <1>1, <1>2, <1>3, <1>4, <1>5, <1>6, <1>7, <1>8, <1>9, <1>10, <1>11
  DEF Next, Calculate, Environment

(* What is not counted when the rewards are stored is behind the window. *)
LEMMA StoredPartsAreDue ==
  ASSUME TypeInv, GapInv, FiniteTable, CountInv, DueInv, Undisturbed, pc = "store",
         NEW m \in Miners
  PROVE  rewards[m] = Due(m)
<1> DEFINE S == {s \in WindowRows : Miner[s] = m}
<1>1. Due(m) = Total(Parts, S)
  BY DEF Due, Parts, Part, Newer, WindowRows
<1>2. rewards[m] = Total(Parts, CountedOf(m))
  BY DEF DueInv, PaidInParts
<1>3. Counted \subseteq WindowRows /\ \A t \in WindowRows : Unmissable(t)
  BY UndisturbedRows DEF DueInv
<1>4. CountedOf(m) \subseteq S
  BY <1>3 DEF CountedOf
<1>5. /\ IsFiniteSet(WindowRows) /\ IsFiniteSet(S)
      /\ \A t \in WindowRows : Score[t] \in Nat /\ t \in Shares
  <2>1. IsFiniteSet(table) /\ WindowRows \subseteq table
    BY CountedFinite DEF GapInv, AllAhead, WindowRows
  <2>2. IsFiniteSet(WindowRows)
    BY <2>1, FS_Subset
  <2> QED
    BY <2>2, FS_Subset, PPLNSAssumption DEF WindowRows, TypeInv, TypeOK
<1>6. \A t \in WindowRows : IsFiniteSet(Newer(t)) /\ Total(Score, Newer(t)) \in Nat
  <2> SUFFICES ASSUME NEW t \in WindowRows
               PROVE  IsFiniteSet(Newer(t)) /\ Total(Score, Newer(t)) \in Nat
    OBVIOUS
  <2>1. IsFiniteSet(Newer(t)) /\ \A u \in Newer(t) : Score[u] \in Nat
    BY <1>5, FS_Subset DEF Newer
  <2> QED
    BY <2>1, TotalNat
<1>7. \A t \in S : Parts[t] \in Int
  BY <1>5, <1>6, PPLNSAssumption DEF Parts, Part
<1>8. ASSUME NEW t \in S \ CountedOf(m)
      PROVE  Parts[t] = 0
  <2>1. t \in WindowRows /\ t \in Shares /\ t \notin Counted
    BY <1>5 DEF CountedOf
  <2>2. shareCutOffDate # None
    BY <1>3, <2>1 DEF DueInv, AllSeen, StoreIsLast
  <2>3. Total(Score, Counted) >= Window
    <3>1. IsFiniteSet(Counted) /\ \A s \in Counted : Score[s] \in Nat
      BY CountedFinite
    <3> QED
      BY <2>2, <3>1, TotalNat, PPLNSAssumption DEF CountInv, CutOff, Filled
  <2>4. Counted \subseteq Newer(t)
    <3> SUFFICES ASSUME NEW s \in Counted, ~(Created[s] > Created[t])
                 PROVE  FALSE
      BY <1>3 DEF Newer
    <3>1. s \in WindowRows /\ s \in Shares /\ s # t
      BY <1>3, <2>1 DEF Counted
    <3>2. Created[s] # Created[t]
      BY <2>1, <3>1 DEF Undisturbed, WindowRows
    <3>3. Created[t] > Created[s]
      BY <2>1, <3>1, <3>2, PPLNSAssumption
    <3> QED
      BY <1>3, <2>1, <3>1, <3>3 DEF GapInv, NoGap, Counted, Unmissable
  <2>5. Total(Score, Counted) <= Total(Score, Newer(t))
    BY <1>5, <1>6, <2>1, <2>4, TotalMonotone DEF Newer
  <2>6. Total(Score, Newer(t)) >= Window
    <3>1. Total(Score, Counted) \in Nat /\ Total(Score, Newer(t)) \in Nat
      BY <1>6, <2>1, CountedFinite, TotalNat
    <3> QED
      BY <2>3, <2>5, <3>1, PPLNSAssumption
  <2> QED
    BY <2>1, <2>6 DEF Parts, Part
<1>9. Total(Parts, CountedOf(m)) = Total(Parts, S)
  <2> HIDE DEF S
  <2> QED
    BY <1>4, <1>5, <1>7, <1>8, TotalSupport
<1> QED
  BY <1>1, <1>2, <1>9

(***************************************************************************)
(* Paging gives every miner what the window laid over the sorted shares    *)
(* gives it, for every number of shares and miners, every window and every *)
(* page size, unless dates are equal or rows are inserted into the window  *)
(* meanwhile.                                                              *)
(***************************************************************************)
THEOREM PagesPayTheWindow == Spec => []RewardsAreDue
<1> DEFINE Inv == /\ TypeInv /\ PageInv /\ GapInv /\ RewardInv
                  /\ FiniteTable /\ CountInv /\ DueInv
<1>1. Init => Inv
  BY TypeInit, PageInit, GapInit, RewardInit, WindowInit, DueInit DEF WindowInv
<1>2. Inv /\ [Next]_vars => Inv'
  BY TypeStep, PageStep, GapStep, RewardStep, FiniteStep, CountStep, DueStep
<1>3. Inv => RewardsAreDue
  BY StoredPartsAreDue DEF RewardsAreDue, Undisturbed
<1> QED
  BY <1>1, <1>2, <1>3, PTL DEF Spec

=============================================================================
