# Aion pool: specifications and proofs

TLA+ modules, TLC runs and TLAPS proofs about the mining pool in `src/aion_pool/src/Miningcore` (C#, .NET Core, Rx, PostgreSQL).
Paths below are relative to that directory; `Payments/PayoutManager.cs:160` is a line of a file in it.

## 1. The system

Miners connect to a stratum server, get jobs made from the block template of an Aion daemon and submit shares.
An accepted share is put on the message bus; the share recorder stores it, and the block if the share found one.
Periodically the payment processor asks the daemons what became of the pending blocks, credits the reward of a confirmed block to the miners whose shares led to it, and sends the balances over a minimum to the miners.
A cluster may run several pools in one process and one database, and may split stratum servers and the database side into processes joined by a relay.

```
 miners --tcp--> StratumServer -> AionPool -> AionJobManager --rpc--> daemons
                                     | accepted share                   ^   ^
                                MessageBus -> Relay ~~0mq~~> RelayReceiver  |
                                     |                          |           |
                                ShareRecorder <-----------------+           |
                                     | shares, blocks                       |
                                 PostgreSQL <-- PayoutManager -> AionPayoutHandler
                                     ^             PPLNS / Solo     (classify, send)
                                  REST API
```

### 1.1 Components

| Component | State | Operations | What is hard | What makes it correct | Module |
|---|---|---|---|---|---|
| Payout processing (`Payments/PayoutManager.cs`, `Payments/PayoutHandlerBase.cs`, `Blockchain/Aion/AionPayoutHandler.cs`) | tables blocks, balances, balance_changes, payments; local variables of a cycle | read pending blocks, classify, confirm and credit, read balances, send, book | three parties (database, chain, process) without a common transaction; unreported commits, lost replies, crashes, reorganisations | rewards are credited once, transfers are booked and covered, statuses are final, every block is decided, every balance is paid | `Payout`, `PayoutLedger` |
| PPLNS (`Payments/PaymentSchemes/PPLNSPaymentScheme.cs`) | table shares; accumulated score, cut-off date | read pages of shares, share out the reward, delete old shares | pages read while rows are inserted, equal dates at page ends, deletions that reach into later windows | no share counted twice or skipped, the reward is exactly shared out, later windows stay whole | `PPLNS` |
| Solo (`Payments/PaymentSchemes/SoloPaymentScheme.cs`) | as PPLNS | credit the finder, delete shares | one transaction, no connection of its own | the finder gets the reward once | its credit in `Balances`; deletion by date left out |
| Share recorder (`Mining/ShareRecorder.cs`) | buffer and queue, circuit breaker, recovery file, tables shares and blocks | buffer, persist, retry, fall back to the file, import | unreported commits, broken circuits, stops with a full queue, half-imported files | no share disappears silently or exists twice without a cause | `ShareRecorder` |
| Balances (`Persistence/Postgres/Repositories/BalanceRepository.cs`, admin API) | balances, balance_changes, the pool of connections | `AddAmountAsync` | select, then insert, at READ COMMITTED; a second connection is opened inside a transaction | amounts are sums of their changes, transactions are atomic, everybody comes through | `Balances`, `BalanceLedger`; one step in `Payout` |
| Jobs (`Blockchain/Aion/AionJobManager.cs`, `AionJob.cs`, `ExtraNonceProviderBase.cs`) | current job, backlog, submitted nonces, extra nonce counter | new template, share submission, block submission | submissions race with job updates and with each other; 16-bit wrap | no nonce counts twice in the same writing, a share counts for no more than it proves but for a fraction, blocks are those the network took | `AionShares`, from the lookup of the job to the message bus; `JobBroadcast` for new jobs |
| Stratum session (`Blockchain/Aion/AionPool.cs`, `Mining/PoolBase.cs`, `Stratum1/`) | worker context, pending difficulty, connected clients, bans | connect, subscribe, authorize, submit, broadcast, vardiff | every line is handled on a task of its own, the broadcast on another | a share counts for the address that sent it; no client misses a job or the difficulty its shares are tested with | `AionShares` up to the message bus; `JobBroadcast` for initial work, broadcast and difficulties; bans left out |
| Variable difficulty (`VarDiff/`) | ring of share times | update | zero intervals, limits | difficulty stays in its limits and moves towards the target | its effect in `JobBroadcast`, `AionShares`; the formula planned |
| Ban manager (`Banning/`) | cache with expiry | ban, ask | expiry | environment of the session only | not modelled |
| Relay (`Mining/Relay.cs`, `RelayReceiver.cs`) | queues, sockets, times of the last messages | publish, receive, reconnect, process | 0mq PUB/SUB loses messages, silent connections, one task per processor | a share arrives at most once, and gets through unless something breaks; silent relays are reconnected | `Relay`, `ShareChannel` |
| Daemon client (`DaemonInterface/DaemonClient.cs`) | none | ask all, ask any | first completed is not first successful | an answer is the answer of a daemon that is up | environment of `Payout` and `AionShares` |
| Miner info and invalid share recorders (`Mining/`) | tables | buffer, persist | synchronous policy around an asynchronous delegate | as share recorder | not modelled |
| Statistics recorder, rewards calculator, notifications, REST queries, configuration, bootstrap | | | | | see 6 |
| Hashing, native libraries, code for other coins, user interface | | | vendored or pure | | not modelled |

### 1.2 How they interact

* The share recorder *inserts* rows of `shares` and `blocks`; PPLNS *reads and deletes* shares, the payment processor *updates* blocks. Nothing but the database joins them, and PPLNS reads on connections of its own, outside the transaction that credits (`PPLNSPaymentScheme.cs:194`).
* `PayoutManager` calls the handler (`ClassifyBlocksAsync`, `PayoutAsync`) and the scheme (`UpdateBalancesAsync`) of each pool in turn, on one thread.
* The admin API changes balances at any time. Miners change their own minimum payment.
* Daemons are asked through `ExecuteCmdAnyAsync`, which takes whichever answer completes first: it may be missing or lag behind.

`PROJECT.json` lists under "hazards" every place of this code that is hard to test, at its line, with the properties that would catch it going wrong.

## 2. The modules

| Module | What it is |
|---|---|
| `PayoutLedger` | abstract specification: what a payment processor promises |
| `Payout` | the payment processor, its tables, the chain, the admin API |
| `PPLNS` | the payout scheme, its table and the inserts of the share recorder |
| `ShareRecorder` | the share recorder, the recovery file and its import |
| `AionShares` | subscriptions, authorizations and submissions of miners, up to the message bus |
| `JobBroadcast` | new jobs, their broadcast, initial work and difficulties of a connection |
| `BalanceLedger` | abstract specification: transactions add to balances in one step |
| `Balances` | the statements of `AddAmountAsync`, transactions, locks and connections |
| `ShareChannel` | abstract specification: an unreliable channel that hands over a share at most once |
| `Relay` | relays, the connections to their receiver, its threads |
| `Sums` | the sum of a function over a finite set, used by `Payout`, `PPLNS` and `Balances` |
| `MCPayout`, `MCPPLNS`, `MCShareRecorder`, `MCAionShares`, `MCJobBroadcast`, `MCBalances`, `MCRelay` | instances for TLC |
| `SumLemmas` | what the sums do, proved once for the modules below |
| `PayoutProofs`, `PPLNSProofs`, `ShareRecorderProofs`, `AionSharesProofs`, `JobBroadcastProofs`, `BalancesProofs`, `RelayProofs` | theorems and proofs |

Each module has a section "slips": variants of its operators that no specification uses. Each is a way the code could plausibly go wrong and is used to see that the properties notice it ("mutants" in `PROJECT.json`).

### 2.1 Payout

A database transaction is one step, since the code runs each in `RunTxAsync` and nothing reads its intermediate states. What *is* split are the places where the code leaves one system for another: `pc` says where `ProcessPoolsAsync` is.

| `pc` | Code | Actions |
|---|---|---|
| idle | `PayoutManager.cs:85`, next pool or next cycle | `StartCycle`, `GetDistinctPendingBlocksForPool` |
| classify | `AionPayoutHandler.cs:120`, asks for the latest block | `GetLatestBlock`, `NoLatestBlock` |
| fetch | `:134-193`, asks for the blocks of a page | `ClassifyPage` |
| update | `PayoutManager.cs:153-182`, one transaction per classified block | `StoreBlock`, then `GetPoolBalancesOverThreshold` |
| pay | `AionPayoutHandler.cs:228-256` | `SkipMiner`, `SendTransaction`, `SendFails` |
| book | `PayoutHandlerBase.cs:131-174` | `PersistPayment`, `RetryPersist`, `GiveUpPersist` |

`PoolFails` is an exception that reaches `ProcessPoolsAsync`: it ends the processing of one pool. `Crash` loses every local variable; a stop of the service is the same, because the joined thread has already returned at its first `await`. `StoreBlock` may commit while its caller gets an exception; `RetryPersist` and `GiveUpPersist` may have committed too. `SendFails` may have reached the chain (a lost reply). `Reorganise` takes the pool's block out of the chain or brings it back while it is less than `FinalDepth` deep. Variables `credits`, `unbooked`, `rebooked` are history: they record what the code cannot know.

Heights are compared as the code does, unsigned: `Wraps` makes the difference huge when the answering daemon is behind the block. `UpdateBlock` selects by height alone, as the SQL does. `DistinctPending` keeps one row of each height, whichever the database returns.

### 2.2 PayoutLedger

Four variables: blocks credited, and per account what was gained, transferred, and transferred without being booked ("forgotten"). A transfer must be covered by `gained + forgotten - transferred`. `Payout!Ledger` maps the confirmed rows to `credited`, journal entries to `gained`, the chain to `transferred`.

### 2.3 PPLNS

`UpdateBalances` starts on the oldest block of the cycle (`OrderBy(x => x.Created)`), `ReadSharesBeforeCreated` reads a page (any page the ORDER BY allows: rows of one date come in any order), `CountShare`, `SkipShare` and `Overflow` are the three ways through the loop body, `StoreRewards` the transaction that credits and deletes. `Abandon` is an exception: it ends the cycle, since `updatedBlocks` is a local variable. `StoreShare` inserts at any time, in any order of dates: the recorder retries and imports.

Scores are integers and a reward is represented by the score it is paid for. The cap (`CountShare` through `Capped`), the test for the overflow (`Remaining`) and the guard on positive rewards are evaluated as the code orders them.

### 2.4 ShareRecorder

The Rx pipeline `Buffer(5 s, 200)` ... `Concat` is a queue of numbered batches of which one is taken at a time. A transaction ends in one of four ways: `Commit`, `TransactionFails` (rolled back, an exception the policies handle), `CommitUnreported`, `OtherException`. The first two policies are nested as in `BuildFaultHandlingPolicy`: fallback(breaker(retry)); the breaker counts batches, not attempts, and an open circuit sends a batch to the recovery file without asking the database. A recovery file whose disk fails keeps some of the lines (`RecoveryFileFails`) and may end inside of one (`unended`): what is appended there makes one line with it, which cannot be parsed and is kept in `broken` (`AppendLines`). The import counts it as a failure and goes on (`ReadLine`). A break inside the header of a new file is left out: the header is shorter than any block of a disk. (It would hide the next share, which would continue a line that begins with `#` and be skipped as a comment.) `StartRecovery` .. `KeepFile` is `RecoverSharesAsync`, run by a process of its own on a recorder that was never started, which is why `pools` is null in it (`Importable`). `removed` is the operator's deletion of a file that was imported with a success message.

### 2.5 AionShares

Every line a connection sends is handled by a task of its own (`StratumServer.cs:186`), so the module has tasks rather than a program counter per connection. A request that passes no check changes nothing and is left out; so is the age of a request, which is stamped inside its own task and never exceeds the limit.

| Action | Code |
|---|---|
| `Subscribe` | `AionPool.cs:72`, `AionJobManager.cs:79`, `ExtraNonceProviderBase.cs:55` |
| `Authorize`, `SetName` | `AionPool.cs:126` and `:127`: the answer of the daemon, and the name, of which a submission can see the first without the second |
| `Submit` | `AionPool.cs:172` to `AionJob.cs:62`: checks, the job under the lock, the two lookups of the duplicate check |
| `Register` | `AionJob.cs:64-74` (`CreateNonces` or `AddNonce`), the Equihash solution, the first read of the difficulty (`:139`) |
| `CheckTarget` | `:143`: the second read of the difficulty; the share, or a block to submit |
| `SubmitBlock` | `AionJobManager.cs:277`: accepted, refused, or accepted with the reply lost |
| `SetDifficulty` | `WorkerContextBase.cs:74-96`, called by the variable difficulty, its timer and a static difficulty |
| `UpdateJob` | `AionJobManager.cs:241-254` |

A nonce stands for the solution it leads to, and its hash for the difficulty it proves. It arrives as text, and the code uses the text in two ways. The dictionary has it in lower case (`AionJob.cs:62-74`, `Lower`); the header has the bytes it decodes to (`:174-179`, `Decoded`), and `GetHexVal` does not ask whether a character is a digit (`StringExtensions.cs:70-74`): ':' is worth 3, 'g' 16. One nonce can therefore be written in several ways, and `ToLower` and `HexToByteArray` are constants of the module, any functions on texts. The text behind the extra nonce is all the miner can choose: `ExtraNonce1` is four digits the pool wrote, so that the two decode apart.

Difficulties are fractions (`VarDiffManager.cs:87`, static difficulties) and counted in a unit, of which `One` make the difficulty 1; a fraction in a double always has such a unit. The credit of a share is the difficulty as it is, or the network's if that is less (`:139`, `:160`), while its target is 2^256 divided by the whole part (`AionUtils.cs:14`, `Truncated`). With a whole part of 0 the division fails and the submission ends; with 1 the quotient does not fit and the target is 0; with 2 it is 2^255, and `new BigInteger(...)` reads it as a negative number (`:144`). No hash is below these (`Meets`), and a block target is read in the same way (`:133`). The network difficulty is a signed 32-bit number, or 0 if no daemon answered. That line 139 reads the difficulty twice is one step here.

The steps of one task in between commute with everything else, so that they are merged with their neighbours: looking up the job and the dictionary of the connection, for instance, are one step, as a job keeps its dictionary after it has left the backlog.

The code does not care for a miner who does not wait for answers, and neither does the module forbid it: `pipelined` is the set of connections that once sent a request while another of theirs ran. `NonceCountsOnce` and `CountsForSender` are promises to the others; `CreditIsProven` and `BlocksRecorded` are for all. `NonceCountsOnce` says what the comparison of texts can give: among connections a solution counts once, and within one it counts once for every text of its nonce that differs by more than the case of letters (`Rewritten`). `CreditIsProven` says what the truncated target can give: the whole part of the credit is proved. That the network takes a block once, and that the daemon reports a refusal as an error (`AionJobManager.cs:287` takes everything else for success), are assumptions about the outside. Two authorizations of one connection that are in flight together are left out.

### 2.6 JobBroadcast

`AionJobManager` finds new templates one at a time; `AionPool` broadcasts the jobs it announces on one subscription (`Concat`), and every request of a connection is a task of its own. Broadcast and tasks share the worker context and `currentJobParams` without a lock.

| Action | Code |
|---|---|
| `UpdateJob` | `AionJobManager.cs:200-275`: a new job is current; it is announced unless its statistics throw (`:261`) |
| `OnNewJob`, `ForEachClient`, `NextClient`, `CastValue`, `CastClear`, `CastDifficulty`, `CastJob`, `CastTarget` | `AionPool.cs:276-316` over the snapshot of `StratumServer.cs:287`, with `ApplyPendingDifficulty` (`WorkerContextBase.cs:79-90`) in its steps |
| `OnClientConnected`, `DisconnectClient`, `OnSubscribe` | `StratumServer.cs:140`, `:267`, `AionPool.cs:72` |
| `OnAuthorize`, `StaticDiff` | `AionPool.cs:106-141` |
| `OnSubmit` | `AionPool.cs:152-206`, as far as it goes on to the initial work and the variable difficulty |
| `EnsureInitialWorkSent`, `ReadJobParams`, `SendJob`, `SendTarget` | `AionPool.cs:249-273`: the flag is tested and set under the lock, the job read and sent behind it |
| `UpdateVarDiff`, `ApplyPendingDifficulty` | `PoolBase.cs:201-240`, `AionPool.cs:453-473` |

The variable difficulty is a choice: at some submissions it comes up with another difficulty. `HasValue` and `.Value` of the pending difficulty are two steps: cleared in between, `.Value` throws, and the broadcast leaves the client out (a task ends). Within `.Value`, the check and the load are one step. A client is judged by the sets of jobs and targets sent to it, as its send queue keeps the order of the calls. What the code does not promise, and the properties leave open: which of two jobs comes last when a client gets its initial work during a broadcast (`AionPool.cs:269`); work for a client that authorizes before it subscribes, until its next request; the difficulty when two requests change it at once (`crossed`), as `AionPool.cs:453-473` tells the one it computed and not the one in force; anything after a failed authorization (`lapsed`). `currentJobParams` is null to the first client behind the gates (`AionPool.cs:362`). The update of idle connections never runs, as `Select(FromAsync)` without `Concat` subscribes to nothing (`PoolBase.cs:278`), and is left out for that reason.

### 2.7 Balances, BalanceLedger

`Payout` takes `AddAmountAsync` as one step; `Balances` shows what that rests on. A transaction is a sequence of steps (`Work`): additions, and reads on a connection of its own, as `CalculateBlockEffort` and the paging of PPLNS do inside the block's transaction (`PayoutManager.cs:218`, `PPLNSPaymentScheme.cs:194`). An addition is the journal entry, the query, and the insert or update (`BalanceRepository.cs:60-99`). Reads see committed rows and the transaction's own (`QueryBalance`); a write waits for the holder of the row; an insert finds a key that was committed since the query and throws. `OpenConnection` and `OpenSecond` count connections and throw when none is left; `CommandTimeout` ends a statement that waits. The payment thread takes a failed block up at its next interval, a request of the admin API is answered with an error. The size of the pool and its timeout are Npgsql's, since the connection string sets only the command timeout (`Program.cs:583`). Left out are the reads of one request before and after its addition.

`BalanceLedger` adds what a transaction adds (its constant `Effect`, by thread, transaction and address) at once, each thread's in order, the payment thread's never given up. `Balances!Effect` sums the amounts of a transaction's steps, and `Balances!Ledger` maps the committed rows to it.

### 2.8 Relay

A share goes from `relayQueue` over the `wire` of its relay into the receiver: `PollIn` takes a message from each relay that has one, `HandlePolled` looks at every relay in turn (`Post`, `Reconnect`), a processor takes messages from the `queue` and puts shares on the message bus (`ProcessMessage`). ZeroMQ keeps nothing for a subscriber that is not there, and drops in silence what exceeds the high-water mark of a subscriber that is too slow: the publisher's socket (`Relay.cs:58`) and the receiver's keep the library's default of 1000 messages each, since no code sets another (`RelayShare`, `HighWaterMark`). The model drops when the connection holds as many messages as the buffers of both sides together; where on the way they wait is left open. Also, a connection may break with nobody noticing (`link` is "cut"). An exception makes the receiver set up all sockets anew after five seconds (`ReceiverFails`, `SetupSockets`). `Stop` disposes of the socket before its queue is empty, which is a crash to the shares in it. The receiver is started before its pools are attached (`Program.cs:791`, `:847`), and what it processes in between is ignored (`AttachPool`). A poll that times out looks at no relay (`RelayReceiver.cs:97`): if all are silent, none is reconnected, and after a long quiet the first message makes the sockets of all the others anew, which loses what arrives meanwhile. Invalid shares and miner infos travel in the same way as shares and have no actions of their own. A process is a relay or a receiver (`Program.cs:783`), so there are no chains.

`ShareChannel` is what all of this amounts to: messages are sent, handed over and dropped, and each is handed over at most once and never after it was dropped. `Relay!Channel` maps the accepted shares to `sent`, the shares put on the message bus to `delivered`, the lost ones to `dropped`; queues, connections and faults disappear.

## 3. The runs

All instances are small on purpose: each has just enough of everything for the hazard it is about.

| Run | Bounds | Checks | Shows |
|---|---|---|---|
| `payout` | 1 pool, 2 blocks at heights 0 and 1, a miner and a reward recipient, minimum 2, own minimum 0 or 3, 5 confirmations, reorganisations less than 4 deep, pages of 1 block, 1 retry, 3 failures, 1 outside change, head up to 6 | `TypeOK`, `CreditedOnce`, `EarnedFromConfirmed`, `VerdictsAreFinal`, `TransfersBooked`, `NeverOverpaid`, `StatusIsFinal`, `LedgerSpec`, `BlocksDecided`, `BalancesPaidOut` | in a single-pool database with daemons in step, the processor keeps its promises under every failure modelled |
| `payout_cluster` | 2 pools, a block each, same height, no failure | `ConfirmedIsCredited` (violated) | finding 1 |
| `payout_lag` | daemons may be one block behind | `ConfirmedIsMature` (violated) | finding 2 |
| `payout_twin` | two rows of one block | `RewardedOnce` (violated) | finding 3 |
| `pplns` | 5 shares of 2 miners, two of the same date, one without network difficulty, 3 blocks (two of the same date, one that leaves nothing to the miners), window 3, pages of 2, 1 failure | `TypeOK`, `CountedOnce`, `NoGap`, `RewardsAddUp`, `RewardsAreDue`, `LaterWindowsWhole`, `BlocksPaid` | paging, capping, deletion and the order of blocks agree with a window laid over the sorted shares |
| `recorder` | 3 shares, one a block candidate, batches of at most 2, 1 retry, circuit broken by 2 batches, 1 unreported commit, 2 imports, lines that break off anywhere | `TypeOK`, `Accounted`, `SuccessIsTrue`, `Settled` | no share is lost or doubled without a cause that is counted; an import that reports success stored the file |
| `recorder_import` | 1 import, no unreported commit | `ImportStoresFile` (violated) | finding 4 |
| `shares` | 2 connections, 2 addresses, 2 templates (the second easier, and without an answer for its network difficulty), difficulties 3.5 and 4 counted in halves, a nonce that proves 3 and can be written as two texts, extra nonces 0 and 1, 2 tasks, 2 subscriptions, 2 authorizations | `TypeOK`, `NonceCountsOnce`, `CreditIsProven`, `CountsForSender`, `BlocksRecorded` | what is counted was proved but for the fraction of a difficulty, once for each text of its nonce, by the one it is counted for |
| `shares_repeat` | 1 connection, 2 nonces, one of them in two texts, 3 tasks | `RepeatsRejected` (violated) | finding 5 |
| `session` | 1 connection, 2 jobs of which one may go unannounced, 2 difficulties, 3 authorizations and submissions, 2 at a time | `TypeOK`, `NoJobMissed`, `DifficultyTold`, `JobsArrive` | whatever broadcast and requests do between each other's steps, a client is sent the newest job and told its difficulty |
| `balances` | 2 addresses; the payment thread with a PPLNS block and a solo block, 4 requests; 3 connections; 1 crash | `TypeOK`, `JournalMatches`, `AddsAtomically`, `Settles` | concurrent additions are atomic and journaled, and the exhausted pool of connections is got over |
| `relay` | 2 relays with 2 shares each, one unreadable, buffers for 1 and for 2 shares, 2 processors, 1 fault | `TypeOK`, `Accounted`, `ImplementsChannel`, `GetsThrough`, `Reconnects` | every share is in one place, arrives at most once and is lost only to a cause, which makes an unreliable channel of it; a silent relay is reconnected once another has a message |

Why the bounds are enough. *Payout*: two blocks with a page of one make the daemon's answers of two requests differ in age, and let one block be classified while another is stored; three failures allow a retry, a rolled back last attempt and a crash in a row; 5 confirmations with reorganisations of depth 3 put the boundary of three quarters (3.75) strictly between; rewards of 2 and 0, 1 and 1 make an account cross the minimum with the first block, with both, and only with a correction. *PPLNS*: a page of two ends between two shares of one date in one order of insertion and not in another; a window of 3 over scores 1, 2, 1, 2 is filled exactly, over-filled and not filled. *Recorder*: two failing batches break the circuit, the third meets it open or half open; a batch of two has a proper prefix for a failing disk, and a batch of one behind it continues the line that broke off; two imports show a file that is imported again after a failure. *Shares*: two extra nonces come round with the second subscription; a hash of 3 is a share at difficulty 3.5, whose target is that of 3, none at 4, and a block of the second template only; two texts of one nonce are sent one after the other by a connection that waits, and at once by one that does not (texts that differ in the case of letters are one to the dictionary: in `shares_repeat`, and in general in the proofs); a whole part below 3 is left to the proofs; two tasks race in one connection and across two; a backlog of one and heights two apart make the first template leave while its submission runs. *Session*: connections share nothing but the order of the broadcast, which one connection meets at every place; the second job can follow a first that went unannounced; two requests and the broadcast are three parties for the two steps in which a pending difficulty is read and cleared; three requests leave one to run when two have met. *Balances*: the payment thread needs two connections, so that three are exhausted by it and two requests, and there are two requests more to take their turns; both addresses start without a row, one is added to twice by one block. *Relay*: one relay keeps the receiver awake while the other is silent; two shares can be on the wire and in the queue at once, where the buffers hold two, and the second is dropped where they hold one; the fault can be any one of a crash, a break or an exception.

TLC's bounds (`MaxFaults`, `MaxOutside`, `MaxHeight`, `MaxUnreported`, `MaxImports`, `MaxSilent`, `MaxRequests`, `MaxCrashes`, `MaxShares`) are guards of the actions they bound and stay below what makes a temporal property vacuous: when failures are used up, the system still runs. `payout` checks for deadlock. The other passing runs do not, as their systems stop: all shares accepted, all blocks paid, all tasks used, all transactions done. `shares` has the most states, about five million in two minutes; `session` takes the longest, two and a half minutes for a million states, since it has a temporal property. `shares` treats connections and addresses as symmetric; it has no temporal property.

### 3.1 Fairness

* `Payout!FairSpec`: weak fairness of `ProcessPools`, as `PayoutManager.Start` is `while(true)` around the cycle and a delay (`PayoutManager.cs:260`), left only when `Stop` sets `stopEvent`; and of `GrowChain(p)`, since chains grow. Failures, reorganisations and outside changes get none.
* `PPLNS!FairSpec`: weak fairness of `Calculate`, the same loop.
* `ShareRecorder!FairSpec`: weak fairness of `CloseBuffer` (the timer of `Buffer`) and of `Persist` (the subscription takes every batch). No outcome of a transaction is favoured: a database that fails for ever is allowed.
* `JobBroadcast!FairSpec`: weak fairness of `OnNewJobAsync`, as the subscription takes every announced job and the broadcast awaits nothing that may not come, and of `OnRequest(t)`, the thread pool. New templates, connections and requests get none.
* `Balances!FairSpec`: weak fairness of `Thread(w)`; strong fairness of the write that waits for a row, since PostgreSQL serves those who wait for a row in turn. Timeouts, crashes and requests get none.
* `Relay!FairSpec`: weak fairness of the receiver's loop, of the attachment of pools, of each relay's queue, of each processor (all threads that run), and of `Subscribed(r)`, as ZeroMQ connects again and again. `Reconnects` assumes no more than that a relay has a message.
* `AionShares` has safety properties only and assumes no fairness.

## 4. Where code and words differ

1. **A cluster loses rewards** (`payout_cluster`). `UpdateBlockAsync` updates `WHERE blockheight = @blockheight` (`BlockRepository.cs:72`), whatever the pool. Confirming one pool's block confirms the row another pool has at that height, without a balance record; it is not pending any more, so nothing credits it later.
2. **A lagging daemon confirms a block at once** (`payout_lag`). `latestBlockHeight - block.BlockHeight` is unsigned (`AionPayoutHandler.cs:154`) and wraps when the daemon that answered is behind the block.
3. **A block may be rewarded twice** (`payout_twin`). The constraint `UNIQUE (poolid, blockheight, type)` (`createdb.sql:38`) never applies as `type` stays NULL. Two rows of one block (an unreported commit, an import) are hidden while both are pending; the one that arrives after the other was confirmed is credited again.
4. **The recovery file with a block in it cannot be imported** (`recorder_import`). `pools` is null in a recorder that was not started, and `PersistSharesCoreAsync` uses it for every candidate (`ShareRecorder.cs:125`): the batch is rolled back, and as its list is never emptied its size never equals `bufferSize` again.
5. **A duplicate is accepted** (`shares_repeat`). `RegisterNonce` looks for the dictionary of the connection and stores a new one later (`AionJob.cs:62`, `:66`), without a lock. Two first submissions for a job both find none, and the second dictionary replaces the first: the nonce in it, accepted and counted, is accepted once more.

Two more places where a check is narrower than its name; no comment or test of the repository promises more, so they are no findings, and the properties are stated with them. The "duplicate check" compares texts, not solutions: see `Rewritten` in 2.5. The credit of a share keeps the fraction of the difficulty that its target lost: a share at 3.5 has proved 3.

## 5. The proofs

TLAPS checks each theorem for every value of the constants that satisfies the module's named assumption (`PayoutAssumption`, `PPLNSAssumption`, `RecorderAssumption`, `SharesAssumption`, `BroadcastAssumption`, `BalancesAssumption`, `RelayAssumption`), and the further assumptions below. The named ones say what types the constants have, and that a few sets are finite: there are finitely many addresses (32 bytes) and processors (cores).

| Module | Theorem | Assumes | States |
|---|---|---|---|
| `PayoutProofs` | `TypeCorrect` | | `Spec => []TypeOK` |
| | `TransfersAreBooked` | | `Spec => []TransfersBooked` |
| | `NeverPaysTooMuch` | | `Spec => []NeverOverpaid` |
| | `RewardsAreCreditedOnce` | distinct heights | `Spec => []CreditedOnce` |
| | `EarnsConfirmedRewards` | distinct heights | `Spec => []EarnedFromConfirmed` |
| | `StatusesAreFinal` | distinct heights | `Spec => StatusIsFinal` |
| | `VerdictsStayRight` | distinct heights, deep enough, no lag | `Spec => []VerdictsAreFinal` |
| | `ImplementsLedger` | distinct heights | `Spec => LedgerSpec` |
| `PPLNSProofs` | `TypeCorrect`, `SharesCountOnce`, `NoShareIsSkipped` | | `TypeOK`, `CountedOnce`, `NoGap` |
| | `PartsAddUp`, `WindowsStayWhole`, `PagesPayTheWindow` | | `RewardsAddUp`, `LaterWindowsWhole`, `RewardsAreDue` |
| `ShareRecorderProofs` | `TypeCorrect`, `SharesAccountedFor`, `ImportIsTruthful` | | `TypeOK`, `Accounted`, `SuccessIsTrue` |
| `AionSharesProofs` | `TypeCorrect`, `SolutionsCountOnce`, `SharesAreProven`, `SharesCountForSender`, `BlocksAreMined` | | `TypeOK`, `NonceCountsOnce`, `CreditIsProven`, `CountsForSender`, `BlocksRecorded` |
| `JobBroadcastProofs` | `TypeCorrect`, `JobsAreNotMissed`, `DifficultiesAreTold` | | `TypeOK`, `NoJobMissed`, `DifficultyTold` |
| `BalancesProofs` | `TypeCorrect`, `BalancesAreJournaled` | | `TypeOK`, `JournalMatches` |
| | `TransactionsAreAtomic` | | `Spec => AddsAtomically` |
| `RelayProofs` | `TypeCorrect`, `SharesAreAccountedFor` | | `TypeOK`, `Accounted` |
| | `RelayIsChannel` | | `Spec => ImplementsChannel` |

Every invariant and every action property that a passing run checks is one of these, and so are the three refinements.

*Distinct heights* says that no two rows of `blocks` have the same height. It is what the schema's constraint was meant to give, per pool, and it is needed: findings 1 and 3 are what happens without it. *Deep enough* says that `4 * (FinalDepth - 1) <= 3 * MinConfirmations` and `FinalDepth <= MinConfirmations`: the chain is settled before the code writes a lost block off. *No lag* is `MaxLag = 0`; finding 2 is what happens without it.

The inductive invariants:

* **Types.** `TypeOK` is not inductive alone: the number of `due` coins is a natural number only because a balance is read at or over a positive minimum, the payee is an account only while it is being booked, and so on; `TypeInv` adds these.
* **Money** (`MoneyInv`). `NeverOverpaid` compares what was sent with what was gained, which no step relates directly. The chain of equations does: `balances = earned + added - deducted - settled` (`Journal`), `sent + rebooked = settled + unbooked + in flight` (`TransfersBooked`), and between reading balances and booking them the amount due does not exceed what the account gained and was not yet paid, as corrections in the account's disfavour are not part of that (`Covers`). `BookedInBook` says that an attempt is committed only while booking.
* **Blocks** (`BlockInv`). A verdict stored late could overwrite a final status. It cannot, because blocks still to classify or to store are pending in the table throughout the cycle (`WorkIsPending`), a pool's rows are touched by nothing else, and no block is both still to classify and already classified (`ClassifiesFirst`). `VerdictInv` adds that a verdict given on depth stays right while the chain grows and reorganises below it.
* **Ledger.** A step of `Payout` maps to one step of the ledger or a stutter: `StoreBlock` to `Credit`, `SendTransaction` and `SendFails` to `Transfer`, a crash or a given-up bookkeeping to `Forget`; `MoneyInv` gives that the transfer is covered.
* **PPLNS.** `PageInv`: what was counted lies at or behind the bound of the next page, the page still to count is uncounted. `GapInv`: every share of the table at the start which is newer than something counted and has no twin date is counted, in the page, or not ahead (`NothingSkipped`, `AllAhead`, `NoGap`).
* **Recorder.** `AccountInv` needs that shares have one place: memory, readable lines, lost and removed shares are apart, and a line that cannot be parsed is that of a lost share (`OnePlace`); shares that did not arrive are nowhere (`NotYet`). `ImportInv` says that lines read and no longer in the batch are rows (`ReadIsStored`), that a broken line which was read counts as a failure (`BrokenIsNoticed`), and that nothing is left at the end (`NothingLeft`).
* **Shares.** `CountInv` joins two arguments. Among connections: the values the counter takes next are nobody's as long as it has not come round (`UpcomingFresh`), so what was handed out is apart (`HandedOutApart`), and solutions carry what their connection got (`OwnExtraNonce`). Within a connection that waits: one submission runs at a time (`OneAtATime`), dictionaries belong to tasks that are past their registration (`CreatedByPast`), the one a submission found is still the connection's (`DictionaryCurrent`), everything published is in it in lower case (`PublishedKnown`), hence what runs is new as a text (`RunningNew`). Nothing is assumed of the two functions on texts. `CreditBounded` carries the difficulty from the first read to the second, and a smaller difficulty has no larger whole part (`TruncatedMonotone`); `SenderNamed` needs `NameFollows`, that outside an authorization a connection bears the name it asked for.
* **Jobs** (`JobInv`). `NoJobMissed` compares a client with `currentJobParams`, which the broadcast sets before it comes to the client and a task may read before. What carries it: broadcast and tasks are at connected clients that were accepted (`OnlyAccepted`), a broadcast between two clients is at none, and the one it is at has its initial work (`AtRest`), a client with initial work is in service (`Served`), a client the broadcast leaves out because its pending difficulty disappeared has a task that will send the job (`ThrowSafe`), and behind the job's own step the broadcast has sent it (`JobSent`).
* **Difficulties** (`DiffInv`). Without two requests at once a connection has one task that changes its difficulty (`OneRetarget`), and a pending difficulty is that task's (`OwnPending`), so that whoever applies it tells it.
* **Journal** (`JournalInv`). What a transaction wrote into a row it holds exceeds the committed amount by what it inserted into the journal, less the entry whose write is still to come, and rows it does not hold it owes nothing (`RowsOwed`): hence a commit moves both columns alike.

* **Earned** (`EarnedInv`). The confirmed blocks are finitely many, as a step confirms one at most, and every account earned its rewards over them; with distinct heights the row that `StoreBlock` confirms was pending, so that the sum grows by what the transaction credits.
* **Parts** (`RewardInv`). While a block is shared out the parts add up to the accumulated score, unless its reward is not positive and nobody gets anything (`SharedOut`); between blocks nothing is accumulated. As the score stops at the window, so does the sum that is stored.
* **Windows** (`WindowInv`). What was counted has scores, is no newer than its block and no older than the page that is left; a cut-off date lies at or before everything counted, and exists only when the window is full (`CountInv`). So the rows that a deletion leaves fill the window of a block that is not older, and inserts only add.
* **Dues** (`DueInv`). As long as nothing disturbs the block (equal dates, rows inserted into its window), the accumulated score is the sum of what was counted, capped at the window (`Exact`), and a miner's reward is the sum of the parts of his counted rows (`PaidInParts`), a part being what the window leaves to a row behind all newer ones. With `GapInv` the counted rows are the newest, and as a page that is not full is the last one, a window that is not filled has counted them all (`AllSeen`).
* **Transactions** (`StepsJournaled`). A transaction has inserted into the journal what its finished steps add, and the entry of the addition it is in. A commit therefore moves each sum by exactly `Effect`, and a rollback by nothing, which is a step of `BalanceLedger` or a stutter.
* **Relay** (`AccountInv`). The places of a message are counted in different ways: occurrences in a sequence, one field for each relay, the processors that hold it. A step changes two of the counts by one and opposite signs. Where a fault drops several places at once, the old sum, which is one at most, says that a message was in one of them only, so that it is lost once. It needs that a queue and a connection hold messages of their relay alone (`OwnMessages`) and that nothing polled waits outside a round (`PolledInRound`).
* **Channel.** A message at any place between acceptance and message bus was sent and neither handed over nor lost, by the same equation (`UnderwayIs`); a step that posts, polls, looks or reconnects without loss is a stutter, a loss is one `Drop` of everything it takes.

*Sums.* The amounts of the properties are sums over finite sets: the rewards of confirmed blocks, the scores of the newest shares, the amounts of a transaction. `Sums` defines them with the folds of the community modules, whose definition is a recursive function on subsets. `SumLemmas` proves how such a sum changes when an element joins or leaves or one summand changes, that sums are monotone, and that disjoint sets add up. They first show that this recursive function exists. A theorem of induction over finite sets would take the statement as an operator, which no prover at hand instantiates, so the lemmas look at a smallest set instead: if some subset of a finite set violated the statement, a smallest one would (`SmallestSet`), and that without one of its elements does not. The sequences of `Relay` are handled by one set of indices: how often a message occurs is the size of that set, which `Append` and `Tail` shift and change by one index.

Model-checked only: the liveness properties `BlocksDecided`, `BalancesPaidOut`, `BlocksPaid`, `Settled`, `JobsArrive`, `Settles`, `GetsThrough` and `Reconnects`, since the provers at hand have no rules for fairness and ENABLED.

## 6. Not modelled

* The reward formula, block effort, decimals and their rounding, RLP encoding and signing: pure computation or formatting.
* The numbers of transfers signed with a private key. `getLatestNonce` (`AionPayoutHandler.cs:390`) compares one number and one flag with the daemon's count; with a count that stays at 5 it yields 5, 6 and 5 again, so that of three transfers signed before the first is mined the third competes with the first. `Payout` models the accounts unlocked at the daemon (`SendTransactionUnlockedAccount`), where a returned hash is a transfer of its own.
* The invalid share and miner info recorders, whose synchronous policy runs an asynchronous delegate (`MinerInfoRecorder.cs:86`) and never sees its exception: rows for statistics, and a minimum payment that may be old.
* The order in which the receiver's processors hand over messages and the dates it gives to shares; the count of invalid shares (a share behind the time limit counts twice, `AionPool.cs:214`, `:239`) and bans.
* Statistics (sums nothing else decides on), notifications and the message bus as a channel (they inform people), REST queries (they read), configuration (its ranges are assumptions on constants), TLS and sockets.
* Hashing and native libraries, other coins' code the Aion pool never reaches, the user interface. The C and C++ sources of the repository, most of its lines, are these vendored hash functions and serializers under `src/aion_pool/src/Native`; the pool itself is the C# under `Miningcore`, and everything modelled is there.

## 7. Plan

Done, in this order: `PayoutLedger` and `Payout`, `PPLNS`, `ShareRecorder`, `AionShares`, `JobBroadcast`, `Balances` and `BalanceLedger`, `Relay` and `ShareChannel`, each with its instance, its runs and its theorems; the broken lines of the recovery file; the sums. What is left, most important first:

1. The numbers of transfers (`AionPayoutHandler.cs:390`) as a module of its own: no two transfers that wait share a number, and which histories of the daemon's count that needs.
2. `DaemonClient` (`ExecuteCmdAnyAsync`: the first completed answer), composed with `Payout`.
3. Bans and the count of invalid shares, two authorizations in flight, as an extension of `AionShares`.
4. Abstract specifications of the share recorder and of a connection's duplicate check, shown to be implemented as the ledgers and the channel are.
5. Pure algorithms as operators, checked against reference definitions over bounded inputs: the variable difficulty within its limits, the rewards calculator at its boundaries, the Equihash verifier of the native library.
