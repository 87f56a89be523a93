---------------------------- MODULE ShareRecorder ----------------------------
(***************************************************************************)
(* ShareRecorder: accepted shares are collected in batches, each of which  *)
(* is stored in one transaction, together with the blocks found by it.     *)
(* Retries, a circuit breaker and a recovery file stand between a failing  *)
(* database and the loss of shares.  The recovery file is imported by a    *)
(* run of the program of its own.                                          *)
(*                                                                         *)
(* The batches are numbered: memory holds the shares not settled yet, the  *)
(* batch being filled has the number filling, the oldest one the number    *)
(* taking.                                                                 *)
(***************************************************************************)
EXTENDS Integers, FiniteSets

CONSTANTS
  Shares,          \* shares the pools accept
  Candidates,      \* those with IsBlockCandidate
  BufferSize,      \* shares of a full batch
  ImportSize,      \* shares of a batch of an import
  RetryCount,      \* retries of a transaction
  BreakerLimit,    \* failures in a row that break the circuit
  MaxUnreported,   \* bound: commits whose success is not reported
  MaxImports       \* bound: runs of an import

ASSUME RecorderAssumption ==
  /\ Candidates \subseteq Shares
  /\ BufferSize \in Nat \ {0} /\ ImportSize \in Nat \ {0}
  /\ RetryCount \in Nat
  /\ BreakerLimit \in Nat \ {0}
  /\ MaxUnreported \in Nat /\ MaxImports \in Nat

VARIABLES
  (* the database and the disk *)
  rows,            \* rows[s]: rows of s in shares, and of its block in blocks
  file,            \* lines of the recovery file that can be parsed
  broken,          \* those that cannot, each named by the share that ends it
  unended,         \* the share whose line, last in the file, has no end
  (* the process *)
  mode,            \* down, recording, or recovering
  memory, batchNo, filling, taking,
  pc,              \* idle, persist, fallback; read, import, importRest, imported
  attempts,        \* failed attempts of the policy retry
  circuit, failures,
  unread,          \* lines the import has not read yet
  shares,          \* RecoverSharesAsync: shares of the batch
  failCount,       \* whether the import failed somewhere
  (* history *)
  accepted,
  lost,            \* shares that are gone
  removed,         \* shares whose lines were removed with the file
  unreported,      \* unreported[s]: commits of s that looked like failures
  imported,        \* imported[s]: commits of s by an import
  doubted,         \* commits that looked like failures
  imports,         \* runs of an import
  databaseFault    \* whether a transaction of the running import failed

disk == <<file, broken, unended>>
queue == <<memory, batchNo, filling, taking>>
policy == <<attempts, circuit, failures>>
recovery == <<unread, shares, failCount, imports, databaseFault>>
outcome == <<lost, removed, unreported, imported, doubted>>
vars == <<rows, disk, mode, queue, pc, policy, recovery, accepted, outcome>>

Zero == [s \in Shares |-> 0]

TypeOK ==
  /\ rows \in [Shares -> Nat]
  /\ file \subseteq accepted /\ broken \subseteq accepted /\ unended \subseteq accepted
  /\ mode \in {"down", "recording", "recovering"}
  /\ memory \subseteq accepted /\ batchNo \in [Shares -> Nat]
  /\ filling \in Nat /\ taking \in 0 .. filling
  /\ pc \in CASE mode = "down" -> {"idle"}
               [] mode = "recording" -> {"idle", "persist", "fallback"}
               [] OTHER -> {"read", "import", "importRest", "imported"}
  /\ attempts \in 0 .. RetryCount
  /\ circuit \in {"closed", "open", "halfOpen"} /\ failures \in 0 .. BreakerLimit - 1
  /\ unread \subseteq file \cup broken /\ shares \subseteq file /\ failCount \in BOOLEAN
  /\ accepted \subseteq Shares /\ lost \subseteq accepted /\ removed \subseteq accepted
  /\ unreported \in [Shares -> Nat] /\ imported \in [Shares -> Nat]
  /\ doubted \in 0 .. MaxUnreported
  /\ imports \in 0 .. MaxImports /\ databaseFault \in BOOLEAN

Init ==
  /\ rows = Zero /\ file = {} /\ broken = {} /\ unended = {}
  /\ mode = "down"
  /\ memory = {} /\ batchNo = Zero /\ filling = 0 /\ taking = 0
  /\ pc = "idle" /\ attempts = 0 /\ circuit = "closed" /\ failures = 0
  /\ unread = {} /\ shares = {} /\ failCount = FALSE
  /\ accepted = {} /\ lost = {} /\ removed = {}
  /\ unreported = Zero /\ imported = Zero /\ doubted = 0
  /\ imports = 0 /\ databaseFault = FALSE

(***************************************************************************)
(* Slips: how operators below could go wrong.  No specification uses them; *)
(* each refutes the property it is paired with.                            *)
(***************************************************************************)
RetryOnceMore == attempts <= RetryCount
WaitForCircuit == IF circuit = "open" THEN "idle" ELSE "persist"
TruncatedBy(S) == S
NoRest == FALSE

-----------------------------------------------------------------------------
Plus(f, S) == [s \in Shares |-> IF s \in S THEN f[s] + 1 ELSE f[s]]

(* PersistSharesCoreAsync: a transaction inserts shares and their blocks *)
Insert(S) == rows' = Plus(rows, S)

Doubt(S) ==  \* the commit is done, its answer is lost
  /\ doubted < MaxUnreported
  /\ doubted' = doubted + 1
  /\ unreported' = Plus(unreported, S)
  /\ Insert(S)

Batch == {s \in memory : batchNo[s] = taking}

Buffered == {s \in memory : batchNo[s] = filling}

-----------------------------------------------------------------------------
Start ==
  /\ mode = "down"
  /\ mode' = "recording"
  /\ circuit' = "closed" /\ failures' = 0
  /\ UNCHANGED <<rows, disk, queue, pc, attempts, recovery, accepted, outcome>>

(* a share arrives; Buffer(5 s, 200) closes a batch that is full *)
Accept(s) ==
  /\ mode = "recording" /\ s \notin accepted
  /\ accepted' = accepted \cup {s}
  /\ memory' = memory \cup {s}
  /\ batchNo' = [batchNo EXCEPT ![s] = filling]
  /\ filling' = IF Cardinality(Buffered) + 1 = BufferSize THEN filling + 1 ELSE filling
  /\ UNCHANGED <<rows, disk, mode, taking, pc, policy, recovery, outcome>>

(* ... or one that is five seconds old and not empty *)
CloseBuffer ==
  /\ mode = "recording" /\ Buffered # {}
  /\ filling' = filling + 1
  /\ UNCHANGED <<rows, disk, mode, memory, batchNo, taking, pc, policy, recovery,
                 accepted, outcome>>

(* an open circuit asks no database *)
Asked == IF circuit = "open" THEN "fallback" ELSE "persist"

(* Concat: one batch at a time, in order *)
TakeBatch ==
  /\ mode = "recording" /\ pc = "idle" /\ taking < filling
  /\ pc' = Asked
  /\ attempts' = 0
  /\ UNCHANGED <<rows, disk, mode, queue, circuit, failures, recovery, accepted, outcome>>

Settle ==  \* the batch is over, for better or worse
  /\ memory' = memory \ Batch
  /\ taking' = taking + 1
  /\ pc' = "idle"
  /\ UNCHANGED <<batchNo, filling>>

Commit ==
  /\ pc = "persist"
  /\ Insert(Batch) /\ Settle
  /\ circuit' = "closed" /\ failures' = 0
  /\ UNCHANGED <<disk, mode, attempts, recovery, accepted, outcome>>

MayRetry == attempts < RetryCount

(* the policies: retry first, then the breaker, then the recovery file *)
Retry ==
  /\ MayRetry
  /\ attempts' = attempts + 1
  /\ UNCHANGED <<circuit, failures, pc>>

Breaks == circuit = "halfOpen" \/ failures + 1 = BreakerLimit

GiveUp ==
  /\ ~MayRetry
  /\ circuit' = IF Breaks THEN "open" ELSE circuit
  /\ failures' = IF Breaks THEN 0 ELSE failures + 1
  /\ pc' = "fallback"
  /\ UNCHANGED attempts

(* DbException, SocketException or TimeoutException, rolled back *)
TransactionFails ==
  /\ pc = "persist"
  /\ Retry \/ GiveUp
  /\ UNCHANGED <<rows, disk, mode, queue, recovery, accepted, outcome>>

CommitUnreported ==
  /\ pc = "persist"
  /\ Doubt(Batch)
  /\ Retry \/ GiveUp
  /\ UNCHANGED <<disk, mode, queue, recovery, accepted, lost, removed, imported>>

(* any other exception passes the policies: logged, the batch is dropped.  *)
(* A half-open circuit lets no other call pass for another minute.         *)
OtherException ==
  /\ pc = "persist"
  /\ lost' = lost \cup Batch
  /\ Settle
  /\ circuit' = IF circuit = "halfOpen" THEN "open" ELSE circuit
  /\ UNCHANGED <<rows, disk, mode, attempts, failures, recovery, accepted,
                 removed, unreported, imported, doubted>>

(* FileMode.Append *)
Appended(S) == file \cup S

(* the share whose text comes right behind an unended line *)
Continues(written, cut) ==
  LET first == IF written \subseteq cut THEN cut ELSE written \ cut
  IN  IF unended = {} \/ first = {} THEN {{}} ELSE {{s} : s \in first}

(* The lines of written, of which cut lacks its end; a share of cut that   *)
(* is not in written is there in part.  What continues an unended line     *)
(* makes a single line with it, which is no JSON.                          *)
AppendLines(written, cut) ==
  \E glued \in Continues(written, cut) :
    LET spoilt == IF glued = {} THEN {} ELSE unended \cup glued
    IN  /\ file' = Appended(written) \ spoilt
        /\ broken' = (broken \ spoilt) \cup glued \cup (cut \ written)
        /\ unended' = IF written \cup cut = {} THEN unended ELSE cut
        /\ lost' = lost \cup (Batch \ written) \cup spoilt

WriteRecoveryFile ==
  /\ pc = "fallback"
  /\ AppendLines(Batch, {})
  /\ Settle
  /\ UNCHANGED <<rows, mode, policy, recovery, accepted, removed, unreported, imported, doubted>>

(* the disk fails behind some of the lines, or inside of one: "Share(s)    *)
(* will be lost!"                                                          *)
RecoveryFileFails ==
  /\ pc = "fallback"
  /\ \E written \in SUBSET Batch, cut \in {{}} \cup {{s} : s \in Batch} :
       AppendLines(written, cut)
  /\ Settle
  /\ UNCHANGED <<rows, mode, policy, recovery, accepted, removed, unreported, imported, doubted>>

MinutePasses ==
  /\ circuit = "open" /\ mode = "recording"
  /\ circuit' = "halfOpen"
  /\ UNCHANGED <<rows, disk, mode, queue, pc, attempts, failures, recovery, accepted, outcome>>

(* Stop waits for nothing: queue and buffer are lost as in a crash *)
Stop ==
  /\ mode = "recording"
  /\ mode' = "down" /\ pc' = "idle"
  /\ lost' = lost \cup memory
  /\ memory' = {} /\ batchNo' = Zero /\ filling' = 0 /\ taking' = 0
  /\ attempts' = 0
  /\ UNCHANGED <<rows, disk, circuit, failures, recovery, accepted,
                 removed, unreported, imported, doubted>>

-----------------------------------------------------------------------------
(* RecoverSharesAsync; the pools are stopped *)
StartRecovery ==
  /\ mode = "down" /\ file \cup broken # {} /\ imports < MaxImports
  /\ mode' = "recovering" /\ pc' = "read"
  /\ unread' = file \cup broken /\ shares' = {} /\ failCount' = FALSE
  /\ imports' = imports + 1 /\ databaseFault' = FALSE
  /\ UNCHANGED <<rows, disk, queue, policy, accepted, outcome>>

(* JsonConvert.DeserializeObject *)
Parses(s) == s \notin broken

(* A line that cannot be parsed is a failure.  A batch is due at exactly   *)
(* ImportSize shares, and at the end of the file.                          *)
ReadLine(s) ==
  /\ pc = "read" /\ s \in unread
  /\ unread' = unread \ {s}
  /\ shares' = IF Parses(s) THEN shares \cup {s} ELSE shares
  /\ failCount' = (failCount \/ ~Parses(s))
  /\ pc' = IF Cardinality(shares') = ImportSize THEN "import" ELSE "read"
  /\ UNCHANGED <<rows, disk, mode, queue, policy, imports, databaseFault, accepted, outcome>>

Rest == shares # {}

EndOfFile ==
  /\ pc = "read" /\ unread = {}
  /\ pc' = IF Rest THEN "importRest" ELSE "imported"
  /\ UNCHANGED <<rows, disk, mode, queue, policy, recovery, accepted, outcome>>

Importing == pc \in {"import", "importRest"}

Onward == pc' = IF pc = "import" THEN "read" ELSE "imported"

(* the pools of a recorder that was not started are null: a batch with a   *)
(* block candidate throws behind its inserts and is rolled back            *)
Importable == shares \cap Candidates = {}

ImportBatch ==
  /\ Importing /\ Importable
  /\ Insert(shares)
  /\ imported' = Plus(imported, shares)
  /\ shares' = {}
  /\ Onward
  /\ UNCHANGED <<disk, mode, queue, policy, unread, failCount, imports, databaseFault,
                 accepted, lost, removed, unreported, doubted>>

ImportCandidate ==
  /\ Importing /\ ~Importable
  /\ failCount' = TRUE
  /\ Onward
  /\ UNCHANGED <<rows, disk, mode, queue, policy, unread, shares, imports, databaseFault,
                 accepted, outcome>>

ImportFails ==
  /\ Importing
  /\ failCount' = TRUE /\ databaseFault' = TRUE
  /\ \/ UNCHANGED <<rows, unreported, doubted>>
     \/ Importable /\ Doubt(shares)
  /\ Onward
  /\ UNCHANGED <<disk, mode, queue, policy, unread, shares, imports, accepted, lost, removed, imported>>

EndRecovery ==
  /\ mode' = "down" /\ pc' = "idle"
  /\ unread' = {} /\ shares' = {}

(* "Successfully imported ... shares": the operator removes the file *)
RemoveFile ==
  /\ pc = "imported" /\ ~failCount
  /\ removed' = removed \cup file
  /\ file' = {} /\ broken' = {} /\ unended' = {}
  /\ EndRecovery
  /\ UNCHANGED <<rows, queue, policy, failCount, imports, databaseFault, accepted,
                 lost, unreported, imported, doubted>>

(* the import crashes, or ends with failures *)
KeepFile ==
  /\ mode = "recovering"
  /\ EndRecovery
  /\ UNCHANGED <<rows, disk, queue, policy, failCount, imports, databaseFault, accepted, outcome>>

-----------------------------------------------------------------------------
Persist ==
  \/ TakeBatch
  \/ Commit \/ TransactionFails \/ CommitUnreported \/ OtherException
  \/ WriteRecoveryFile \/ RecoveryFileFails

Recover ==
  \/ \E s \in Shares : ReadLine(s)
  \/ EndOfFile \/ ImportBatch \/ ImportCandidate \/ ImportFails

Environment ==
  \/ Start \/ Stop \/ MinutePasses \/ StartRecovery \/ RemoveFile \/ KeepFile
  \/ \E s \in Shares : Accept(s)

Next == CloseBuffer \/ Persist \/ Recover \/ Environment

Spec == Init /\ [][Next]_vars

(* The timer of the buffer fires and the subscription takes every batch;   *)
(* no outcome of a transaction is favoured, and no import has to be run.   *)
FairSpec ==
  /\ Spec
  /\ WF_vars(CloseBuffer)
  /\ WF_vars(Persist)

-----------------------------------------------------------------------------
In(s, S) == IF s \in S THEN 1 ELSE 0

(***************************************************************************)
(* Every share is accounted for: it is in memory, a line of the file or a  *)
(* row, or known to be lost, and exists more than once only through        *)
(* commits that looked like failures and lines that were imported and not  *)
(* removed.                                                                *)
(***************************************************************************)
Accounted ==
  \A s \in accepted :
    rows[s] + In(s, memory) + In(s, file) + In(s, lost) + In(s, removed)
      = 1 + unreported[s] + imported[s]

(***************************************************************************)
(* An import that reports no failure has read every line of the file and   *)
(* stored it, so that removing the file loses nothing.                     *)
(***************************************************************************)
SuccessIsTrue ==
  pc = "imported" /\ ~failCount =>
    broken = {} /\ \A s \in file : rows[s] > 0

(***************************************************************************)
(* Every accepted share is settled: failing transactions, broken circuits  *)
(* and failing disks do not hold it in memory for ever.                    *)
(***************************************************************************)
Settled == \A s \in Shares : s \in memory ~> s \notin memory

(***************************************************************************)
(* "The existence of this file means shares could not be committed to the  *)
(* database.  You should stop the pool cluster and run the following       *)
(* command": an import without a fault of the database stores the file.    *)
(* It does not: a block candidate in the file fails every import.          *)
(***************************************************************************)
ImportStoresFile ==
  pc = "imported" /\ ~databaseFault => \A s \in file : rows[s] > 0

=============================================================================
