-------------------------- MODULE ShareRecorderProofs --------------------------
(***************************************************************************)
(* Theorems about ShareRecorder, for every set of shares, every size of a  *)
(* batch and every number of retries.                                      *)
(***************************************************************************)
EXTENDS ShareRecorder, TLAPS

(***************************************************************************)
(* PlusType: counting keeps a counter a counter.                           *)
(***************************************************************************)
LEMMA PlusType ==
  ASSUME NEW f \in [Shares -> Nat], NEW S
  PROVE  Plus(f, S) \in [Shares -> Nat]
BY DEF Plus

LEMMA PlusValue ==
  ASSUME NEW f \in [Shares -> Nat], NEW S, NEW s \in Shares
  PROVE  Plus(f, S)[s] = f[s] + In(s, S)
BY DEF Plus, In

-----------------------------------------------------------------------------
(***************************************************************************)
(* The type invariant needs one more fact: what is left of an import run   *)
(* is empty outside of it, and nothing is in memory outside a recording.   *)
(***************************************************************************)
Apart ==
  /\ mode # "recovering" => unread = {} /\ shares = {}
  /\ mode # "recording" => memory = {}
  /\ pc \in {"persist", "fallback"} => taking < filling

TypeInv == TypeOK /\ Apart

(***************************************************************************)
(* TypeInit, TypeStep: TypeInv is inductive.                               *)
(***************************************************************************)
LEMMA TypeInit == Init => TypeInv
<1> SUFFICES ASSUME Init PROVE TypeInv
  OBVIOUS
<1>1. Zero \in [Shares -> Nat]
  BY DEF Zero
<1>2. attempts \in 0 .. RetryCount /\ failures \in 0 .. BreakerLimit - 1
      /\ doubted \in 0 .. MaxUnreported /\ imports \in 0 .. MaxImports /\ taking \in 0 .. filling
  BY RecorderAssumption DEF Init
<1> QED
  BY <1>1, <1>2 DEF Init, TypeInv, TypeOK, Apart

(***************************************************************************)
(* The outcomes of a transaction share what they do to the policies and    *)
(* to the batch.                                                           *)
(***************************************************************************)
LEMMA PolicyTypes ==
  ASSUME TypeOK, pc = "persist", Retry \/ GiveUp
  PROVE  /\ attempts' \in 0 .. RetryCount /\ failures' \in 0 .. BreakerLimit - 1
         /\ circuit' \in {"closed", "open", "halfOpen"}
         /\ pc' \in {"persist", "fallback"}
<1>1. CASE Retry
  BY <1>1, RecorderAssumption DEF Retry, MayRetry, TypeOK
<1>2. CASE GiveUp
  BY <1>2, RecorderAssumption DEF GiveUp, Breaks, TypeOK
<1> QED
  BY <1>1, <1>2

LEMMA SettleTypes ==
  ASSUME TypeInv, pc \in {"persist", "fallback"}, Settle
  PROVE  /\ memory' \subseteq memory /\ batchNo' = batchNo /\ filling' = filling
         /\ taking' \in 0 .. filling' /\ pc' = "idle" /\ mode = "recording"
BY DEF Settle, TypeInv, TypeOK, Apart

LEMMA AppendTypes ==
  ASSUME TypeOK, NEW written \in SUBSET Batch, NEW cut \in SUBSET Batch, AppendLines(written, cut)
  PROVE  /\ file' \subseteq accepted /\ broken' \subseteq accepted /\ lost' \subseteq accepted
         /\ unended' \subseteq accepted
<1>1. PICK glued \in Continues(written, cut) :
        LET spoilt == IF glued = {} THEN {} ELSE unended \cup glued
        IN  /\ file' = Appended(written) \ spoilt
            /\ broken' = (broken \ spoilt) \cup glued \cup (cut \ written)
            /\ unended' = IF written \cup cut = {} THEN unended ELSE cut
            /\ lost' = lost \cup (Batch \ written) \cup spoilt
  BY DEF AppendLines
<1>2. Batch \subseteq accepted
  BY DEF Batch, TypeOK
<1>3. glued \subseteq written \cup cut
  BY DEF Continues
<1> QED
  BY <1>1, <1>2, <1>3 DEF Appended, TypeOK

LEMMA TypeStep == TypeInv /\ [Next]_vars => TypeInv'
<1> SUFFICES ASSUME TypeInv, [Next]_vars PROVE TypeInv'
  OBVIOUS
<1> USE DEF TypeInv, disk, queue, policy, recovery, outcome
<1>1. CASE Start
  BY <1>1, RecorderAssumption DEF Start, TypeOK, Apart
<1>2. ASSUME NEW s \in Shares, Accept(s) PROVE TypeInv'
  <2>1. filling' \in {filling, filling + 1} /\ taking' = taking
    BY <1>2 DEF Accept
  <2>2. batchNo' \in [Shares -> Nat]
    BY <1>2 DEF Accept, TypeOK
  <2>3. memory' = memory \cup {s} /\ accepted' = accepted \cup {s}
    BY <1>2 DEF Accept
  <2>4. filling' \in Nat /\ taking' \in 0 .. filling' /\ (taking < filling => taking' < filling')
    BY <2>1 DEF TypeOK
  <2>5. UNCHANGED <<rows, disk, mode, pc, policy, recovery, outcome>> /\ mode = "recording"
    BY <1>2 DEF Accept
  <2> QED
    BY <2>2, <2>3, <2>4, <2>5 DEF TypeOK, Apart
<1>3. CASE CloseBuffer
  <2>1. filling' \in Nat /\ taking' \in 0 .. filling' /\ (taking < filling => taking' < filling')
    BY <1>3 DEF CloseBuffer, TypeOK
  <2> QED
    BY <1>3, <2>1 DEF CloseBuffer, TypeOK, Apart
<1>4. CASE TakeBatch
  <2>1. pc' \in {"persist", "fallback"} /\ attempts' \in 0 .. RetryCount /\ taking < filling
    BY <1>4, RecorderAssumption DEF TakeBatch, Asked
  <2> QED
    BY <1>4, <2>1 DEF TakeBatch, TypeOK, Apart
<1>5. CASE Commit
  <2>1. rows' \in [Shares -> Nat]
    BY <1>5, PlusType DEF Commit, Insert, TypeOK
  <2> QED
    BY <1>5, <2>1, SettleTypes, RecorderAssumption DEF Commit, TypeOK, Apart
<1>6. CASE TransactionFails
  BY <1>6, PolicyTypes DEF TransactionFails, TypeOK, Apart
<1>7. CASE CommitUnreported
  <2>1. /\ rows' \in [Shares -> Nat] /\ unreported' \in [Shares -> Nat]
        /\ doubted' \in 0 .. MaxUnreported
    BY <1>7, PlusType, RecorderAssumption DEF CommitUnreported, Doubt, Insert, TypeOK
  <2> QED
    BY <1>7, <2>1, PolicyTypes DEF CommitUnreported, TypeOK, Apart
<1>8. CASE OtherException
  <2>1. lost' \subseteq accepted
    BY <1>8 DEF OtherException, Batch, TypeOK
  <2>2. circuit' \in {"closed", "open", "halfOpen"}
    BY <1>8 DEF OtherException, TypeOK
  <2> QED
    BY <1>8, <2>1, <2>2, SettleTypes DEF OtherException, TypeOK, Apart
<1>9. CASE WriteRecoveryFile
  <2>1. /\ file' \subseteq accepted /\ broken' \subseteq accepted /\ lost' \subseteq accepted
        /\ unended' \subseteq accepted
    BY <1>9, AppendTypes DEF WriteRecoveryFile
  <2> QED
    BY <1>9, <2>1, SettleTypes DEF WriteRecoveryFile, TypeOK, Apart
<1>10. CASE RecoveryFileFails
  <2>1. PICK written \in SUBSET Batch, cut \in {{}} \cup {{s} : s \in Batch} :
          AppendLines(written, cut)
    BY <1>10 DEF RecoveryFileFails
  <2>2. cut \in SUBSET Batch
    OBVIOUS
  <2>3. /\ file' \subseteq accepted /\ broken' \subseteq accepted /\ lost' \subseteq accepted
        /\ unended' \subseteq accepted
    BY <2>1, <2>2, AppendTypes
  <2> QED
    BY <1>10, <2>3, SettleTypes DEF RecoveryFileFails, TypeOK, Apart
<1>11. CASE MinutePasses
  BY <1>11 DEF MinutePasses, TypeOK, Apart
<1>12. CASE Stop
  <2>1. batchNo' \in [Shares -> Nat] /\ attempts' \in 0 .. RetryCount /\ taking' \in 0 .. filling'
    BY <1>12, RecorderAssumption DEF Stop, Zero
  <2> QED
    BY <1>12, <2>1 DEF Stop, TypeOK, Apart
<1>13. CASE StartRecovery
  <2>1. imports' \in 0 .. MaxImports
    BY <1>13, RecorderAssumption DEF StartRecovery, TypeOK
  <2> QED
    BY <1>13, <2>1 DEF StartRecovery, TypeOK, Apart
<1>14. ASSUME NEW s \in Shares, ReadLine(s) PROVE TypeInv'
  <2>1. mode = "recovering" /\ pc' \in {"import", "read"}
    BY <1>14 DEF ReadLine, TypeOK
  <2>2. shares' \subseteq file /\ unread' \subseteq unread /\ failCount' \in BOOLEAN
    BY <1>14 DEF ReadLine, Parses, TypeOK
  <2> QED
    BY <1>14, <2>1, <2>2 DEF ReadLine, TypeOK, Apart
<1>15. CASE EndOfFile
  <2>1. mode = "recovering" /\ pc' \in {"importRest", "imported"}
    BY <1>15 DEF EndOfFile, TypeOK
  <2> QED
    BY <1>15, <2>1 DEF EndOfFile, TypeOK, Apart
<1>16. ASSUME Importing, Onward PROVE mode = "recovering" /\ pc' \in {"read", "imported"}
  BY <1>16 DEF Importing, Onward, TypeOK
<1>17. CASE ImportBatch
  <2>1. rows' \in [Shares -> Nat] /\ imported' \in [Shares -> Nat]
    BY <1>17, PlusType DEF ImportBatch, Insert, TypeOK
  <2> QED
    BY <1>16, <1>17, <2>1 DEF ImportBatch, TypeOK, Apart
<1>18. CASE ImportCandidate
  BY <1>16, <1>18 DEF ImportCandidate, TypeOK, Apart
<1>19. CASE ImportFails
  <2>1. /\ rows' \in [Shares -> Nat] /\ unreported' \in [Shares -> Nat]
        /\ doubted' \in 0 .. MaxUnreported
    BY <1>19, PlusType, RecorderAssumption DEF ImportFails, Doubt, Insert, TypeOK
  <2> QED
    BY <1>16, <1>19, <2>1 DEF ImportFails, TypeOK, Apart
<1>20. CASE RemoveFile
  <2>1. mode = "recovering"
    BY <1>20 DEF RemoveFile, TypeOK
  <2> QED
    BY <1>20, <2>1 DEF RemoveFile, EndRecovery, TypeOK, Apart
<1>21. CASE KeepFile
  BY <1>21 DEF KeepFile, EndRecovery, TypeOK, Apart
<1>22. CASE UNCHANGED vars
  BY <1>22 DEF vars, TypeOK, Apart
<1> QED
  BY <1>1, <1>2, <1>3, <1>4, <1>5, <1>6, <1>7, <1>8, <1>9, <1>10, <1>11, <1>12, <1>13, <1>14,
     <1>15, <1>17, <1>18, <1>19, <1>20, <1>21, <1>22
  DEF Next, Persist, Recover, Environment

(***************************************************************************)
(* The recorder keeps its types, whatever the database and the disk do; in *)
(* particular a transaction is retried at most RetryCount times.           *)
(***************************************************************************)
THEOREM TypeCorrect == Spec => []TypeOK
<1>1. TypeInv => TypeOK
  BY DEF TypeInv
<1> QED
  BY <1>1, TypeInit, TypeStep, PTL DEF Spec

-----------------------------------------------------------------------------
(***************************************************************************)
(* Accounted is not inductive: a share that were in memory and in the file *)
(* at once would be settled without anything to show for it.  And shares   *)
(* that did not arrive yet were never stored.                              *)
(***************************************************************************)
OnePlace ==
  /\ memory \cap (file \cup lost \cup removed) = {}
  /\ file \cap (lost \cup removed) = {}
  /\ broken \subseteq lost
  /\ unended \subseteq file \cup lost

NotYet ==
  \A s \in Shares \ accepted : rows[s] = 0 /\ unreported[s] = 0 /\ imported[s] = 0

AccountInv == OnePlace /\ NotYet /\ Accounted

(***************************************************************************)
(* AccountInit, AccountStep: AccountInv is inductive.                      *)
(***************************************************************************)
LEMMA AccountInit == Init => AccountInv
BY DEF Init, AccountInv, OnePlace, NotYet, Accounted, Zero

LEMMA AccountSettle ==  \* what a batch becomes decides; the rest is Settle
  ASSUME TypeInv, AccountInv, Settle, UNCHANGED <<accepted, removed, imported>>,
         NEW stored \in SUBSET Batch, NEW written \in SUBSET Batch, NEW gone \in SUBSET Batch,
         \A s \in Batch : In(s, stored) + In(s, written) + In(s, gone) = 1,
         NEW spoilt \in SUBSET (file \cup lost \cup written),
         rows' = Plus(rows, stored), UNCHANGED unreported,
         file' = (file \cup written) \ spoilt, lost' = lost \cup gone \cup spoilt,
         broken' \subseteq lost', unended' \subseteq file' \cup lost'
  PROVE  AccountInv'
<1>1. Batch \subseteq memory /\ memory' = memory \ Batch /\ memory \subseteq accepted
      /\ accepted \subseteq Shares
  BY DEF Settle, Batch, TypeInv, TypeOK
<1>2. OnePlace'
  <2>1. written \cap gone = {}
    BY DEF In
  <2> QED
    BY <1>1, <2>1 DEF AccountInv, OnePlace
<1>3. ASSUME NEW s \in Shares
      PROVE  rows'[s] = rows[s] + In(s, stored) /\ rows[s] \in Nat
             /\ unreported[s] \in Nat /\ imported[s] \in Nat
  BY PlusValue DEF TypeInv, TypeOK
<1>4. NotYet'
  BY <1>1, <1>3 DEF AccountInv, NotYet, In
<1>5. ASSUME NEW s \in accepted
      PROVE  rows'[s] + In(s, memory') + In(s, file') + In(s, lost') + In(s, removed)
               = 1 + unreported[s] + imported[s]
  <2>0. s \in Shares
    BY <1>1
  <2>1. rows[s] + In(s, memory) + In(s, file) + In(s, lost) + In(s, removed)
          = 1 + unreported[s] + imported[s]
    BY DEF AccountInv, Accounted
  <2>2. CASE s \in Batch
    <3>1. s \in memory /\ s \notin file /\ s \notin lost
      BY <1>1, <2>2 DEF AccountInv, OnePlace
    <3>2. In(s, memory) = 1 /\ In(s, memory') = 0 /\ In(s, file) = 0 /\ In(s, lost) = 0
      BY <1>1, <2>2, <3>1 DEF In
    <3>4. In(s, written) + In(s, gone) = In(s, file') + In(s, lost')
      BY <2>2, <3>1 DEF In
    <3>3. In(s, stored) \in Nat /\ In(s, written) \in Nat /\ In(s, gone) \in Nat
          /\ In(s, removed) \in Nat /\ In(s, file') \in Nat /\ In(s, lost') \in Nat
      BY DEF In
    <3> QED
      BY <1>3, <2>0, <2>1, <2>2, <3>2, <3>3, <3>4
  <2>3. CASE s \notin Batch
    <3>1. In(s, memory') = In(s, memory) /\ In(s, stored) = 0
      BY <1>1, <2>3 DEF In
    <3>2. In(s, file') + In(s, lost') = In(s, file) + In(s, lost)
      BY <2>3 DEF In, AccountInv, OnePlace
    <3>3. /\ In(s, file) \in Nat /\ In(s, lost) \in Nat /\ In(s, removed) \in Nat
          /\ In(s, file') \in Nat /\ In(s, lost') \in Nat /\ In(s, memory) \in Nat
      BY DEF In
    <3> QED
      BY <1>3, <2>0, <2>1, <3>1, <3>2, <3>3
  <2> QED
    BY <2>2, <2>3
<1>6. Accounted'
  BY <1>5 DEF Accounted
<1> QED
  BY <1>2, <1>4, <1>6 DEF AccountInv

LEMMA AccountAppend ==  \* a batch that goes to the file, as far as it gets
  ASSUME TypeInv, AccountInv, Settle, UNCHANGED <<rows, accepted, removed, unreported, imported>>,
         NEW written \in SUBSET Batch, NEW cut \in SUBSET Batch, AppendLines(written, cut)
  PROVE  AccountInv'
<1>1. PICK glued \in Continues(written, cut) :
        LET spoilt == IF glued = {} THEN {} ELSE unended \cup glued
        IN  /\ file' = Appended(written) \ spoilt
            /\ broken' = (broken \ spoilt) \cup glued \cup (cut \ written)
            /\ unended' = IF written \cup cut = {} THEN unended ELSE cut
            /\ lost' = lost \cup (Batch \ written) \cup spoilt
  BY DEF AppendLines
<1> DEFINE spoilt == IF glued = {} THEN {} ELSE unended \cup glued
           kept == spoilt \ (Batch \ written)
<1>2. glued \subseteq written \cup cut
  BY DEF Continues
<1>3. unended \subseteq file \cup lost /\ broken \subseteq lost
  BY DEF AccountInv, OnePlace
<1>4. Batch \cap file = {}
  BY DEF Batch, AccountInv, OnePlace
<1>5. kept \in SUBSET (file \cup lost \cup written)
  BY <1>2, <1>3
<1>6. /\ file' = (file \cup written) \ kept
      /\ lost' = lost \cup (Batch \ written) \cup kept
  BY <1>1, <1>4 DEF Appended
<1>7. broken' \subseteq lost'
  BY <1>1, <1>2, <1>3
<1>8. unended' \subseteq file' \cup lost'
  BY <1>1, <1>3 DEF Appended
<1>9. \A s \in Batch : In(s, {}) + In(s, written) + In(s, Batch \ written) = 1
  BY DEF In
<1>10. rows' = Plus(rows, {})
  BY DEF Plus, TypeInv, TypeOK
<1> HIDE DEF kept
<1> QED
  BY <1>5, <1>6, <1>7, <1>8, <1>9, <1>10, AccountSettle

LEMMA AccountDoubt ==  \* an unreported commit is owned up to
  ASSUME TypeInv, AccountInv, UNCHANGED <<memory, disk, lost, removed, accepted, imported>>,
         NEW S \in SUBSET accepted, Doubt(S)
  PROVE  AccountInv'
<1>1. OnePlace'
  BY DEF AccountInv, OnePlace, disk
<1>2. ASSUME NEW s \in Shares
      PROVE  rows'[s] = rows[s] + In(s, S) /\ unreported'[s] = unreported[s] + In(s, S)
             /\ rows[s] \in Nat /\ unreported[s] \in Nat
  BY PlusValue DEF Doubt, Insert, TypeInv, TypeOK
<1>3. NotYet'
  BY <1>2 DEF AccountInv, NotYet, In
<1>4. Accounted'
  BY <1>2 DEF AccountInv, Accounted, In, TypeInv, TypeOK, disk
<1> QED
  BY <1>1, <1>3, <1>4 DEF AccountInv

LEMMA AccountStep == TypeInv /\ AccountInv /\ [Next]_vars => AccountInv'
<1> SUFFICES ASSUME TypeInv, AccountInv, [Next]_vars PROVE AccountInv'
  OBVIOUS
<1> USE DEF disk, queue, outcome
<1>0. ASSUME UNCHANGED <<rows, memory, disk, accepted, outcome>> PROVE AccountInv'
  BY <1>0 DEF AccountInv, OnePlace, NotYet, Accounted
<1>1. CASE Start
  BY <1>0, <1>1 DEF Start
<1>2. ASSUME NEW s \in Shares, Accept(s) PROVE AccountInv'
  <2>1. /\ s \notin accepted /\ accepted' = accepted \cup {s} /\ memory' = memory \cup {s}
        /\ UNCHANGED <<rows, disk, outcome>>
    BY <1>2 DEF Accept
  <2>2. memory \subseteq accepted /\ file \subseteq accepted /\ lost \subseteq accepted
        /\ removed \subseteq accepted
    BY DEF TypeInv, TypeOK
  <2> QED
    BY <2>1, <2>2 DEF AccountInv, OnePlace, NotYet, Accounted, In
<1>3. CASE CloseBuffer
  BY <1>0, <1>3 DEF CloseBuffer
<1>4. CASE TakeBatch
  BY <1>0, <1>4 DEF TakeBatch
<1>5. CASE Commit
  <2>1. \A s \in Batch : In(s, Batch) + In(s, {}) + In(s, {}) = 1
    BY DEF In
  <2>2. rows' = Plus(rows, Batch) /\ Settle
        /\ UNCHANGED <<accepted, removed, imported, unreported>>
        /\ file' = (file \cup {}) \ {} /\ lost' = lost \cup {} \cup {}
        /\ broken' \subseteq lost' /\ unended' \subseteq file' \cup lost'
    BY <1>5 DEF Commit, Insert, AccountInv, OnePlace
  <2> QED
    BY <2>1, <2>2, AccountSettle
<1>6. CASE TransactionFails
  BY <1>0, <1>6 DEF TransactionFails
<1>7. CASE CommitUnreported
  <2>1. Batch \in SUBSET accepted
    BY DEF Batch, TypeInv, TypeOK
  <2> QED
    BY <1>7, <2>1, AccountDoubt DEF CommitUnreported
<1>8. Plus(rows, {}) = rows
  BY DEF Plus, TypeInv, TypeOK
<1>9. CASE OtherException
  <2>1. \A s \in Batch : In(s, {}) + In(s, {}) + In(s, Batch) = 1
    BY DEF In
  <2>2. rows' = Plus(rows, {}) /\ Settle
        /\ UNCHANGED <<accepted, removed, imported, unreported>>
        /\ file' = (file \cup {}) \ {} /\ lost' = lost \cup Batch \cup {}
        /\ broken' \subseteq lost' /\ unended' \subseteq file' \cup lost'
    BY <1>8, <1>9 DEF OtherException, AccountInv, OnePlace
  <2> QED
    BY <2>1, <2>2, AccountSettle
<1>10. CASE WriteRecoveryFile
  BY <1>10, AccountAppend DEF WriteRecoveryFile
<1>11. CASE RecoveryFileFails
  <2>1. PICK written \in SUBSET Batch, cut \in {{}} \cup {{s} : s \in Batch} :
          AppendLines(written, cut)
    BY <1>11 DEF RecoveryFileFails
  <2>2. cut \in SUBSET Batch
    OBVIOUS
  <2> QED
    BY <1>11, <2>1, <2>2, AccountAppend DEF RecoveryFileFails
<1>12. CASE MinutePasses
  BY <1>0, <1>12 DEF MinutePasses
<1>13. CASE Stop
  <2>1. /\ lost' = lost \cup memory /\ memory' = {}
        /\ UNCHANGED <<rows, disk, accepted, removed, unreported, imported>>
    BY <1>13 DEF Stop
  <2>2. \A s : In(s, memory') + In(s, lost') = In(s, memory) + In(s, lost)
    BY <2>1 DEF AccountInv, OnePlace, In
  <2>3. \A s : /\ In(s, memory) \in Nat /\ In(s, lost) \in Nat
              /\ In(s, memory') \in Nat /\ In(s, lost') \in Nat
              /\ In(s, file) \in Nat /\ In(s, removed) \in Nat
    BY DEF In
  <2>4. Accounted'
    <3> SUFFICES ASSUME NEW s \in accepted
                 PROVE  rows[s] + In(s, memory') + In(s, file') + In(s, lost') + In(s, removed')
                          = 1 + unreported[s] + imported[s]
      BY <2>1 DEF Accounted
    <3>1. rows[s] + In(s, memory) + In(s, file) + In(s, lost) + In(s, removed)
            = 1 + unreported[s] + imported[s]
      BY DEF AccountInv, Accounted
    <3>2. rows[s] \in Nat /\ unreported[s] \in Nat /\ imported[s] \in Nat
      BY DEF TypeInv, TypeOK
    <3>3. file' = file /\ removed' = removed
      BY <2>1
    <3> QED
      BY <2>2, <2>3, <3>1, <3>2, <3>3
  <2> QED
    BY <2>1, <2>4 DEF AccountInv, OnePlace, NotYet
<1>14. CASE StartRecovery
  BY <1>0, <1>14 DEF StartRecovery
<1>15. ASSUME NEW s \in Shares, ReadLine(s) PROVE AccountInv'
  BY <1>0, <1>15 DEF ReadLine
<1>16. CASE EndOfFile
  BY <1>0, <1>16 DEF EndOfFile
<1>17. shares \in SUBSET accepted
  BY DEF TypeInv, TypeOK
<1>18. CASE ImportBatch
  <2>1. /\ rows' = Plus(rows, shares) /\ imported' = Plus(imported, shares)
        /\ UNCHANGED <<memory, disk, accepted, lost, removed, unreported>>
    BY <1>18 DEF ImportBatch, Insert
  <2>2. ASSUME NEW s \in Shares
        PROVE  rows'[s] = rows[s] + In(s, shares) /\ imported'[s] = imported[s] + In(s, shares)
               /\ rows[s] \in Nat /\ imported[s] \in Nat /\ unreported[s] \in Nat
    BY <2>1, PlusValue DEF TypeInv, TypeOK
  <2>3. OnePlace'
    BY <2>1 DEF AccountInv, OnePlace
  <2>4. NotYet'
    BY <1>17, <2>1, <2>2 DEF AccountInv, NotYet, In
  <2>5. Accounted'
    BY <2>1, <2>2 DEF AccountInv, Accounted, In, TypeInv, TypeOK
  <2> QED
    BY <2>3, <2>4, <2>5 DEF AccountInv
<1>19. CASE ImportCandidate
  BY <1>0, <1>19 DEF ImportCandidate
<1>20. CASE ImportFails
  <2>1. UNCHANGED <<memory, disk, accepted, lost, removed, imported>>
    BY <1>20 DEF ImportFails
  <2>2. CASE UNCHANGED <<rows, unreported, doubted>>
    BY <1>0, <2>1, <2>2
  <2>3. CASE Doubt(shares)
    BY <1>17, <2>1, <2>3, AccountDoubt
  <2> QED
    BY <1>20, <2>2, <2>3 DEF ImportFails
<1>21. CASE RemoveFile
  <2>1. /\ removed' = removed \cup file /\ file' = {} /\ broken' = {} /\ unended' = {}
        /\ UNCHANGED <<rows, memory, accepted, lost, unreported, imported>>
    BY <1>21 DEF RemoveFile
  <2>2. memory = {}
    BY <1>21 DEF RemoveFile, TypeInv, TypeOK, Apart
  <2>3. \A s : In(s, file') + In(s, removed') = In(s, file) + In(s, removed)
    BY <2>1 DEF AccountInv, OnePlace, In
  <2>4. \A s : /\ In(s, file) \in Nat /\ In(s, removed) \in Nat
              /\ In(s, file') \in Nat /\ In(s, removed') \in Nat
              /\ In(s, memory) \in Nat /\ In(s, lost) \in Nat
    BY DEF In
  <2>5. Accounted'
    <3> SUFFICES ASSUME NEW s \in accepted
                 PROVE  rows[s] + In(s, memory') + In(s, file') + In(s, lost') + In(s, removed')
                          = 1 + unreported[s] + imported[s]
      BY <2>1 DEF Accounted
    <3>1. rows[s] + In(s, memory) + In(s, file) + In(s, lost) + In(s, removed)
            = 1 + unreported[s] + imported[s]
      BY DEF AccountInv, Accounted
    <3>2. rows[s] \in Nat /\ unreported[s] \in Nat /\ imported[s] \in Nat
      BY DEF TypeInv, TypeOK
    <3>3. memory' = memory /\ lost' = lost
      BY <2>1
    <3> QED
      BY <2>3, <2>4, <3>1, <3>2, <3>3
  <2> QED
    BY <2>1, <2>2, <2>5 DEF AccountInv, OnePlace, NotYet
<1>22. CASE KeepFile
  BY <1>0, <1>22 DEF KeepFile
<1>23. CASE UNCHANGED vars
  BY <1>0, <1>23 DEF vars
<1> QED
  BY <1>1, <1>2, <1>3, <1>4, <1>5, <1>6, <1>7, <1>9, <1>10, <1>11, <1>12, <1>13, <1>14, <1>15,
     <1>16, <1>18, <1>19, <1>20, <1>21, <1>22, <1>23
  DEF Next, Persist, Recover, Environment

(***************************************************************************)
(* Every accepted share is accounted for, whatever fails and however often *)
(* the process stops: no share vanishes, and none is stored twice but by   *)
(* an unreported commit or an import.                                      *)
(***************************************************************************)
THEOREM SharesAccountedFor == Spec => []Accounted
<1>1. Init => TypeInv /\ AccountInv
  BY TypeInit, AccountInit
<1>2. TypeInv /\ AccountInv /\ [Next]_vars => (TypeInv /\ AccountInv)'
  BY TypeStep, AccountStep
<1>3. AccountInv => Accounted
  BY DEF AccountInv
<1> QED
  BY <1>1, <1>2, <1>3, PTL DEF Spec

-----------------------------------------------------------------------------
(***************************************************************************)
(* What an import has read is stored or kept for its next batch, and at    *)
(* the end only a failed import keeps shares or has met a broken line.     *)
(***************************************************************************)
ReadIsStored ==
  mode = "recovering" => \A s \in file \ (unread \cup shares \cup broken) : rows[s] > 0

NothingLeft ==
  /\ pc \in {"importRest", "imported"} => unread = {}
  /\ pc = "imported" /\ ~failCount => shares = {}

BrokenIsNoticed == mode = "recovering" /\ ~failCount => broken \subseteq unread

ImportInv == ReadIsStored /\ NothingLeft /\ BrokenIsNoticed

(***************************************************************************)
(* ImportInit, ImportStep: ImportInv is inductive.                         *)
(***************************************************************************)
LEMMA ImportInit == Init => ImportInv
BY DEF Init, ImportInv, ReadIsStored, NothingLeft, BrokenIsNoticed

LEMMA ImportStep == TypeInv /\ ImportInv /\ [Next]_vars => ImportInv'
<1> SUFFICES ASSUME TypeInv, ImportInv, [Next]_vars PROVE ImportInv'
  OBVIOUS
<1> USE DEF disk, recovery
<1>0. ASSUME UNCHANGED <<rows, disk, mode, pc, recovery>> PROVE ImportInv'
  BY <1>0 DEF ImportInv, ReadIsStored, NothingLeft, BrokenIsNoticed
<1>1. ASSUME mode' # "recovering", pc' \notin {"importRest", "imported"} PROVE ImportInv'
  BY <1>1 DEF ImportInv, ReadIsStored, NothingLeft, BrokenIsNoticed
<1>2. CASE mode = "recording" /\ mode' = mode /\ pc' \in {"idle", "persist", "fallback"}
  BY <1>1, <1>2
<1>3. CASE Start
  BY <1>1, <1>3 DEF Start, TypeInv, TypeOK
<1>4. ASSUME NEW s \in Shares, Accept(s) PROVE ImportInv'
  BY <1>2, <1>4 DEF Accept, TypeInv, TypeOK
<1>5. CASE CloseBuffer
  BY <1>2, <1>5 DEF CloseBuffer, TypeInv, TypeOK
<1>6. CASE Persist
  <2>1. mode = "recording" /\ mode' = mode
    BY <1>6 DEF Persist, TakeBatch, Commit, TransactionFails, CommitUnreported, OtherException,
                WriteRecoveryFile, RecoveryFileFails, TypeInv, TypeOK
  <2>2. TypeInv'
    BY TypeStep
  <2> QED
    BY <1>2, <2>1, <2>2 DEF TypeInv, TypeOK
<1>7. CASE Stop
  BY <1>1, <1>7 DEF Stop
<1>8. CASE MinutePasses
  BY <1>2, <1>8 DEF MinutePasses, TypeInv, TypeOK
<1>9. CASE StartRecovery
  BY <1>9 DEF StartRecovery, ImportInv, ReadIsStored, NothingLeft, BrokenIsNoticed
<1>10. ASSUME NEW s \in Shares, ReadLine(s) PROVE ImportInv'
  BY <1>10 DEF ReadLine, Parses, ImportInv, ReadIsStored, NothingLeft, BrokenIsNoticed
<1>11. CASE EndOfFile
  BY <1>11 DEF EndOfFile, Rest, ImportInv, ReadIsStored, NothingLeft, BrokenIsNoticed
<1>12. ASSUME Importing, Onward
       PROVE  pc' = "read" \/ (pc' = "imported" /\ unread = {})
  BY <1>12 DEF Importing, Onward, ImportInv, NothingLeft
<1>13. \A S : \A s \in Shares : Plus(rows, S)[s] >= rows[s] /\ (s \in S => Plus(rows, S)[s] > 0)
  BY PlusValue DEF In, TypeInv, TypeOK
<1>14. file \subseteq Shares /\ \A s \in Shares : rows[s] \in Nat
  BY DEF TypeInv, TypeOK
<1>15. CASE ImportBatch
  <2>1. /\ rows' = Plus(rows, shares) /\ shares' = {}
        /\ UNCHANGED <<disk, mode, unread>>
        /\ (pc' = "read" \/ (pc' = "imported" /\ unread = {}))
    BY <1>12, <1>15 DEF ImportBatch, Insert
  <2>2. \A s \in Shares : rows'[s] >= rows[s] /\ (s \in shares => rows'[s] > 0) /\ rows'[s] \in Nat
    BY <1>13, <2>1, PlusType DEF TypeInv, TypeOK
  <2>3. ReadIsStored'
    BY <1>14, <2>1, <2>2 DEF ImportInv, ReadIsStored
  <2>4. NothingLeft'
    BY <2>1 DEF NothingLeft
  <2>5. BrokenIsNoticed'
    BY <1>15, <2>1 DEF ImportBatch, ImportInv, BrokenIsNoticed
  <2> QED
    BY <2>3, <2>4, <2>5 DEF ImportInv
<1>16. CASE ImportCandidate
  <2>1. /\ failCount' = TRUE /\ UNCHANGED <<rows, disk, mode, unread, shares>>
        /\ (pc' = "read" \/ (pc' = "imported" /\ unread = {}))
    BY <1>12, <1>16 DEF ImportCandidate
  <2> QED
    BY <2>1 DEF ImportInv, ReadIsStored, NothingLeft, BrokenIsNoticed
<1>17. CASE ImportFails
  <2>1. /\ failCount' = TRUE /\ UNCHANGED <<disk, mode, unread, shares>>
        /\ (pc' = "read" \/ (pc' = "imported" /\ unread = {}))
    BY <1>12, <1>17 DEF ImportFails
  <2>2. rows' = rows \/ rows' = Plus(rows, shares)
    BY <1>17 DEF ImportFails, Doubt, Insert
  <2>3. \A s \in Shares : rows'[s] >= rows[s] /\ rows'[s] \in Nat
    BY <1>13, <1>14, <2>2, PlusType DEF TypeInv, TypeOK
  <2>4. ReadIsStored'
    BY <1>14, <2>1, <2>3 DEF ImportInv, ReadIsStored
  <2> QED
    BY <2>1, <2>4 DEF ImportInv, NothingLeft, BrokenIsNoticed
<1>18. CASE RemoveFile
  BY <1>1, <1>18 DEF RemoveFile, EndRecovery
<1>19. CASE KeepFile
  BY <1>1, <1>19 DEF KeepFile, EndRecovery
<1>20. CASE UNCHANGED vars
  BY <1>0, <1>20 DEF vars
<1> QED
  BY <1>3, <1>4, <1>5, <1>6, <1>7, <1>8, <1>9, <1>10, <1>11, <1>15, <1>16, <1>17, <1>18, <1>19,
     <1>20
  DEF Next, Recover, Environment

(***************************************************************************)
(* When RecoverSharesAsync reports success, the table holds every line of  *)
(* the file, for every size of a batch and whatever failed on the way.     *)
(***************************************************************************)
THEOREM ImportIsTruthful == Spec => []SuccessIsTrue
<1>1. Init => TypeInv /\ ImportInv
  BY TypeInit, ImportInit
<1>2. TypeInv /\ ImportInv /\ [Next]_vars => (TypeInv /\ ImportInv)'
  BY TypeStep, ImportStep
<1>3. TypeInv /\ ImportInv => SuccessIsTrue
  BY DEF TypeInv, TypeOK, ImportInv, ReadIsStored, NothingLeft, BrokenIsNoticed, SuccessIsTrue
<1> QED
  BY <1>1, <1>2, <1>3, PTL DEF Spec

=============================================================================
