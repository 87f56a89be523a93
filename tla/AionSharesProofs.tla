-------------------------- MODULE AionSharesProofs --------------------------
(***************************************************************************)
(* Theorems about AionShares, for every number of connections, templates,  *)
(* nonces and tasks, every way to write a nonce and to put it in lower     *)
(* case, every size of the extra nonce, and difficulties with fractions.   *)
(***************************************************************************)
EXTENDS AionShares, TLAPS

(***************************************************************************)
(* Extra nonces: the next ones of the counter are nobody's, until it has   *)
(* come round.                                                             *)
(***************************************************************************)
Upcoming(k) == IF counter + k <= NonceMax THEN counter + k ELSE counter + k - (NonceMax + 1)

UpcomingFresh ==
  \A k \in 1 .. NonceMax + 1 - subscriptions, c \in Clients : Upcoming(k) \notin handedOut[c]

HandedOutApart ==
  subscriptions <= NonceMax + 1 =>
    \A c, d \in Clients : c # d => handedOut[c] \cap handedOut[d] = {}

OwnExtraNonce ==
  /\ \A c \in Clients : extraNonce1[c] # None => extraNonce1[c] \in handedOut[c]
  /\ \A t \in Tasks : Running(t) => task[t].nonce[1] \in handedOut[Client(t)]
  /\ \A s \in published : s.client \in Clients /\ s.nonce[1] \in handedOut[s.client]

ExtraNonceInv == UpcomingFresh /\ HandedOutApart /\ OwnExtraNonce

(***************************************************************************)
(* Duplicates: what a connection that waits for its answers has published  *)
(* is in its dictionaries in lower case, and only one of its submissions   *)
(* runs.                                                                   *)
(***************************************************************************)
Waits(c) == c \in Clients \ pipelined

OneAtATime ==
  \A t \in Tasks : Running(t) /\ Waits(Client(t)) =>
    /\ Client(t) \notin authorizing
    /\ \A u \in Tasks : Running(u) /\ Client(u) = Client(t) => u = t

CreatedByPast ==
  \A j \in Jobs, c \in Clients : workerNonces[j][c] # None =>
    task[workerNonces[j][c]].pc \in {"verified", "submit", "done"}

DictionaryCurrent ==
  \A t \in Tasks : Running(t) /\ Waits(Client(t)) =>
    LET own == workerNonces[task[t].job][Client(t)]
    IN /\ task[t].pc = "create" => own = None
       /\ task[t].pc = "add" => own # None /\ task[t].dictionary = own
       /\ task[t].pc \in {"verified", "submit"} =>
            own # None /\ Lower(task[t].nonce) \in nonces[own]

PublishedKnown ==
  \A s \in published : s.job \in Jobs /\ (Waits(s.client) => Known(s.client, s.job, s.nonce))

RunningNew ==
  \A t \in Tasks : Running(t) /\ Waits(Client(t)) =>
    \A s \in published : ~Same(s, Client(t), task[t].job, task[t].nonce)

DuplicateInv ==
  OneAtATime /\ CreatedByPast /\ DictionaryCurrent /\ PublishedKnown /\ RunningNew

CountInv == ExtraNonceInv /\ DuplicateInv /\ NonceCountsOnce

(***************************************************************************)
(* The credit of a submission is bounded by the difficulty it is tested    *)
(* against, unless that was lowered in between, and after the test its     *)
(* whole part by what the hash proves.                                     *)
(***************************************************************************)
CreditBounded ==
  \A t \in Tasks : Running(t) /\ ~task[t].lowered =>
    /\ task[t].pc = "verified" => task[t].difficulty <= difficulty[Client(t)]
    /\ task[t].pc = "submit" => Truncated(task[t].difficulty) <= Proven(task[t].nonce)

CreditInv == CreditBounded /\ CreditIsProven

(***************************************************************************)
(* Names: outside an authorization a connection bears the name it asked    *)
(* for, and so does a submission of one that waits for its answers.        *)
(***************************************************************************)
NameFollows ==
  \A c \in Clients :
    /\ c \notin authorizing => minerName[c] = asked[c]
    /\ isAuthorized[c] => asked[c] # None

SenderNamed ==
  \A t \in Tasks : Running(t) /\ Waits(Client(t)) =>
    /\ task[t].sender = asked[Client(t)] /\ task[t].sender # None
    /\ task[t].pc = "submit" => task[t].miner = task[t].sender

SenderInv == OneAtATime /\ NameFollows /\ SenderNamed /\ CountsForSender

-----------------------------------------------------------------------------
(***************************************************************************)
(* RequestOf: a running task holds a request.                              *)
(***************************************************************************)
LEMMA RequestOf ==
  ASSUME TypeOK, NEW t \in Tasks, task[t].pc \notin {"free", "done"}
  PROVE  task[t] \in Request
BY DEF TypeOK, Free, Done

(***************************************************************************)
(* Lowers: what a change of the difficulty does to a task.                 *)
(***************************************************************************)
LEMMA Lowers ==
  ASSUME TypeOK, NEW c \in Clients, NEW d \in Difficulties, SetDifficulty(c, d), NEW t \in Tasks
  PROVE  \/ task'[t] = task[t]
         \/ task[t].pc = "verified" /\ task'[t] = [task[t] EXCEPT !.lowered = TRUE]
BY DEF SetDifficulty

(***************************************************************************)
(* CreditTyped: what the credit of a submission is the least of.           *)
(***************************************************************************)
LEMMA CreditTyped ==
  ASSUME TypeOK, NEW t \in Tasks, task[t] \in Request
  PROVE  difficulty[Client(t)] \in Nat /\ One * JobDifficulty[task[t].job] \in Int
<1>1. Client(t) \in Clients /\ task[t].job \in Jobs
  BY DEF Request, Client
<1>2. difficulty[Client(t)] \in Nat /\ JobDifficulty[task[t].job] \in Int /\ One \in Int
  <2>1. difficulty[Client(t)] \in Difficulties
    BY <1>1 DEF TypeOK
  <2>2. One \in Int /\ Difficulties \subseteq Nat /\ JobDifficulty \in [Jobs -> Int]
    BY SharesAssumption
  <2> QED
    BY <1>1, <2>1, <2>2
<1>3. \A a, b \in Int : a * b \in Int
  OBVIOUS
<1> QED
  BY <1>2, <1>3

(***************************************************************************)
(* TypeInit, TypeStep: TypeOK is inductive.                                *)
(***************************************************************************)
LEMMA TypeInit == Init => TypeOK
BY SharesAssumption DEF Init, TypeOK, ExtraNonces, Free

LEMMA TypeStep == TypeOK /\ [Next]_vars => TypeOK'
<1> SUFFICES ASSUME TypeOK, [Next]_vars PROVE TypeOK'
  OBVIOUS
<1> USE DEF context, jobs, registry, network, counts
<1>1. CASE UpdateJob
  <2>1. lastJob' \in Jobs /\ lastJob' = lastJob + 1
    BY <1>1 DEF UpdateJob
  <2>2. validJobs' \subseteq validJobs \cup {lastJob'}
    BY <1>1 DEF UpdateJob, Backlog
  <2>3. lastJob' \in Nat /\ validJobs' \subseteq {j \in Jobs : j <= lastJob'}
    BY <2>1, <2>2, SharesAssumption DEF TypeOK
  <2> QED
    BY <1>1, <2>3 DEF UpdateJob, TypeOK
<1>2. ASSUME NEW c \in Clients, Subscribe(c) PROVE TypeOK'
  <2>1. NextExtraNonce \in ExtraNonces
    BY SharesAssumption DEF TypeOK, NextExtraNonce, ExtraNonces
  <2>2. handedOut' \in [Clients -> SUBSET ExtraNonces]
    BY <1>2, <2>1 DEF TypeOK, Subscribe
  <2> QED
    BY <1>2, <2>1, <2>2, SharesAssumption DEF TypeOK, Subscribe, Sends
<1>3. ASSUME NEW c \in Clients, NEW m \in Miners, Authorize(c, m) PROVE TypeOK'
  BY <1>3, SharesAssumption DEF TypeOK, Authorize, Sends
<1>4. ASSUME NEW c \in Clients, SetName(c) PROVE TypeOK'
  BY <1>4 DEF TypeOK, SetName, NameOf
<1>5. ASSUME NEW c \in Clients, NEW d \in Difficulties, SetDifficulty(c, d) PROVE TypeOK'
  <2>1. task' \in [Tasks -> Request \cup {Free, Done}]
    <3>1. ASSUME NEW t \in Tasks, task[t].pc = "verified"
          PROVE  [task[t] EXCEPT !.lowered = TRUE] \in Request
      BY <3>1, RequestOf, ZenonT(60) DEF Request
    <3> QED
      BY <1>5, <3>1, Lowers DEF TypeOK, SetDifficulty
  <2> QED
    BY <1>5, <2>1 DEF TypeOK, SetDifficulty
<1>6. ASSUME NEW c \in Clients, NEW t \in Tasks, NEW j \in Jobs, NEW n \in Texts,
             Submit(t, c, j, n)
      PROVE  TypeOK'
  <2>1. extraNonce1[c] \in ExtraNonces /\ asked[c] \in Miners \cup {None}
        /\ workerNonces[j][c] \in Tasks \cup {None}
    BY <1>6 DEF TypeOK, Submit, Admitted
  <2>2. task'[t] \in Request
    BY <1>6, <2>1 DEF TypeOK, Submit, Request
  <2>3. task' \in [Tasks -> Request \cup {Free, Done}]
    BY <1>6, <2>2 DEF TypeOK, Submit
  <2> QED
    BY <1>6, <2>3 DEF TypeOK, Submit, Sends
<1>7. ASSUME NEW t \in Tasks, Register(t) PROVE TypeOK'
  <2>1. task[t] \in Request
    BY <1>7, RequestOf DEF Register, CreateNonces, AddNonce
  <2>2. difficulty[Client(t)] \in Nat /\ One * JobDifficulty[task[t].job] \in Int
    BY <2>1, CreditTyped
  <2>3. task' \in [Tasks -> Request \cup {Free, Done}]
    <3>1. CASE Reject(t)
      BY <3>1 DEF TypeOK, Reject
    <3>2. CASE ~Reject(t)
      <4>1. Least(difficulty[Client(t)], One * JobDifficulty[task[t].job]) \in Int
        BY <2>2 DEF Least
      <4>2. task'[t] \in Request
        BY <1>7, <2>1, <3>2, <4>1 DEF TypeOK, Register, Request
      <4> QED
        BY <1>7, <3>2, <4>2 DEF TypeOK, Register
    <3> QED
      BY <3>1, <3>2
  <2>4. workerNonces' \in [Jobs -> [Clients -> Tasks \cup {None}]]
    <3>1. CASE CreateNonces(t)
      BY <2>1, <3>1 DEF TypeOK, CreateNonces, Request, Client
    <3>2. CASE AddNonce(t)
      BY <3>2 DEF TypeOK, AddNonce
    <3> QED
      BY <1>7, <3>1, <3>2 DEF Register
  <2>5. nonces' \in [Tasks -> SUBSET (ExtraNonces \X Texts)]
    <3>1. Lower(task[t].nonce) \in ExtraNonces \X Texts
      BY <2>1, SharesAssumption DEF Request, Lower
    <3>2. CASE CreateNonces(t)
      BY <3>1, <3>2 DEF TypeOK, CreateNonces
    <3>3. CASE AddNonce(t)
      BY <3>1, <3>3 DEF TypeOK, AddNonce
    <3> QED
      BY <1>7, <3>2, <3>3 DEF Register
  <2> QED
    BY <1>7, <2>3, <2>4, <2>5 DEF TypeOK, Register, Submission
<1>8. ASSUME NEW t \in Tasks, CheckTarget(t) PROVE TypeOK'
  <2>1. task[t] \in Request
    BY <1>8, RequestOf DEF CheckTarget
  <2>2. task' \in [Tasks -> Request \cup {Free, Done}]
    <3>1. CASE task' = [task EXCEPT ![t] = Done]
      BY <3>1 DEF TypeOK
    <3>2. CASE task' = [task EXCEPT ![t].miner = minerName[Client(t)], ![t].pc = "submit"]
      <4>1. minerName[Client(t)] \in Miners \cup {None}
        BY <2>1 DEF TypeOK, Request, Client
      <4>2. task'[t] \in Request
        BY <2>1, <3>2, <4>1 DEF TypeOK, Request
      <4> QED
        BY <3>2, <4>2 DEF TypeOK
    <3> QED
      BY <1>8, <3>1, <3>2 DEF CheckTarget, Reject, Publish
  <2> QED
    BY <1>8, <2>2 DEF TypeOK, CheckTarget, Submission
<1>9. ASSUME NEW t \in Tasks, SubmitBlock(t) PROVE TypeOK'
  <2>1. task[t] \in Request
    BY <1>9, RequestOf DEF SubmitBlock
  <2>2. task' \in [Tasks -> Request \cup {Free, Done}]
    BY <1>9 DEF TypeOK, SubmitBlock, Answered, Publish
  <2>3. Solution(t) \in Jobs \X (ExtraNonces \X Nonces)
    BY <2>1, SharesAssumption DEF Request, Solution, Decoded
  <2>4. mined' \subseteq Jobs \X (ExtraNonces \X Nonces) /\ replyLost' \subseteq mined'
    BY <1>9, <2>3 DEF TypeOK, SubmitBlock, Mined
  <2> QED
    BY <1>9, <2>2, <2>4 DEF TypeOK, SubmitBlock, Submission
<1>10. CASE UNCHANGED vars
  BY <1>10 DEF vars, TypeOK
<1> QED
  BY <1>1, <1>2, <1>3, <1>4, <1>5, <1>6, <1>7, <1>8, <1>9, <1>10
     DEF Next, OnRequest, OnSubmit

(***************************************************************************)
(* TypeCorrect: every state of the pool's submissions is well typed; extra *)
(* nonces stay below the bound of the provider.                            *)
(***************************************************************************)
THEOREM TypeCorrect == Spec => []TypeOK
BY TypeInit, TypeStep, PTL DEF Spec

-----------------------------------------------------------------------------
(***************************************************************************)
(* What the steps of a submission do to its task and to the message bus.   *)
(***************************************************************************)
LEMMA SubmitEffect ==
  ASSUME TypeOK, NEW c \in Clients, NEW t \in Tasks, NEW j \in Jobs, NEW n \in Texts,
         Submit(t, c, j, n)
  PROVE  /\ ~Running(t) /\ task[t].pc = "free"
         /\ task'[t].pc = IF workerNonces[j][c] = None THEN "create" ELSE "add"
         /\ task'[t].client = c /\ task'[t].job = j /\ task'[t].nonce = <<extraNonce1[c], n>>
         /\ task'[t].dictionary = workerNonces[j][c] /\ task'[t].sender = asked[c]
         /\ \A u \in Tasks \ {t} : task'[u] = task[u]
BY DEF TypeOK, Submit, Free, Running

LEMMA RegisterEffect ==
  ASSUME TypeOK, NEW t \in Tasks, Register(t)
  PROVE  /\ Running(t) /\ task[t] \in Request /\ published' = published
         /\ \A u \in Tasks \ {t} : task'[u] = task[u]
         /\ \/ task'[t].pc = "done"
            \/ /\ task'[t].pc = "verified"
               /\ task'[t].client = task[t].client /\ task'[t].job = task[t].job
               /\ task'[t].nonce = task[t].nonce /\ task'[t].sender = task[t].sender
               /\ task'[t].difficulty = Least(difficulty[Client(t)],
                                            One * JobDifficulty[task[t].job])
<1>1. task[t].pc \in {"create", "add"}
  BY DEF Register, CreateNonces, AddNonce
<1>2. task[t] \in Request /\ Running(t)
  BY <1>1, RequestOf DEF Running
<1>3. CASE Reject(t)
  BY <1>2, <1>3 DEF TypeOK, Reject, Done
<1>4. CASE ~Reject(t)
  BY <1>2, <1>4 DEF TypeOK, Register, Request
<1> QED
  BY <1>3, <1>4

LEMMA CheckTargetEffect ==
  ASSUME TypeOK, NEW t \in Tasks, CheckTarget(t)
  PROVE  /\ Running(t) /\ task[t] \in Request /\ task[t].pc = "verified"
         /\ \A u \in Tasks \ {t} : task'[u] = task[u]
         /\ \/ task'[t].pc = "done" /\ published' = published
            \/ /\ task'[t].pc = "done" /\ ~TooLow(t)
               /\ published' = published \cup {ShareOf(t, minerName[Client(t)], FALSE)}
            \/ /\ task'[t].pc = "submit" /\ ~TooLow(t) /\ published' = published
               /\ task'[t] = [task[t] EXCEPT !.miner = minerName[Client(t)], !.pc = "submit"]
<1>1. task[t] \in Request /\ Running(t) /\ task[t].pc = "verified"
  BY RequestOf DEF CheckTarget, Running
<1>2. CASE Reject(t)
  BY <1>1, <1>2 DEF TypeOK, Reject, Done
<1>3. CASE ~TooLow(t) /\ Publish(t, minerName[Client(t)], FALSE)
  BY <1>1, <1>3 DEF TypeOK, Publish, Done
<1>4. CASE /\ ~TooLow(t) /\ UNCHANGED published
           /\ task' = [task EXCEPT ![t].miner = minerName[Client(t)], ![t].pc = "submit"]
  <2>1. task' = [task EXCEPT ![t] = [task[t] EXCEPT !.miner = minerName[Client(t)],
                                                    !.pc = "submit"]]
    BY <1>4
  <2>2. task'[t] = [task[t] EXCEPT !.miner = minerName[Client(t)], !.pc = "submit"]
    BY <2>1 DEF TypeOK
  <2>3. task'[t].pc = "submit"
    BY <1>1, <2>2 DEF Request
  <2> QED
    BY <1>1, <1>4, <2>1, <2>2, <2>3 DEF TypeOK
<1> QED
  BY <1>2, <1>3, <1>4 DEF CheckTarget

LEMMA SubmitBlockEffect ==
  ASSUME TypeOK, NEW t \in Tasks, SubmitBlock(t)
  PROVE  /\ Running(t) /\ task[t] \in Request /\ task[t].pc = "submit"
         /\ \A u \in Tasks \ {t} : task'[u] = task[u]
         /\ task'[t].pc = "done"
         /\ \E accepted \in BOOLEAN :
              published' = published \cup {ShareOf(t, task[t].miner, accepted)}
<1>1. task[t] \in Request /\ Running(t) /\ task[t].pc = "submit"
  BY RequestOf DEF SubmitBlock, Running
<1>2. PICK accepted \in BOOLEAN : Answered(t, accepted)
  BY DEF SubmitBlock
<1> QED
  BY <1>1, <1>2 DEF TypeOK, Answered, Publish, Done

-----------------------------------------------------------------------------
(***************************************************************************)
(* TruncatedMonotone: a smaller difficulty has no larger whole part.       *)
(***************************************************************************)
LEMMA TruncatedMonotone ==
  ASSUME NEW a \in Int, NEW b \in Int, a <= b
  PROVE  Truncated(a) <= Truncated(b)
<1>1. One \in Nat \ {0}
  BY SharesAssumption
<1>2. ASSUME NEW n \in Nat \ {0} PROVE a - (a % n) <= b - (b % n)
  BY <1>2, SMT
<1> QED
  BY <1>1, <1>2 DEF Truncated

(***************************************************************************)
(* CreditStep: CreditInv is inductive.                                     *)
(***************************************************************************)
LEMMA CreditStep == TypeOK /\ CreditInv /\ [Next]_vars => CreditInv'
<1> SUFFICES ASSUME TypeOK, CreditInv, [Next]_vars PROVE CreditInv'
  OBVIOUS
<1> USE DEF CreditInv, context, jobs, registry, network, counts
<1>1. CASE UNCHANGED <<task, difficulty, published>>
  BY <1>1 DEF CreditBounded, CreditIsProven, Running, Client
<1>2. ASSUME NEW c \in Clients, NEW d \in Difficulties, SetDifficulty(c, d) PROVE CreditInv'
  <2>1. CreditBounded'
    <3> SUFFICES ASSUME NEW t \in Tasks, Running(t)', ~task'[t].lowered
                 PROVE  /\ task'[t].pc = "verified" =>
                             task'[t].difficulty <= difficulty'[Client(t)']
                        /\ task'[t].pc = "submit" =>
                             Truncated(task'[t].difficulty) <= Proven(task'[t].nonce)
      BY DEF CreditBounded
    <3>1. task'[t] = task[t]
      <4>1. CASE task[t].pc = "verified" /\ task'[t] = [task[t] EXCEPT !.lowered = TRUE]
        <5>1. task[t] \in Request
          BY <4>1, RequestOf
        <5>2. task'[t].lowered
          BY <4>1, <5>1 DEF Request
        <5> QED
          BY <5>2
      <4> QED
        BY <1>2, <4>1, Lowers
    <3>2. task[t] \in Request
      BY <3>1, RequestOf DEF Running
    <3>3. task[t].pc = "verified" /\ Client(t) = c => ~(d < difficulty[c])
      BY <1>2, <3>1, <3>2 DEF SetDifficulty, Request, TypeOK
    <3>4. difficulty'[Client(t)] = IF Client(t) = c THEN d ELSE difficulty[Client(t)]
      BY <1>2, <3>2 DEF SetDifficulty, TypeOK, Request, Client
    <3>5. d \in Nat /\ difficulty[c] \in Nat /\ task[t].difficulty \in Int
      BY <3>2, SharesAssumption DEF TypeOK, Request
    <3> QED
      BY <3>1, <3>3, <3>4, <3>5 DEF CreditBounded, Running, Client
  <2> QED
    BY <1>2, <2>1 DEF SetDifficulty, CreditIsProven
<1>3. ASSUME NEW c \in Clients, NEW t \in Tasks, NEW j \in Jobs, NEW n \in Texts,
             Submit(t, c, j, n)
      PROVE  CreditInv'
  BY <1>3, SubmitEffect DEF Submit, CreditBounded, CreditIsProven, Running, Client
<1>4. ASSUME NEW t \in Tasks, Register(t) PROVE CreditInv'
  <2>1. difficulty[Client(t)] \in Nat /\ One * JobDifficulty[task[t].job] \in Int
    BY <1>4, RegisterEffect, CreditTyped
  <2>2. Least(difficulty[Client(t)], One * JobDifficulty[task[t].job]) <= difficulty[Client(t)]
    BY <2>1 DEF Least
  <2>3. difficulty' = difficulty
    BY <1>4 DEF Register, Submission
  <2> QED
    BY <1>4, <2>2, <2>3, RegisterEffect DEF CreditBounded, CreditIsProven, Running, Client
<1>5. ASSUME NEW t \in Tasks, CheckTarget(t) PROVE CreditInv'
  <2>1. ~TooLow(t) => task[t].lowered \/ Truncated(task[t].difficulty) <= Proven(task[t].nonce)
    <3>1. task[t] \in Request /\ task[t].pc = "verified" /\ Running(t)
      BY <1>5, CheckTargetEffect
    <3>2. task[t].lowered \/ task[t].difficulty <= difficulty[Client(t)]
      BY <3>1 DEF CreditBounded
    <3>3. /\ task[t].difficulty \in Int /\ difficulty[Client(t)] \in Int
          /\ Proven(task[t].nonce) \in Nat
      <4>1. task[t].nonce[2] \in Texts /\ task[t].difficulty \in Int
        BY <3>1 DEF Request
      <4>2. difficulty[Client(t)] \in Int
        BY <3>1, CreditTyped
      <4>3. Proves \in [Nonces -> Nat] /\ HexToByteArray \in [Texts -> Nonces]
        BY SharesAssumption
      <4>4. Proven(task[t].nonce) \in Nat
        BY <4>1, <4>3 DEF Proven
      <4> QED
        BY <4>1, <4>2, <4>4
    <3>4. Truncated(task[t].difficulty) \in Int /\ Truncated(difficulty[Client(t)]) \in Int
      BY <3>3, SharesAssumption DEF Truncated
    <3>5. ~task[t].lowered =>
            Truncated(task[t].difficulty) <= Truncated(difficulty[Client(t)])
      BY <3>2, <3>3, TruncatedMonotone
    <3> QED
      BY <3>3, <3>4, <3>5 DEF TooLow, Meets
  <2>2. difficulty' = difficulty
    BY <1>5 DEF CheckTarget, Submission
  <2>3. CreditBounded'
    <3>1. task'[t].pc = "submit" =>
            /\ task'[t].lowered = task[t].lowered /\ task'[t].difficulty = task[t].difficulty
            /\ task'[t].nonce = task[t].nonce /\ ~TooLow(t)
      BY <1>5, CheckTargetEffect DEF Request
    <3> QED
      <4> SUFFICES ASSUME NEW u \in Tasks, Running(u)', ~task'[u].lowered
                   PROVE  /\ task'[u].pc = "verified" =>
                               task'[u].difficulty <= difficulty'[Client(u)']
                          /\ task'[u].pc = "submit" =>
                               Truncated(task'[u].difficulty) <= Proven(task'[u].nonce)
        BY DEF CreditBounded
      <4>1. CASE u = t
        BY <1>5, <2>1, <3>1, <4>1, CheckTargetEffect DEF Running
      <4>2. CASE u # t
        BY <1>5, <2>2, <4>2, CheckTargetEffect DEF CreditBounded, Running, Client
      <4> QED
        BY <4>1, <4>2
  <2>4. CreditIsProven'
    <3>1. ASSUME NEW s \in published', s \notin published
          PROVE  s.lowered \/ Truncated(s.difficulty) <= Proven(s.nonce)
      <4>1. s = ShareOf(t, minerName[Client(t)], FALSE) /\ ~TooLow(t)
        BY <1>5, <3>1, CheckTargetEffect
      <4>2. s.lowered = task[t].lowered /\ s.difficulty = task[t].difficulty
            /\ s.nonce = task[t].nonce
        BY <4>1 DEF ShareOf
      <4> QED
        BY <2>1, <4>1, <4>2
    <3> QED
      BY <3>1 DEF CreditIsProven
  <2> QED
    BY <2>3, <2>4
<1>6. ASSUME NEW t \in Tasks, SubmitBlock(t) PROVE CreditInv'
  <2>1. task[t].lowered \/ Truncated(task[t].difficulty) <= Proven(task[t].nonce)
    BY <1>6, SubmitBlockEffect DEF CreditBounded
  <2>2. difficulty' = difficulty
    BY <1>6 DEF SubmitBlock, Submission
  <2>3. CreditBounded'
    BY <1>6, <2>2, SubmitBlockEffect DEF CreditBounded, Running, Client
  <2>4. CreditIsProven'
    BY <1>6, <2>1, SubmitBlockEffect DEF CreditIsProven, ShareOf
  <2> QED
    BY <2>3, <2>4
<1> QED
  BY <1>1, <1>2, <1>3, <1>4, <1>5, <1>6
     DEF Next, OnRequest, OnSubmit, UpdateJob, Subscribe, Authorize, SetName, vars

(***************************************************************************)
(* SharesAreProven: a share never counts for more than its hash proves,    *)
(* but for the fraction of a difficulty that its target has lost, unless   *)
(* the difficulty was lowered between the two reads.                       *)
(***************************************************************************)
THEOREM SharesAreProven == Spec => []CreditIsProven
<1>1. Init => CreditInv
  BY DEF Init, Free, CreditInv, CreditBounded, CreditIsProven, Running
<1> QED
  BY <1>1, TypeInit, TypeStep, CreditStep, PTL DEF Spec, CreditInv

-----------------------------------------------------------------------------
(***************************************************************************)
(* Continues: whatever is not sent anew keeps what it was sent with.       *)
(***************************************************************************)
Continues(u) ==
  Running(u)' =>
    /\ Running(u)
    /\ task'[u].client = task[u].client /\ task'[u].job = task[u].job
    /\ task'[u].nonce = task[u].nonce /\ task'[u].sender = task[u].sender

LEMMA OnSubmitContinues ==
  ASSUME TypeOK, NEW t \in Tasks, OnSubmit(t)
  PROVE  \A u \in Tasks : Continues(u)
<1>1. task'[t].pc = "done" =>  Continues(t)
  BY DEF Continues, Running
<1>2. CASE Register(t)
  BY <1>1, <1>2, RegisterEffect DEF Continues, Running
<1>3. CASE CheckTarget(t)
  <2>1. task'[t].pc = "submit" => Continues(t)
    BY <1>3, CheckTargetEffect DEF Continues, Request, Running
  <2> QED
    BY <1>1, <1>3, <2>1, CheckTargetEffect, ZenonT(60) DEF Continues, Running
<1>4. CASE SubmitBlock(t)
  BY <1>1, <1>4, SubmitBlockEffect DEF Continues, Running
<1> QED
  BY <1>2, <1>3, <1>4 DEF OnSubmit

LEMMA SetDifficultyContinues ==
  ASSUME TypeOK, NEW c \in Clients, NEW d \in Difficulties, SetDifficulty(c, d)
  PROVE  \A u \in Tasks : Continues(u) /\ task'[u].pc = task[u].pc
                         /\ (task[u].pc = "submit" => task'[u] = task[u])
<1> SUFFICES ASSUME NEW u \in Tasks
             PROVE  Continues(u) /\ task'[u].pc = task[u].pc
                    /\ (task[u].pc = "submit" => task'[u] = task[u])
  OBVIOUS
<1>1. CASE task'[u] = task[u]
  BY <1>1 DEF Continues, Running
<1>2. CASE task[u].pc = "verified" /\ task'[u] = [task[u] EXCEPT !.lowered = TRUE]
  <2>1. task[u] \in Request
    BY <1>2, RequestOf
  <2>2. task'[u].pc = task[u].pc /\ task'[u].client = task[u].client
        /\ task'[u].job = task[u].job /\ task'[u].nonce = task[u].nonce
        /\ task'[u].sender = task[u].sender
    BY <1>2, <2>1 DEF Request
  <2> QED
    BY <1>2, <2>2 DEF Continues, Running
<1> QED
  BY <1>1, <1>2, Lowers

LEMMA SendsWaits ==
  ASSUME TypeOK, NEW c \in Clients, Sends(c)
  PROVE  /\ \A d : Waits(d)' => Waits(d)
         /\ Waits(c)' => ~Busy(c)
BY DEF Sends, Waits

(***************************************************************************)
(* OneStep: a connection that waits has one submission at a time.          *)
(***************************************************************************)
LEMMA OneStep == TypeOK /\ OneAtATime /\ [Next]_vars => OneAtATime'
<1> SUFFICES ASSUME TypeOK, OneAtATime, [Next]_vars PROVE OneAtATime'
  OBVIOUS
<1> USE DEF context, jobs, registry, network, counts
<1>1. CASE UNCHANGED <<task, pipelined>> /\ authorizing' \subseteq authorizing
  BY <1>1 DEF OneAtATime, Running, Client, Waits
<1>2. ASSUME NEW c \in Clients, Subscribe(c) PROVE OneAtATime'
  BY <1>2, SendsWaits DEF Subscribe, OneAtATime, Running, Client
<1>3. ASSUME NEW c \in Clients, NEW m \in Miners, Authorize(c, m) PROVE OneAtATime'
  BY <1>3, SendsWaits DEF Authorize, OneAtATime, Running, Client, Busy
<1>4. ASSUME NEW c \in Clients, NEW d \in Difficulties, SetDifficulty(c, d) PROVE OneAtATime'
  <2>1. UNCHANGED <<pipelined, authorizing>>
    BY <1>4 DEF SetDifficulty
  <2> QED
    BY <1>4, <2>1, SetDifficultyContinues DEF Continues, OneAtATime, Waits, Client
<1>5. ASSUME NEW c \in Clients, NEW t \in Tasks, NEW j \in Jobs, NEW n \in Texts,
             Submit(t, c, j, n)
      PROVE  OneAtATime'
  <2>1. Sends(c) /\ authorizing' = authorizing
    BY <1>5 DEF Submit
  <2>2. ASSUME NEW u \in Tasks, Running(u)', c \notin pipelined', Client(u)' = c
        PROVE  u = t /\ c \notin authorizing
    <3>1. ~Busy(c)
      BY <2>1, <2>2, SendsWaits DEF Waits
    <3>2. u # t => task'[u] = task[u]
      BY <1>5, SubmitEffect
    <3> QED
      BY <2>2, <3>1, <3>2 DEF Busy, Running, Client
  <2>3. ASSUME NEW u \in Tasks, NEW w \in Tasks, Running(u)', Running(w)', Waits(Client(u))',
               Client(w)' = Client(u)'
        PROVE  Client(u)' \notin authorizing /\ w = u
    <3>1. CASE Client(u)' = c
      BY <2>2, <2>3, <3>1 DEF Waits
    <3>2. CASE Client(u)' # c
      <4>1. task'[u] = task[u] /\ task'[w] = task[w]
        BY <1>5, <2>3, <3>2, SubmitEffect DEF Client
      <4>2. Waits(Client(u))
        BY <2>1, <2>3, <4>1, SendsWaits DEF Client, Waits
      <4> QED
        BY <2>3, <4>1, <4>2 DEF OneAtATime, Running, Client
    <3> QED
      BY <3>1, <3>2
  <2> QED
    BY <2>1, <2>3 DEF OneAtATime
<1>6. ASSUME NEW t \in Tasks, OnSubmit(t) PROVE OneAtATime'
  <2>1. UNCHANGED <<pipelined, authorizing>>
    BY <1>6 DEF OnSubmit, Register, CheckTarget, SubmitBlock, Submission
  <2> QED
    BY <1>6, <2>1, OnSubmitContinues DEF Continues, OneAtATime, Waits, Client
<1> QED
  BY <1>1, <1>2, <1>3, <1>4, <1>5, <1>6 DEF Next, OnRequest, UpdateJob, SetName, vars

(***************************************************************************)
(* SenderStep: SenderInv is inductive.                                     *)
(***************************************************************************)
LEMMA NameStep == TypeOK /\ NameFollows /\ [Next]_vars => NameFollows'
<1> SUFFICES ASSUME TypeOK, NameFollows, [Next]_vars PROVE NameFollows'
  OBVIOUS
<1> USE DEF context, jobs, registry, network, counts
<1>1. CASE UNCHANGED <<authorizing, minerName, asked, isAuthorized>>
  BY <1>1 DEF NameFollows
<1>2. ASSUME NEW c \in Clients, NEW m \in Miners, Authorize(c, m) PROVE NameFollows'
  BY <1>2, SharesAssumption DEF TypeOK, Authorize, NameFollows
<1>3. ASSUME NEW c \in Clients, SetName(c) PROVE NameFollows'
  BY <1>3 DEF TypeOK, SetName, NameOf, NameFollows
<1>4. ASSUME NEW c \in Clients,
             \/ Subscribe(c)
             \/ \E d \in Difficulties : SetDifficulty(c, d)
             \/ \E t \in Tasks, j \in Jobs, n \in Texts : Submit(t, c, j, n)
      PROVE  NameFollows'
  BY <1>1, <1>4, ZenonT(60) DEF Subscribe, SetDifficulty, Submit
<1>5. ASSUME NEW t \in Tasks, OnSubmit(t) PROVE NameFollows'
  BY <1>1, <1>5 DEF OnSubmit, Register, CheckTarget, SubmitBlock, Submission
<1> QED
  BY <1>1, <1>2, <1>3, <1>4, <1>5 DEF Next, OnRequest, UpdateJob, vars

LEMMA SenderStep == TypeOK /\ SenderInv /\ [Next]_vars => SenderInv'
<1> SUFFICES ASSUME TypeOK, SenderInv, [Next]_vars PROVE SenderInv'
  OBVIOUS
<1> USE DEF context, jobs, registry, network, counts
<1>1. OneAtATime' /\ NameFollows'
  BY OneStep, NameStep DEF SenderInv
<1>2. SUFFICES SenderNamed' /\ CountsForSender'
  BY <1>1 DEF SenderInv
<1>3. CASE UNCHANGED <<task, published, asked, pipelined>>
  BY <1>3 DEF SenderInv, SenderNamed, CountsForSender, Running, Client, Waits
<1>4. ASSUME NEW c \in Clients, Subscribe(c) PROVE SenderNamed' /\ CountsForSender'
  BY <1>4, SendsWaits DEF Subscribe, Sends, SenderInv, SenderNamed, CountsForSender, Running,
     Client
<1>5. ASSUME NEW c \in Clients, NEW m \in Miners, Authorize(c, m)
      PROVE  SenderNamed' /\ CountsForSender'
  <2>1. Sends(c) /\ UNCHANGED <<task, published>>
        /\ \A d \in Clients \ {c} : asked'[d] = asked[d]
    BY <1>5 DEF TypeOK, Authorize
  <2>2. SenderNamed'
    BY <2>1, SendsWaits DEF SenderInv, SenderNamed, Running, Client, Busy, Waits
  <2>3. CountsForSender'
    BY <2>1 DEF SenderInv, CountsForSender, Sends
  <2> QED
    BY <2>2, <2>3
<1>6. ASSUME NEW c \in Clients, NEW d \in Difficulties, SetDifficulty(c, d)
      PROVE  SenderNamed' /\ CountsForSender'
  <2>1. UNCHANGED <<pipelined, asked, published>>
    BY <1>6 DEF SetDifficulty
  <2>2. SenderNamed'
    BY <1>6, <2>1, SetDifficultyContinues
       DEF Continues, SenderInv, SenderNamed, Client, Waits
  <2> QED
    BY <2>1, <2>2 DEF SenderInv, CountsForSender
<1>7. ASSUME NEW c \in Clients, NEW t \in Tasks, NEW j \in Jobs, NEW n \in Texts,
             Submit(t, c, j, n)
      PROVE  SenderNamed' /\ CountsForSender'
  <2>1. Sends(c) /\ UNCHANGED <<asked, published>> /\ asked[c] # None
    BY <1>7 DEF Submit, Admitted, SenderInv, NameFollows
  <2>2. SenderNamed'
    <3> SUFFICES ASSUME NEW u \in Tasks, Running(u)', Waits(Client(u))'
                 PROVE  /\ task'[u].sender = asked[task'[u].client] /\ task'[u].sender # None
                        /\ task'[u].pc = "submit" => task'[u].miner = task'[u].sender
      BY <2>1 DEF SenderNamed, Client
    <3>1. CASE u = t
      BY <1>7, <2>1, <3>1, SubmitEffect
    <3>2. CASE u # t
      BY <1>7, <2>1, <3>2, SubmitEffect, SendsWaits DEF SenderInv, SenderNamed, Running, Client
    <3> QED
      BY <3>1, <3>2
  <2>3. CountsForSender'
    BY <2>1 DEF SenderInv, CountsForSender, Sends
  <2> QED
    BY <2>2, <2>3
<1>8. ASSUME NEW t \in Tasks, OnSubmit(t) PROVE SenderNamed' /\ CountsForSender'
  <2>1. UNCHANGED <<pipelined, asked>>
    BY <1>8 DEF OnSubmit, Register, CheckTarget, SubmitBlock, Submission
  <2>2. task[t] \in Request /\ Running(t)
    BY <1>8, RegisterEffect, CheckTargetEffect, SubmitBlockEffect DEF OnSubmit
  <2>3. Waits(Client(t)) => minerName[Client(t)] = task[t].sender /\ task[t].sender # None
    BY <2>2 DEF SenderInv, OneAtATime, NameFollows, SenderNamed, Waits
  <2>4. SenderNamed'
    <3> SUFFICES ASSUME NEW u \in Tasks, Running(u)', Waits(Client(u))'
                 PROVE  /\ task'[u].sender = asked[task'[u].client] /\ task'[u].sender # None
                        /\ task'[u].pc = "submit" => task'[u].miner = task'[u].sender
      BY <2>1 DEF SenderNamed, Client
    <3>1. Running(u) /\ task'[u].client = task[u].client /\ task'[u].sender = task[u].sender
          /\ Waits(Client(u))
      BY <1>8, <2>1, OnSubmitContinues DEF Continues, Client, Waits
    <3>2. task'[u].sender = asked[task'[u].client] /\ task'[u].sender # None
      BY <3>1 DEF SenderInv, SenderNamed, Client
    <3>3. ASSUME task'[u].pc = "submit", u = t PROVE task'[u].miner = task'[u].sender
      <4>1. CheckTarget(t)
        BY <1>8, <3>3, RegisterEffect, SubmitBlockEffect DEF OnSubmit
      <4>2. task'[t].miner = minerName[Client(t)]
        BY <3>3, <4>1, CheckTargetEffect DEF Request
      <4> QED
        BY <2>3, <3>1, <3>3, <4>2
    <3>4. ASSUME task'[u].pc = "submit", u # t PROVE task'[u].miner = task'[u].sender
      <4>1. task'[u] = task[u]
        BY <1>8, <3>4, RegisterEffect, CheckTargetEffect, SubmitBlockEffect DEF OnSubmit
      <4> QED
        BY <3>1, <3>4, <4>1 DEF SenderInv, SenderNamed
    <3> QED
      BY <3>2, <3>3, <3>4
  <2>5. CountsForSender'
    <3>1. ASSUME NEW s \in published', s \notin published, Waits(s.client)
          PROVE  s.miner = s.sender /\ s.miner # None
      <4>1. \/ \E accepted \in BOOLEAN : s = ShareOf(t, minerName[Client(t)], accepted)
            \/ /\ task[t].pc = "submit"
               /\ \E accepted \in BOOLEAN : s = ShareOf(t, task[t].miner, accepted)
        BY <1>8, <3>1, RegisterEffect, CheckTargetEffect, SubmitBlockEffect DEF OnSubmit
      <4>2. s.client = Client(t) /\ s.sender = task[t].sender
        BY <4>1 DEF ShareOf
      <4>3. task[t].pc = "submit" => task[t].miner = task[t].sender
        BY <2>2, <3>1, <4>2 DEF SenderInv, SenderNamed
      <4> QED
        BY <2>3, <3>1, <4>1, <4>2, <4>3 DEF ShareOf
    <3>2. \A s \in published' : s \in published \/ s.client \in Clients
      <4>1. ASSUME NEW s \in published', s \notin published PROVE s.client \in Clients
        <5>1. \E miner, accepted : s = ShareOf(t, miner, accepted)
          BY <1>8, <4>1, RegisterEffect, CheckTargetEffect, SubmitBlockEffect DEF OnSubmit
        <5>2. s.client = Client(t)
          BY <5>1 DEF ShareOf
        <5> QED
          BY <2>2, <5>2 DEF Request, Client
      <4> QED
        BY <4>1
    <3> QED
      BY <2>1, <3>1, <3>2 DEF SenderInv, CountsForSender, Waits
  <2> QED
    BY <2>4, <2>5
<1> QED
  BY <1>3, <1>4, <1>5, <1>6, <1>7, <1>8 DEF Next, OnRequest, UpdateJob, SetName, vars

(***************************************************************************)
(* SharesCountForSender: the share of a miner that waits for answers is    *)
(* counted for the address it had authorized, and never for nobody.        *)
(***************************************************************************)
THEOREM SharesCountForSender == Spec => []CountsForSender
<1>1. Init => SenderInv
  BY DEF Init, Free, SenderInv, OneAtATime, NameFollows, SenderNamed, CountsForSender, Running
<1> QED
  BY <1>1, TypeInit, TypeStep, SenderStep, PTL DEF Spec, SenderInv

-----------------------------------------------------------------------------
(***************************************************************************)
(* PublishesOne: a step of a submission publishes at most its own share,   *)
(* and is done then.                                                       *)
(***************************************************************************)
LEMMA PublishesOne ==
  ASSUME TypeOK, NEW t \in Tasks, OnSubmit(t)
  PROVE  \/ published' = published
         \/ /\ Running(t) /\ task[t] \in Request /\ task[t].pc \in {"verified", "submit"}
            /\ task'[t].pc = "done" /\ UNCHANGED registry
            /\ \E s : /\ published' = published \cup {s} /\ s.client = Client(t)
                     /\ s.job = task[t].job /\ s.nonce = task[t].nonce
<1>1. CASE Register(t)
  BY <1>1, RegisterEffect
<1>2. ASSUME NEW miner, NEW accepted, published' = published \cup {ShareOf(t, miner, accepted)}
      PROVE  \E s : /\ published' = published \cup {s} /\ s.client = Client(t)
                   /\ s.job = task[t].job /\ s.nonce = task[t].nonce
  <2>1. /\ ShareOf(t, miner, accepted).client = Client(t)
        /\ ShareOf(t, miner, accepted).job = task[t].job
        /\ ShareOf(t, miner, accepted).nonce = task[t].nonce
    BY DEF ShareOf
  <2> QED
    BY <1>2, <2>1
<1>3. CASE CheckTarget(t)
  <2>1. UNCHANGED registry
    BY <1>3 DEF CheckTarget
  <2> QED
    BY <1>2, <1>3, <2>1, CheckTargetEffect
<1>4. CASE SubmitBlock(t)
  <2>1. UNCHANGED registry
    BY <1>4 DEF SubmitBlock
  <2> QED
    BY <1>2, <1>4, <2>1, SubmitBlockEffect
<1> QED
  BY <1>1, <1>3, <1>4 DEF OnSubmit

(***************************************************************************)
(* ExtraNonceStep: ExtraNonceInv is inductive.                             *)
(***************************************************************************)
LEMMA NextIsFresh ==
  ASSUME TypeOK, UpcomingFresh, subscriptions' = subscriptions + 1,
         counter' = NextExtraNonce
  PROVE  /\ subscriptions' <= NonceMax + 1 =>
              \A c \in Clients : NextExtraNonce \notin handedOut[c]
         /\ \A k \in 1 .. NonceMax + 1 - subscriptions' :
              /\ Upcoming(k)' = Upcoming(k + 1) /\ Upcoming(k + 1) # NextExtraNonce
              /\ k + 1 \in 1 .. NonceMax + 1 - subscriptions
<1>1. counter \in 0 .. NonceMax /\ NonceMax \in Nat \ {0} /\ subscriptions \in Nat
  BY SharesAssumption DEF TypeOK, ExtraNonces
<1>2. NextExtraNonce = Upcoming(1)
  BY <1>1 DEF NextExtraNonce, Upcoming
<1>3. subscriptions' <= NonceMax + 1 => 1 \in 1 .. NonceMax + 1 - subscriptions
  BY <1>1
<1>4. ASSUME NEW k \in 1 .. NonceMax + 1 - subscriptions'
      PROVE  /\ Upcoming(k)' = Upcoming(k + 1) /\ Upcoming(k + 1) # NextExtraNonce
             /\ k + 1 \in 1 .. NonceMax + 1 - subscriptions
  <2>1. k \in 1 .. NonceMax /\ k + 1 \in 1 .. NonceMax + 1 - subscriptions
    BY <1>1
  <2>2. Upcoming(k)' = Upcoming(k + 1)
    BY <1>1, <2>1 DEF Upcoming, NextExtraNonce
  <2>3. Upcoming(k + 1) # NextExtraNonce
    BY <1>1, <2>1 DEF Upcoming, NextExtraNonce
  <2> QED
    BY <2>1, <2>2, <2>3
<1> QED
  BY <1>2, <1>3, <1>4 DEF UpcomingFresh

LEMMA ExtraNonceStep == TypeOK /\ ExtraNonceInv /\ [Next]_vars => ExtraNonceInv'
<1> SUFFICES ASSUME TypeOK, ExtraNonceInv, [Next]_vars PROVE ExtraNonceInv'
  OBVIOUS
<1> USE DEF ExtraNonceInv, context, jobs, registry, network, counts
<1>1. ASSUME UNCHANGED <<counter, subscriptions, handedOut>> PROVE UpcomingFresh' /\ HandedOutApart'
  BY <1>1 DEF UpcomingFresh, HandedOutApart, Upcoming
<1>2. CASE UNCHANGED <<counter, subscriptions, handedOut, extraNonce1, task, published>>
  BY <1>1, <1>2 DEF OwnExtraNonce, Running, Client
<1>3. ASSUME NEW c \in Clients, Subscribe(c) PROVE ExtraNonceInv'
  <2> DEFINE e == NextExtraNonce
  <2>1. /\ counter' = e /\ subscriptions' = subscriptions + 1
        /\ extraNonce1' = [extraNonce1 EXCEPT ![c] = e]
        /\ handedOut' = [handedOut EXCEPT ![c] = @ \cup {e}]
        /\ UNCHANGED <<task, published>>
    BY <1>3 DEF Subscribe
  <2>2. \A d \in Clients : handedOut'[d] = IF d = c THEN handedOut[c] \cup {e} ELSE handedOut[d]
    BY <2>1 DEF TypeOK
  <2>3. UpcomingFresh'
    BY <2>1, <2>2, NextIsFresh DEF UpcomingFresh
  <2>4. HandedOutApart'
    <3> SUFFICES ASSUME subscriptions' <= NonceMax + 1, NEW b \in Clients, NEW d \in Clients,
                        b # d
                 PROVE  handedOut'[b] \cap handedOut'[d] = {}
      BY DEF HandedOutApart
    <3>1. subscriptions <= NonceMax + 1
      BY <2>1, SharesAssumption DEF TypeOK
    <3>2. handedOut[b] \cap handedOut[d] = {} /\ e \notin handedOut[b] /\ e \notin handedOut[d]
      BY <2>1, <3>1, NextIsFresh DEF HandedOutApart
    <3> QED
      BY <2>2, <3>2
  <2>5. OwnExtraNonce'
    <3>1. \A d \in Clients : handedOut[d] \subseteq handedOut'[d]
      BY <2>2
    <3>2. \A t \in Tasks : Running(t) => Client(t) \in Clients
      BY RequestOf DEF Running, Client, Request
    <3>3. \A d \in Clients : extraNonce1'[d] # None => extraNonce1'[d] \in handedOut'[d]
      BY <2>1, <2>2 DEF TypeOK, OwnExtraNonce
    <3> QED
      BY <2>1, <3>1, <3>2, <3>3 DEF OwnExtraNonce, Running, Client
  <2> QED
    BY <2>3, <2>4, <2>5
<1>4. ASSUME NEW c \in Clients, NEW d \in Difficulties, SetDifficulty(c, d) PROVE ExtraNonceInv'
  <2>1. UNCHANGED <<counter, subscriptions, handedOut, extraNonce1, published>>
    BY <1>4 DEF SetDifficulty
  <2> QED
    BY <1>1, <1>4, <2>1, SetDifficultyContinues DEF Continues, OwnExtraNonce, Client
<1>5. ASSUME NEW c \in Clients, NEW t \in Tasks, NEW j \in Jobs, NEW n \in Texts,
             Submit(t, c, j, n)
      PROVE  ExtraNonceInv'
  <2>1. UNCHANGED <<counter, subscriptions, handedOut, extraNonce1, published>>
        /\ extraNonce1[c] # None
    BY <1>5 DEF Submit, Admitted
  <2>2. ASSUME NEW u \in Tasks, Running(u)' PROVE task'[u].nonce[1] \in handedOut[task'[u].client]
    <3>1. CASE u = t
      BY <1>5, <2>1, <3>1, SubmitEffect DEF OwnExtraNonce
    <3>2. CASE u # t
      BY <1>5, <2>2, <3>2, SubmitEffect DEF OwnExtraNonce, Running, Client
    <3> QED
      BY <3>1, <3>2
  <2> QED
    BY <1>1, <2>1, <2>2 DEF OwnExtraNonce, Client
<1>6. ASSUME NEW t \in Tasks, OnSubmit(t) PROVE ExtraNonceInv'
  <2>1. UNCHANGED <<counter, subscriptions, handedOut, extraNonce1>>
    BY <1>6 DEF OnSubmit, Register, CheckTarget, SubmitBlock, Submission
  <2>2. \A u \in Tasks : Running(u)' => task'[u].nonce[1] \in handedOut[task'[u].client]
    BY <1>6, OnSubmitContinues DEF Continues, OwnExtraNonce, Client
  <2>3. ASSUME NEW s \in published'
        PROVE  s.client \in Clients /\ s.nonce[1] \in handedOut[s.client]
    <3>1. CASE s \in published
      BY <3>1 DEF OwnExtraNonce
    <3>2. CASE s \notin published
      <4>1. Running(t) /\ task[t] \in Request /\ s.client = Client(t) /\ s.nonce = task[t].nonce
        BY <1>6, <3>2, PublishesOne
      <4> QED
        BY <4>1 DEF OwnExtraNonce, Request, Client
    <3> QED
      BY <3>1, <3>2
  <2> QED
    BY <1>1, <2>1, <2>2, <2>3 DEF OwnExtraNonce, Client
<1> QED
  BY <1>2, <1>3, <1>4, <1>5, <1>6
     DEF Next, OnRequest, UpdateJob, Authorize, SetName, vars

-----------------------------------------------------------------------------
(***************************************************************************)
(* KnownStays: what is in the dictionary of a connection that waits for    *)
(* its answers stays there.                                                *)
(***************************************************************************)
LEMMA KnownStays ==
  ASSUME TypeOK, CreatedByPast, DictionaryCurrent, NEW t \in Tasks, OnSubmit(t),
         NEW c \in Clients, NEW j \in Jobs, workerNonces[j][c] # None,
         Waits(c) \/ c # Client(t)
  PROVE  /\ workerNonces'[j][c] = workerNonces[j][c]
         /\ nonces[workerNonces[j][c]] \subseteq nonces'[workerNonces[j][c]]
<1> DEFINE own == workerNonces[j][c]
<1>1. CASE UNCHANGED registry
  BY <1>1 DEF registry
<1>2. CASE Register(t) /\ CreateNonces(t)
  <2>1. /\ Running(t) /\ task[t].pc = "create" /\ task[t].job \in Jobs /\ Client(t) \in Clients
        /\ nonces' = [nonces EXCEPT ![t] = {Lower(task[t].nonce)}]
        /\ workerNonces' = [workerNonces EXCEPT ![task[t].job][Client(t)] = t]
    BY <1>2, RegisterEffect DEF CreateNonces, Request, Client
  <2>2. own # t /\ own \in Tasks
    BY <2>1, SMTT(30) DEF CreatedByPast, TypeOK
  <2>3. ~(j = task[t].job /\ c = Client(t))
    BY <2>1 DEF DictionaryCurrent
  <2> QED
    BY <2>1, <2>2, <2>3 DEF TypeOK
<1>3. CASE Register(t) /\ AddNonce(t)
  <2>1. workerNonces' = workerNonces /\ own \in Tasks
        /\ nonces' = [nonces EXCEPT ![task[t].dictionary] = @ \cup {Lower(task[t].nonce)}]
    BY <1>3 DEF AddNonce, TypeOK
  <2> QED
    BY <2>1 DEF TypeOK
<1> QED
  BY <1>1, <1>2, <1>3 DEF OnSubmit, Register, CheckTarget, SubmitBlock

(***************************************************************************)
(* PastStep, DictionaryStep: only tasks that registered own dictionaries,  *)
(* and those of a connection that waits are the ones its submission found. *)
(***************************************************************************)
LEMMA PastStep == TypeOK /\ CreatedByPast /\ [Next]_vars => CreatedByPast'
<1> SUFFICES ASSUME TypeOK, CreatedByPast, [Next]_vars PROVE CreatedByPast'
  OBVIOUS
<1> USE DEF context, jobs, registry, network, counts
<1>1. CASE UNCHANGED <<task, workerNonces>>
  BY <1>1 DEF CreatedByPast
<1>2. \A j \in Jobs, c \in Clients : workerNonces[j][c] \in Tasks \cup {None}
  BY DEF TypeOK
<1>3. ASSUME NEW c \in Clients, NEW d \in Difficulties, SetDifficulty(c, d) PROVE CreatedByPast'
  BY <1>2, <1>3, SetDifficultyContinues DEF SetDifficulty, CreatedByPast
<1>4. ASSUME NEW c \in Clients, NEW t \in Tasks, NEW j \in Jobs, NEW n \in Texts,
             Submit(t, c, j, n)
      PROVE  CreatedByPast'
  <2>1. workerNonces' = workerNonces
    BY <1>4 DEF Submit
  <2>2. task[t].pc = "free" /\ \A u \in Tasks \ {t} : task'[u] = task[u]
    BY <1>4, SubmitEffect
  <2> QED
    BY <1>2, <2>1, <2>2 DEF CreatedByPast
<1>5. ASSUME NEW t \in Tasks, OnSubmit(t) PROVE CreatedByPast'
  <2>1. task'[t].pc \in {"verified", "submit", "done"}
        /\ \A u \in Tasks \ {t} : task'[u] = task[u]
    BY <1>5, RegisterEffect, CheckTargetEffect, SubmitBlockEffect DEF OnSubmit
  <2>2. \A j \in Jobs, c \in Clients : workerNonces'[j][c] \in {workerNonces[j][c], t}
    <3>1. CASE UNCHANGED workerNonces
      BY <3>1
    <3>2. CASE workerNonces' = [workerNonces EXCEPT ![task[t].job][Client(t)] = t]
      BY <3>2 DEF TypeOK
    <3> QED
      BY <1>5, <3>1, <3>2 DEF OnSubmit, Register, CreateNonces, AddNonce, CheckTarget, SubmitBlock
  <2> QED
    BY <1>2, <2>1, <2>2 DEF CreatedByPast
<1> QED
  BY <1>1, <1>3, <1>4, <1>5
     DEF Next, OnRequest, UpdateJob, Subscribe, Authorize, SetName, vars

LEMMA DictionaryStep ==
  TypeOK /\ OneAtATime /\ CreatedByPast /\ DictionaryCurrent /\ [Next]_vars => DictionaryCurrent'
<1> SUFFICES ASSUME TypeOK, OneAtATime, CreatedByPast, DictionaryCurrent, [Next]_vars
             PROVE  DictionaryCurrent'
  OBVIOUS
<1> USE DEF context, jobs, registry, network, counts
<1>1. CASE UNCHANGED <<task, workerNonces, nonces>> /\ pipelined \subseteq pipelined'
  BY <1>1 DEF DictionaryCurrent, Running, Client, Waits
<1>2. ASSUME NEW c \in Clients, NEW d \in Difficulties, SetDifficulty(c, d)
      PROVE  DictionaryCurrent'
  <2>1. UNCHANGED <<workerNonces, nonces, pipelined>>
    BY <1>2 DEF SetDifficulty
  <2>2. \A u \in Tasks : task[u].pc = "add" => task'[u] = task[u]
    BY <1>2, Lowers
  <2> QED
    BY <1>2, <2>1, <2>2, SetDifficultyContinues
       DEF Continues, DictionaryCurrent, Waits, Client
<1>3. ASSUME NEW c \in Clients, NEW t \in Tasks, NEW j \in Jobs, NEW n \in Texts,
             Submit(t, c, j, n)
      PROVE  DictionaryCurrent'
  <2>1. UNCHANGED <<workerNonces, nonces>> /\ pipelined \subseteq pipelined'
    BY <1>3 DEF Submit, Sends
  <2> SUFFICES ASSUME NEW u \in Tasks, Running(u)', Waits(Client(u))'
               PROVE  LET own == workerNonces[task'[u].job][task'[u].client]
                      IN /\ task'[u].pc = "create" => own = None
                         /\ task'[u].pc = "add" => own # None /\ task'[u].dictionary = own
                         /\ task'[u].pc \in {"verified", "submit"} =>
                              own # None /\ Lower(task'[u].nonce) \in nonces[own]
    BY <2>1 DEF DictionaryCurrent, Client
  <2>2. CASE u = t
    BY <1>3, <2>2, SubmitEffect
  <2>3. CASE u # t
    <3>1. task'[u] = task[u]
      BY <1>3, <2>3, SubmitEffect
    <3> QED
      BY <2>1, <3>1 DEF DictionaryCurrent, Running, Client, Waits
  <2> QED
    BY <2>2, <2>3
<1>4. ASSUME NEW t \in Tasks, OnSubmit(t) PROVE DictionaryCurrent'
  <2>1. pipelined' = pipelined
    BY <1>4 DEF OnSubmit, Register, CheckTarget, SubmitBlock, Submission
  <2>2. Running(t) /\ task[t] \in Request /\ \A u \in Tasks \ {t} : task'[u] = task[u]
    BY <1>4, RegisterEffect, CheckTargetEffect, SubmitBlockEffect DEF OnSubmit
  <2> SUFFICES ASSUME NEW u \in Tasks, Running(u)', Waits(Client(u))'
               PROVE  LET own == workerNonces'[task'[u].job][task'[u].client]
                      IN /\ task'[u].pc = "create" => own = None
                         /\ task'[u].pc = "add" => own # None /\ task'[u].dictionary = own
                         /\ task'[u].pc \in {"verified", "submit"} =>
                              own # None /\ Lower(task'[u].nonce) \in nonces'[own]
    BY DEF DictionaryCurrent, Client
  <2>3. /\ Running(u) /\ Waits(Client(u)) /\ task[u] \in Request
        /\ task'[u].client = task[u].client /\ task'[u].job = task[u].job
        /\ task'[u].nonce = task[u].nonce
    BY <1>4, <2>1, OnSubmitContinues, RequestOf DEF Continues, Client, Waits, Running
  <2> DEFINE own == workerNonces[task[u].job][Client(u)]
  <2>4. task[u].job \in Jobs /\ Client(u) \in Clients
    BY <2>3 DEF Request, Client
  <2>5. CASE u # t
    <3>1. Client(u) # Client(t) /\ task'[u] = task[u]
      BY <2>2, <2>3, <2>5 DEF OneAtATime
    <3>2. CASE own # None
      BY <1>4, <2>3, <2>4, <3>1, <3>2, KnownStays DEF DictionaryCurrent, Client
    <3>3. CASE own = None
      <4>1. task[u].pc = "create"
        BY <2>3, <3>3 DEF DictionaryCurrent, Running, Request
      <4>2. workerNonces'[task[u].job][Client(u)] = own
        <5>1. CASE UNCHANGED workerNonces
          BY <5>1
        <5>2. CASE workerNonces' = [workerNonces EXCEPT ![task[t].job][Client(t)] = t]
          BY <2>4, <3>1, <5>2 DEF TypeOK
        <5> QED
          BY <1>4, <5>1, <5>2
             DEF OnSubmit, Register, CreateNonces, AddNonce, CheckTarget, SubmitBlock
      <4> QED
        BY <2>3, <3>1, <3>3, <4>1, <4>2 DEF Client
    <3> QED
      BY <3>2, <3>3
  <2>6. CASE u = t /\ Register(t)
    <3>1. task'[t].pc = "verified"
      BY <2>6, RegisterEffect DEF Running
    <3>2. CASE CreateNonces(t)
      <4>1. workerNonces'[task[t].job][Client(t)] = t /\ nonces'[t] = {Lower(task[t].nonce)}
        BY <2>4, <2>6, <3>2 DEF CreateNonces, TypeOK
      <4>2. t # None
        BY SharesAssumption
      <4> QED
        BY <2>3, <2>6, <3>1, <4>1, <4>2 DEF Client
    <3>3. CASE AddNonce(t)
      <4>1. own # None /\ task[t].dictionary = own /\ own \in Tasks
        BY <2>3, <2>4, <2>6, <3>3 DEF AddNonce, DictionaryCurrent, TypeOK
      <4>2. workerNonces' = workerNonces /\ Lower(task[t].nonce) \in nonces'[own]
        BY <3>3, <4>1 DEF AddNonce, TypeOK
      <4> QED
        BY <2>3, <2>6, <3>1, <4>1, <4>2 DEF Client
    <3> QED
      BY <2>6, <3>2, <3>3 DEF Register
  <2>7. CASE u = t /\ ~Register(t)
    <3>1. UNCHANGED <<workerNonces, nonces>>
      BY <1>4, <2>7 DEF OnSubmit, CheckTarget, SubmitBlock
    <3>2. task[t].pc \in {"verified", "submit"} /\ task'[t].pc \in {"submit", "done"}
      BY <1>4, <2>7, CheckTargetEffect, SubmitBlockEffect DEF OnSubmit
    <3> QED
      BY <2>3, <2>7, <3>1, <3>2 DEF DictionaryCurrent, Client
  <2> QED
    BY <2>5, <2>6, <2>7
<1> QED
  BY <1>1, <1>2, <1>3, <1>4
     DEF Next, OnRequest, UpdateJob, Subscribe, Authorize, SetName, Sends, vars

(***************************************************************************)
(* KnownStep, NewStep: a connection that waits has what it published in    *)
(* its dictionaries, and therefore submits something else.                 *)
(***************************************************************************)
LEMMA KnownStep ==
  TypeOK /\ OwnExtraNonce /\ DuplicateInv /\ [Next]_vars => PublishedKnown'
<1> SUFFICES ASSUME TypeOK, OwnExtraNonce, DuplicateInv, [Next]_vars PROVE PublishedKnown'
  OBVIOUS
<1> USE DEF DuplicateInv, context, jobs, registry, network, counts
<1>1. CASE UNCHANGED <<published, workerNonces, nonces>> /\ pipelined \subseteq pipelined'
  BY <1>1 DEF PublishedKnown, Known, Waits
<1>2. ASSUME NEW t \in Tasks, OnSubmit(t) PROVE PublishedKnown'
  <2>1. pipelined' = pipelined
    BY <1>2 DEF OnSubmit, Register, CheckTarget, SubmitBlock, Submission
  <2>2. ASSUME NEW s \in published
        PROVE  s.job \in Jobs /\ (Waits(s.client) => Known(s.client, s.job, s.nonce)')
    <3>1. s.job \in Jobs /\ s.client \in Clients
      BY DEF OwnExtraNonce, PublishedKnown
    <3>2. ASSUME Waits(s.client) PROVE Known(s.client, s.job, s.nonce)'
      <4>1. /\ workerNonces[s.job][s.client] # None
            /\ Lower(s.nonce) \in nonces[workerNonces[s.job][s.client]]
        BY <3>2 DEF PublishedKnown, Known
      <4> QED
        BY <1>2, <3>1, <3>2, <4>1, KnownStays DEF Known
    <3> QED
      BY <3>1, <3>2
  <2>3. ASSUME NEW s \in published', s \notin published
        PROVE  s.job \in Jobs /\ (Waits(s.client) => Known(s.client, s.job, s.nonce)')
    <3>1. /\ Running(t) /\ task[t] \in Request /\ task[t].pc \in {"verified", "submit"}
          /\ UNCHANGED <<workerNonces, nonces>>
          /\ s.client = Client(t) /\ s.job = task[t].job /\ s.nonce = task[t].nonce
      BY <1>2, <2>3, PublishesOne
    <3> QED
      BY <3>1 DEF DictionaryCurrent, Known, Request
  <2> QED
    BY <2>1, <2>2, <2>3 DEF PublishedKnown, Waits
<1>3. ASSUME NEW c \in Clients,
             \/ \E d \in Difficulties : SetDifficulty(c, d)
             \/ \E t \in Tasks, j \in Jobs, n \in Texts : Submit(t, c, j, n)
      PROVE  PublishedKnown'
  BY <1>1, <1>3, ZenonT(60) DEF SetDifficulty, Submit, Sends
<1> QED
  BY <1>1, <1>2, <1>3
     DEF Next, OnRequest, UpdateJob, Subscribe, Authorize, SetName, Sends, vars

LEMMA NewStep == TypeOK /\ DuplicateInv /\ [Next]_vars => RunningNew'
<1> SUFFICES ASSUME TypeOK, DuplicateInv, [Next]_vars PROVE RunningNew'
  OBVIOUS
<1> USE DEF DuplicateInv, context, jobs, registry, network, counts
<1>1. CASE UNCHANGED <<task, published>> /\ pipelined \subseteq pipelined'
  BY <1>1 DEF RunningNew, Running, Client, Waits, Same
<1>2. ASSUME NEW c \in Clients, NEW d \in Difficulties, SetDifficulty(c, d) PROVE RunningNew'
  <2>1. UNCHANGED <<published, pipelined>>
    BY <1>2 DEF SetDifficulty
  <2> QED
    BY <1>2, <2>1, SetDifficultyContinues DEF Continues, RunningNew, Waits, Client, Same
<1>3. ASSUME NEW c \in Clients, NEW t \in Tasks, NEW j \in Jobs, NEW n \in Texts,
             Submit(t, c, j, n)
      PROVE  RunningNew'
  <2>1. published' = published /\ pipelined \subseteq pipelined'
    BY <1>3 DEF Submit, Sends
  <2>2. ASSUME NEW u \in Tasks, Running(u)', Waits(Client(u))', NEW s \in published
        PROVE  ~Same(s, task'[u].client, task'[u].job, task'[u].nonce)
    <3>1. CASE u = t
      <4>1. ~Known(c, j, <<extraNonce1[c], n>>)
        BY <1>3 DEF Submit
      <4>2. task'[u].client = c /\ task'[u].job = j /\ task'[u].nonce = <<extraNonce1[c], n>>
        BY <1>3, <3>1, SubmitEffect
      <4>3. Waits(c)
        BY <2>1, <2>2, <4>2 DEF Waits, Client
      <4> QED
        BY <4>1, <4>2, <4>3 DEF PublishedKnown, Same, Known
    <3>2. CASE u # t
      <4>1. task'[u] = task[u]
        BY <1>3, <3>2, SubmitEffect
      <4> QED
        BY <2>1, <2>2, <4>1 DEF RunningNew, Running, Client, Waits
    <3> QED
      BY <3>1, <3>2
  <2> QED
    BY <2>1, <2>2 DEF RunningNew, Client, Same
<1>4. ASSUME NEW t \in Tasks, OnSubmit(t) PROVE RunningNew'
  <2>1. pipelined' = pipelined
    BY <1>4 DEF OnSubmit, Register, CheckTarget, SubmitBlock, Submission
  <2>2. ASSUME NEW u \in Tasks, Running(u)', Waits(Client(u))', NEW s \in published'
        PROVE  ~Same(s, task'[u].client, task'[u].job, task'[u].nonce)
    <3>1. /\ Running(u) /\ Waits(Client(u)) /\ task'[u].client = Client(u)
          /\ task'[u].job = task[u].job /\ task'[u].nonce = task[u].nonce
      BY <1>4, <2>1, <2>2, OnSubmitContinues DEF Continues, Client, Waits
    <3>2. CASE s \in published
      BY <3>1, <3>2 DEF RunningNew
    <3>3. CASE s \notin published
      <4>1. Running(t) /\ task'[t].pc = "done" /\ s.client = Client(t)
        BY <1>4, <2>2, <3>3, PublishesOne
      <4>2. Client(u) # Client(t)
        BY <2>2, <3>1, <4>1 DEF OneAtATime, Running
      <4> QED
        BY <3>1, <4>1, <4>2 DEF Same
    <3> QED
      BY <3>2, <3>3
  <2> QED
    BY <2>2 DEF RunningNew, Client, Same
<1> QED
  BY <1>1, <1>2, <1>3, <1>4
     DEF Next, OnRequest, UpdateJob, Subscribe, Authorize, SetName, Sends, vars

(***************************************************************************)
(* CountStep: CountInv is inductive.                                       *)
(***************************************************************************)
LEMMA OnceStep == TypeOK /\ CountInv /\ [Next]_vars => NonceCountsOnce'
<1> SUFFICES ASSUME TypeOK, CountInv, [Next]_vars PROVE NonceCountsOnce'
  OBVIOUS
<1> USE DEF CountInv, context, jobs, registry, network, counts
<1>1. CASE published' = published /\ pipelined \subseteq pipelined'
           /\ (subscriptions' <= NonceMax + 1 => subscriptions <= NonceMax + 1)
  BY <1>1 DEF NonceCountsOnce, SolutionOf
<1>2. ASSUME NEW c \in Clients, Subscribe(c) PROVE NonceCountsOnce'
  <2>1. subscriptions' <= NonceMax + 1 => subscriptions <= NonceMax + 1
    BY <1>2, SharesAssumption DEF TypeOK, Subscribe
  <2> QED
    BY <1>1, <1>2, <2>1 DEF Subscribe, Sends
<1>3. ASSUME NEW t \in Tasks, OnSubmit(t) PROVE NonceCountsOnce'
  <2>1. UNCHANGED <<pipelined, subscriptions>>
    BY <1>3 DEF OnSubmit, Register, CheckTarget, SubmitBlock, Submission
  <2>2. CASE published' = published
    BY <1>1, <2>1, <2>2
  <2>3. CASE published' # published
    <3>1. PICK s : /\ published' = published \cup {s} /\ s.client = Client(t)
                   /\ s.job = task[t].job /\ s.nonce = task[t].nonce
      BY <1>3, <2>3, PublishesOne
    <3>2. Running(t) /\ task[t] \in Request /\ Client(t) \in Clients
      BY <1>3, <2>3, PublishesOne DEF Request, Client
    <3>3. ASSUME subscriptions <= NonceMax + 1, NEW r \in published,
                 SolutionOf(r) = SolutionOf(s), {r.client, s.client} \cap pipelined = {}
          PROVE  Rewritten(r, s)
      <4>1. r.client \in Clients /\ r.nonce[1] \in handedOut[r.client]
            /\ s.nonce[1] \in handedOut[s.client]
        BY <3>1, <3>2 DEF ExtraNonceInv, OwnExtraNonce
      <4>2. r.job = s.job /\ r.nonce[1] = s.nonce[1]
        BY <3>3 DEF SolutionOf, Decoded
      <4>3. CASE r.client = s.client
        BY <3>1, <3>2, <3>3, <4>1, <4>2, <4>3 DEF DuplicateInv, RunningNew, Same, Waits, Rewritten
      <4>4. CASE r.client # s.client
        BY <3>1, <3>2, <3>3, <4>1, <4>2, <4>4 DEF ExtraNonceInv, HandedOutApart
      <4> QED
        BY <4>3, <4>4
    <3> QED
      BY <2>1, <3>1, <3>3 DEF NonceCountsOnce, SolutionOf, Rewritten
  <2> QED
    BY <2>2, <2>3
<1>4. ASSUME NEW c \in Clients,
             \/ \E d \in Difficulties : SetDifficulty(c, d)
             \/ \E t \in Tasks, j \in Jobs, n \in Texts : Submit(t, c, j, n)
      PROVE  NonceCountsOnce'
  BY <1>1, <1>4, ZenonT(60) DEF SetDifficulty, Submit, Sends
<1> QED
  BY <1>1, <1>2, <1>3, <1>4
     DEF Next, OnRequest, UpdateJob, Authorize, SetName, Sends, vars

LEMMA CountStep == TypeOK /\ CountInv /\ [Next]_vars => CountInv'
BY OneStep, PastStep, DictionaryStep, KnownStep, NewStep, ExtraNonceStep, OnceStep
   DEF CountInv, DuplicateInv, ExtraNonceInv

LEMMA CountInit == Init => CountInv
<1> SUFFICES ASSUME Init PROVE CountInv
  OBVIOUS
<1>1. \A t \in Tasks : ~Running(t)
  BY DEF Init, Free, Running
<1>2. ExtraNonceInv
  BY <1>1 DEF Init, ExtraNonceInv, UpcomingFresh, HandedOutApart, OwnExtraNonce
<1>3. DuplicateInv
  BY <1>1 DEF Init, DuplicateInv, OneAtATime, CreatedByPast, DictionaryCurrent, PublishedKnown,
     RunningNew
<1> QED
  BY <1>2, <1>3 DEF Init, CountInv, NonceCountsOnce

(***************************************************************************)
(* SolutionsCountOnce: until the counter of the extra nonces has come      *)
(* round, no solution of miners that wait for their answers counts twice   *)
(* among connections, and within a connection only under another text of   *)
(* its nonce, of which the case of letters makes no difference.            *)
(***************************************************************************)
THEOREM SolutionsCountOnce == Spec => []NonceCountsOnce
BY TypeInit, TypeStep, CountInit, CountStep, PTL DEF Spec, CountInv

-----------------------------------------------------------------------------
(***************************************************************************)
(* BlocksStep: what the bus calls a block is what the network took and     *)
(* said so; the first conjunct of BlocksRecorded yields the second, since  *)
(* the network takes a block once.                                         *)
(***************************************************************************)
LEMMA BlocksStep == TypeOK /\ BlocksRecorded /\ [Next]_vars => BlocksRecorded'
<1> SUFFICES ASSUME TypeOK, BlocksRecorded, [Next]_vars PROVE BlocksRecorded'
  OBVIOUS
<1> USE DEF context, jobs, registry, network, counts
<1>1. CASE UNCHANGED <<published, mined, replyLost>>
  BY <1>1 DEF BlocksRecorded, SolutionOf
<1>2. ASSUME NEW t \in Tasks, NEW miner, UNCHANGED <<mined, replyLost>>,
             published' = published \cup {ShareOf(t, miner, FALSE)}
      PROVE  BlocksRecorded'
  <2>1. ~ShareOf(t, miner, FALSE).isBlockCandidate
    BY DEF ShareOf
  <2> QED
    BY <1>2, <2>1 DEF BlocksRecorded, SolutionOf
<1>3. ASSUME NEW t \in Tasks, SubmitBlock(t) PROVE BlocksRecorded'
  <2>1. CASE Mined(t) /\ Answered(t, TRUE) /\ UNCHANGED replyLost
    <3> DEFINE s == ShareOf(t, task[t].miner, TRUE)
    <3>1. /\ published' = published \cup {s} /\ mined' = mined \cup {Solution(t)}
          /\ Solution(t) \notin mined
      BY <2>1 DEF Answered, Publish, Mined
    <3>2. s.isBlockCandidate /\ SolutionOf(s) = Solution(t)
      BY DEF ShareOf, SolutionOf, Solution
    <3>3. Solution(t) \notin replyLost
      BY <3>1 DEF TypeOK
    <3>4. \A r \in published : r.isBlockCandidate => SolutionOf(r) \in mined
      BY DEF BlocksRecorded
    <3>5. mined' \ replyLost' = (mined \ replyLost) \cup {Solution(t)}
      BY <2>1, <3>1, <3>3
    <3>6. mined' \ replyLost' = {SolutionOf(r) : r \in {q \in published' : q.isBlockCandidate}}
      BY <3>1, <3>2, <3>5 DEF BlocksRecorded
    <3>7. \A q, r \in {p \in published' : p.isBlockCandidate} :
            SolutionOf(q) = SolutionOf(r) => q = r
      <4>1. ASSUME NEW q \in published, q.isBlockCandidate,
                   NEW r \in published, r.isBlockCandidate, SolutionOf(q) = SolutionOf(r)
            PROVE  q = r
        BY <4>1 DEF BlocksRecorded
      <4>2. ASSUME NEW q \in published, q.isBlockCandidate, SolutionOf(q) = SolutionOf(s)
            PROVE  FALSE
        BY <3>1, <3>2, <3>4, <4>2
      <4> HIDE DEF s
      <4> QED
        BY <3>1, <4>1, <4>2
    <3> QED
      BY <3>6, <3>7 DEF BlocksRecorded, SolutionOf
  <2>2. CASE Mined(t) /\ Answered(t, FALSE) /\ replyLost' = replyLost \cup {Solution(t)}
    <3> DEFINE s == ShareOf(t, task[t].miner, FALSE)
    <3>1. published' = published \cup {s} /\ mined' \ replyLost' = mined \ replyLost
      BY <2>2 DEF Answered, Publish, Mined
    <3>2. ~s.isBlockCandidate
      BY DEF ShareOf
    <3> QED
      BY <3>1, <3>2 DEF BlocksRecorded, SolutionOf
  <2>3. CASE Answered(t, FALSE) /\ UNCHANGED network
    BY <1>2, <2>3 DEF Answered, Publish
  <2> QED
    BY <1>3, <2>1, <2>2, <2>3 DEF SubmitBlock
<1>4. ASSUME NEW t \in Tasks, CheckTarget(t) PROVE BlocksRecorded'
  BY <1>1, <1>2, <1>4 DEF CheckTarget, Reject, Publish
<1>5. ASSUME NEW t \in Tasks, Register(t) PROVE BlocksRecorded'
  BY <1>1, <1>5 DEF Register, Reject
<1>6. ASSUME NEW c \in Clients,
             \/ \E d \in Difficulties : SetDifficulty(c, d)
             \/ \E t \in Tasks, j \in Jobs, n \in Texts : Submit(t, c, j, n)
      PROVE  BlocksRecorded'
  BY <1>1, <1>6, ZenonT(60) DEF SetDifficulty, Submit
<1> QED
  BY <1>1, <1>3, <1>4, <1>5, <1>6
     DEF Next, OnRequest, OnSubmit, UpdateJob, Subscribe, Authorize, SetName, vars

(***************************************************************************)
(* BlocksAreMined: blocks on the message bus are those the network         *)
(* accepted, each once and all but those whose reply was lost.             *)
(***************************************************************************)
THEOREM BlocksAreMined == Spec => []BlocksRecorded
<1>1. Init => BlocksRecorded
  BY DEF Init, BlocksRecorded
<1> QED
  BY <1>1, TypeInit, TypeStep, BlocksStep, PTL DEF Spec

=============================================================================
