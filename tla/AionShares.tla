----------------------------- MODULE AionShares -----------------------------
(***************************************************************************)
(* The life of a submission in AionPool, AionJobManager and AionJob: from  *)
(* a line of a connection to a share on the message bus.  Every line is    *)
(* handled by a task of its own, so that the submissions of a connection   *)
(* run beside each other, beside its other requests, beside changes of its *)
(* difficulty and beside new jobs; the shared state is a worker context    *)
(* without a lock and a dictionary of nonces.                              *)
(*                                                                         *)
(* A solution is a job, the extra nonce the miner was given and a nonce of *)
(* the miner's choice; its hash proves a difficulty.  The nonce arrives as *)
(* text.  The dictionary holds the text in lower case, the header what the *)
(* text decodes to: digits are not checked, so several texts can write one *)
(* nonce.  Difficulties are fractions, counted in units small enough to    *)
(* make them whole.                                                        *)
(***************************************************************************)
EXTENDS Integers, FiniteSets

CONSTANTS
  Clients,           \* connections
  Miners,            \* addresses they authorize with
  Jobs,              \* block templates of the daemon, in order
  Height,            \* Height[j]: height of template j
  MaxBlockBacklog,
  One,               \* the difficulty 1, in the unit they are counted in
  Target,            \* Target[j]: the difficulty a block needs
  JobDifficulty,     \* JobDifficulty[j]: what a daemon told of it, or 0; whole
  Difficulties,      \* difficulties of connections
  PortDifficulty,    \* the one they start with
  Texts,             \* what miners send for a nonce (extraNonce2)
  ToLower,           \* ToLower[x]: the text in lower case
  Nonces,            \* what texts decode to
  HexToByteArray,    \* HexToByteArray[x]: what text x decodes to
  Proves,            \* Proves[n]: the difficulty the hash proves
  NonceMax,          \* largest extra nonce, 2^16 - 1 in the code
  None,              \* no address, no extra nonce, no dictionary
  Tasks,             \* bound: submissions that pass the first checks
  MaxAuthorizations, \* bound: authorizations
  MaxSubscriptions   \* bound: subscriptions

ASSUME SharesAssumption ==
  /\ 1 \in Jobs /\ Jobs \subseteq Nat /\ Tasks \subseteq Nat
  /\ Height \in [Jobs -> Nat]
  /\ MaxBlockBacklog \in Nat
  /\ One \in Nat \ {0}
  /\ Target \in [Jobs -> Nat]
  /\ JobDifficulty \in [Jobs -> Int]
  /\ Difficulties \subseteq Nat \ {0} /\ PortDifficulty \in Difficulties
  /\ ToLower \in [Texts -> Texts] /\ HexToByteArray \in [Texts -> Nonces]
  /\ Proves \in [Nonces -> Nat]
  /\ NonceMax \in Nat \ {0}
  /\ MaxSubscriptions \in Nat /\ MaxAuthorizations \in Nat
  /\ None \notin Miners \cup Nat

ExtraNonces == 0 .. NonceMax

VARIABLES
  (* ExtraNonceProviderBase and the worker contexts *)
  counter,
  extraNonce1,     \* None until the connection subscribed
  isAuthorized,
  minerName,
  difficulty,
  authorizing,     \* connections whose address a daemon just validated
  (* AionJobManager and AionJob *)
  lastJob,
  validJobs,
  workerNonces,    \* workerNonces[j][c]: the task that created the dictionary
  nonces,          \* nonces[t]: the dictionary task t created, of texts
  (* OnSubmitAsync *)
  task,
  published,       \* shares on the message bus
  (* history *)
  mined,           \* solutions the network accepted as blocks
  replyLost,       \* those it accepted without telling the pool
  subscriptions,   \* extra nonces handed out
  authorizations,  \* addresses validated
  asked,           \* asked[c]: the address c asked for last
  handedOut,       \* handedOut[c]: the extra nonces c got
  pipelined        \* connections that did not wait for an answer

context == <<counter, extraNonce1, isAuthorized, minerName, authorizing, asked, handedOut>>
jobs == <<lastJob, validJobs>>
registry == <<workerNonces, nonces>>
network == <<mined, replyLost>>
counts == <<subscriptions, authorizations>>
vars == <<context, difficulty, jobs, registry, task, published, network, counts, pipelined>>

Free == [pc |-> "free"]
Done == [pc |-> "done"]

Running(t) == task[t].pc \notin {"free", "done"}

Request ==
  [pc : {"create", "add", "verified", "submit"},
   client : Clients, job : Jobs, nonce : ExtraNonces \X Texts,
   dictionary : Tasks \cup {None},
   difficulty : Int, lowered : BOOLEAN, miner : Miners \cup {None},
   sender : Miners \cup {None}, repeated : BOOLEAN]

TypeOK ==
  /\ counter \in ExtraNonces
  /\ extraNonce1 \in [Clients -> ExtraNonces \cup {None}]
  /\ isAuthorized \in [Clients -> BOOLEAN]
  /\ minerName \in [Clients -> Miners \cup {None}]
  /\ difficulty \in [Clients -> Difficulties]
  /\ authorizing \subseteq Clients
  /\ lastJob \in Nat /\ validJobs \subseteq {j \in Jobs : j <= lastJob}
  /\ workerNonces \in [Jobs -> [Clients -> Tasks \cup {None}]]
  /\ nonces \in [Tasks -> SUBSET (ExtraNonces \X Texts)]
  /\ task \in [Tasks -> Request \cup {Free, Done}]
  /\ mined \subseteq Jobs \X (ExtraNonces \X Nonces) /\ replyLost \subseteq mined
  /\ subscriptions \in 0 .. MaxSubscriptions /\ authorizations \in 0 .. MaxAuthorizations
  /\ asked \in [Clients -> Miners \cup {None}]
  /\ handedOut \in [Clients -> SUBSET ExtraNonces]
  /\ pipelined \subseteq Clients

Init ==
  /\ counter \in ExtraNonces \ {0}
  /\ extraNonce1 = [c \in Clients |-> None]
  /\ isAuthorized = [c \in Clients |-> FALSE]
  /\ minerName = [c \in Clients |-> None]
  /\ difficulty = [c \in Clients |-> PortDifficulty]
  /\ authorizing = {}
  /\ lastJob = 1 /\ validJobs = {1}
  /\ workerNonces = [j \in Jobs |-> [c \in Clients |-> None]]
  /\ nonces = [t \in Tasks |-> {}]
  /\ task = [t \in Tasks |-> Free]
  /\ published = {}
  /\ mined = {} /\ replyLost = {}
  /\ subscriptions = 0 /\ authorizations = 0
  /\ asked = [c \in Clients |-> None] /\ handedOut = [c \in Clients |-> {}]
  /\ pipelined = {}

Client(t) == task[t].client

(* A share of the submission; task, nonce, repeated, sender and lowered    *)
(* are not in the code's Share: they are what the properties speak of.     *)
ShareOf(t, miner, isBlockCandidate) ==
  [task |-> t, client |-> Client(t), job |-> task[t].job, nonce |-> task[t].nonce,
   repeated |-> task[t].repeated, sender |-> task[t].sender, miner |-> miner,
   difficulty |-> task[t].difficulty, lowered |-> task[t].lowered,
   isBlockCandidate |-> isBlockCandidate]

(***************************************************************************)
(* Slips: how operators below could go wrong.  No specification uses them; *)
(* each refutes the property it is paired with.                            *)
(***************************************************************************)
NoWrap == counter + 1
WrapsEarly == IF counter + 1 >= NonceMax THEN 0 ELSE counter + 1
NeverTooLow(t) == FALSE
FirstName(c) == IF minerName[c] = None THEN asked[c] ELSE minerName[c]
ReplyIgnored(t, accepted) ==
  /\ published' = published \cup {ShareOf(t, task[t].miner, TRUE)}
  /\ task' = [task EXCEPT ![t] = Done]

Busy(c) ==
  \/ c \in authorizing
  \/ \E t \in Tasks : Running(t) /\ Client(t) = c

Sends(c) ==  \* a request arrives from c
  pipelined' = IF Busy(c) THEN pipelined \cup {c} ELSE pipelined

-----------------------------------------------------------------------------
(* UpdateJob: the section under jobLock *)
Backlog(j) == {k \in validJobs \cup {j} : Height[k] >= Height[j] - MaxBlockBacklog}

UpdateJob ==
  /\ lastJob + 1 \in Jobs
  /\ lastJob' = lastJob + 1
  /\ validJobs' = Backlog(lastJob')
  /\ UNCHANGED <<context, difficulty, registry, task, published, network, counts,
                 pipelined>>

(* ExtraNonceProviderBase.Next *)
NextExtraNonce == IF counter + 1 > NonceMax THEN 0 ELSE counter + 1

Subscribe(c) ==
  /\ subscriptions < MaxSubscriptions
  /\ subscriptions' = subscriptions + 1
  /\ counter' = NextExtraNonce
  /\ extraNonce1' = [extraNonce1 EXCEPT ![c] = NextExtraNonce]
  /\ handedOut' = [handedOut EXCEPT ![c] = @ \cup {NextExtraNonce}]
  /\ Sends(c)
  /\ UNCHANGED <<isAuthorized, minerName, authorizing, asked, difficulty, jobs, registry,
                 task, published, network, authorizations>>

(* OnAuthorizeAsync: a daemon validates the address ... *)
Authorize(c, m) ==
  /\ c \notin authorizing /\ authorizations < MaxAuthorizations
  /\ authorizations' = authorizations + 1
  /\ \E valid \in BOOLEAN : isAuthorized' = [isAuthorized EXCEPT ![c] = valid]
  /\ authorizing' = authorizing \cup {c}
  /\ asked' = [asked EXCEPT ![c] = m]
  /\ Sends(c)
  /\ UNCHANGED <<counter, extraNonce1, minerName, handedOut, difficulty, jobs, registry, task,
                 published, network, subscriptions>>

NameOf(c) == asked[c]

(* ... its name follows, then the answer *)
SetName(c) ==
  /\ c \in authorizing
  /\ minerName' = [minerName EXCEPT ![c] = NameOf(c)]
  /\ authorizing' = authorizing \ {c}
  /\ UNCHANGED <<counter, extraNonce1, isAuthorized, asked, handedOut, difficulty, jobs,
                 registry, task, published, network, counts, pipelined>>

(* variable difficulty, by a timer or another share, or a static one *)
SetDifficulty(c, d) ==
  /\ difficulty[c] # d
  /\ difficulty' = [difficulty EXCEPT ![c] = d]
  /\ task' = [t \in Tasks |->
               IF task[t].pc = "verified" /\ Client(t) = c /\ d < difficulty[c]
                 THEN [task[t] EXCEPT !.lowered = TRUE] ELSE task[t]]
  /\ UNCHANGED <<context, jobs, registry, published, network, counts, pipelined>>

-----------------------------------------------------------------------------
(* A nonce is the extra nonce of the connection, and the text behind it. *)
Lower(nonce) == <<nonce[1], ToLower[nonce[2]]>>
Decoded(nonce) == <<nonce[1], HexToByteArray[nonce[2]]>>

Same(s, c, j, n) == s.client = c /\ s.job = j /\ Lower(s.nonce) = Lower(n)

(* OnSubmitAsync, and the lookup of the job under jobLock *)
Admitted(c, j) ==
  /\ isAuthorized[c]
  /\ extraNonce1[c] # None
  /\ j \in validJobs

(* RegisterNonce: TryGetValue(worker), TryGet(nonce) ... *)
Known(c, j, nonce) ==
  workerNonces[j][c] # None /\ Lower(nonce) \in nonces[workerNonces[j][c]]

(* A line that fails the checks changes nothing and is left out. *)
Submit(t, c, j, n) ==
  LET nonce == <<extraNonce1[c], n>>
  IN /\ task[t] = Free /\ \A u \in Tasks : task[u] = Free => t <= u
     /\ Admitted(c, j)
     /\ ~Known(c, j, nonce)
     /\ task' = [task EXCEPT ![t] =
          [pc |-> IF workerNonces[j][c] = None THEN "create" ELSE "add",
           client |-> c, job |-> j, nonce |-> nonce,
           dictionary |-> workerNonces[j][c],
           difficulty |-> 0, lowered |-> FALSE, miner |-> None,
           sender |-> asked[c],
           repeated |-> \E s \in published : Same(s, c, j, nonce)]]
  /\ Sends(c)
  /\ UNCHANGED <<context, difficulty, jobs, registry, published, network, counts>>

Submission ==  \* what no step of a submission changes
  UNCHANGED <<context, difficulty, jobs, counts, pipelined>>

Reject(t) == task' = [task EXCEPT ![t] = Done] /\ UNCHANGED published

(* ... workerNonces[worker] = nonces *)
CreateNonces(t) ==
  /\ task[t].pc = "create"
  /\ nonces' = [nonces EXCEPT ![t] = {Lower(task[t].nonce)}]
  /\ workerNonces' = [workerNonces EXCEPT ![task[t].job][Client(t)] = t]

(* ... or nonces.TryAdd *)
AddNonce(t) ==
  /\ task[t].pc = "add"
  /\ nonces' = [nonces EXCEPT ![task[t].dictionary] = @ \cup {Lower(task[t].nonce)}]
  /\ UNCHANGED workerNonces

Least(a, b) == IF a < b THEN a ELSE b

(* ProcessShareInternal: the solution, and the difficulty it is counted for *)
Register(t) ==
  /\ CreateNonces(t) \/ AddNonce(t)
  /\ \/ Reject(t)  \* not a solution
     \/ /\ task' = [task EXCEPT ![t].difficulty = Least(difficulty[Client(t)],
                                                        One * JobDifficulty[task[t].job]),
                                ![t].dictionary = None,
                                ![t].pc = "verified"]
        /\ UNCHANGED published
  /\ UNCHANGED network
  /\ Submission

(* diffToTarget divides by the whole part of a difficulty. *)
Truncated(d) == d - (d % One)

Proven(nonce) == Proves[HexToByteArray[nonce[2]]]

(* A target of 2^255 or more is read as a negative number or does not fit: *)
(* no hash is below it.  Below a difficulty of 1 the division fails.       *)
Meets(nonce, d) == d > 2 * One /\ Proven(nonce) >= d

TooLow(t) == ~Meets(task[t].nonce, Truncated(difficulty[Client(t)]))

FindsBlock(t) == Meets(task[t].nonce, Target[task[t].job])

(* OnSubmitAsync answers and publishes a ClientShare *)
Publish(t, miner, isBlockCandidate) ==
  /\ published' = published \cup {ShareOf(t, miner, isBlockCandidate)}
  /\ task' = [task EXCEPT ![t] = Done]

(* ... its hash against the target of the connection, read once more *)
CheckTarget(t) ==
  /\ task[t].pc = "verified"
  /\ \/ TooLow(t) /\ Reject(t)
     \/ ~TooLow(t) /\ ~FindsBlock(t) /\ Publish(t, minerName[Client(t)], FALSE)
     \/ /\ ~TooLow(t) /\ FindsBlock(t)
        /\ task' = [task EXCEPT ![t].miner = minerName[Client(t)], ![t].pc = "submit"]
        /\ UNCHANGED published
  /\ UNCHANGED <<registry, network>>
  /\ Submission

Solution(t) == <<task[t].job, Decoded(task[t].nonce)>>

Mined(t) ==  \* the network takes a block once
  /\ Solution(t) \notin mined
  /\ mined' = mined \cup {Solution(t)}

Answered(t, accepted) == Publish(t, task[t].miner, accepted)

(* SubmitBlockAsync: an error, and no answer, count as a refusal *)
SubmitBlock(t) ==
  /\ task[t].pc = "submit"
  /\ \/ Mined(t) /\ Answered(t, TRUE) /\ UNCHANGED replyLost
     \/ Mined(t) /\ Answered(t, FALSE) /\ replyLost' = replyLost \cup {Solution(t)}
     \/ Answered(t, FALSE) /\ UNCHANGED network
  /\ UNCHANGED registry
  /\ Submission

-----------------------------------------------------------------------------
OnSubmit(t) ==
  Register(t) \/ CheckTarget(t) \/ SubmitBlock(t)

OnRequest(c) ==
  \/ Subscribe(c) \/ SetName(c)
  \/ \E m \in Miners : Authorize(c, m)
  \/ \E t \in Tasks, j \in Jobs, n \in Texts : Submit(t, c, j, n)

Next ==
  \/ UpdateJob
  \/ \E c \in Clients : OnRequest(c) \/ \E d \in Difficulties : SetDifficulty(c, d)
  \/ \E t \in Tasks : OnSubmit(t)

Spec == Init /\ [][Next]_vars

-----------------------------------------------------------------------------
SolutionOf(s) == <<s.job, Decoded(s.nonce)>>

(***************************************************************************)
(* A solution counts once: among connections because they got different    *)
(* extra nonces (as long as the counter has not come round), within a      *)
(* connection because of the dictionary of its nonces, unless the miner    *)
(* sends a request before the previous one was answered.  What the         *)
(* dictionary tells apart is text: a solution counts again in a connection *)
(* when its nonce is written in another way, but for the case of letters.  *)
(***************************************************************************)
Rewritten(r, s) == r.client = s.client /\ Lower(r.nonce) # Lower(s.nonce)

NonceCountsOnce ==
  subscriptions <= NonceMax + 1 =>
    \A r, s \in published :
      SolutionOf(r) = SolutionOf(s) /\ {r.client, s.client} \cap pipelined = {} =>
        r = s \/ Rewritten(r, s)

(***************************************************************************)
(* A share is counted for no more than its hash proves, but for the        *)
(* fraction the target of its connection has lost (the credit keeps it),   *)
(* though the difficulty is read twice and changes under the submission;   *)
(* it fails only if the difficulty is lowered between the two reads.       *)
(***************************************************************************)
CreditIsProven ==
  \A s \in published : s.lowered \/ Truncated(s.difficulty) <= Proven(s.nonce)

(***************************************************************************)
(* The share of a miner that waits for answers is counted for the address  *)
(* it had authorized when it sent the share, and never for nobody: no row  *)
(* of the table shares can be without a miner.                             *)
(***************************************************************************)
CountsForSender ==
  \A s \in published :
    s.client \notin pipelined => s.miner = s.sender /\ s.miner # None

(***************************************************************************)
(* Blocks on the message bus are those the network accepted: each once,    *)
(* although submissions race, and all but those whose reply was lost.      *)
(***************************************************************************)
BlocksRecorded ==
  LET candidates == {s \in published : s.isBlockCandidate}
  IN /\ mined \ replyLost = {SolutionOf(s) : s \in candidates}
     /\ \A r, s \in candidates : SolutionOf(r) = SolutionOf(s) => r = s

(***************************************************************************)
(* "duplicate check": what a connection was told to be accepted is not     *)
(* accepted from it once more.  Two first submissions for a job that find  *)
(* no dictionary create one each; the second replaces the first, and what  *)
(* was in it is forgotten.                                                 *)
(***************************************************************************)
RepeatsRejected == \A s \in published : ~s.repeated

=============================================================================
