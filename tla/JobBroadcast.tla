---------------------------- MODULE JobBroadcast ----------------------------
(***************************************************************************)
(* How work reaches miners: AionJobManager polls the daemon and announces  *)
(* new jobs, AionPool broadcasts them one after the other, and every       *)
(* request of a connection runs as a task of its own that may send the     *)
(* initial work or a changed difficulty at the same time.  Broadcast and   *)
(* tasks share the worker context and the field currentJobParams without a *)
(* lock; only the initial work is decided under one.                       *)
(***************************************************************************)
EXTENDS Integers, Sequences, FiniteSets

CONSTANTS
  Clients,         \* connections
  MaxJob,          \* block templates of the daemon, in order
  Difficulties,    \* difficulties of connections
  PortDifficulty,  \* the one they start with
  None,            \* no pending difficulty, no client
  Tasks,           \* bound: requests handled at the same time
  MaxRequests,     \* bound: authorizations and submissions
  MaxSilent        \* bound: statistics that fail

ASSUME BroadcastAssumption ==
  /\ MaxJob \in Nat /\ MaxRequests \in Nat /\ MaxSilent \in Nat
  /\ PortDifficulty \in Difficulties /\ Difficulties \subseteq Nat /\ Tasks \subseteq Nat
  /\ None \notin Difficulties \cup Clients

Jobs == 0 .. MaxJob  \* 0: currentJobParams before the first broadcast, null

VARIABLES
  (* AionJobManager *)
  currentJob,
  announced,         \* jobs handed to Concat, not yet broadcast
  (* AionPool *)
  currentJobParams,
  clients,           \* StratumServer.clients
  accepted,          \* connections ever accepted
  casting,           \* where OnNewJobAsync is
  remaining,         \* clients of its snapshot still to come
  current,           \* the client it is at
  target,            \* the difficulty it read
  (* worker contexts *)
  isSubscribed, isAuthorized, isInitialWorkSent, hasVarDiff,
  difficulty, pendingDifficulty,
  (* requests *)
  task,
  requests,
  (* what left by the send queue of a connection *)
  jobsSent,          \* mining.notify
  targetsSent,       \* mining.set_target, as difficulties
  (* history *)
  silent,            \* jobs whose statistics failed
  lapsed,            \* connections that lost their authorization after the initial work
  crossed            \* connections whose difficulty was changed by two requests at once

manager == <<currentJob, announced, silent>>
broadcast == <<currentJobParams, casting, remaining, current, target>>
login == <<isSubscribed, isAuthorized, isInitialWorkSent, hasVarDiff>>
diffs == <<difficulty, pendingDifficulty>>
outbox == <<jobsSent, targetsSent>>
history == <<lapsed, crossed>>
vars == <<manager, broadcast, clients, accepted, login, diffs, task, requests, outbox, history>>

Free == [pc |-> "free"]
Request ==
  [pc : {"authorized", "initial", "vardiff", "has", "apply", "value", "clear",
         "send", "job", "target"},
   client : Clients, then : {"vardiff", "done"}, difficulty : Difficulties, job : Jobs]

TypeOK ==
  /\ currentJob \in Jobs /\ silent \subseteq Jobs
  /\ announced \in Seq(Jobs \ {0})
  /\ currentJobParams \in Jobs
  /\ clients \subseteq accepted /\ accepted \subseteq Clients
  /\ casting \in {"idle", "snapshot", "next", "value", "clear", "difficulty", "job", "target"}
  /\ remaining \subseteq Clients /\ current \in Clients \cup {None}
  /\ target \in Difficulties
  /\ isSubscribed \in [Clients -> BOOLEAN] /\ isAuthorized \in [Clients -> BOOLEAN]
  /\ isInitialWorkSent \in [Clients -> BOOLEAN] /\ hasVarDiff \in [Clients -> BOOLEAN]
  /\ difficulty \in [Clients -> Difficulties]
  /\ pendingDifficulty \in [Clients -> Difficulties \cup {None}]
  /\ task \in [Tasks -> Request \cup {Free}]
  /\ requests \in 0 .. MaxRequests
  /\ jobsSent \in [Clients -> SUBSET Jobs]
  /\ targetsSent \in [Clients -> SUBSET Difficulties]
  /\ lapsed \subseteq Clients /\ crossed \subseteq Clients

Init ==
  /\ currentJob = 0 /\ announced = <<>> /\ silent = {}
  /\ currentJobParams = 0
  /\ clients = {} /\ accepted = {}
  /\ casting = "idle" /\ remaining = {} /\ current = None /\ target = PortDifficulty
  /\ isSubscribed = [c \in Clients |-> FALSE] /\ isAuthorized = [c \in Clients |-> FALSE]
  /\ isInitialWorkSent = [c \in Clients |-> FALSE] /\ hasVarDiff = [c \in Clients |-> TRUE]
  /\ difficulty = [c \in Clients |-> PortDifficulty]
  /\ pendingDifficulty = [c \in Clients |-> None]
  /\ task = [t \in Tasks |-> Free] /\ requests = 0
  /\ jobsSent = [c \in Clients |-> {}] /\ targetsSent = [c \in Clients |-> {}]
  /\ lapsed = {} /\ crossed = {}

(* StratumClient.Send: nothing is sent on a connection that is gone *)
Notify(sentSoFar, c, message) ==
  IF c \in clients THEN [sentSoFar EXCEPT ![c] = @ \cup {message}] ELSE sentSoFar

Casting(from, to) == casting = from /\ casting' = to

Caster ==  \* what no step of a broadcast changes
  UNCHANGED <<currentJob, silent, accepted, login, task, requests, history>>

(***************************************************************************)
(* Slips: how operators below could go wrong.  No specification uses them; *)
(* each refutes the property it is paired with.                            *)
(***************************************************************************)
ValueOrDefault ==
  /\ casting = "value" /\ casting' = "clear"
  /\ difficulty' = [difficulty EXCEPT ![current] = pendingDifficulty[current]]
  /\ UNCHANGED <<announced, currentJobParams, clients, remaining, current, target,
                 pendingDifficulty, outbox>>
  /\ Caster
ReturnsOnceApplied ==
  /\ Casting("clear", "next") /\ current' = None
  /\ pendingDifficulty' = [pendingDifficulty EXCEPT ![current] = None]
  /\ UNCHANGED <<announced, currentJobParams, clients, remaining, target, difficulty, outbox>>
  /\ Caster

-----------------------------------------------------------------------------
(* UpdateJob: a template with another header hash.  An exception of        *)
(* getNetworkAndMinerHashRate is caught after currentJob was set: the job  *)
(* is current and will not be found new again, but it is not announced.    *)
UpdateJob ==
  /\ currentJob < MaxJob
  /\ currentJob' = currentJob + 1
  /\ \/ announced' = Append(announced, currentJob') /\ UNCHANGED silent
     \/ /\ Cardinality(silent) < MaxSilent
        /\ silent' = silent \cup {currentJob'}
        /\ UNCHANGED announced
  /\ UNCHANGED <<broadcast, clients, accepted, login, diffs, task, requests, outbox, history>>

(* OnNewJobAsync: the field first ... *)
OnNewJob ==
  /\ Casting("idle", "snapshot")
  /\ announced # <<>>
  /\ currentJobParams' = Head(announced)
  /\ announced' = Tail(announced)
  /\ UNCHANGED <<clients, remaining, current, target, diffs, outbox>>
  /\ Caster

(* ... then ForEachClient *)
ForEachClient ==
  /\ Casting("snapshot", "next")
  /\ remaining' = clients
  /\ UNCHANGED <<announced, currentJobParams, clients, current, target, diffs, outbox>>
  /\ Caster

InService(c) == isSubscribed[c] /\ isAuthorized[c] /\ isInitialWorkSent[c]

Skip(c) ==
  /\ ~InService(c)
  /\ UNCHANGED <<clients, casting, current>>

Boot(c) ==  \* idle-timeout exceeded
  /\ InService(c)
  /\ clients' = clients \ {c}
  /\ UNCHANGED <<casting, current>>

Visit(c) ==  \* ApplyPendingDifficulty: the test
  /\ InService(c)
  /\ casting' = IF pendingDifficulty[c] = None THEN "difficulty" ELSE "value"
  /\ current' = c
  /\ UNCHANGED clients

NextClient(c) ==
  /\ casting = "next" /\ c \in remaining
  /\ remaining' = remaining \ {c}
  /\ Skip(c) \/ Boot(c) \/ Visit(c)
  /\ UNCHANGED <<announced, currentJobParams, target, diffs, outbox>>
  /\ Caster

(* pendingDifficulty.Value throws if a task has cleared it since; the      *)
(* exception ends the visit.                                               *)
CastValue ==
  /\ casting = "value"
  /\ \/ /\ pendingDifficulty[current] = None
        /\ casting' = "next" /\ current' = None
        /\ UNCHANGED difficulty
     \/ /\ pendingDifficulty[current] # None
        /\ difficulty' = [difficulty EXCEPT ![current] = pendingDifficulty[current]]
        /\ casting' = "clear" /\ UNCHANGED current
  /\ UNCHANGED <<announced, currentJobParams, clients, remaining, target, pendingDifficulty, outbox>>
  /\ Caster

CastClear ==
  /\ Casting("clear", "difficulty")
  /\ pendingDifficulty' = [pendingDifficulty EXCEPT ![current] = None]
  /\ UNCHANGED <<announced, currentJobParams, clients, remaining, current, target, difficulty, outbox>>
  /\ Caster

CastDifficulty ==
  /\ Casting("difficulty", "job")
  /\ target' = difficulty[current]
  /\ UNCHANGED <<announced, currentJobParams, clients, remaining, current, diffs, outbox>>
  /\ Caster

CastJob ==
  /\ Casting("job", "target")
  /\ jobsSent' = Notify(jobsSent, current, currentJobParams)
  /\ UNCHANGED <<announced, currentJobParams, clients, remaining, current, target, diffs, targetsSent>>
  /\ Caster

CastTarget ==
  /\ Casting("target", "next")
  /\ targetsSent' = Notify(targetsSent, current, target)
  /\ current' = None /\ target' = PortDifficulty
  /\ UNCHANGED <<announced, currentJobParams, clients, remaining, diffs, jobsSent>>
  /\ Caster

EndBroadcast ==
  /\ Casting("next", "idle") /\ remaining = {}
  /\ UNCHANGED <<announced, currentJobParams, clients, remaining, current, target, diffs, outbox>>
  /\ Caster

(* slip: the clients are taken before the field is set *)
SnapshotFirst ==
  \/ /\ Casting("idle", "snapshot") /\ announced # <<>>
     /\ remaining' = clients
     /\ UNCHANGED <<announced, currentJobParams, clients, current, target, diffs, outbox>>
     /\ Caster
  \/ /\ Casting("snapshot", "next")
     /\ currentJobParams' = Head(announced) /\ announced' = Tail(announced)
     /\ UNCHANGED <<clients, remaining, current, target, diffs, outbox>>
     /\ Caster
  \/ EndBroadcast \/ \E c \in Clients : NextClient(c)
  \/ CastValue \/ CastClear \/ CastDifficulty \/ CastJob \/ CastTarget

OnNewJobAsync ==
  \/ OnNewJob \/ ForEachClient \/ EndBroadcast
  \/ \E c \in Clients : NextClient(c)
  \/ CastValue \/ CastClear \/ CastDifficulty \/ CastJob \/ CastTarget

-----------------------------------------------------------------------------
(* StartListeners follows Jobs.Take(1): some job was announced *)
OnClientConnected(c) ==
  /\ c \notin accepted
  /\ (1 .. currentJob) \ silent # {}
  /\ accepted' = accepted \cup {c} /\ clients' = clients \cup {c}
  /\ UNCHANGED <<manager, broadcast, login, diffs, task, requests, outbox, history>>

(* the end of the stream, an error, or the timer for silent clients *)
DisconnectClient(c) ==
  /\ c \in clients
  /\ clients' = clients \ {c}
  /\ UNCHANGED <<manager, broadcast, accepted, login, diffs, task, requests, outbox, history>>

OnSubscribe(c) ==
  /\ c \in clients /\ ~isSubscribed[c]
  /\ isSubscribed' = [isSubscribed EXCEPT ![c] = TRUE]
  /\ UNCHANGED <<manager, broadcast, clients, accepted, isAuthorized, isInitialWorkSent,
                 hasVarDiff, diffs, task, requests, outbox, history>>

Receives(t, c, pc, then) ==
  /\ c \in clients /\ task[t] = Free /\ \A u \in Tasks : task[u] = Free => t <= u
  /\ requests < MaxRequests /\ requests' = requests + 1
  /\ task' = [task EXCEPT ![t] = [pc |-> pc, client |-> c, then |-> then,
                                 difficulty |-> PortDifficulty, job |-> 0]]

Handler ==  \* what no step of a request changes
  UNCHANGED <<manager, broadcast, clients, accepted, isSubscribed>>

(* OnAuthorizeAsync: the answer of the daemon ... *)
OnAuthorize(t, c, valid) ==
  /\ Receives(t, c, "authorized", "done")
  /\ isAuthorized' = [isAuthorized EXCEPT ![c] = valid]
  /\ lapsed' = IF isInitialWorkSent[c] /\ ~valid THEN lapsed \cup {c} ELSE lapsed
  /\ UNCHANGED <<isInitialWorkSent, hasVarDiff, diffs, outbox, crossed>>
  /\ Handler

Client(t) == task[t].client
At(t, pc) == task[t].pc = pc
Goto(t, pc) == task' = [task EXCEPT ![t].pc = pc]
End(t) == task' = [task EXCEPT ![t] = Free]

(* ... and a static difficulty, if the password has one *)
StaticDiff(t) ==
  LET c == Client(t)
  IN /\ At(t, "authorized") /\ Goto(t, "initial")
     /\ \/ UNCHANGED <<hasVarDiff, difficulty, crossed>>
        \/ \E d \in Difficulties :
             /\ hasVarDiff[c] \/ d > difficulty[c]
             /\ hasVarDiff' = [hasVarDiff EXCEPT ![c] = FALSE]
             /\ difficulty' = [difficulty EXCEPT ![c] = d]
             /\ crossed' = IF isInitialWorkSent[c] THEN crossed \cup {c} ELSE crossed
     /\ UNCHANGED <<isAuthorized, isInitialWorkSent, pendingDifficulty, requests, outbox, lapsed>>
     /\ Handler

(* OnSubmitAsync: a share that was accepted *)
OnSubmit(t, c) ==
  /\ isAuthorized[c] /\ isSubscribed[c]
  /\ Receives(t, c, "initial", "vardiff")
  /\ UNCHANGED <<isAuthorized, isInitialWorkSent, hasVarDiff, diffs, outbox, history>>
  /\ Handler

(* EnsureInitialWorkSent: the section under lock(context) *)
Then(t) ==
  IF task[t].then = "done" THEN End(t)
  ELSE task' = [task EXCEPT ![t] = [@ EXCEPT !.pc = "vardiff", !.then = "done",
                                             !.difficulty = PortDifficulty]]

EnsureInitialWorkSent(t) ==
  LET c == Client(t)
  IN /\ At(t, "initial")
     /\ \/ /\ isSubscribed[c] /\ isAuthorized[c] /\ ~isInitialWorkSent[c]
           /\ isInitialWorkSent' = [isInitialWorkSent EXCEPT ![c] = TRUE]
           /\ task' = [task EXCEPT ![t] = [@ EXCEPT !.pc = "send", !.difficulty = difficulty[c]]]
        \/ /\ ~isSubscribed[c] \/ ~isAuthorized[c] \/ isInitialWorkSent[c]
           /\ Then(t)
           /\ UNCHANGED isInitialWorkSent
     /\ UNCHANGED <<isAuthorized, hasVarDiff, diffs, requests, outbox, history>>
     /\ Handler

-----------------------------------------------------------------------------
(* the two notifications of a task, after the lock *)
ReadJobParams(t) ==
  /\ At(t, "send")
  /\ task' = [task EXCEPT ![t] = [@ EXCEPT !.pc = "job", !.job = currentJobParams]]
  /\ UNCHANGED <<isAuthorized, isInitialWorkSent, hasVarDiff, diffs, requests, outbox, history>>
  /\ Handler

SendJobOnly(t) ==  \* slip: the target is forgotten
  /\ At(t, "job") /\ Then(t)
  /\ jobsSent' = Notify(jobsSent, Client(t), task[t].job)
  /\ UNCHANGED <<isAuthorized, isInitialWorkSent, hasVarDiff, diffs, requests, targetsSent, history>>
  /\ Handler

SendJob(t) ==
  /\ At(t, "job")
  /\ task' = [task EXCEPT ![t] = [@ EXCEPT !.pc = "target", !.job = 0]]
  /\ jobsSent' = Notify(jobsSent, Client(t), task[t].job)
  /\ UNCHANGED <<isAuthorized, isInitialWorkSent, hasVarDiff, diffs, requests, targetsSent, history>>
  /\ Handler

SendTarget(t) ==
  /\ At(t, "target") /\ Then(t)
  /\ targetsSent' = Notify(targetsSent, Client(t), task[t].difficulty)
  /\ UNCHANGED <<isAuthorized, isInitialWorkSent, hasVarDiff, diffs, requests, jobsSent, history>>
  /\ Handler

Retargeting(t) == task[t].pc \in {"has", "apply", "value", "clear"}

(* UpdateVarDiffAsync, EnqueueNewDifficulty *)
UpdateVarDiff(t) ==
  LET c == Client(t)
  IN /\ At(t, "vardiff")
     /\ \/ End(t) /\ UNCHANGED <<pendingDifficulty, crossed>>
        \/ \E newDiff \in Difficulties \ {difficulty[c]} :
             /\ hasVarDiff[c]
             /\ pendingDifficulty' = [pendingDifficulty EXCEPT ![c] = newDiff]
             /\ task' = [task EXCEPT ![t] = [@ EXCEPT !.pc = "has", !.difficulty = newDiff]]
             /\ crossed' = IF \E u \in Tasks : Retargeting(u) /\ Client(u) = c
                             THEN crossed \cup {c} ELSE crossed
     /\ UNCHANGED <<isAuthorized, isInitialWorkSent, hasVarDiff, difficulty, requests, outbox, lapsed>>
     /\ Handler

(* OnVarDiffUpdateAsync tests HasPendingDifficulty, ApplyPendingDifficulty *)
(* tests it again and throws if it is gone when its value is taken.        *)
ApplyPendingDifficulty(t) ==
  LET c == Client(t)
      isPending == pendingDifficulty[c] # None
  IN /\ \/ /\ At(t, "has") /\ UNCHANGED diffs
           /\ IF isPending THEN Goto(t, "apply") ELSE End(t)
        \/ /\ At(t, "apply") /\ UNCHANGED diffs
           /\ Goto(t, IF isPending THEN "value" ELSE "send")
        \/ /\ At(t, "value") /\ ~isPending /\ End(t)
           /\ UNCHANGED diffs
        \/ /\ At(t, "value") /\ isPending /\ Goto(t, "clear")
           /\ difficulty' = [difficulty EXCEPT ![c] = pendingDifficulty[c]]
           /\ UNCHANGED pendingDifficulty
        \/ /\ At(t, "clear") /\ Goto(t, "send")
           /\ pendingDifficulty' = [pendingDifficulty EXCEPT ![c] = None]
           /\ UNCHANGED difficulty
     /\ UNCHANGED <<isAuthorized, isInitialWorkSent, hasVarDiff, requests, outbox, history>>
     /\ Handler

OnRequest(t) ==
  \/ StaticDiff(t) \/ EnsureInitialWorkSent(t)
  \/ ReadJobParams(t) \/ SendJob(t) \/ SendTarget(t)
  \/ UpdateVarDiff(t) \/ ApplyPendingDifficulty(t)

Next ==
  \/ UpdateJob \/ OnNewJobAsync
  \/ \E c \in Clients :
       \/ OnClientConnected(c) \/ DisconnectClient(c) \/ OnSubscribe(c)
       \/ \E t \in Tasks : OnSubmit(t, c) \/ \E valid \in BOOLEAN : OnAuthorize(t, c, valid)
  \/ \E t \in Tasks : OnRequest(t)

Spec == Init /\ [][Next]_vars

(* Concat and the thread pool: the broadcast goes on, tasks run. *)
FairSpec ==
  /\ Spec
  /\ WF_vars(OnNewJobAsync)
  /\ \A t \in Tasks : WF_vars(OnRequest(t))

-----------------------------------------------------------------------------
Sending(c) ==  \* a task that will send the job of currentJobParams
  \E t \in Tasks :
    /\ task[t].pc \in {"clear", "send"} \/ (At(t, "job") /\ task[t].job = currentJobParams)
    /\ Client(t) = c

Visiting(c) == casting = "snapshot" \/ c \in remaining \/ current = c

(***************************************************************************)
(* No client misses a job.  Once a client got its initial work, the job    *)
(* that was broadcast last was sent to it or is about to be, although its  *)
(* initial work may be decided while a broadcast runs, and although the    *)
(* broadcast leaves a client out when its pending difficulty disappears.   *)
(***************************************************************************)
NoJobMissed ==
  \A c \in clients \ lapsed :
    isInitialWorkSent[c] => currentJobParams \in jobsSent[c] \/ Visiting(c) \/ Sending(c)

Telling(c, d) ==
  \/ \E t \in Tasks : task[t].pc \in {"clear", "send", "job", "target"}
                     /\ Client(t) = c /\ task[t].difficulty = d
  \/ current = c /\ casting \in {"clear", "difficulty"}
  \/ current = c /\ casting \in {"job", "target"} /\ target = d

(***************************************************************************)
(* A client was told, or is about to be told, of the difficulty its shares *)
(* are tested with, unless two requests change it at once.                 *)
(***************************************************************************)
DifficultyTold ==
  \A c \in clients \ crossed :
    isInitialWorkSent[c] => difficulty[c] \in targetsSent[c] \/ Telling(c, difficulty[c])

(***************************************************************************)
(* Every job reaches every client: a client in service is sent each        *)
(* announced job or a newer one, unless it leaves or loses its             *)
(* authorization.                                                          *)
(***************************************************************************)
JobsArrive ==
  \A c \in Clients, j \in 1 .. MaxJob :
    currentJob = j /\ j \notin silent /\ InService(c) /\ c \in clients
      ~> (\E k \in jobsSent[c] : k >= j) \/ c \notin clients \/ c \in lapsed

=============================================================================
