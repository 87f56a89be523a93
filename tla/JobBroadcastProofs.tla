------------------------- MODULE JobBroadcastProofs -------------------------
(***************************************************************************)
(* Theorems about JobBroadcast, for every number of connections, jobs,     *)
(* difficulties and requests handled at the same time.                     *)
(***************************************************************************)
EXTENDS JobBroadcast, TLAPS

(***************************************************************************)
(* Types: while it visits a client, the broadcast knows which.             *)
(***************************************************************************)
CurrentKnown ==
  casting \in {"value", "clear", "difficulty", "job", "target"} => current \in Clients

TypeInv == TypeOK /\ CurrentKnown

(***************************************************************************)
(* RequestOf: a running task holds a request.                              *)
(***************************************************************************)
LEMMA RequestOf ==
  ASSUME TypeOK, NEW t \in Tasks, task[t].pc # "free"
  PROVE  task[t] \in Request /\ Client(t) \in Clients
BY DEF TypeOK, Free, Request, Client

(***************************************************************************)
(* Moves: where a step of one task can leave the tasks.                    *)
(***************************************************************************)
LEMMA GotoTyped ==
  ASSUME TypeOK, NEW t \in Tasks, task[t].pc # "free", NEW pc, Goto(t, pc),
         pc \in {"authorized", "initial", "vardiff", "has", "apply", "value", "clear",
                 "send", "job", "target"}
  PROVE  task' \in [Tasks -> Request \cup {Free}]
<1>1. task[t] \in Request
  BY RequestOf
<1>2. [task[t] EXCEPT !.pc = pc] \in Request
  BY <1>1 DEF Request
<1> QED
  BY <1>2 DEF TypeOK, Goto

LEMMA ThenTyped ==
  ASSUME TypeOK, NEW t \in Tasks, task[t].pc # "free", Then(t)
  PROVE  task' \in [Tasks -> Request \cup {Free}]
<1>1. task[t] \in Request
  BY RequestOf
<1>2. [task[t] EXCEPT !.pc = "vardiff", !.then = "done", !.difficulty = PortDifficulty] \in Request
  BY <1>1, BroadcastAssumption DEF Request
<1> QED
  BY <1>2 DEF TypeOK, Then, End

LEMMA NotifyTyped ==
  ASSUME NEW S, NEW sentSoFar \in [Clients -> SUBSET S], NEW c \in Clients, NEW message \in S
  PROVE  Notify(sentSoFar, c, message) \in [Clients -> SUBSET S]
BY DEF Notify

(***************************************************************************)
(* TypeInit, TypeStep: TypeInv is inductive.                               *)
(***************************************************************************)
LEMMA TypeInit == Init => TypeInv
BY BroadcastAssumption DEF Init, TypeInv, TypeOK, CurrentKnown, Jobs, Free

LEMMA TypeStep == TypeInv /\ [Next]_vars => TypeInv'
<1> SUFFICES ASSUME TypeInv, [Next]_vars PROVE TypeInv'
  OBVIOUS
<1> USE BroadcastAssumption
<1> USE DEF TypeInv, CurrentKnown, manager, broadcast, login, diffs, outbox, history, Caster, Handler, Casting
<1>1. CASE UpdateJob
  <2>1. currentJob' \in Jobs \ {0}
    BY <1>1 DEF UpdateJob, TypeOK, Jobs
  <2>2. announced' \in Seq(Jobs \ {0})
    <3>1. \A s \in Seq(Jobs \ {0}), j \in Jobs \ {0} : Append(s, j) \in Seq(Jobs \ {0})
      OBVIOUS
    <3>2. announced' = Append(announced, currentJob') \/ announced' = announced
      BY <1>1 DEF UpdateJob
    <3>3. announced \in Seq(Jobs \ {0})
      BY DEF TypeOK
    <3> HIDE DEF TypeInv, CurrentKnown
    <3> QED
      BY <2>1, <3>1, <3>2, <3>3
  <2>3. currentJob' \in Jobs /\ silent' \subseteq Jobs
    BY <1>1, <2>1 DEF UpdateJob, TypeOK
  <2> QED
    BY <1>1, <2>2, <2>3 DEF UpdateJob, TypeOK
<1>2. CASE OnNewJob
  <2>1. Head(announced) \in Jobs \ {0} /\ Tail(announced) \in Seq(Jobs \ {0})
    BY <1>2 DEF OnNewJob, TypeOK
  <2> QED
    BY <1>2, <2>1 DEF OnNewJob, TypeOK
<1>3. CASE ForEachClient
  BY <1>3 DEF ForEachClient, TypeOK
<1>4. CASE EndBroadcast
  BY <1>4 DEF EndBroadcast, TypeOK
<1>5. ASSUME NEW c \in Clients, NextClient(c) PROVE TypeInv'
  BY <1>5 DEF NextClient, Skip, Boot, Visit, TypeOK
<1>6. CASE CastValue
  BY <1>6 DEF CastValue, TypeOK
<1>7. CASE CastClear
  BY <1>7 DEF CastClear, TypeOK
<1>8. CASE CastDifficulty
  BY <1>8 DEF CastDifficulty, TypeOK
<1>9. CASE CastJob
  <2>1. jobsSent' \in [Clients -> SUBSET Jobs]
    BY <1>9, NotifyTyped DEF CastJob, TypeOK
  <2> QED
    BY <1>9, <2>1 DEF CastJob, TypeOK
<1>10. CASE CastTarget
  <2>1. targetsSent' \in [Clients -> SUBSET Difficulties]
    BY <1>10, NotifyTyped DEF CastTarget, TypeOK
  <2> QED
    BY <1>10, <2>1 DEF CastTarget, TypeOK
<1>11. ASSUME NEW c \in Clients, OnClientConnected(c) PROVE TypeInv'
  BY <1>11 DEF OnClientConnected, TypeOK
<1>12. ASSUME NEW c \in Clients, DisconnectClient(c) PROVE TypeInv'
  BY <1>12 DEF DisconnectClient, TypeOK
<1>13. ASSUME NEW c \in Clients, OnSubscribe(c) PROVE TypeInv'
  BY <1>13 DEF OnSubscribe, TypeOK
<1>14. ASSUME NEW c \in Clients, NEW t \in Tasks, OnSubmit(t, c) PROVE TypeInv'
  BY <1>14 DEF OnSubmit, Receives, TypeOK, Request, Jobs
<1>15. ASSUME NEW c \in Clients, NEW t \in Tasks, NEW valid \in BOOLEAN, OnAuthorize(t, c, valid)
       PROVE TypeInv'
  BY <1>15 DEF OnAuthorize, Receives, TypeOK, Request, Jobs
<1>16. ASSUME NEW t \in Tasks, StaticDiff(t) PROVE TypeInv'
  <2>1. Client(t) \in Clients /\ task[t].pc # "free"
    BY <1>16, RequestOf DEF StaticDiff, At
  <2>2. task' \in [Tasks -> Request \cup {Free}]
    BY <1>16, <2>1, GotoTyped DEF StaticDiff
  <2>3. difficulty' \in [Clients -> Difficulties]
    BY <1>16, <2>1 DEF StaticDiff, TypeOK
  <2>4. hasVarDiff' \in [Clients -> BOOLEAN]
    BY <1>16, <2>1 DEF StaticDiff, TypeOK
  <2>5. crossed' \subseteq Clients
    BY <1>16, <2>1 DEF StaticDiff, TypeOK
  <2> QED
    BY <1>16, <2>2, <2>3, <2>4, <2>5 DEF StaticDiff, TypeOK
<1>17. ASSUME NEW t \in Tasks, EnsureInitialWorkSent(t) PROVE TypeInv'
  <2>1. Client(t) \in Clients /\ task[t] \in Request /\ task[t].pc # "free"
    BY <1>17, RequestOf DEF EnsureInitialWorkSent, At
  <2>2. [task[t] EXCEPT !.pc = "send", !.difficulty = difficulty[Client(t)]] \in Request
    BY <2>1 DEF TypeOK, Request
  <2>3. task' \in [Tasks -> Request \cup {Free}]
    BY <1>17, <2>1, <2>2, ThenTyped DEF EnsureInitialWorkSent, TypeOK
  <2> QED
    BY <1>17, <2>1, <2>3 DEF EnsureInitialWorkSent, TypeOK
<1>18. ASSUME NEW t \in Tasks, ReadJobParams(t) PROVE TypeInv'
  <2>1. task[t] \in Request
    BY <1>18, RequestOf DEF ReadJobParams, At
  <2>2. [task[t] EXCEPT !.pc = "job", !.job = currentJobParams] \in Request
    BY <2>1 DEF TypeOK, Request
  <2> QED
    BY <1>18, <2>2 DEF ReadJobParams, TypeOK
<1>19. ASSUME NEW t \in Tasks, SendJob(t) PROVE TypeInv'
  <2>1. task[t] \in Request /\ Client(t) \in Clients
    BY <1>19, RequestOf DEF SendJob, At
  <2>2. [task[t] EXCEPT !.pc = "target", !.job = 0] \in Request
    <3>1. 0 \in Jobs
      BY DEF Jobs
    <3> QED
      BY <2>1, <3>1 DEF Request
  <2>3. jobsSent' \in [Clients -> SUBSET Jobs]
    BY <1>19, <2>1, NotifyTyped DEF SendJob, TypeOK, Request
  <2> QED
    BY <1>19, <2>2, <2>3 DEF SendJob, TypeOK
<1>20. ASSUME NEW t \in Tasks, SendTarget(t) PROVE TypeInv'
  <2>1. task[t] \in Request /\ Client(t) \in Clients /\ task[t].pc # "free"
    BY <1>20, RequestOf DEF SendTarget, At
  <2>2. task' \in [Tasks -> Request \cup {Free}]
    BY <1>20, <2>1, ThenTyped DEF SendTarget
  <2>3. targetsSent' \in [Clients -> SUBSET Difficulties]
    BY <1>20, <2>1, NotifyTyped DEF SendTarget, TypeOK, Request
  <2> QED
    BY <1>20, <2>2, <2>3 DEF SendTarget, TypeOK
<1>21. ASSUME NEW t \in Tasks, UpdateVarDiff(t) PROVE TypeInv'
  <2>1. task[t] \in Request /\ Client(t) \in Clients
    BY <1>21, RequestOf DEF UpdateVarDiff, At
  <2>2. CASE End(t) /\ UNCHANGED <<pendingDifficulty, crossed>>
    BY <1>21, <2>2 DEF UpdateVarDiff, End, TypeOK
  <2>3. ASSUME NEW newDiff \in Difficulties,
               pendingDifficulty' = [pendingDifficulty EXCEPT ![Client(t)] = newDiff],
               task' = [task EXCEPT ![t] = [@ EXCEPT !.pc = "has", !.difficulty = newDiff]],
               crossed' \in {crossed, crossed \cup {Client(t)}}
        PROVE  TypeInv'
    <3>1. [task[t] EXCEPT !.pc = "has", !.difficulty = newDiff] \in Request
      BY <2>1 DEF Request
    <3> QED
      BY <1>21, <2>1, <2>3, <3>1 DEF UpdateVarDiff, TypeOK
  <2> QED
    BY <1>21, <2>2, <2>3 DEF UpdateVarDiff
<1>22. ASSUME NEW t \in Tasks, ApplyPendingDifficulty(t) PROVE TypeInv'
  <2>1. Client(t) \in Clients /\ task[t].pc # "free"
    BY <1>22, RequestOf DEF ApplyPendingDifficulty, At
  <2>2. task' \in [Tasks -> Request \cup {Free}]
    <3>1. CASE End(t)
      BY <3>1 DEF End, TypeOK
    <3>2. ASSUME NEW pc \in {"apply", "value", "send", "clear"}, Goto(t, pc)
          PROVE  task' \in [Tasks -> Request \cup {Free}]
      BY <2>1, <3>2, GotoTyped
    <3> QED
      BY <1>22, <3>1, <3>2 DEF ApplyPendingDifficulty
  <2>3. difficulty' \in [Clients -> Difficulties]
    BY <1>22, <2>1 DEF ApplyPendingDifficulty, TypeOK
  <2>4. pendingDifficulty' \in [Clients -> Difficulties \cup {None}]
    BY <1>22, <2>1 DEF ApplyPendingDifficulty, TypeOK
  <2> QED
    BY <1>22, <2>2, <2>3, <2>4 DEF ApplyPendingDifficulty, TypeOK
<1>23. CASE UNCHANGED vars
  BY <1>23 DEF vars, TypeOK
<1> QED
  BY <1>1, <1>2, <1>3, <1>4, <1>5, <1>6, <1>7, <1>8, <1>9, <1>10, <1>11, <1>12, <1>13, <1>14,
     <1>15, <1>16, <1>17, <1>18, <1>19, <1>20, <1>21, <1>22, <1>23
  DEF Next, OnNewJobAsync, OnRequest

(***************************************************************************)
(* TypeCorrect: the state of broadcasts and requests is well typed.        *)
(***************************************************************************)
THEOREM TypeCorrect == Spec => []TypeOK
<1>1. TypeInv => TypeOK
  BY DEF TypeInv
<1> QED
  BY <1>1, TypeInit, TypeStep, PTL DEF Spec

-----------------------------------------------------------------------------
(***************************************************************************)
(* What NoJobMissed rests on.  OnlyAccepted: there is no work and no task  *)
(* for a client that never connected.  Served: a client that got its       *)
(* initial work is one the broadcast visits.  AtRest: between two clients  *)
(* the broadcast holds none, and it holds only a client that got its       *)
(* initial work.  ThrowSafe: when the pending difficulty the   *)
(* broadcast saw is gone, the task that took it sends the job.  JobSent:   *)
(* the target follows the job.                                             *)
(***************************************************************************)
Has(c) == currentJobParams \in jobsSent[c] \/ Sending(c)

OnlyAccepted ==
  /\ \A c \in Clients : isInitialWorkSent[c] => c \in accepted
  /\ \A t \in Tasks : ~At(t, "free") => Client(t) \in accepted
Served ==
  \A c \in Clients \ lapsed : isInitialWorkSent[c] => isSubscribed[c] /\ isAuthorized[c]
AtRest ==
  /\ casting \in {"idle", "snapshot", "next"} => current = None
  /\ current # None => current \in Clients /\ isInitialWorkSent[current]
ThrowSafe ==
  casting = "value" /\ current \in clients /\ pendingDifficulty[current] = None => Has(current)
JobSent ==
  casting = "target" /\ current \in clients => currentJobParams \in jobsSent[current]

JobInv == TypeInv /\ OnlyAccepted /\ Served /\ AtRest /\ ThrowSafe /\ JobSent /\ NoJobMissed

LEMMA NotifyHolds ==
  ASSUME NEW S, NEW sentSoFar \in [Clients -> SUBSET S], NEW c \in Clients, NEW message,
         NEW k \in Clients
  PROVE  /\ sentSoFar[k] \subseteq Notify(sentSoFar, c, message)[k]
         /\ c \in clients => message \in Notify(sentSoFar, c, message)[c]
BY DEF Notify

(***************************************************************************)
(* AcceptedStep, ServedStep: the parts about the login.                    *)
(***************************************************************************)
LEMMA ThenClient ==
  ASSUME TypeOK, NEW t \in Tasks, task[t].pc # "free", Then(t), NEW u \in Tasks
  PROVE  (task'[u].pc # "free" => task[u].pc # "free" /\ task'[u].client = task[u].client)
<1>1. task[t] \in Request
  BY RequestOf
<1>2. CASE End(t)
  BY <1>2 DEF End, Free, TypeOK
<1>3. ASSUME NEW r, task' = [task EXCEPT ![t] = r], r.client = task[t].client
      PROVE  (task'[u].pc # "free" => task[u].pc # "free" /\ task'[u].client = task[u].client)
  BY <1>3 DEF TypeOK
<1>4. [task[t] EXCEPT !.pc = "vardiff", !.then = "done", !.difficulty = PortDifficulty].client
        = task[t].client
  BY <1>1 DEF Request
<1> QED
  BY <1>2, <1>3, <1>4 DEF Then

LEMMA TaskClient ==
  ASSUME TypeOK, NEW t \in Tasks, OnRequest(t), NEW u \in Tasks
  PROVE  (task'[u].pc # "free" => task[u].pc # "free" /\ task'[u].client = task[u].client)
<1>1. task[t].pc # "free" /\ task[t] \in Request
  BY RequestOf
  DEF OnRequest, StaticDiff, EnsureInitialWorkSent, ReadJobParams, SendJob, SendTarget,
      UpdateVarDiff, ApplyPendingDifficulty, At
<1>2. CASE Then(t)
  BY <1>1, <1>2, ThenClient
<1>3. CASE End(t)
  BY <1>1, <1>3 DEF End, Free, TypeOK
<1>4. ASSUME NEW r, task' = [task EXCEPT ![t] = r], r.client = task[t].client
      PROVE  (task'[u].pc # "free" => task[u].pc # "free" /\ task'[u].client = task[u].client)
  BY <1>1, <1>4 DEF TypeOK
<1>5. ASSUME NEW pc, Goto(t, pc)
      PROVE  (task'[u].pc # "free" => task[u].pc # "free" /\ task'[u].client = task[u].client)
  BY <1>1, <1>5 DEF TypeOK, Goto, Request
<1>6. CASE StaticDiff(t)
  BY <1>5, <1>6 DEF StaticDiff
<1>7. CASE EnsureInitialWorkSent(t)
  <2>1. ASSUME NEW d PROVE [task[t] EXCEPT !.pc = "send", !.difficulty = d].client = task[t].client
    BY <1>1 DEF Request
  <2> QED
    BY <1>2, <1>4, <1>7, <2>1 DEF EnsureInitialWorkSent
<1>8. CASE ReadJobParams(t)
  BY <1>1, <1>8 DEF ReadJobParams, TypeOK, Request
<1>9. CASE SendJob(t)
  BY <1>1, <1>9 DEF SendJob, TypeOK, Request
<1>10. CASE SendTarget(t)
  BY <1>2, <1>10 DEF SendTarget
<1>11. CASE UpdateVarDiff(t)
  <2>1. ASSUME NEW d PROVE [task[t] EXCEPT !.pc = "has", !.difficulty = d].client = task[t].client
    BY <1>1 DEF Request
  <2> QED
    BY <1>3, <1>4, <1>11, <2>1 DEF UpdateVarDiff
<1>12. CASE ApplyPendingDifficulty(t)
  BY <1>3, <1>5, <1>12 DEF ApplyPendingDifficulty
<1> QED
  BY <1>6, <1>7, <1>8, <1>9, <1>10, <1>11, <1>12 DEF OnRequest

LEMMA AcceptedStep == TypeInv /\ OnlyAccepted /\ [Next]_vars => OnlyAccepted'
<1> SUFFICES ASSUME TypeInv, OnlyAccepted, [Next]_vars PROVE OnlyAccepted'
  OBVIOUS
<1> USE DEF OnlyAccepted, At, Client, TypeInv, login
<1>1. CASE UpdateJob
  BY <1>1 DEF UpdateJob
<1>2. CASE OnNewJobAsync
  BY <1>2
  DEF OnNewJobAsync, OnNewJob, ForEachClient, EndBroadcast, NextClient, CastValue, CastClear,
      CastDifficulty, CastJob, CastTarget, Caster
<1>3. ASSUME NEW c \in Clients, OnClientConnected(c) \/ DisconnectClient(c) \/ OnSubscribe(c)
      PROVE  OnlyAccepted'
  BY <1>3 DEF OnClientConnected, DisconnectClient, OnSubscribe
<1>4. ASSUME NEW c \in Clients, NEW t \in Tasks,
             OnSubmit(t, c) \/ \E valid \in BOOLEAN : OnAuthorize(t, c, valid)
      PROVE  OnlyAccepted'
  BY <1>4 DEF OnSubmit, OnAuthorize, Receives, Handler, TypeOK
<1>5. ASSUME NEW t \in Tasks, OnRequest(t) PROVE OnlyAccepted'
  <2>1. UNCHANGED accepted
    BY <1>5
    DEF OnRequest, StaticDiff, EnsureInitialWorkSent, ReadJobParams, SendJob, SendTarget,
        UpdateVarDiff, ApplyPendingDifficulty, Handler
  <2>2. ASSUME NEW u \in Tasks PROVE (~At(u, "free") => Client(u) \in accepted)'
    BY <1>5, <2>1, <2>2, TaskClient
  <2>3. ASSUME NEW c \in Clients, isInitialWorkSent'[c] PROVE c \in accepted
    <3>1. CASE EnsureInitialWorkSent(t)
      BY <2>3, <3>1 DEF EnsureInitialWorkSent, TypeOK
    <3>2. CASE ~EnsureInitialWorkSent(t)
      BY <1>5, <2>3, <3>2
      DEF OnRequest, StaticDiff, ReadJobParams, SendJob, SendTarget, UpdateVarDiff,
          ApplyPendingDifficulty
    <3> QED
      BY <3>1, <3>2
  <2> QED
    BY <2>1, <2>2, <2>3
<1>6. CASE UNCHANGED vars
  BY <1>6 DEF vars
<1> QED
  BY <1>1, <1>2, <1>3, <1>4, <1>5, <1>6 DEF Next

LEMMA ServedStep == TypeInv /\ Served /\ [Next]_vars => Served'
<1> SUFFICES ASSUME TypeInv, Served, [Next]_vars PROVE Served'
  OBVIOUS
<1> USE DEF Served, Client, TypeInv, login, history
<1>1. CASE UpdateJob
  BY <1>1 DEF UpdateJob
<1>2. CASE OnNewJobAsync
  BY <1>2
  DEF OnNewJobAsync, OnNewJob, ForEachClient, EndBroadcast, NextClient, CastValue, CastClear,
      CastDifficulty, CastJob, CastTarget, Caster
<1>3. ASSUME NEW c \in Clients, OnClientConnected(c) \/ DisconnectClient(c) \/ OnSubscribe(c)
      PROVE  Served'
  BY <1>3 DEF OnClientConnected, DisconnectClient, OnSubscribe, TypeOK
<1>4. ASSUME NEW c \in Clients, NEW t \in Tasks, OnSubmit(t, c) PROVE Served'
  BY <1>4 DEF OnSubmit, Handler
<1>5. ASSUME NEW c \in Clients, NEW t \in Tasks, NEW valid \in BOOLEAN, OnAuthorize(t, c, valid)
      PROVE  Served'
  BY <1>5 DEF OnAuthorize, Handler, TypeOK
<1>6. ASSUME NEW t \in Tasks, OnRequest(t) PROVE Served'
  <2>1. UNCHANGED <<lapsed, isSubscribed, isAuthorized>>
    BY <1>6
    DEF OnRequest, StaticDiff, EnsureInitialWorkSent, ReadJobParams, SendJob, SendTarget,
        UpdateVarDiff, ApplyPendingDifficulty, Handler
  <2>2. CASE EnsureInitialWorkSent(t)
    BY <2>1, <2>2 DEF EnsureInitialWorkSent, TypeOK
  <2>3. CASE ~EnsureInitialWorkSent(t)
    BY <1>6, <2>1, <2>3
    DEF OnRequest, StaticDiff, ReadJobParams, SendJob, SendTarget, UpdateVarDiff,
        ApplyPendingDifficulty
  <2> QED
    BY <2>2, <2>3
<1>7. CASE UNCHANGED vars
  BY <1>7 DEF vars
<1> QED
  BY <1>1, <1>2, <1>3, <1>4, <1>5, <1>6, <1>7 DEF Next

(***************************************************************************)
(* JobsSentGrow: what was sent stays sent.                                 *)
(***************************************************************************)
LEMMA JobsSentGrow ==
  ASSUME TypeInv, [Next]_vars, NEW c \in Clients
  PROVE  jobsSent[c] \subseteq jobsSent'[c]
<1> USE DEF TypeInv
<1>1. CASE CastJob
  <2>1. CASE current \in Clients
    BY <1>1, <2>1, NotifyHolds DEF CastJob, TypeOK
  <2>2. CASE current \notin Clients
    BY <1>1, <2>2 DEF CastJob, TypeOK, Notify
  <2> QED
    BY <2>1, <2>2
<1>2. ASSUME NEW t \in Tasks, SendJob(t) PROVE jobsSent[c] \subseteq jobsSent'[c]
  <2>1. Client(t) \in Clients
    BY <1>2, RequestOf DEF SendJob, At
  <2> QED
    BY <1>2, <2>1, NotifyHolds DEF SendJob, TypeOK
<1>3. ASSUME ~CastJob, \A t \in Tasks : ~SendJob(t) PROVE jobsSent' = jobsSent
  BY <1>3
  DEF Next, vars, outbox, UpdateJob, OnNewJobAsync, OnNewJob, ForEachClient, EndBroadcast,
      NextClient, CastValue, CastClear, CastDifficulty, CastTarget, OnClientConnected, DisconnectClient,
      OnSubscribe, OnSubmit, OnAuthorize, OnRequest, StaticDiff, EnsureInitialWorkSent,
      ReadJobParams, SendTarget, UpdateVarDiff, ApplyPendingDifficulty
<1> QED
  BY <1>1, <1>2, <1>3

(***************************************************************************)
(* HasKept: a client that has the job of currentJobParams, or a task that  *)
(* will send it, keeps it until that field changes.                        *)
(***************************************************************************)
LEMMA HasKept ==
  ASSUME TypeInv, [Next]_vars, ~OnNewJob, NEW c \in Clients, c \in clients, Has(c)
  PROVE  Has(c)'
<1> USE DEF TypeInv
<1>1. currentJobParams' = currentJobParams
  BY DEF Next, vars, broadcast, UpdateJob, OnNewJobAsync, ForEachClient, EndBroadcast, NextClient,
     CastValue, CastClear, CastDifficulty, CastJob, CastTarget, OnClientConnected,
     DisconnectClient, OnSubscribe, OnSubmit, OnAuthorize, OnRequest, StaticDiff,
     EnsureInitialWorkSent, ReadJobParams, SendJob, SendTarget, UpdateVarDiff,
     ApplyPendingDifficulty, Handler
<1>2. jobsSent[c] \subseteq jobsSent'[c]
  BY JobsSentGrow
<1>3. CASE currentJobParams \in jobsSent[c]
  BY <1>1, <1>2, <1>3 DEF Has
<1>4. CASE Sending(c)
  <2> DEFINE Holds(u) == /\ task[u].pc \in {"clear", "send"}
                            \/ (task[u].pc = "job" /\ task[u].job = currentJobParams)
                         /\ task[u].client = c
  <2>1. PICK u \in Tasks : Holds(u)
    BY <1>4 DEF Sending, At, Client
  <2>2. task[u] \in Request
    BY <2>1, RequestOf
  <2>3. ASSUME task'[u] = task[u] PROVE Has(c)'
    BY <1>1, <2>1, <2>3 DEF Has, Sending, At, Client
  <2>4. ASSUME NEW t \in Tasks, OnRequest(t), t # u PROVE task'[u] = task[u]
    BY <2>4
    DEF OnRequest, StaticDiff, EnsureInitialWorkSent, ReadJobParams, SendJob, SendTarget,
        UpdateVarDiff, ApplyPendingDifficulty, Goto, End, Then, TypeOK
  <2>5. ASSUME OnRequest(u) PROVE Has(c)'
    <3>1. CASE ApplyPendingDifficulty(u)
      <4>1. task' = [task EXCEPT ![u].pc = "send"]
        BY <2>1, <3>1 DEF ApplyPendingDifficulty, At, Goto
      <4>2. task'[u].pc = "send" /\ task'[u].client = c
        BY <2>1, <2>2, <4>1 DEF TypeOK, Request
      <4> QED
        BY <4>2 DEF Has, Sending, Client
    <3>2. CASE ReadJobParams(u)
      <4>1. /\ task'[u] = [task[u] EXCEPT !.pc = "job", !.job = currentJobParams]
        BY <3>2 DEF ReadJobParams, TypeOK
      <4>2. task'[u].pc = "job" /\ task'[u].client = c /\ task'[u].job = currentJobParams
        BY <2>1, <2>2, <4>1 DEF Request
      <4> QED
        BY <1>1, <4>2 DEF Has, Sending, Client, At
    <3>3. CASE SendJob(u)
      <4>1. task[u].job = currentJobParams /\ task[u].client = c
        BY <2>1, <3>3 DEF SendJob, At
      <4>2. jobsSent' = Notify(jobsSent, c, currentJobParams)
        BY <3>3, <4>1 DEF SendJob, Client
      <4>3. currentJobParams \in jobsSent'[c]
        BY <4>2, NotifyHolds DEF TypeOK
      <4> QED
        BY <1>1, <4>3 DEF Has
    <3> QED
      BY <2>1, <2>5, <3>1, <3>2, <3>3
      DEF OnRequest, StaticDiff, EnsureInitialWorkSent, SendTarget, UpdateVarDiff, At
  <2>6. ASSUME \A t \in Tasks : ~OnRequest(t) PROVE task'[u] = task[u]
    <3>1. task[u] # Free
      BY <2>1 DEF Free
    <3> QED
      BY <2>6, <3>1
      DEF Next, vars, UpdateJob, OnNewJobAsync, ForEachClient, EndBroadcast, NextClient,
          CastValue, CastClear, CastDifficulty, CastJob, CastTarget, Caster, OnClientConnected,
          DisconnectClient, OnSubscribe, OnSubmit, OnAuthorize, Receives, TypeOK
  <2> QED
    BY <2>3, <2>4, <2>5, <2>6
<1> QED
  BY <1>3, <1>4 DEF Has

(***************************************************************************)
(* JobStep: NoJobMissed and what it rests on, step by step.                *)
(***************************************************************************)
LEMMA AtRestStep == TypeInv /\ AtRest /\ [Next]_vars => AtRest'
<1> SUFFICES ASSUME TypeInv, AtRest, [Next]_vars PROVE AtRest'
  OBVIOUS
<1> USE DEF AtRest, TypeInv
<1>1. ASSUME NEW c \in Clients, isInitialWorkSent[c] PROVE isInitialWorkSent'[c]
  BY <1>1
  DEF Next, vars, login, UpdateJob, OnNewJobAsync, OnNewJob, ForEachClient, EndBroadcast,
      NextClient, CastValue, CastClear, CastDifficulty, CastJob, CastTarget, Caster,
      OnClientConnected, DisconnectClient, OnSubscribe, OnSubmit, OnAuthorize, OnRequest,
      StaticDiff, EnsureInitialWorkSent, ReadJobParams, SendJob, SendTarget, UpdateVarDiff,
      ApplyPendingDifficulty, TypeOK
<1>2. casting' \in {"idle", "snapshot", "next"} => current' = None
  BY DEF Next, vars, broadcast, UpdateJob, OnNewJobAsync, OnNewJob, ForEachClient, EndBroadcast,
     NextClient, Skip, Boot, Visit, CastValue, CastClear, CastDifficulty, CastJob, CastTarget,
     Casting, OnClientConnected, DisconnectClient, OnSubscribe, OnSubmit, OnAuthorize, OnRequest,
     StaticDiff, EnsureInitialWorkSent, ReadJobParams, SendJob, SendTarget, UpdateVarDiff,
     ApplyPendingDifficulty, Handler
<1>3. \/ current' \in {current, None}
      \/ current' \in Clients /\ isInitialWorkSent[current']
  BY DEF Next, vars, broadcast, UpdateJob, OnNewJobAsync, OnNewJob, ForEachClient, EndBroadcast,
     NextClient, Skip, Boot, Visit, InService, CastValue, CastClear, CastDifficulty, CastJob,
     CastTarget, Casting, OnClientConnected, DisconnectClient, OnSubscribe, OnSubmit,
     OnAuthorize, OnRequest, StaticDiff, EnsureInitialWorkSent, ReadJobParams, SendJob,
     SendTarget, UpdateVarDiff, ApplyPendingDifficulty, Handler
<1> QED
  BY <1>1, <1>2, <1>3

(***************************************************************************)
(* ComesOnce: a client the broadcast holds, or one that got its initial    *)
(* work, does not connect again.                                           *)
(***************************************************************************)
LEMMA ComesOnce ==
  ASSUME TypeInv, OnlyAccepted, [Next]_vars, NEW c \in clients', c \in Clients,
         isInitialWorkSent[c]
  PROVE  c \in clients
BY DEF OnlyAccepted, Next, vars, UpdateJob, OnNewJobAsync, OnNewJob, ForEachClient,
   EndBroadcast, NextClient, Skip, Boot, Visit, CastValue, CastClear, CastDifficulty, CastJob,
   CastTarget, OnClientConnected, DisconnectClient, OnSubscribe, OnSubmit, OnAuthorize,
   OnRequest, StaticDiff, EnsureInitialWorkSent, ReadJobParams, SendJob, SendTarget,
   UpdateVarDiff, ApplyPendingDifficulty, Handler

LEMMA JobSentStep == JobInv /\ [Next]_vars => JobSent'
<1> SUFFICES ASSUME JobInv, [Next]_vars, casting' = "target", current' \in clients'
             PROVE  (currentJobParams \in jobsSent[current])'
  BY DEF JobSent
<1> USE DEF JobInv
<1>1. CASE CastJob
  <2>1. current' = current /\ current \in Clients /\ clients' = clients
    BY <1>1 DEF CastJob, Casting, TypeInv, CurrentKnown
  <2> QED
    BY <1>1, <2>1, NotifyHolds DEF CastJob, TypeOK, TypeInv
<1>2. CASE ~CastJob
  <2>1. casting = "target" /\ current' = current /\ currentJobParams' = currentJobParams
    BY <1>2
    DEF Next, vars, broadcast, UpdateJob, OnNewJobAsync, OnNewJob, ForEachClient, EndBroadcast,
        NextClient, Skip, Boot, Visit, CastValue, CastClear, CastDifficulty, CastTarget, Casting,
        DisconnectClient, OnClientConnected, OnSubscribe, OnSubmit, OnAuthorize, OnRequest,
        StaticDiff, EnsureInitialWorkSent, ReadJobParams, SendJob, SendTarget, UpdateVarDiff,
        ApplyPendingDifficulty, Handler
  <2>2. current \in Clients /\ isInitialWorkSent[current]
    BY <2>1, BroadcastAssumption DEF AtRest, TypeInv, CurrentKnown
  <2>3. current \in clients
    BY <2>1, <2>2, ComesOnce
  <2> QED
    BY <2>1, <2>2, <2>3, JobsSentGrow DEF JobSent
<1> QED
  BY <1>1, <1>2

LEMMA ThrowSafeStep == JobInv /\ [Next]_vars => ThrowSafe'
<1> SUFFICES ASSUME JobInv, [Next]_vars, casting' = "value", current' \in clients',
                    pendingDifficulty'[current'] = None
             PROVE  Has(current)'
  BY DEF ThrowSafe, Has, Sending, At, Client
<1> USE DEF JobInv
<1>1. ASSUME NEW c \in Clients, NextClient(c) PROVE FALSE
  BY <1>1 DEF NextClient, Skip, Boot, Visit, diffs
<1>2. casting = "value" /\ current' = current /\ ~OnNewJob
  BY <1>1
  DEF Next, vars, broadcast, UpdateJob, OnNewJobAsync, OnNewJob, ForEachClient, EndBroadcast,
      CastValue, CastClear, CastDifficulty, CastJob, CastTarget, Casting, DisconnectClient,
      OnClientConnected, OnSubscribe, OnSubmit, OnAuthorize, OnRequest, StaticDiff,
      EnsureInitialWorkSent, ReadJobParams, SendJob, SendTarget, UpdateVarDiff,
      ApplyPendingDifficulty, Handler
<1>3. current \in Clients /\ isInitialWorkSent[current]
  BY <1>2, BroadcastAssumption DEF AtRest, TypeInv, CurrentKnown
<1>4. current \in clients
  BY <1>2, <1>3, ComesOnce
<1>5. CASE pendingDifficulty[current] = None
  BY <1>2, <1>3, <1>4, <1>5, HasKept DEF ThrowSafe, Has, Sending, At, Client
<1>6. CASE pendingDifficulty[current] # None
  <2>1. PICK t \in Tasks : ApplyPendingDifficulty(t) /\ At(t, "clear") /\ Client(t) = current
    <3>1. ASSUME NEW t \in Tasks, UpdateVarDiff(t) PROVE FALSE
      <4>1. Client(t) \in Clients
        BY <3>1, RequestOf DEF UpdateVarDiff, At, TypeInv
      <4> QED
        BY <1>2, <1>3, <1>6, <3>1, <4>1, BroadcastAssumption DEF UpdateVarDiff, TypeInv, TypeOK
    <3>2. PICK t \in Tasks : ApplyPendingDifficulty(t)
      BY <1>1, <1>2, <1>6, <3>1
      DEF Next, vars, diffs, UpdateJob, OnNewJobAsync, ForEachClient, EndBroadcast, CastValue,
          CastClear, CastDifficulty, CastJob, CastTarget, Casting, DisconnectClient,
          OnClientConnected, OnSubscribe, OnSubmit, OnAuthorize, OnRequest, StaticDiff,
          EnsureInitialWorkSent, ReadJobParams, SendJob, SendTarget
    <3>3. Client(t) \in Clients
      BY <3>2, RequestOf DEF ApplyPendingDifficulty, At, TypeInv
    <3> QED
      BY <1>2, <1>3, <1>6, <3>2, <3>3 DEF ApplyPendingDifficulty, diffs, TypeInv, TypeOK
  <2>2. Sending(current)
    BY <2>1 DEF Sending, At
  <2> QED
    BY <1>2, <1>3, <1>4, <2>2, HasKept DEF Has, Sending, At, Client
<1> QED
  BY <1>5, <1>6

LEMMA MissedStep == JobInv /\ [Next]_vars => NoJobMissed'
<1> SUFFICES ASSUME JobInv, [Next]_vars, NEW c \in clients' \ lapsed', isInitialWorkSent'[c],
                    ~Has(c)'
             PROVE  Visiting(c)'
  BY DEF NoJobMissed, Has, Visiting, Sending, At, Client
<1> USE DEF JobInv
<1>1. TypeInv' /\ OnlyAccepted'
  BY TypeStep, AcceptedStep
<1>2. c \in Clients
  BY <1>1 DEF TypeInv, TypeOK
<1>3. lapsed \subseteq lapsed'
  BY DEF Next, vars, history, UpdateJob, OnNewJobAsync, OnNewJob, ForEachClient, EndBroadcast,
     NextClient, CastValue, CastClear, CastDifficulty, CastJob, CastTarget, Caster,
     OnClientConnected, DisconnectClient, OnSubscribe, OnSubmit, OnAuthorize, OnRequest,
     StaticDiff, EnsureInitialWorkSent, ReadJobParams, SendJob, SendTarget, UpdateVarDiff,
     ApplyPendingDifficulty
<1>4. CASE OnNewJob
  BY <1>4 DEF OnNewJob, Casting, Visiting
<1>5. CASE ~OnNewJob /\ ~isInitialWorkSent[c]
  <2>1. PICK t \in Tasks : EnsureInitialWorkSent(t)
    BY <1>2, <1>5
    DEF Next, vars, login, UpdateJob, OnNewJobAsync, ForEachClient, EndBroadcast, NextClient,
        CastValue, CastClear, CastDifficulty, CastJob, CastTarget, Caster, OnClientConnected,
        DisconnectClient, OnSubscribe, OnSubmit, OnAuthorize, OnRequest, StaticDiff,
        ReadJobParams, SendJob, SendTarget, UpdateVarDiff, ApplyPendingDifficulty
  <2>2. Client(t) \in Clients /\ task[t] \in Request
    BY <2>1, RequestOf DEF EnsureInitialWorkSent, At, TypeInv
  <2>3. Client(t) = c /\ task' = [task EXCEPT ![t] = [@ EXCEPT !.pc = "send", !.difficulty = difficulty[c]]]
    BY <1>2, <1>5, <2>1, <2>2 DEF EnsureInitialWorkSent, TypeInv, TypeOK
  <2>4. [task[t] EXCEPT !.pc = "send", !.difficulty = difficulty[c]].pc = "send"
    BY <2>2 DEF Request
  <2>5. [task[t] EXCEPT !.pc = "send", !.difficulty = difficulty[c]].client = c
    BY <2>2, <2>3 DEF Request, Client
  <2>6. task'[t].pc = "send" /\ task'[t].client = c
    BY <2>3, <2>4, <2>5 DEF TypeInv, TypeOK
  <2> QED
    BY <2>6 DEF Has, Sending, Client
<1>6. CASE ~OnNewJob /\ isInitialWorkSent[c]
  <2>1. c \in clients /\ c \notin lapsed
    BY <1>2, <1>3, <1>6, ComesOnce
  <2>2. ~Has(c)
    BY <1>2, <1>6, <2>1, HasKept
  <2>3. Visiting(c)
    BY <1>6, <2>1, <2>2 DEF NoJobMissed, Has
  <2>4. isSubscribed[c] /\ isAuthorized[c]
    BY <1>2, <1>6, <2>1 DEF Served
  <2>5. CASE ForEachClient
    BY <2>1, <2>5 DEF ForEachClient, Visiting
  <2>6. ASSUME NEW k \in Clients, NextClient(k) PROVE Visiting(c)'
    <3>1. current = None /\ casting = "next"
      BY <2>6 DEF NextClient, AtRest
    <3>2. c \in remaining
      BY <1>2, <2>3, <3>1, BroadcastAssumption DEF Visiting
    <3> QED
      BY <1>6, <2>4, <2>6, <3>2 DEF NextClient, Skip, Boot, Visit, InService, Visiting
  <2>7. CASE CastValue
    <3>1. CASE current = c /\ pendingDifficulty[c] = None
      BY <2>1, <2>2, <2>7, <3>1 DEF CastValue, ThrowSafe
    <3> QED
      BY <2>3, <2>7, <3>1 DEF CastValue, Visiting
  <2>8. CASE CastTarget
    <3>1. current # c
      BY <2>1, <2>2, <2>8 DEF CastTarget, Casting, JobSent, Has
    <3> QED
      BY <2>3, <2>8, <3>1 DEF CastTarget, Casting, Visiting
  <2>9. CASE /\ ~ForEachClient /\ ~CastValue /\ ~CastTarget
             /\ \A k \in Clients : ~NextClient(k)
    <3>1. /\ remaining' = remaining /\ current' = current
          /\ casting = "snapshot" => casting' = "snapshot"
      BY <1>6, <2>9
      DEF Next, vars, broadcast, UpdateJob, OnNewJobAsync, EndBroadcast, CastClear,
          CastDifficulty, CastJob, Casting, DisconnectClient, OnClientConnected, OnSubscribe,
          OnSubmit, OnAuthorize, OnRequest, StaticDiff, EnsureInitialWorkSent, ReadJobParams,
          SendJob, SendTarget, UpdateVarDiff, ApplyPendingDifficulty, Handler
    <3> QED
      BY <2>3, <3>1 DEF Visiting
  <2> QED
    BY <2>5, <2>6, <2>7, <2>8, <2>9
<1> QED
  BY <1>4, <1>5, <1>6

(***************************************************************************)
(* JobsAreNotMissed: a client that got its initial work has the job that   *)
(* was broadcast last, or somebody is about to send it: no interleaving of *)
(* a broadcast with the requests of the client leaves it without.          *)
(***************************************************************************)
THEOREM JobsAreNotMissed == Spec => []NoJobMissed
<1>1. Init => JobInv
  BY TypeInit, BroadcastAssumption
  DEF Init, JobInv, OnlyAccepted, Served, AtRest, ThrowSafe, JobSent, NoJobMissed, At, Free
<1>2. JobInv /\ [Next]_vars => JobInv'
  BY TypeStep, AcceptedStep, ServedStep, AtRestStep, JobSentStep, ThrowSafeStep, MissedStep
  DEF JobInv
<1>3. JobInv => NoJobMissed
  BY DEF JobInv
<1> QED
  BY <1>1, <1>2, <1>3, PTL DEF Spec

-----------------------------------------------------------------------------
(***************************************************************************)
(* What DifficultyTold rests on.  OneRetarget: a client that is not in     *)
(* crossed has one retargeting task at most.  OwnPending: a pending        *)
(* difficulty is the one that task will tell.                              *)
(***************************************************************************)
Told(c) == difficulty[c] \in targetsSent[c] \/ Telling(c, difficulty[c])

OneRetarget ==
  \A t, u \in Tasks :
    Retargeting(t) /\ Retargeting(u) /\ Client(t) = Client(u) /\ Client(t) \notin crossed => t = u
OwnPending ==
  \A t \in Tasks :
    Retargeting(t) /\ Client(t) \notin crossed =>
      pendingDifficulty[Client(t)] \in {None, task[t].difficulty}

DiffInv == TypeInv /\ OnlyAccepted /\ OneRetarget /\ OwnPending /\ DifficultyTold

(***************************************************************************)
(* RetargetStep: when a task retargets after a step, it did so before, for *)
(* the same client and difficulty, or the step is its UpdateVarDiff.       *)
(***************************************************************************)
LEMMA RetargetStep ==
  ASSUME TypeInv, [Next]_vars, NEW t \in Tasks, Retargeting(t)', ~UpdateVarDiff(t)
  PROVE  /\ Retargeting(t) /\ task'[t].client = task[t].client
         /\ task'[t].difficulty = task[t].difficulty
<1> USE DEF TypeInv
<1>1. CASE task'[t] = task[t]
  BY <1>1 DEF Retargeting
<1>2. ASSUME NEW c \in Clients, NEW u \in Tasks,
             OnSubmit(u, c) \/ \E valid \in BOOLEAN : OnAuthorize(u, c, valid)
      PROVE  task'[t] = task[t]
  BY <1>2 DEF OnSubmit, OnAuthorize, Receives, Retargeting, TypeOK
<1>3. ASSUME NEW u \in Tasks, OnRequest(u), u # t PROVE task'[t] = task[t]
  BY <1>3
  DEF OnRequest, StaticDiff, EnsureInitialWorkSent, ReadJobParams, SendJob, SendTarget,
      UpdateVarDiff, ApplyPendingDifficulty, Goto, End, Then, TypeOK
<1>4. CASE OnRequest(t)
  <2>1. task[t] \in Request /\ task[t].pc # "free"
    BY <1>4, RequestOf
    DEF OnRequest, StaticDiff, EnsureInitialWorkSent, ReadJobParams, SendJob, SendTarget,
        UpdateVarDiff, ApplyPendingDifficulty, At
  <2>2. ~End(t)
    BY DEF End, Retargeting, Free, TypeOK
  <2>3. ASSUME NEW r, r.pc \notin {"has", "apply", "value", "clear"},
               task' = [task EXCEPT ![t] = r]
        PROVE  FALSE
    BY <2>3 DEF Retargeting, TypeOK
  <2>4. ~Then(t)
    <3>1. [task[t] EXCEPT !.pc = "vardiff", !.then = "done", !.difficulty = PortDifficulty].pc
            = "vardiff"
      BY <2>1 DEF Request
    <3> QED
      BY <2>2, <2>3, <3>1 DEF Then
  <2>5. ~EnsureInitialWorkSent(t)
    <3>1. ASSUME NEW d PROVE [task[t] EXCEPT !.pc = "send", !.difficulty = d].pc = "send"
      BY <2>1 DEF Request
    <3> QED
      BY <2>3, <2>4, <3>1 DEF EnsureInitialWorkSent
  <2>6. ~ReadJobParams(t) /\ ~SendJob(t)
    <3>1. ASSUME NEW j PROVE [task[t] EXCEPT !.pc = "job", !.job = j].pc = "job"
      BY <2>1 DEF Request
    <3>2. [task[t] EXCEPT !.pc = "target", !.job = 0].pc = "target"
      BY <2>1 DEF Request
    <3> QED
      BY <2>3, <3>1, <3>2 DEF ReadJobParams, SendJob
  <2>7. ~SendTarget(t) /\ ~StaticDiff(t)
    <3>1. [task[t] EXCEPT !.pc = "initial"].pc = "initial"
      BY <2>1 DEF Request
    <3> QED
      BY <2>3, <2>4, <3>1 DEF SendTarget, StaticDiff, Goto
  <2>8. PICK pc \in {"apply", "value", "clear", "send"} :
          /\ Goto(t, pc) /\ task[t].pc \in {"has", "apply", "value", "clear"}
    BY <1>4, <2>2, <2>5, <2>6, <2>7 DEF OnRequest, ApplyPendingDifficulty, At
  <2> QED
    BY <2>1, <2>8 DEF Goto, Request, Retargeting, TypeOK
<1>5. CASE /\ \A u \in Tasks : ~OnRequest(u)
           /\ \A c \in Clients, u \in Tasks :
                /\ ~OnSubmit(u, c) /\ \A valid \in BOOLEAN : ~OnAuthorize(u, c, valid)
  BY <1>1, <1>5
  DEF Next, vars, UpdateJob, OnNewJobAsync, OnNewJob, ForEachClient, EndBroadcast, NextClient,
      CastValue, CastClear, CastDifficulty, CastJob, CastTarget, Caster, OnClientConnected,
      DisconnectClient, OnSubscribe
<1> QED
  BY <1>1, <1>2, <1>3, <1>4, <1>5

LEMMA CrossedGrows == [Next]_vars => crossed \subseteq crossed'
BY DEF Next, vars, history, UpdateJob, OnNewJobAsync, OnNewJob, ForEachClient, EndBroadcast,
   NextClient, CastValue, CastClear, CastDifficulty, CastJob, CastTarget, Caster,
   OnClientConnected, DisconnectClient, OnSubscribe, OnSubmit, OnAuthorize, OnRequest,
   StaticDiff, EnsureInitialWorkSent, ReadJobParams, SendJob, SendTarget, UpdateVarDiff,
   ApplyPendingDifficulty

(***************************************************************************)
(* UpdateStep: what UpdateVarDiff leaves when it takes a difficulty.       *)
(***************************************************************************)
LEMMA UpdateStep ==
  ASSUME TypeInv, NEW t \in Tasks, UpdateVarDiff(t), Retargeting(t)'
  PROVE  /\ task'[t].client = Client(t) /\ Client(t) \in Clients
         /\ pendingDifficulty'[Client(t)] = task'[t].difficulty
         /\ \A u \in Tasks \ {t} : task'[u] = task[u]
         /\ (\E u \in Tasks : Retargeting(u) /\ Client(u) = Client(t)) => Client(t) \in crossed'
<1> USE DEF TypeInv
<1>1. task[t] \in Request /\ Client(t) \in Clients
  BY RequestOf DEF UpdateVarDiff, At
<1>2. ~End(t)
  BY DEF End, Retargeting, Free, TypeOK
<1>3. PICK newDiff \in Difficulties :
        /\ pendingDifficulty' = [pendingDifficulty EXCEPT ![Client(t)] = newDiff]
        /\ task' = [task EXCEPT ![t] = [@ EXCEPT !.pc = "has", !.difficulty = newDiff]]
        /\ crossed' = IF \E u \in Tasks : Retargeting(u) /\ Client(u) = Client(t)
                        THEN crossed \cup {Client(t)} ELSE crossed
  BY <1>2 DEF UpdateVarDiff
<1>4. /\ [task[t] EXCEPT !.pc = "has", !.difficulty = newDiff].client = Client(t)
      /\ [task[t] EXCEPT !.pc = "has", !.difficulty = newDiff].difficulty = newDiff
  BY <1>1 DEF Request, Client
<1>5. task'[t].client = Client(t) /\ task'[t].difficulty = newDiff
  BY <1>3, <1>4 DEF TypeOK
<1>6. \A u \in Tasks \ {t} : task'[u] = task[u]
  BY <1>3 DEF TypeOK
<1>7. pendingDifficulty'[Client(t)] = newDiff
  BY <1>1, <1>3 DEF TypeOK
<1> QED
  BY <1>1, <1>3, <1>5, <1>6, <1>7

LEMMA OneRetargetStep == TypeInv /\ OneRetarget /\ [Next]_vars => OneRetarget'
<1> SUFFICES ASSUME TypeInv, OneRetarget, [Next]_vars, NEW t \in Tasks, NEW u \in Tasks,
                    Retargeting(t)', Retargeting(u)', (Client(t) = Client(u))',
                    (Client(t) \notin crossed)', t # u
             PROVE  FALSE
  BY DEF OneRetarget
<1>1. ASSUME NEW v \in Tasks, NEW w \in Tasks, v # w, UpdateVarDiff(v), Retargeting(v)',
             Retargeting(w)', (Client(v) = Client(w))', (Client(v) \notin crossed)'
      PROVE  FALSE
  <2>1. task'[w] = task[w] /\ task'[v].client = Client(v)
    BY <1>1, UpdateStep
  <2>2. Retargeting(w) /\ Client(w) = Client(v)
    BY <1>1, <2>1 DEF Retargeting, Client
  <2> QED
    BY <1>1, <2>1, <2>2, UpdateStep DEF Client
<1>2. CASE UpdateVarDiff(t) \/ UpdateVarDiff(u)
  BY <1>1, <1>2
<1>3. CASE ~UpdateVarDiff(t) /\ ~UpdateVarDiff(u)
  BY <1>3, RetargetStep, CrossedGrows DEF OneRetarget, Client
<1> QED
  BY <1>2, <1>3

LEMMA OwnPendingStep == TypeInv /\ OneRetarget /\ OwnPending /\ [Next]_vars => OwnPending'
<1> SUFFICES ASSUME TypeInv, OneRetarget, OwnPending, [Next]_vars, NEW t \in Tasks,
                    Retargeting(t)', (Client(t) \notin crossed)'
             PROVE  (pendingDifficulty[Client(t)] \in {None, task[t].difficulty})'
  BY DEF OwnPending
<1>1. CASE UpdateVarDiff(t)
  BY <1>1, UpdateStep DEF Client
<1>2. CASE ~UpdateVarDiff(t)
  <2> DEFINE c == Client(t)
  <2>1. Retargeting(t) /\ task'[t].client = c /\ task'[t].difficulty = task[t].difficulty
    BY <1>2, RetargetStep DEF Client
  <2>2. c \notin crossed /\ c \notin crossed'
    BY <2>1, CrossedGrows DEF Client
  <2>3. pendingDifficulty[c] \in {None, task[t].difficulty} /\ c \in Clients
    BY <2>1, <2>2, RequestOf DEF OwnPending, Retargeting, TypeInv
  <2>4. pendingDifficulty'[c] \in {None, pendingDifficulty[c]}
    <3>1. CASE \E u \in Tasks : UpdateVarDiff(u)
      <4>1. PICK u \in Tasks : UpdateVarDiff(u)
        BY <3>1
      <4>2. Client(u) \in Clients
        BY <4>1, RequestOf DEF UpdateVarDiff, At, TypeInv
      <4>3. CASE Client(u) = c
        BY <2>1, <2>2, <4>1, <4>3 DEF UpdateVarDiff, TypeInv, TypeOK
      <4> QED
        BY <2>3, <4>1, <4>2, <4>3 DEF UpdateVarDiff, TypeInv, TypeOK
    <3>2. ASSUME NEW u \in Tasks, ApplyPendingDifficulty(u)
          PROVE  pendingDifficulty'[c] \in {None, pendingDifficulty[c]}
      BY <2>3, <3>2 DEF ApplyPendingDifficulty, diffs, TypeInv, TypeOK
    <3>3. CASE CastClear
      BY <2>3, <3>3 DEF CastClear, TypeInv, TypeOK
    <3>4. CASE /\ ~CastClear
               /\ \A u \in Tasks : ~UpdateVarDiff(u) /\ ~ApplyPendingDifficulty(u)
      BY <3>4
      DEF Next, vars, diffs, UpdateJob, OnNewJobAsync, OnNewJob, ForEachClient, EndBroadcast,
          NextClient, CastValue, CastDifficulty, CastJob, CastTarget, OnClientConnected,
          DisconnectClient, OnSubscribe, OnSubmit, OnAuthorize, OnRequest, StaticDiff,
          EnsureInitialWorkSent, ReadJobParams, SendJob, SendTarget
    <3> QED
      BY <3>1, <3>2, <3>3, <3>4
  <2> QED
    BY <2>1, <2>3, <2>4 DEF Client
<1> QED
  BY <1>1, <1>2

(***************************************************************************)
(* TargetsSentGrow, ToldKept: a client stays told, or about to be told, of *)
(* its difficulty while that difficulty stays.                             *)
(***************************************************************************)
LEMMA TargetsSentGrow ==
  ASSUME TypeInv, [Next]_vars, NEW c \in Clients
  PROVE  targetsSent[c] \subseteq targetsSent'[c]
<1> USE DEF TypeInv
<1>1. CASE CastTarget
  <2>1. CASE current \in Clients
    BY <1>1, <2>1, NotifyHolds DEF CastTarget, TypeOK
  <2>2. CASE current \notin Clients
    BY <1>1, <2>2 DEF CastTarget, TypeOK, Notify
  <2> QED
    BY <2>1, <2>2
<1>2. ASSUME NEW t \in Tasks, SendTarget(t) PROVE targetsSent[c] \subseteq targetsSent'[c]
  <2>1. Client(t) \in Clients
    BY <1>2, RequestOf DEF SendTarget, At
  <2> QED
    BY <1>2, <2>1, NotifyHolds DEF SendTarget, TypeOK
<1>3. ASSUME ~CastTarget, \A t \in Tasks : ~SendTarget(t) PROVE targetsSent' = targetsSent
  BY <1>3
  DEF Next, vars, outbox, UpdateJob, OnNewJobAsync, OnNewJob, ForEachClient, EndBroadcast,
      NextClient, CastValue, CastClear, CastDifficulty, CastJob, OnClientConnected,
      DisconnectClient, OnSubscribe, OnSubmit, OnAuthorize, OnRequest, StaticDiff,
      EnsureInitialWorkSent, ReadJobParams, SendJob, UpdateVarDiff, ApplyPendingDifficulty
<1> QED
  BY <1>1, <1>2, <1>3

LEMMA ToldKept ==
  ASSUME TypeInv, [Next]_vars, NEW c \in Clients, c \in clients, Told(c),
         difficulty'[c] = difficulty[c]
  PROVE  Told(c)'
<1> USE DEF TypeInv
<1> DEFINE d == difficulty[c]
<1>1. CASE d \in targetsSent[c]
  BY <1>1, TargetsSentGrow DEF Told
<1>2. CASE current = c /\ casting \in {"clear", "difficulty"}
  BY <1>2
  DEF Next, vars, broadcast, UpdateJob, OnNewJobAsync, OnNewJob, ForEachClient, EndBroadcast,
      NextClient, CastValue, CastClear, CastDifficulty, CastJob, CastTarget, Casting,
      DisconnectClient, OnClientConnected, OnSubscribe, OnSubmit, OnAuthorize, OnRequest,
      StaticDiff, EnsureInitialWorkSent, ReadJobParams, SendJob, SendTarget, UpdateVarDiff,
      ApplyPendingDifficulty, Handler, Told, Telling
<1>3. CASE current = c /\ casting \in {"job", "target"} /\ target = d
  <2>1. CASE CastTarget
    <3>1. targetsSent' = Notify(targetsSent, c, d)
      BY <1>3, <2>1 DEF CastTarget
    <3>2. d \in targetsSent'[c]
      BY <3>1, NotifyHolds DEF TypeOK
    <3> QED
      BY <3>2 DEF Told
  <2>2. CASE ~CastTarget
    BY <1>3, <2>2
    DEF Next, vars, broadcast, UpdateJob, OnNewJobAsync, OnNewJob, ForEachClient, EndBroadcast,
        NextClient, CastValue, CastClear, CastDifficulty, CastJob, Casting, DisconnectClient,
        OnClientConnected, OnSubscribe, OnSubmit, OnAuthorize, OnRequest, StaticDiff,
        EnsureInitialWorkSent, ReadJobParams, SendJob, SendTarget, UpdateVarDiff,
        ApplyPendingDifficulty, Handler, Told, Telling
  <2> QED
    BY <2>1, <2>2
<1>4. CASE \E t \in Tasks : /\ task[t].pc \in {"clear", "send", "job", "target"}
                            /\ Client(t) = c /\ task[t].difficulty = d
  <2>1. PICK u \in Tasks : /\ task[u].pc \in {"clear", "send", "job", "target"}
                           /\ task[u].client = c /\ task[u].difficulty = d
    BY <1>4 DEF Client
  <2>2. task[u] \in Request
    BY <2>1, RequestOf
  <2>3. ASSUME task'[u].pc \in {"clear", "send", "job", "target"}, task'[u].client = c,
               task'[u].difficulty = d
        PROVE  Told(c)'
    BY <2>3 DEF Told, Telling, Client
  <2>4. ASSUME NEW t \in Tasks, OnRequest(t), t # u PROVE task'[u] = task[u]
    BY <2>4
    DEF OnRequest, StaticDiff, EnsureInitialWorkSent, ReadJobParams, SendJob, SendTarget,
        UpdateVarDiff, ApplyPendingDifficulty, Goto, End, Then, TypeOK
  <2>5. ASSUME OnRequest(u) PROVE Told(c)'
    <3>1. CASE ApplyPendingDifficulty(u)
      <4>1. task' = [task EXCEPT ![u].pc = "send"]
        BY <2>1, <3>1 DEF ApplyPendingDifficulty, At, Goto
      <4>2. task'[u].pc = "send" /\ task'[u].client = c /\ task'[u].difficulty = d
        BY <2>1, <2>2, <4>1 DEF TypeOK, Request
      <4> QED
        BY <2>3, <4>2
    <3>2. CASE ReadJobParams(u)
      <4>1. task'[u] = [task[u] EXCEPT !.pc = "job", !.job = currentJobParams]
        BY <3>2 DEF ReadJobParams, TypeOK
      <4>2. task'[u].pc = "job" /\ task'[u].client = c /\ task'[u].difficulty = d
        BY <2>1, <2>2, <4>1 DEF Request
      <4> QED
        BY <2>3, <4>2
    <3>3. CASE SendJob(u)
      <4>1. task'[u] = [task[u] EXCEPT !.pc = "target", !.job = 0]
        BY <3>3 DEF SendJob, TypeOK
      <4>2. task'[u].pc = "target" /\ task'[u].client = c /\ task'[u].difficulty = d
        BY <2>1, <2>2, <4>1 DEF Request
      <4> QED
        BY <2>3, <4>2
    <3>4. CASE SendTarget(u)
      <4>1. targetsSent' = Notify(targetsSent, c, d)
        BY <2>1, <3>4 DEF SendTarget, Client
      <4>2. d \in targetsSent'[c]
        BY <4>1, NotifyHolds DEF TypeOK
      <4> QED
        BY <4>2 DEF Told
    <3> QED
      BY <2>1, <2>5, <3>1, <3>2, <3>3, <3>4
      DEF OnRequest, StaticDiff, EnsureInitialWorkSent, UpdateVarDiff, At
  <2>6. ASSUME \A t \in Tasks : ~OnRequest(t) PROVE task'[u] = task[u]
    <3>1. task[u] # Free
      BY <2>1 DEF Free
    <3> QED
      BY <2>6, <3>1
      DEF Next, vars, UpdateJob, OnNewJobAsync, OnNewJob, ForEachClient, EndBroadcast,
          NextClient, CastValue, CastClear, CastDifficulty, CastJob, CastTarget, Caster,
          OnClientConnected, DisconnectClient, OnSubscribe, OnSubmit, OnAuthorize, Receives,
          TypeOK
  <2> QED
    BY <2>1, <2>3, <2>4, <2>5, <2>6
<1> QED
  BY <1>1, <1>2, <1>3, <1>4 DEF Told, Telling

(***************************************************************************)
(* ToldStep: DifficultyTold, step by step.                                 *)
(***************************************************************************)
LEMMA ToldStep == DiffInv /\ [Next]_vars => DifficultyTold'
<1> SUFFICES ASSUME DiffInv, [Next]_vars, NEW c \in clients' \ crossed', isInitialWorkSent'[c]
             PROVE  Told(c)'
  BY DEF DifficultyTold, Told
<1> USE DEF DiffInv
<1>1. TypeInv'
  BY TypeStep
<1>2. c \in Clients /\ c \notin crossed
  BY <1>1, CrossedGrows DEF TypeInv, TypeOK
<1>3. CASE ~isInitialWorkSent[c]
  <2>1. PICK t \in Tasks : EnsureInitialWorkSent(t)
    BY <1>2, <1>3
    DEF Next, vars, login, UpdateJob, OnNewJobAsync, OnNewJob, ForEachClient, EndBroadcast,
        NextClient, CastValue, CastClear, CastDifficulty, CastJob, CastTarget, Caster,
        OnClientConnected, DisconnectClient, OnSubscribe, OnSubmit, OnAuthorize, OnRequest,
        StaticDiff, ReadJobParams, SendJob, SendTarget, UpdateVarDiff, ApplyPendingDifficulty
  <2>2. task[t] \in Request
    BY <2>1, RequestOf DEF EnsureInitialWorkSent, At, TypeInv
  <2> DEFINE r == [task[t] EXCEPT !.pc = "send", !.difficulty = difficulty[c]]
  <2>3. Client(t) = c /\ task' = [task EXCEPT ![t] = r] /\ difficulty' = difficulty
    BY <1>2, <1>3, <2>1 DEF EnsureInitialWorkSent, TypeInv, TypeOK, diffs
  <2>4. r.pc = "send" /\ r.client = c /\ r.difficulty = difficulty[c]
    BY <2>2, <2>3 DEF Request, Client
  <2>5. task'[t] = r
    BY <2>3 DEF TypeInv, TypeOK
  <2> QED
    BY <2>3, <2>4, <2>5 DEF Told, Telling, Client
<1>4. CASE isInitialWorkSent[c]
  <2>1. c \in clients /\ Told(c)
    BY <1>2, <1>4, ComesOnce DEF DifficultyTold, Told
  <2>2. CASE difficulty'[c] = difficulty[c]
    BY <1>2, <2>1, <2>2, ToldKept
  <2>3. CASE CastValue /\ current = c
    <3>1. CASE pendingDifficulty[current] = None
      BY <2>2, <2>3, <3>1 DEF CastValue
    <3> QED
      BY <2>3, <3>1 DEF CastValue, Told, Telling
  <2>4. ASSUME NEW t \in Tasks, StaticDiff(t), difficulty'[c] # difficulty[c] PROVE FALSE
    BY <1>2, <1>4, <2>4 DEF StaticDiff, TypeInv, TypeOK
  <2>5. ASSUME NEW t \in Tasks, ApplyPendingDifficulty(t), difficulty'[c] # difficulty[c]
        PROVE  Told(c)'
    <3>1. /\ At(t, "value") /\ pendingDifficulty[Client(t)] # None /\ Goto(t, "clear")
          /\ difficulty' = [difficulty EXCEPT ![Client(t)] = pendingDifficulty[Client(t)]]
      BY <2>5 DEF ApplyPendingDifficulty, diffs
    <3>2. Client(t) = c
      BY <1>2, <2>5, <3>1 DEF TypeInv, TypeOK
    <3>3. difficulty'[c] = task[t].difficulty
      BY <1>2, <3>1, <3>2 DEF OwnPending, Retargeting, At, TypeInv, TypeOK
    <3>4. task[t] \in Request
      BY <3>1, RequestOf DEF At, TypeInv
    <3>5. task'[t].pc = "clear" /\ task'[t].client = c /\ task'[t].difficulty = task[t].difficulty
      BY <3>1, <3>2, <3>4 DEF Goto, Client, Request, TypeInv, TypeOK
    <3> QED
      BY <3>3, <3>5 DEF Told, Telling, Client
  <2>6. CASE /\ ~(CastValue /\ current = c)
             /\ \A t \in Tasks : ~StaticDiff(t) /\ ~ApplyPendingDifficulty(t)
    <3>1. difficulty'[c] = difficulty[c]
      BY <1>2, <2>6
      DEF Next, vars, diffs, UpdateJob, OnNewJobAsync, OnNewJob, ForEachClient, EndBroadcast,
          NextClient, CastValue, CastClear, CastDifficulty, CastJob, CastTarget,
          OnClientConnected, DisconnectClient, OnSubscribe, OnSubmit, OnAuthorize, OnRequest,
          EnsureInitialWorkSent, ReadJobParams, SendJob, SendTarget, UpdateVarDiff, TypeInv,
          TypeOK
    <3> QED
      BY <2>2, <3>1
  <2> QED
    BY <2>2, <2>3, <2>4, <2>5, <2>6
<1> QED
  BY <1>3, <1>4

(***************************************************************************)
(* DifficultiesAreTold: a client in service is told of the difficulty its  *)
(* shares are tested with, unless two requests change it at the same time. *)
(***************************************************************************)
THEOREM DifficultiesAreTold == Spec => []DifficultyTold
<1>1. Init => DiffInv
  BY TypeInit, BroadcastAssumption
  DEF Init, DiffInv, OnlyAccepted, OneRetarget, OwnPending, DifficultyTold, Retargeting, At, Free
<1>2. DiffInv /\ [Next]_vars => DiffInv'
  BY TypeStep, AcceptedStep, OneRetargetStep, OwnPendingStep, ToldStep DEF DiffInv
<1>3. DiffInv => DifficultyTold
  BY DEF DiffInv
<1> QED
  BY <1>1, <1>2, <1>3, PTL DEF Spec

=============================================================================
