----------------------------- MODULE RelayProofs -----------------------------
(***************************************************************************)
(* Theorems about Relay, for every set of relays and messages and every    *)
(* number of processors.                                                   *)
(***************************************************************************)
EXTENDS Relay, FiniteSetTheorems, TLAPS

(***************************************************************************)
(* How often a message occurs in a queue.                                  *)
(***************************************************************************)
Places(m, s) == {i \in DOMAIN s : s[i] = m}

LEMMA PlacesFinite ==
  ASSUME NEW S, NEW s \in Seq(S), NEW m
  PROVE  IsFiniteSet(Places(m, s)) /\ Occurs(m, s) = Cardinality(Places(m, s))
<1>1. IsFiniteSet(1 .. Len(s))
  BY FS_Interval
<1>2. IsFiniteSet(Places(m, s))
  BY <1>1, FS_Subset DEF Places
<1> QED
  BY <1>2 DEF Occurs, Places

LEMMA OccursNat ==
  ASSUME NEW S, NEW s \in Seq(S), NEW m
  PROVE  Occurs(m, s) \in Nat /\ (Occurs(m, s) = 0 <=> m \notin ToSet(s))
<1>1. Occurs(m, s) \in Nat
  BY PlacesFinite, FS_CardinalityType
<1>2. Occurs(m, s) = 0 <=> Places(m, s) = {}
  BY PlacesFinite, FS_EmptySet
<1>3. Places(m, s) = {} <=> m \notin ToSet(s)
  BY DEF Places, ToSet
<1> QED
  BY <1>1, <1>2, <1>3

LEMMA OccursNowhere ==
  ASSUME NEW m
  PROVE  Occurs(m, <<>>) = 0 /\ ToSet(<<>>) = {}
<1>1. {i \in DOMAIN <<>> : <<>>[i] = m} = {}
  OBVIOUS
<1>2. ToSet(<<>>) = {}
  BY DEF ToSet
<1> QED
  BY <1>1, <1>2, FS_EmptySet DEF Occurs

LEMMA OccursAppend ==
  ASSUME NEW S, NEW s \in Seq(S), NEW x \in S, NEW m
  PROVE  Occurs(m, Append(s, x)) = Occurs(m, s) + Once(x = m)
<1>1. Append(s, x) \in Seq(S)
  OBVIOUS
<1>2. Len(s) + 1 \notin Places(m, s)
  BY DEF Places
<1>3. CASE x = m
  <2>1. Places(m, Append(s, x)) = Places(m, s) \cup {Len(s) + 1}
    BY <1>3 DEF Places
  <2>2. Cardinality(Places(m, s) \cup {Len(s) + 1}) = Cardinality(Places(m, s)) + 1
    BY <1>2, PlacesFinite, FS_AddElement
  <2>3. Occurs(m, Append(s, x)) = Occurs(m, s) + 1
    BY <1>1, <2>1, <2>2, PlacesFinite
  <2> QED
    BY <1>3, <2>3 DEF Once
<1>4. CASE x # m
  <2>1. Places(m, Append(s, x)) = Places(m, s)
    BY <1>4 DEF Places
  <2>2. Occurs(m, Append(s, x)) = Occurs(m, s) /\ Occurs(m, s) \in Nat
    BY <1>1, <2>1, PlacesFinite, OccursNat
  <2> QED
    BY <1>4, <2>2 DEF Once
<1> QED
  BY <1>3, <1>4

LEMMA OccursTail ==
  ASSUME NEW S, NEW s \in Seq(S), s # <<>>, NEW m
  PROVE  Occurs(m, s) = Once(Head(s) = m) + Occurs(m, Tail(s)) /\ Occurs(m, Tail(s)) \in Nat
<1> DEFINE later == Places(m, s) \ {1}
           shift == [i \in Places(m, Tail(s)) |-> i + 1]
<1>1. /\ Tail(s) \in Seq(S) /\ Len(s) \in Nat \ {0} /\ Len(Tail(s)) = Len(s) - 1
      /\ Head(s) = s[1] /\ \A i \in 1 .. Len(Tail(s)) : Tail(s)[i] = s[i + 1]
  OBVIOUS
<1>2. shift \in Bijection(Places(m, Tail(s)), later)
  <2>1. shift \in [Places(m, Tail(s)) -> later]
    BY <1>1 DEF Places
  <2>2. \A i, j \in Places(m, Tail(s)) : shift[i] = shift[j] => i = j
    BY <1>1 DEF Places
  <2>3. ASSUME NEW j \in later
        PROVE  \E i \in Places(m, Tail(s)) : shift[i] = j
    <3>1. j \in 2 .. Len(s) /\ s[j] = m
      BY <1>1 DEF Places
    <3>2. j - 1 \in Places(m, Tail(s)) /\ (j - 1) + 1 = j
      BY <1>1, <3>1 DEF Places
    <3> QED
      BY <3>2
  <2> QED
    BY <2>1, <2>2, <2>3 DEF Bijection, Injection, Surjection, IsInjective
<1>3. Cardinality(later) = Cardinality(Places(m, Tail(s)))
  BY <1>1, <1>2, PlacesFinite, FS_Bijection DEF ExistsBijection
<1>4. Cardinality(later) = IF 1 \in Places(m, s) THEN Cardinality(Places(m, s)) - 1
                                                 ELSE Cardinality(Places(m, s))
  BY PlacesFinite, FS_RemoveElement
<1>5. 1 \in Places(m, s) <=> Head(s) = m
  BY <1>1 DEF Places
<1>6. /\ Occurs(m, s) = Cardinality(Places(m, s)) /\ Occurs(m, s) \in Nat
      /\ Occurs(m, Tail(s)) = Cardinality(Places(m, Tail(s))) /\ Occurs(m, Tail(s)) \in Nat
  BY <1>1, PlacesFinite, OccursNat
<1> QED
  BY <1>3, <1>4, <1>5, <1>6 DEF Once

-----------------------------------------------------------------------------
(***************************************************************************)
(* Type correctness.                                                       *)
(***************************************************************************)
RelaysOK ==
  /\ accepted \in [Relays -> 0 .. MaxShares]
  /\ relayQueue \in [Relays -> Seq(Messages)]

NetworkOK ==
  /\ link \in [Relays -> {"new", "up", "cut"}] /\ wire \in [Relays -> Seq(Messages)]
  /\ \A r \in Relays : link[r] # "up" => wire[r] = <<>>

LoopOK ==
  /\ polling \in {"poll", "handle", "sleep"} /\ rest \subseteq Relays
  /\ polled \in [Relays -> Messages \cup {None}] /\ overdue \in [Relays -> BOOLEAN]

ProcessorsOK ==
  /\ queue \in Seq(Messages) /\ processing \in [Processors -> Messages \cup {None}]
  /\ attached \in BOOLEAN

HistoryOK ==
  received \in [Messages -> Nat] /\ lost \subseteq Messages /\ faults \in 0 .. MaxFaults

LEMMA TypeParts ==
  TypeOK <=> RelaysOK /\ NetworkOK /\ LoopOK /\ ProcessorsOK /\ HistoryOK
BY DEF TypeOK, RelaysOK, NetworkOK, LoopOK, ProcessorsOK, HistoryOK

LEMMA FaultTyped == ASSUME HistoryOK, Fault PROVE faults' \in 0 .. MaxFaults
BY RelayAssumption DEF HistoryOK, Fault

LEMMA UnplugTyped ==
  ASSUME NetworkOK, NEW some, NEW now \in {"new", "cut"}, Unplug(some, now)
  PROVE  NetworkOK'
BY DEF NetworkOK, Unplug

(* What is lost are messages. *)
LEMMA WireTyped ==
  ASSUME NetworkOK, NEW some, some \subseteq Relays
  PROVE  OnWire(some) \subseteq Messages
<1>1. ASSUME NEW r \in some
      PROVE  ToSet(wire[r]) \subseteq Messages
  BY DEF NetworkOK, ToSet
<1> QED
  BY <1>1 DEF OnWire

LEMMA QueuesTyped ==
  ASSUME RelaysOK, ProcessorsOK
  PROVE  ToSet(queue) \subseteq Messages
         /\ \A r \in Relays : ToSet(relayQueue[r]) \subseteq Messages
BY DEF RelaysOK, ProcessorsOK, ToSet

LEMMA LosesTyped ==
  ASSUME HistoryOK, NEW some, some \subseteq Messages \cup {None}, Loses(some)
  PROVE  lost' \subseteq Messages
BY DEF HistoryOK, Loses

LEMMA InitTypeOK == Init => TypeOK
<1> SUFFICES ASSUME Init PROVE TypeOK
  OBVIOUS
<1>1. <<>> \in Seq(Messages)
  OBVIOUS
<1>2. 0 \in 0 .. MaxShares /\ 0 \in 0 .. MaxFaults
  BY RelayAssumption
<1> QED
  BY <1>1, <1>2 DEF Init, TypeOK

LEMMA NextTypeOK == TypeOK /\ [Next]_vars => TypeOK'
<1> SUFFICES ASSUME TypeOK, [Next]_vars PROVE TypeOK'
  OBVIOUS
<1>0. /\ RelaysOK /\ NetworkOK /\ LoopOK /\ ProcessorsOK /\ HistoryOK
      /\ (RelaysOK' /\ NetworkOK' /\ LoopOK' /\ ProcessorsOK' /\ HistoryOK' => TypeOK')
  BY TypeParts DEF TypeOK, RelaysOK, NetworkOK, LoopOK, ProcessorsOK, HistoryOK
<1>a. UNCHANGED relayVars => RelaysOK'
  BY <1>0 DEF RelaysOK, relayVars
<1>b. UNCHANGED network => NetworkOK'
  BY <1>0 DEF NetworkOK, network
<1>c. UNCHANGED loop => LoopOK'
  BY <1>0 DEF LoopOK, loop
<1>d. UNCHANGED processors => ProcessorsOK'
  BY <1>0 DEF ProcessorsOK, processors
<1>e. UNCHANGED <<received, lost, faults>> => HistoryOK'
  BY <1>0 DEF HistoryOK
<1>1. ASSUME NEW r \in Relays, AcceptShare(r) PROVE TypeOK'
  <2>1. accepted' \in [Relays -> 0 .. MaxShares]
    BY <1>0, <1>1, RelayAssumption DEF AcceptShare, RelaysOK
  <2>2. <<r, accepted'[r]>> \in Messages
    BY <1>0, <1>1, RelayAssumption DEF AcceptShare, RelaysOK, Messages
  <2>3. relayQueue' \in [Relays -> Seq(Messages)]
    BY <1>0, <1>1, <2>2 DEF AcceptShare, RelaysOK
  <2> QED
    BY <1>0, <1>b, <1>c, <1>d, <1>e, <1>1, <2>1, <2>3 DEF AcceptShare, RelaysOK
<1>2. ASSUME NEW r \in Relays, RelayShare(r) PROVE TypeOK'
  <2>1. Head(relayQueue[r]) \in Messages /\ Tail(relayQueue[r]) \in Seq(Messages)
    BY <1>0, <1>2 DEF RelayShare, RelaysOK
  <2>2. RelaysOK'
    BY <1>0, <1>2, <2>1 DEF RelayShare, RelaysOK
  <2>3. NetworkOK'
    <3>1. CASE link[r] = "up" /\ wire' = [wire EXCEPT ![r] = Append(@, Head(relayQueue[r]))]
      <4>1. Append(wire[r], Head(relayQueue[r])) \in Seq(Messages)
        BY <1>0, <2>1 DEF NetworkOK
      <4> QED
        BY <1>0, <1>2, <3>1, <4>1 DEF RelayShare, NetworkOK
    <3>2. CASE UNCHANGED wire
      BY <1>0, <1>2, <3>2 DEF RelayShare, NetworkOK
    <3> QED
      BY <1>2, <3>1, <3>2 DEF RelayShare, Carries
  <2>4. HistoryOK'
    BY <1>0, <1>2, <2>1 DEF RelayShare, Loses, HistoryOK
  <2> QED
    BY <1>0, <1>c, <1>d, <1>2, <2>2, <2>3, <2>4 DEF RelayShare
<1>3. ASSUME NEW r \in Relays, StopRelay(r) PROVE TypeOK'
  <2>1. RelaysOK'
    BY <1>0, <1>3 DEF StopRelay, RelaysOK
  <2>2. NetworkOK'
    BY <1>0, <1>3, UnplugTyped DEF StopRelay
  <2>3. lost' \subseteq Messages
    BY <1>0, <1>3, WireTyped, QueuesTyped, LosesTyped DEF StopRelay
  <2> QED
    BY <1>0, <1>c, <1>d, <1>3, <2>1, <2>2, <2>3, FaultTyped DEF StopRelay, HistoryOK
<1>4. ASSUME NEW r \in Relays, Subscribed(r) PROVE TypeOK'
  <2>1. NetworkOK'
    BY <1>0, <1>4 DEF Subscribed, NetworkOK
  <2> QED
    BY <1>0, <1>a, <1>c, <1>d, <1>e, <1>4, <2>1 DEF Subscribed
<1>5. ASSUME NEW r \in Relays, Break(r) PROVE TypeOK'
  <2>1. NetworkOK'
    BY <1>0, <1>5, UnplugTyped DEF Break
  <2>2. lost' \subseteq Messages
    BY <1>0, <1>5, WireTyped, LosesTyped DEF Break
  <2> QED
    BY <1>0, <1>a, <1>c, <1>d, <1>5, <2>1, <2>2, FaultTyped DEF Break, HistoryOK
<1>6. ASSUME NEW r \in Relays, Silence(r) PROVE TypeOK'
  BY <1>0, <1>a, <1>b, <1>d, <1>e, <1>6 DEF Silence, LoopOK
<1>7. CASE PollIn
  <2>1. PICK some \in SUBSET Ready \ {{}} :
          /\ polled' = [r \in Relays |-> IF r \in some THEN Head(wire[r]) ELSE None]
          /\ wire' = [r \in Relays |-> IF r \in some THEN Tail(wire[r]) ELSE wire[r]]
    BY <1>7 DEF PollIn
  <2>2. \A r \in some :
          r \in Relays /\ Head(wire[r]) \in Messages /\ Tail(wire[r]) \in Seq(Messages)
    BY <1>0, <2>1 DEF Ready, NetworkOK
  <2>3. NetworkOK'
    BY <1>0, <1>7, <2>1, <2>2 DEF PollIn, NetworkOK, Ready
  <2>4. LoopOK'
    BY <1>0, <1>7, <2>1, <2>2 DEF PollIn, LoopOK
  <2> QED
    BY <1>0, <1>a, <1>d, <1>e, <1>7, <2>3, <2>4 DEF PollIn
<1>8. ASSUME NEW r \in Relays, HandlePolled(r) PROVE TypeOK'
  <2>1. /\ rest' \subseteq Relays /\ polling' \in {"poll", "handle", "sleep"}
        /\ UNCHANGED <<relayVars, processing, attached, received, faults>>
    BY <1>0, <1>8 DEF HandlePolled, Looked, LoopOK
  <2>2. CASE Post(r)
    <3>1. LoopOK' /\ ProcessorsOK'
      BY <1>0, <2>1, <2>2 DEF Post, LoopOK, ProcessorsOK
    <3> QED
      BY <1>0, <1>a, <1>b, <1>e, <2>1, <2>2, <3>1 DEF Post
  <2>3. CASE Reconnect(r)
    <3>1. NetworkOK'
      BY <1>0, <2>3, UnplugTyped DEF Reconnect
    <3>2. lost' \subseteq Messages
      BY <1>0, <2>3, WireTyped, LosesTyped DEF Reconnect
    <3>3. LoopOK' /\ ProcessorsOK'
      BY <1>0, <2>1, <2>3 DEF Reconnect, LoopOK, ProcessorsOK
    <3> QED
      BY <1>0, <1>a, <2>1, <3>1, <3>2, <3>3 DEF HistoryOK
  <2>4. CASE UNCHANGED <<network, queue, polled, overdue, lost>>
    <3>1. LoopOK' /\ ProcessorsOK'
      BY <1>0, <2>1, <2>4 DEF LoopOK, ProcessorsOK
    <3> QED
      BY <1>0, <1>a, <1>b, <1>e, <2>1, <2>4, <3>1
  <2> QED
    BY <1>8, <2>2, <2>3, <2>4 DEF HandlePolled
<1>9. CASE ReceiverFails
  <2>1. NetworkOK'
    BY <1>0, <1>9, UnplugTyped DEF ReceiverFails
  <2>2. {polled[r] : r \in Relays} \subseteq Messages \cup {None}
    BY <1>0 DEF LoopOK
  <2>3. lost' \subseteq Messages
    BY <1>0, <1>9, <2>2, WireTyped, LosesTyped DEF ReceiverFails
  <2>4. LoopOK'
    BY <1>0, <1>9 DEF ReceiverFails, LoopOK
  <2> QED
    BY <1>0, <1>a, <1>d, <1>9, <2>1, <2>3, <2>4, FaultTyped DEF ReceiverFails, HistoryOK
<1>10. CASE SetupSockets
  BY <1>0, <1>a, <1>b, <1>d, <1>e, <1>10 DEF SetupSockets, LoopOK
<1>11. ASSUME NEW p \in Processors, Receive(p) PROVE TypeOK'
  <2>1. Head(queue) \in Messages /\ Tail(queue) \in Seq(Messages)
    BY <1>0, <1>11 DEF Receive, ProcessorsOK
  <2>2. ProcessorsOK'
    BY <1>0, <1>11, <2>1 DEF Receive, ProcessorsOK
  <2> QED
    BY <1>0, <1>a, <1>b, <1>c, <1>e, <1>11, <2>2 DEF Receive
<1>12. ASSUME NEW p \in Processors, ProcessMessage(p) PROVE TypeOK'
  <2>1. processing[p] \in Messages
    BY <1>0, <1>12 DEF ProcessMessage, ProcessorsOK
  <2>2. ProcessorsOK'
    BY <1>0, <1>12 DEF ProcessMessage, ProcessorsOK
  <2>3. HistoryOK'
    BY <1>0, <1>12, <2>1 DEF ProcessMessage, Loses, HistoryOK
  <2> QED
    BY <1>0, <1>a, <1>b, <1>c, <1>12, <2>2, <2>3 DEF ProcessMessage
<1>13. CASE AttachPool
  BY <1>0, <1>a, <1>b, <1>c, <1>e, <1>13 DEF AttachPool, ProcessorsOK
<1>14. CASE CrashReceiver
  <2>1. NetworkOK'
    BY <1>0, <1>14, UnplugTyped DEF CrashReceiver
  <2>2. /\ {polled[r] : r \in Relays} \subseteq Messages \cup {None}
        /\ {processing[p] : p \in Processors} \subseteq Messages \cup {None}
    BY <1>0 DEF LoopOK, ProcessorsOK
  <2>3. lost' \subseteq Messages
    BY <1>0, <1>14, <2>2, WireTyped, QueuesTyped, LosesTyped DEF CrashReceiver
  <2>4. LoopOK'
    BY <1>14 DEF CrashReceiver, LoopOK
  <2>5. ProcessorsOK'
    <3>1. <<>> \in Seq(Messages)
      OBVIOUS
    <3> QED
      BY <1>14, <3>1 DEF CrashReceiver, ProcessorsOK
  <2> QED
    BY <1>0, <1>a, <1>14, <2>1, <2>3, <2>4, <2>5, FaultTyped DEF CrashReceiver, HistoryOK
<1>15. CASE UNCHANGED vars
  BY <1>0, <1>a, <1>b, <1>c, <1>d, <1>e, <1>15 DEF vars
<1> QED
  BY <1>1, <1>2, <1>3, <1>4, <1>5, <1>6, <1>7, <1>8, <1>9, <1>10, <1>11, <1>12, <1>13, <1>14,
     <1>15
  DEF Next, Receiver, Processor

(***************************************************************************)
(* Queues hold messages and a connection that is not up holds none.        *)
(***************************************************************************)
THEOREM TypeCorrect == Spec => []TypeOK
BY InitTypeOK, NextTypeOK, PTL DEF Spec

-----------------------------------------------------------------------------
(***************************************************************************)
(* What else is invariant: a connection carries the messages of its relay  *)
(* alone, and the receiver has handled what a poll returned before it      *)
(* polls again.                                                            *)
(***************************************************************************)
OwnMessages ==
  \A r \in Relays :
    /\ \A m \in ToSet(relayQueue[r]) \cup ToSet(wire[r]) : m[1] = r
    /\ polled[r] # None => polled[r][1] = r

PolledInRound == \A r \in Relays : polled[r] # None => polling = "handle" /\ r \in rest

LEMMA SetOfQueue ==
  ASSUME NEW S, NEW s \in Seq(S)
  PROVE  /\ \A x \in S : ToSet(Append(s, x)) = ToSet(s) \cup {x}
         /\ s # <<>> => Head(s) \in ToSet(s) /\ ToSet(Tail(s)) \subseteq ToSet(s)
<1>1. ASSUME NEW x \in S
      PROVE  ToSet(Append(s, x)) = ToSet(s) \cup {x}
  <2>1. Append(s, x) \in Seq(S) /\ Len(Append(s, x)) = Len(s) + 1 /\ Len(s) \in Nat
    OBVIOUS
  <2>2. \A i \in 1 .. Len(s) : Append(s, x)[i] = s[i]
    OBVIOUS
  <2>3. Append(s, x)[Len(s) + 1] = x
    OBVIOUS
  <2>4. ToSet(s) \cup {x} \subseteq ToSet(Append(s, x))
    <3>1. ASSUME NEW i \in DOMAIN s
          PROVE  s[i] \in ToSet(Append(s, x))
      BY <2>1, <2>2 DEF ToSet
    <3>2. x \in ToSet(Append(s, x))
      BY <2>1, <2>3 DEF ToSet
    <3> QED
      BY <3>1, <3>2 DEF ToSet
  <2>5. ToSet(Append(s, x)) \subseteq ToSet(s) \cup {x}
    <3> SUFFICES ASSUME NEW i \in 1 .. Len(s) + 1
                 PROVE  Append(s, x)[i] \in ToSet(s) \cup {x}
      BY <2>1 DEF ToSet
    <3>1. CASE i = Len(s) + 1
      BY <2>3, <3>1
    <3>2. CASE i \in 1 .. Len(s)
      BY <2>2, <3>2 DEF ToSet
    <3> QED
      BY <2>1, <3>1, <3>2
  <2> QED
    BY <2>4, <2>5
<1>2. ASSUME s # <<>>
      PROVE  Head(s) \in ToSet(s) /\ ToSet(Tail(s)) \subseteq ToSet(s)
  <2>1. /\ Len(s) \in Nat \ {0} /\ Tail(s) \in Seq(S) /\ Len(Tail(s)) = Len(s) - 1
        /\ Head(s) = s[1] /\ \A i \in 1 .. Len(s) - 1 : Tail(s)[i] = s[i + 1]
    BY <1>2
  <2> QED
    BY <2>1 DEF ToSet
<1> QED
  BY <1>1, <1>2

LEMMA InitOwn == Init => OwnMessages /\ PolledInRound
BY OccursNowhere DEF Init, OwnMessages, PolledInRound

LEMMA NextOwn ==
  ASSUME TypeOK, OwnMessages, PolledInRound, [Next]_vars
  PROVE  OwnMessages' /\ PolledInRound'
<1>0. /\ relayQueue \in [Relays -> Seq(Messages)] /\ wire \in [Relays -> Seq(Messages)]
      /\ polled \in [Relays -> Messages \cup {None}] /\ rest \subseteq Relays
  BY DEF TypeOK
<1>a. ToSet(<<>>) = {}
  BY OccursNowhere
<1>b. ASSUME \A r \in Relays : /\ ToSet(relayQueue'[r]) \subseteq ToSet(relayQueue[r])
                              /\ ToSet(wire'[r]) \subseteq ToSet(wire[r])
                              /\ polled'[r] \in {polled[r], None}
      PROVE  OwnMessages'
  BY <1>b DEF OwnMessages
<1>c. ASSUME NEW some, NEW now, Unplug(some, now)
      PROVE  \A r \in Relays : ToSet(wire'[r]) \subseteq ToSet(wire[r])
  BY <1>a, <1>c DEF Unplug
<1>d. UNCHANGED <<polling, rest, polled>> => PolledInRound'
  BY DEF PolledInRound
<1>1. ASSUME NEW r \in Relays, AcceptShare(r) PROVE OwnMessages' /\ PolledInRound'
  <2>1. <<r, accepted'[r]>> \in Messages
    BY <1>1, RelayAssumption DEF AcceptShare, TypeOK, Messages
  <2>2. /\ \A q \in Relays \ {r} : relayQueue'[q] = relayQueue[q]
        /\ ToSet(relayQueue'[r]) = ToSet(relayQueue[r]) \cup {<<r, accepted'[r]>>}
    BY <1>0, <1>1, <2>1, SetOfQueue DEF AcceptShare
  <2>3. UNCHANGED <<wire, polled, polling, rest>>
    BY <1>1 DEF AcceptShare, network, loop
  <2> QED
    BY <1>d, <2>2, <2>3 DEF OwnMessages
<1>2. ASSUME NEW r \in Relays, RelayShare(r) PROVE OwnMessages' /\ PolledInRound'
  <2> DEFINE h == Head(relayQueue[r])
  <2>1. h \in Messages /\ h[1] = r /\ ToSet(Tail(relayQueue[r])) \subseteq ToSet(relayQueue[r])
    <3>1. relayQueue[r] \in Seq(Messages) /\ relayQueue[r] # <<>>
      BY <1>0, <1>2 DEF RelayShare
    <3>2. h \in ToSet(relayQueue[r]) /\ ToSet(Tail(relayQueue[r])) \subseteq ToSet(relayQueue[r])
      BY <3>1, SetOfQueue
    <3>3. h \in Messages
      BY <3>1
    <3> QED
      BY <3>2, <3>3 DEF OwnMessages
  <2>2. relayQueue' = [relayQueue EXCEPT ![r] = Tail(@)]
    BY <1>2 DEF RelayShare
  <2>3. \A q \in Relays : ToSet(relayQueue'[q]) \subseteq ToSet(relayQueue[q])
    BY <1>0, <2>1, <2>2
  <2>4. UNCHANGED wire \/ wire' = [wire EXCEPT ![r] = Append(@, h)]
    BY <1>2 DEF RelayShare
  <2>5. ToSet(Append(wire[r], h)) = ToSet(wire[r]) \cup {h}
    BY <1>0, <2>1, SetOfQueue
  <2>6. \A q \in Relays : \A m \in ToSet(wire'[q]) : m \in ToSet(wire[q]) \/ (q = r /\ m = h)
    <3> HIDE DEF h
    <3>1. CASE UNCHANGED wire
      BY <3>1
    <3>2. CASE wire' = [wire EXCEPT ![r] = Append(@, h)]
      <4>1. wire'[r] = Append(wire[r], h) /\ \A q \in Relays \ {r} : wire'[q] = wire[q]
        BY <1>0, <3>2
      <4> QED
        BY <2>5, <4>1
    <3> QED
      BY <2>4, <3>1, <3>2
  <2>7. UNCHANGED <<polled, polling, rest>>
    BY <1>2 DEF RelayShare, loop
  <2> QED
    BY <1>d, <2>1, <2>3, <2>6, <2>7 DEF OwnMessages
<1>3. ASSUME NEW r \in Relays, StopRelay(r) PROVE OwnMessages' /\ PolledInRound'
  <2>1. \A q \in Relays : ToSet(relayQueue'[q]) \subseteq ToSet(relayQueue[q])
    BY <1>0, <1>a, <1>3 DEF StopRelay
  <2> QED
    BY <1>b, <1>c, <1>d, <1>3, <2>1 DEF StopRelay, loop
<1>4. ASSUME NEW r \in Relays, Subscribed(r) PROVE OwnMessages' /\ PolledInRound'
  BY <1>b, <1>d, <1>4 DEF Subscribed, relayVars, loop
<1>5. ASSUME NEW r \in Relays, Break(r) PROVE OwnMessages' /\ PolledInRound'
  BY <1>b, <1>c, <1>d, <1>5 DEF Break, relayVars, loop
<1>6. ASSUME NEW r \in Relays, Silence(r) PROVE OwnMessages' /\ PolledInRound'
  BY <1>b, <1>d, <1>6 DEF Silence, relayVars, network
<1>7. CASE PollIn
  <2>1. PICK some \in SUBSET Ready \ {{}} :
          /\ polled' = [r \in Relays |-> IF r \in some THEN Head(wire[r]) ELSE None]
          /\ wire' = [r \in Relays |-> IF r \in some THEN Tail(wire[r]) ELSE wire[r]]
    BY <1>7 DEF PollIn
  <2>2. \A r \in some : /\ Head(wire[r]) \in ToSet(wire[r])
                        /\ ToSet(Tail(wire[r])) \subseteq ToSet(wire[r])
    BY <1>0, <2>1, SetOfQueue DEF Ready
  <2>3. UNCHANGED relayQueue /\ polling' = "handle" /\ rest' = Relays
    BY <1>7 DEF PollIn, relayVars
  <2> QED
    BY <2>1, <2>2, <2>3 DEF OwnMessages, PolledInRound
<1>8. ASSUME NEW r \in Relays, HandlePolled(r) PROVE OwnMessages' /\ PolledInRound'
  <2>1. UNCHANGED relayQueue /\ rest' = rest \ {r} /\ polling = "handle"
        /\ polling' = IF rest' = {} THEN "poll" ELSE "handle"
    BY <1>8 DEF HandlePolled, Looked, relayVars
  <2>2. /\ polled'[r] = None /\ \A q \in Relays \ {r} : polled'[q] = polled[q]
        /\ \A q \in Relays : ToSet(wire'[q]) \subseteq ToSet(wire[q])
    <3>1. CASE Post(r)
      BY <1>0, <3>1 DEF Post, network
    <3>2. CASE Reconnect(r)
      BY <1>0, <1>c, <3>2 DEF Reconnect
    <3>3. CASE polled[r] = None /\ UNCHANGED <<network, polled>>
      BY <3>3 DEF network
    <3> QED
      BY <1>8, <3>1, <3>2, <3>3 DEF HandlePolled
  <2>3. OwnMessages'
    BY <1>b, <2>1, <2>2
  <2> QED
    BY <2>1, <2>2, <2>3 DEF PolledInRound
<1>9. CASE ReceiverFails
  <2>1. UNCHANGED relayQueue /\ \A r \in Relays : polled'[r] = None
    BY <1>9 DEF ReceiverFails, relayVars
  <2> QED
    BY <1>b, <1>c, <1>9, <2>1 DEF ReceiverFails, PolledInRound
<1>10. CASE SetupSockets
  BY <1>b, <1>10 DEF SetupSockets, relayVars, network, PolledInRound
<1>11. ASSUME NEW p \in Processors, Receive(p) PROVE OwnMessages' /\ PolledInRound'
  BY <1>b, <1>d, <1>11 DEF Receive, relayVars, network, loop
<1>12. ASSUME NEW p \in Processors, ProcessMessage(p) PROVE OwnMessages' /\ PolledInRound'
  BY <1>b, <1>d, <1>12 DEF ProcessMessage, relayVars, network, loop
<1>13. CASE AttachPool
  BY <1>b, <1>d, <1>13 DEF AttachPool, relayVars, network, loop
<1>14. CASE CrashReceiver
  <2>1. UNCHANGED relayQueue /\ \A r \in Relays : polled'[r] = None
    BY <1>14 DEF CrashReceiver, relayVars
  <2> QED
    BY <1>b, <1>c, <1>14, <2>1 DEF CrashReceiver, PolledInRound
<1>15. CASE UNCHANGED vars
  BY <1>b, <1>d, <1>15 DEF vars, relayVars, network, loop
<1> QED
  BY <1>1, <1>2, <1>3, <1>4, <1>5, <1>6, <1>7, <1>8, <1>9, <1>10, <1>11, <1>12, <1>13, <1>14,
     <1>15
  DEF Next, Receiver, Processor

-----------------------------------------------------------------------------
(***************************************************************************)
(* Every share is accounted for.  The places of a share, each counted by   *)
(* a definition of its own: since their sum is 1 at most, a step that      *)
(* loses what several places hold loses it once.                           *)
(***************************************************************************)
Held(m) == {p \in Processors : processing[p] = m}

AtRelay(m) == Occurs(m, relayQueue[m[1]])
OnTheWire(m) == Occurs(m, wire[m[1]])
Polled(m) == Once(polled[m[1]] = m)
Queued(m) == Occurs(m, queue)
Processed(m) == Cardinality(Held(m))
Lost(m) == Once(m \in lost)
Published(m) == Once(m[2] <= accepted[m[1]])

Underway(m) ==
  AtRelay(m) + OnTheWire(m) + Polled(m) + Queued(m) + Processed(m) + received[m] + Lost(m)

OnceSomewhere(m) == Underway(m) = Published(m)

LEMMA AccountedForAll == Accounted <=> \A m \in Messages : OnceSomewhere(m)
<1>1. \A r \in Relays, n \in 1 .. MaxShares :
        <<r, n>> \in Messages /\ <<r, n>>[1] = r /\ <<r, n>>[2] = n
  BY DEF Messages
<1>2. \A m \in Messages : m[1] \in Relays /\ m[2] \in 1 .. MaxShares /\ m = <<m[1], m[2]>>
  BY DEF Messages
<1>3. \A m : OnceSomewhere(m) <=>
        Occurs(m, relayQueue[m[1]]) + Occurs(m, wire[m[1]]) + Once(polled[m[1]] = m)
          + Occurs(m, queue) + Cardinality({p \in Processors : processing[p] = m})
          + received[m] + Once(m \in lost)
          = Once(m[2] <= accepted[m[1]])
  BY DEF OnceSomewhere, Underway, Held, AtRelay, OnTheWire, Polled, Queued, Processed, Lost,
         Published
<1>4. Accounted <=> \A r \in Relays, n \in 1 .. MaxShares : OnceSomewhere(<<r, n>>)
  BY <1>1, <1>3 DEF Accounted
<1> QED
  BY <1>1, <1>2, <1>4

LEMMA CountsAreNat ==
  ASSUME TypeOK, NEW m \in Messages
  PROVE  /\ m[1] \in Relays /\ m # None /\ IsFiniteSet(Held(m))
         /\ AtRelay(m) \in Nat /\ OnTheWire(m) \in Nat /\ Polled(m) \in Nat
         /\ Queued(m) \in Nat /\ Processed(m) \in Nat /\ received[m] \in Nat
         /\ Lost(m) \in Nat /\ Published(m) \in {0, 1}
<1>1. m[1] \in Relays
  BY DEF Messages
<1>2. AtRelay(m) \in Nat /\ OnTheWire(m) \in Nat /\ Queued(m) \in Nat
  BY <1>1, OccursNat DEF TypeOK, AtRelay, OnTheWire, Queued
<1>3. IsFiniteSet(Held(m))
  BY RelayAssumption, FS_Subset DEF Held
<1>4. Processed(m) \in Nat
  BY <1>3, FS_CardinalityType DEF Processed
<1> QED
  BY <1>1, <1>2, <1>3, <1>4, RelayAssumption DEF TypeOK, Once, Polled, Lost, Published

LEMMA UnmovedAccounts ==
  ASSUME NEW m, OnceSomewhere(m),
         UNCHANGED <<accepted, relayQueue, wire, polled, queue, processing, received, lost>>
  PROVE  OnceSomewhere(m)'
BY DEF OnceSomewhere, Underway, AtRelay, OnTheWire, Polled, Queued, Processed, Held, Lost,
       Published

LEMMA LosesCounts ==
  ASSUME NEW m \in Messages, NEW some, Loses(some)
  PROVE  Lost(m)' = IF m \in some THEN 1 ELSE Lost(m)
BY RelayAssumption DEF Loses, Lost, Once

LEMMA UnplugCounts ==
  ASSUME TypeOK, NEW m \in Messages, NEW some, NEW now, Unplug(some, now)
  PROVE  OnTheWire(m)' = IF m[1] \in some THEN 0 ELSE OnTheWire(m)
BY OccursNowhere DEF Unplug, Messages, OnTheWire

LEMMA OnWireOwn ==
  ASSUME TypeOK, OwnMessages, NEW m \in Messages, NEW some, some \subseteq Relays
  PROVE  m \in OnWire(some) <=> m[1] \in some /\ OnTheWire(m) > 0
<1>1. m \in OnWire(some) <=> \E r \in some : m \in ToSet(wire[r])
  BY DEF OnWire
<1>2. \A r \in some : m \in ToSet(wire[r]) => r = m[1]
  BY DEF OwnMessages
<1>3. m \in ToSet(wire[m[1]]) <=> OnTheWire(m) # 0
  BY CountsAreNat, OccursNat DEF TypeOK, OnTheWire
<1> QED
  BY <1>1, <1>2, <1>3, CountsAreNat

(* The messages of some connections are lost with them. *)
LEMMA BrokenLinksLose ==
  ASSUME TypeOK, OwnMessages, NEW m \in Messages, OnceSomewhere(m),
         NEW some, some \subseteq Relays, NEW now, Unplug(some, now), Loses(OnWire(some))
  PROVE  /\ OnTheWire(m)' + Lost(m)' = OnTheWire(m) + Lost(m)
         /\ OnTheWire(m)' \in Nat /\ Lost(m)' \in Nat
<1>1. OnTheWire(m) + Lost(m) <= 1
  BY CountsAreNat DEF OnceSomewhere, Underway
<1>2. OnTheWire(m)' = IF m[1] \in some THEN 0 ELSE OnTheWire(m)
  BY UnplugCounts
<1>3. Lost(m)' = IF m[1] \in some /\ OnTheWire(m) > 0 THEN 1 ELSE Lost(m)
  BY LosesCounts, OnWireOwn
<1> QED
  BY <1>1, <1>2, <1>3, CountsAreNat

(* An accepted share is a new message. *)
LEMMA AcceptShareAccounts ==
  ASSUME TypeOK, NEW m \in Messages, OnceSomewhere(m), NEW r \in Relays, AcceptShare(r)
  PROVE  OnceSomewhere(m)'
<1> DEFINE x == <<r, accepted[r] + 1>>
<1>1. /\ UNCHANGED <<wire, polled, queue, processing, received, lost>>
      /\ accepted[r] \in 0 .. MaxShares /\ accepted[r] < MaxShares
      /\ accepted' = [accepted EXCEPT ![r] = @ + 1] /\ accepted'[r] = accepted[r] + 1
      /\ relayQueue' = [relayQueue EXCEPT ![r] = Append(@, x)]
  BY DEF AcceptShare, TypeOK, network, loop, processors
<1>2. x \in Messages /\ x[1] = r /\ x[2] = accepted[r] + 1
  BY <1>1, RelayAssumption DEF Messages
<1>3. AtRelay(m)' = AtRelay(m) + Once(x = m)
  <2>1. CASE m[1] = r
    <3>1. relayQueue'[m[1]] = Append(relayQueue[r], x)
      BY <1>1, <2>1 DEF TypeOK
    <3>2. relayQueue[r] \in Seq(Messages)
      BY DEF TypeOK
    <3>3. Occurs(m, Append(relayQueue[r], x)) = Occurs(m, relayQueue[r]) + Once(x = m)
      BY <1>2, <3>2, OccursAppend
    <3> QED
      BY <2>1, <3>1, <3>3 DEF AtRelay
  <2>2. CASE m[1] # r
    <3>1. relayQueue'[m[1]] = relayQueue[m[1]] /\ x # m
      BY <1>1, <1>2, <2>2, CountsAreNat DEF TypeOK
    <3>2. AtRelay(m)' = AtRelay(m) /\ Once(x = m) = 0
      BY <3>1 DEF AtRelay, Once
    <3> QED
      BY <3>2, CountsAreNat
  <2> QED
    BY <2>1, <2>2
<1>4. Published(m)' = Published(m) + Once(x = m)
  <2>1. m = <<m[1], m[2]>> /\ m[2] \in 1 .. MaxShares
    BY DEF Messages
  <2>2. CASE m[1] = r
    <3>1. accepted'[m[1]] = accepted[r] + 1 /\ (x = m <=> m[2] = accepted[r] + 1)
      BY <1>1, <1>2, <2>1, <2>2
    <3> QED
      BY <1>1, <2>1, <2>2, <3>1, RelayAssumption DEF Published, Once
  <2>3. CASE m[1] # r
    BY <1>1, <1>2, <2>3, CountsAreNat DEF TypeOK, Published, Once
  <2> QED
    BY <2>2, <2>3
<1>5. /\ UNCHANGED <<OnTheWire(m), Polled(m), Queued(m), Processed(m), received[m], Lost(m)>>
      /\ Once(x = m) \in Nat
  BY <1>1 DEF OnTheWire, Polled, Queued, Processed, Held, Lost, Once
<1> QED
  BY <1>3, <1>4, <1>5, CountsAreNat DEF OnceSomewhere, Underway

(* A relay sends the message at the head of its queue, or loses it. *)
LEMMA RelayShareAccounts ==
  ASSUME TypeOK, OwnMessages, NEW m \in Messages, OnceSomewhere(m),
         NEW r \in Relays, RelayShare(r)
  PROVE  OnceSomewhere(m)'
<1> DEFINE h == Head(relayQueue[r])
<1>1. /\ UNCHANGED <<accepted, polled, queue, processing, received>>
      /\ relayQueue[r] \in Seq(Messages) /\ relayQueue[r] # <<>>
      /\ relayQueue' = [relayQueue EXCEPT ![r] = Tail(@)]
  BY DEF RelayShare, TypeOK, loop, processors
<1>2. h \in Messages /\ h[1] = r
  BY <1>1, SetOfQueue DEF OwnMessages
<1>3. AtRelay(m) = Once(h = m) + AtRelay(m)' /\ AtRelay(m)' \in Nat
  <2>1. CASE m[1] = r
    <3>1. relayQueue'[m[1]] = Tail(relayQueue[r])
      BY <1>1, <2>1 DEF TypeOK
    <3> QED
      BY <1>1, <2>1, <3>1, OccursTail DEF AtRelay
  <2>2. CASE m[1] # r
    <3>1. relayQueue'[m[1]] = relayQueue[m[1]] /\ h # m
      BY <1>1, <1>2, <2>2, CountsAreNat DEF TypeOK
    <3>2. AtRelay(m)' = AtRelay(m) /\ Once(h = m) = 0
      BY <3>1 DEF AtRelay, Once
    <3> QED
      BY <3>2, CountsAreNat
  <2> QED
    BY <2>1, <2>2
<1>4. Once(h = m) \in Nat
  BY DEF Once
<1>5. /\ OnTheWire(m)' + Lost(m)' = OnTheWire(m) + Lost(m) + Once(h = m)
      /\ OnTheWire(m)' \in Nat /\ Lost(m)' \in Nat
  <2>1. CASE UNCHANGED lost /\ wire' = [wire EXCEPT ![r] = Append(@, h)]
    <3>1. OnTheWire(m)' = OnTheWire(m) + Once(h = m)
      <4>1. CASE m[1] = r
        <5>1. wire'[m[1]] = Append(wire[r], h)
          BY <2>1, <4>1 DEF TypeOK
        <5> QED
          BY <1>2, <4>1, <5>1, OccursAppend DEF TypeOK, OnTheWire
      <4>2. CASE m[1] # r
        <5>1. wire'[m[1]] = wire[m[1]] /\ h # m
          BY <1>2, <2>1, <4>2, CountsAreNat DEF TypeOK
        <5>2. OnTheWire(m)' = OnTheWire(m) /\ Once(h = m) = 0
          BY <5>1 DEF OnTheWire, Once
        <5> QED
          BY <5>2, CountsAreNat
      <4> QED
        BY <4>1, <4>2
    <3> QED
      BY <1>4, <2>1, <3>1, CountsAreNat DEF Lost
  <2>2. CASE Loses({h}) /\ UNCHANGED wire
    <3>1. Lost(m)' = IF h = m THEN 1 ELSE Lost(m)
      BY <2>2, LosesCounts
    <3>2. AtRelay(m) + Lost(m) <= 1
      BY CountsAreNat DEF OnceSomewhere, Underway
    <3>3. h = m => AtRelay(m) > 0
      BY <1>3 DEF Once
    <3> QED
      BY <2>2, <3>1, <3>2, <3>3, CountsAreNat DEF OnTheWire, Once
  <2> QED
    BY <2>1, <2>2 DEF RelayShare
<1>6. UNCHANGED <<Polled(m), Queued(m), Processed(m), received[m], Published(m)>>
  BY <1>1 DEF Polled, Queued, Processed, Held, Published
<1> QED
  BY <1>3, <1>4, <1>5, <1>6, CountsAreNat DEF OnceSomewhere, Underway

(* A relay that stops loses its queue and what is on the way. *)
LEMMA StopRelayAccounts ==
  ASSUME TypeOK, OwnMessages, NEW m \in Messages, OnceSomewhere(m),
         NEW r \in Relays, StopRelay(r)
  PROVE  OnceSomewhere(m)'
<1>1. /\ UNCHANGED <<accepted, polled, queue, processing, received>>
      /\ relayQueue' = [relayQueue EXCEPT ![r] = <<>>] /\ Unplug({r}, "new")
      /\ Loses(ToSet(relayQueue[r]) \cup OnWire({r}))
  BY DEF StopRelay, loop, processors
<1>2. UNCHANGED <<Polled(m), Queued(m), Processed(m), received[m], Published(m)>>
  BY <1>1 DEF Polled, Queued, Processed, Held, Published
<1>3. OnTheWire(m)' = IF m[1] = r THEN 0 ELSE OnTheWire(m)
  BY <1>1, UnplugCounts
<1>4. AtRelay(m)' = IF m[1] = r THEN 0 ELSE AtRelay(m)
  BY <1>1, CountsAreNat, OccursNowhere DEF TypeOK, AtRelay
<1>5. m \in OnWire({r}) <=> m[1] = r /\ OnTheWire(m) > 0
  BY OnWireOwn
<1>6. m \in ToSet(relayQueue[r]) <=> m[1] = r /\ AtRelay(m) > 0
  <2>1. m \in ToSet(relayQueue[r]) => m[1] = r
    BY DEF OwnMessages
  <2>2. m[1] = r => (m \in ToSet(relayQueue[r]) <=> AtRelay(m) # 0)
    BY OccursNat DEF TypeOK, AtRelay
  <2> QED
    BY <2>1, <2>2, CountsAreNat
<1>7. Lost(m)' = IF m[1] = r /\ (AtRelay(m) > 0 \/ OnTheWire(m) > 0) THEN 1 ELSE Lost(m)
  BY <1>1, <1>5, <1>6, LosesCounts
<1> QED
  BY <1>2, <1>3, <1>4, <1>7, CountsAreNat DEF OnceSomewhere, Underway

(* A poll takes the first message of some connections. *)
LEMMA PollInAccounts ==
  ASSUME TypeOK, PolledInRound, NEW m \in Messages, OnceSomewhere(m), PollIn
  PROVE  OnceSomewhere(m)'
<1> DEFINE q == m[1]
<1>1. PICK some \in SUBSET Ready \ {{}} :
        /\ polled' = [r \in Relays |-> IF r \in some THEN Head(wire[r]) ELSE None]
        /\ wire' = [r \in Relays |-> IF r \in some THEN Tail(wire[r]) ELSE wire[r]]
  BY DEF PollIn
<1>2. /\ UNCHANGED <<accepted, relayQueue, queue, processing, received, lost>>
      /\ polling = "poll"
  BY DEF PollIn, relayVars, processors
<1>3. q \in Relays /\ m # None
  BY CountsAreNat
<1>4. Polled(m) = 0
  BY <1>2, <1>3 DEF PolledInRound, Polled, Once
<1>5. OnTheWire(m) = Polled(m)' + OnTheWire(m)' /\ Polled(m)' \in Nat /\ OnTheWire(m)' \in Nat
  <2>1. CASE q \in some
    <3>1. wire[q] \in Seq(Messages) /\ wire[q] # <<>>
      BY <1>1, <1>3, <2>1 DEF TypeOK, Ready
    <3>2. wire'[q] = Tail(wire[q]) /\ polled'[q] = Head(wire[q])
      BY <1>1, <1>3, <2>1
    <3>3. /\ Occurs(m, wire[q]) = Once(Head(wire[q]) = m) + Occurs(m, Tail(wire[q]))
          /\ Occurs(m, Tail(wire[q])) \in Nat
      BY <3>1, OccursTail
    <3> QED
      BY <3>2, <3>3 DEF OnTheWire, Polled, Once
  <2>2. CASE q \notin some
    <3>1. wire'[q] = wire[q] /\ polled'[q] = None
      BY <1>1, <1>3, <2>2
    <3>2. OnTheWire(m)' = OnTheWire(m) /\ Polled(m)' = 0
      BY <1>3, <3>1 DEF OnTheWire, Polled, Once
    <3> QED
      BY <3>2, CountsAreNat
  <2> QED
    BY <2>1, <2>2
<1>6. UNCHANGED <<AtRelay(m), Queued(m), Processed(m), received[m], Lost(m), Published(m)>>
  BY <1>2 DEF AtRelay, Queued, Processed, Held, Lost, Published
<1> QED
  BY <1>4, <1>5, <1>6, CountsAreNat DEF OnceSomewhere, Underway

(* The receiver posts what the poll returned, or gives the connection up. *)
LEMMA HandlePolledAccounts ==
  ASSUME TypeOK, OwnMessages, NEW m \in Messages, OnceSomewhere(m),
         NEW r \in Relays, HandlePolled(r)
  PROVE  OnceSomewhere(m)'
<1>1. UNCHANGED <<accepted, relayQueue, processing, received>>
  BY DEF HandlePolled, relayVars
<1>2. UNCHANGED <<AtRelay(m), Processed(m), received[m], Published(m)>>
  BY <1>1 DEF AtRelay, Processed, Held, Published
<1>3. CASE Post(r)
  <2> DEFINE x == polled[r]
  <2>1. /\ UNCHANGED <<wire, lost>> /\ x # None /\ queue' = Append(queue, x)
        /\ polled' = [polled EXCEPT ![r] = None]
    BY <1>3 DEF Post, network
  <2>2. x \in Messages /\ x[1] = r /\ queue \in Seq(Messages)
    BY <2>1 DEF TypeOK, OwnMessages
  <2>3. Queued(m)' = Queued(m) + Once(x = m)
    BY <2>1, <2>2, OccursAppend DEF Queued
  <2>4. Polled(m) = Polled(m)' + Once(x = m) /\ Polled(m)' \in Nat /\ Once(x = m) \in Nat
    <3>1. CASE m[1] = r
      <4>1. polled'[m[1]] = None /\ None # m
        BY <2>1, <3>1, CountsAreNat DEF TypeOK
      <4> QED
        BY <3>1, <4>1 DEF Polled, Once
    <3>2. CASE m[1] # r
      <4>1. polled'[m[1]] = polled[m[1]] /\ x # m
        BY <2>1, <2>2, <3>2, CountsAreNat DEF TypeOK
      <4> QED
        BY <4>1 DEF Polled, Once
    <3> QED
      BY <3>1, <3>2
  <2>5. UNCHANGED <<OnTheWire(m), Lost(m)>>
    BY <2>1 DEF OnTheWire, Lost
  <2> QED
    BY <1>2, <2>3, <2>4, <2>5, CountsAreNat DEF OnceSomewhere, Underway
<1>4. CASE Reconnect(r)
  <2>1. Unplug({r}, "new") /\ Loses(OnWire({r})) /\ UNCHANGED <<queue, polled>>
    BY <1>4 DEF Reconnect
  <2>2. UNCHANGED <<Polled(m), Queued(m)>>
    BY <2>1 DEF Polled, Queued
  <2>3. /\ OnTheWire(m)' + Lost(m)' = OnTheWire(m) + Lost(m)
        /\ OnTheWire(m)' \in Nat /\ Lost(m)' \in Nat
    BY <2>1, BrokenLinksLose
  <2> QED
    BY <1>2, <2>2, <2>3, CountsAreNat DEF OnceSomewhere, Underway
<1>5. CASE UNCHANGED <<network, queue, polled, lost>>
  BY <1>1, <1>5, UnmovedAccounts DEF network
<1> QED
  BY <1>3, <1>4, <1>5 DEF HandlePolled

LEMMA PolledOwn ==
  ASSUME TypeOK, OwnMessages, NEW m \in Messages
  PROVE  m \in {polled[r] : r \in Relays} <=> Polled(m) = 1
BY CountsAreNat DEF OwnMessages, Polled, Once

(* An exception in the loop loses what was polled and is on the way. *)
LEMMA ReceiverFailsAccounts ==
  ASSUME TypeOK, OwnMessages, NEW m \in Messages, OnceSomewhere(m), ReceiverFails
  PROVE  OnceSomewhere(m)'
<1>1. /\ UNCHANGED <<accepted, relayQueue, queue, processing, received>>
      /\ polled' = [r \in Relays |-> None] /\ Unplug(Relays, "new")
      /\ Loses(OnWire(Relays) \cup {polled[r] : r \in Relays})
  BY DEF ReceiverFails, relayVars, processors
<1>2. UNCHANGED <<AtRelay(m), Queued(m), Processed(m), received[m], Published(m)>>
  BY <1>1 DEF AtRelay, Queued, Processed, Held, Published
<1>3. Polled(m)' = 0 /\ OnTheWire(m)' = 0
  BY <1>1, CountsAreNat, UnplugCounts DEF Polled, Once
<1>4. Lost(m)' = IF OnTheWire(m) > 0 \/ Polled(m) = 1 THEN 1 ELSE Lost(m)
  BY <1>1, CountsAreNat, LosesCounts, OnWireOwn, PolledOwn
<1>5. OnTheWire(m) + Polled(m) + Lost(m) <= 1
  BY CountsAreNat DEF OnceSomewhere, Underway
<1>6. Lost(m)' = OnTheWire(m) + Polled(m) + Lost(m)
  BY <1>4, <1>5, CountsAreNat
<1> QED
  BY <1>2, <1>3, <1>6, CountsAreNat DEF OnceSomewhere, Underway

(* A crash of the receiver loses all it holds. *)
LEMMA CrashReceiverAccounts ==
  ASSUME TypeOK, OwnMessages, NEW m \in Messages, OnceSomewhere(m), CrashReceiver
  PROVE  OnceSomewhere(m)'
<1>1. /\ UNCHANGED <<accepted, relayQueue, received>>
      /\ polled' = [r \in Relays |-> None] /\ Unplug(Relays, "new")
      /\ queue' = <<>> /\ processing' = [p \in Processors |-> None]
      /\ Loses(OnWire(Relays) \cup ToSet(queue) \cup {polled[r] : r \in Relays}
                 \cup {processing[p] : p \in Processors})
  BY DEF CrashReceiver, relayVars
<1>2. UNCHANGED <<AtRelay(m), received[m], Published(m)>>
  BY <1>1 DEF AtRelay, Published
<1>3. Polled(m)' = 0 /\ OnTheWire(m)' = 0 /\ Queued(m)' = 0
  BY <1>1, CountsAreNat, UnplugCounts, OccursNowhere DEF Polled, Queued, Once
<1>4. Processed(m)' = 0
  <2>1. Held(m)' = {}
    BY <1>1, CountsAreNat DEF Held
  <2> QED
    BY <2>1, FS_EmptySet DEF Processed
<1>5. m \in ToSet(queue) <=> Queued(m) > 0
  BY CountsAreNat, OccursNat DEF TypeOK, Queued
<1>6. m \in {processing[p] : p \in Processors} <=> Processed(m) > 0
  <2>1. Processed(m) = 0 <=> Held(m) = {}
    BY CountsAreNat, FS_EmptySet DEF Processed
  <2>2. Held(m) = {} <=> m \notin {processing[p] : p \in Processors}
    BY DEF Held
  <2> QED
    BY <2>1, <2>2, CountsAreNat
<1>7. Lost(m)' = IF OnTheWire(m) > 0 \/ Queued(m) > 0 \/ Polled(m) = 1 \/ Processed(m) > 0
                   THEN 1 ELSE Lost(m)
  BY <1>1, <1>5, <1>6, CountsAreNat, LosesCounts, OnWireOwn, PolledOwn
<1> QED
  BY <1>2, <1>3, <1>4, <1>7, CountsAreNat DEF OnceSomewhere, Underway

(* A processor takes the first message of the queue. *)
LEMMA ReceiveAccounts ==
  ASSUME TypeOK, NEW m \in Messages, OnceSomewhere(m), NEW p \in Processors, Receive(p)
  PROVE  OnceSomewhere(m)'
<1> DEFINE h == Head(queue)
<1>1. /\ UNCHANGED <<accepted, relayQueue, wire, polled, received, lost>>
      /\ processing[p] = None /\ processing' = [processing EXCEPT ![p] = h]
      /\ queue \in Seq(Messages) /\ queue # <<>> /\ queue' = Tail(queue)
  BY DEF Receive, TypeOK, relayVars, network, loop
<1>2. Queued(m) = Once(h = m) + Queued(m)' /\ Queued(m)' \in Nat /\ Once(h = m) \in Nat
  BY <1>1, OccursTail DEF Queued, Once
<1>3. Processed(m)' = Processed(m) + Once(h = m)
  <2>1. p \notin Held(m) /\ IsFiniteSet(Held(m))
    BY <1>1, CountsAreNat DEF Held
  <2>2. Held(m)' = IF h = m THEN Held(m) \cup {p} ELSE Held(m)
    BY <1>1, CountsAreNat DEF TypeOK, Held
  <2>3. Cardinality(Held(m) \cup {p}) = Cardinality(Held(m)) + 1
    BY <2>1, FS_AddElement
  <2> QED
    BY <2>2, <2>3, CountsAreNat DEF Processed, Once
<1>4. UNCHANGED <<AtRelay(m), OnTheWire(m), Polled(m), received[m], Lost(m), Published(m)>>
  BY <1>1 DEF AtRelay, OnTheWire, Polled, Lost, Published
<1> QED
  BY <1>2, <1>3, <1>4, CountsAreNat DEF OnceSomewhere, Underway

(* A processor hands its message over, or loses it. *)
LEMMA ProcessMessageAccounts ==
  ASSUME TypeOK, NEW m \in Messages, OnceSomewhere(m), NEW p \in Processors, ProcessMessage(p)
  PROVE  OnceSomewhere(m)'
<1> DEFINE y == processing[p]
<1>1. /\ UNCHANGED <<accepted, relayQueue, wire, polled, queue>>
      /\ y \in Messages /\ processing' = [processing EXCEPT ![p] = None]
      /\ \/ received' = [received EXCEPT ![y] = @ + 1] /\ UNCHANGED lost
         \/ Loses({y}) /\ UNCHANGED received
  BY DEF ProcessMessage, TypeOK, relayVars, network, loop
<1>2. Processed(m) = Once(y = m) + Processed(m)' /\ Processed(m)' \in Nat /\ Once(y = m) \in Nat
  <2>1. /\ IsFiniteSet(Held(m)) /\ Held(m)' = Held(m) \ {p} /\ (p \in Held(m) <=> y = m)
        /\ Processed(m) \in Nat
    BY <1>1, CountsAreNat DEF TypeOK, Held
  <2>2. /\ IsFiniteSet(Held(m) \ {p})
        /\ Cardinality(Held(m) \ {p}) = IF p \in Held(m) THEN Cardinality(Held(m)) - 1
                                                        ELSE Cardinality(Held(m))
    BY <2>1, FS_RemoveElement
  <2>3. Cardinality(Held(m) \ {p}) \in Nat
    BY <2>2, FS_CardinalityType
  <2> QED
    BY <2>1, <2>2, <2>3 DEF Processed, Once
<1>3. /\ received'[m] + Lost(m)' = received[m] + Lost(m) + Once(y = m)
      /\ received'[m] \in Nat /\ Lost(m)' \in Nat
  <2>1. CASE received' = [received EXCEPT ![y] = @ + 1] /\ UNCHANGED lost
    <3>1. received'[m] = received[m] + Once(y = m)
      BY <1>1, <2>1, CountsAreNat DEF TypeOK, Once
    <3>2. Lost(m)' = Lost(m)
      BY <2>1 DEF Lost
    <3> QED
      BY <1>2, <3>1, <3>2, CountsAreNat
  <2>2. CASE Loses({y}) /\ UNCHANGED received
    <3>1. Lost(m)' = IF y = m THEN 1 ELSE Lost(m)
      BY <2>2, LosesCounts
    <3>2. Processed(m) + Lost(m) <= 1
      BY CountsAreNat DEF OnceSomewhere, Underway
    <3>3. y = m => Processed(m) > 0
      BY <1>2 DEF Once
    <3> QED
      BY <2>2, <3>1, <3>2, <3>3, CountsAreNat DEF Once
  <2> QED
    BY <1>1, <2>1, <2>2
<1>4. UNCHANGED <<AtRelay(m), OnTheWire(m), Polled(m), Queued(m), Published(m)>>
  BY <1>1 DEF AtRelay, OnTheWire, Polled, Queued, Published
<1>5. Processed(m)' + received'[m] + Lost(m)' = Processed(m) + received[m] + Lost(m)
  <2>1. Processed(m) \in Nat /\ received[m] \in Nat /\ Lost(m) \in Nat
    BY CountsAreNat
  <2> HIDE DEF y
  <2> QED
    BY <1>2, <1>3, <2>1
<1> QED
  BY <1>2, <1>3, <1>4, <1>5, CountsAreNat DEF OnceSomewhere, Underway

AccountInv == TypeOK /\ OwnMessages /\ PolledInRound /\ Accounted

LEMMA InitAccounted == Init => Accounted
<1> SUFFICES ASSUME Init, NEW m \in Messages PROVE OnceSomewhere(m)
  BY AccountedForAll
<1>1. m[1] \in Relays /\ m[2] \in 1 .. MaxShares /\ m # None
  BY RelayAssumption DEF Messages
<1>2. AtRelay(m) = 0 /\ OnTheWire(m) = 0 /\ Queued(m) = 0
  BY <1>1, OccursNowhere DEF Init, AtRelay, OnTheWire, Queued
<1>3. Polled(m) = 0 /\ Lost(m) = 0 /\ received[m] = 0
  BY <1>1 DEF Init, Polled, Lost, Once
<1>4. Published(m) = 0
  BY <1>1, RelayAssumption DEF Init, Published, Once
<1>5. Processed(m) = 0
  <2>1. Held(m) = {}
    BY <1>1 DEF Init, Held
  <2> QED
    BY <2>1, FS_EmptySet DEF Processed
<1> QED
  BY <1>2, <1>3, <1>4, <1>5 DEF OnceSomewhere, Underway

LEMMA NextAccounted ==
  ASSUME AccountInv, [Next]_vars, NEW m \in Messages
  PROVE  OnceSomewhere(m)'
<1>0. TypeOK /\ OwnMessages /\ PolledInRound /\ OnceSomewhere(m)
  BY AccountedForAll DEF AccountInv
<1>1. ASSUME NEW r \in Relays, AcceptShare(r) PROVE OnceSomewhere(m)'
  BY <1>0, <1>1, AcceptShareAccounts
<1>2. ASSUME NEW r \in Relays, RelayShare(r) PROVE OnceSomewhere(m)'
  BY <1>0, <1>2, RelayShareAccounts
<1>3. ASSUME NEW r \in Relays, StopRelay(r) PROVE OnceSomewhere(m)'
  BY <1>0, <1>3, StopRelayAccounts
<1>4. ASSUME NEW r \in Relays, Subscribed(r) \/ Silence(r) PROVE OnceSomewhere(m)'
  BY <1>0, <1>4, UnmovedAccounts DEF Subscribed, Silence, relayVars, network, loop, processors
<1>5. ASSUME NEW r \in Relays, Break(r) PROVE OnceSomewhere(m)'
  <2>1. /\ UNCHANGED <<accepted, relayQueue, polled, queue, processing, received>>
        /\ Loses(OnWire({r})) /\ \E now : Unplug({r}, now)
    BY <1>5 DEF Break, relayVars, loop, processors
  <2>2. /\ OnTheWire(m)' + Lost(m)' = OnTheWire(m) + Lost(m)
        /\ OnTheWire(m)' \in Nat /\ Lost(m)' \in Nat
    BY <1>0, <2>1, BrokenLinksLose
  <2>3. /\ UNCHANGED <<AtRelay(m), Polled(m), Queued(m), Processed(m), received[m]>>
        /\ UNCHANGED Published(m)
    BY <2>1 DEF AtRelay, Polled, Queued, Processed, Held, Published
  <2> QED
    BY <1>0, <2>2, <2>3, CountsAreNat DEF OnceSomewhere, Underway
<1>6. CASE PollIn
  BY <1>0, <1>6, PollInAccounts
<1>7. ASSUME NEW r \in Relays, HandlePolled(r) PROVE OnceSomewhere(m)'
  BY <1>0, <1>7, HandlePolledAccounts
<1>8. CASE ReceiverFails
  BY <1>0, <1>8, ReceiverFailsAccounts
<1>9. CASE CrashReceiver
  BY <1>0, <1>9, CrashReceiverAccounts
<1>10. CASE SetupSockets \/ AttachPool
  BY <1>0, <1>10, UnmovedAccounts DEF SetupSockets, AttachPool, relayVars, network, loop, processors
<1>11. ASSUME NEW p \in Processors, Receive(p) PROVE OnceSomewhere(m)'
  BY <1>0, <1>11, ReceiveAccounts
<1>12. ASSUME NEW p \in Processors, ProcessMessage(p) PROVE OnceSomewhere(m)'
  BY <1>0, <1>12, ProcessMessageAccounts
<1>13. CASE UNCHANGED vars
  BY <1>0, <1>13, UnmovedAccounts DEF vars, relayVars, network, loop, processors
<1> QED
  BY <1>1, <1>2, <1>3, <1>4, <1>5, <1>6, <1>7, <1>8, <1>9, <1>10, <1>11, <1>12, <1>13
  DEF Next, Receiver, Processor

LEMMA AccountInvariant == Spec => []AccountInv
<1>1. Init => AccountInv
  BY InitTypeOK, InitOwn, InitAccounted DEF AccountInv
<1>2. AccountInv /\ [Next]_vars => AccountInv'
  <2> SUFFICES ASSUME AccountInv, [Next]_vars PROVE AccountInv'
    OBVIOUS
  <2>1. TypeOK' /\ OwnMessages' /\ PolledInRound'
    BY NextTypeOK, NextOwn DEF AccountInv
  <2>2. \A m \in Messages : OnceSomewhere(m)'
    BY NextAccounted
  <2>3. (Accounted <=> \A m \in Messages : OnceSomewhere(m))'
    BY AccountedForAll, PTL
  <2> QED
    BY <2>1, <2>2, <2>3 DEF AccountInv
<1> QED
  BY <1>1, <1>2, PTL DEF Spec

(***************************************************************************)
(* From its acceptance on a share is in exactly one place, and it reaches  *)
(* the recorders at most once, whatever breaks or crashes.                 *)
(***************************************************************************)
THEOREM SharesAreAccountedFor == Spec => []Accounted
<1>1. AccountInv => Accounted
  BY DEF AccountInv
<1> QED
  BY <1>1, AccountInvariant, PTL

-----------------------------------------------------------------------------
(***************************************************************************)
(* The channel.  A message that is somewhere on its way was sent, and      *)
(* neither handed over nor lost; so a step that hands it over or loses it  *)
(* is one of the channel.                                                  *)
(***************************************************************************)
Sent == {m \in Messages : m[2] <= accepted[m[1]]}

LEMMA UnderwayIs ==
  ASSUME AccountInv, NEW m \in Messages,
         AtRelay(m) > 0 \/ OnTheWire(m) > 0 \/ Polled(m) = 1 \/ Queued(m) > 0 \/ Processed(m) > 0
  PROVE  m \in Channel!Underway
<1>1. TypeOK /\ Underway(m) = Published(m)
  BY AccountedForAll DEF AccountInv, OnceSomewhere
<1>2. Published(m) = 1 /\ received[m] = 0 /\ Lost(m) = 0
  BY <1>1, CountsAreNat, SMTT(30) DEF Underway
<1>3. m \in Sent /\ m \notin lost
  BY <1>2 DEF Sent, Published, Lost, Once
<1> QED
  BY <1>2, <1>3 DEF Channel!Underway, Sent

LEMMA PlacesUnderway ==
  ASSUME AccountInv
  PROVE  /\ OnWire(Relays) \subseteq Channel!Underway
         /\ \A r \in Relays : /\ OnWire({r}) \subseteq Channel!Underway
                              /\ ToSet(relayQueue[r]) \subseteq Channel!Underway
         /\ ToSet(queue) \subseteq Channel!Underway
         /\ {polled[r] : r \in Relays} \subseteq Channel!Underway \cup {None}
         /\ {processing[p] : p \in Processors} \subseteq Channel!Underway \cup {None}
<1>0. TypeOK /\ OwnMessages /\ RelaysOK /\ NetworkOK /\ LoopOK /\ ProcessorsOK
  BY TypeParts DEF AccountInv
<1>1. ASSUME NEW some, some \subseteq Relays
      PROVE  OnWire(some) \subseteq Channel!Underway
  BY <1>0, <1>1, WireTyped, OnWireOwn, UnderwayIs
<1>2. ASSUME NEW r \in Relays, NEW m \in ToSet(relayQueue[r])
      PROVE  m \in Channel!Underway
  <2>1. m \in Messages /\ m[1] = r
    BY <1>0, <1>2, QueuesTyped DEF OwnMessages
  <2>2. AtRelay(m) # 0
    BY <1>0, <2>1, OccursNat DEF RelaysOK, AtRelay
  <2> QED
    BY <1>0, <2>1, <2>2, CountsAreNat, UnderwayIs
<1>3. ASSUME NEW m \in ToSet(queue)
      PROVE  m \in Channel!Underway
  <2>1. m \in Messages
    BY <1>0, QueuesTyped
  <2>2. Queued(m) # 0
    BY <1>0, OccursNat DEF ProcessorsOK, Queued
  <2> QED
    BY <1>0, <2>1, <2>2, CountsAreNat, UnderwayIs
<1>4. ASSUME NEW r \in Relays, polled[r] # None
      PROVE  polled[r] \in Channel!Underway
  <2>1. polled[r] \in Messages
    BY <1>0, <1>4 DEF LoopOK
  <2>2. Polled(polled[r]) = 1
    BY <1>0, <2>1, PolledOwn
  <2> QED
    BY <2>1, <2>2, UnderwayIs
<1>5. ASSUME NEW p \in Processors, processing[p] # None
      PROVE  processing[p] \in Channel!Underway
  <2> DEFINE m == processing[p]
  <2>1. m \in Messages
    BY <1>0, <1>5 DEF ProcessorsOK
  <2>2. Held(m) # {} /\ IsFiniteSet(Held(m)) /\ Processed(m) \in Nat
    BY <1>0, <2>1, CountsAreNat DEF Held
  <2>3. Processed(m) # 0
    BY <2>2, FS_EmptySet DEF Processed
  <2> QED
    BY <2>1, <2>2, <2>3, UnderwayIs
<1> QED
  BY <1>1, <1>2, <1>3, <1>4, <1>5

ChannelStep == Channel!Next \/ UNCHANGED <<Sent, received, lost>>

LEMMA LosesDrops ==
  ASSUME NEW some, some \subseteq Channel!Underway \cup {None}, Loses(some),
         UNCHANGED <<accepted, received>>
  PROVE  ChannelStep
<1> DEFINE gone == some \ {None}
<1>1. gone \in SUBSET Channel!Underway /\ lost' = lost \cup gone
  BY DEF Loses
<1>2. Channel!Drop(gone)
  BY <1>1 DEF Channel!Drop
<1> QED
  BY <1>1, <1>2 DEF Channel!Next, ChannelStep

LEMMA AcceptShareSends ==
  ASSUME TypeOK, NEW r \in Relays, AcceptShare(r)
  PROVE  ChannelStep
<1>1. /\ accepted[r] \in 0 .. MaxShares /\ accepted[r] < MaxShares
      /\ accepted' = [accepted EXCEPT ![r] = @ + 1] /\ UNCHANGED <<received, lost>>
  BY DEF AcceptShare, TypeOK
<1>2. accepted'[r] = accepted[r] + 1 /\ \A q \in Relays \ {r} : accepted'[q] = accepted[q]
  BY <1>1 DEF TypeOK
<1>3. PICK x \in Messages : x[1] = r /\ x[2] = accepted[r] + 1
  <2>1. <<r, accepted[r] + 1>> \in Messages
    BY <1>1, RelayAssumption DEF Messages
  <2> QED
    BY <2>1
<1>4. x \notin Sent
  BY <1>1, <1>3 DEF Sent
<1>5. ASSUME NEW m \in Messages
      PROVE  m[2] <= accepted'[m[1]] <=> m[2] <= accepted[m[1]] \/ m = x
  <2>1. m = <<m[1], m[2]>> /\ m[1] \in Relays /\ m[2] \in Nat
    BY RelayAssumption DEF Messages
  <2>2. CASE m[1] = r
    <3>1. m = x <=> m[2] = accepted[r] + 1
      <4>1. x = <<x[1], x[2]>>
        BY DEF Messages
      <4> QED
        BY <2>1, <2>2, <1>3, <4>1
    <3> QED
      BY <1>1, <1>2, <2>1, <2>2, <3>1
  <2>3. CASE m[1] # r
    BY <1>2, <1>3, <2>1, <2>3
  <2> QED
    BY <2>2, <2>3
<1>6. Sent' = Sent \cup {x}
  BY <1>3, <1>5 DEF Sent
<1>7. Channel!Send(x)
  BY <1>1, <1>4, <1>6 DEF Channel!Send, Sent
<1> QED
  BY <1>7 DEF Channel!Next, ChannelStep

LEMMA NextChannel ==
  ASSUME AccountInv, [Next]_vars
  PROVE  ChannelStep
<1>0. UNCHANGED <<accepted, received, lost>> => ChannelStep
  BY DEF ChannelStep, Sent
<1>1. ASSUME NEW r \in Relays, AcceptShare(r) PROVE ChannelStep
  BY <1>1, AcceptShareSends DEF AccountInv
<1>2. ASSUME NEW r \in Relays, RelayShare(r) PROVE ChannelStep
  <2>1. relayQueue[r] \in Seq(Messages) /\ relayQueue[r] # <<>>
    BY <1>2 DEF RelayShare, AccountInv, TypeOK
  <2>2. {Head(relayQueue[r])} \subseteq Channel!Underway
    <3>1. Head(relayQueue[r]) \in ToSet(relayQueue[r])
      BY <2>1, SetOfQueue
    <3> QED
      BY <3>1, PlacesUnderway
  <2> QED
    BY <1>0, <1>2, <2>2, LosesDrops DEF RelayShare
<1>3. ASSUME NEW r \in Relays, StopRelay(r) PROVE ChannelStep
  BY <1>3, PlacesUnderway, LosesDrops DEF StopRelay
<1>4. ASSUME NEW r \in Relays, Subscribed(r) \/ Silence(r) PROVE ChannelStep
  BY <1>0, <1>4 DEF Subscribed, Silence, relayVars
<1>5. ASSUME NEW r \in Relays, Break(r) PROVE ChannelStep
  BY <1>5, PlacesUnderway, LosesDrops DEF Break, relayVars
<1>6. CASE PollIn \/ SetupSockets \/ AttachPool
  BY <1>0, <1>6 DEF PollIn, SetupSockets, AttachPool, relayVars
<1>7. ASSUME NEW r \in Relays, HandlePolled(r) PROVE ChannelStep
  <2>1. UNCHANGED <<accepted, received>>
    BY <1>7 DEF HandlePolled, relayVars
  <2>2. UNCHANGED lost \/ Loses(OnWire({r}))
    BY <1>7 DEF HandlePolled, Post, Reconnect
  <2> QED
    BY <1>0, <2>1, <2>2, PlacesUnderway, LosesDrops
<1>8. CASE ReceiverFails
  BY <1>8, PlacesUnderway, LosesDrops DEF ReceiverFails, relayVars
<1>9. CASE CrashReceiver
  BY <1>9, PlacesUnderway, LosesDrops DEF CrashReceiver, relayVars
<1>10. ASSUME NEW p \in Processors, Receive(p) PROVE ChannelStep
  BY <1>0, <1>10 DEF Receive, relayVars
<1>11. ASSUME NEW p \in Processors, ProcessMessage(p) PROVE ChannelStep
  <2> DEFINE y == processing[p]
  <2>1. y \in Messages /\ y # None /\ UNCHANGED accepted
    BY <1>11 DEF ProcessMessage, AccountInv, TypeOK, relayVars
  <2>2. y \in Channel!Underway
    BY <2>1, PlacesUnderway
  <2>3. CASE y \notin Unreadable /\ received' = [received EXCEPT ![y] = @ + 1] /\ UNCHANGED lost
    <3>1. Channel!Deliver(y)
      BY <2>1, <2>2, <2>3 DEF Channel!Deliver
    <3> QED
      BY <2>1, <3>1 DEF Channel!Next, ChannelStep
  <2>4. CASE Loses({y}) /\ UNCHANGED received
    BY <2>1, <2>2, <2>4, LosesDrops
  <2> QED
    BY <1>11, <2>3, <2>4 DEF ProcessMessage
<1>12. CASE UNCHANGED vars
  BY <1>0, <1>12 DEF vars, relayVars
<1> QED
  BY <1>1, <1>2, <1>3, <1>4, <1>5, <1>6, <1>7, <1>8, <1>9, <1>10, <1>11, <1>12
  DEF Next, Receiver, Processor

(***************************************************************************)
(* Relays, connections and receiver implement the channel that hands over  *)
(* each share at most once, and none that it dropped or cannot read.       *)
(***************************************************************************)
THEOREM RelayIsChannel == Spec => ImplementsChannel
<1>1. Init => Channel!Init
  <2>1. Init => Sent = {}
    BY RelayAssumption DEF Init, Sent, Messages
  <2> QED
    BY <2>1 DEF Init, Channel!Init, Sent
<1>2. AccountInv /\ [Next]_vars => [Channel!Next]_<<Sent, received, lost>>
  BY NextChannel DEF ChannelStep
<1> QED
  BY <1>1, <1>2, AccountInvariant, PTL DEF Spec, ImplementsChannel, Channel!Spec, Sent

=============================================================================
