-------------------------------- MODULE Relay --------------------------------
(***************************************************************************)
(* Relays and their receiver: a pool process with a relay publishes every  *)
(* share on a ZeroMQ socket, without acknowledgement; the receiver polls   *)
(* one socket for each relay, puts what arrives into a queue, and several  *)
(* processors hand it to the recorders of the receiving process.           *)
(***************************************************************************)
EXTENDS Integers, Sequences, FiniteSets, SequencesExt

CONSTANTS
  Relays,
  Processors,   \* as many as there are cores
  Unreadable,   \* messages the receiver cannot deserialize
  HighWaterMark, \* what the buffers of relay and receiver hold, for each relay
  None,
  MaxShares,    \* bound: shares of a relay
  MaxFaults     \* bound: crashes, broken connections, exceptions

Messages == Relays \X (1 .. MaxShares)

ASSUME RelayAssumption ==
  /\ MaxShares \in Nat /\ MaxFaults \in Nat /\ IsFiniteSet(Processors)
  /\ Unreadable \subseteq Messages /\ None \notin Messages
  /\ HighWaterMark \in [Relays -> Nat]

VARIABLES
  (* relays *)
  accepted,     \* shares accepted so far
  relayQueue,
  (* connections *)
  link,         \* new: not subscribed yet, up, cut: gone and nobody noticed
  wire,         \* on the way to the receiver
  (* receiver *)
  polling,      \* where its loop is
  rest,         \* relays of this round still to be looked at
  polled,       \* what PollIn returned
  overdue,      \* nothing received for longer than reconnectTimeout
  queue,
  processing,   \* what a processor is at
  attached,     \* the pool is known
  (* history *)
  received,     \* how often a share reached the message bus
  lost,
  faults

relayVars == <<accepted, relayQueue>>
network == <<link, wire>>
loop == <<polling, rest, polled, overdue>>
processors == <<queue, processing, attached>>
vars == <<relayVars, network, loop, processors, received, lost, faults>>

TypeOK ==
  /\ accepted \in [Relays -> 0 .. MaxShares]
  /\ relayQueue \in [Relays -> Seq(Messages)]
  /\ link \in [Relays -> {"new", "up", "cut"}] /\ wire \in [Relays -> Seq(Messages)]
  /\ \A r \in Relays : link[r] # "up" => wire[r] = <<>>
  /\ polling \in {"poll", "handle", "sleep"} /\ rest \subseteq Relays
  /\ polled \in [Relays -> Messages \cup {None}] /\ overdue \in [Relays -> BOOLEAN]
  /\ queue \in Seq(Messages) /\ processing \in [Processors -> Messages \cup {None}]
  /\ attached \in BOOLEAN
  /\ received \in [Messages -> Nat] /\ lost \subseteq Messages
  /\ faults \in 0 .. MaxFaults

Init ==
  /\ accepted = [r \in Relays |-> 0] /\ relayQueue = [r \in Relays |-> <<>>]
  /\ link = [r \in Relays |-> "new"] /\ wire = [r \in Relays |-> <<>>]
  /\ polling = "poll" /\ rest = {} /\ polled = [r \in Relays |-> None]
  /\ overdue = [r \in Relays |-> FALSE]
  /\ queue = <<>> /\ processing = [p \in Processors |-> None] /\ attached = FALSE
  /\ received = [m \in Messages |-> 0] /\ lost = {} /\ faults = 0

Unplug(some, now) ==  \* the connections of some relays end
  /\ link' = [r \in Relays |-> IF r \in some THEN now ELSE link[r]]
  /\ wire' = [r \in Relays |-> IF r \in some THEN <<>> ELSE wire[r]]
OnWire(some) == UNION {ToSet(wire[r]) : r \in some}
Loses(some) == lost' = lost \cup (some \ {None})
Fault == faults < MaxFaults /\ faults' = faults + 1

-----------------------------------------------------------------------------
(* Relay *)
AcceptShare(r) ==
  /\ accepted[r] < MaxShares
  /\ accepted' = [accepted EXCEPT ![r] = @ + 1]
  /\ relayQueue' = [relayQueue EXCEPT ![r] = Append(@, <<r, accepted'[r]>>)]
  /\ UNCHANGED <<network, loop, processors, received, lost, faults>>

BuffersForSubscriber(r) ==  \* slip: sent whether somebody subscribed or not
  /\ relayQueue[r] # <<>>
  /\ relayQueue' = [relayQueue EXCEPT ![r] = Tail(@)]
  /\ wire' = [wire EXCEPT ![r] = Append(@, Head(relayQueue[r]))]
  /\ UNCHANGED <<accepted, link, loop, processors, received, lost, faults>>

(* A publisher keeps nothing for subscribers that are not there, and drops *)
(* what the buffers have no room for, without a word.                      *)
Carries(r) == link[r] = "up" /\ Len(wire[r]) < HighWaterMark[r]

RelayShare(r) ==
  /\ relayQueue[r] # <<>>
  /\ relayQueue' = [relayQueue EXCEPT ![r] = Tail(@)]
  /\ \/ /\ Carries(r) /\ UNCHANGED lost
        /\ wire' = [wire EXCEPT ![r] = Append(@, Head(relayQueue[r]))]
     \/ ~Carries(r) /\ Loses({Head(relayQueue[r])}) /\ UNCHANGED wire
  /\ UNCHANGED <<accepted, link, loop, processors, received, faults>>

(* a crash, or Stop: what the queue holds is not sent any more *)
StopRelay(r) ==
  /\ Fault
  /\ relayQueue' = [relayQueue EXCEPT ![r] = <<>>]
  /\ Unplug({r}, "new") /\ Loses(ToSet(relayQueue[r]) \cup OnWire({r}))
  /\ UNCHANGED <<accepted, loop, processors, received>>

-----------------------------------------------------------------------------
(* the network *)
Subscribed(r) ==
  /\ link[r] = "new" /\ polling # "sleep" /\ link' = [link EXCEPT ![r] = "up"]
  /\ UNCHANGED <<relayVars, wire, loop, processors, received, lost, faults>>

Break(r) ==  \* noticed, and ZeroMQ connects anew, or not
  /\ link[r] = "up" /\ Fault
  /\ Unplug({r}, "new") \/ Unplug({r}, "cut")
  /\ Loses(OnWire({r}))
  /\ UNCHANGED <<relayVars, loop, processors, received>>

Silence(r) ==  \* 60 seconds without a message
  /\ wire[r] = <<>> /\ polled[r] = None /\ ~overdue[r]
  /\ overdue' = [overdue EXCEPT ![r] = TRUE]
  /\ UNCHANGED <<relayVars, network, polling, rest, polled, processors, received, lost, faults>>

-----------------------------------------------------------------------------
(* StartMessageReceiver: a round begins when there are messages; a poll    *)
(* that times out does nothing.                                            *)
Ready == {r \in Relays : wire[r] # <<>>}

PollIn ==
  /\ polling = "poll"
  /\ \E some \in SUBSET Ready \ {{}} :
       /\ polled' = [r \in Relays |-> IF r \in some THEN Head(wire[r]) ELSE None]
       /\ wire' = [r \in Relays |-> IF r \in some THEN Tail(wire[r]) ELSE wire[r]]
  /\ polling' = "handle" /\ rest' = Relays
  /\ UNCHANGED <<relayVars, link, overdue, processors, received, lost, faults>>

Looked(r) ==
  /\ polling = "handle" /\ r \in rest
  /\ rest' = rest \ {r} /\ polling' = IF rest' = {} THEN "poll" ELSE "handle"

OneClock(r) ==  \* slip: one time of the last message for all relays
  /\ polled[r] # None
  /\ queue' = Append(queue, polled[r]) /\ polled' = [polled EXCEPT ![r] = None]
  /\ overdue' = [q \in Relays |-> FALSE]
  /\ UNCHANGED <<network, lost>>

KeepsMessage(r) ==  \* slip: the message is posted in the next round again
  /\ polled[r] # None
  /\ queue' = Append(queue, polled[r]) /\ UNCHANGED polled
  /\ overdue' = [overdue EXCEPT ![r] = FALSE]
  /\ UNCHANGED <<network, lost>>

Post(r) ==
  /\ polled[r] # None
  /\ queue' = Append(queue, polled[r]) /\ polled' = [polled EXCEPT ![r] = None]
  /\ overdue' = [overdue EXCEPT ![r] = FALSE]
  /\ UNCHANGED <<network, lost>>

Reconnect(r) ==  \* SetupSubSocket
  /\ polled[r] = None /\ overdue[r]
  /\ Unplug({r}, "new") /\ Loses(OnWire({r}))
  /\ overdue' = [overdue EXCEPT ![r] = FALSE]
  /\ UNCHANGED <<queue, polled>>

HandlePolled(r) ==
  /\ Looked(r)
  /\ \/ Post(r)
     \/ Reconnect(r)
     \/ polled[r] = None /\ ~overdue[r] /\ UNCHANGED <<network, queue, polled, overdue, lost>>
  /\ UNCHANGED <<relayVars, processing, attached, received, faults>>

(* An exception disposes of all sockets; they are set up after 5 seconds. *)
ReceiverFails ==
  /\ polling # "sleep" /\ Fault
  /\ polling' = "sleep" /\ rest' = {} /\ polled' = [r \in Relays |-> None]
  /\ Unplug(Relays, "new") /\ Loses(OnWire(Relays) \cup {polled[r] : r \in Relays})
  /\ UNCHANGED <<relayVars, overdue, processors, received>>

SetupSockets ==
  /\ polling = "sleep" /\ polling' = "poll"
  /\ overdue' = [r \in Relays |-> FALSE]
  /\ UNCHANGED <<relayVars, network, rest, polled, processors, received, lost, faults>>

-----------------------------------------------------------------------------
(* ProcessMessages *)
Receive(p) ==
  /\ processing[p] = None /\ queue # <<>>
  /\ processing' = [processing EXCEPT ![p] = Head(queue)]
  /\ queue' = Tail(queue)
  /\ UNCHANGED <<relayVars, network, loop, attached, received, lost, faults>>

EndsOnException(p) ==  \* slip: the loop is inside the try
  LET m == processing[p]
  IN /\ m # None /\ ~(attached /\ m \in Unreadable)
     /\ processing' = [processing EXCEPT ![p] = None]
     /\ \/ attached /\ received' = [received EXCEPT ![m] = @ + 1] /\ UNCHANGED lost
        \/ ~attached /\ Loses({m}) /\ UNCHANGED received
     /\ UNCHANGED <<relayVars, network, loop, queue, attached, faults>>

ProcessMessage(p) ==
  LET m == processing[p]
  IN /\ m # None
     /\ processing' = [processing EXCEPT ![p] = None]
     /\ \/ /\ attached /\ m \notin Unreadable
           /\ received' = [received EXCEPT ![m] = @ + 1] /\ UNCHANGED lost
        \/ ~(attached /\ m \notin Unreadable) /\ Loses({m}) /\ UNCHANGED received
     /\ UNCHANGED <<relayVars, network, loop, queue, attached, faults>>

(* Start of the process attaches pools after it started the receiver. *)
AttachPool ==
  /\ ~attached /\ attached' = TRUE
  /\ UNCHANGED <<relayVars, network, loop, queue, processing, received, lost, faults>>

CrashReceiver ==
  /\ Fault
  /\ Unplug(Relays, "new")
  /\ polling' = "poll" /\ rest' = {} /\ polled' = [r \in Relays |-> None]
  /\ overdue' = [r \in Relays |-> FALSE]
  /\ queue' = <<>> /\ processing' = [p \in Processors |-> None] /\ attached' = FALSE
  /\ Loses(OnWire(Relays) \cup ToSet(queue) \cup {polled[r] : r \in Relays}
             \cup {processing[p] : p \in Processors})
  /\ UNCHANGED <<relayVars, received>>

Receiver == PollIn \/ (\E r \in Relays : HandlePolled(r)) \/ SetupSockets
Processor(p) == Receive(p) \/ ProcessMessage(p)

Next ==
  \/ \E r \in Relays :
       AcceptShare(r) \/ RelayShare(r) \/ StopRelay(r) \/ Subscribed(r) \/ Break(r) \/ Silence(r)
  \/ Receiver \/ ReceiverFails \/ CrashReceiver \/ AttachPool
  \/ \E p \in Processors : Processor(p)

Spec == Init /\ [][Next]_vars

(* Threads run and sockets subscribe. *)
FairSpec ==
  /\ Spec /\ WF_vars(Receiver) /\ WF_vars(AttachPool)
  /\ \A r \in Relays : WF_vars(RelayShare(r)) /\ WF_vars(Subscribed(r))
  /\ \A p \in Processors : WF_vars(Processor(p))

-----------------------------------------------------------------------------
Occurs(m, s) == Cardinality({i \in DOMAIN s : s[i] = m})
Once(holds) == IF holds THEN 1 ELSE 0

(***************************************************************************)
(* Every share is accounted for: from its acceptance on it is in exactly   *)
(* one place, and it reaches the recorders at most once, whatever breaks.  *)
(***************************************************************************)
Accounted ==
  \A r \in Relays, n \in 1 .. MaxShares :
    LET m == <<r, n>>
    IN Occurs(m, relayQueue[r]) + Occurs(m, wire[r]) + Once(polled[r] = m) + Occurs(m, queue)
         + Cardinality({p \in Processors : processing[p] = m}) + received[m] + Once(m \in lost)
         = Once(n <= accepted[r])

(***************************************************************************)
(* Relays, connections and receiver are one unreliable channel: each share *)
(* is handed over at most once, never after it was lost, never unreadable, *)
(* and what is lost is lost for good.                                      *)
(***************************************************************************)
Channel == INSTANCE ShareChannel WITH
  sent <- {m \in Messages : m[2] <= accepted[m[1]]}, delivered <- received, dropped <- lost
ImplementsChannel == Channel!Spec

(***************************************************************************)
(* Shares get through: each reaches the recorders in the end, or is lost   *)
(* to a connection that is not up, buffers a slow receiver let fill up, a  *)
(* connection made anew, a fault, or a pool that is not attached or cannot *)
(* read it; no message stops a processor, and none waits for ever.         *)
(***************************************************************************)
Arrived(m) == received[m] > 0 \/ m \in lost
GetsThrough ==
  <>[](\A r \in Relays, n \in 1 .. MaxShares : n <= accepted[r] => Arrived(<<r, n>>))

(***************************************************************************)
(* A silent connection is given up: once the time is over, a connection    *)
(* nobody saw break is made anew as soon as another relay has a message,   *)
(* unless something else breaks meanwhile.                                 *)
(***************************************************************************)
Reconnects ==
  \A r \in Relays, k \in 0 .. MaxFaults :
    link[r] = "cut" /\ overdue[r] /\ polling = "poll" /\ Ready # {} /\ faults = k
      ~> link[r] # "cut" \/ faults > k

=============================================================================
