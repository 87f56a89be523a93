---------------------------- MODULE ShareChannel ----------------------------
(***************************************************************************)
(* What relays and receiver promise together: an unreliable channel that   *)
(* hands over a share at most once, none that was dropped, none that was   *)
(* not sent, and never what the receiver cannot read.  Relay implements    *)
(* this channel.                                                           *)
(***************************************************************************)
EXTENDS Integers

CONSTANTS Messages, Unreadable

VARIABLES
  sent,
  delivered,  \* how often
  dropped

Underway == {m \in sent : delivered[m] = 0} \ dropped

Init == sent = {} /\ delivered = [m \in Messages |-> 0] /\ dropped = {}

Send(m) ==
  /\ m \notin sent /\ sent' = sent \cup {m}
  /\ UNCHANGED <<delivered, dropped>>

Deliver(m) ==
  /\ m \in Underway \ Unreadable
  /\ delivered' = [delivered EXCEPT ![m] = @ + 1]
  /\ UNCHANGED <<sent, dropped>>

(* whatever breaks takes some of the messages with it *)
Drop(some) == dropped' = dropped \cup some /\ UNCHANGED <<sent, delivered>>

Next ==
  \/ \E m \in Messages : Send(m) \/ Deliver(m)
  \/ \E some \in SUBSET Underway : Drop(some)

Spec == Init /\ [][Next]_<<sent, delivered, dropped>>

=============================================================================
