------------------------------ MODULE MCRelay ------------------------------
(* Two relays with two shares each, of which one cannot be read, two       *)
(* processors, and one fault.  The buffers of the first relay hold one     *)
(* share, those of the second both.                                        *)
EXTENDS Relay, TLC

CONSTANTS r1, r2, p1, p2
MCUnreadable == {<<r1, 1>>}
MCHighWaterMark == [r \in Relays |-> IF r = r1 THEN 1 ELSE 2]

=============================================================================
