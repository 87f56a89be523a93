---------------------------- MODULE MCShareRecorder ----------------------------
(***************************************************************************)
(* Instances of ShareRecorder: three shares, the first of which found a    *)
(* block.  Three batches of one share suffice to break the circuit with    *)
(* two of them and to meet the broken or half-open one with the third.     *)
(***************************************************************************)
EXTENDS ShareRecorder

ThreeShares == 1 .. 3
FoundBlock == {1}

=============================================================================
