-------------------------------- MODULE Sums --------------------------------
(***************************************************************************)
(* The sum of the values a function takes on a finite set: what the rows   *)
(* of a table add up to.                                                   *)
(***************************************************************************)
EXTENDS Integers, FiniteSetsExt

Total(f, S) == MapThenSumSet(LAMBDA x : f[x], S)

=============================================================================
