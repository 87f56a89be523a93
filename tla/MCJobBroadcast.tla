--------------------------- MODULE MCJobBroadcast ---------------------------
(* One connection, two jobs, two requests at a time. *)
EXTENDS JobBroadcast, TLC

=============================================================================
