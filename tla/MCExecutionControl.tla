------------------------- MODULE MCExecutionControl -------------------------
(* Three threads, so that one notification has two sleepers to wake, and two *)
(* files, so that consuming one skip leaves another.                        *)
EXTENDS ExecutionControl
=============================================================================
