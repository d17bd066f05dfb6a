--------------------------- MODULE MCTransferWindow ---------------------------
(* Two or three jobs; the configurations choose what may happen to them.     *)
EXTENDS TransferWindow

CONSTANTS j1, j2, j3

MCJobs == Permutations(Job)
=============================================================================
