-------------------------- MODULE MCQueueRecovery --------------------------
(***************************************************************************)
(* Saved queues on small instances.                                        *)
(***************************************************************************)
EXTENDS QueueRecovery, TLC

CONSTANTS w1, w2, i1, i2, j1, j2

\* Each job has one item.
MCContent == j1 :> {i1} @@ j2 :> {i2}

\* Every item has a destination of its own.
MCKey == [i \in Item |-> i]

MCWindows == Permutations(Window)
=============================================================================
