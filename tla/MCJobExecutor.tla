--------------------------- MODULE MCJobExecutor ---------------------------
(* Two or three items and two workers; at most one planned directory.        *)
EXTENDS JobExecutor, TLC

CONSTANTS i1, i2, i3, w1, w2, f1

MCInside == [f \in Folder |-> {i2, i3} \cap Item]
MCWorkers == Permutations({w1, w2})
=============================================================================
