--------------------------- MODULE MCLiveCopyPlan ---------------------------
(* Small plans for TLC: batches of up to MaxBatch files, and batches that    *)
(* only bring a directory or entries the planner could not transfer.         *)
EXTENDS LiveCopyPlan, TLC

CONSTANTS k1, k2, k3, MaxBatch, MaxFailures

MCKey == {k1, k2, k3}
MCFolder == kSubset(2, MCKey)
MCSymmetry == Permutations(MCKey)

\* The files of one batch are of one size; batches of several sizes mix them.
MCFiles ==
    UNION {{[i \in 1..n |-> [dest |-> keys[i], size |-> size]] :
              keys \in [1..n -> MCKey], size \in Size} : n \in 0..MaxBatch}

Plain(files, dirs, failures) ==
    [files |-> files, failures |-> failures, directories |-> dirs,
     sameRoot |-> TRUE, sameOperation |-> TRUE]

MCBatch ==
    {Plain(files, 0, 0) : files \in MCFiles}
      \cup {Plain(<<>>, 0, failures) : failures \in 0..MaxFailures}
      \cup {Plain(<<>>, dirs, 0) : dirs \in 0..MaxFolders}
      \cup {[Plain(<<>>, 0, 0) EXCEPT !.sameRoot = FALSE],
            [Plain(<<>>, 0, 0) EXCEPT !.sameOperation = FALSE]}
=============================================================================
