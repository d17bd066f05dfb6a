----------------------------- MODULE MCQueueList -----------------------------
(***************************************************************************)
(* Two plans of up to three files on pages of two.  The closed form that   *)
(* QueueList gives of the moves is compared with the loop of the code.     *)
(***************************************************************************)
EXTENDS QueueList

Swap(s, i) == [s EXCEPT ![i] = s[i + 1], ![i + 1] = s[i]]

\* The loop of move_pending_files_up(), from the second file to the last.
MoveUpLoop(s, chosen) ==
    LET passed[i \in 1..Len(s)] ==
          IF i = 1 THEN s
          ELSE LET t == passed[i - 1] IN
               IF t[i].id \in chosen /\ t[i - 1].id \notin chosen THEN Swap(t, i - 1) ELSE t
    IN IF s = <<>> THEN s ELSE passed[Len(s)]

\* The loop of move_pending_files_down(), from the last file but one to the first.
MoveDownLoop(s, chosen) ==
    LET n == Len(s)
        passed[i \in 1..n] ==
          IF i = 1 THEN s
          ELSE LET t == passed[i - 1] IN
               IF t[n + 1 - i].id \in chosen /\ t[n + 2 - i].id \notin chosen
               THEN Swap(t, n + 1 - i) ELSE t
    IN IF s = <<>> THEN s ELSE passed[n]

\* Both agree on every queue of up to six files and every selection.
ASSUME LoopsAgree ==
    \A n \in 0..6 : \A chosen \in SUBSET (1..n) :
       LET s == [i \in 1..n |-> [id |-> i]] IN
       /\ MovedUp(s, chosen) = MoveUpLoop(s, chosen)
       /\ MovedDown(s, chosen) = MoveDownLoop(s, chosen)
=============================================================================
