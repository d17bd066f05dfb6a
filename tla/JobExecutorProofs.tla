-------------------------- MODULE JobExecutorProofs --------------------------
(***************************************************************************)
(* The executor, its workers and the window keep the files and the plan    *)
(* together, for any number of items, workers, directories and sessions.   *)
(*                                                                         *)
(* The invariant says, for each place a worker can be at, what it may rely *)
(* on about the files of its item; for each item that nobody holds, what   *)
(* its state in the plan says about its files; and, for a file about which *)
(* the user is going to be asked, why no other worker can settle it in the *)
(* meantime.  A worker changes its own item only, so a step of a worker is *)
(* argued about in two parts: what it does to that item, and that nothing  *)
(* else is concerned.                                                      *)
(***************************************************************************)
EXTENDS JobExecutor, TLAPS

\* Where the session thread is, and what it has seen so far.
ThreadInv ==
    /\ phase # "Working" => \A w \in Worker : worker[w].pc = "Done"
    /\ phase \notin {"Working", "Idle"} => firstError = NoError
    /\ phase = "Idle" /\ report = "Success" => firstError = NoError
    /\ phase = "Recover" => \A i \in todo : state[i] = "Copied"
    /\ phase = "Removing" => /\ retrying \in Item /\ state[retrying] = "Copied"
                             /\ retrying \notin todo
                             /\ \A i \in todo : state[i] = "Copied"
    /\ phase = "Directories" => \A f \in through : folder[f] \in {"Planned", "Tried"}

Holds(w) == worker[w].pc \in Holding

\* The Active items are the held ones, and a worker that holds none has looked at
\* no destination.
HeldInv ==
    /\ \A w \in Worker : worker[w].pc \in {"Loop", "Acquire"} => ~worker[w].discard
    /\ \A w \in Worker : Holds(w) => Mine(w) \in Item /\ state[Mine(w)] = "Active"
    /\ \A v, w \in Worker : Holds(v) /\ Holds(w) /\ Mine(v) = Mine(w) => v = w
    /\ \A i \in Item : state[i] = "Active" => \E w \in Worker : Holds(w) /\ Mine(w) = i

\* A worker that may have a partial file which it must remove.
Writing == {"Copying", "Paused", "Resume", "Skipping", "Aborted", "Failed", "Fatal"}

\* What a worker knows of the files of its item.
FilesInv(pc, discard, i) ==
    /\ print[i] # "None" <=> pc \in {"Copied", "Removing", "Transferred"}
    /\ pc \in {"Rename", "Copied", "Removing"} => Operation = "Move"
    /\ source[i] = "Taken" => pc = "Transferred" /\ Operation = "Move"
    /\ pc = "Transferred" /\ Operation = "Move" => source[i] \in {"Taken", "Missing"}
    /\ pc \in {"Copying", "Paused", "Resume"} => SourceThere(i)
    /\ target[i] = "Partial" /\ i \notin spoiled => discard /\ pc \in Writing
    /\ target[i] = "Copy" => pc \in {"Copied", "Removing", "Transferred"}
    /\ pc \in {"Rename", "Copy"} /\ ~discard => target[i] # "Free"
    /\ pc = "Held" => ~discard
    /\ pc = "Skipping" => discard
    /\ pc \in {"Copying", "Paused", "Resume"} => target[i] = "Partial"
    /\ pc = "Conflict" => target[i] \in {"Foreign", "Partial"} /\ ~Replaces(i)

\* What became of an item says what became of its files.
ItemInv(i) ==
    state[i] # "Active" =>
        /\ print[i] # "None" <=> state[i] \in {"Succeeded", "Copied", "CopiedSourceRetained"}
        /\ Operation = "Move" /\ state[i] = "Succeeded" => source[i] \in {"Taken", "Missing"}
        /\ source[i] = "Taken" => Operation = "Move" /\ state[i] = "Succeeded"
        /\ state[i] = "Copied" => Operation = "Move"
        /\ target[i] = "Partial" => i \in spoiled
        /\ target[i] = "Copy" => print[i] # "None"

\* A file about which the user is going to be asked.
Dispute(i) ==
    /\ i \in Item
    /\ state[i] \in {"Pending", "Active", "Parked", "Removed"}
    /\ target[i] \in {"Foreign", "Partial"}
    /\ print[i] = "None"
    /\ ~Replaces(i)
    /\ IF KeepsBoth(i) THEN alternates[i] = MaxAlternates ELSE options.policy # "SkipAll"
    /\ \A w \in Worker : Holds(w) /\ Mine(w) = i =>
          /\ ~worker[w].discard
          /\ worker[w].pc \in {"Held", "Rename", "Copy", "Conflict", "Aborted", "Failed", "Fatal"}

DisputeInv ==
    /\ firstError.kind = "Conflict" => Dispute(firstError.item)
    /\ \A w \in Worker : worker[w].pc = "ReportConflict" => Dispute(Mine(w))

ExecutorInv ==
    /\ TypeOK /\ ThreadInv /\ HeldInv /\ DisputeInv
    /\ \A w \in Worker : Holds(w) => FilesInv(worker[w].pc, worker[w].discard, Mine(w))
    /\ \A i \in Item : ItemInv(i)
-----------------------------------------------------------------------------
(***************************************************************************)
(* Types.                                                                  *)
(***************************************************************************)

WorkerState == [pc : Pc, item : Item \cup {None}, discard : BOOLEAN, verdict : Result]

\* What the plan and the files of an item may be.
WorldTypes ==
    /\ directive \in ExecutionDirective
    /\ skips \subseteq Item
    /\ directive = "Cancel" => skips = {}
    /\ state \in [Item -> Lifecycle!ItemState]
    /\ folder \in [Folder -> {"Unplanned", "Planned", "Tried", "Made"}]
    /\ source \in [Item -> {"Original", "Changed", "Missing", "Taken"}]
    /\ target \in [Item -> {"Free", "Foreign", "Partial", "Copy"}]
    /\ print \in [Item -> {"None", "Original", "Changed"}]
    /\ alternates \in [Item -> 0..MaxAlternates]
    /\ spoiled \subseteq Item

\* What the session thread and the window keep.
SessionTypes ==
    /\ phase \in Phase
    /\ todo \subseteq Item /\ retrying \in Item \cup {None}
    /\ through \subseteq Folder
    /\ options \in [policy : ConflictPolicy, replace : Item \cup {None}, retry : BOOLEAN]
    /\ sessions \in 0..MaxSessions
    /\ firstError \in [kind : {"None", "Fatal", "Conflict"}, item : Item \cup {None}]
    /\ report \in Result

WorkerTypes == worker \in [Worker -> WorkerState]

\* The three groups are the type invariant.
LEMMA TypeParts == TypeOK <=> WorldTypes /\ SessionTypes /\ WorkerTypes
BY DEF TypeOK, WorldTypes, SessionTypes, WorkerTypes, WorkerState

\* The states of the plan's items that the actions name.
LEMMA ItemStates ==
    {"Absent", "Pending", "Active", "Parked", "Copied", "Removed", "Succeeded", "Skipped",
     "Failed", "CopiedSourceRetained"} = Lifecycle!ItemState
BY DEF Lifecycle!ItemState, Lifecycle!Terminal

\* A worker that moves on to another place keeps the rest of its record.
LEMMA GotoMoves ==
    ASSUME WorkerTypes, NEW w \in Worker, NEW to, Goto(w, to)
    PROVE  /\ worker'[w].pc = to
           /\ worker'[w].item = worker[w].item
           /\ worker'[w].discard = worker[w].discard
           /\ worker'[w].verdict = worker[w].verdict
           /\ \A v \in Worker : v # w => worker'[v] = worker[v]
           /\ to \in Pc => WorkerTypes'
BY DEF Goto, WorkerTypes, WorkerState

\* A worker between two files, or at its end, holds nothing.
LEMMA NextFileMoves ==
    ASSUME WorkerTypes, NEW w \in Worker, NextFile(w)
    PROVE  /\ worker'[w] = Between
           /\ worker'[w].pc = "Loop"
           /\ \A v \in Worker : v # w => worker'[v] = worker[v]
           /\ WorkerTypes'
BY DEF NextFile, WorkerTypes, WorkerState, Between, Pc, Result

\* The same of a worker that ends.
LEMMA EndMoves ==
    ASSUME WorkerTypes, NEW w \in Worker, NEW result \in Result, End(w, result)
    PROVE  /\ worker'[w] = Ended(result)
           /\ worker'[w].pc = "Done"
           /\ \A v \in Worker : v # w => worker'[v] = worker[v]
           /\ WorkerTypes'
BY DEF End, WorkerTypes, WorkerState, Ended, Pc, Result

\* A call on the plan changes one item.
LEMMA MovesOne ==
    ASSUME WorldTypes, NEW i \in Item, NEW to \in Lifecycle!ItemState, Moves(i, to)
    PROVE  /\ state' \in [Item -> Lifecycle!ItemState]
           /\ state'[i] = to
           /\ \A j \in Item : j # i => state'[j] = state[j]
BY DEF Moves, WorldTypes

\* A worker that starts with its file, under this name or another.
LEMMA StartMoves ==
    ASSUME WorkerTypes, NEW w \in Worker, NEW to \in Pc, NEW d \in BOOLEAN,
           worker' = [worker EXCEPT ![w].pc = to, ![w].discard = d]
    PROVE  /\ worker'[w].pc = to
           /\ worker'[w].item = worker[w].item
           /\ worker'[w].discard = d
           /\ \A v \in Worker : v # w => worker'[v] = worker[v]
           /\ WorkerTypes'
<1>1. worker[w] \in WorkerState  BY DEF WorkerTypes
<1>2. worker'[w] = [[worker[w] EXCEPT !.pc = to] EXCEPT !.discard = d]
  BY DEF WorkerTypes
<1> DEFINE r == [worker[w] EXCEPT !.pc = to]
<1>3. r \in WorkerState  BY <1>1 DEF WorkerState
<1>4. [r EXCEPT !.discard = d] \in WorkerState
  <2> HIDE DEF r
  <2> QED  BY <1>3 DEF WorkerState
<1>5. worker'[w] \in WorkerState  BY <1>2, <1>4
<1>6. \A v \in Worker : v # w => worker'[v] = worker[v]  BY DEF WorkerTypes
<1>7. worker' = [v \in Worker |-> worker'[v]]  BY DEF WorkerTypes
<1>8. WorkerTypes'
  <2>1. \A v \in Worker : worker'[v] \in WorkerState  BY <1>5, <1>6 DEF WorkerTypes
  <2> QED  BY <2>1, <1>7 DEF WorkerTypes
<1>9. /\ worker'[w].pc = to /\ worker'[w].item = worker[w].item
      /\ worker'[w].discard = d
  BY <1>1, <1>2 DEF WorkerState
<1> QED  BY <1>6, <1>8, <1>9

\* A worker that takes an item keeps the rest of its record.
LEMMA AcquireMoves ==
    ASSUME WorkerTypes, NEW w \in Worker, NEW i \in Item,
           worker' = [worker EXCEPT ![w].pc = "Held", ![w].item = i]
    PROVE  /\ worker'[w].pc = "Held"
           /\ worker'[w].item = i
           /\ worker'[w].discard = worker[w].discard
           /\ \A v \in Worker : v # w => worker'[v] = worker[v]
           /\ WorkerTypes'
<1>1. worker[w] \in WorkerState  BY DEF WorkerTypes
<1>2. worker'[w] = [[worker[w] EXCEPT !.pc = "Held"] EXCEPT !.item = i]
  BY DEF WorkerTypes
<1> DEFINE r == [worker[w] EXCEPT !.pc = "Held"]
<1>3. r \in WorkerState  BY <1>1 DEF WorkerState, Pc, Holding
<1>4. [r EXCEPT !.item = i] \in WorkerState
  <2> HIDE DEF r
  <2> QED  BY <1>3 DEF WorkerState
<1>5. worker'[w] \in WorkerState  BY <1>2, <1>4
<1>6. \A v \in Worker : v # w => worker'[v] = worker[v]  BY DEF WorkerTypes
<1>7. worker' = [v \in Worker |-> worker'[v]]  BY DEF WorkerTypes
<1>8. WorkerTypes'
  <2>1. \A v \in Worker : worker'[v] \in WorkerState  BY <1>5, <1>6 DEF WorkerTypes
  <2> QED  BY <2>1, <1>7 DEF WorkerTypes
<1>9. /\ worker'[w].pc = "Held" /\ worker'[w].item = i
      /\ worker'[w].discard = worker[w].discard
  BY <1>1, <1>2 DEF WorkerState
<1> QED  BY <1>6, <1>8, <1>9

\* A worker is left at a place it can be at.
LEMMA WorkKeepsWorkerTypes ==
    ASSUME WorkerTypes, NEW w \in Worker, Work(w)
    PROVE  WorkerTypes'
<1> USE DEF Pc, Holding
<1>0. {"None", "Success", "Failed", "Cancelled", "Stopped"} = Result  BY DEF Result
<1>1. CASE LoopEnds(w)
  BY <1>1, EndMoves, <1>0, SMTT(30) DEF LoopEnds, EndingVerdict
<1>2. CASE LoopRuns(w)
  BY <1>2, GotoMoves, SMTT(30) DEF LoopRuns
<1>3. CASE Acquire(w)
  BY <1>3, EndMoves, <1>0, AcquireMoves, SMTT(30) DEF Acquire, Pending
<1>4. CASE HeldEnds(w)
  BY <1>4, EndMoves, <1>0, SMTT(30) DEF HeldEnds, EndingVerdict
<1>5. CASE HeldRuns(w)
  <2> DEFINE free == target[Mine(w)] = "Free"
             to == IF Operation = "Move" THEN "Rename" ELSE "Copy"
  <2>1. CASE NextFile(w)  BY <2>1, NextFileMoves
  <2>2. CASE worker' = [worker EXCEPT ![w].pc = to, ![w].discard = free]
    <3>1. to \in Pc /\ free \in BOOLEAN  OBVIOUS
    <3> HIDE DEF to, free
    <3> QED  BY <2>2, <3>1, StartMoves
  <2> QED  BY <1>5, <2>1, <2>2 DEF HeldRuns
<1>6. CASE Rename(w)
  BY <1>6, GotoMoves, SMTT(30) DEF Rename
<1>7. CASE CopyOpens(w)
  BY <1>7, GotoMoves, SMTT(30) DEF CopyOpens
<1>8. CASE CopyConflicts(w)
  BY <1>8, GotoMoves, SMTT(30) DEF CopyConflicts
<1>9. CASE CopyFails(w)
  BY <1>9, GotoMoves, SMTT(30) DEF CopyFails
<1>10. CASE CopyBackOffEnds(w)
  BY <1>10, GotoMoves, SMTT(30) DEF CopyBackOffEnds
<1>11. CASE Resume(w)
  BY <1>11, GotoMoves, SMTT(30) DEF Resume
<1>12. CASE CopyCompletes(w)
  BY <1>12, GotoMoves, SMTT(30) DEF CopyCompletes
<1>13. CASE CopyBreaks(w)
  BY <1>13, GotoMoves, SMTT(30) DEF CopyBreaks
<1>14. CASE CallbackSkips(w)
  BY <1>14, GotoMoves, SMTT(30) DEF CallbackSkips
<1>15. CASE CallbackPauses(w)
  BY <1>15, GotoMoves, SMTT(30) DEF CallbackPauses
<1>16. CASE CallbackEnds(w)
  BY <1>16, GotoMoves, SMTT(30) DEF CallbackEnds
<1>17. CASE Skip(w)
  BY <1>17, NextFileMoves, SMTT(30) DEF Skip
<1>18. CASE PauseResumes(w)
  BY <1>18, GotoMoves, SMTT(30) DEF PauseResumes
<1>19. CASE PauseEnds(w)
  BY <1>19, EndMoves, <1>0, SMTT(30) DEF PauseEnds, EndingVerdict
<1>20. CASE Abort(w)
  BY <1>20, EndMoves, <1>0, SMTT(30) DEF Abort, EndingVerdict
<1>21. CASE Redirect(w)
  <2>1. "Copy" \in Pc /\ TRUE \in BOOLEAN  OBVIOUS
  <2>2. worker' = [worker EXCEPT ![w].pc = "Copy", ![w].discard = TRUE]  BY <1>21 DEF Redirect
  <2> QED  BY <2>1, <2>2, StartMoves
<1>22. CASE ConflictSkips(w)
  BY <1>22, NextFileMoves, SMTT(30) DEF ConflictSkips
<1>23. CASE ConflictReleases(w)
  BY <1>23, GotoMoves, SMTT(30) DEF ConflictReleases
<1>24. CASE FatalReleases(w)
  BY <1>24, GotoMoves, SMTT(30) DEF FatalReleases
<1>25. CASE Report(w)
  BY <1>25, EndMoves, <1>0, SMTT(30) DEF Report, EndingVerdict
<1>26. CASE ParkFailed(w)
  BY <1>26, NextFileMoves, SMTT(30) DEF ParkFailed
<1>27. CASE CopiedEnds(w)
  BY <1>27, EndMoves, <1>0, SMTT(30) DEF CopiedEnds, EndingVerdict
<1>28. CASE CopiedRuns(w)
  BY <1>28, GotoMoves, SMTT(30) DEF CopiedRuns
<1>29. CASE Remove(w)
  BY <1>29, GotoMoves, SMTT(30) DEF Remove
<1>30. CASE RemoveFails(w)
  BY <1>30, NextFileMoves, SMTT(30) DEF RemoveFails
<1>31. CASE Succeed(w)
  BY <1>31, NextFileMoves, EndMoves, <1>0, SMTT(30) DEF Succeed, EndingVerdict
<1> QED
  BY <1>1, <1>2, <1>3, <1>4, <1>5, <1>6, <1>7, <1>8, <1>9, <1>10, <1>11, <1>12, <1>13, <1>14,
     <1>15, <1>16, <1>17, <1>18, <1>19, <1>20, <1>21, <1>22, <1>23, <1>24, <1>25, <1>26,
     <1>27, <1>28, <1>29, <1>30, <1>31 DEF Work

\* The plan and the files stay well formed.
LEMMA WorkKeepsWorldTypes ==
    ASSUME WorldTypes, WorkerTypes, NEW w \in Worker, Work(w),
           Holds(w) => Mine(w) \in Item,
           worker[w].pc = "Copying" => SourceThere(Mine(w))
    PROVE  WorldTypes'
<1> USE ItemStates DEF WorldTypes, worldVars, controlVars, planVars, diskVars, copyVars, At,
        Holds, Holding
<1>1. CASE LoopEnds(w)
  BY <1>1, SMTT(30) DEF LoopEnds, Moves, workerOnly
<1>2. CASE LoopRuns(w)
  BY <1>2, SMTT(30) DEF LoopRuns, Moves, workerOnly
<1>3. CASE Acquire(w)
  BY <1>3, SMTT(30) DEF Acquire, Moves, Pending, workerOnly
<1>4. CASE HeldEnds(w)
  BY <1>4, SMTT(30) DEF HeldEnds, Moves, workerOnly
<1>5. CASE HeldRuns(w)
  BY <1>5, SMTT(30) DEF HeldRuns, Moves, workerOnly
<1>6. CASE Rename(w)
  BY <1>6, SMTT(30) DEF Rename, Moves, SourceThere, workerOnly
<1>7. CASE CopyOpens(w)
  BY <1>7, SMTT(30) DEF CopyOpens, Moves, workerOnly
<1>8. CASE CopyConflicts(w)
  BY <1>8, SMTT(30) DEF CopyConflicts, Moves, workerOnly
<1>9. CASE CopyFails(w)
  BY <1>9, SMTT(30) DEF CopyFails, Moves, workerOnly
<1>10. CASE CopyBackOffEnds(w)
  BY <1>10, SMTT(30) DEF CopyBackOffEnds, Moves, workerOnly
<1>11. CASE Resume(w)
  BY <1>11, SMTT(30) DEF Resume, Moves, workerOnly
<1>12. CASE CopyCompletes(w)
  BY <1>12, SMTT(30) DEF CopyCompletes, Moves, SourceThere, workerOnly
<1>13. CASE CopyBreaks(w)
  BY <1>13, SMTT(30) DEF CopyBreaks, Moves, GivesUp, workerOnly
<1>14. CASE CallbackSkips(w)
  BY <1>14, SMTT(30) DEF CallbackSkips, Moves, GivesUp, workerOnly
<1>15. CASE CallbackPauses(w)
  BY <1>15, SMTT(30) DEF CallbackPauses, Moves, workerOnly
<1>16. CASE CallbackEnds(w)
  BY <1>16, SMTT(30) DEF CallbackEnds, Moves, GivesUp, workerOnly
<1>17. CASE Skip(w)
  BY <1>17, SMTT(30) DEF Skip, Moves, workerOnly
<1>18. CASE PauseResumes(w)
  BY <1>18, SMTT(30) DEF PauseResumes, Moves, workerOnly
<1>19. CASE PauseEnds(w)
  BY <1>19, SMTT(30) DEF PauseEnds, Moves, Discards, workerOnly
<1>20. CASE Abort(w)
  BY <1>20, SMTT(30) DEF Abort, Moves, Discards, ExecutionDirective, workerOnly
<1>21. CASE Redirect(w)
  <2>1. Mine(w) \in Item /\ alternates[Mine(w)] + 1 \in 0..MaxAlternates
    BY <1>21, ExecutorAssumption DEF Redirect
  <2> DEFINE next == alternates[Mine(w)] + 1
  <2>2. alternates' = [alternates EXCEPT ![Mine(w)] = next]  BY <1>21 DEF Redirect
  <2> HIDE DEF next
  <2>3. next \in 0..MaxAlternates  BY <2>1 DEF next
  <2>4. alternates' \in [Item -> 0..MaxAlternates]  BY <2>1, <2>2, <2>3
  <2> QED  BY <1>21, <2>1, <2>4 DEF Redirect
<1>22. CASE ConflictSkips(w)
  BY <1>22, SMTT(30) DEF ConflictSkips, Moves, workerOnly
<1>23. CASE ConflictReleases(w)
  BY <1>23, SMTT(30) DEF ConflictReleases, Moves, workerOnly
<1>24. CASE FatalReleases(w)
  BY <1>24, SMTT(30) DEF FatalReleases, Moves, workerOnly
<1>25. CASE Report(w)
  BY <1>25, SMTT(30) DEF Report, Moves, ExecutionDirective, workerOnly
<1>26. CASE ParkFailed(w)
  BY <1>26, SMTT(30) DEF ParkFailed, Moves, Discards, workerOnly
<1>27. CASE CopiedEnds(w)
  BY <1>27, SMTT(30) DEF CopiedEnds, Moves, workerOnly
<1>28. CASE CopiedRuns(w)
  BY <1>28, SMTT(30) DEF CopiedRuns, Moves, workerOnly
<1>29. CASE Remove(w)
  BY <1>29, SMTT(30) DEF Remove, Moves, RemovesSource, workerOnly
<1>30. CASE RemoveFails(w)
  BY <1>30, SMTT(30) DEF RemoveFails, Moves, workerOnly
<1>31. CASE Succeed(w)
  BY <1>31, SMTT(30) DEF Succeed, Moves, workerOnly
<1> QED
  BY <1>1, <1>2, <1>3, <1>4, <1>5, <1>6, <1>7, <1>8, <1>9, <1>10, <1>11, <1>12, <1>13, <1>14,
     <1>15, <1>16, <1>17, <1>18, <1>19, <1>20, <1>21, <1>22, <1>23, <1>24, <1>25, <1>26,
     <1>27, <1>28, <1>29, <1>30, <1>31 DEF Work

\* Only a report changes what the session keeps.
LEMMA WorkKeepsSessionTypes ==
    ASSUME SessionTypes, WorkerTypes, NEW w \in Worker, Work(w)
    PROVE  SessionTypes'
<1>1. CASE Report(w)
  <2>1. Mine(w) \in Item \cup {None}  BY DEF Mine, WorkerTypes, WorkerState
  <2> DEFINE kind == IF At(w, "ReportFatal") THEN "Fatal" ELSE "Conflict"
             error == [kind |-> kind, item |-> Mine(w)]
  <2>2. kind \in {"None", "Fatal", "Conflict"}  OBVIOUS
  <2>3. error \in [kind : {"None", "Fatal", "Conflict"}, item : Item \cup {None}]
    <3> HIDE DEF kind
    <3> QED  BY <2>1, <2>2
  <2>4. firstError' \in {firstError, error}  BY <1>1 DEF Report
  <2> HIDE DEF error
  <2> QED  BY <1>1, <2>3, <2>4 DEF Report, SessionTypes, mainVars, threadVars, recoverVars
<1>2. CASE UNCHANGED sessionVars
  BY <1>2 DEF SessionTypes, sessionVars, mainVars, threadVars, recoverVars, resultVars
<1> QED
  BY <1>1, <1>2 DEF Work, LoopEnds, LoopRuns, Acquire, HeldEnds, HeldRuns, Rename, CopyOpens,
     CopyConflicts, CopyFails, CopyBackOffEnds, Resume, CopyCompletes, CopyBreaks,
     CallbackSkips, CallbackPauses, CallbackEnds, Skip, PauseResumes, PauseEnds, Abort,
     Redirect, ConflictSkips, ConflictReleases, FatalReleases, ParkFailed, CopiedEnds,
     CopiedRuns, Remove, RemoveFails, Succeed, workerOnly

\* A session and its workers start as they should.
LEMMA StartsTyped ==
    ASSUME WorldTypes, SessionTypes, WorkerTypes, NEW opts, Starts(opts),
           opts \in [policy : ConflictPolicy, replace : Item \cup {None}, retry : BOOLEAN],
           state' \in [Item -> Lifecycle!ItemState]
    PROVE  WorldTypes' /\ SessionTypes' /\ WorkerTypes'
<1>1. sessions' \in 0..MaxSessions  BY ExecutorAssumption DEF Starts, SessionTypes
<1>2. NoError \in [kind : {"None", "Fatal", "Conflict"}, item : Item \cup {None}]
  BY DEF NoError
<1>3. WorldTypes'
  BY DEF Starts, WorldTypes, diskVars, copyVars, ExecutionDirective
<1>4. SessionTypes'
  BY <1>1, <1>2 DEF Starts, SessionTypes, recoverVars, Phase, Result
<1> QED  BY <1>3, <1>4 DEF Starts, WorkerTypes

\* What a session is started with.
LEMMA OptionsTyped ==
    /\ Plain \in [policy : ConflictPolicy, replace : Item \cup {None}, retry : BOOLEAN]
    /\ [Plain EXCEPT !.retry = TRUE]
         \in [policy : ConflictPolicy, replace : Item \cup {None}, retry : BOOLEAN]
BY DEF Plain, ConflictPolicy

\* The session thread keeps its types.
LEMMA MainKeepsTypes ==
    ASSUME TypeOK, Main
    PROVE  WorldTypes' /\ SessionTypes' /\ WorkerTypes'
<1>0. WorldTypes /\ SessionTypes /\ WorkerTypes  BY TypeParts
<1> USE ItemStates DEF worldVars, controlVars, planVars, diskVars, copyVars, recoverVars,
        threadVars, resultVars, mainVars, sessionVars
<1>1. CASE EndByControl
  BY <1>0, <1>1 DEF EndByControl, Finish, WorldTypes, SessionTypes, WorkerTypes, Phase, Result
<1>2. CASE Begin
  BY <1>0, <1>2 DEF Begin, WorldTypes, SessionTypes, WorkerTypes, Phase
<1>3. CASE ListDirectories
  BY <1>0, <1>3 DEF ListDirectories, WorldTypes, SessionTypes, WorkerTypes, Phase,
     PendingFolders
<1>4. CASE DirectoryFatal
  BY <1>0, <1>4 DEF DirectoryFatal, Finish, WorldTypes, SessionTypes, WorkerTypes, Phase,
     Result
<1>5. CASE MarkMaterialized
  BY <1>0, <1>5 DEF MarkMaterialized, WorldTypes, SessionTypes, WorkerTypes, Phase
<1>6. CASE FanOut
  <2>1. Between \in WorkerState /\ Ended("None") \in WorkerState
    BY DEF Between, Ended, WorkerState, Pc, Result
  <2>2. WorkerTypes'
    <3>1. CASE UNCHANGED worker  BY <1>0, <3>1 DEF WorkerTypes
    <3>2. ASSUME NEW team,
                 worker' = [w \in Worker |-> IF w \in team THEN Between ELSE Ended("None")]
          PROVE  WorkerTypes'
      BY <2>1, <3>2 DEF WorkerTypes
    <3> QED  BY <1>6, <3>1, <3>2 DEF FanOut
  <2>3. phase' \in Phase  BY <1>6 DEF FanOut, Phase
  <2> QED  BY <1>0, <1>6, <2>2, <2>3 DEF FanOut, WorldTypes, SessionTypes
<1>7. CASE Join
  <2>1. Ended("None") \in WorkerState
    BY DEF Ended, WorkerState, Pc, Result
  <2> QED  BY <1>0, <1>7, <2>1 DEF Join, Finish, WorldTypes, SessionTypes, WorkerTypes, Phase,
              Result
<1>8. CASE Conclude
  BY <1>0, <1>8 DEF Conclude, Finish, WorldTypes, SessionTypes, WorkerTypes, Phase, Result
<1>9. CASE CleanUp
  BY <1>0, <1>9 DEF CleanUp, Finish, WorldTypes, SessionTypes, WorkerTypes, Phase, Result
<1>10. CASE RecoverRemoves
  <2>1. CASE UNCHANGED <<source, state>>
    BY <1>0, <1>10, <2>1 DEF RecoverRemoves, WorldTypes, SessionTypes, WorkerTypes, Phase
  <2>2. CASE RemovesSource(retrying) /\ Moves(retrying, "Succeeded")
    <3>1. source' \in [Item -> {"Original", "Changed", "Missing", "Taken"}]
      BY <1>0, <2>2 DEF RemovesSource, WorldTypes
    <3>2. state' \in [Item -> Lifecycle!ItemState]
      BY <1>0, <2>2 DEF Moves, WorldTypes
    <3> QED  BY <1>0, <1>10, <3>1, <3>2
             DEF RecoverRemoves, WorldTypes, SessionTypes, WorkerTypes, Phase
  <2> QED  BY <1>10, <2>1, <2>2 DEF RecoverRemoves
<1>11. ASSUME NEW i \in Item, RecoverSettles(i)
       PROVE  WorldTypes' /\ SessionTypes' /\ WorkerTypes'
  BY <1>0, <1>11 DEF RecoverSettles, Moves, WorldTypes, SessionTypes, WorkerTypes
<1>12. ASSUME NEW i \in Item, RecoverPostpones(i)
       PROVE  WorldTypes' /\ SessionTypes' /\ WorkerTypes'
  BY <1>0, <1>12 DEF RecoverPostpones, WorldTypes, SessionTypes, WorkerTypes
<1>13. ASSUME NEW i \in Item, RecoverRetries(i)
       PROVE  WorldTypes' /\ SessionTypes' /\ WorkerTypes'
  BY <1>0, <1>13 DEF RecoverRetries, WorldTypes, SessionTypes, WorkerTypes, Phase
<1>14. ASSUME NEW f \in Folder, PrepareDirectory(f)
       PROVE  WorldTypes' /\ SessionTypes' /\ WorkerTypes'
  BY <1>0, <1>14 DEF PrepareDirectory, WorldTypes, SessionTypes, WorkerTypes
<1> QED
  BY <1>1, <1>2, <1>3, <1>4, <1>5, <1>6, <1>7, <1>8, <1>9, <1>10, <1>11, <1>12, <1>13,
     <1>14 DEF Main

\* The window keeps the types.
LEMMA WindowKeepsTypes ==
    ASSUME TypeOK, Window
    PROVE  WorldTypes' /\ SessionTypes' /\ WorkerTypes'
<1>0. WorldTypes /\ SessionTypes /\ WorkerTypes  BY TypeParts
<1> USE ItemStates DEF worldVars, controlVars, planVars, diskVars, copyVars, recoverVars,
        threadVars, resultVars, mainVars, sessionVars
<1>1. CASE StartTransfer \/ ResumeStoppedCopy
  BY <1>0, <1>1, StartsTyped, OptionsTyped DEF StartTransfer, ResumeStoppedCopy, WorldTypes
<1>2. CASE SkipConflict
  <2>1. state' \in [Item -> Lifecycle!ItemState]
    BY <1>0, <1>2 DEF SkipConflict, Moves, WorldTypes
  <2> QED  BY <1>0, <1>2, <2>1, StartsTyped, OptionsTyped DEF SkipConflict
<1>3. CASE ResumeParkedFailures
  <2>1. state' \in [Item -> Lifecycle!ItemState]
    BY <1>0, <1>3 DEF ResumeParkedFailures, WorldTypes
  <2> QED  BY <1>0, <1>3, <2>1, StartsTyped, OptionsTyped DEF ResumeParkedFailures
<1>4. CASE ResolveParkedFailures
  <2>1. state' \in [Item -> Lifecycle!ItemState]
    BY <1>0, <1>4 DEF ResolveParkedFailures, WorldTypes
  <2>2. CASE Starts(Plain)  BY <1>0, <2>1, <2>2, StartsTyped, OptionsTyped
  <2>3. CASE UNCHANGED <<controlVars, folder, diskVars, sessionVars, worker>>
    BY <1>0, <2>1, <2>3 DEF WorldTypes, SessionTypes, WorkerTypes
  <2> QED  BY <1>4, <2>2, <2>3 DEF ResolveParkedFailures
<1>5. CASE ExecuteAgain
  <2> DEFINE r == [options EXCEPT !.replace = None]
  <2>1. r \in [policy : ConflictPolicy, replace : Item \cup {None}, retry : BOOLEAN]
    BY <1>0 DEF SessionTypes
  <2>2. [r EXCEPT !.retry = FALSE]
          \in [policy : ConflictPolicy, replace : Item \cup {None}, retry : BOOLEAN]
    <3> HIDE DEF r
    <3> QED  BY <2>1
  <2>3. options' = [r EXCEPT !.retry = FALSE]  BY <1>5 DEF ExecuteAgain
  <2>4. options' \in [policy : ConflictPolicy, replace : Item \cup {None}, retry : BOOLEAN]
    BY <2>2, <2>3
  <2> QED  BY <1>0, <1>5, <2>4 DEF ExecuteAgain, WorldTypes, SessionTypes, WorkerTypes, Phase,
              Result
<1>6. ASSUME NEW policy \in Policy, ResumeConflictCopy(policy)
      PROVE  WorldTypes' /\ SessionTypes' /\ WorkerTypes'
  <2> DEFINE one == IF policy \in {"Prompt", "KeepBoth"} THEN firstError.item ELSE None
             opts == [policy |-> policy, retry |-> FALSE, replace |-> one]
  <2>1. policy \in ConflictPolicy /\ one \in Item \cup {None}
    BY <1>0, <1>6, ExecutorAssumption DEF SessionTypes
  <2>2. opts \in [policy : ConflictPolicy, replace : Item \cup {None}, retry : BOOLEAN]
    <3> HIDE DEF one
    <3> QED  BY <2>1
  <2>3. Starts(opts)  BY <1>6 DEF ResumeConflictCopy
  <2>4. state' \in [Item -> Lifecycle!ItemState]
    BY <1>0, <1>6 DEF ResumeConflictCopy, WorldTypes
  <2> HIDE DEF opts
  <2> QED  BY <1>0, <2>2, <2>3, <2>4, StartsTyped
<1>7. ASSUME NEW request \in Request, WindowRequests(request)
      PROVE  WorldTypes' /\ SessionTypes' /\ WorkerTypes'
  <2>1. directive' \in ExecutionDirective /\ (directive' = "Cancel" => skips' = {})
    BY <1>0, <1>7 DEF WindowRequests, After, Request, ExecutionDirective, WorldTypes
  <2>2. skips' \subseteq Item  BY <1>0, <1>7 DEF WindowRequests, WorldTypes
  <2> QED  BY <1>0, <1>7, <2>1, <2>2 DEF WindowRequests, WorldTypes, SessionTypes, WorkerTypes
<1>8. ASSUME NEW i \in Item, WindowSkips(i) \/ WindowAppends(i) \/ WindowRemoves(i)
      PROVE  WorldTypes' /\ SessionTypes' /\ WorkerTypes'
  BY <1>0, <1>8 DEF WindowSkips, WindowAppends, WindowRemoves, Moves, WorldTypes,
     SessionTypes, WorkerTypes
<1> QED
  BY <1>1, <1>2, <1>3, <1>4, <1>5, <1>6, <1>7, <1>8 DEF Window

\* Other programs know of no types but keep them.
LEMMA OthersKeepTypes ==
    ASSUME TypeOK, NEW i \in Item, OtherPrograms(i)
    PROVE  WorldTypes' /\ SessionTypes' /\ WorkerTypes'
<1>0. WorldTypes /\ SessionTypes /\ WorkerTypes  BY TypeParts
<1> QED  BY <1>0 DEF OtherPrograms, controlVars, planVars, copyVars, recoverVars, threadVars,
     resultVars, mainVars, sessionVars, WorldTypes, SessionTypes, WorkerTypes
-----------------------------------------------------------------------------
(***************************************************************************)
(* A step of a worker concerns its item only.                              *)
(***************************************************************************)

SameFiles(i) ==
    /\ state'[i] = state[i] /\ source'[i] = source[i] /\ target'[i] = target[i]
    /\ print'[i] = print[i] /\ alternates'[i] = alternates[i]
    /\ (i \in spoiled') = (i \in spoiled)

OnlyWorker(w) == \A v \in Worker : v # w => worker'[v] = worker[v]
OnlyItem(i) == \A j \in Item : j # i => SameFiles(j)

\* Worker w may change item i, because it holds it or because nobody does.
MayChange(w, i) == IF Holds(w) THEN Mine(w) = i ELSE state[i] # "Active"

\* What a step of w must leave behind of i.
Leaves(w, i) ==
    IF worker'[w].pc \in Holding
    THEN /\ worker'[w].item = i /\ state'[i] = "Active"
         /\ FilesInv(worker[w].pc, worker[w].discard, i)'
    ELSE /\ state'[i] # "Active" /\ ItemInv(i)'
         /\ worker'[w].pc \in {"Loop", "Acquire"} => ~worker'[w].discard

\* A dispute about a file goes on while the file and its holder stay as they are.
LEMMA DisputeStays ==
    ASSUME NEW i, Dispute(i), SameFiles(i), options' = options,
           \A w \in Worker : Holds(w)' /\ Mine(w)' = i => worker'[w] = worker[w]
    PROVE  Dispute(i)'
BY DEF Dispute, SameFiles, Replaces, KeepsBoth, Holds, Mine

\* The files of an item that nobody touches stay as its worker knows them.
LEMMA FilesStay ==
    ASSUME NEW i, NEW pc, NEW discard, FilesInv(pc, discard, i), SameFiles(i),
           options' = options
    PROVE  FilesInv(pc, discard, i)'
BY DEF FilesInv, SameFiles, Replaces, SourceThere

\* Worker w takes its step on item i.
LEMMA WorkerStep ==
    ASSUME ExecutorInv, TypeOK', phase = "Working", phase' = phase, options' = options,
           firstError' = firstError,
           NEW w \in Worker, NEW i \in Item, OnlyWorker(w), OnlyItem(i),
           MayChange(w, i), Leaves(w, i), Dispute(i) => Dispute(i)',
           worker'[w].pc = "ReportConflict" => worker'[w].item = i /\ Dispute(i)'
    PROVE  ExecutorInv'
<1>1. \A v \in Worker : v # w /\ Holds(v) => Mine(v) \in Item /\ Mine(v) # i
  BY DEF ExecutorInv, HeldInv, MayChange
<1>2. HeldInv'
  <2>1. \A v \in Worker : Holds(v)' => Mine(v)' \in Item /\ (state[Mine(v)] = "Active")'
    BY <1>1 DEF ExecutorInv, HeldInv, OnlyWorker, OnlyItem, SameFiles, Leaves, Holds, Mine
  <2>2. \A u, v \in Worker : Holds(u)' /\ Holds(v)' /\ Mine(u)' = Mine(v)' => u = v
    BY <1>1 DEF ExecutorInv, HeldInv, OnlyWorker, Leaves, Holds, Mine
  <2>3. ASSUME NEW j \in Item, state'[j] = "Active"
        PROVE  \E v \in Worker : Holds(v)' /\ Mine(v)' = j
    <3>1. CASE j = i  BY <2>3, <3>1 DEF Leaves, Holds, Mine
    <3>2. CASE j # i
      <4>1. state[j] = "Active"  BY <2>3, <3>2 DEF OnlyItem, SameFiles
      <4>2. PICK v \in Worker : Holds(v) /\ Mine(v) = j  BY <4>1 DEF ExecutorInv, HeldInv
      <4>3. v # w  BY <3>2, <4>1, <4>2 DEF MayChange
      <4>4. worker'[v] = worker[v]  BY <4>3 DEF OnlyWorker
      <4> QED  BY <4>2, <4>4 DEF Holds, Mine
    <3> QED  BY <3>1, <3>2
  <2>4. \A v \in Worker : worker'[v].pc \in {"Loop", "Acquire"} => ~worker'[v].discard
    BY DEF ExecutorInv, HeldInv, OnlyWorker, Leaves, Holding
  <2> QED  BY <2>1, <2>2, <2>3, <2>4 DEF HeldInv
<1>3. \A v \in Worker : Holds(v)' => FilesInv(worker[v].pc, worker[v].discard, Mine(v))'
  <2> SUFFICES ASSUME NEW v \in Worker, Holds(v)'
               PROVE  FilesInv(worker[v].pc, worker[v].discard, Mine(v))'
    OBVIOUS
  <2>1. CASE v = w  BY <2>1 DEF Leaves, Holds, Mine
  <2>2. CASE v # w
    <3>1. Holds(v) /\ worker'[v] = worker[v]  BY <2>2 DEF OnlyWorker, Holds
    <3>2. SameFiles(Mine(v)) /\ FilesInv(worker[v].pc, worker[v].discard, Mine(v))
      BY <1>1, <2>2, <3>1 DEF OnlyItem, ExecutorInv
    <3>3. ASSUME NEW pc, pc = worker[v].pc, NEW d, d = worker[v].discard,
                 NEW j, j = Mine(v)
          PROVE  FilesInv(pc, d, j)'
      BY <3>2, <3>3, FilesStay
    <3> QED  BY <3>1, <3>3 DEF FilesInv, Mine
  <2> QED  BY <2>1, <2>2
<1>4. \A j \in Item : ItemInv(j)'
  <2> SUFFICES ASSUME NEW j \in Item PROVE ItemInv(j)'  OBVIOUS
  <2>1. CASE j = i
    <3>1. CASE worker'[w].pc \in Holding
      <4>1. state'[i] = "Active"  BY <3>1 DEF Leaves
      <4> QED  BY <2>1, <4>1 DEF ItemInv
    <3>2. CASE worker'[w].pc \notin Holding
      <4>1. ItemInv(i)'  BY <3>2 DEF Leaves
      <4> QED  BY <2>1, <4>1 DEF ItemInv
    <3> QED  BY <3>1, <3>2
  <2>2. CASE j # i
    <3>1. SameFiles(j) /\ ItemInv(j)  BY <2>2 DEF OnlyItem, ExecutorInv
    <3> QED  BY <3>1 DEF SameFiles, ItemInv
  <2> QED  BY <2>1, <2>2
<1>5. ASSUME NEW j, Dispute(j) PROVE Dispute(j)'
  <2>1. CASE j = i  BY <1>5, <2>1
  <2>2. CASE j # i
    <3>1. SameFiles(j)  BY <1>5, <2>2 DEF Dispute, OnlyItem
    <3>2. \A v \in Worker : Holds(v)' /\ Mine(v)' = j => worker'[v] = worker[v]
      BY <2>2 DEF OnlyWorker, Leaves, Holds, Mine
    <3> QED  BY <1>5, <3>1, <3>2, DisputeStays
  <2> QED  BY <2>1, <2>2
<1>6. DisputeInv'
  <2>1. firstError'.kind = "Conflict" => Dispute(firstError.item)'
    BY <1>5 DEF ExecutorInv, DisputeInv
  <2>2. ASSUME NEW v \in Worker, worker'[v].pc = "ReportConflict" PROVE Dispute(Mine(v))'
    <3>1. CASE v = w
      <4>1. worker'[v].item = i /\ Dispute(i)'  BY <2>2, <3>1
      <4> QED  BY <4>1 DEF Dispute, Mine
    <3>2. CASE v # w
      <4>1. worker'[v] = worker[v]  BY <3>2 DEF OnlyWorker
      <4>2. Dispute(Mine(v))  BY <2>2, <4>1 DEF ExecutorInv, DisputeInv
      <4>3. ASSUME NEW j, j = Mine(v) PROVE Dispute(j)'  BY <1>5, <4>2, <4>3
      <4> QED  BY <4>1, <4>3 DEF Dispute, Mine
    <3> QED  BY <3>1, <3>2
  <2> QED  BY <2>1, <2>2 DEF DisputeInv
<1>7. ThreadInv'  BY DEF ThreadInv
<1> QED  BY <1>2, <1>3, <1>4, <1>6, <1>7 DEF ExecutorInv

\* A worker that holds nothing goes on, and touches nothing.
LEMMA IdleStep ==
    ASSUME ExecutorInv, TypeOK', phase = "Working", phase' = phase, options' = options,
           NEW w \in Worker, OnlyWorker(w), UNCHANGED <<planVars, diskVars>>,
           ~Holds(w), worker'[w].pc \in {"Loop", "Acquire", "Done"},
           worker'[w].pc # "Done" => ~worker'[w].discard,
           firstError'.kind = "Conflict" => Dispute(firstError'.item)
    PROVE  ExecutorInv'
<1>0. worker'[w].pc \notin Holding /\ worker'[w].pc # "ReportConflict"  BY DEF Holding
<1>1. \A j : SameFiles(j)  BY DEF SameFiles, planVars, diskVars, copyVars
<1>2. \A v \in Worker : Holds(v)' => Holds(v) /\ worker'[v] = worker[v]
  BY <1>0 DEF OnlyWorker, Holds
<1>3. HeldInv'
  <2>1. \A v \in Worker : Holds(v)' => Mine(v)' \in Item /\ (state[Mine(v)] = "Active")'
    BY <1>1, <1>2 DEF ExecutorInv, HeldInv, SameFiles, Mine
  <2>2. \A u, v \in Worker : Holds(u)' /\ Holds(v)' /\ Mine(u)' = Mine(v)' => u = v
    BY <1>2 DEF ExecutorInv, HeldInv, Mine
  <2>3. ASSUME NEW j \in Item, state'[j] = "Active"
        PROVE  \E v \in Worker : Holds(v)' /\ Mine(v)' = j
    <3>1. state[j] = "Active"  BY <1>1, <2>3 DEF SameFiles
    <3>2. PICK v \in Worker : Holds(v) /\ Mine(v) = j  BY <3>1 DEF ExecutorInv, HeldInv
    <3>3. worker'[v] = worker[v]  BY <3>2 DEF OnlyWorker
    <3> QED  BY <3>2, <3>3 DEF Holds, Mine
  <2>4. \A v \in Worker : worker'[v].pc \in {"Loop", "Acquire"} => ~worker'[v].discard
    BY DEF ExecutorInv, HeldInv, OnlyWorker
  <2> QED  BY <2>1, <2>2, <2>3, <2>4 DEF HeldInv
<1>4. \A v \in Worker : Holds(v)' => FilesInv(worker[v].pc, worker[v].discard, Mine(v))'
  <2> SUFFICES ASSUME NEW v \in Worker, Holds(v)'
               PROVE  FilesInv(worker[v].pc, worker[v].discard, Mine(v))'
    OBVIOUS
  <2>1. FilesInv(worker[v].pc, worker[v].discard, Mine(v))  BY <1>2 DEF ExecutorInv
  <2>2. ASSUME NEW pc, pc = worker[v].pc, NEW d, d = worker[v].discard,
               NEW j, j = Mine(v)
        PROVE  FilesInv(pc, d, j)'
    BY <1>1, <2>1, <2>2, FilesStay
  <2> QED  BY <1>2, <2>2 DEF FilesInv, Mine
<1>5. \A j \in Item : ItemInv(j)'  BY <1>1 DEF ExecutorInv, ItemInv, SameFiles
<1>6. ASSUME NEW j, Dispute(j) PROVE Dispute(j)'  BY <1>1, <1>2, <1>6, DisputeStays
<1>7. DisputeInv'
  <2>1. firstError'.kind = "Conflict" => Dispute(firstError.item)'
    <3>1. ASSUME NEW j, j = firstError'.item, Dispute(j) PROVE Dispute(j)'
      BY <1>6, <3>1
    <3> QED  BY <3>1 DEF Dispute
  <2>2. ASSUME NEW v \in Worker, worker'[v].pc = "ReportConflict" PROVE Dispute(Mine(v))'
    <3>1. worker'[v] = worker[v]  BY <1>0, <2>2 DEF OnlyWorker
    <3>2. Dispute(Mine(v))  BY <2>2, <3>1 DEF ExecutorInv, DisputeInv
    <3>3. ASSUME NEW j, j = Mine(v) PROVE Dispute(j)'  BY <1>6, <3>2, <3>3
    <3> QED  BY <3>1, <3>3 DEF Dispute, Mine
  <2> QED  BY <2>1, <2>2 DEF DisputeInv
<1>8. ThreadInv'  BY DEF ThreadInv
<1> QED  BY <1>3, <1>4, <1>5, <1>7, <1>8 DEF ExecutorInv
-----------------------------------------------------------------------------
(***************************************************************************)
(* The steps of a worker, one by one.                                      *)
(***************************************************************************)

\* What is known when a worker that holds an item takes a step.
HolderOf(w, i) ==
    /\ ExecutorInv /\ TypeOK' /\ phase = "Working" /\ phase' = phase
    /\ options' = options /\ firstError' = firstError
    /\ w \in Worker /\ Holds(w) /\ i = Mine(w)
    /\ OnlyWorker(w)

\* The holder of an item is where the invariant says it is.
LEMMA HolderKnows ==
    ASSUME NEW w, NEW i, HolderOf(w, i)
    PROVE  /\ i \in Item /\ state[i] = "Active" /\ MayChange(w, i)
           /\ FilesInv(worker[w].pc, worker[w].discard, i)
           /\ Dispute(i) =>
                /\ ~worker[w].discard
                /\ worker[w].pc \in {"Held", "Rename", "Copy", "Conflict", "Aborted",
                                     "Failed", "Fatal"}
           /\ \A v \in Worker : Holds(v) /\ Mine(v) = i => v = w
BY DEF HolderOf, ExecutorInv, HeldInv, MayChange, Dispute

\* A dispute goes on while the holder of the file looks for a way to copy it.
LEMMA DisputeContinues ==
    ASSUME NEW w, NEW i, HolderOf(w, i), Dispute(i), SameFiles(i),
           worker'[w].pc \in Holding =>
              /\ ~worker'[w].discard
              /\ worker'[w].pc \in {"Held", "Rename", "Copy", "Conflict", "Aborted",
                                    "Failed", "Fatal"}
    PROVE  Dispute(i)'
<1>1. \A v \in Worker : Holds(v)' /\ Mine(v)' = i /\ v # w => FALSE
  BY HolderKnows DEF HolderOf, OnlyWorker, Holds, Mine
<1> QED  BY <1>1 DEF HolderOf, Dispute, SameFiles, Replaces, KeepsBoth, Holds, Mine

\* And it goes on when the holder gives it back or parks it.
LEMMA DisputeOutlives ==
    ASSUME NEW w, NEW i, HolderOf(w, i), Dispute(i),
           state'[i] \in {"Pending", "Parked"}, target'[i] = target[i], print'[i] = print[i],
           alternates'[i] = alternates[i], worker'[w].pc \notin Holding
    PROVE  Dispute(i)'
<1>1. \A v \in Worker : Holds(v)' /\ Mine(v)' = i /\ v # w => FALSE
  BY HolderKnows DEF HolderOf, OnlyWorker, Holds, Mine
<1> QED  BY <1>1 DEF HolderOf, Dispute, Replaces, KeepsBoth, Holds, Mine

\* The holder goes to another place and touches nothing.
LEMMA GotoStep ==
    ASSUME NEW w, NEW i, HolderOf(w, i), NEW to \in Holding, Goto(w, to),
           UNCHANGED <<planVars, diskVars>>,
           FilesInv(to, worker[w].discard, i),
           Dispute(i) => to \in {"Held", "Rename", "Copy", "Conflict", "Aborted", "Failed",
                                 "Fatal"}
    PROVE  ExecutorInv'
<1>0. w \in Worker /\ WorkerTypes /\ i \in Item /\ MayChange(w, i)
  BY HolderKnows, TypeParts DEF HolderOf, ExecutorInv
<1>1. /\ worker'[w].pc = to /\ worker'[w].item = i
      /\ worker'[w].discard = worker[w].discard
  BY <1>0, GotoMoves DEF HolderOf, Mine
<1>2. \A j : SameFiles(j)  BY DEF SameFiles, planVars, diskVars, copyVars
<1>3. Leaves(w, i)
  <2>1. ASSUME NEW d, d = worker[w].discard PROVE FilesInv(to, d, i)'
    BY <1>2, <2>1, FilesStay DEF HolderOf
  <2>2. FilesInv(worker[w].pc, worker[w].discard, i)'  BY <1>1, <2>1 DEF FilesInv
  <2>3. state'[i] = "Active"  BY <1>2, HolderKnows DEF SameFiles
  <2> QED  BY <1>1, <2>2, <2>3 DEF Leaves
<1>4. Dispute(i) => Dispute(i)'  BY <1>1, <1>2, HolderKnows, DisputeContinues
<1>5. worker'[w].pc # "ReportConflict"  BY <1>1 DEF Holding
<1> QED  BY <1>0, <1>2, <1>3, <1>4, <1>5, WorkerStep DEF HolderOf, OnlyItem

\* The holder works on the files of its item, about which there is no dispute.
LEMMA FileStep ==
    ASSUME NEW w, NEW i, HolderOf(w, i), NEW to \in Holding, OnlyItem(i),
           state' = state, worker'[w].pc = to, worker'[w].item = i, ~Dispute(i),
           FilesInv(worker[w].pc, worker[w].discard, i)'
    PROVE  ExecutorInv'
<1>0. i \in Item /\ MayChange(w, i) /\ state[i] = "Active"  BY HolderKnows
<1>1. Leaves(w, i)  BY <1>0 DEF Leaves
<1>2. worker'[w].pc # "ReportConflict"  BY DEF Holding
<1> QED  BY <1>0, <1>1, <1>2, WorkerStep DEF HolderOf

\* The holder gives its item back, parks it or settles it.
LEMMA ReleaseStep ==
    ASSUME NEW w, NEW i, HolderOf(w, i), OnlyItem(i), state'[i] # "Active", ItemInv(i)',
           worker'[w].pc \in {"Loop", "Done"}, worker'[w].pc = "Loop" => ~worker'[w].discard,
           Dispute(i) => Dispute(i)'
    PROVE  ExecutorInv'
<1>0. i \in Item /\ MayChange(w, i)  BY HolderKnows
<1>1. Leaves(w, i) /\ worker'[w].pc # "ReportConflict"  BY DEF Leaves, Holding
<1> QED  BY <1>0, <1>1, WorkerStep DEF HolderOf

\* What every step of a holder comes with.
LEMMA HolderActs ==
    ASSUME ExecutorInv, TypeOK', NEW w \in Worker, NEW i, i = Mine(w), phase = "Working",
           Holds(w), UNCHANGED sessionVars, OnlyWorker(w)
    PROVE  HolderOf(w, i)
BY DEF HolderOf, sessionVars, mainVars, threadVars, resultVars

\* The worker changes its own record only.
LEMMA WorkersApart ==
    ASSUME WorkerTypes, NEW w \in Worker,
           \/ \E to : Goto(w, to)
           \/ NextFile(w)
           \/ \E result \in Result : End(w, result)
    PROVE  OnlyWorker(w)
BY GotoMoves, NextFileMoves, EndMoves DEF OnlyWorker

\* Steps that touch no file and leave the item where it is.
LEMMA PureStepsKeepInv ==
    ASSUME ExecutorInv, TypeOK', NEW w \in Worker, NEW i, i = Mine(w),
           \/ CopyConflicts(w) \/ CopyFails(w) \/ CopyBackOffEnds(w) \/ Resume(w)
           \/ CallbackPauses(w) \/ PauseResumes(w) \/ CopiedRuns(w)
    PROVE  ExecutorInv'
<1>0. WorkerTypes  BY TypeParts DEF ExecutorInv
<1>1. /\ phase = "Working" /\ Holds(w) /\ UNCHANGED sessionVars
      /\ UNCHANGED <<planVars, diskVars>>
  BY DEF CopyConflicts, CopyFails, CopyBackOffEnds, Resume, CallbackPauses, PauseResumes,
     CopiedRuns, At, Holds, Holding, workerOnly, worldVars
<1>2. ASSUME NEW to \in Holding, Goto(w, to), FilesInv(to, worker[w].discard, i),
             worker[w].pc \notin {"Held", "Rename", "Conflict", "Aborted", "Failed", "Fatal"},
             worker[w].pc = "Copy" => to \in {"Conflict", "Failed", "Fatal", "Aborted"}
      PROVE  ExecutorInv'
  <2>1. HolderOf(w, i)  BY <1>0, <1>1, <1>2, WorkersApart, HolderActs
  <2> QED  BY <1>1, <1>2, <2>1, HolderKnows, GotoStep
<1>3. /\ i \in Item /\ FilesInv(worker[w].pc, worker[w].discard, i)
      /\ target[i] \in {"Free", "Foreign", "Partial", "Copy"}
  BY <1>1, TypeParts DEF ExecutorInv, HeldInv, WorldTypes
<1>4. CASE CopyConflicts(w) /\ Goto(w, "Conflict")
  <2>1. FilesInv("Conflict", worker[w].discard, i)
    BY <1>3, <1>4 DEF CopyConflicts, At, FilesInv, Writing
  <2>2. "Conflict" \in Holding  BY DEF Holding
  <2> QED  BY <1>2, <1>4, <2>1, <2>2 DEF CopyConflicts, At
<1>5. CASE CopyFails(w) /\ Goto(w, "Failed")
  <2>1. FilesInv("Failed", worker[w].discard, i)
    BY <1>3, <1>5 DEF CopyFails, At, FilesInv, Writing
  <2>2. "Failed" \in Holding  BY DEF Holding
  <2> QED  BY <1>2, <1>5, <2>1, <2>2 DEF CopyFails, At
<1>6. CASE CopyFails(w) /\ Goto(w, "Fatal")
  <2>1. FilesInv("Fatal", worker[w].discard, i)
    BY <1>3, <1>6 DEF CopyFails, At, FilesInv, Writing
  <2>2. "Fatal" \in Holding  BY DEF Holding
  <2> QED  BY <1>2, <1>6, <2>1, <2>2 DEF CopyFails, At
<1>7. CASE CopyBackOffEnds(w) /\ Goto(w, "Aborted")
  <2>1. FilesInv("Aborted", worker[w].discard, i)
    BY <1>3, <1>7 DEF CopyBackOffEnds, At, FilesInv, Writing
  <2>2. "Aborted" \in Holding  BY DEF Holding
  <2> QED  BY <1>2, <1>7, <2>1, <2>2 DEF CopyBackOffEnds, At
<1>8. CASE Resume(w) /\ Goto(w, "Copying")
  <2>1. FilesInv("Copying", worker[w].discard, i)
    BY <1>3, <1>8 DEF Resume, At, FilesInv, Writing
  <2>2. "Copying" \in Holding  BY DEF Holding
  <2> QED  BY <1>2, <1>8, <2>1, <2>2 DEF Resume, At
<1>9. CASE CallbackPauses(w) /\ Goto(w, "Paused")
  <2>1. FilesInv("Paused", worker[w].discard, i)
    BY <1>3, <1>9 DEF CallbackPauses, At, FilesInv, Writing
  <2>2. "Paused" \in Holding  BY DEF Holding
  <2> QED  BY <1>2, <1>9, <2>1, <2>2 DEF CallbackPauses, At
<1>10. CASE PauseResumes(w) /\ Goto(w, "Resume")
  <2>1. FilesInv("Resume", worker[w].discard, i)
    BY <1>3, <1>10 DEF PauseResumes, At, FilesInv, Writing
  <2>2. "Resume" \in Holding  BY DEF Holding
  <2> QED  BY <1>2, <1>10, <2>1, <2>2 DEF PauseResumes, At
<1>11. CASE CopiedRuns(w) /\ Goto(w, "Removing")
  <2>1. FilesInv("Removing", worker[w].discard, i)
    BY <1>3, <1>11 DEF CopiedRuns, At, FilesInv, Writing
  <2>2. "Removing" \in Holding  BY DEF Holding
  <2> QED  BY <1>2, <1>11, <2>1, <2>2 DEF CopiedRuns, At
<1> QED
  BY <1>4, <1>5, <1>6, <1>7, <1>8, <1>9, <1>10, <1>11
  DEF CopyConflicts, CopyFails, CopyBackOffEnds, Resume, CallbackPauses, PauseResumes, CopiedRuns

\* One function changes at the item of the step, the others nowhere.
LEMMA OnlyItemChanges ==
    ASSUME TypeOK, NEW i,
           \/ UNCHANGED state \/ \E x : Moves(i, x),
           \/ UNCHANGED source \/ \E x : source' = [source EXCEPT ![i] = x],
           \/ UNCHANGED target \/ \E x : target' = [target EXCEPT ![i] = x],
           \/ UNCHANGED print \/ \E x : print' = [print EXCEPT ![i] = x],
           \/ UNCHANGED alternates \/ \E x : alternates' = [alternates EXCEPT ![i] = x],
           \/ UNCHANGED spoiled \/ spoiled' = spoiled \cup {i} \/ spoiled' = spoiled \ {i}
    PROVE  OnlyItem(i)
<1> SUFFICES ASSUME NEW j \in Item, j # i PROVE SameFiles(j)  BY DEF OnlyItem
<1>1. state'[j] = state[j]  BY TypeParts DEF Moves, WorldTypes
<1>2. source'[j] = source[j]  BY TypeParts DEF WorldTypes
<1>3. target'[j] = target[j]  BY TypeParts DEF WorldTypes
<1>4. print'[j] = print[j]  BY TypeParts DEF WorldTypes
<1>5. alternates'[j] = alternates[j]  BY TypeParts DEF WorldTypes
<1>6. (j \in spoiled') = (j \in spoiled)  OBVIOUS
<1> QED  BY <1>1, <1>2, <1>3, <1>4, <1>5, <1>6 DEF SameFiles

\* What the invariant says about the item of a worker at work.
LEMMA WorkerKnows ==
    ASSUME ExecutorInv, NEW w \in Worker, Holds(w)
    PROVE  /\ Mine(w) \in Item /\ state[Mine(w)] = "Active"
           /\ FilesInv(worker[w].pc, worker[w].discard, Mine(w))
           /\ Dispute(Mine(w)) =>
                /\ ~worker[w].discard
                /\ worker[w].pc \in {"Held", "Rename", "Copy", "Conflict", "Aborted",
                                     "Failed", "Fatal"}
           /\ WorkerTypes /\ WorldTypes
           /\ state \in [Item -> Lifecycle!ItemState]
           /\ source \in [Item -> {"Original", "Changed", "Missing", "Taken"}]
           /\ target \in [Item -> {"Free", "Foreign", "Partial", "Copy"}]
           /\ print \in [Item -> {"None", "Original", "Changed"}]
BY TypeParts DEF ExecutorInv, HeldInv, Dispute, WorldTypes

\* A rename that works, and a destination that is opened.
LEMMA OpeningKeepsInv ==
    ASSUME ExecutorInv, TypeOK', NEW w \in Worker, NEW i, i = Mine(w),
           CopyOpens(w) \/ Rename(w)
    PROVE  ExecutorInv'
<1>0. /\ phase = "Working" /\ Holds(w) /\ UNCHANGED sessionVars /\ UNCHANGED planVars
      /\ worker[w].pc \in {"Copy", "Rename"}
  BY DEF CopyOpens, Rename, At, Holds, Holding
<1>1. /\ i \in Item /\ FilesInv(worker[w].pc, worker[w].discard, i)
      /\ WorkerTypes
      /\ source[i] \in {"Original", "Changed", "Missing", "Taken"}
      /\ target[i] \in {"Free", "Foreign", "Partial", "Copy"}
      /\ Dispute(i) => target[i] # "Free" /\ ~Replaces(i) /\ ~worker[w].discard
  BY <1>0, WorkerKnows DEF Dispute
<1>2. CASE CopyOpens(w)
  <2>1. Goto(w, "Copying") /\ "Copying" \in Holding  BY <1>2 DEF CopyOpens, Holding
  <2>2. HolderOf(w, i)  BY <1>0, <1>1, <2>1, WorkersApart, HolderActs
  <2>3. /\ worker'[w].pc = "Copying" /\ worker'[w].item = i
        /\ worker'[w].discard = worker[w].discard
    BY <1>1, <2>1, GotoMoves DEF Mine
  <2>4. OnlyItem(i)
    BY <1>2, OnlyItemChanges DEF CopyOpens, planVars, ExecutorInv
  <2>5. FilesInv(worker[w].pc, worker[w].discard, i)'
    <3>1. /\ target'[i] = "Partial" /\ source'[i] = source[i] /\ print'[i] = print[i]
          /\ SourceThere(i) /\ (target[i] = "Free" \/ i \in spoiled')
      BY <1>1, <1>2, TypeParts DEF CopyOpens, ExecutorInv, WorldTypes
    <3>2. print[i] = "None" /\ (target[i] = "Free" => worker[w].discard)
      BY <1>1, <1>2 DEF FilesInv, CopyOpens, At
    <3> QED  BY <1>1, <2>3, <3>1, <3>2 DEF FilesInv, SourceThere, Writing
  <2> QED  BY <1>0, <1>1, <1>2, <2>1, <2>2, <2>3, <2>4, <2>5, FileStep
           DEF CopyOpens, planVars
<1>3. CASE Rename(w) /\ Goto(w, "Copy")
  <2>0. UNCHANGED diskVars
    <3>1. worker'[w].pc = "Copy"  BY <1>1, <1>3, GotoMoves
    <3>2. ~Goto(w, "Transferred")  BY <1>1, <3>1, GotoMoves
    <3> QED  BY <1>3, <3>2 DEF Rename, diskVars, copyVars
  <2>1. HolderOf(w, i)  BY <1>0, <1>1, <1>3, WorkersApart, HolderActs
  <2>2. FilesInv("Copy", worker[w].discard, i) /\ "Copy" \in Holding
    BY <1>1, <1>3 DEF FilesInv, Rename, At, Holding, Writing
  <2> QED  BY <1>0, <1>3, <2>0, <2>1, <2>2, GotoStep
<1>4. CASE Rename(w) /\ Goto(w, "Transferred")
  <2>0. /\ SourceThere(i) /\ (target[i] = "Free" \/ Replaces(i))
        /\ source' = [source EXCEPT ![i] = "Taken"]
        /\ target' = [target EXCEPT ![i] = "Copy"]
        /\ print' = [print EXCEPT ![i] = source[i]]
        /\ UNCHANGED <<state, alternates, spoiled>>
    BY <1>1, <1>4, GotoMoves DEF Rename, planVars
  <2>1. "Transferred" \in Holding  BY DEF Holding
  <2>2. HolderOf(w, i)  BY <1>0, <1>1, <1>4, WorkersApart, HolderActs
  <2>3. worker'[w].pc = "Transferred" /\ worker'[w].item = i
    BY <1>1, <1>4, GotoMoves DEF Mine
  <2>4. OnlyItem(i)
    BY <2>0, OnlyItemChanges DEF ExecutorInv
  <2>5. FilesInv(worker[w].pc, worker[w].discard, i)'
    <3>1. target'[i] = "Copy" /\ source'[i] = "Taken" /\ print'[i] \in {"Original", "Changed"}
      BY <1>1, <2>0, TypeParts DEF ExecutorInv, WorldTypes, SourceThere
    <3>2. Operation = "Move"  BY <1>1, <1>4 DEF FilesInv, Rename, At
    <3> QED  BY <2>3, <3>1, <3>2 DEF FilesInv
  <2> QED  BY <1>1, <2>0, <2>1, <2>2, <2>3, <2>4, <2>5, FileStep
<1> QED  BY <1>2, <1>3, <1>4 DEF Rename

\* The steps of a copy under way that keep the item.
LEMMA CopyingKeepsInv ==
    ASSUME ExecutorInv, TypeOK', NEW w \in Worker, NEW i, i = Mine(w),
           \/ CopyCompletes(w) \/ CopyBreaks(w) \/ CallbackSkips(w) \/ CallbackEnds(w)
           \/ Remove(w)
    PROVE  ExecutorInv'
<1>0. /\ phase = "Working" /\ Holds(w) /\ UNCHANGED sessionVars /\ UNCHANGED planVars
      /\ UNCHANGED <<alternates, spoiled>>
  BY DEF CopyCompletes, CopyBreaks, CallbackSkips, CallbackEnds, Remove, At, Holds, Holding,
     copyVars
<1>1. /\ i \in Item /\ FilesInv(worker[w].pc, worker[w].discard, i)
      /\ WorkerTypes
      /\ source \in [Item -> {"Original", "Changed", "Missing", "Taken"}]
      /\ target \in [Item -> {"Free", "Foreign", "Partial", "Copy"}]
      /\ print \in [Item -> {"None", "Original", "Changed"}]
      /\ worker[w].pc \in {"Copying", "Removing"} => ~Dispute(i)
  BY <1>0, WorkerKnows
<1>2. ASSUME NEW to \in Holding, Goto(w, to), worker[w].pc \in {"Copying", "Removing"},
             \/ UNCHANGED source \/ \E x : source' = [source EXCEPT ![i] = x],
             \/ UNCHANGED target \/ \E x : target' = [target EXCEPT ![i] = x],
             \/ UNCHANGED print \/ \E x : print' = [print EXCEPT ![i] = x],
             worker'[w].pc = to /\ worker'[w].discard = worker[w].discard
                => FilesInv(worker[w].pc, worker[w].discard, i)'
      PROVE  ExecutorInv'
  <2>1. HolderOf(w, i)  BY <1>0, <1>1, <1>2, WorkersApart, HolderActs
  <2>2. /\ worker'[w].pc = to /\ worker'[w].item = i
        /\ worker'[w].discard = worker[w].discard
    BY <1>1, <1>2, GotoMoves DEF Mine
  <2>3. OnlyItem(i)
    BY <1>0, <1>2, OnlyItemChanges DEF ExecutorInv, planVars
  <2> QED  BY <1>0, <1>1, <1>2, <2>1, <2>2, <2>3, FileStep DEF planVars
<1>3. CASE CopyCompletes(w)
  <2> DEFINE to == IF Operation = "Move" THEN "Copied" ELSE "Transferred"
  <2>1. to \in Holding /\ Goto(w, to) /\ worker[w].pc = "Copying"
    BY <1>3 DEF CopyCompletes, Holding, At
  <2>2. ASSUME worker'[w].pc = to PROVE FilesInv(worker[w].pc, worker[w].discard, i)'
    <3>1. /\ target'[i] = "Copy" /\ source'[i] = source[i]
          /\ print'[i] \in {"Original", "Changed"}
          /\ source[i] \in {"Original", "Changed"}
      BY <1>1, <1>3 DEF CopyCompletes, At, FilesInv, SourceThere
    <3> QED  BY <2>2, <3>1, ExecutorAssumption DEF FilesInv
  <2>3. target' = [target EXCEPT ![i] = "Copy"] /\ print' = [print EXCEPT ![i] = source[i]]
        /\ UNCHANGED source
    BY <1>3 DEF CopyCompletes
  <2> HIDE DEF to
  <2> QED  BY <1>2, <2>1, <2>2, <2>3
<1>4. ASSUME NEW to \in {"Failed", "Fatal", "Skipping", "Aborted"}, Goto(w, to),
             At(w, "Copying"), GivesUp(i), UNCHANGED <<source, print>>,
             to = "Skipping" => worker[w].discard
      PROVE  ExecutorInv'
  <2>1. to \in Holding /\ worker[w].pc = "Copying"  BY <1>4 DEF Holding, At
  <2>2. ASSUME worker'[w].pc = to, worker'[w].discard = worker[w].discard
        PROVE  FilesInv(worker[w].pc, worker[w].discard, i)'
    <3>1. /\ target'[i] \in {target[i], "Free"} /\ source'[i] = source[i]
          /\ print'[i] = print[i]
      BY <1>1, <1>4 DEF GivesUp
    <3> QED  BY <1>0, <1>1, <1>4, <2>1, <2>2, <3>1 DEF FilesInv, SourceThere, Writing
  <2> QED  BY <1>2, <1>4, <2>1, <2>2 DEF GivesUp
<1>5. CASE CopyBreaks(w)  BY <1>4, <1>5 DEF CopyBreaks, copyVars
<1>6. CASE CallbackSkips(w)  BY <1>4, <1>6 DEF CallbackSkips, SkipDue, copyVars
<1>7. CASE CallbackEnds(w)  BY <1>4, <1>7 DEF CallbackEnds, copyVars
<1>8. CASE Remove(w)
  <2>1. "Transferred" \in Holding /\ Goto(w, "Transferred") /\ worker[w].pc = "Removing"
    BY <1>8 DEF Remove, Holding, At
  <2>2. /\ UNCHANGED <<target, print>>
        /\ source' = [source EXCEPT ![i] = IF @ = "Missing" THEN @ ELSE "Taken"]
    BY <1>8 DEF Remove, RemovesSource, copyVars
  <2>3. ASSUME worker'[w].pc = "Transferred"
        PROVE  FilesInv(worker[w].pc, worker[w].discard, i)'
    <3>1. source'[i] \in {"Taken", "Missing"} /\ target'[i] = target[i] /\ print'[i] = print[i]
      BY <1>1, <2>2
    <3> QED  BY <1>0, <1>1, <2>1, <2>3, <3>1 DEF FilesInv, Writing
  <2>4. \E x : source' = [source EXCEPT ![i] = x]
    BY <2>2
  <2> QED  BY <1>2, <2>1, <2>2, <2>3, <2>4
<1> QED  BY <1>3, <1>5, <1>6, <1>7, <1>8

\* A keep-both that finds another name starts again.
LEMMA RedirectKeepsInv ==
    ASSUME ExecutorInv, TypeOK', NEW w \in Worker, NEW i, i = Mine(w), Redirect(w)
    PROVE  ExecutorInv'
<1>0. /\ phase = "Working" /\ Holds(w) /\ UNCHANGED sessionVars /\ worker[w].pc = "Conflict"
  BY DEF Redirect, At, Holds, Holding
<1>1. /\ i \in Item /\ FilesInv("Conflict", worker[w].discard, i) /\ WorkerTypes
      /\ target \in [Item -> {"Free", "Foreign", "Partial", "Copy"}]
      /\ alternates[i] \in Nat
  BY <1>0, WorkerKnows, ExecutorAssumption DEF WorldTypes
<1>2. "Copy" \in Pc /\ "Copy" \in Holding /\ TRUE \in BOOLEAN  BY DEF Pc, Holding
<1>3. /\ worker'[w].pc = "Copy" /\ worker'[w].item = i /\ worker'[w].discard
      /\ OnlyWorker(w)
  BY <1>1, <1>2, StartMoves DEF Redirect, OnlyWorker, Mine
<1>4. HolderOf(w, i)  BY <1>0, <1>3, HolderActs
<1>5. OnlyItem(i)
  BY OnlyItemChanges DEF Redirect, ExecutorInv, planVars
<1>6. ~Dispute(i)  BY <1>1, ExecutorAssumption DEF Redirect, Dispute
<1>7. FilesInv(worker[w].pc, worker[w].discard, i)'
  <2>1. target'[i] = "Free" /\ source'[i] = source[i] /\ print'[i] = print[i]
    BY <1>1 DEF Redirect
  <2> QED  BY <1>1, <1>3, <2>1 DEF FilesInv, Writing
<1> QED  BY <1>2, <1>3, <1>4, <1>5, <1>6, <1>7, FileStep DEF Redirect, planVars

\* What the holder's item is about, and that only it changes.
Releases(w, i) ==
    /\ phase = "Working" /\ Holds(w) /\ UNCHANGED sessionVars
    /\ UNCHANGED <<source, print, alternates>>
    /\ \/ UNCHANGED target \/ target' = [target EXCEPT ![i] = "Free"]
    /\ UNCHANGED spoiled \/ spoiled' = spoiled \cup {i}
    /\ NextFile(w) \/ \E result \in Result : End(w, result)

\* The holder lets go of its item; what its files are must agree with where the
\* item goes, and a dispute about it goes on.
LEMMA LetGo ==
    ASSUME ExecutorInv, TypeOK', NEW w \in Worker, NEW i, i = Mine(w), Releases(w, i),
           NEW to \in Lifecycle!ItemState \ {"Active"}, Moves(i, to),
           FilesInv(worker[w].pc, worker[w].discard, i) =>
              /\ print[i] # "None" <=> to \in {"Succeeded", "Copied", "CopiedSourceRetained"}
              /\ Operation = "Move" /\ to = "Succeeded" => source[i] \in {"Taken", "Missing"}
              /\ source[i] = "Taken" => Operation = "Move" /\ to = "Succeeded"
              /\ to = "Copied" => Operation = "Move"
              /\ target'[i] = "Partial" => i \in spoiled'
              /\ target'[i] = "Copy" => print[i] # "None",
           Dispute(i) => to \in {"Pending", "Parked"} /\ target'[i] = target[i]
    PROVE  ExecutorInv'
<1>0. /\ i \in Item /\ WorkerTypes /\ WorldTypes
      /\ FilesInv(worker[w].pc, worker[w].discard, i)
  BY WorkerKnows DEF Releases
<1>1. /\ OnlyWorker(w) /\ worker'[w].pc \in {"Loop", "Done"} /\ ~worker'[w].discard
  <2>1. CASE NextFile(w)  BY <1>0, <2>1, WorkersApart, NextFileMoves DEF Between
  <2>2. ASSUME NEW result \in Result, End(w, result)
        PROVE  OnlyWorker(w) /\ worker'[w].pc \in {"Loop", "Done"} /\ ~worker'[w].discard
    <3>1. worker'[w] = Ended(result)  BY <1>0, <2>2, EndMoves
    <3>2. OnlyWorker(w)  BY <1>0, <2>2, WorkersApart
    <3> QED  BY <3>1, <3>2 DEF Ended
  <2>3. NextFile(w) \/ \E result \in Result : End(w, result)  BY DEF Releases
  <2> QED  BY <2>1, <2>2, <2>3
<1>2. HolderOf(w, i)  BY <1>0, <1>1, HolderActs DEF Releases
<1>3. OnlyItem(i)  BY OnlyItemChanges DEF Releases, ExecutorInv
<1>4. state'[i] = to  BY <1>0, MovesOne
<1>5. ItemInv(i)'  BY <1>0, <1>4 DEF Releases, ItemInv
<1>6. Dispute(i) => Dispute(i)'
  <2>1. worker'[w].pc \notin Holding  BY <1>1 DEF Holding
  <2> QED  BY <1>2, <1>4, <2>1, DisputeOutlives DEF Releases
<1> QED  BY <1>1, <1>2, <1>3, <1>4, <1>5, <1>6, ReleaseStep

\* The verdict of a worker that the control ends.
LEMMA VerdictIsResult ==
    {EndingVerdict, "Success", "Stopped", "Cancelled", "Failed"} \subseteq Result
BY DEF EndingVerdict, Result

\* The holder discards what it may.
LEMMA DiscardsOne ==
    ASSUME NEW w, NEW i, i = Mine(w), Discards(w)
    PROVE  \/ UNCHANGED target /\ ~worker[w].discard
           \/ worker[w].discard /\ target' = [target EXCEPT ![i] = "Free"]
BY DEF Discards

\* The steps by which a holder lets go of its item.
LEMMA LettingGoKeepsInv ==
    ASSUME ExecutorInv, TypeOK', NEW w \in Worker, NEW i, i = Mine(w),
           \/ HeldEnds(w) \/ Skip(w) \/ PauseEnds(w) \/ Abort(w) \/ ConflictSkips(w)
           \/ ParkFailed(w) \/ CopiedEnds(w) \/ RemoveFails(w) \/ Succeed(w)
    PROVE  ExecutorInv'
<1>0. /\ phase = "Working" /\ Holds(w) /\ UNCHANGED sessionVars
      /\ UNCHANGED <<source, copyVars>>
  BY DEF HeldEnds, Skip, PauseEnds, Abort, ConflictSkips, ParkFailed, CopiedEnds,
     RemoveFails, Succeed, At, Holds, Holding, diskVars
<1>1. /\ i \in Item /\ FilesInv(worker[w].pc, worker[w].discard, i) /\ WorkerTypes
      /\ target \in [Item -> {"Free", "Foreign", "Partial", "Copy"}]
      /\ Dispute(i) =>
           /\ ~worker[w].discard
           /\ worker[w].pc \in {"Held", "Rename", "Copy", "Conflict", "Aborted", "Failed",
                                "Fatal"}
  BY <1>0, WorkerKnows
<1> USE ItemStates, VerdictIsResult DEF Writing, At, Mine
<1>2. CASE HeldEnds(w)
  <2> DEFINE to == "Pending"
  <2>1. to \in Lifecycle!ItemState \ {"Active"} /\ Moves(i, to) /\ worker[w].pc = "Held"
    BY <1>2 DEF HeldEnds
  <2>2. UNCHANGED target
    BY <1>2 DEF HeldEnds, diskVars
  <2>3. Releases(w, i)
    BY <1>0, <1>2, <2>2 DEF HeldEnds, Releases, copyVars
  <2>4. FilesInv(worker[w].pc, worker[w].discard, i) =>
          /\ print[i] # "None" <=> to \in {"Succeeded", "Copied", "CopiedSourceRetained"}
          /\ Operation = "Move" /\ to = "Succeeded" => source[i] \in {"Taken", "Missing"}
          /\ source[i] = "Taken" => Operation = "Move" /\ to = "Succeeded"
          /\ to = "Copied" => Operation = "Move"
          /\ target'[i] = "Partial" => i \in spoiled'
          /\ target'[i] = "Copy" => print[i] # "None"
    BY <1>0, <1>1, <2>1, <2>2 DEF FilesInv, copyVars
  <2>5. Dispute(i) => to \in {"Pending", "Parked"} /\ target'[i] = target[i]
    BY <1>1, <1>2, <2>1, <2>2 DEF HeldEnds
  <2> HIDE DEF to
  <2> QED  BY <2>1, <2>3, <2>4, <2>5, LetGo
<1>3. CASE Skip(w)
  <2> DEFINE to == "Skipped"
  <2>1. to \in Lifecycle!ItemState \ {"Active"} /\ Moves(i, to) /\ worker[w].pc = "Skipping"
    BY <1>3 DEF Skip
  <2>2. target' = [target EXCEPT ![i] = "Free"]
    BY <1>3 DEF Skip, diskVars
  <2>3. Releases(w, i)
    BY <1>0, <1>3, <2>2 DEF Skip, Releases, copyVars
  <2>4. FilesInv(worker[w].pc, worker[w].discard, i) =>
          /\ print[i] # "None" <=> to \in {"Succeeded", "Copied", "CopiedSourceRetained"}
          /\ Operation = "Move" /\ to = "Succeeded" => source[i] \in {"Taken", "Missing"}
          /\ source[i] = "Taken" => Operation = "Move" /\ to = "Succeeded"
          /\ to = "Copied" => Operation = "Move"
          /\ target'[i] = "Partial" => i \in spoiled'
          /\ target'[i] = "Copy" => print[i] # "None"
    BY <1>0, <1>1, <2>1, <2>2 DEF FilesInv, copyVars
  <2>5. Dispute(i) => to \in {"Pending", "Parked"} /\ target'[i] = target[i]
    BY <1>1, <1>3, <2>1, <2>2 DEF Skip
  <2> HIDE DEF to
  <2> QED  BY <2>1, <2>3, <2>4, <2>5, LetGo
<1>4. CASE PauseEnds(w)
  <2> DEFINE to == "Pending"
  <2>1. to \in Lifecycle!ItemState \ {"Active"} /\ Moves(i, to) /\ worker[w].pc = "Paused"
    BY <1>4 DEF PauseEnds
  <2>2. \/ UNCHANGED target /\ ~worker[w].discard
        \/ worker[w].discard /\ target' = [target EXCEPT ![i] = "Free"]
    BY <1>4, DiscardsOne DEF PauseEnds, diskVars
  <2>3. Releases(w, i)
    BY <1>0, <1>4, <2>2 DEF PauseEnds, Releases, copyVars
  <2>4. FilesInv(worker[w].pc, worker[w].discard, i) =>
          /\ print[i] # "None" <=> to \in {"Succeeded", "Copied", "CopiedSourceRetained"}
          /\ Operation = "Move" /\ to = "Succeeded" => source[i] \in {"Taken", "Missing"}
          /\ source[i] = "Taken" => Operation = "Move" /\ to = "Succeeded"
          /\ to = "Copied" => Operation = "Move"
          /\ target'[i] = "Partial" => i \in spoiled'
          /\ target'[i] = "Copy" => print[i] # "None"
    BY <1>0, <1>1, <2>1, <2>2 DEF FilesInv, copyVars
  <2>5. Dispute(i) => to \in {"Pending", "Parked"} /\ target'[i] = target[i]
    BY <1>1, <1>4, <2>1, <2>2 DEF PauseEnds
  <2> HIDE DEF to
  <2> QED  BY <2>1, <2>3, <2>4, <2>5, LetGo
<1>5. CASE Abort(w)
  <2> DEFINE to == "Pending"
  <2>1. to \in Lifecycle!ItemState \ {"Active"} /\ Moves(i, to) /\ worker[w].pc = "Aborted"
    BY <1>5 DEF Abort
  <2>2. \/ UNCHANGED target /\ ~worker[w].discard
        \/ worker[w].discard /\ target' = [target EXCEPT ![i] = "Free"]
    BY <1>5, DiscardsOne DEF Abort, diskVars
  <2>3. Releases(w, i)
    BY <1>0, <1>5, <2>2 DEF Abort, Releases, copyVars
  <2>4. FilesInv(worker[w].pc, worker[w].discard, i) =>
          /\ print[i] # "None" <=> to \in {"Succeeded", "Copied", "CopiedSourceRetained"}
          /\ Operation = "Move" /\ to = "Succeeded" => source[i] \in {"Taken", "Missing"}
          /\ source[i] = "Taken" => Operation = "Move" /\ to = "Succeeded"
          /\ to = "Copied" => Operation = "Move"
          /\ target'[i] = "Partial" => i \in spoiled'
          /\ target'[i] = "Copy" => print[i] # "None"
    BY <1>0, <1>1, <2>1, <2>2 DEF FilesInv, copyVars
  <2>5. Dispute(i) => to \in {"Pending", "Parked"} /\ target'[i] = target[i]
    BY <1>1, <1>5, <2>1, <2>2 DEF Abort
  <2> HIDE DEF to
  <2> QED  BY <2>1, <2>3, <2>4, <2>5, LetGo
<1>6. CASE ConflictSkips(w)
  <2> DEFINE to == "Skipped"
  <2>1. to \in Lifecycle!ItemState \ {"Active"} /\ Moves(i, to) /\ worker[w].pc = "Conflict"
    BY <1>6 DEF ConflictSkips
  <2>2. UNCHANGED target
    BY <1>6 DEF ConflictSkips, diskVars
  <2>3. Releases(w, i)
    BY <1>0, <1>6, <2>2 DEF ConflictSkips, Releases, copyVars
  <2>4. FilesInv(worker[w].pc, worker[w].discard, i) =>
          /\ print[i] # "None" <=> to \in {"Succeeded", "Copied", "CopiedSourceRetained"}
          /\ Operation = "Move" /\ to = "Succeeded" => source[i] \in {"Taken", "Missing"}
          /\ source[i] = "Taken" => Operation = "Move" /\ to = "Succeeded"
          /\ to = "Copied" => Operation = "Move"
          /\ target'[i] = "Partial" => i \in spoiled'
          /\ target'[i] = "Copy" => print[i] # "None"
    BY <1>0, <1>1, <2>1, <2>2 DEF FilesInv, copyVars
  <2>5. Dispute(i) => to \in {"Pending", "Parked"} /\ target'[i] = target[i]
    BY <1>1, <1>6, <2>1, <2>2 DEF ConflictSkips, Dispute
  <2> HIDE DEF to
  <2> QED  BY <2>1, <2>3, <2>4, <2>5, LetGo
<1>7. CASE ParkFailed(w)
  <2> DEFINE to == "Parked"
  <2>1. to \in Lifecycle!ItemState \ {"Active"} /\ Moves(i, to) /\ worker[w].pc = "Failed"
    BY <1>7 DEF ParkFailed
  <2>2. \/ UNCHANGED target /\ ~worker[w].discard
        \/ worker[w].discard /\ target' = [target EXCEPT ![i] = "Free"]
    BY <1>7, DiscardsOne DEF ParkFailed, diskVars
  <2>3. Releases(w, i)
    BY <1>0, <1>7, <2>2 DEF ParkFailed, Releases, copyVars
  <2>4. FilesInv(worker[w].pc, worker[w].discard, i) =>
          /\ print[i] # "None" <=> to \in {"Succeeded", "Copied", "CopiedSourceRetained"}
          /\ Operation = "Move" /\ to = "Succeeded" => source[i] \in {"Taken", "Missing"}
          /\ source[i] = "Taken" => Operation = "Move" /\ to = "Succeeded"
          /\ to = "Copied" => Operation = "Move"
          /\ target'[i] = "Partial" => i \in spoiled'
          /\ target'[i] = "Copy" => print[i] # "None"
    BY <1>0, <1>1, <2>1, <2>2 DEF FilesInv, copyVars
  <2>5. Dispute(i) => to \in {"Pending", "Parked"} /\ target'[i] = target[i]
    BY <1>1, <1>7, <2>1, <2>2 DEF ParkFailed
  <2> HIDE DEF to
  <2> QED  BY <2>1, <2>3, <2>4, <2>5, LetGo
<1>8. CASE CopiedEnds(w)
  <2> DEFINE to == "Copied"
  <2>1. to \in Lifecycle!ItemState \ {"Active"} /\ Moves(i, to) /\ worker[w].pc = "Copied"
    BY <1>8 DEF CopiedEnds
  <2>2. UNCHANGED target
    BY <1>8 DEF CopiedEnds, diskVars
  <2>3. Releases(w, i)
    BY <1>0, <1>8, <2>2 DEF CopiedEnds, Releases, copyVars
  <2>4. FilesInv(worker[w].pc, worker[w].discard, i) =>
          /\ print[i] # "None" <=> to \in {"Succeeded", "Copied", "CopiedSourceRetained"}
          /\ Operation = "Move" /\ to = "Succeeded" => source[i] \in {"Taken", "Missing"}
          /\ source[i] = "Taken" => Operation = "Move" /\ to = "Succeeded"
          /\ to = "Copied" => Operation = "Move"
          /\ target'[i] = "Partial" => i \in spoiled'
          /\ target'[i] = "Copy" => print[i] # "None"
    BY <1>0, <1>1, <2>1, <2>2 DEF FilesInv, copyVars
  <2>5. Dispute(i) => to \in {"Pending", "Parked"} /\ target'[i] = target[i]
    BY <1>1, <1>8, <2>1, <2>2 DEF CopiedEnds
  <2> HIDE DEF to
  <2> QED  BY <2>1, <2>3, <2>4, <2>5, LetGo
<1>9. CASE RemoveFails(w)
  <2> DEFINE to == IF i \in Identified THEN "Copied" ELSE "CopiedSourceRetained"
  <2>1. to \in Lifecycle!ItemState \ {"Active"} /\ Moves(i, to) /\ worker[w].pc = "Removing"
    BY <1>9 DEF RemoveFails
  <2>2. UNCHANGED target
    BY <1>9 DEF RemoveFails, diskVars
  <2>3. Releases(w, i)
    BY <1>0, <1>9, <2>2 DEF RemoveFails, Releases, copyVars
  <2>4. FilesInv(worker[w].pc, worker[w].discard, i) =>
          /\ print[i] # "None" <=> to \in {"Succeeded", "Copied", "CopiedSourceRetained"}
          /\ Operation = "Move" /\ to = "Succeeded" => source[i] \in {"Taken", "Missing"}
          /\ source[i] = "Taken" => Operation = "Move" /\ to = "Succeeded"
          /\ to = "Copied" => Operation = "Move"
          /\ target'[i] = "Partial" => i \in spoiled'
          /\ target'[i] = "Copy" => print[i] # "None"
    BY <1>0, <1>1, <2>1, <2>2 DEF FilesInv, copyVars
  <2>5. Dispute(i) => to \in {"Pending", "Parked"} /\ target'[i] = target[i]
    BY <1>1, <1>9, <2>1, <2>2 DEF RemoveFails
  <2> HIDE DEF to
  <2> QED  BY <2>1, <2>3, <2>4, <2>5, LetGo
<1>10. CASE Succeed(w)
  <2> DEFINE to == "Succeeded"
  <2>1. to \in Lifecycle!ItemState \ {"Active"} /\ Moves(i, to) /\ worker[w].pc = "Transferred"
    BY <1>10 DEF Succeed
  <2>2. UNCHANGED target
    BY <1>10 DEF Succeed, diskVars
  <2>3. Releases(w, i)
    BY <1>0, <1>10, <2>2 DEF Succeed, Releases, copyVars
  <2>4. FilesInv(worker[w].pc, worker[w].discard, i) =>
          /\ print[i] # "None" <=> to \in {"Succeeded", "Copied", "CopiedSourceRetained"}
          /\ Operation = "Move" /\ to = "Succeeded" => source[i] \in {"Taken", "Missing"}
          /\ source[i] = "Taken" => Operation = "Move" /\ to = "Succeeded"
          /\ to = "Copied" => Operation = "Move"
          /\ target'[i] = "Partial" => i \in spoiled'
          /\ target'[i] = "Copy" => print[i] # "None"
    BY <1>0, <1>1, <2>1, <2>2 DEF FilesInv, copyVars
  <2>5. Dispute(i) => to \in {"Pending", "Parked"} /\ target'[i] = target[i]
    BY <1>1, <1>10, <2>1, <2>2 DEF Succeed
  <2> HIDE DEF to
  <2> QED  BY <2>1, <2>3, <2>4, <2>5, LetGo
<1> QED  BY <1>2, <1>3, <1>4, <1>5, <1>6, <1>7, <1>8, <1>9, <1>10

\* A conflict or a fatal error gives the item back first; the dispute begins.
LEMMA GivingBackKeepsInv ==
    ASSUME ExecutorInv, TypeOK', NEW w \in Worker, NEW i, i = Mine(w),
           ConflictReleases(w) \/ FatalReleases(w)
    PROVE  ExecutorInv'
<1>0. /\ phase = "Working" /\ Holds(w) /\ UNCHANGED sessionVars /\ Moves(i, "Pending")
      /\ UNCHANGED <<source, target, print, alternates>>
  BY DEF ConflictReleases, FatalReleases, At, Holds, Holding, diskVars, copyVars
<1>1. /\ i \in Item /\ FilesInv(worker[w].pc, worker[w].discard, i) /\ WorkerTypes /\ WorldTypes
      /\ "Pending" \in Lifecycle!ItemState
      /\ state[i] = "Active"
  BY <1>0, WorkerKnows, ItemStates
<1>2. /\ OnlyWorker(w) /\ worker'[w].item = i
      /\ worker'[w].pc \in {"ReportConflict", "ReportFatal"}
  BY <1>1, WorkersApart, GotoMoves DEF ConflictReleases, FatalReleases, Mine
<1>3. HolderOf(w, i)  BY <1>0, <1>2, HolderActs
<1>4. OnlyItem(i)
  BY <1>0, OnlyItemChanges DEF ConflictReleases, FatalReleases, ExecutorInv, diskVars, copyVars
<1>5. state'[i] = "Pending"  BY <1>0, <1>1, MovesOne
<1>6. worker'[w].pc \notin Holding  BY <1>2 DEF Holding
<1>7. ItemInv(i)'
  <2>1. print[i] = "None" /\ source[i] # "Taken" /\ target[i] # "Copy"
    BY <1>1 DEF ConflictReleases, FatalReleases, FilesInv, At
  <2>2. target[i] = "Partial" => i \in spoiled'
    <3>1. CASE ConflictReleases(w)
      BY <1>1, <3>1 DEF ConflictReleases, FilesInv, At, Writing, diskVars, copyVars
    <3>2. CASE FatalReleases(w)  BY <3>2 DEF FatalReleases
    <3> QED  BY <3>1, <3>2
  <2> QED  BY <1>0, <1>5, <2>1, <2>2 DEF ItemInv
<1>8. Dispute(i) => Dispute(i)'  BY <1>0, <1>3, <1>5, <1>6, DisputeOutlives
<1>9. worker'[w].pc = "ReportConflict" => Dispute(i)'
  <2> SUFFICES ASSUME worker'[w].pc = "ReportConflict" PROVE Dispute(i)'  OBVIOUS
  <2>1. ConflictReleases(w)  BY <1>1, GotoMoves DEF FatalReleases
  <2>2. /\ target[i] \in {"Foreign", "Partial"} /\ print[i] = "None" /\ ~Replaces(i)
        /\ IF KeepsBoth(i) THEN alternates[i] = MaxAlternates ELSE options.policy # "SkipAll"
    BY <1>1, <2>1 DEF ConflictReleases, FilesInv, At
  <2>3. \A v \in Worker : Holds(v)' /\ Mine(v)' = i => FALSE
    BY <1>3, <1>6, HolderKnows DEF HolderOf, OnlyWorker, Holds, Mine
  <2> QED  BY <1>0, <1>1, <1>3, <1>5, <2>2, <2>3 DEF HolderOf, Dispute, Replaces, KeepsBoth
<1>10. Leaves(w, i)  BY <1>2, <1>5, <1>6, <1>7 DEF Leaves
<1> QED  BY <1>1, <1>2, <1>3, <1>4, <1>8, <1>9, <1>10, HolderKnows, WorkerStep DEF HolderOf

\* A file that is taken, and one that is taken up.
LEMMA TakingKeepsInv ==
    ASSUME ExecutorInv, TypeOK', NEW w \in Worker, NEW i \in Item,
           state[i] = "Pending", At(w, "Acquire"), Moves(i, "Active"),
           worker' = [worker EXCEPT ![w].pc = "Held", ![w].item = i],
           UNCHANGED <<diskVars, sessionVars>>
    PROVE  ExecutorInv'
<1>0. /\ WorkerTypes /\ WorldTypes /\ ItemInv(i) /\ phase = "Working"
      /\ ~Holds(w) /\ ~worker[w].discard /\ "Active" \in Lifecycle!ItemState
      /\ "Held" \in Holding
  BY TypeParts, ItemStates DEF ExecutorInv, HeldInv, At, Holds, Holding
<1>1. /\ worker'[w].pc = "Held" /\ worker'[w].item = i /\ ~worker'[w].discard
      /\ OnlyWorker(w)
  BY <1>0, AcquireMoves DEF OnlyWorker
<1>2. OnlyItem(i)  BY OnlyItemChanges DEF ExecutorInv, diskVars, copyVars
<1>3. state'[i] = "Active"  BY <1>0, MovesOne
<1>4. FilesInv(worker[w].pc, worker[w].discard, i)'
  <2>1. /\ print[i] = "None" /\ source[i] # "Taken" /\ target[i] # "Copy"
        /\ target[i] = "Partial" => i \in spoiled
    BY <1>0 DEF ItemInv
  <2> QED  BY <1>1, <2>1 DEF FilesInv, Writing, diskVars, copyVars
<1>5. Leaves(w, i)  BY <1>0, <1>1, <1>3, <1>4 DEF Leaves
<1>6. Dispute(i) => Dispute(i)'
  <2> SUFFICES ASSUME Dispute(i) PROVE Dispute(i)'  OBVIOUS
  <2>1. \A v \in Worker : Holds(v)' /\ Mine(v)' = i => v = w
    <3> SUFFICES ASSUME NEW v \in Worker, v # w, Holds(v)', Mine(v)' = i PROVE FALSE
      OBVIOUS
    <3>1. Holds(v) /\ Mine(v) = i  BY <1>1 DEF OnlyWorker, Holds, Mine
    <3> QED  BY <3>1 DEF ExecutorInv, HeldInv
  <2>2. options' = options  BY DEF sessionVars, mainVars, threadVars
  <2> QED  BY <1>1, <1>3, <2>1, <2>2
           DEF Dispute, Replaces, KeepsBoth, diskVars, copyVars, Mine
<1>7. MayChange(w, i) /\ worker'[w].pc # "ReportConflict"  BY <1>0, <1>1 DEF MayChange
<1>8. phase' = phase /\ options' = options /\ firstError' = firstError
  BY DEF sessionVars, mainVars, threadVars, resultVars
<1> QED  BY <1>0, <1>1, <1>2, <1>5, <1>6, <1>7, <1>8, WorkerStep

\* A worker begins with its file, or skips it.
LEMMA HeldRunsKeepsInv ==
    ASSUME ExecutorInv, TypeOK', NEW w \in Worker, NEW i, i = Mine(w), HeldRuns(w)
    PROVE  ExecutorInv'
<1>0. /\ phase = "Working" /\ Holds(w) /\ UNCHANGED <<diskVars, sessionVars>>
      /\ worker[w].pc = "Held"
  BY DEF HeldRuns, At, Holds, Holding
<1>1. /\ i \in Item /\ FilesInv("Held", worker[w].discard, i) /\ WorkerTypes
  BY <1>0, WorkerKnows
<1>2. CASE target[i] = "Free" /\ Moves(i, "Skipped") /\ NextFile(w)
  <2>1. Releases(w, i)  BY <1>0, <1>2 DEF Releases, diskVars, copyVars
  <2>2. "Skipped" \in Lifecycle!ItemState \ {"Active"}  BY ItemStates
  <2>3. ~Dispute(i)  BY <1>2 DEF Dispute
  <2>4. /\ print[i] = "None" /\ source[i] # "Taken" /\ target'[i] = "Free"
    BY <1>0, <1>1, <1>2 DEF FilesInv, diskVars
  <2> QED  BY <1>2, <2>1, <2>2, <2>3, <2>4, LetGo
<1> DEFINE free == target[i] = "Free"
           to == IF Operation = "Move" THEN "Rename" ELSE "Copy"
<1>3. CASE UNCHANGED state /\ worker' = [worker EXCEPT ![w].pc = to, ![w].discard = free]
  <2>1. to \in Pc /\ to \in Holding /\ free \in BOOLEAN  BY DEF Pc, Holding
  <2>2. /\ worker'[w].pc = to /\ worker'[w].item = i /\ worker'[w].discard = free
        /\ OnlyWorker(w)
    <3> HIDE DEF to, free
    <3> QED  BY <1>1, <1>3, <2>1, StartMoves DEF OnlyWorker, Mine
  <2>3. HolderOf(w, i)  BY <1>0, <2>2, HolderActs
  <2>4. \A j : SameFiles(j)  BY <1>0, <1>3 DEF SameFiles, diskVars, copyVars
  <2>5. FilesInv(worker[w].pc, worker[w].discard, i)'
    <3>1. FilesInv(to, free, i)  BY <1>1, ExecutorAssumption DEF FilesInv, Writing
    <3>2. ASSUME NEW t, t = to, NEW d, d = free PROVE FilesInv(t, d, i)'
      BY <2>3, <2>4, <3>1, <3>2, FilesStay DEF HolderOf
    <3> HIDE DEF to, free
    <3> QED  BY <2>2, <3>2 DEF FilesInv
  <2>6. Leaves(w, i)
    <3> HIDE DEF to, free
    <3> QED  BY <2>1, <2>2, <2>3, <2>4, <2>5, HolderKnows DEF Leaves, SameFiles
  <2>7. Dispute(i) => Dispute(i)'
    <3>1. Dispute(i) => ~free  BY DEF Dispute
    <3> QED  BY <2>2, <2>3, <2>4, <3>1, DisputeContinues
  <2>8. worker'[w].pc # "ReportConflict"  BY <2>2
  <2> HIDE DEF to, free
  <2> QED  BY <1>1, <2>2, <2>3, <2>4, <2>6, <2>7, <2>8, HolderKnows, WorkerStep
           DEF HolderOf, OnlyItem
<1> QED  BY <1>2, <1>3 DEF HeldRuns

\* The error of a session is recorded after its item was given back.
LEMMA ReportKeepsInv ==
    ASSUME ExecutorInv, TypeOK', NEW w \in Worker, Report(w)
    PROVE  ExecutorInv'
<1>0. /\ WorkerTypes /\ phase = "Working" /\ phase' = phase /\ options' = options
      /\ UNCHANGED <<planVars, diskVars>> /\ ~Holds(w)
  BY TypeParts DEF ExecutorInv, Report, At, Holds, Holding, mainVars, threadVars
<1>1. OnlyWorker(w) /\ worker'[w].pc = "Done"
  BY <1>0, WorkersApart, EndMoves, VerdictIsResult DEF Report
<1>2. firstError'.kind = "Conflict" => Dispute(firstError'.item)
  <2>1. CASE firstError' = firstError  BY <2>1 DEF ExecutorInv, DisputeInv
  <2>2. CASE firstError' = [kind |-> IF At(w, "ReportFatal") THEN "Fatal" ELSE "Conflict",
                            item |-> Mine(w)]
    <3>1. firstError'.item = Mine(w)  BY <2>2
    <3>2. firstError'.kind = "Conflict" => worker[w].pc = "ReportConflict"
      BY <2>2 DEF Report, At
    <3> QED  BY <3>1, <3>2 DEF ExecutorInv, DisputeInv
  <2> QED  BY <2>1, <2>2 DEF Report
<1> QED  BY <1>0, <1>1, <1>2, IdleStep

\* Between two files.
LEMMA BetweenFilesKeepsInv ==
    ASSUME ExecutorInv, TypeOK', NEW w \in Worker,
           LoopEnds(w) \/ LoopRuns(w) \/ Acquire(w)
    PROVE  ExecutorInv'
<1>0. /\ WorkerTypes /\ phase = "Working" /\ ~Holds(w) /\ ~worker[w].discard
      /\ UNCHANGED <<folder, diskVars, sessionVars>>
      /\ phase' = phase /\ options' = options /\ firstError' = firstError
  BY TypeParts DEF ExecutorInv, HeldInv, LoopEnds, LoopRuns, Acquire, At, Holds, Holding,
     workerOnly, worldVars, planVars, sessionVars, mainVars, threadVars, resultVars
<1>1. firstError'.kind = "Conflict" => Dispute(firstError'.item)
  BY <1>0 DEF ExecutorInv, DisputeInv
<1>2. ASSUME UNCHANGED state, NEW result \in Result, End(w, result) PROVE ExecutorInv'
  <2>1. OnlyWorker(w) /\ worker'[w].pc = "Done"  BY <1>0, <1>2, WorkersApart, EndMoves
  <2> QED  BY <1>0, <1>1, <1>2, <2>1, IdleStep DEF planVars
<1>3. CASE LoopEnds(w)
  BY <1>2, <1>3, VerdictIsResult DEF LoopEnds, workerOnly, worldVars, planVars
<1>4. CASE LoopRuns(w)
  <2>1. OnlyWorker(w) /\ worker'[w].pc = "Acquire" /\ ~worker'[w].discard
    BY <1>0, <1>4, WorkersApart, GotoMoves DEF LoopRuns
  <2> QED  BY <1>0, <1>1, <1>4, <2>1, IdleStep DEF LoopRuns, workerOnly, worldVars
<1>5. CASE Acquire(w)
  <2>1. CASE End(w, "Success") /\ UNCHANGED state  BY <1>2, <2>1, VerdictIsResult
  <2>2. ASSUME NEW i \in Pending, Moves(i, "Active"),
               worker' = [worker EXCEPT ![w].pc = "Held", ![w].item = i]
        PROVE  ExecutorInv'
    BY <1>0, <1>5, <2>2, TakingKeepsInv DEF Acquire, Pending
  <2> QED  BY <1>5, <2>1, <2>2 DEF Acquire
<1> QED  BY <1>3, <1>4, <1>5

\* Every step of a worker keeps the invariant.
LEMMA WorkKeepsInv ==
    ASSUME ExecutorInv, NEW w \in Worker, Work(w)
    PROVE  ExecutorInv'
<1>0. WorldTypes /\ SessionTypes /\ WorkerTypes  BY TypeParts DEF ExecutorInv
<1>1. /\ Holds(w) => Mine(w) \in Item
      /\ worker[w].pc = "Copying" => SourceThere(Mine(w))
  BY DEF ExecutorInv, HeldInv, Holds, Holding, FilesInv
<1>2. TypeOK'
  <2>1. WorldTypes'  BY <1>0, <1>1, WorkKeepsWorldTypes
  <2>2. SessionTypes' /\ WorkerTypes'  BY <1>0, WorkKeepsSessionTypes, WorkKeepsWorkerTypes
  <2> QED  BY <2>1, <2>2 DEF TypeOK, WorldTypes, SessionTypes, WorkerTypes, WorkerState
<1>3. CASE \/ CopyConflicts(w) \/ CopyFails(w) \/ CopyBackOffEnds(w) \/ Resume(w)
           \/ CallbackPauses(w) \/ PauseResumes(w) \/ CopiedRuns(w)
  BY <1>2, <1>3, PureStepsKeepInv
<1>4. CASE CopyOpens(w) \/ Rename(w)  BY <1>2, <1>4, OpeningKeepsInv
<1>5. CASE \/ CopyCompletes(w) \/ CopyBreaks(w) \/ CallbackSkips(w) \/ CallbackEnds(w)
           \/ Remove(w)
  BY <1>2, <1>5, CopyingKeepsInv
<1>6. CASE Redirect(w)  BY <1>2, <1>6, RedirectKeepsInv
<1>7. CASE \/ HeldEnds(w) \/ Skip(w) \/ PauseEnds(w) \/ Abort(w) \/ ConflictSkips(w)
           \/ ParkFailed(w) \/ CopiedEnds(w) \/ RemoveFails(w) \/ Succeed(w)
  BY <1>2, <1>7, LettingGoKeepsInv
<1>8. CASE ConflictReleases(w) \/ FatalReleases(w)  BY <1>2, <1>8, GivingBackKeepsInv
<1>9. CASE HeldRuns(w)  BY <1>2, <1>9, HeldRunsKeepsInv
<1>10. CASE Report(w)  BY <1>2, <1>10, ReportKeepsInv
<1>11. CASE LoopEnds(w) \/ LoopRuns(w) \/ Acquire(w)  BY <1>2, <1>11, BetweenFilesKeepsInv
<1> QED
  BY <1>3, <1>4, <1>5, <1>6, <1>7, <1>8, <1>9, <1>10, <1>11 DEF Work
-----------------------------------------------------------------------------
(***************************************************************************)
(* The session thread, the window and the other programs.                  *)
(***************************************************************************)

\* Nobody holds an item between two fan-outs, so no item is Active then.
LEMMA NobodyHolds ==
    ASSUME ExecutorInv, phase # "Working"
    PROVE  /\ \A w \in Worker : worker[w].pc = "Done" /\ ~Holds(w)
           /\ \A i \in Item : state[i] # "Active"
BY DEF ExecutorInv, ThreadInv, HeldInv, Holds, Holding

\* The workers stay where they are while somebody else takes a step.
LEMMA AroundStep ==
    ASSUME ExecutorInv, TypeOK', ThreadInv', worker' = worker,
           \A i \in Item : (state'[i] = "Active") = (state[i] = "Active"),
           \A w \in Worker : Holds(w) => FilesInv(worker[w].pc, worker[w].discard, Mine(w))',
           \A i \in Item : ItemInv(i)',
           \/ phase # "Working" /\ firstError'.kind # "Conflict"
           \/ firstError' = firstError /\ \A i : Dispute(i) => Dispute(i)'
    PROVE  ExecutorInv'
<1>1. HeldInv'  BY DEF ExecutorInv, HeldInv, Holds, Mine
<1>2. \A w \in Worker : Holds(w)' => FilesInv(worker[w].pc, worker[w].discard, Mine(w))'
  BY DEF Holds
<1>3. DisputeInv'
  <2>1. CASE phase # "Working" /\ firstError'.kind # "Conflict"
    BY <2>1, NobodyHolds DEF DisputeInv
  <2>2. CASE firstError' = firstError /\ \A i : Dispute(i) => Dispute(i)'
    <3>1. firstError'.kind = "Conflict" => Dispute(firstError.item)'
      <4>1. ASSUME NEW i, i = firstError.item, Dispute(i) PROVE Dispute(i)'  BY <2>2, <4>1
      <4> QED  BY <2>2, <4>1 DEF ExecutorInv, DisputeInv, Dispute
    <3>2. ASSUME NEW w \in Worker, worker'[w].pc = "ReportConflict" PROVE Dispute(Mine(w))'
      <4>1. Dispute(Mine(w))  BY <3>2 DEF ExecutorInv, DisputeInv
      <4>2. ASSUME NEW i, i = Mine(w) PROVE Dispute(i)'  BY <2>2, <4>1, <4>2
      <4> QED  BY <4>2 DEF Dispute, Mine
    <3> QED  BY <3>1, <3>2 DEF DisputeInv
  <2> QED  BY <2>1, <2>2
<1> QED  BY <1>1, <1>2, <1>3 DEF ExecutorInv

\* Between two fan-outs only the thread and the items count.
LEMMA ThreadStep ==
    ASSUME ExecutorInv, TypeOK', ThreadInv', worker' = worker, phase # "Working",
           \A i \in Item : state'[i] # "Active" /\ ItemInv(i)',
           firstError'.kind # "Conflict"
    PROVE  ExecutorInv'
BY NobodyHolds, AroundStep

\* An item that nobody holds may be given up, edited out or brought back, and its
\* files say the same of it.
LEMMA ItemMoves ==
    ASSUME NEW i, ItemInv(i), state[i] # "Active", UNCHANGED diskVars,
           \/ state'[i] = state[i]
           \/ /\ state[i] \in {"Absent", "Pending", "Parked"}
              /\ state'[i] \in {"Pending", "Failed", "Removed"}
           \/ state[i] = "Copied" /\ state'[i] = "CopiedSourceRetained"
    PROVE  ItemInv(i)' /\ state'[i] # "Active"
BY DEF ItemInv, diskVars, copyVars

\* The session thread keeps the invariant.
LEMMA MainKeepsInv ==
    ASSUME ExecutorInv, Main
    PROVE  ExecutorInv'
<1>0. TypeOK'
  BY MainKeepsTypes DEF ExecutorInv, TypeOK, WorldTypes, SessionTypes, WorkerTypes, WorkerState
<1>1. /\ WorldTypes /\ SessionTypes /\ WorkerTypes /\ ThreadInv
      /\ \A i \in Item : ItemInv(i)
  BY TypeParts DEF ExecutorInv
<1> USE DEF worldVars, controlVars, planVars, recoverVars, threadVars, resultVars, mainVars,
        sessionVars
\* Steps that touch neither plan nor files.
<1>2. ASSUME phase # "Working", phase' # "Working", UNCHANGED <<state, diskVars, worker>>,
             firstError = NoError, firstError' = firstError, ThreadInv'
      PROVE  ExecutorInv'
  <2>1. \A i \in Item : state'[i] # "Active" /\ ItemInv(i)'
    BY <1>1, <1>2, NobodyHolds, ItemMoves
  <2> QED  BY <1>0, <1>2, <2>1, ThreadStep DEF NoError
<1>3. phase \notin {"Working", "Idle"} => firstError = NoError /\ firstError.kind # "Conflict"
  BY <1>1 DEF ThreadInv, NoError
<1>4. CASE EndByControl
  BY <1>1, <1>2, <1>3, <1>4 DEF EndByControl, Finish, ThreadInv
<1>5. CASE Begin
  BY <1>1, <1>2, <1>3, <1>5 DEF Begin, ThreadInv
<1>6. CASE ListDirectories
  <2>1. ThreadInv'
    BY <1>1, <1>3, <1>6 DEF ListDirectories, ThreadInv, PendingFolders
  <2> QED  BY <1>1, <1>2, <1>3, <1>6, <2>1 DEF ListDirectories
<1>7. CASE DirectoryFatal
  BY <1>1, <1>2, <1>3, <1>7 DEF DirectoryFatal, Finish, ThreadInv
<1>8. CASE MarkMaterialized
  BY <1>1, <1>2, <1>3, <1>8 DEF MarkMaterialized, ThreadInv
<1>9. CASE FanOut
  <2>1. CASE phase' = "Empty" /\ UNCHANGED worker
    BY <1>1, <1>2, <1>3, <1>9, <2>1 DEF FanOut, ThreadInv
  <2>2. CASE phase' = "Working"
    <3>1. \A w \in Worker : worker'[w] \in {Between, Ended("None")}
      BY <1>9, <2>2 DEF FanOut
    <3>2. \A w \in Worker : /\ worker'[w].pc \in {"Loop", "Done"} /\ ~worker'[w].discard
                            /\ ~Holds(w)'
      BY <3>1 DEF Between, Ended, Holds, Holding
    <3>3. phase # "Working" /\ firstError' = NoError /\ UNCHANGED <<state, diskVars>>
      BY <1>3, <1>9 DEF FanOut
    <3>4. \A i \in Item : state'[i] # "Active" /\ ItemInv(i)'
      BY <1>1, <3>3, NobodyHolds, ItemMoves
    <3>5. HeldInv'  BY <3>2, <3>4 DEF HeldInv
    <3>6. DisputeInv'  BY <3>2, <3>3 DEF DisputeInv, NoError
    <3>7. ThreadInv'  BY <2>2 DEF ThreadInv
    <3> QED  BY <1>0, <3>2, <3>4, <3>5, <3>6, <3>7 DEF ExecutorInv
  <2> QED  BY <1>9, <2>1, <2>2 DEF FanOut
<1>10. CASE Join
  <2>1. \A w \in Worker : worker'[w].pc = "Done" /\ ~Holds(w) /\ ~Holds(w)'
    BY <1>10 DEF Join, Ended, Holds, Holding
  <2>2. UNCHANGED <<state, diskVars, firstError, options>>  BY <1>10 DEF Join
  <2>3. \A i \in Item : state'[i] # "Active" /\ ItemInv(i)'
    BY <1>1, <2>1, <2>2, ItemMoves DEF ExecutorInv, HeldInv
  <2>4. HeldInv'  BY <2>1, <2>3 DEF HeldInv
  <2>5. DisputeInv'
    <3>1. firstError.kind = "Conflict" => Dispute(firstError.item)'
      BY <2>1, <2>2 DEF ExecutorInv, DisputeInv, Dispute, Replaces, KeepsBoth, diskVars, copyVars
    <3> QED  BY <2>1, <2>2, <3>1 DEF DisputeInv
  <2>6. ThreadInv'  BY <1>10, <2>1 DEF Join, Finish, ThreadInv
  <2> QED  BY <1>0, <2>1, <2>3, <2>4, <2>5, <2>6 DEF ExecutorInv
<1>11. CASE Conclude
  BY <1>1, <1>2, <1>3, <1>11 DEF Conclude, Finish, ThreadInv
<1>12. CASE CleanUp
  BY <1>1, <1>2, <1>3, <1>12 DEF CleanUp, Finish, ThreadInv
<1>13. CASE RecoverRemoves
  <2>1. /\ phase = "Removing" /\ phase' = "Recover" /\ retrying \in Item
        /\ state[retrying] = "Copied" /\ retrying \notin todo
        /\ UNCHANGED <<target, copyVars, todo, firstError, worker>>
    BY <1>1, <1>13 DEF RecoverRemoves, ThreadInv
  <2>2. CASE UNCHANGED <<source, state>>
    <3>1. ThreadInv'  BY <1>1, <1>3, <2>1, <2>2 DEF ThreadInv
    <3> QED  BY <1>2, <1>3, <2>1, <2>2, <3>1 DEF diskVars
  <2>3. CASE RemovesSource(retrying) /\ Moves(retrying, "Succeeded")
    <3>1. /\ state'[retrying] = "Succeeded" /\ source'[retrying] \in {"Taken", "Missing"}
          /\ \A i \in Item : i # retrying => state'[i] = state[i] /\ source'[i] = source[i]
      BY <1>1, <2>1, <2>3 DEF Moves, RemovesSource, WorldTypes
    <3>2. ThreadInv'  BY <1>1, <1>3, <2>1, <3>1 DEF ThreadInv, SessionTypes
    <3>3. ASSUME NEW i \in Item PROVE state'[i] # "Active" /\ ItemInv(i)'
      <4>1. CASE i = retrying
        BY <1>1, <2>1, <3>1, <4>1 DEF ItemInv, copyVars
      <4>2. CASE i # retrying
        BY <1>1, <2>1, <3>1, <4>2, NobodyHolds DEF ItemInv, copyVars
      <4> QED  BY <4>1, <4>2
    <3> QED  BY <1>0, <1>3, <2>1, <3>2, <3>3, ThreadStep
  <2> QED  BY <1>13, <2>2, <2>3 DEF RecoverRemoves
<1>14. ASSUME NEW i \in Item, RecoverSettles(i) PROVE ExecutorInv'
  <2>1. /\ phase = "Recover" /\ phase' = phase /\ state[i] = "Copied" /\ todo' = todo \ {i}
        /\ UNCHANGED <<diskVars, firstError, worker>>
    BY <1>1, <1>14 DEF RecoverSettles, ThreadInv
  <2>2. /\ state'[i] \in {"CopiedSourceRetained", "Succeeded"}
        /\ state'[i] = "Succeeded" => source[i] = "Missing"
        /\ \A j \in Item : j # i => state'[j] = state[j]
    BY <1>1, <1>14 DEF RecoverSettles, Moves, WorldTypes
  <2>3. ThreadInv'  BY <1>1, <1>3, <2>1, <2>2 DEF ThreadInv, SessionTypes
  <2>4. ASSUME NEW j \in Item PROVE state'[j] # "Active" /\ ItemInv(j)'
    <3>1. CASE j = i  BY <1>1, <2>1, <2>2, <3>1 DEF ItemInv, diskVars, copyVars
    <3>2. CASE j # i  BY <1>1, <2>1, <2>2, <3>2, NobodyHolds, ItemMoves
    <3> QED  BY <3>1, <3>2
  <2> QED  BY <1>0, <1>3, <2>1, <2>3, <2>4, ThreadStep
<1>15. ASSUME NEW i \in Item, RecoverPostpones(i) PROVE ExecutorInv'
  <2>1. ThreadInv'  BY <1>1, <1>3, <1>15 DEF RecoverPostpones, ThreadInv
  <2> QED  BY <1>2, <1>3, <1>15, <2>1 DEF RecoverPostpones
<1>16. ASSUME NEW i \in Item, RecoverRetries(i) PROVE ExecutorInv'
  <2>1. ThreadInv'  BY <1>1, <1>3, <1>16 DEF RecoverRetries, ThreadInv
  <2> QED  BY <1>2, <1>3, <1>16, <2>1 DEF RecoverRetries
<1>17. ASSUME NEW f \in Folder, PrepareDirectory(f) PROVE ExecutorInv'
  <2>1. /\ phase = "Directories" /\ UNCHANGED <<phase, diskVars, firstError, worker, through>>
        /\ folder'[f] = "Tried" /\ \A g \in Folder : g # f => folder'[g] = folder[g]
    BY <1>1, <1>17 DEF PrepareDirectory, WorldTypes
  <2>2. \A i \in Item : \/ state'[i] = state[i]
                        \/ state[i] = "Pending" /\ state'[i] = "Failed"
    BY <1>1, <1>17 DEF PrepareDirectory, Pending, WorldTypes
  <2>3. ThreadInv'  BY <1>1, <1>3, <2>1 DEF ThreadInv, SessionTypes
  <2>4. \A i \in Item : state'[i] # "Active" /\ ItemInv(i)'
    BY <1>1, <2>1, <2>2, NobodyHolds, ItemMoves
  <2> QED  BY <1>0, <1>3, <2>1, <2>3, <2>4, ThreadStep
<1> QED
  BY <1>4, <1>5, <1>6, <1>7, <1>8, <1>9, <1>10, <1>11, <1>12, <1>13, <1>14, <1>15, <1>16,
     <1>17 DEF Main

\* A new session forgets the error of the last one.
LEMMA StartsKeepInv ==
    ASSUME ExecutorInv, TypeOK', NEW opts, Starts(opts),
           \A i \in Item :
              \/ state'[i] = state[i]
              \/ /\ state[i] \in {"Absent", "Pending", "Parked"}
                 /\ state'[i] \in {"Pending", "Failed", "Removed"}
              \/ state[i] = "Copied" /\ state'[i] = "CopiedSourceRetained"
    PROVE  ExecutorInv'
<1>1. phase = "Idle" /\ phase' = "Begin" /\ firstError' = NoError /\ worker' = worker
  BY DEF Starts
<1>2. \A i \in Item : state'[i] # "Active" /\ ItemInv(i)'
  BY <1>1, NobodyHolds, ItemMoves DEF ExecutorInv, Starts
<1>3. ThreadInv'  BY <1>1 DEF ExecutorInv, ThreadInv
<1> QED  BY <1>1, <1>2, <1>3, ThreadStep DEF NoError

\* The window appends a pending item, or removes one.
LEMMA EditKeepsInv ==
    ASSUME ExecutorInv, TypeOK', NEW i \in Item, WindowAppends(i) \/ WindowRemoves(i)
    PROVE  ExecutorInv'
<1>0. WorldTypes /\ SessionTypes /\ ThreadInv /\ \A j \in Item : ItemInv(j)
  BY TypeParts DEF ExecutorInv
<1>1. /\ UNCHANGED <<diskVars, sessionVars, worker>>
      /\ state[i] \in {"Absent", "Pending"} /\ state'[i] \in {"Pending", "Removed"}
      /\ state[i] = "Absent" => state'[i] = "Pending"
      /\ \A j \in Item : j # i => state'[j] = state[j]
  BY <1>0 DEF WindowAppends, WindowRemoves, Moves, Pending, WorldTypes
<1>2. \A j \in Item : state'[j] = state[j] \/ (j = i /\ state[j] \in {"Absent", "Pending"}
                                              /\ state'[j] \in {"Pending", "Removed"})
  BY <1>1
<1>3. ThreadInv'
  <2>1. \A f \in Folder : folder[f] \in {"Planned", "Tried"} => folder'[f] = folder[f]
    BY <1>0 DEF WindowAppends, WindowRemoves, WorldTypes
  <2>2. \A j \in Item : state[j] = "Copied" => state'[j] = "Copied"  BY <1>2
  <2> QED  BY <1>0, <1>1, <2>1, <2>2
           DEF ThreadInv, SessionTypes, sessionVars, mainVars, threadVars, recoverVars, resultVars
<1>4. \A j \in Item : (state'[j] = "Active") = (state[j] = "Active")  BY <1>2
<1>5. \A j \in Item : ItemInv(j)'
  <2> SUFFICES ASSUME NEW j \in Item PROVE ItemInv(j)'  OBVIOUS
  <2>1. CASE state[j] = "Active"  BY <1>4, <2>1 DEF ItemInv
  <2>2. CASE state[j] # "Active"  BY <1>0, <1>1, <1>2, <2>2, ItemMoves
  <2> QED  BY <2>1, <2>2
<1>6. options' = options /\ firstError' = firstError
  BY <1>1 DEF sessionVars, mainVars, threadVars, resultVars
<1>7. \A w \in Worker : Holds(w) => FilesInv(worker[w].pc, worker[w].discard, Mine(w))'
  <2> SUFFICES ASSUME NEW w \in Worker, Holds(w)
               PROVE  FilesInv(worker[w].pc, worker[w].discard, Mine(w))'
    OBVIOUS
  <2>1. FilesInv(worker[w].pc, worker[w].discard, Mine(w))  BY DEF ExecutorInv
  <2> QED  BY <1>1, <1>6, <2>1
           DEF FilesInv, Mine, diskVars, copyVars, SourceThere, Replaces
<1>8. \A j : Dispute(j) => Dispute(j)'
  <2> SUFFICES ASSUME NEW j, Dispute(j) PROVE Dispute(j)'  OBVIOUS
  <2>1. j \in Item /\ state'[j] \in {"Pending", "Active", "Parked", "Removed"}
    BY <1>2 DEF Dispute
  <2> QED  BY <1>1, <1>6, <2>1
           DEF Dispute, diskVars, copyVars, Replaces, KeepsBoth, Holds, Mine
<1> QED  BY <1>1, <1>3, <1>4, <1>5, <1>6, <1>7, <1>8, AroundStep

\* A request of the window touches neither plan nor files.
LEMMA RequestKeepsInv ==
    ASSUME ExecutorInv, TypeOK', UNCHANGED <<planVars, diskVars, sessionVars, worker>>
    PROVE  ExecutorInv'
<1>1. ThreadInv'
  BY DEF ExecutorInv, ThreadInv, planVars, sessionVars, mainVars, threadVars, recoverVars,
     resultVars
<1>2. \A i \in Item : ItemInv(i)'  BY DEF ExecutorInv, ItemInv, planVars, diskVars, copyVars
<1>3. options' = options /\ firstError' = firstError /\ state' = state
  BY DEF planVars, sessionVars, mainVars, threadVars, resultVars
<1>4. \A w \in Worker : Holds(w) => FilesInv(worker[w].pc, worker[w].discard, Mine(w))'
  BY <1>3 DEF ExecutorInv, FilesInv, Mine, diskVars, copyVars, SourceThere, Replaces
<1>5. \A j : Dispute(j) => Dispute(j)'
  BY <1>3 DEF Dispute, diskVars, copyVars, Replaces, KeepsBoth, Holds, Mine
<1> QED  BY <1>1, <1>2, <1>3, <1>4, <1>5, AroundStep

\* The window keeps the invariant.
LEMMA WindowKeepsInv ==
    ASSUME ExecutorInv, Window
    PROVE  ExecutorInv'
<1>0. TypeOK'
  BY WindowKeepsTypes DEF ExecutorInv, TypeOK, WorldTypes, SessionTypes, WorkerTypes, WorkerState
<1>1. WorldTypes /\ ThreadInv  BY TypeParts DEF ExecutorInv
<1>2. CASE StartTransfer \/ ResumeStoppedCopy
  BY <1>0, <1>2, StartsKeepInv DEF StartTransfer, ResumeStoppedCopy
<1>3. CASE SkipConflict
  <2>1. \A i \in Item : \/ state'[i] = state[i]
                        \/ state[i] = "Pending" /\ state'[i] = "Removed"
    BY <1>1, <1>3 DEF SkipConflict, Moves, WorldTypes, Pending
  <2>2. Starts(Plain)  BY <1>3 DEF SkipConflict
  <2> QED  BY <1>0, <2>1, <2>2, StartsKeepInv
<1>4. CASE ResumeParkedFailures
  <2>1. \A i \in Item : \/ state'[i] = state[i]
                        \/ state[i] = "Parked" /\ state'[i] = "Pending"
    BY <1>4 DEF ResumeParkedFailures
  <2>2. Starts([Plain EXCEPT !.retry = TRUE])  BY <1>4 DEF ResumeParkedFailures
  <2> QED  BY <1>0, <2>1, <2>2, StartsKeepInv
<1>5. CASE ResolveParkedFailures
  <2>1. \A i \in Item : \/ state'[i] = state[i]
                        \/ state[i] = "Parked" /\ state'[i] = "Failed"
                        \/ state[i] = "Copied" /\ state'[i] = "CopiedSourceRetained"
    BY <1>5 DEF ResolveParkedFailures
  <2>2. CASE Starts(Plain)  BY <1>0, <2>1, <2>2, StartsKeepInv
  <2>3. CASE UNCHANGED <<controlVars, folder, diskVars, sessionVars, worker>>
    <3>1. phase = "Idle" /\ firstError.kind # "Conflict"
      BY <1>5 DEF ResolveParkedFailures, InterruptedSessionState
    <3>2. \A i \in Item : state'[i] # "Active" /\ ItemInv(i)'
      BY <2>1, <2>3, <3>1, NobodyHolds, ItemMoves DEF ExecutorInv
    <3>3. ThreadInv'
      BY <1>1, <2>3, <3>1 DEF ThreadInv, sessionVars, mainVars, threadVars, recoverVars, resultVars
    <3> QED  BY <1>0, <2>3, <3>1, <3>2, <3>3, ThreadStep DEF sessionVars, resultVars
  <2> QED  BY <1>5, <2>2, <2>3 DEF ResolveParkedFailures
<1>6. CASE ExecuteAgain
  <2>1. /\ phase = "Idle" /\ phase' = "Begin" /\ firstError = NoError /\ firstError' = NoError
        /\ UNCHANGED <<worldVars, worker>>
    BY <1>1, <1>6 DEF ExecuteAgain, ThreadInv
  <2>2. \A i \in Item : state'[i] # "Active" /\ ItemInv(i)'
    BY <2>1, NobodyHolds, ItemMoves DEF ExecutorInv, worldVars, planVars
  <2>3. ThreadInv'  BY <1>1, <2>1 DEF ThreadInv
  <2> QED  BY <1>0, <2>1, <2>2, <2>3, ThreadStep DEF NoError
<1>7. ASSUME NEW policy \in Policy, ResumeConflictCopy(policy) PROVE ExecutorInv'
  <2>1. Starts([policy |-> policy, retry |-> FALSE,
                replace |-> IF policy \in {"Prompt", "KeepBoth"} THEN firstError.item
                            ELSE None])
    BY <1>7 DEF ResumeConflictCopy
  <2>2. UNCHANGED state  BY <1>7 DEF ResumeConflictCopy
  <2> QED  BY <1>0, <2>1, <2>2, StartsKeepInv
<1>8. ASSUME NEW request \in Request, WindowRequests(request) PROVE ExecutorInv'
  BY <1>0, <1>8, RequestKeepsInv DEF WindowRequests
<1>9. ASSUME NEW i \in Item, WindowSkips(i) PROVE ExecutorInv'
  BY <1>0, <1>9, RequestKeepsInv DEF WindowSkips
<1>10. ASSUME NEW i \in Item, WindowAppends(i) \/ WindowRemoves(i) PROVE ExecutorInv'
  BY <1>0, <1>10, EditKeepsInv
<1> QED
  BY <1>2, <1>3, <1>4, <1>5, <1>6, <1>7, <1>8, <1>9, <1>10 DEF Window

\* Whatever other programs do to an unresolved item, the invariant claims nothing
\* that they could break.
LEMMA OthersKeepInv ==
    ASSUME ExecutorInv, NEW i \in Item, OtherPrograms(i)
    PROVE  ExecutorInv'
<1>0. TypeOK'
  BY OthersKeepTypes DEF ExecutorInv, TypeOK, WorldTypes, SessionTypes, WorkerTypes, WorkerState
<1>1. WorldTypes /\ ThreadInv /\ \A j \in Item : ItemInv(j)  BY TypeParts DEF ExecutorInv
<1>2. /\ UNCHANGED <<controlVars, planVars, copyVars, sessionVars, worker>>
      /\ state' = state /\ options' = options /\ firstError' = firstError
      /\ state[i] \in {"Pending", "Active", "Parked", "Copied"}
  BY DEF OtherPrograms, planVars, sessionVars, mainVars, threadVars, resultVars, Unresolved,
     Remaining, AllParked
<1>3. /\ source'[i] # source[i] =>
           /\ SourceThere(i) /\ ~Leased(i) /\ source'[i] \in {"Changed", "Missing"}
           /\ source'[i] = "Missing" \/ source[i] = "Original"
      /\ target'[i] # target[i] =>
           \/ target[i] = "Free" /\ target'[i] = "Foreign"
           \/ target[i] = "Copy" /\ target'[i] \in {"Foreign", "Free"}
      /\ \A j \in Item : j # i => source'[j] = source[j] /\ target'[j] = target[j]
  BY <1>1 DEF OtherPrograms, SourceThere, WorldTypes
<1>4. ThreadInv'
  BY <1>1, <1>2 DEF ThreadInv, planVars, sessionVars, mainVars, threadVars, recoverVars, resultVars
<1>5. \A j \in Item : ItemInv(j)'
  BY <1>1, <1>2, <1>3 DEF ItemInv, copyVars, SourceThere
<1>6. ASSUME NEW w \in Worker, Holds(w)
      PROVE  FilesInv(worker[w].pc, worker[w].discard, Mine(w))'
  <2>1. /\ FilesInv(worker[w].pc, worker[w].discard, Mine(w)) /\ Mine(w) \in Item
        /\ Mine(w) = i /\ ~Leased(i) => worker[w].pc \notin {"Copying", "Paused", "Resume"}
    BY <1>6 DEF ExecutorInv, HeldInv, Leased
  <2>2. CASE Mine(w) # i
    BY <1>2, <1>3, <2>1, <2>2 DEF FilesInv, Mine, copyVars, SourceThere, Replaces
  <2>3. CASE Mine(w) = i
    BY <1>2, <1>3, <2>1, <2>3 DEF FilesInv, Mine, copyVars, SourceThere, Replaces
  <2> QED  BY <2>2, <2>3
<1>7. \A j : Dispute(j) => Dispute(j)'
  BY <1>2, <1>3 DEF Dispute, copyVars, Replaces, KeepsBoth, Holds, Mine
<1> QED  BY <1>0, <1>2, <1>4, <1>5, <1>6, <1>7, AroundStep
-----------------------------------------------------------------------------
(***************************************************************************)
(* The theorems.                                                           *)
(***************************************************************************)

\* The invariant holds at first.
LEMMA InitInv ==
    ASSUME Init
    PROVE  ExecutorInv
<1> USE ItemStates, ExecutorAssumption
<1>1. WorldTypes
  BY DEF Init, WorldTypes, ExecutionDirective
<1>2. SessionTypes
  <2>1. NoError \in [kind : {"None", "Fatal", "Conflict"}, item : Item \cup {None}]
    BY DEF NoError
  <2> QED  BY <2>1, OptionsTyped DEF Init, SessionTypes, Phase, Result
<1>3. WorkerTypes
  <2>1. Ended("None") \in WorkerState  BY DEF Ended, WorkerState, Pc, Result
  <2> QED  BY <2>1 DEF Init, WorkerTypes
<1>4. \A w \in Worker : worker[w].pc = "Done" /\ ~Holds(w)
  BY DEF Init, Ended, Holds, Holding
<1>5. ThreadInv  BY <1>4 DEF Init, ThreadInv
<1>6. HeldInv  BY <1>4 DEF Init, HeldInv
<1>7. DisputeInv  BY <1>4 DEF Init, DisputeInv, NoError
<1>8. \A i \in Item : ItemInv(i)  BY DEF Init, ItemInv
<1> QED  BY <1>1, <1>2, <1>3, <1>4, <1>5, <1>6, <1>7, <1>8, TypeParts DEF ExecutorInv

\* Every step keeps the invariant.
LEMMA NextKeepsInv ==
    ASSUME ExecutorInv, [Next]_vars
    PROVE  ExecutorInv'
<1>1. CASE Main  BY <1>1, MainKeepsInv
<1>2. ASSUME NEW w \in Worker, Work(w) PROVE ExecutorInv'  BY <1>2, WorkKeepsInv
<1>3. CASE Window  BY <1>3, WindowKeepsInv
<1>4. ASSUME NEW i \in Item, OtherPrograms(i) PROVE ExecutorInv'  BY <1>4, OthersKeepInv
<1>5. CASE UNCHANGED vars
  <2>1. TypeOK'
    BY <1>5 DEF ExecutorInv, TypeOK, vars, worldVars, controlVars, planVars, diskVars,
       copyVars, sessionVars, mainVars, threadVars, recoverVars, resultVars
  <2> QED  BY <1>5, <2>1, RequestKeepsInv DEF vars, worldVars
<1> QED  BY <1>1, <1>2, <1>3, <1>4, <1>5 DEF Next

\* The invariant holds in every state of every behaviour.
THEOREM ExecutorInvariant == Spec => []ExecutorInv
BY InitInv, NextKeepsInv, PTL DEF Spec

\* The executor is type correct, and a cancelled session holds no skips.
THEOREM TypeCorrect == Spec => []TypeOK
<1>1. ExecutorInv => TypeOK  BY DEF ExecutorInv
<1> QED  BY <1>1, ExecutorInvariant, PTL

\* The Active items of the plan are those the workers hold, each held by one.
THEOREM ItemsAreHeld == Spec => []HeldExactly
<1>1. ASSUME ExecutorInv PROVE HeldExactly
  <2>1. \A w \in Worker : worker[w].pc \in Holding => state[Mine(w)] = "Active"
    BY <1>1 DEF ExecutorInv, HeldInv, Holds
  <2>2. \A v, w \in Worker :
          v # w /\ {worker[v].pc, worker[w].pc} \subseteq Holding => Mine(v) # Mine(w)
    BY <1>1 DEF ExecutorInv, HeldInv, Holds
  <2>3. \A i \in Item : state[i] = "Active" =>
          phase = "Working" /\ \E w \in Worker : worker[w].pc \in Holding /\ Mine(w) = i
    BY <1>1, NobodyHolds DEF ExecutorInv, HeldInv, Holds
  <2> QED  BY <2>1, <2>2, <2>3 DEF HeldExactly
<1> QED  BY <1>1, ExecutorInvariant, PTL

\* The result of an item is what happened to its files.
THEOREM OutcomesAreTrue == Spec => []OutcomesTrue
<1>1. ASSUME ExecutorInv PROVE OutcomesTrue
  <2> SUFFICES ASSUME NEW i \in Item,
                      NEW transferring,
                      transferring = \E w \in Worker :
                        Mine(w) = i /\ worker[w].pc \in {"Copied", "Removing", "Transferred"}
               PROVE  /\ (print[i] # "None") <=>
                           \/ state[i] \in {"Succeeded", "Copied", "CopiedSourceRetained"}
                           \/ transferring /\ state[i] = "Active"
                      /\ Operation = "Move" /\ state[i] = "Succeeded" =>
                           source[i] \in {"Taken", "Missing"}
                      /\ source[i] = "Taken" =>
                           Operation = "Move" /\ state[i] \in {"Active", "Succeeded"}
    BY DEF OutcomesTrue
  <2>1. CASE state[i] # "Active"  BY <1>1, <2>1 DEF ExecutorInv, ItemInv
  <2>2. CASE state[i] = "Active"
    <3>1. PICK w \in Worker : Holds(w) /\ Mine(w) = i  BY <1>1, <2>2 DEF ExecutorInv, HeldInv
    <3>2. FilesInv(worker[w].pc, worker[w].discard, i)  BY <1>1, <3>1 DEF ExecutorInv
    <3>3. transferring <=> worker[w].pc \in {"Copied", "Removing", "Transferred"}
      BY <1>1, <3>1 DEF ExecutorInv, HeldInv, Holds, Holding
    <3> QED  BY <2>2, <3>2, <3>3 DEF FilesInv
  <2> QED  BY <2>1, <2>2
<1> QED  BY <1>1, ExecutorInvariant, PTL

\* Half a file is left at a destination by its worker only.
THEOREM NothingIsLeftOver == Spec => []NoLeftovers
<1>1. ExecutorInv => NoLeftovers  BY DEF ExecutorInv, ItemInv, NoLeftovers
<1> QED  BY <1>1, ExecutorInvariant, PTL

\* The file a session's conflict is about is neither transferred nor settled when
\* the user is asked.
THEOREM ConflictsStayOpen == Spec => []ConflictOpen
<1>1. ASSUME ExecutorInv, phase = "Idle", InterruptedSessionState = "Conflict"
      PROVE  state[firstError.item] \in {"Pending", "Parked", "Removed"}
  <2>1. Dispute(firstError.item)
    BY <1>1 DEF ExecutorInv, DisputeInv, InterruptedSessionState
  <2> QED  BY <1>1, <2>1, NobodyHolds DEF Dispute
<1>2. ExecutorInv => ConflictOpen  BY <1>1 DEF ConflictOpen
<1> QED  BY <1>2, ExecutorInvariant, PTL
-----------------------------------------------------------------------------
(***************************************************************************)
(* What a step may never do.                                               *)
(***************************************************************************)

\* Only a rename and the removal of a copied source take the source of an item.
LEMMA TakesSource ==
    ASSUME ExecutorInv, Next, NEW i \in Item, source[i] # "Taken", source'[i] = "Taken"
    PROVE  target'[i] = "Copy" /\ print'[i] = source[i]
<1>0. /\ WorldTypes /\ WorkerTypes /\ ThreadInv
      /\ source \in [Item -> {"Original", "Changed", "Missing", "Taken"}]
      /\ target \in [Item -> {"Free", "Foreign", "Partial", "Copy"}]
      /\ print \in [Item -> {"None", "Original", "Changed"}]
  BY TypeParts DEF ExecutorInv, WorldTypes
<1>1. ASSUME NEW j \in Item, RemovesSource(j), UNCHANGED <<target, print>>
      PROVE  target'[i] = "Copy" /\ print'[i] = source[i]
  BY <1>0, <1>1 DEF RemovesSource
<1>2. ASSUME NEW w \in Worker, Rename(w)
      PROVE  target'[i] = "Copy" /\ print'[i] = source[i]
  <2>1. Mine(w) \in Item  BY <1>2 DEF ExecutorInv, HeldInv, Rename, At, Holds, Holding
  <2> QED  BY <1>0, <1>2, <2>1 DEF Rename
<1>3. ASSUME NEW w \in Worker, Remove(w)
      PROVE  target'[i] = "Copy" /\ print'[i] = source[i]
  <2>1. Mine(w) \in Item  BY <1>3 DEF ExecutorInv, HeldInv, Remove, At, Holds, Holding
  <2> QED  BY <1>1, <1>3, <2>1 DEF Remove, copyVars
<1>4. CASE RecoverRemoves
  <2>1. retrying \in Item  BY <1>0, <1>4 DEF RecoverRemoves, ThreadInv
  <2> QED  BY <1>1, <1>4, <2>1 DEF RecoverRemoves, copyVars
<1>5. ASSUME NEW j \in Item, OtherPrograms(j) PROVE FALSE
  BY <1>0, <1>5 DEF OtherPrograms, SourceThere
<1>6. CASE UNCHANGED source  BY <1>6
<1>7. CASE Main
  <2>1. RecoverRemoves \/ UNCHANGED source
    BY <1>7 DEF Main, EndByControl, Begin, ListDirectories, DirectoryFatal, MarkMaterialized,
       FanOut, Join, Conclude, CleanUp, RecoverSettles, RecoverPostpones, RecoverRetries,
       PrepareDirectory, worldVars, diskVars
  <2> QED  BY <1>4, <1>6, <2>1
<1>8. ASSUME NEW w \in Worker, Work(w)
      PROVE  target'[i] = "Copy" /\ print'[i] = source[i]
  <2>1. Rename(w) \/ Remove(w) \/ UNCHANGED source
    BY <1>8 DEF Work, LoopEnds, LoopRuns, Acquire, HeldEnds, HeldRuns, CopyOpens,
       CopyConflicts, CopyFails, CopyBackOffEnds, Resume, CopyCompletes, CopyBreaks,
       CallbackSkips, CallbackPauses, CallbackEnds, Skip, PauseResumes, PauseEnds, Abort,
       Redirect, ConflictSkips, ConflictReleases, FatalReleases, Report, ParkFailed,
       CopiedEnds, CopiedRuns, RemoveFails, Succeed, workerOnly, worldVars, diskVars
  <2> QED  BY <1>2, <1>3, <1>6, <2>1
<1>9. CASE Window
  <2>1. UNCHANGED source
    BY <1>9 DEF Window, StartTransfer, ResumeStoppedCopy, SkipConflict, ResumeParkedFailures,
       ResolveParkedFailures, ExecuteAgain, ResumeConflictCopy, WindowRequests, WindowSkips,
       WindowAppends, WindowRemoves, Starts, worldVars, diskVars
  <2> QED  BY <1>6, <2>1
<1> QED  BY <1>5, <1>7, <1>8, <1>9 DEF Next

\* A source is only ever removed while the complete copy of that very version of
\* it is at the destination.
THEOREM SourcesAreSafe == Spec => SourceSafe
<1>1. ASSUME ExecutorInv, [Next]_vars
      PROVE  [\A i \in Item : source[i] # "Taken" /\ source'[i] = "Taken" =>
                target'[i] = "Copy" /\ print'[i] = source[i]]_vars
  BY <1>1, TakesSource
<1> QED  BY <1>1, ExecutorInvariant, PTL DEF Spec, SourceSafe

\* Only MarkMaterialized makes a directory count as made.
LEMMA MakesDirectory ==
    ASSUME ExecutorInv, Next, NEW f \in Folder, folder[f] # "Made", folder'[f] = "Made"
    PROVE  folder[f] = "Tried"
<1>0. ThreadInv /\ folder \in [Folder -> {"Unplanned", "Planned", "Tried", "Made"}]
  BY TypeParts DEF ExecutorInv, WorldTypes
<1>1. CASE Main
  <2>1. MarkMaterialized
    BY <1>0, <1>1 DEF Main, EndByControl, Begin, ListDirectories, DirectoryFatal, FanOut, Join,
       Conclude, CleanUp, RecoverRemoves, RecoverSettles, RecoverPostpones, RecoverRetries,
       PrepareDirectory, worldVars, planVars
  <2> QED  BY <1>0, <2>1 DEF MarkMaterialized, Untried, ThreadInv
<1>2. ASSUME NEW w \in Worker, Work(w) PROVE FALSE
  <2>1. UNCHANGED folder
    BY <1>2 DEF Work, LoopEnds, LoopRuns, Acquire, HeldEnds, HeldRuns, Rename, CopyOpens,
       CopyConflicts, CopyFails, CopyBackOffEnds, Resume, CopyCompletes, CopyBreaks,
       CallbackSkips, CallbackPauses, CallbackEnds, Skip, PauseResumes, PauseEnds, Abort,
       Redirect, ConflictSkips, ConflictReleases, FatalReleases, Report, ParkFailed,
       CopiedEnds, CopiedRuns, Remove, RemoveFails, Succeed, workerOnly, worldVars, planVars
  <2> QED  BY <2>1
<1>3. CASE Window
  <2>1. UNCHANGED folder \/ \E i \in Item : WindowAppends(i)
    BY <1>3 DEF Window, StartTransfer, ResumeStoppedCopy, SkipConflict, ResumeParkedFailures,
       ResolveParkedFailures, ExecuteAgain, ResumeConflictCopy, WindowRequests, WindowSkips,
       WindowRemoves, Starts, worldVars, planVars
  <2> QED  BY <1>0, <2>1 DEF WindowAppends
<1>4. ASSUME NEW i \in Item, OtherPrograms(i) PROVE FALSE
  BY <1>4 DEF OtherPrograms, planVars
<1> QED  BY <1>1, <1>2, <1>3, <1>4 DEF Next

\* A directory that an append brought while the session was listing or making
\* directories is not taken for made.
THEOREM DirectoriesAreTried == Spec => DirectoriesTried
<1>1. ASSUME ExecutorInv, [Next]_vars
      PROVE  [\A f \in Folder : folder[f] # "Made" /\ folder'[f] = "Made" =>
                folder[f] = "Tried"]_vars
  BY <1>1, MakesDirectory
<1> QED  BY <1>1, ExecutorInvariant, PTL DEF Spec, DirectoriesTried
-----------------------------------------------------------------------------
(***************************************************************************)
(* The contract of the plan's items.                                       *)
(***************************************************************************)

\* A step moves items along the contract, or leaves them alone.
Lawful == \A i \in Item : state'[i] # state[i] => state'[i] \in Lifecycle!Successors(state[i])

\* Where the contract lets an item go.
LEMMA Contract ==
    /\ Lifecycle!Successors("Absent") = {"Pending", "Copied"}
    /\ Lifecycle!Successors("Pending") = {"Active", "Removed", "Succeeded", "Skipped", "Failed",
                                          "CopiedSourceRetained"}
    /\ Lifecycle!Successors("Active") = {"Pending", "Parked", "Copied", "Succeeded", "Skipped",
                                         "Failed", "CopiedSourceRetained"}
    /\ Lifecycle!Successors("Parked") = {"Pending", "Succeeded", "Skipped", "Failed",
                                         "CopiedSourceRetained"}
    /\ Lifecycle!Successors("Copied") = {"Succeeded", "Skipped", "Failed",
                                         "CopiedSourceRetained"}
BY DEF Lifecycle!Successors, Lifecycle!Terminal

\* One call on the plan for one item.
LEMMA MovesLawfully ==
    ASSUME WorldTypes, NEW i \in Item, NEW to, Moves(i, to),
           to \in Lifecycle!Successors(state[i])
    PROVE  Lawful
BY DEF Moves, WorldTypes, Lawful

\* A worker moves an item it holds, or takes a pending one.
LEMMA WorkIsLawful ==
    ASSUME ExecutorInv, NEW w \in Worker, Work(w)
    PROVE  Lawful
<1>0. WorldTypes  BY TypeParts DEF ExecutorInv
<1>1. CASE UNCHANGED state  BY <1>1 DEF Lawful
<1>2. ASSUME Holds(w), NEW to \in {"Pending", "Parked", "Copied", "Succeeded", "Skipped",
                                   "CopiedSourceRetained"}, Moves(Mine(w), to)
      PROVE  Lawful
  BY <1>0, <1>2, Contract, MovesLawfully DEF ExecutorInv, HeldInv
<1>3. ASSUME NEW i \in Pending, Moves(i, "Active") PROVE Lawful
  BY <1>0, <1>3, Contract, MovesLawfully DEF Pending
<1>4. \/ UNCHANGED state
      \/ \E i \in Pending : Moves(i, "Active")
      \/ Holds(w) /\ \E to \in {"Pending", "Parked", "Copied", "Succeeded", "Skipped",
                                "CopiedSourceRetained"} : Moves(Mine(w), to)
  <2>1. CASE \/ LoopEnds(w) \/ LoopRuns(w) \/ Rename(w) \/ CopyOpens(w) \/ CopyConflicts(w)
             \/ CopyFails(w) \/ CopyBackOffEnds(w) \/ Resume(w) \/ CopyCompletes(w)
             \/ CopyBreaks(w) \/ CallbackSkips(w) \/ CallbackPauses(w) \/ CallbackEnds(w)
             \/ PauseResumes(w) \/ Redirect(w) \/ Report(w) \/ CopiedRuns(w) \/ Remove(w)
    BY <2>1 DEF LoopEnds, LoopRuns, Rename, CopyOpens, CopyConflicts, CopyFails,
       CopyBackOffEnds, Resume, CopyCompletes, CopyBreaks, CallbackSkips, CallbackPauses,
       CallbackEnds, PauseResumes, Redirect, Report, CopiedRuns, Remove, workerOnly,
       worldVars, planVars
  <2>2. CASE Acquire(w)  BY <2>2 DEF Acquire
  <2>3. CASE HeldRuns(w)
    BY <2>3 DEF HeldRuns, At, Holds, Holding
  <2>4. CASE HeldEnds(w) \/ PauseEnds(w) \/ Abort(w) \/ ConflictReleases(w) \/ FatalReleases(w)
    BY <2>4 DEF HeldEnds, PauseEnds, Abort, ConflictReleases, FatalReleases, At, Holds, Holding
  <2>5. CASE Skip(w) \/ ConflictSkips(w) \/ ParkFailed(w) \/ CopiedEnds(w) \/ Succeed(w)
    BY <2>5 DEF Skip, ConflictSkips, ParkFailed, CopiedEnds, Succeed, At, Holds, Holding
  <2>6. CASE RemoveFails(w)
    BY <2>6 DEF RemoveFails, At, Holds, Holding
  <2> QED  BY <2>1, <2>2, <2>3, <2>4, <2>5, <2>6 DEF Work
<1> QED  BY <1>1, <1>2, <1>3, <1>4

\* So do the session thread and the window.
LEMMA OthersAreLawful ==
    ASSUME ExecutorInv, Main \/ Window \/ \E i \in Item : OtherPrograms(i)
    PROVE  Lawful
<1>0. WorldTypes /\ ThreadInv  BY TypeParts DEF ExecutorInv
<1>1. CASE UNCHANGED state  BY <1>1 DEF Lawful
<1>2. ASSUME NEW i \in Item, RecoverSettles(i) PROVE Lawful
  <2>1. state[i] = "Copied"  BY <1>0, <1>2 DEF RecoverSettles, ThreadInv
  <2>2. PICK to \in {"CopiedSourceRetained", "Succeeded"} : Moves(i, to)
    BY <1>2 DEF RecoverSettles
  <2> QED  BY <1>0, <2>1, <2>2, Contract, MovesLawfully
<1>3. CASE RecoverRemoves
  <2>1. retrying \in Item /\ state[retrying] = "Copied"
    BY <1>0, <1>3 DEF RecoverRemoves, ThreadInv
  <2>2. UNCHANGED state \/ Moves(retrying, "Succeeded")  BY <1>3 DEF RecoverRemoves
  <2> QED  BY <1>0, <1>1, <2>1, <2>2, Contract, MovesLawfully
<1>4. ASSUME NEW f \in Folder, PrepareDirectory(f) PROVE Lawful
  BY <1>0, <1>4, Contract DEF PrepareDirectory, Pending, Lawful
<1>5. CASE SkipConflict
  <2>1. firstError.item \in Item /\ state[firstError.item] = "Pending"
    BY <1>5 DEF SkipConflict, Pending
  <2> QED  BY <1>0, <1>5, <2>1, Contract, MovesLawfully DEF SkipConflict
<1>6. CASE ResumeParkedFailures
  BY <1>0, <1>6, Contract DEF ResumeParkedFailures, Lawful
<1>7. CASE ResolveParkedFailures
  <2>1. \A i \in Item : \/ state'[i] = state[i]
                        \/ state[i] = "Parked" /\ state'[i] = "Failed"
                        \/ state[i] = "Copied" /\ state'[i] = "CopiedSourceRetained"
    BY <1>7 DEF ResolveParkedFailures
  <2> QED  BY <2>1, Contract DEF Lawful
<1>8. ASSUME NEW i \in Item, WindowAppends(i) PROVE Lawful
  BY <1>0, <1>8, Contract, MovesLawfully DEF WindowAppends
<1>9. ASSUME NEW i \in Item, WindowRemoves(i) PROVE Lawful
  BY <1>0, <1>9, Contract, MovesLawfully DEF WindowRemoves, Pending
<1>10. CASE Main
  <2>1. \/ UNCHANGED state \/ RecoverRemoves \/ \E i \in Item : RecoverSettles(i)
        \/ \E f \in Folder : PrepareDirectory(f)
    BY <1>10 DEF Main, EndByControl, Begin, ListDirectories, DirectoryFatal, MarkMaterialized,
       FanOut, Join, Conclude, CleanUp, RecoverPostpones, RecoverRetries, worldVars, planVars
  <2> QED  BY <1>1, <1>2, <1>3, <1>4, <2>1
<1>11. CASE Window
  <2>1. \/ UNCHANGED state \/ SkipConflict \/ ResumeParkedFailures \/ ResolveParkedFailures
        \/ \E i \in Item : WindowAppends(i) \/ WindowRemoves(i)
    BY <1>11 DEF Window, StartTransfer, ResumeStoppedCopy, ExecuteAgain, ResumeConflictCopy,
       WindowRequests, WindowSkips, worldVars, planVars
  <2> QED  BY <1>1, <1>5, <1>6, <1>7, <1>8, <1>9, <2>1
<1>12. ASSUME NEW i \in Item, OtherPrograms(i) PROVE Lawful
  BY <1>1, <1>12 DEF OtherPrograms, planVars
<1> QED  BY <1>10, <1>11, <1>12

\* The executor, the window and the other programs together implement the contract
\* of the plan's items.
THEOREM LifecycleIsKept == Spec => LifecycleKept
<1>1. Init => Lifecycle!Init
  BY DEF Init, Lifecycle!Init
<1>2. ASSUME ExecutorInv, TypeOK', [Next]_vars PROVE [Lifecycle!Step]_state
  <2>1. CASE UNCHANGED vars  BY <2>1 DEF vars, worldVars, planVars
  <2>2. CASE Next
    <3>1. Lawful  BY <1>2, <2>2, WorkIsLawful, OthersAreLawful DEF Next
    <3>2. state' \in [Item -> Lifecycle!ItemState]  BY <1>2 DEF TypeOK
    <3> QED  BY <3>1, <3>2 DEF Lifecycle!Step, Lawful
  <2> QED  BY <1>2, <2>1, <2>2
<1> QED  BY <1>1, <1>2, ExecutorInvariant, TypeCorrect, PTL DEF Spec, LifecycleKept, Lifecycle!Spec
-----------------------------------------------------------------------------
(***************************************************************************)
(* The files of others, as long as none of them appears after it was       *)
(* looked for.                                                             *)
(***************************************************************************)

\* What a worker that found its destination free may rely on.
FoundFree(pc, discard, i) ==
    /\ pc \in {"Rename", "Copy"} /\ discard => target[i] = "Free"
    /\ pc \in Writing /\ discard => target[i] # "Foreign"
    /\ pc = "Conflict" => ~discard

FreeInv == \A w \in Worker : Holds(w) => FoundFree(worker[w].pc, worker[w].discard, Mine(w))

\* A step of a worker changes the destination of its own item only, and never to
\* a file of somebody else.
LEMMA WorkOnTarget ==
    ASSUME ExecutorInv, NEW w \in Worker, Work(w)
    PROVE  /\ \A i \in Item : target'[i] = target[i] \/ (Holds(w) /\ i = Mine(w))
           /\ \A i \in Item : target'[i] = "Foreign" => target[i] = "Foreign"
<1>0. target \in [Item -> {"Free", "Foreign", "Partial", "Copy"}]
  BY TypeParts DEF ExecutorInv, WorldTypes
<1>1. CASE UNCHANGED target  BY <1>1
<1>2. ASSUME Holds(w), NEW t \in {"Free", "Partial", "Copy"},
             target' = [target EXCEPT ![Mine(w)] = t]
      PROVE  /\ \A i \in Item : target'[i] = target[i] \/ (Holds(w) /\ i = Mine(w))
             /\ \A i \in Item : target'[i] = "Foreign" => target[i] = "Foreign"
  BY <1>0, <1>2
<1>3. \/ UNCHANGED target
      \/ Holds(w) /\ \E t \in {"Free", "Partial", "Copy"} :
                        target' = [target EXCEPT ![Mine(w)] = t]
  <2>1. CASE \/ LoopEnds(w) \/ LoopRuns(w) \/ Acquire(w) \/ HeldEnds(w) \/ HeldRuns(w)
             \/ CopyConflicts(w) \/ CopyFails(w) \/ CopyBackOffEnds(w) \/ Resume(w)
             \/ CallbackPauses(w) \/ PauseResumes(w) \/ ConflictSkips(w)
             \/ ConflictReleases(w) \/ FatalReleases(w) \/ Report(w) \/ CopiedEnds(w)
             \/ CopiedRuns(w) \/ Remove(w) \/ RemoveFails(w) \/ Succeed(w)
    BY <2>1 DEF LoopEnds, LoopRuns, Acquire, HeldEnds, HeldRuns, CopyConflicts, CopyFails,
       CopyBackOffEnds, Resume, CallbackPauses, PauseResumes, ConflictSkips, ConflictReleases,
       FatalReleases, Report, CopiedEnds, CopiedRuns, Remove, RemoveFails, Succeed, workerOnly,
       worldVars, diskVars
  <2>2. CASE Rename(w) \/ CopyOpens(w) \/ CopyCompletes(w)
    BY <2>2 DEF Rename, CopyOpens, CopyCompletes, At, Holds, Holding
  <2>3. CASE CopyBreaks(w) \/ CallbackSkips(w) \/ CallbackEnds(w)
    BY <2>3 DEF CopyBreaks, CallbackSkips, CallbackEnds, GivesUp, At, Holds, Holding
  <2>4. CASE Skip(w) \/ Redirect(w)  BY <2>4 DEF Skip, Redirect, At, Holds, Holding
  <2>5. CASE PauseEnds(w) \/ Abort(w) \/ ParkFailed(w)
    BY <2>5 DEF PauseEnds, Abort, ParkFailed, Discards, At, Holds, Holding
  <2> QED  BY <2>1, <2>2, <2>3, <2>4, <2>5 DEF Work
<1> QED  BY <1>1, <1>2, <1>3

\* What a worker finds stays as it is while others work.
LEMMA WorkKeepsFree ==
    ASSUME ExecutorInv, ExecutorInv', FreeInv, NEW w \in Worker, Work(w)
    PROVE  FreeInv'
<1>0. /\ WorkerTypes
      /\ Holds(w) => /\ Mine(w) \in Item
                     /\ FilesInv(worker[w].pc, worker[w].discard, Mine(w))
                     /\ FoundFree(worker[w].pc, worker[w].discard, Mine(w))
  BY TypeParts DEF ExecutorInv, HeldInv, FreeInv
<1>1. OnlyWorker(w)
  <2>1. CASE Acquire(w)
    BY <1>0, <2>1, WorkersApart, AcquireMoves, VerdictIsResult DEF Acquire, OnlyWorker, Pending
  <2>2. CASE HeldRuns(w)
    BY <1>0, <2>2 DEF HeldRuns, NextFile, OnlyWorker, WorkerTypes
  <2>3. CASE Redirect(w)
    BY <1>0, <2>3 DEF Redirect, OnlyWorker, WorkerTypes
  <2>4. CASE \/ \E to : Goto(w, to)
             \/ NextFile(w)
             \/ \E result \in Result : End(w, result)
    BY <1>0, <2>4, WorkersApart
  <2> QED
    BY <2>1, <2>2, <2>3, <2>4, VerdictIsResult
       DEF Work, LoopEnds, LoopRuns, HeldEnds, Rename, CopyOpens, CopyConflicts, CopyFails,
       CopyBackOffEnds, Resume, CopyCompletes, CopyBreaks, CallbackSkips, CallbackPauses,
       CallbackEnds, Skip, PauseResumes, PauseEnds, Abort, ConflictSkips, ConflictReleases,
       FatalReleases, Report, ParkFailed, CopiedEnds, CopiedRuns, Remove, RemoveFails, Succeed
<1>2. ASSUME NEW v \in Worker, v # w, Holds(v)'
      PROVE  FoundFree(worker[v].pc, worker[v].discard, Mine(v))'
  <2>1. worker'[v] = worker[v] /\ Holds(v) /\ Mine(v) \in Item
    BY <1>1, <1>2 DEF OnlyWorker, Holds, ExecutorInv, HeldInv
  <2>2. target'[Mine(v)] = target[Mine(v)]
    BY <1>2, <2>1, WorkOnTarget DEF ExecutorInv, HeldInv
  <2> QED  BY <2>1, <2>2 DEF FreeInv, FoundFree, Mine
<1>3. ASSUME Holds(w)' PROVE FoundFree(worker[w].pc, worker[w].discard, Mine(w))'
  <2>1. CASE HeldRuns(w)
    <3> DEFINE free == target[Mine(w)] = "Free"
               to == IF Operation = "Move" THEN "Rename" ELSE "Copy"
    <3>1. worker' = [worker EXCEPT ![w].pc = to, ![w].discard = free] \/ NextFile(w)
      BY <2>1 DEF HeldRuns
    <3>2. CASE NextFile(w)
      BY <1>0, <1>3, <3>2, NextFileMoves DEF Holds, Holding
    <3>3. CASE worker' = [worker EXCEPT ![w].pc = to, ![w].discard = free]
      <4>1. to \in Pc /\ to \in {"Rename", "Copy"} /\ free \in BOOLEAN  BY DEF Pc, Holding
      <4>2. /\ worker'[w].pc = to /\ worker'[w].item = worker[w].item
            /\ worker'[w].discard = free
        <5> HIDE DEF to, free
        <5> QED  BY <1>0, <3>3, <4>1, StartMoves
      <4>3. UNCHANGED target  BY <2>1 DEF HeldRuns, diskVars
      <4> QED  BY <4>1, <4>2, <4>3 DEF FoundFree, Mine, Writing
    <3> QED  BY <3>1, <3>2, <3>3
  <2>2. CASE Redirect(w)
    <3>1. "Copy" \in Pc /\ TRUE \in BOOLEAN  BY DEF Pc, Holding
    <3>2. worker'[w].pc = "Copy" /\ worker'[w].item = worker[w].item
      BY <1>0, <2>2, <3>1, StartMoves DEF Redirect
    <3>3. target'[Mine(w)] = "Free"
      BY <1>0, <2>2, TypeParts DEF Redirect, ExecutorInv, WorldTypes, At, Holds, Holding
    <3> QED  BY <3>2, <3>3 DEF FoundFree, Mine, Writing
  <2>3. CASE Acquire(w)
    <3>1. worker'[w].pc \notin Writing \cup {"Rename", "Copy", "Conflict"}
      BY <1>0, <2>3, EndMoves, AcquireMoves, VerdictIsResult DEF Acquire, Pending, Writing
    <3> QED  BY <3>1 DEF FoundFree, Writing
  <2>4. ASSUME NEW to, Goto(w, to), Holds(w),
               target'[Mine(w)] = "Foreign" => target[Mine(w)] = "Foreign",
               to \in {"Rename", "Copy"} => worker[w].pc = "Rename" /\ UNCHANGED target,
               to \in Writing => worker[w].pc \in Writing \cup {"Copy"},
               to = "Conflict" => worker[w].pc = "Copy" /\ target[Mine(w)] # "Free"
        PROVE  FoundFree(worker[w].pc, worker[w].discard, Mine(w))'
    <3>1. /\ worker'[w].pc = to /\ worker'[w].item = worker[w].item
          /\ worker'[w].discard = worker[w].discard
      BY <1>0, <2>4, GotoMoves
    <3> QED  BY <1>0, <2>4, <3>1 DEF FoundFree, Mine, Writing
  <2>5. CASE NextFile(w) \/ \E result \in Result : End(w, result)
    BY <1>0, <1>3, <2>5, NextFileMoves, EndMoves DEF Holds, Holding
  <2>6. CASE LoopRuns(w) \/ Report(w) \/ LoopEnds(w)
    <3>1. worker'[w].pc \in {"Acquire", "Done"}
      BY <1>0, <2>6, GotoMoves, EndMoves, VerdictIsResult DEF LoopRuns, LoopEnds, Report
    <3> QED  BY <1>3, <3>1 DEF Holds, Holding
  <2>7. target'[Mine(w)] = "Foreign" /\ Holds(w) => target[Mine(w)] = "Foreign"
    BY <1>0, WorkOnTarget
  <2>8. CASE \/ Rename(w) \/ CopyOpens(w) \/ CopyConflicts(w) \/ CopyFails(w)
             \/ CopyBackOffEnds(w) \/ Resume(w) \/ CopyCompletes(w) \/ CopyBreaks(w)
             \/ CallbackSkips(w) \/ CallbackPauses(w) \/ CallbackEnds(w) \/ PauseResumes(w)
             \/ ConflictReleases(w) \/ FatalReleases(w) \/ CopiedRuns(w) \/ Remove(w)
    <3> USE <2>4, <2>7 DEF At, Holds, Holding, Writing
    <3>1. CASE Rename(w)  BY <3>1 DEF Rename
    <3>2. CASE CopyOpens(w) \/ CopyCompletes(w)  BY <3>2 DEF CopyOpens, CopyCompletes
    <3>3. CASE CopyConflicts(w)  BY <3>3 DEF CopyConflicts
    <3>4. CASE CopyFails(w) \/ CopyBackOffEnds(w) \/ Resume(w)
      BY <3>4 DEF CopyFails, CopyBackOffEnds, Resume
    <3>5. CASE CopyBreaks(w) \/ CallbackSkips(w) \/ CallbackPauses(w) \/ CallbackEnds(w)
      BY <3>5 DEF CopyBreaks, CallbackSkips, CallbackPauses, CallbackEnds
    <3>6. CASE \/ PauseResumes(w) \/ ConflictReleases(w) \/ FatalReleases(w)
               \/ CopiedRuns(w) \/ Remove(w)
      BY <3>6 DEF PauseResumes, ConflictReleases, FatalReleases, CopiedRuns, Remove
    <3> QED  BY <2>8, <3>1, <3>2, <3>3, <3>4, <3>5, <3>6
  <2>9. CASE \/ HeldEnds(w) \/ Skip(w) \/ PauseEnds(w) \/ Abort(w) \/ ConflictSkips(w)
             \/ ParkFailed(w) \/ CopiedEnds(w) \/ RemoveFails(w) \/ Succeed(w)
    BY <2>5, <2>9, VerdictIsResult DEF HeldEnds, Skip, PauseEnds, Abort, ConflictSkips,
       ParkFailed, CopiedEnds, RemoveFails, Succeed
  <2> QED  BY <2>1, <2>2, <2>3, <2>6, <2>8, <2>9 DEF Work
<1> QED
  <2> SUFFICES ASSUME NEW v \in Worker, Holds(v)'
               PROVE  FoundFree(worker[v].pc, worker[v].discard, Mine(v))'
    BY DEF FreeInv
  <2> QED  BY <1>2, <1>3

\* Nobody else makes a destination a worker found free a file of somebody else.
LEMMA NextKeepsFree ==
    ASSUME ExecutorInv, ExecutorInv', FreeInv, [Next]_vars, "TargetAppears" \notin Outside
    PROVE  FreeInv'
<1>0. target \in [Item -> {"Free", "Foreign", "Partial", "Copy"}]
  BY TypeParts DEF ExecutorInv, WorldTypes
<1>1. ASSUME UNCHANGED <<worker, target>> PROVE FreeInv'
  BY <1>1 DEF FreeInv, FoundFree, Holds, Mine
<1>2. CASE Main
  <2>1. CASE FanOut
    <3>1. \A w \in Worker : worker'[w] \in {Between, Ended("None")} \/ worker' = worker
      BY <2>1 DEF FanOut
    <3>2. \A w \in Worker : ~Holds(w)
      BY <2>1, NobodyHolds DEF FanOut
    <3>3. \A w \in Worker : ~Holds(w)'
      BY <3>1, <3>2 DEF Between, Ended, Holds, Holding
    <3> QED  BY <3>3 DEF FreeInv
  <2>2. CASE Join
    BY <2>2 DEF Join, Ended, FreeInv, Holds, Holding
  <2>3. CASE ~FanOut /\ ~Join
    <3>1. UNCHANGED <<worker, target>>
      BY <1>2, <2>3 DEF Main, EndByControl, Begin, ListDirectories, DirectoryFatal,
         MarkMaterialized, Conclude, CleanUp, RecoverRemoves, RecoverSettles,
         RecoverPostpones, RecoverRetries, PrepareDirectory, worldVars, diskVars
    <3> QED  BY <1>1, <3>1
  <2> QED  BY <2>1, <2>2, <2>3
<1>3. ASSUME NEW w \in Worker, Work(w) PROVE FreeInv'  BY <1>3, WorkKeepsFree
<1>4. CASE Window
  <2>1. UNCHANGED <<worker, target>>
    BY <1>4 DEF Window, StartTransfer, ResumeStoppedCopy, SkipConflict, ResumeParkedFailures,
       ResolveParkedFailures, ExecuteAgain, ResumeConflictCopy, WindowRequests, WindowSkips,
       WindowAppends, WindowRemoves, Starts, worldVars, diskVars
  <2> QED  BY <1>1, <2>1
<1>5. ASSUME NEW i \in Item, OtherPrograms(i) PROVE FreeInv'
  <2>1. /\ \A j \in Item : j # i => target'[j] = target[j]
        /\ target'[i] # target[i] => target[i] = "Copy"
        /\ worker' = worker
    BY <1>0, <1>5 DEF OtherPrograms
  <2> SUFFICES ASSUME NEW w \in Worker, Holds(w)
               PROVE  FoundFree(worker[w].pc, worker[w].discard, Mine(w))'
    BY <2>1 DEF FreeInv, Holds
  <2>2. /\ Mine(w) \in Item /\ FilesInv(worker[w].pc, worker[w].discard, Mine(w))
        /\ FoundFree(worker[w].pc, worker[w].discard, Mine(w))
    BY DEF ExecutorInv, HeldInv, FreeInv
  <2>3. CASE target'[Mine(w)] = target[Mine(w)]
    BY <2>1, <2>2, <2>3 DEF FoundFree, Mine
  <2>4. CASE target'[Mine(w)] # target[Mine(w)]
    <3>1. target[Mine(w)] = "Copy"  BY <2>1, <2>2, <2>4
    <3> QED  BY <2>1, <2>2, <3>1 DEF FilesInv, FoundFree, Mine, Writing
  <2> QED  BY <2>3, <2>4
<1>6. CASE UNCHANGED vars
  BY <1>1, <1>6 DEF vars, worldVars, diskVars
<1> QED  BY <1>2, <1>3, <1>4, <1>5, <1>6 DEF Next

\* Who changes a destination that holds the file of somebody else.
LEMMA ChangesForeign ==
    ASSUME ExecutorInv, FreeInv, Next, NEW i \in Item, target[i] = "Foreign",
           target'[i] # "Foreign"
    PROVE  Replaces(i) \/ alternates'[i] # alternates[i]
<1>0. /\ target \in [Item -> {"Free", "Foreign", "Partial", "Copy"}]
      /\ alternates \in [Item -> 0..MaxAlternates]
  BY TypeParts DEF ExecutorInv, WorldTypes
<1>1. ~Main
  BY DEF Main, EndByControl, Begin, ListDirectories, DirectoryFatal, MarkMaterialized, FanOut,
     Join, Conclude, CleanUp, RecoverRemoves, RecoverSettles, RecoverPostpones,
     RecoverRetries, PrepareDirectory, worldVars, diskVars
<1>2. ~Window
  BY DEF Window, StartTransfer, ResumeStoppedCopy, SkipConflict, ResumeParkedFailures,
     ResolveParkedFailures, ExecuteAgain, ResumeConflictCopy, WindowRequests, WindowSkips,
     WindowAppends, WindowRemoves, Starts, worldVars, diskVars
<1>3. ASSUME NEW j \in Item, OtherPrograms(j) PROVE FALSE
  BY <1>0, <1>3 DEF OtherPrograms
<1>4. PICK w \in Worker : Work(w)  BY <1>1, <1>2, <1>3 DEF Next
<1>5. /\ Holds(w) /\ i = Mine(w)
      /\ FilesInv(worker[w].pc, worker[w].discard, i)
      /\ FoundFree(worker[w].pc, worker[w].discard, i)
  BY <1>4, WorkOnTarget DEF ExecutorInv, FreeInv
<1>6. target' # target  OBVIOUS
<1>7. CASE Rename(w) \/ CopyOpens(w)  BY <1>5, <1>6, <1>7 DEF Rename, CopyOpens
<1>8. CASE Redirect(w)
  <2>1. alternates'[i] = alternates[i] + 1  BY <1>0, <1>5, <1>8 DEF Redirect
  <2>2. alternates[i] \in Nat  BY <1>0, ExecutorAssumption
  <2> QED  BY <2>1, <2>2
<1>9. CASE \/ CopyCompletes(w) \/ CopyBreaks(w) \/ CallbackSkips(w) \/ CallbackEnds(w)
  BY <1>5, <1>9 DEF CopyCompletes, CopyBreaks, CallbackSkips, CallbackEnds, At, FilesInv
<1>10. CASE Skip(w)
  BY <1>5, <1>10 DEF Skip, At, FilesInv, FoundFree, Writing
<1>11. CASE PauseEnds(w) \/ Abort(w) \/ ParkFailed(w)
  BY <1>5, <1>6, <1>11 DEF PauseEnds, Abort, ParkFailed, Discards, At, FoundFree, Writing
<1>12. CASE \/ LoopEnds(w) \/ LoopRuns(w) \/ Acquire(w) \/ HeldEnds(w) \/ HeldRuns(w)
            \/ CopyConflicts(w) \/ CopyFails(w) \/ CopyBackOffEnds(w) \/ Resume(w)
            \/ CallbackPauses(w) \/ PauseResumes(w) \/ ConflictSkips(w)
            \/ ConflictReleases(w) \/ FatalReleases(w) \/ Report(w) \/ CopiedEnds(w)
            \/ CopiedRuns(w) \/ Remove(w) \/ RemoveFails(w) \/ Succeed(w)
  BY <1>6, <1>12 DEF LoopEnds, LoopRuns, Acquire, HeldEnds, HeldRuns, CopyConflicts, CopyFails,
     CopyBackOffEnds, Resume, CallbackPauses, PauseResumes, ConflictSkips, ConflictReleases,
     FatalReleases, Report, CopiedEnds, CopiedRuns, Remove, RemoveFails, Succeed, workerOnly,
     worldVars, diskVars
<1> QED  BY <1>4, <1>7, <1>8, <1>9, <1>10, <1>11, <1>12 DEF Work

\* A file that was there before the session is neither overwritten nor removed
\* unless its options say to replace it, as long as no other program puts a file
\* where the executor has already looked.
THEOREM ForeignFilesAreKept ==
    ASSUME "TargetAppears" \notin Outside
    PROVE  Spec => ForeignKept
<1>1. Init => FreeInv  BY DEF Init, FreeInv, Ended, Holds, Holding
<1>2. ExecutorInv /\ ExecutorInv' /\ FreeInv /\ [Next]_vars => FreeInv'  BY NextKeepsFree
<1>3. Spec => []FreeInv  BY <1>1, <1>2, ExecutorInvariant, PTL DEF Spec
<1>4. ASSUME ExecutorInv, FreeInv, [Next]_vars
      PROVE  [\A i \in Item : target[i] = "Foreign" /\ target'[i] # "Foreign" =>
                Replaces(i) \/ alternates'[i] # alternates[i]]_vars
  BY <1>4, ChangesForeign
<1> QED  BY <1>3, <1>4, ExecutorInvariant, PTL DEF Spec, ForeignKept
=============================================================================
