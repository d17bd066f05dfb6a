----------------------------- MODULE JobExecutor -----------------------------
(***************************************************************************)
(* JobExecutor::execute over one live plan: the session thread, its copy   *)
(* workers, CopyFile2 as seen through CopyEngine, the files, and the       *)
(* window that pauses, skips, stops, edits and starts the next session.    *)
(*                                                                         *)
(* The plan is used through the contract of ItemLifecycle, which           *)
(* LiveCopyPlan implements: acquire_next may hand out any pending item,    *)
(* since the window may reorder the queue at any time.  Blocking on a      *)
(* paused control is a guard.  What a progress callback that cancels does  *)
(* is what a window that cancels and a worker that sees it do.             *)
(*                                                                         *)
(* Left out: allocation failures (the item stays Active, the session ends  *)
(* with E_OUTOFMEMORY), removals of a partial file that fail, and which    *)
(* directories the final clean-up of a Move finds empty.  A file-system    *)
(* call that throws parks the held item, which is what ParkFailed does.    *)
(***************************************************************************)
EXTENDS Directive, Naturals, FiniteSets

CONSTANTS
    Item, Worker,
    None,          \* no item
    Operation,     \* "Copy" or "Move"
    Policy,        \* the answers the window may give to a conflict
    Planned,       \* the items of the first plan
    Foreign,       \* the items whose destination exists before they start
    Folder,        \* planned directories ...
    Inside,        \* ... and the items inside each
    Identified,    \* items on volumes that give file identities
    Outside,       \* what other programs may do to files ...
    Touched,       \* BOUND: ... and the items they may do it to
    MaxAlternates, \* kMaxAlternates: names a keep-both may try
    MaxSessions,   \* BOUND on the sessions of one plan
    Appends        \* BOUND: the items an append may bring

ConflictPolicy == {"Prompt", "ReplaceAll", "SkipAll", "KeepBoth", "KeepBothAll"}
Interference == {"SourceChanges", "SourceVanishes", "TargetAppears", "CopyChanges"}

ASSUME ExecutorAssumption ==
    /\ None \notin Item
    /\ Operation \in {"Copy", "Move"}
    /\ Policy \subseteq ConflictPolicy
    /\ Planned \subseteq Item /\ Foreign \subseteq Item
    /\ Appends \subseteq Item \ Planned
    /\ Inside \in [Folder -> SUBSET Item]
    /\ Identified \subseteq Item
    /\ Outside \subseteq Interference /\ Touched \subseteq Item
    /\ MaxAlternates \in Nat /\ MaxSessions \in Nat

VARIABLES
    directive, skips,  \* the control block of the session
    state,             \* the plan: where each item is
    folder,            \* the plan: what became of each directory
    source, target,    \* the file at each item's source and destination
    print,             \* the version of the source a complete copy was made of
    alternates,        \* how often an item's destination was redirected
    spoiled,           \* history: items whose partial file is left on purpose
    phase,             \* where the session thread is
    todo,              \* parked source removals still to retry
    retrying,          \* ... and the one begin_parked_retry was called for
    through,           \* directory_batch.through_index, as a set
    options,           \* JobExecutionOptions
    worker,            \* the workers
    firstError,        \* ConcurrentResultState
    report,            \* the JobResult of the last session
    sessions

controlVars == <<directive, skips>>
planVars    == <<state, folder>>
copyVars    == <<print, alternates, spoiled>>
diskVars    == <<source, target, copyVars>>
recoverVars == <<todo, retrying>>
threadVars  == <<recoverVars, through, options, sessions>>
mainVars    == <<phase, threadVars>>
resultVars  == <<firstError, report>>
sessionVars == <<mainVars, resultVars>>
worldVars   == <<controlVars, planVars, diskVars>>
vars == <<worldVars, sessionVars, worker>>
-----------------------------------------------------------------------------
Pending    == {i \in Item : state[i] = "Pending"}
Remaining  == {i \in Item : state[i] \in {"Pending", "Active"}}
AllParked  == {i \in Item : state[i] \in {"Parked", "Copied"}}
Unresolved == Remaining \cup AllParked
PendingFolders == {f \in Folder : folder[f] \in {"Planned", "Tried"}}

\* replaces_existing() and keeps_both().
Replaces(i) ==
    \/ options.policy = "ReplaceAll"
    \/ options.replace = i /\ options.policy # "KeepBoth"
KeepsBoth(i) ==
    \/ options.policy = "KeepBothAll"
    \/ options.replace = i /\ options.policy = "KeepBoth"

Ended(verdict) == [pc |-> "Done", item |-> None, discard |-> FALSE, verdict |-> verdict]
Plain == [policy |-> "Prompt", replace |-> None, retry |-> FALSE]
Between == [pc |-> "Loop", item |-> None, discard |-> FALSE, verdict |-> "None"]
NoError == [kind |-> "None", item |-> None]

\* The calls on the plan.
Moves(i, to) == state' = [state EXCEPT ![i] = to]

Init ==
    /\ directive = "Run" /\ skips = {}
    /\ state = [i \in Item |-> IF i \in Planned THEN "Pending" ELSE "Absent"]
    /\ folder = [f \in Folder |->
                    IF Inside[f] \cap Planned # {} THEN "Planned" ELSE "Unplanned"]
    /\ source = [i \in Item |-> "Original"]
    /\ target = [i \in Item |-> IF i \in Foreign THEN "Foreign" ELSE "Free"]
    /\ print = [i \in Item |-> "None"]
    /\ alternates = [i \in Item |-> 0]
    /\ spoiled = {}
    /\ phase = "Idle" /\ todo = {} /\ retrying = None /\ through = {}
    /\ options = Plain
    /\ sessions = 0
    /\ worker = [w \in Worker |-> Ended("None")]
    /\ firstError = NoError
    /\ report = "None"
-----------------------------------------------------------------------------
(***************************************************************************)
(* The session thread.                                                     *)
(***************************************************************************)
Finish(result) ==
    /\ phase' = "Idle"
    /\ report' = result

\* check_control() blocks while the session is paused; then it either lets the
\* session go on ...
ControlRuns == directive = "Run"

Untried == {f \in through : folder[f] = "Planned"}

\* Mutant: check_control() knows of no stop.
EndByCancelOnly ==
    /\ \/ phase \in {"Begin", "Removing", "Fan", "Empty", "Joined", "Cleanup"}
       \/ phase = "Recover" /\ todo # {}
       \/ phase = "Directories" /\ Untried # {}
    /\ directive = "Cancel" /\ Finish("Cancelled")
    /\ UNCHANGED <<worldVars, threadVars, worker, firstError>>

\* ... or ends it, wherever it is called.
EndByControl ==
    /\ \/ phase \in {"Begin", "Removing", "Fan", "Empty", "Joined", "Cleanup"}
       \/ phase = "Recover" /\ todo # {}
       \/ phase = "Directories" /\ Untried # {}
    /\ \/ directive = "Cancel" /\ Finish("Cancelled")
       \/ directive = "Stop" /\ Finish("Stopped")
    /\ UNCHANGED <<worldVars, threadVars, worker, firstError>>

\* The window starts a session with a control block of its own.
Starts(opts) ==
    /\ phase = "Idle"
    /\ sessions < MaxSessions
    /\ sessions' = sessions + 1
    /\ options' = opts
    /\ directive' = "Run" /\ skips' = {}
    /\ firstError' = NoError
    /\ report' = "None"
    /\ phase' = "Begin"
    /\ UNCHANGED <<folder, diskVars, recoverVars, through, worker>>

\* What FinishCopy makes of the last session.
InterruptedSessionState ==
    IF report = "Stopped" THEN "Stopped"
    ELSE IF firstError.kind = "Conflict" THEN "Conflict"
    ELSE IF sessions > 0 /\ AllParked # {} THEN "Decision"
    ELSE "None"

StartTransfer ==
    /\ sessions = 0
    /\ Starts(Plain)
    /\ UNCHANGED state

ResumeStoppedCopy ==
    /\ InterruptedSessionState = "Stopped"
    /\ Unresolved # {} \/ PendingFolders # {}
    /\ Starts(Plain)
    /\ UNCHANGED state

\* The answer to a conflict is for its file alone, or for all of them ...
ResumeConflictCopy(policy) ==
    /\ InterruptedSessionState = "Conflict"
    /\ Unresolved # {} \/ PendingFolders # {}
    /\ Starts([policy |-> policy, retry |-> FALSE,
               replace |-> IF policy \in {"Prompt", "KeepBoth"} THEN firstError.item
                           ELSE None])
    /\ UNCHANGED state

\* ... or the file is skipped, which edits it out of the plan.
SkipConflict ==
    /\ InterruptedSessionState = "Conflict"
    /\ firstError.item \in Pending
    /\ Unresolved # {firstError.item} \/ PendingFolders # {}
    /\ Moves(firstError.item, "Removed")
    /\ Starts(Plain)

\* Mutant: what only waits for the removal of its source is copied again.
ResumeParkedAll ==
    /\ InterruptedSessionState = "Decision"
    /\ state' = [i \in Item |-> IF i \in AllParked THEN "Pending" ELSE state[i]]
    /\ Starts([Plain EXCEPT !.retry = TRUE])

\* unpark() of every failed transfer; the removals of sources are retried.
ResumeParkedFailures ==
    /\ InterruptedSessionState = "Decision"
    /\ state' = [i \in Item |-> IF state[i] = "Parked" THEN "Pending" ELSE state[i]]
    /\ Starts([Plain EXCEPT !.retry = TRUE])

\* Or they stay failed; a session follows if there is other work.
ResolveParkedFailures ==
    /\ phase = "Idle"
    /\ InterruptedSessionState = "Decision"
    /\ state' = [i \in Item |-> CASE state[i] = "Parked" -> "Failed"
                                  [] state[i] = "Copied" -> "CopiedSourceRetained"
                                  [] OTHER               -> state[i]]
    /\ IF Remaining # {} \/ PendingFolders # {} THEN Starts(Plain)
       ELSE UNCHANGED <<controlVars, folder, diskVars, sessionVars, worker>>

\* RunLivePlanSession executes again, with the same control block, as long as
\* appended work is left; the retry and the replaced file held for one call.
ExecuteAgain ==
    /\ phase = "Idle"
    /\ report = "Success"
    /\ Remaining # {} \/ PendingFolders # {}
    /\ options' = [options EXCEPT !.replace = None, !.retry = FALSE]
    /\ report' = "None"
    /\ phase' = "Begin"
    /\ UNCHANGED <<worldVars, recoverVars, through, sessions, worker, firstError>>

Begin ==
    /\ phase = "Begin" /\ ControlRuns
    /\ phase' = "Recover"
    /\ todo' = IF options.retry THEN {i \in Item : state[i] = "Copied"} ELSE {}
    /\ retrying' = None
    /\ UNCHANGED <<worldVars, through, options, sessions, worker, resultVars>>

\* validate_source_removal_recovery() of one parked removal.
Changed(i) == target[i] # "Copy" \/ source[i] \notin {print[i], "Missing"}

\* Mutant: a removal that cannot be verified any more counts as done.
RecoverSettlesAsDone(i) ==
    /\ phase = "Recover" /\ ControlRuns
    /\ i \in todo
    /\ todo' = todo \ {i}
    /\ Moves(i, "Succeeded")
    /\ Changed(i) \/ source[i] = "Missing"
    /\ UNCHANGED <<controlVars, folder, diskVars, phase, retrying, through, options,
                   sessions, worker, resultVars>>

\* The removal is settled without touching a file: somebody changed the copy or
\* the source, or the source is gone already.
RecoverSettles(i) ==
    /\ phase = "Recover" /\ ControlRuns
    /\ i \in todo
    /\ todo' = todo \ {i}
    /\ Moves(i, IF Changed(i) THEN "CopiedSourceRetained" ELSE "Succeeded")
    /\ Changed(i) \/ source[i] = "Missing"
    /\ UNCHANGED <<controlVars, folder, diskVars, phase, retrying, through, options,
                   sessions, worker, resultVars>>

\* One of the two volumes is not there now.
RecoverPostpones(i) ==
    /\ phase = "Recover" /\ ControlRuns
    /\ i \in todo
    /\ todo' = todo \ {i}
    /\ UNCHANGED <<worldVars, phase, retrying, through, options, sessions, worker,
                   resultVars>>

\* begin_parked_retry().
RecoverRetries(i) ==
    /\ phase = "Recover" /\ ControlRuns
    /\ i \in todo
    /\ ~Changed(i) /\ source[i] # "Missing"
    /\ todo' = todo \ {i}
    /\ retrying' = i
    /\ phase' = "Removing"
    /\ UNCHANGED <<worldVars, through, options, sessions, worker, resultVars>>

\* Mutant: the source is removed on the strength of an earlier check.
RemovesUnverified(i) ==
    /\ source[i] # "Missing"
    /\ source' = [source EXCEPT ![i] = "Taken"]

\* remove_verified_recovery_source() that answers S_OK: copy and source are both
\* pinned, and both are what the copy was made of; or the source has gone.
RemovesSource(i) ==
    /\ i \in Identified
    /\ target[i] = "Copy"
    /\ source[i] \in {print[i], "Missing"}
    /\ source' = [source EXCEPT ![i] = IF @ = "Missing" THEN @ ELSE "Taken"]

RecoverRemoves ==
    /\ phase = "Removing" /\ ControlRuns
    /\ phase' = "Recover"
    /\ retrying' = None
    /\ \/ RemovesSource(retrying) /\ Moves(retrying, "Succeeded")
       \/ UNCHANGED <<source, state>>   \* record_parked_retry_failure()
    /\ UNCHANGED <<controlVars, folder, target, copyVars, todo, through, options,
                   sessions, worker, resultVars>>

\* pending_directories(): what an aborted session tried is tried again.
ListDirectories ==
    /\ phase = "Recover" /\ todo = {}
    /\ phase' = "Directories"
    /\ through' = PendingFolders
    /\ folder' = [f \in Folder |-> IF f \in through' THEN "Planned" ELSE folder[f]]
    /\ UNCHANGED <<controlVars, state, diskVars, recoverVars, options, sessions, worker,
                   resultVars>>

\* prepare_directory() of one directory: it is there, or what is pending inside
\* it fails.
PrepareDirectory(f) ==
    /\ phase = "Directories" /\ ControlRuns
    /\ f \in Untried
    /\ folder' = [folder EXCEPT ![f] = "Tried"]
    /\ \/ UNCHANGED state
       \/ state' = [i \in Item |-> IF i \in Inside[f] \cap Pending THEN "Failed"
                                   ELSE state[i]]
    /\ UNCHANGED <<controlVars, diskVars, sessionVars, worker>>

\* The volume is full or gone.
DirectoryFatal ==
    /\ phase = "Directories" /\ ControlRuns
    /\ Untried # {}
    /\ Finish("Failed")
    /\ UNCHANGED <<worldVars, threadVars, worker, firstError>>

\* Mutant: every directory of the plan counts as materialized.
MarkAllMaterialized ==
    /\ phase = "Directories" /\ Untried = {}
    /\ folder' = [f \in Folder |-> IF folder[f] = "Unplanned" THEN folder[f] ELSE "Made"]
    /\ through' = {}
    /\ phase' = "Fan"
    /\ UNCHANGED <<controlVars, state, diskVars, recoverVars, options, sessions, worker,
                   resultVars>>

MarkMaterialized ==
    /\ phase = "Directories" /\ Untried = {}
    /\ folder' = [f \in Folder |-> IF f \in through THEN "Made" ELSE folder[f]]
    /\ through' = {}
    /\ phase' = "Fan"
    /\ UNCHANGED <<controlVars, state, diskVars, recoverVars, options, sessions, worker,
                   resultVars>>

\* Up to kMaxCopyWorkers workers, one at most per remaining file; a session that
\* carries the answer to a conflict has one.
FanOut ==
    /\ phase = "Fan" /\ ControlRuns
    /\ \/ /\ Remaining = {}
          /\ phase' = "Empty"
          /\ UNCHANGED worker
       \/ /\ Remaining # {}
          /\ phase' = "Working"
          /\ \E team \in SUBSET Worker \ {{}} :
                /\ Cardinality(team) <= Cardinality(Remaining)
                /\ options.replace # None => Cardinality(team) = 1
                /\ worker' = [w \in Worker |->
                       IF w \in team THEN Between ELSE Ended("None")]
    /\ UNCHANGED <<worldVars, threadVars, resultVars>>

Verdicts == {worker[w].verdict : w \in Worker}

\* The workers are joined; the first error, then a cancelled worker, then a
\* stopped one decide.
Join ==
    /\ phase = "Working"
    /\ \A w \in Worker : worker[w].pc = "Done"
    /\ IF firstError # NoError THEN Finish("Failed")
       ELSE IF "Cancelled" \in Verdicts THEN Finish("Cancelled")
       ELSE IF "Stopped" \in Verdicts THEN Finish("Stopped")
       ELSE phase' = "Joined" /\ UNCHANGED report
    /\ worker' = [w \in Worker |-> Ended("None")]
    /\ UNCHANGED <<worldVars, threadVars, firstError>>

\* The directories of a Move are cleaned up once nothing is unresolved.
Conclude ==
    /\ phase \in {"Empty", "Joined"} /\ ControlRuns
    /\ IF Operation = "Move" /\ Unresolved = {}
       THEN phase' = "Cleanup" /\ UNCHANGED report
       ELSE Finish("Success")
    /\ UNCHANGED <<worldVars, threadVars, worker, firstError>>

\* remove_empty_source_directories() polls the control and may fail.
CleanUp ==
    /\ phase = "Cleanup" /\ ControlRuns
    /\ \E result \in {"Success", "Failed"} : Finish(result)
    /\ UNCHANGED <<worldVars, threadVars, worker, firstError>>
-----------------------------------------------------------------------------
(***************************************************************************)
(* A copy worker.                                                          *)
(***************************************************************************)
At(w, pc)      == phase = "Working" /\ worker[w].pc = pc
Goto(w, pc)    == worker' = [worker EXCEPT ![w].pc = pc]
NextFile(w)    == worker' = [worker EXCEPT ![w] = Between]
End(w, result) == worker' = [worker EXCEPT ![w] = Ended(result)]
Mine(w)        == worker[w].item
Ending         == directive \in {"Stop", "Cancel"}
EndingVerdict  == IF directive = "Stop" THEN "Stopped" ELSE "Cancelled"

workerOnly == <<worldVars, sessionVars>>

\* remove_partial_destination(), where the destination was found free: whatever
\* is there now goes.
Discards(w) ==
    target' = IF worker[w].discard THEN [target EXCEPT ![Mine(w)] = "Free"] ELSE target

\* Between two files.
LoopEnds(w) ==
    /\ At(w, "Loop") /\ Ending
    /\ End(w, EndingVerdict)
    /\ UNCHANGED workerOnly

LoopRuns(w) ==
    /\ At(w, "Loop") /\ directive = "Run"
    /\ Goto(w, "Acquire")
    /\ UNCHANGED workerOnly

Acquire(w) ==
    /\ At(w, "Acquire")
    /\ \/ /\ Pending = {}
          /\ End(w, "Success")
          /\ UNCHANGED state
       \/ \E i \in Pending :
             /\ Moves(i, "Active")
             /\ worker' = [worker EXCEPT ![w].pc = "Held", ![w].item = i]
    /\ UNCHANGED <<controlVars, folder, diskVars, sessionVars>>

\* Mutant: the item of a worker that stops here is not given back.
HeldEndsKeepsIt(w) ==
    /\ At(w, "Held") /\ Ending
    /\ End(w, EndingVerdict)
    /\ UNCHANGED <<worldVars, sessionVars>>

HeldEnds(w) ==
    /\ At(w, "Held") /\ Ending
    /\ Moves(Mine(w), "Pending")
    /\ End(w, EndingVerdict)
    /\ UNCHANGED <<controlVars, folder, diskVars, sessionVars>>

\* destination_is_safe_to_discard() and the skip asked for before the transfer,
\* which an existing destination makes void.
HeldRuns(w) ==
    LET i == Mine(w)
        free == target[i] = "Free"
    IN  /\ At(w, "Held") /\ directive = "Run"
        /\ skips' = skips \ {i}
        /\ IF free /\ i \in skips
           THEN Moves(i, "Skipped") /\ NextFile(w)
           ELSE /\ UNCHANGED state
                /\ worker' = [worker EXCEPT
                       ![w].pc = IF Operation = "Move" THEN "Rename" ELSE "Copy",
                       ![w].discard = free]
        /\ UNCHANGED <<directive, folder, diskVars, sessionVars>>

SourceThere(i) == source[i] \in {"Original", "Changed"}

\* rename_file(): on success the file itself has moved; on any failure the copy
\* path takes over.
Rename(w) ==
    LET i == Mine(w) IN
    /\ At(w, "Rename")
    /\ \/ /\ SourceThere(i)
          /\ target[i] = "Free" \/ Replaces(i)
          /\ source' = [source EXCEPT ![i] = "Taken"]
          /\ target' = [target EXCEPT ![i] = "Copy"]
          /\ print' = [print EXCEPT ![i] = source[i]]
          /\ Goto(w, "Transferred")
       \/ Goto(w, "Copy") /\ UNCHANGED <<source, target, print>>
    /\ UNCHANGED <<controlVars, planVars, alternates, spoiled, sessionVars>>

\* Mutant: COPY_FILE_FAIL_IF_EXISTS is not asked for.
CopyOpensAnything(w) ==
    LET i == Mine(w) IN
    /\ At(w, "Copy")
    /\ SourceThere(i)
    /\ target' = [target EXCEPT ![i] = "Partial"]
    /\ spoiled' = IF target[i] = "Free" THEN spoiled ELSE spoiled \cup {i}
    /\ Goto(w, "Copying")
    /\ UNCHANGED <<controlVars, planVars, source, print, alternates, sessionVars>>

\* CopyFile2 opens the destination: a new file, or the one to be replaced.
CopyOpens(w) ==
    LET i == Mine(w) IN
    /\ At(w, "Copy")
    /\ SourceThere(i)
    /\ target[i] = "Free" \/ Replaces(i)
    /\ target' = [target EXCEPT ![i] = "Partial"]
    /\ spoiled' = IF target[i] = "Free" THEN spoiled ELSE spoiled \cup {i}
    /\ Goto(w, "Copying")
    /\ UNCHANGED <<controlVars, planVars, source, print, alternates, sessionVars>>

CopyConflicts(w) ==
    /\ At(w, "Copy")
    /\ SourceThere(Mine(w))
    /\ target[Mine(w)] # "Free" /\ ~Replaces(Mine(w))
    /\ Goto(w, "Conflict")
    /\ UNCHANGED workerOnly

\* The source or the destination folder cannot be opened, at the first call or
\* when a paused copy is taken up again; or the volume is gone.
CopyFails(w) ==
    /\ At(w, "Copy") \/ At(w, "Resume")
    /\ Goto(w, "Failed") \/ Goto(w, "Fatal")
    /\ UNCHANGED workerOnly

\* A file is locked by another program: wait_for_retry() ends the wait.
CopyBackOffEnds(w) ==
    /\ At(w, "Copy") \/ At(w, "Resume")
    /\ Ending
    /\ Goto(w, "Aborted")
    /\ UNCHANGED workerOnly

\* COPY_FILE_RESUME_FROM_PAUSE.
Resume(w) ==
    /\ At(w, "Resume")
    /\ Goto(w, "Copying")
    /\ UNCHANGED workerOnly

CopyCompletes(w) ==
    LET i == Mine(w) IN
    /\ At(w, "Copying")
    /\ target' = [target EXCEPT ![i] = "Copy"]
    /\ print' = [print EXCEPT ![i] = source[i]]
    /\ Goto(w, IF Operation = "Move" THEN "Copied" ELSE "Transferred")
    /\ UNCHANGED <<controlVars, planVars, source, alternates, spoiled, sessionVars>>

\* CopyFile2 may delete the file it gives up, or leave it.
GivesUp(i) == \/ UNCHANGED target
              \/ target' = [target EXCEPT ![i] = "Free"]

\* An I/O or a metadata error.
CopyBreaks(w) ==
    /\ At(w, "Copying")
    /\ GivesUp(Mine(w))
    /\ Goto(w, "Failed") \/ Goto(w, "Fatal")
    /\ UNCHANGED <<controlVars, planVars, source, copyVars, sessionVars>>

\* The progress callback: a skip goes before the directive.
SkipDue(w) == worker[w].discard /\ Mine(w) \in skips

CallbackSkips(w) ==
    /\ At(w, "Copying") /\ SkipDue(w)
    /\ skips' = skips \ {Mine(w)}
    /\ GivesUp(Mine(w))
    /\ Goto(w, "Skipping")
    /\ UNCHANGED <<directive, planVars, source, copyVars, sessionVars>>

CallbackPauses(w) ==
    /\ At(w, "Copying") /\ ~SkipDue(w)
    /\ directive = "Pause"
    /\ Goto(w, "Paused")
    /\ UNCHANGED workerOnly

CallbackEnds(w) ==
    /\ At(w, "Copying") /\ ~SkipDue(w)
    /\ Ending
    /\ GivesUp(Mine(w))
    /\ Goto(w, "Aborted")
    /\ UNCHANGED <<controlVars, planVars, source, copyVars, sessionVars>>

\* skip_requested: the partial file goes, the item is settled.
Skip(w) ==
    LET i == Mine(w) IN
    /\ At(w, "Skipping")
    /\ target' = [target EXCEPT ![i] = "Free"]
    /\ Moves(i, "Skipped")
    /\ NextFile(w)
    /\ UNCHANGED <<controlVars, folder, source, copyVars, sessionVars>>

\* The pause ended.
PauseResumes(w) ==
    /\ At(w, "Paused") /\ directive = "Run"
    /\ Goto(w, "Resume")
    /\ UNCHANGED workerOnly

\* Mutant: a copy stopped while it was paused leaves its file.
PauseEndsKeepsPartial(w) ==
    /\ At(w, "Paused") /\ Ending
    /\ UNCHANGED target
    /\ Moves(Mine(w), "Pending")
    /\ End(w, EndingVerdict)
    /\ UNCHANGED <<controlVars, folder, source, copyVars, sessionVars>>

PauseEnds(w) ==
    /\ At(w, "Paused") /\ Ending
    /\ Discards(w)
    /\ Moves(Mine(w), "Pending")
    /\ End(w, EndingVerdict)
    /\ UNCHANGED <<controlVars, folder, source, copyVars, sessionVars>>

\* ERROR_REQUEST_ABORTED.  Unless the session is being stopped it is cancelled.
Abort(w) ==
    /\ At(w, "Aborted")
    /\ Discards(w)
    /\ Moves(Mine(w), "Pending")
    /\ IF directive = "Stop"
       THEN End(w, "Stopped") /\ UNCHANGED controlVars
       ELSE End(w, "Cancelled") /\ directive' = "Cancel" /\ skips' = {}
    /\ UNCHANGED <<folder, source, copyVars, sessionVars>>

\* A conflict under a keep-both policy: another name, free on disk, and the copy
\* starts again.
Redirect(w) ==
    LET i == Mine(w) IN
    /\ At(w, "Conflict") /\ KeepsBoth(i)
    /\ alternates[i] < MaxAlternates
    /\ alternates' = [alternates EXCEPT ![i] = @ + 1]
    /\ target' = [target EXCEPT ![i] = "Free"]
    /\ spoiled' = spoiled \ {i}
    /\ worker' = [worker EXCEPT ![w].pc = "Copy", ![w].discard = TRUE]
    /\ UNCHANGED <<controlVars, planVars, source, print, sessionVars>>

ConflictSkips(w) ==
    /\ At(w, "Conflict") /\ ~KeepsBoth(Mine(w))
    /\ options.policy = "SkipAll"
    /\ Moves(Mine(w), "Skipped")
    /\ NextFile(w)
    /\ UNCHANGED <<controlVars, folder, diskVars, sessionVars>>

\* Mutant: the file of a conflict counts as skipped.
ConflictSettles(w) ==
    /\ At(w, "Conflict")
    /\ IF KeepsBoth(Mine(w)) THEN alternates[Mine(w)] = MaxAlternates
       ELSE options.policy # "SkipAll"
    /\ Moves(Mine(w), "Skipped")
    /\ Goto(w, "ReportConflict")
    /\ UNCHANGED <<controlVars, folder, diskVars, sessionVars>>

\* Any other conflict ends the session: the item goes back first, ...
ConflictReleases(w) ==
    /\ At(w, "Conflict")
    /\ IF KeepsBoth(Mine(w)) THEN alternates[Mine(w)] = MaxAlternates
       ELSE options.policy # "SkipAll"
    /\ Moves(Mine(w), "Pending")
    /\ Goto(w, "ReportConflict")
    /\ UNCHANGED <<controlVars, folder, diskVars, sessionVars>>

\* ... as it does after an error of the whole destination, whose partial file
\* stays if CopyFile2 left it ...
FatalReleases(w) ==
    /\ At(w, "Fatal")
    /\ Moves(Mine(w), "Pending")
    /\ spoiled' = IF target[Mine(w)] = "Partial" THEN spoiled \cup {Mine(w)} ELSE spoiled
    /\ Goto(w, "ReportFatal")
    /\ UNCHANGED <<controlVars, folder, source, target, print, alternates, sessionVars>>

\* ... and then the error is recorded, unless there was one, and everybody is
\* told to cancel.
Report(w) ==
    /\ At(w, "ReportConflict") \/ At(w, "ReportFatal")
    /\ firstError' = IF firstError # NoError THEN firstError
                     ELSE [kind |-> IF At(w, "ReportFatal") THEN "Fatal" ELSE "Conflict",
                           item |-> Mine(w)]
    /\ directive' = "Cancel" /\ skips' = {}
    /\ End(w, "Failed")
    /\ UNCHANGED <<planVars, diskVars, mainVars, report>>

\* One file failed: it is parked and the worker goes on.
ParkFailed(w) ==
    /\ At(w, "Failed")
    /\ Discards(w)
    /\ Moves(Mine(w), "Parked")
    /\ NextFile(w)
    /\ UNCHANGED <<controlVars, folder, source, copyVars, sessionVars>>

\* A Move by copy: the source is removed, unless the session ends first.
CopiedEnds(w) ==
    /\ At(w, "Copied") /\ Ending
    /\ Moves(Mine(w), "Copied")
    /\ End(w, EndingVerdict)
    /\ UNCHANGED <<controlVars, folder, diskVars, sessionVars>>

\* The source lease is given up, for the removal needs the file.
CopiedRuns(w) ==
    /\ At(w, "Copied") /\ directive = "Run"
    /\ Goto(w, "Removing")
    /\ UNCHANGED workerOnly

Remove(w) ==
    /\ At(w, "Removing")
    /\ RemovesSource(Mine(w))
    /\ Goto(w, "Transferred")
    /\ UNCHANGED <<controlVars, planVars, target, copyVars, sessionVars>>

\* It was changed, or is in use; without an identity no retry could verify it.
RemoveFails(w) ==
    /\ At(w, "Removing")
    /\ Moves(Mine(w), IF Mine(w) \in Identified THEN "Copied" ELSE "CopiedSourceRetained")
    /\ NextFile(w)
    /\ UNCHANGED <<controlVars, folder, diskVars, sessionVars>>

\* Transferred; a session for one replaced file ends here.
Succeed(w) ==
    /\ At(w, "Transferred")
    /\ Moves(Mine(w), "Succeeded")
    /\ IF options.replace = Mine(w) THEN End(w, "Success") ELSE NextFile(w)
    /\ UNCHANGED <<controlVars, folder, diskVars, sessionVars>>
-----------------------------------------------------------------------------
(***************************************************************************)
(* The window, and other programs.                                         *)
(***************************************************************************)
WindowRequests(request) ==
    /\ phase # "Idle"
    /\ directive' = After(request, directive)
    /\ skips' = IF request = "Cancel" THEN {} ELSE skips
    /\ UNCHANGED <<planVars, diskVars, sessionVars, worker>>

\* The file the last snapshot showed; the request may come after it is done.
WindowSkips(i) ==
    /\ phase = "Working"
    /\ directive = "Run"
    /\ state[i] = "Active"
    /\ skips' = skips \cup {i}
    /\ UNCHANGED <<directive, planVars, diskVars, sessionVars, worker>>

\* append(), remove_pending_files().
PlanLives ==
    phase # "Idle" \/ report \in {"None", "Success"} \/ InterruptedSessionState # "None"

WindowAppends(i) ==
    /\ PlanLives
    /\ i \in Appends /\ state[i] = "Absent"
    /\ Moves(i, "Pending")
    /\ folder' = [f \in Folder |-> IF folder[f] = "Unplanned" /\ i \in Inside[f]
                                   THEN "Planned" ELSE folder[f]]
    /\ UNCHANGED <<controlVars, diskVars, sessionVars, worker>>

WindowRemoves(i) ==
    /\ PlanLives
    /\ i \in Pending
    /\ Moves(i, "Removed")
    /\ UNCHANGED <<controlVars, folder, diskVars, sessionVars, worker>>

\* SourceLease shares the file for reading only.
Leased(i) ==
    \E w \in Worker :
        Mine(w) = i /\ worker[w].pc \in {"Copying", "Paused", "Resume", "Skipping",
                                         "Aborted", "Failed", "Fatal", "Copied"}

OtherPrograms(i) ==
    /\ i \in Touched \cap Unresolved
    /\ \/ /\ "SourceChanges" \in Outside
          /\ source[i] = "Original" /\ ~Leased(i)
          /\ source' = [source EXCEPT ![i] = "Changed"]
          /\ UNCHANGED target
       \/ /\ "SourceVanishes" \in Outside
          /\ SourceThere(i) /\ ~Leased(i)
          /\ source' = [source EXCEPT ![i] = "Missing"]
          /\ UNCHANGED target
       \/ /\ "TargetAppears" \in Outside
          /\ target[i] = "Free"
          /\ target' = [target EXCEPT ![i] = "Foreign"]
          /\ UNCHANGED source
       \/ /\ "CopyChanges" \in Outside
          /\ target[i] = "Copy"
          /\ \E t \in {"Foreign", "Free"} : target' = [target EXCEPT ![i] = t]
          /\ UNCHANGED source
    /\ UNCHANGED <<controlVars, planVars, copyVars, sessionVars, worker>>
-----------------------------------------------------------------------------
Main ==
    \/ EndByControl \/ Begin \/ ListDirectories \/ DirectoryFatal
    \/ MarkMaterialized \/ FanOut \/ Join \/ Conclude \/ CleanUp \/ RecoverRemoves
    \/ \E i \in Item : RecoverSettles(i) \/ RecoverPostpones(i) \/ RecoverRetries(i)
    \/ \E f \in Folder : PrepareDirectory(f)

Work(w) ==
    \/ LoopEnds(w) \/ LoopRuns(w) \/ Acquire(w) \/ HeldEnds(w) \/ HeldRuns(w)
    \/ Rename(w) \/ CopyOpens(w) \/ CopyConflicts(w) \/ CopyFails(w)
    \/ CopyBackOffEnds(w) \/ Resume(w) \/ CopyCompletes(w) \/ CopyBreaks(w)
    \/ CallbackSkips(w) \/ CallbackPauses(w) \/ CallbackEnds(w) \/ Skip(w)
    \/ PauseResumes(w) \/ PauseEnds(w) \/ Abort(w) \/ Redirect(w)
    \/ ConflictSkips(w) \/ ConflictReleases(w) \/ FatalReleases(w) \/ Report(w)
    \/ ParkFailed(w) \/ CopiedEnds(w) \/ CopiedRuns(w) \/ Remove(w)
    \/ RemoveFails(w) \/ Succeed(w)

Window ==
    \/ StartTransfer \/ ResumeStoppedCopy \/ SkipConflict \/ ResumeParkedFailures
    \/ ResolveParkedFailures \/ ExecuteAgain
    \/ \E policy \in Policy : ResumeConflictCopy(policy)
    \/ \E request \in Request : WindowRequests(request)
    \/ \E i \in Item : WindowSkips(i) \/ WindowAppends(i) \/ WindowRemoves(i)

Next ==
    \/ Main
    \/ \E w \in Worker : Work(w)
    \/ Window
    \/ \E i \in Item : OtherPrograms(i)

\* The threads of a session run when they can; CopyFile2 keeps calling back.
\* Nothing is assumed of the window and of other programs.
Spec == Init /\ [][Next]_vars /\ WF_vars(Main) /\ \A w \in Worker : WF_vars(Work(w))
-----------------------------------------------------------------------------
Holding == {"Held", "Rename", "Copy", "Copying", "Paused", "Resume", "Skipping", "Aborted",
            "Conflict", "Failed", "Fatal", "Copied", "Removing", "Transferred"}
Pc == Holding \cup {"Loop", "Acquire", "ReportConflict", "ReportFatal", "Done"}
Phase == {"Idle", "Begin", "Recover", "Removing", "Directories", "Fan", "Working",
          "Empty", "Joined", "Cleanup"}
Result == {"None", "Success", "Failed", "Cancelled", "Stopped"}

Lifecycle == INSTANCE ItemLifecycle

\* Types, and that a cancelled session holds no skips.
TypeOK ==
    /\ directive \in ExecutionDirective
    /\ skips \subseteq Item
    /\ directive = "Cancel" => skips = {}
    /\ state \in [Item -> Lifecycle!ItemState]
    /\ folder \in [Folder -> {"Unplanned", "Planned", "Tried", "Made"}]
    /\ source \in [Item -> {"Original", "Changed", "Missing", "Taken"}]
    /\ target \in [Item -> {"Free", "Foreign", "Partial", "Copy"}]
    /\ print \in [Item -> {"None", "Original", "Changed"}]
    /\ alternates \in [Item -> 0..MaxAlternates]
    /\ spoiled \subseteq Item
    /\ phase \in Phase
    /\ todo \subseteq Item /\ retrying \in Item \cup {None}
    /\ through \subseteq Folder
    /\ options \in [policy : ConflictPolicy, replace : Item \cup {None}, retry : BOOLEAN]
    /\ sessions \in 0..MaxSessions
    /\ worker \in [Worker -> [pc : Pc, item : Item \cup {None}, discard : BOOLEAN,
                              verdict : Result]]
    /\ firstError \in [kind : {"None", "Fatal", "Conflict"}, item : Item \cup {None}]
    /\ report \in Result

\* The Active items of the plan are those the workers hold, each held by one:
\* no interleaving of a stop, a pause, a skip, a conflict and an edit copies a
\* file twice at a time, or loses one to a session that has ended.
HeldExactly ==
    /\ \A w \in Worker : worker[w].pc \in Holding => state[Mine(w)] = "Active"
    /\ \A v, w \in Worker :
          v # w /\ {worker[v].pc, worker[w].pc} \subseteq Holding => Mine(v) # Mine(w)
    /\ \A i \in Item : state[i] = "Active" =>
          phase = "Working" /\ \E w \in Worker : worker[w].pc \in Holding /\ Mine(w) = i

\* The result of an item is what happened to its files: a copy was completed for
\* every item that is reported as transferred or waits for its source to go and
\* for no other; a moved item has no source left, and one whose source is said
\* to be retained has not lost it to us.
OutcomesTrue ==
    \A i \in Item :
        LET transferring == \E w \in Worker :
                Mine(w) = i /\ worker[w].pc \in {"Copied", "Removing", "Transferred"}
        IN  /\ (print[i] # "None") <=>
                 \/ state[i] \in {"Succeeded", "Copied", "CopiedSourceRetained"}
                 \/ transferring /\ state[i] = "Active"
            /\ Operation = "Move" /\ state[i] = "Succeeded" =>
                 source[i] \in {"Taken", "Missing"}
            /\ source[i] = "Taken" =>
                 Operation = "Move" /\ state[i] \in {"Active", "Succeeded"}

\* A source is only ever removed while the complete copy of that very version of
\* it is at the destination, whatever other programs did to both in between and
\* however many sessions ago the copy was made.
SourceSafe ==
    [][\A i \in Item : source[i] # "Taken" /\ source'[i] = "Taken" =>
          target'[i] = "Copy" /\ print'[i] = source[i]]_vars

\* Half a file is left at a destination by its worker only: once the item is
\* given back, parked or settled, a stop, a skip or a failure has cleaned up,
\* unless it had replaced a file or the volume failed.
NoLeftovers ==
    \A i \in Item : target[i] = "Partial" /\ state[i] # "Active" => i \in spoiled

\* A file that was there before the session is neither overwritten nor removed
\* unless the options of this session say to replace it (when a keep-both picks
\* another name, target is about that name).  Nothing is promised of a file that
\* appears later.
ForeignKept ==
    [][\A i \in Item : target[i] = "Foreign" /\ target'[i] # "Foreign" =>
          Replaces(i) \/ alternates'[i] # alternates[i]]_vars

\* The file a session's conflict is about is neither transferred nor settled when
\* the user is asked, though it was given back before the other workers were told
\* to stop.  (One of them may have taken it and parked it for another reason.)
ConflictOpen ==
    phase = "Idle" /\ InterruptedSessionState = "Conflict" =>
        state[firstError.item] \in {"Pending", "Parked", "Removed"}

\* A directory that an append brought while the session was listing or making
\* directories is not taken for made.
DirectoriesTried ==
    [][\A f \in Folder : folder[f] # "Made" /\ folder'[f] = "Made" => folder[f] = "Tried"]_vars

\* The executor and the window keep to the contract of the plan's items.
LifecycleKept == Lifecycle!Spec

\* A session that is not left paused ends, and so does one that is stopped or
\* cancelled while it is paused.
SessionEnds == phase # "Idle" ~> phase = "Idle" \/ directive = "Pause"
=============================================================================
