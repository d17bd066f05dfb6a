--------------------------- MODULE QueueRecovery ---------------------------
(***************************************************************************)
(* Saved queues: what a window writes when Windows shuts down or when it   *)
(* is told to save its queue, the archive files, the crash, and how the    *)
(* next process offers, checks, adopts or drops what it finds.             *)
(*                                                                         *)
(* QueueArchiveStore::save opens a staging file of its own, writes it,     *)
(* flushes it and renames it over the old archive; a file that was not     *)
(* flushed is torn by a crash.  The window's thread is one thread: the     *)
(* recovery checkpoint at the end of the session runs on it, the saving of *)
(* a queue does not, and the copy workers run beside both.                 *)
(*                                                                         *)
(* A job is the set of items planning it gives.  How jobs come to wait     *)
(* behind each other is TransferWindow's subject: here a job that meets a  *)
(* busy window is appended, deferred or queued as it pleases, and a        *)
(* session that fails settles its items one by one.  Left out: the byte    *)
(* format and its limits, staging files that outlive their process (no     *)
(* later GUID is theirs and the next process removes them), and sessions   *)
(* the person cancels.                                                     *)
(***************************************************************************)
EXTENDS Naturals, FiniteSets, Sequences, SequencesExt

CONSTANTS
    Window, Item, Job,
    None,
    Content,    \* the items of each job
    Key,        \* the destination key of each item
    Fragile,    \* BOUND: the sources other programs may remove
    ByHand,     \* BOUND: how often queues are saved and loaded by hand
    MaxBoots    \* BOUND on the processes, one after the other

Boot    == 1..MaxBoots
Session == Boot \X Window
Queue   == <<0, None>>              \* the file a person saves a queue to
Path    == Session \cup {Queue}
Saver   == Window \X {"Recovery", "Queue"}
Nothing == [plan |-> {}, removals |-> {}, appends |-> {}, queued |-> {}]
Archive == [plan : SUBSET Item, removals : SUBSET Item,
            appends : SUBSET Job, queued : SUBSET Job]

ASSUME RecoveryAssumption ==
    /\ Content \in [Job -> SUBSET Item]
    /\ \A j, k \in Job : j # k => Content[j] \cap Content[k] = {}
    /\ Fragile \subseteq Item
    /\ IsFiniteSet(Window) /\ None \notin Session
    /\ ByHand \in Nat /\ MaxBoots \in Nat \ {0}

File == [kind : {"None", "Partial", "Torn", "Cached", "Whole"}, archive : Archive]

VARIABLES
    up, boot,     \* the process runs; how many there have been
    fresh,        \* the jobs nobody has asked for yet
    source,       \* the sources on the disk
    disk,         \* the archive at each path
    at,           \* each window's live plan: where each item is
    jobs,         \* each window's jobs: in planning, deferred, queued
    session,      \* the windows with a session, running or interrupted
    live,         \* those of them whose plan is published: live_plan_
    name,         \* session_id_
    ending,       \* session_ending_
    saver,        \* the saves in progress
    staged,       \* their staging files
    hand,         \* the archives the windows are about to take over
    checked,      \* recovery_prompt_checked_
    listed,       \* recovery_files_initialized_
    offered,      \* pending_recovery_files_
    byHand,       \* how many queues were saved or loaded by hand
    told          \* history: the items done, or whose end the person knows of

processVars == <<up, boot>>
planVars    == <<at, jobs, session, live>>
windowVars  == <<planVars, name>>
offerVars   == <<hand, checked, listed, offered>>
saveVars    == <<saver, staged, byHand>>
vars == <<processVars, fresh, source, disk, windowVars, ending, saveVars, offerVars, told>>

State   == {"Out", "Pending", "Parked", "Copied"}
NoFile  == [kind |-> "None", archive |-> Nothing]
Partial == [kind |-> "Partial", archive |-> Nothing]
Torn    == [kind |-> "Torn", archive |-> Nothing]
NoSave  == [phase |-> "Idle", path |-> None, current |-> FALSE, archive |-> Nothing,
            owed |-> {}]
NoHand  == [phase |-> "None", path |-> None, archive |-> Nothing]
NoJobs  == [planning |-> {}, deferred |-> {}, queued |-> {}]

In(w, states) == {i \in Item : at[w][i] \in states}
Held(w) == In(w, State \ {"Out"})
Contents(js) == UNION {Content[j] : j \in js}

\* Nothing of a transfer is left in the window.
Idle(w) == w \notin session /\ jobs[w].planning = {} /\ jobs[w].queued = {}

\* The window's thread is not in the middle of a checkpoint or an adoption.
Free == \A w \in Window : /\ saver[<<w, "Recovery">>].phase = "Idle"
                          /\ hand[<<w, "Recovery">>].phase # "Adopted"

Init ==
    /\ up = TRUE /\ boot = 1
    /\ fresh = Job
    /\ source = Item
    /\ disk = [p \in Path |-> NoFile]
    /\ at = [w \in Window |-> [i \in Item |-> "Out"]]
    /\ jobs = [w \in Window |-> NoJobs]
    /\ session = {} /\ live = {}
    /\ name = [w \in Window |-> <<1, w>>]
    /\ ending = {}
    /\ saver = [s \in Saver |-> NoSave] /\ byHand = 0
    /\ staged = [s \in Saver \cup Path |-> NoFile]
    /\ hand = [s \in Saver |-> NoHand]
    /\ checked = {} /\ listed = FALSE /\ offered = <<>>
    /\ told = {}
-----------------------------------------------------------------------------
(***************************************************************************)
(* The transfers, as far as a saved queue sees them.                       *)
(***************************************************************************)
\* BOUND: nobody asks for more once Windows shuts down.
Submit(w, j) ==
    /\ up /\ Free /\ ending = {} /\ j \in fresh
    /\ fresh' = fresh \ {j}
    /\ IF Idle(w)
       THEN /\ jobs' = [jobs EXCEPT ![w].planning = {j}]
            /\ session' = session \cup {w}
       ELSE /\ \/ w \in live /\ jobs' = [jobs EXCEPT ![w].planning = @ \cup {j}]
               \/ w \in session /\ jobs' = [jobs EXCEPT ![w].deferred = @ \cup {j}]
               \/ jobs' = [jobs EXCEPT ![w].queued = @ \cup {j}]
            /\ UNCHANGED session
    /\ UNCHANGED <<processVars, source, disk, at, live, name, ending, saveVars, offerVars, told>>

\* A job may join the plan: its sources are there and its destinations are free.
Joins(w, j) ==
    /\ Content[j] \subseteq source
    /\ \A i \in Content[j], k \in Held(w) : Key[i] # Key[k]

Pends(w, j) ==
    at' = [at EXCEPT ![w] = [i \in Item |-> IF i \in Content[j] THEN "Pending" ELSE @[i]]]

\* The first job of a session is planned: its plan is published and the jobs
\* deferred to it are appended; or the session fails, the person sees why, and
\* those jobs are queued.
Published(w, j) ==
    /\ up /\ Free /\ w \notin live /\ j \in jobs[w].planning
    /\ IF Joins(w, j)
       THEN /\ Pends(w, j)
            /\ live' = live \cup {w}
            /\ jobs' = [jobs EXCEPT ![w].planning = (@ \ {j}) \cup jobs[w].deferred,
                                    ![w].deferred = {}]
            /\ UNCHANGED told
       ELSE /\ told' = told \cup Content[j]
            /\ jobs' = [jobs EXCEPT ![w].planning = @ \ {j}, ![w].deferred = {},
                                    ![w].queued = @ \cup jobs[w].deferred]
            /\ UNCHANGED <<at, live>>
    /\ UNCHANGED <<processVars, fresh, source, disk, session, name, ending, saveVars, offerVars>>

\* The append planner is done with a job: it joins the live plan, or is refused
\* with an error the person sees.
Planned(w, j) ==
    /\ up /\ w \in live /\ j \in jobs[w].planning
    /\ jobs' = [jobs EXCEPT ![w].planning = @ \ {j}]
    /\ IF Joins(w, j)
       THEN Pends(w, j) /\ UNCHANGED told
       ELSE told' = told \cup Content[j] /\ UNCHANGED at
    /\ UNCHANGED <<processVars, fresh, source, disk, session, live, name, ending, saveVars, offerVars>>

\* A stopped or conflicting session takes up what was deferred meanwhile.
TakesDeferred(w) ==
    /\ up /\ Free /\ w \in live /\ jobs[w].deferred # {}
    /\ jobs' = [jobs EXCEPT ![w].planning = @ \cup jobs[w].deferred, ![w].deferred = {}]
    /\ UNCHANGED <<processVars, fresh, source, disk, at, session, live, name, ending,
                   saveVars, offerVars, told>>

\* History: an item that leaves the plan is owed by no save that reads it, and
\* one that is copied and parks its removal after the removals were read, and
\* before the plan is exported, is left out of the archive.
Forgets(w, i, gone) ==
    saver' = [s \in Saver |->
        IF s[1] = w /\ saver[s].current /\ (gone \/ saver[s].phase = "Export")
        THEN [saver[s] EXCEPT !.owed = @ \ {i}] ELSE saver[s]]

\* What workers do to an item.  It leaves the plan: moved, with its source gone;
\* or copied, skipped, failed or declined, with its source where it is.  Or it
\* is copied and its removal parked, or its transfer is parked and taken up.
WorkOn(w, i) ==
    /\ up
    /\ \/ /\ at[w][i] # "Out"
          /\ at' = [at EXCEPT ![w][i] = "Out"]
          /\ source' \in IF at[w][i] = "Parked" THEN {source} ELSE {source, source \ {i}}
          /\ told' = told \cup {i}
          /\ Forgets(w, i, TRUE)
       \/ /\ at[w][i] = "Pending" /\ i \in source
          /\ at' = [at EXCEPT ![w][i] = "Copied"]
          /\ Forgets(w, i, FALSE)
          /\ UNCHANGED <<source, told>>
       \/ /\ at[w][i] = "Pending"
          /\ at' = [at EXCEPT ![w][i] = "Parked"]
          /\ UNCHANGED <<source, told, saver>>
       \/ /\ at[w][i] = "Parked"
          /\ at' = [at EXCEPT ![w][i] = "Pending"]
          /\ UNCHANGED <<source, told, saver>>
    /\ UNCHANGED <<processVars, fresh, disk, jobs, session, live, name, ending, staged, byHand,
                   offerVars>>

\* FinishCopy lets go of the plan; the next queued job starts, or the window is
\* idle.  A save that began before goes on with the plan it captured, in which
\* nothing is left.
NextSession(w) ==
    /\ up /\ Free /\ w \in session
    /\ Held(w) = {} /\ jobs[w].planning = {}
    /\ live' = live \ {w}
    /\ saver' = [s \in Saver |-> IF s[1] = w THEN [saver[s] EXCEPT !.current = FALSE] ELSE saver[s]]
    /\ IF jobs[w].queued # {}
       THEN /\ \E j \in jobs[w].queued :
                 jobs' = [jobs EXCEPT ![w].planning = {j}, ![w].queued = @ \ {j}]
            /\ UNCHANGED session
       ELSE session' = session \ {w} /\ UNCHANGED jobs
    /\ UNCHANGED <<processVars, fresh, source, disk, at, name, ending, staged, byHand, offerVars,
                   told>>

\* Another program removes a source.
SourceVanishes(i) ==
    /\ i \in Fragile \cap source
    /\ source' = source \ {i}
    /\ UNCHANGED <<processVars, fresh, disk, windowVars, ending, saveVars, offerVars, told>>
-----------------------------------------------------------------------------
(***************************************************************************)
(* Saving.  The jobs are read on the window's thread; the plan is read in  *)
(* two calls, the parked removals first and what is left to copy next.     *)
(***************************************************************************)
Starts(s, path) ==
    saver' = [saver EXCEPT ![s] =
        [phase |-> "Removals", path |-> path, current |-> s[1] \in live, owed |-> Held(s[1]),
         archive |-> [Nothing EXCEPT !.appends = jobs[s[1]].deferred, !.queued = jobs[s[1]].queued]]]

\* WM_ENDSESSION: on the window's thread, while its workers go on.
\* BOUND: no queue was saved or loaded by hand before.
EndSession(w) ==
    /\ up /\ Free /\ w \notin ending /\ byHand = 0
    /\ ending' = ending \cup {w}
    /\ Starts(<<w, "Recovery">>, name[w])
    /\ UNCHANGED <<processVars, fresh, source, disk, windowVars, staged, byHand, offerVars, told>>

\* SaveQueueAsync, once a file was picked: refused while an append is planned.
\* While the first job is planned its gate counts the jobs deferred to it, but
\* not those deferred by a Stop: the model lets both be saved.
\* BOUND: by the first process, one save of a window at a time, and none once
\* Windows shuts down.
SaveQueue(w) ==
    /\ up /\ Free /\ byHand < ByHand /\ boot = 1 /\ ending = {}
    /\ saver[<<w, "Queue">>].phase = "Idle"
    /\ w \in live => jobs[w].planning = {}
    /\ w \in live \/ jobs[w].deferred # {} \/ jobs[w].queued # {}
    /\ Starts(<<w, "Queue">>, Queue)
    /\ byHand' = byHand + 1
    /\ UNCHANGED <<processVars, fresh, source, disk, windowVars, ending, staged, offerVars, told>>

At(s, phase) == up /\ saver[s].phase = phase
Unsaved == <<processVars, fresh, source, windowVars, ending, byHand, offerVars, told>>

\* The items in the given states of the plan that the save has captured: nothing
\* is left in one that the window has let go of.
Captured(s, states) == IF saver[s].current THEN In(s[1], states) ELSE {}

ReadRemovals(s) ==
    /\ At(s, "Removals")
    /\ saver' = [saver EXCEPT ![s].phase = "Export",
                              ![s].archive.removals = Captured(s, {"Copied"})]
    /\ UNCHANGED <<Unsaved, disk, staged>>

\* Mutant: parked transfers are left out as parked removals are.
ExportedPendingOnly(s) == Captured(s, {"Pending"})

\* export_remaining_plan(): active and pending items, and parked transfers.
Exported(s) == Captured(s, {"Pending", "Parked"})

ExportPlan(s) ==
    /\ At(s, "Export")
    /\ saver' = [saver EXCEPT ![s].phase = "Open", ![s].archive.plan = Exported(s)]
    /\ UNCHANGED <<Unsaved, disk, staged>>

\* A checkpoint without work retires the file instead.
RetireEmpty(s) ==
    /\ At(s, "Open") /\ s[2] = "Recovery"
    /\ saver[s].archive = Nothing
    /\ disk' = [disk EXCEPT ![saver[s].path] = NoFile]
    /\ saver' = [saver EXCEPT ![s] = NoSave]
    /\ UNCHANGED <<Unsaved, staged>>

\* Mutant: one staging file for each archive, as before the name had a GUID.
TempBeside(s) == saver[s].path

\* temp_path_for(): every save has a staging file of its own.
TempFor(s) == s

Stages(s, file) == staged' = [staged EXCEPT ![TempFor(s)] = file]

\* The staging file is created, or emptied if there is one of that name.
OpenStaging(s) ==
    /\ At(s, "Open")
    /\ s[2] = "Recovery" => saver[s].archive # Nothing
    /\ Stages(s, Partial)
    /\ saver' = [saver EXCEPT ![s].phase = "Write"]
    /\ UNCHANGED <<Unsaved, disk>>

\* The archive is written and the stream closed.
WriteStaging(s) ==
    /\ At(s, "Write")
    /\ Stages(s, [kind |-> "Cached", archive |-> saver[s].archive])
    /\ saver' = [saver EXCEPT ![s].phase = "Flush"]
    /\ UNCHANGED <<Unsaved, disk>>

\* flush_file_to_disk(): the file is opened again by its name.
FlushStaging(s) ==
    /\ At(s, "Flush")
    /\ staged[TempFor(s)].kind # "None"
    /\ Stages(s, [staged[TempFor(s)] EXCEPT !.kind = IF @ = "Cached" THEN "Whole" ELSE @])
    /\ saver' = [saver EXCEPT ![s].phase = "Rename"]
    /\ UNCHANGED <<Unsaved, disk>>

\* MoveFileExW, under archive_commit_mutex, which a read of an archive takes too.
RenameStaged(s) ==
    /\ At(s, "Rename")
    /\ staged[TempFor(s)].kind # "None"
    /\ disk' = [disk EXCEPT ![saver[s].path] = staged[TempFor(s)]]
    /\ Stages(s, NoFile)
    /\ saver' = [saver EXCEPT ![s] = NoSave]
    /\ UNCHANGED Unsaved

\* Any step of a save may fail: TempFileGuard removes the staging file and the
\* old archive stays.
SaveFails(s) ==
    /\ up /\ saver[s].phase # "Idle"
    /\ IF saver[s].phase \in {"Write", "Flush", "Rename"} THEN Stages(s, NoFile)
       ELSE UNCHANGED staged
    /\ saver' = [saver EXCEPT ![s] = NoSave]
    /\ UNCHANGED <<Unsaved, disk>>
-----------------------------------------------------------------------------
(***************************************************************************)
(* The process ends, whatever it was doing, and another one starts.        *)
(***************************************************************************)
Dies ==
    /\ up
    /\ up' = FALSE
    /\ disk' = [p \in Path |-> IF disk[p].kind \in {"Partial", "Cached"} THEN Torn ELSE disk[p]]
    /\ at' = [w \in Window |-> [i \in Item |-> "Out"]]
    /\ jobs' = [w \in Window |-> NoJobs]
    /\ session' = {} /\ live' = {} /\ ending' = {} /\ checked' = {}
    /\ saver' = [s \in Saver |-> NoSave]
    /\ staged' = [s \in Saver \cup Path |-> NoFile]
    /\ hand' = [s \in Saver |-> NoHand]
    /\ listed' = FALSE /\ offered' = <<>>
    /\ UNCHANGED <<boot, fresh, source, name, byHand, told>>

Boots ==
    /\ ~up /\ boot < MaxBoots
    /\ up' = TRUE /\ boot' = boot + 1
    /\ name' = [w \in Window |-> <<boot + 1, w>>]
    /\ UNCHANGED <<fresh, source, disk, planVars, ending, saveVars, offerVars, told>>
-----------------------------------------------------------------------------
(***************************************************************************)
(* Loading.  A window takes the first recovery file on offer, or the queue *)
(* a person picks; it is read and checked in the background.               *)
(***************************************************************************)
Merged(a) == [a EXCEPT !.plan = @ \cup Contents(a.appends), !.appends = {}]

Apart(items) == \A i, k \in items : i # k => Key[i] # Key[k]

\* The plan's sources are all there, and so are those of the jobs that join it,
\* which collide neither with it nor with each other.
Sound(a) ==
    /\ a.plan \cup Contents(a.appends) \subseteq source
    /\ a.plan \cap Contents(a.appends) = {}
    /\ Apart(a.plan \cup Contents(a.appends))

\* Mutant: the file stays on offer while the window decides.
LeftOnOfferAll(q) == q

\* pop_front().
LeftOnOffer(q) == Tail(q)

\* list_recovery_files(): those of the windows of this process are not listed.
RecoveryFiles == {p \in Session : disk[p] # NoFile /\ \A w \in Window : name[w] # p}

\* MaybeOfferRecoveryAsync up to its first await.
Offer(w) ==
    /\ up /\ Free /\ Idle(w) /\ w \notin checked
    /\ hand[<<w, "Recovery">>].phase = "None"
    /\ listed' = TRUE
    /\ \E q \in IF listed THEN {offered} ELSE SetToSeqs(RecoveryFiles) :
          IF q = <<>>
          THEN checked' = checked \cup {w} /\ UNCHANGED <<hand, offered>>
          ELSE /\ hand' = [hand EXCEPT ![<<w, "Recovery">>] =
                              [NoHand EXCEPT !.phase = "Loading", !.path = Head(q)]]
               /\ offered' = LeftOnOffer(q)
               /\ UNCHANGED checked
    /\ UNCHANGED <<processVars, fresh, source, disk, windowVars, ending, saveVars, told>>

PickQueue(w) ==
    /\ up /\ Free /\ Idle(w) /\ byHand < ByHand /\ ending = {}
    /\ hand[<<w, "Queue">>].phase = "None"
    /\ disk[Queue] # NoFile
    /\ hand' = [hand EXCEPT ![<<w, "Queue">>] = [NoHand EXCEPT !.phase = "Loading", !.path = Queue]]
    /\ byHand' = byHand + 1
    /\ UNCHANGED <<processVars, fresh, source, disk, windowVars, ending, saver, staged, checked,
                   listed, offered, told>>

Read(s) == disk[hand[s].path]
Unloaded == <<processVars, fresh, source, windowVars, ending, saveVars, checked, listed, offered, told>>

\* A recovery file is also refused for a job that only waits its turn.
Usable(s) ==
    /\ Read(s).kind \in {"Whole", "Cached"}
    /\ Sound(Read(s).archive)
    /\ s[2] = "Recovery" => Contents(Read(s).archive.queued) \subseteq source

\* Mutant: parked source removals are no reason to keep a file.
HasWorkForgetsRemovals(a) == a.plan # {} \/ a.queued # {}

HasWork(a) == a.plan # {} \/ a.removals # {} \/ a.queued # {}

LoadFinds(s) ==
    /\ up /\ hand[s].phase = "Loading" /\ Usable(s)
    /\ s[2] = "Recovery" => HasWork(Merged(Read(s).archive))
    /\ hand' = [hand EXCEPT ![s].phase = "Ready", ![s].archive = Merged(Read(s).archive)]
    /\ UNCHANGED <<Unloaded, disk>>

\* A recovery file that cannot be used, or holds no work, is retired at once;
\* a queue that cannot be loaded stays where it is.
LoadRejects(s) ==
    /\ up /\ hand[s].phase = "Loading"
    /\ ~Usable(s) \/ (s[2] = "Recovery" /\ ~HasWork(Merged(Read(s).archive)))
    /\ disk' = IF s[2] = "Recovery" THEN [disk EXCEPT ![hand[s].path] = NoFile] ELSE disk
    /\ hand' = [hand EXCEPT ![s] = NoHand]
    /\ UNCHANGED Unloaded

\* ReturnRecoveryFile: the window is busy by now, the person cancels, the
\* session ends, or the live state cannot be built.
GiveBack(w) == LET s == <<w, "Recovery">> IN
    /\ up /\ Free
    /\ \/ hand[s].phase = "Ready" /\ ~Idle(w)
       \/ hand[s].phase = "Asking"
    /\ hand' = [hand EXCEPT ![s] = NoHand]
    /\ offered' = <<hand[s].path>> \o offered
    /\ UNCHANGED <<processVars, fresh, source, disk, windowVars, ending, saveVars, checked, listed,
                   told>>

Ask(w) == LET s == <<w, "Recovery">> IN
    /\ up /\ Free /\ hand[s].phase = "Ready" /\ Idle(w)
    /\ hand' = [hand EXCEPT ![s].phase = "Asking"]
    /\ UNCHANGED <<Unloaded, disk>>

Work(a) == a.plan \cup a.removals \cup Contents(a.appends \cup a.queued)

Discard(w) == LET s == <<w, "Recovery">> IN
    /\ up /\ Free /\ hand[s].phase = "Asking" /\ w \notin ending
    /\ disk' = [disk EXCEPT ![hand[s].path] = NoFile]
    /\ told' = told \cup Work(hand[s].archive)
    /\ hand' = [hand EXCEPT ![s] = NoHand]
    /\ UNCHANGED <<processVars, fresh, source, windowVars, ending, saveVars, checked, listed, offered>>

\* StartCopyPlan restores the parked removals into the new plan, which refuses
\* one whose destination is taken.
Restorable(a) ==
    /\ Apart(a.removals)
    /\ \A i \in a.removals, k \in a.plan : i # k /\ Key[i] # Key[k]

\* The plan becomes the window's, or the first queued job starts.
Adopts(w, a) ==
    /\ session' = session \cup {w}
    /\ IF a.plan \cup a.removals # {}
       THEN /\ at' = [at EXCEPT ![w] = [i \in Item |->
                        IF i \in a.plan THEN "Pending"
                        ELSE IF i \in a.removals THEN "Copied" ELSE "Out"]]
            /\ jobs' = [jobs EXCEPT ![w].queued = a.queued]
            /\ live' = live \cup {w}
       ELSE /\ \E j \in a.queued :
                 jobs' = [jobs EXCEPT ![w].planning = {j}, ![w].queued = a.queued \ {j}]
            /\ UNCHANGED <<at, live>>

Resume(w) == LET s == <<w, "Recovery">> IN
    /\ up /\ Free /\ hand[s].phase = "Asking" /\ w \notin ending
    /\ Idle(w) /\ Restorable(hand[s].archive)
    /\ Adopts(w, hand[s].archive)
    /\ name' = [name EXCEPT ![w] = hand[s].path]
    /\ hand' = [hand EXCEPT ![s].phase = "Adopted"]
    /\ UNCHANGED <<processVars, fresh, source, disk, ending, saveVars, checked, listed, offered, told>>

\* ... and only then the file goes.
Retire(w) == LET s == <<w, "Recovery">> IN
    /\ up /\ hand[s].phase = "Adopted"
    /\ disk' = [disk EXCEPT ![hand[s].path] = NoFile]
    /\ hand' = [hand EXCEPT ![s] = NoHand]
    /\ checked' = checked \cup {w}
    /\ UNCHANGED <<processVars, fresh, source, windowVars, ending, saveVars, listed, offered, told>>

\* The end of LoadQueueFromAsync: the queued jobs are added before the plan is
\* started, and stay without a session when it is refused.
LoadQueue(w) == LET s == <<w, "Queue">> IN
    /\ up /\ Free /\ hand[s].phase = "Ready"
    /\ hand' = [hand EXCEPT ![s] = NoHand]
    /\ IF Idle(w) /\ HasWork(hand[s].archive)
       THEN IF Restorable(hand[s].archive)
            THEN Adopts(w, hand[s].archive)
            ELSE /\ jobs' = [jobs EXCEPT ![w].queued = hand[s].archive.queued]
                 /\ UNCHANGED <<at, session, live>>
       ELSE UNCHANGED planVars
    /\ UNCHANGED <<processVars, fresh, source, disk, name, ending, saveVars, checked, listed,
                   offered, told>>
-----------------------------------------------------------------------------
Transfers(w) ==
    \/ \E j \in Job : Submit(w, j) \/ Published(w, j) \/ Planned(w, j)
    \/ \E i \in Item : WorkOn(w, i)
    \/ TakesDeferred(w) \/ NextSession(w)

Saves(s) ==
    \/ ReadRemovals(s) \/ ExportPlan(s) \/ RetireEmpty(s)
    \/ OpenStaging(s) \/ WriteStaging(s) \/ FlushStaging(s) \/ RenameStaged(s) \/ SaveFails(s)

Loads(s) == LoadFinds(s) \/ LoadRejects(s)

Offers(w) ==
    \/ Offer(w) \/ Ask(w) \/ GiveBack(w) \/ Discard(w) \/ Resume(w) \/ Retire(w)
    \/ PickQueue(w) \/ LoadQueue(w)

Next ==
    \/ \E w \in Window : Transfers(w) \/ EndSession(w) \/ SaveQueue(w) \/ Offers(w)
    \/ \E s \in Saver : Saves(s) \/ Loads(s)
    \/ \E i \in Item : SourceVanishes(i)
    \/ Dies \/ Boots

Spec == Init /\ [][Next]_vars
-----------------------------------------------------------------------------
TypeOK ==
    /\ up \in BOOLEAN /\ boot \in Boot
    /\ fresh \subseteq Job /\ source \subseteq Item
    /\ disk \in [Path -> File] /\ staged \in [Saver \cup Path -> File]
    /\ at \in [Window -> [Item -> State]]
    /\ jobs \in [Window -> [planning : SUBSET Job, deferred : SUBSET Job, queued : SUBSET Job]]
    /\ live \subseteq session /\ session \subseteq Window
    /\ ending \subseteq Window /\ checked \subseteq Window
    /\ name \in [Window -> Session]
    /\ listed \in BOOLEAN /\ offered \in Seq(Session)
    /\ told \subseteq Item

\* Whatever else is saved meanwhile, to the same file too, and wherever a save
\* fails or the process dies, a path that a later process reads holds a whole
\* archive or none, and what a save is about to put there is its own archive,
\* whole: no other save has emptied, overwritten, renamed or removed its staging
\* file (docs/ENGINEERING_RULES.md:184, 319).
WholeArchives ==
    /\ \A p \in Path : disk[p].kind \in {"None", "Whole"}
    /\ \A s \in Saver : saver[s].phase = "Rename" =>
          staged[TempFor(s)] = [kind |-> "Whole", archive |-> saver[s].archive]

\* The archive that a save writes has every item that was in the plan when the
\* save began and is not settled since, however the workers move it between the
\* two calls that read the plan.  The exception is counted by Forgets: an item
\* that was still to be copied when the parked removals were read, and had parked
\* its own when the plan was exported, is in neither; its copy is complete, but
\* that its source was to go is forgotten.
SavedCovers ==
    \A s \in Saver : saver[s].phase \in {"Open", "Write", "Flush", "Rename"} =>
        saver[s].owed \subseteq saver[s].archive.plan \cup saver[s].archive.removals

\* Until Windows begins to shut down a recovery file is with one window or on
\* offer once, never both: its work is not started by two windows.
AdoptedOnce ==
    up /\ ending = {} =>
        LET taken == [w \in Window |-> hand[<<w, "Recovery">>].path] IN
        /\ IsInjective(offered)
        /\ \A w \in Window : {taken[w], name[w]} \cap ToSet(offered) = {}
        /\ \A v, w \in Window : v # w =>
              /\ name[v] # name[w]
              /\ taken[v] # None => taken[v] \notin {taken[w], name[w]}

\* Where the work of a recovery file may have gone.
Known == told \cup UNION {Held(w) \cup Contents(jobs[w].planning \cup jobs[w].deferred
                                                  \cup jobs[w].queued) : w \in Window}

\* A recovery file whose sources are all there and whose destinations differ
\* leaves the disk only when its work is with a window, or the person discarded
\* it: no check on the way to the Resume dialog drops it.
IntactArchiveSurvives ==
    [][\A p \in Session :
         LET a == disk[p].archive IN
         disk'[p] # disk[p] /\ Work(a) \subseteq source /\ Apart(Work(a))
            => Work(a) \subseteq Known' \cup Work(disk'[p].archive)]_vars
=============================================================================
