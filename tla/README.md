# VelocityCopy: models, checks and proofs

VelocityCopy copies and moves files for Explorer on Windows: a WinUI process whose
windows each run one transfer after another, a core library that plans and executes
a transfer with several worker threads, and a shell extension that sends requests.
This directory models the part of it in which the order of steps decides whether
files are lost, copied twice or removed too early: how a request reaches the process,
how it is routed to a window and planned, the live plan, its control block and its
executor, the window that owns the session, the list that edits its queue, and the
archives that survive a shutdown. `PROJECT.json` maps every definition to the lines it
models.

## 1. The system

Paths are relative to `src/src/`. *Hard* is what several threads, interruptions or
bounds make difficult.

| Component | State | Operations | Hard | Correct when |
|---|---|---|---|---|
| **LiveCopyPlan** `core/live_copy_plan.cpp` | pending deque, active, parked and retained items, reserved destinations, high-water marks, attempts, counters; one mutex | append, acquire, release, redirect, park, unpark, retry, restore, resolve, reorder, remove, fail under a folder, record bytes | workers, window, append and recovery call it in any order; integer widths; exceptions | each item in one place; a destination has one owner; counters are exact and never rewind; attempts never restart |
| **ExecutionControl** `core/execution_control.cpp` | directive, set of skips and its atomic flag, mutex, condition | pause, resume, stop, cancel, skip, two waits | lost wake-ups, flag outside the mutex, late requests | no waiter misses an end; an end is final; nothing leaves a wait during a pause |
| **JobExecutor** `core/job_executor.cpp`, **CopyEngine**, **SourceRemovalRecovery** | workers and what each holds, first error, options of the session | execute: repeat removals, make directories, fan out, copy, conflict, park, skip, remove sources, clean up | a stop, pause, skip or conflict at every point of a copy; other programs change files; sources removed sessions later | results say what happened to the files; no source is lost; no leftovers; no unrequested overwrite; sessions end |
| **Transfer window** `ui/VelocityCopy.UI/MainWindow.{Execution,CopyAppend,Conflict,Queue,Tray}.cpp` | interrupted state, stop and cancel flags, plan, control, append gate, four queues of jobs, pending resume, dialog | start, append, stop, cancel, close, resume, answer, finish, finalize, start the next | UI thread, copy thread, planner and dispatcher queue; messages arrive after the state they speak of; an 8 s limit | no accepted job is lost or duplicated; gates count exactly; cancel wins over stop; nothing queued is left behind |
| **JobPlanningWorker** `core/job_planning_worker.cpp` | requests, the active one, its stop source | enqueue, cancel_pending, run | cancelled callbacks run outside the lock | every reservation is given back |
| **JobPlanner** `core/job_planner.cpp`, path keys, destination catalogue | registry of outputs, stack of folders | build a plan from a job | collisions across sources and case policies, folders that do not open, enumerations that break off | no two entries meet at a destination; nothing is left out in silence |
| **Queue list** `MainWindow.Queue.cpp` | page, last snapshot, rows, selection, drag | refresh, page, select, move, remove, drag | the queue changes between what is shown and what is done; ids start again with the next plan | rows are the snapshot; an edit reaches only what is shown |
| **App admission and routing** `App.xaml.cpp`, `core/transfer_router.cpp`, `core/shell_session.cpp` | windows, pending requests, the one in flight, replay cache, preferences | admit, resolve storage, route, ask, deliver | answers to dialogs come late; a 4 s limit; a cache of 4096 ids | a request is admitted once; its job reaches one window of its kind |
| **Shell IPC and its senders** `core/ipc_transport.cpp`, `ipc_protocol.cpp`, `core/explorer_paste.cpp`, `shell/drop_handler.cpp`, `core/process_activation.cpp` | one pipe instance, stop event | send, receive and acknowledge, fall back | timeouts, uncertain delivery, restarts | one engine carries a gesture out; replies are true |
| **QueueArchive, recovery** `core/queue_archive.cpp`, `core/live_copy_plan_export.cpp`, `MainWindow.{QueuePersistence,Recovery}.cpp` | archive files, list of recovery files | save, load, offer, restore, retire | crash during a save, concurrent saves, workers beside a save, two windows | archives are whole and cover what was there; one window adopts a file; intact work is not dropped |
| **Progress, mailbox** `core/ui_snapshot.cpp`, `UiSnapshotMailbox.h` | one slot, highest sequence | publish, consume, discard | snapshots out of order | the UI never goes back in time and sees the last |
| **EfficiencyCoordinator** | votes per window | update, remove, shut down | a window that is gone still votes | efficiency mode only when all agree |
| **DestinationPathGuard**, elevation, destination space, storage profile | handles, hand-over file | pin or create a folder chain, probe | paths replaced between check and use | nothing is written outside the chosen folder |
| Diagnostics, catalogue, activation, shell extension, telemetry, about | – | operating-system I/O and presentation | – | not modelled |

Interactions: Explorer → IPC → App admission → router → a window; the window plans
a job (JobPlanner) on its copy thread, publishes the plan to the UI thread and executes it;
appends go through the planning worker and are committed to the plan under the
*append gate*; workers, queue list and dialogs share the plan; the window drives the
workers through the control; results come back as dispatcher messages. When Windows
shuts down a window writes what is left as an archive, which the next process offers.

The hazards of this code, each at its line and with the properties that cover it,
are in `PROJECT.json`.

## 2. Modules

```
ShellAdmission ─► ShellAdmissionProofs        (Explorer, pipe, admission)
TransferRouting ─► TransferRoutingProofs      (App, router, windows from outside)

JobPlanner ──────────────────┐                (a job becomes a plan)
                             ├─► CoreProofs
Directive ─► ExecutionControl┘                (requests and waits of a session)
    │
    ├──► JobExecutor ── implements ──► ItemLifecycle ◄── implements ── LiveCopyPlan ─► LiveCopyPlanProofs
    │         └─► JobExecutorProofs
    └──► TransferWindow ─► TransferWindowProofs   (one window from inside)

QueueList ─► QueueListProofs                 (the queue on the screen)
QueueRecovery ─► QueueRecoveryProofs         (archives, shutdown, crash, restart)
```

An `MC…` module gives a module's constants their values where a `.cfg` cannot.
CoreProofs holds the proofs of two modules that know nothing of each other; that is why
the definitions of ExecutionControl are called `ControlInit`, `ControlNext` and so on.

* **ItemLifecycle** is the abstract specification: what `is_valid_item_transition()`
  and its comments promise of one item. `Copied` is a parked item whose copy is
  complete and that only waits for its source to be removed; it must never become
  transfer work again.
* **LiveCopyPlan** has one action for each critical section of `mutex_`. The order
  of the pending deque is kept. A destination is its path key; `fate` is a history
  variable. A call that returns false or is refused is a stutter. Integer widths are
  constants (`MaxId`, `MaxU64`, `MaxAttempt`), so the overflow tests of `append()`
  and the wrap-around of ids happen in small instances.
* **Directive** is what the four requests make of the directive (they are shared by
  the next three modules). **ExecutionControl** goes down to mutex and condition
  variable: testing a predicate and falling asleep is one step, as the mutex makes
  it; notifying is another one, after the mutex is free; wake-ups may be spurious.
* **JobExecutor** is the session thread, the workers, `CopyFile2` seen through
  `CopyEngine`, and the files. It uses the plan through ItemLifecycle's contract:
  `acquire_next()` hands out *any* pending item, since the window may reorder the
  queue at any time, so results hold for every order. Blocking on a paused control
  is a guard; that this is what the waits amount to is what ExecutionControl shows.
  A worker's steps lie between its reads of the control and its calls on the plan,
  so that every interleaving of those is explored. The window's part is the requests
  it can make at that moment and the options with which it starts the next session.
* **TransferWindow** is one window. A UI handler is one action, except the two
  finalizers that read the plan before they lock the gate (`finalizing` is the point
  between). The copy thread, the planner's callback and the dispatcher queue are
  separate actors. A job stands for one item; a plan is named by the job it was
  built for. `JobExecutor::execute()` appears by what JobExecutor shows of it: items
  are done or parked one by one, a success found nothing left to take, a conflict
  leaves its item unresolved. The constant `Occurs` chooses which circumstances
  exist in an instance. The planned directories of a session are in JobExecutor
  (`Folder`) and left out here; repeated source removals likewise. `astray` is a history
  variable: the jobs that a step of the code has gone past (`Loses`, section 3).
* **TransferRouting** is the application around its windows: the requests admitted, the
  one in flight (`route`: resolving devices, asking, or its question withdrawn), the
  remembered answers, and every window as the router and the efficiency coordinator see
  it. An action is the code between two awaits. The windows end, stop, close, hide and
  start what waits behind them between any two of those.
* **ShellAdmission** is the pipe with its senders (the paste worker, the drop handler, a
  second process), its one instance and thread, and the UI thread that admits. Deadlines
  are abstract: one may strike at any step, but the server's wait of 4 s outlasts every
  sender's (`WaitIsOver` compares the constants of the code). `admitted` and `native`
  are history variables: who carried the gesture out.
* **JobPlanner** is `JobPlanner::build()` in its own steps: validation, one source after
  the other, a stack of folders, one enumeration at a time. The registry of outputs is
  the code's, climbing to parents included. A tree is a set of entries; whether a folder
  opens, an entry has a size or an enumeration breaks off is chosen as it goes. `Fold`
  and `Sensitive` give the case policy of each folder.
* **QueueList** is the list of pending files in the details of a window: the page, the
  snapshot it was rendered from, the rows of the `ListView` and how `RefreshQueue()`
  brings them up to date, the selection and drag reorder. The rows and the snapshot are
  separate variables, as in the code, so that they can differ. `previewed` is a history
  variable: all that the list was given so far is the preview of a plan being built.
* **QueueRecovery** is the life of an archive: `WM_ENDSESSION` and "save queue" capture the
  plan, read it in two calls beside the workers, create a staging file, write, flush and
  rename it, each a step of its own; a crash may fall between any two and tears what was
  not flushed, any of them may fail, and another save of the same file may run beside it.
  Items leave a plan moved (the source is gone) or copied, skipped or failed (it stays).
  The next process lists recovery files; windows take, check, offer, adopt, give back or
  retire them. `owed` in a save is a history variable: what its archive must have.

How the modules fit. TransferRouting's windows are abstractions of TransferWindow,
TransferWindow uses JobExecutor's outcomes, JobExecutor uses the plan through
ItemLifecycle, which LiveCopyPlan is shown to implement; QueueList and QueueRecovery use
the calls of LiveCopyPlan they make. Only the two steps to ItemLifecycle are refinements
in the formal sense; elsewhere a module states in its head comment what it takes from
the other.

Correspondence in short: variable names are the members' names without the trailing
underscore where they differ at all, and every action has the name of its function
or of the branch it stands for; `vars` blocks group what one class owns. Definitions
under the comment `Mutant:` are not part of a specification: each is a plausible error
that a property must detect.

## 3. What the runs check

| Run | Instance | Properties | States |
|---|---|---|---|
| `plan` | 3 keys, 2 ids, sizes {0,2}, byte reports {1,3}, counters up to 4, 2 attempts, one directory | `Ledgers`, `Partition`, `ReservationsExact`, `ProgressNeverRewinds`, `AttemptsNeverReset`, `ImplementsLifecycle` | 291 k |
| `control` | 3 threads, 2 files | `NoLostWakeup`, `SkipsVisible`, `EndingIsFinal`, `PauseHolds`, `EndingWakes` | 27 k |
| `exec_move` | Move, 2 items, 2 workers, 2 sessions, one item changed by other programs, one without file identity | `HeldExactly`, `OutcomesTrue`, `SourceSafe`, `LifecycleKept` | 795 k |
| `exec_copy` | Copy onto an existing file, an append with a directory, all answers, 2 sessions | `NoLeftovers`, `ConflictOpen`, `ForeignKept`, `DirectoriesTried`, `SessionEnds` | 671 k |
| `window` | 3 jobs, one resume, all fourteen circumstances | `GatesSound`, `JobsExact`, `CancelOverStop` | 1.7 M |
| `window_ends` | 2 jobs, one resume, all fourteen circumstances | `SessionFinishes`, `ResumeHonoured` | 97 k |
| `recovery` | 2 windows, 2 jobs, 2 processes, two saves or loads by hand, one source that may vanish | `WholeArchives`, `SavedCovers`, `AdoptedOnce`, `IntactArchiveSurvives` | 1.2 M |
| `admission` | a paste, a drop, a second process; a cache of one id, one retry, two starts | `NotTwoEngines`, `AnswerTrue`, `PipeReleased` | 283 k |
| `routing` | 3 requests, two of one kind and two on one disk, 3 windows | `JoinsOwnKind`, `NothingAstray`, `ThrottledOnlyIdle`, `RequestsServed` | 690 k |
| `planner` | 7 jobs over every tree of up to 4 entries | `DestinationsDistinct`, `NothingOverlooked` | 88 k |
| `queue_list` | pages of 2, plans of up to 3 files, 2 plans | `ListShowsSnapshot`, `EditsHitWhatIsShown` | 646 k |
| `window_late` | 3 jobs, a planner that is too late | `NothingLost` (violated) | – |

Three invariants are conjunctions of named parts: `Ledgers` is `ResolutionLedger`,
`ResultLedger` and `IncidentMatchesAttempts`; `GatesSound` is `ReservationsCounted` and
`OpenGateHasOwner`; `JobsExact` is `NothingElseLost`, `NothingTwice` and `NoIdleWork`. The
`TypeOK` of a module is not a property of its run where a proof or another property
rests on it; TLC has found each of them to hold.

**Bounds.** Two items let one be in any state while another moves; three keys let a
redirect meet a name that is taken and one that is free. `plan` has as many ids as the
id space, so the last id, the wrap to 0 and the refused append occur. `MaxU64 = 4` with
sizes up to 2 and reports up to 3 makes the overflow refusals occur. `MaxAttempt` is
reached, so saturation occurs. `MaxFolders` bounds the directories of a plan;
`FailuresFit` and `FoldersFit` keep the recorded failures and directories inside the
counters. Two workers are the least that race for an item, and two sessions the least in
which a parked item, a conflict answer or a pending removal is taken up again.
`MaxAlternates = 1` stands for the 9999 names of a keep-both: one that succeeds and one
that finds none. `Touched` and `Appends` restrict which items other programs touch and
an append may bring. In the window three jobs are one that is executed, one that is
planned for it and one that waits (or two that are planned); two cannot have two appends
on their way. `MaxResumes = 1` bounds the answers that start a session again, so that
there are two sessions of one plan. `Occurs` is a bound in the same sense.
In `recovery` two processes are the least for a crash and what comes after it, two
windows the least that compete for a file, and `ByHand = 2` lets two windows save to one
file at once; `Fragile` bounds the sources that vanish. Guards bound it further: nobody
asks for a transfer, saves or picks a queue once Windows shuts down; queues are saved by
hand by the first process, one at a time for each window; and a shutdown is taken up only
where none was saved or loaded by hand before. The last keeps out
the window that loads what another has saved and still has, whose checkpoints would have
one item twice; the proof of `IntactArchiveSurvives` rests on it (`ByHandInv`,
`DeferredInv`). Two saves of a recovery file do not meet, as each window writes its own
and one thread writes them all. In `admission` each kind of sender occurs once, the
cache of one id is full after one request, and the process can start again, so that a
retry meets another process. In `routing` there is a window for each request;
`Remembers` restricts which answer may be kept, since a remembered one only removes
questions. In `planner` a tree has two levels of folders, names that differ only in
case, a junction and a device; `MaxEntries` is the limit of a plan, which is reached. In
`queue_list` a full page with one file beyond it, a shorter page and an empty one occur,
and ids are used again by the second plan.

**What `JobsExact` admits.** The runs `window` and `window_ends` have all circumstances. In
them four steps of the code go past a job that was accepted, and the model records which
one, at that step (`Loses`): the wait for the planner expires and the success it has
stands (`MainWindow.Execution.cpp:216-240`, finding 1); an append commits after a finalizer
has found the plan empty and before it locks the gate (`:1285`); a session ends as a
success or a failure although a stop was requested, and what was deferred for the stop
stays in `deferred_interrupted_jobs_` (`:760-990`); and the routing question is answered
with "wait" for a window that has become idle (`App.xaml.cpp:485`). `JobsExact` says that no
*other* job is lost, in any interleaving with these four, and that a window without a
session has nothing in any of its three queues but what they left there. The condition of
each is that of the code at the step that does it, not the outcome. `window_late` shows the
first of them against the document that leaves no room for it.

**What `ListShowsSnapshot` admits.** A preview stays in a plan that is published as long as
every refresh finds nothing pending (`StalePreview`), because `RefreshQueue()` compares
the queue with the last snapshot, which is empty as well, and returns early
(`MainWindow.Queue.cpp:184-196`). It is not what the comment at `:147-150` and
`docs/ENGINEERING_RULES.md:178` promise (section 5). It ends with the first file found and
with the first full rebuild; any other row that is not the snapshot's is a violation.

**What `SavedCovers` admits.** A save reads the parked removals first and what is left to copy
next (`MainWindow.QueuePersistence.cpp:61-62`, `:262-263`). An item that is still to be
copied at the first call and has parked its removal by the second is in neither part: its
copy is complete, its source stays, and that it was to go is forgotten. `Forgets` takes
exactly such an item, and one that leaves the plan, from what the save owes.

**Deadlock.** Checked in the runs of the plan and of the control. The executor stops
when its sessions are used up, the planner when it has its plan, a window, the router
and the archives when everything is settled, the processes are used up or the user does
not answer, and the senders when every gesture is done: `CHECK_DEADLOCK FALSE` there.

**Fairness.** ExecutionControl: a thread that can take its next step inside a call
takes it, and deadlines pass; nobody has to make a request and no spurious wake-up is
relied on. JobExecutor: the session thread and each worker run when they can, which
includes that `CopyFile2` keeps calling back or returns (it polls, see
`COPYFILE2_CALLBACK_POLL_CONTINUE` in `copy_engine.cpp`); nothing is assumed of the
window or of other programs, so `SessionEnds` excepts a session left paused.
TransferWindow: the copy thread runs and the UI thread takes its messages; the user
never has to answer. The planner may block in the file system for ever, hence it is
not in `Spec`; that it answers is the premise of `ResumeHonoured` only. The 8 s limit
is an enabled step of the waiting thread, never forced before its time otherwise.
ShellAdmission: each sender and the thread of the pipe run, as every wait of theirs has
a deadline; the UI thread does not have to. TransferRouting: the devices get resolved
and a question that is open is answered or dismissed; nothing is assumed of the windows.
QueueList, QueueRecovery and JobPlanner have no liveness. Symmetry is used only in runs
without liveness properties.

## 4. What is proved

`LiveCopyPlanProofs` proves, for every set of keys, sizes, batches and folders and
every id, counter and attempt width allowed by `PlanAssumption`:

* `Invariance`: `Spec => []IInv`;
* `TypeCorrect`, `NothingLost` (`Partition`), `DestinationsExclusive`
  (`ReservationsExact`), `IncidentsAgree` (`IncidentMatchesAttempts`);
* `LedgersBalance` (`Ledgers`: `ResolutionLedger`, `ResultLedger`, `HighWaterBounded`
  and the incidents) and `ProgressMovesForward`: `Spec => ProgressNeverRewinds`;
* `AttemptsKept`: `Spec => AttemptsNeverReset`;
* `PlanImplementsLifecycle`: LiveCopyPlan implements ItemLifecycle under the
  refinement mapping `StateOf`.

The invariant `IInv` is the conjunction of the types of the containers, the
partition, the reservations, `HighWaterBounded` and the incidents. None of them is
inductive by itself: a release keeps the queue free of duplicates only because the
released item was not queued (the partition); a redirect keeps reservations exclusive
only because reserved keys are exactly those of the holders; a settled item gives its
reservation back without touching another's only because holders have different
destinations; a parked item's incident agrees with the count of attempts only because
counts belong to live items, a type. The argument: lemmas about the sequence
operations of the queue (prepend, tail, permutation, concatenation, deletion); a lemma
for each *shape* of step (moving between containers, settling a set of items, bringing
in new ids) used by one lemma for each action; `NextIInv` puts the actions together.
The refinement goes through `View`, the lifecycle state read off disjoint containers,
and one case for each action that says which transition its items take. The only
assumption so far is `PlanAssumption`, which TLC evaluates in the run of the plan.

The ledgers are sums over sets of items. The prover has no induction over data as such,
but the library's theorems on well-founded relations give a smallest counterexample: if
some subset of a finite set had a wrong sum there would be one all of whose proper subsets
have the right one. That is how the section *Sums* of the module proves that the fold of
the library is a sum: any element may be taken first, disjoint sets add up, sums may be
renamed. The inductive invariant is then `Accounts`, next to `IInv`: each counter is the
sum, over the items with a certain fate, of their sizes, weights or marks. It must also
say that `totals.bytes` fits its width (`TotalsAccount`), without which a saturating
subtraction or a wrap would lose a part for good. One lemma for each way the sets change:
a mark moves (`RecordAccounts`), items are settled (`SettleAccounts`: what is credited on
resolution is what the mark had left open), removed (`RemoveAccounts`), brought in by a
batch or an archive (`EnterAccounts`). The second assumption, `BatchesFit`, says that the
bytes of a single batch fit the width of the total: the planner, the archive reader and
the export all check that (`job_planner.cpp:186`, `queue_archive.cpp:202`,
`live_copy_plan_export.cpp:24`) and the constructor does not check again.

`CoreProofs` proves of ExecutionControl, for any sets of threads and files, `ControlInvariance`
and from it `WakeupsKept` (`NoLostWakeup`), `SkipsSeen` (`SkipsVisible`), `EndsKept`
(`EndingIsFinal`) and `PausesHold` (`PauseHolds`). The invariant is the types with the
first two of these: a notifier that has given up the mutex, but has not yet called
`notify_all()`, is what makes the sleepers' part inductive. It needs no assumption.

`CoreProofs` proves of JobPlanner `DestinationsKeptApart` (`DestinationsDistinct`) for trees of
every depth, every case policy and every set of jobs allowed by `PlannerAssumption`. The
code never compares two entries: it asks the registry. So the invariant `PlannerInv` is
about the registry: it is *closed* (a folder is in it with all its parents), files and
folders are apart, and it holds the key of every entry planned so far. Closure is the
point: `add_directory()` climbs only as far as the first folder it knows and takes the
rest to be there, and `add_file()` looks at one level only. `AboveIsKnown` shows that
the climb leaves no gap, `ClosedGrows`, `AddingDirectory` and `AddingFile` that each
entry keeps the registry sound, and there is one lemma for each action.

It also proves `PlanOverlooksNothing` (`NothingOverlooked`), with any folder failing and
any enumeration breaking off. The invariant `CoverInv` follows the walk: every entry
below a source that was taken up is settled (planned, skipped, or below something that
is recorded as failed) or lies ahead, in an enumeration that is still open or below an
entry of one. Half of it is about the stack (`WayInv`: the open enumerations lead from
the source down, each into a folder of the one above), half about the sources taken
(`TakenInv`). That an entry ahead is reached through its parents needs one assumption
on trees: what lies between two entries is there and is no file.

`JobExecutorProofs` proves, for any number of items, workers, files and sources, each
safety property the two executor runs check: `ItemsAreHeld`
(`HeldExactly`), `OutcomesAreTrue` (`OutcomesTrue`), `NothingIsLeftOver`
(`NoLeftovers`), `ConflictsStayOpen` (`ConflictOpen`), and the action properties
`SourcesAreSafe` (`SourceSafe`), `ForeignFilesAreKept` (`ForeignKept`),
`DirectoriesAreTried` (`DirectoriesTried`) and `LifecycleIsKept` (`LifecycleKept`: every
step of the executor is one the life cycle of each item allows). `OutcomesTrue` is not
inductive: it speaks of items whose work is over, and it holds because of what the
worker knew while it still worked. So `ExecutorInv` says for each place a worker can be
at what it relies on about its item's files (`FilesInv`), for each item that nobody
holds what its state says of its files (`ItemInv`), which items are held by whom
(`HeldInv`), what a thread carries (`ThreadInv`), and which file a dispute is about
(`DisputeInv`). A step of a worker is argued in two parts: what it does to its own item,
and that the items of the others are as before. `ForeignKept` is proved where no other
program puts a file in a place the executor has already looked at (`"TargetAppears"` is
not among what happens outside); with it the window between the look and the rename is
open in the code as well. The proof of `LifecycleKept` failed at first because the cases
of `InterruptedSessionState` overlapped and were resolved by whichever came first in
TLC; it is an IF chain now, in the order of the code.

`QueueRecoveryProofs` proves `ArchivesAreWhole` (`WholeArchives`),
`FilesAreAdoptedOnce` (`AdoptedOnce`), `IntactFilesSurvive` (`IntactArchiveSurvives`) and
`SavesCoverThePlan` (`SavedCovers`) for any number of windows, jobs, items and processes.
`RecoveryInv` is about whose a path is (its writer's, its taker's, or on offer, and never
of two of them), says that a path nobody has used has no file, and relates the archive a
window has in memory to the file it came from. `StagingInv` follows a save through its
steps: the staging file is empty after the first, holds the save's own archive, unflushed,
after the second, and flushed after the third, whatever others do, because its name is
the save's own; so what is renamed is whole. With one staging name for each archive, as
the mutant `TempBeside` has it, two saves of a file empty each other's. `OwedInv` says
that each item a save still owes is where its next read will find it, or is in a part
already read; it needs that a plan which is let go of has nothing left in it. For
`IntactArchiveSurvives` more is needed: a job that was deferred is nowhere else
(`DeferredInv`), so that the plan of a checkpoint and the jobs that join it have no item
in common; the archive a window has read is still the one on the disk (`ReadInv`), and
what it has adopted is with it before the file goes (`AdoptedInv`). The first of these
holds until a queue is saved or loaded by hand, which is where the bound of section 3
enters (`ByHandInv`).

`ShellAdmissionProofs` proves `OneEngineOnly` (`NotTwoEngines`) for any number of
requests, any kinds of them, any size of the replay cache and any number of attempts and
starts. The invariant `AdmissionInv` says where a request is: with its sender, in the
pipe, held by the thread of the pipe, in the dispatcher's queue (once), or carried out,
and in one of these only; that the thread works on the request of its client; and that
a *no* which its sender still reads (`NoIsFinal`) is the end of the request, so that
Explorer may carry it out itself. That part is why 4 s must exceed every sender's
timeout: `WaitsLonger` uses the deadlines of the code. The replay cache is not needed for
it: no sender tries again what may have been written.

It also proves `AnswersAreTrue` (`AnswerTrue`). An answer travels: it is decided by the
UI thread or by a deadline, kept in the replay cache, given to the thread of the pipe
and read by its sender, and each of these places can hold it after the others have
forgotten it. `Truth` says of each (`CacheTrue`, `ReplyTrue`, `ToldTrue`) that a yes is
about a request that was carried out and a no about one that never will be (`Gone`),
and both are stable.

`TransferRoutingProofs` proves `OwnKindOnly` (`JoinsOwnKind`), `EfficiencyOnlyIdle`
(`ThrottledOnlyIdle`) and `NoJobAstray` (`NothingAstray`) for any number of jobs and
windows, any kinds and any devices. The first two
speak of one window at a time, so the invariant is a predicate `Sound` on the state of a
window: well-formed, files of its own kind only, and a vote for the efficiency mode only
while it is hidden and does not copy. One lemma for each way the state of a window is
built (`StartedSound`, `EndedSound`, `ContinuedSound`, ...) and one for each action. What
the proof rests on: the plan compares the kind again when a job joins (`Fits`), because
the router's comparison may be old by then; and every change of what a vote depends on
casts it anew. `RouterTyped` is needed so that what is started is a job.

`NoJobAstray` is about the router and all windows together: a job that was admitted and is
not settled is in one place, once, and a settled one in none. Its invariant `PlacesInv`
says that the router and the windows hold sets of jobs with nothing in common, that none
holds a job twice, that an idle window holds nothing for a plan and a destroyed one nothing
at all (`Tidy`), and that the live jobs are those somebody holds. Nearly every action gives
one holder another set of jobs, so `WindowMoves` says once what follows for all the others.
Two things the handlers take for granted had to be proved: `AppendTransfer()` and
`EnqueueTransfer()` are reached with the job in flight only, which no window has, and a
window can always be created for it, as windows are created for jobs that leave the router
and so are fewer than the jobs (`WindowsLeft`). `RoutingAssumption` says that there are
finitely many jobs and that `None` is neither a job nor a request nor a choice.

`QueueListProofs` proves `RowsAreSnapshot` (`ListShowsSnapshot`) and `EditsReachTheShown`:
`Spec => EditsHitWhatIsShown`, for every size of page and any number of files and plans.
A hidden list, and one under a drag, may show anything; the invariant `ListInv` says what
makes up for that: at rest its rows match its snapshot, and the selection its rows, or a
full rebuild is asked for, and a list shown at rest asks for none. `PrefixCompleted` and
`RowsArePage` show that a list trimmed at the top and completed at the bottom is the new
page. The edits name files by their ids, so `QueueInv` adds to `ListInv` that no id stands
for two files among those that are pending or with a worker, and that the next id is above
all of them (`FilesInv`).

The edits are then a matter of what four operations on sequences do, for every length.
`WithoutLeaves`: the queue without some files is the others, each once, at the place that
counts how many of them there are up to it. `MovedUpOrders` computes where each file goes:
a chosen one one place up or, behind chosen files only, nowhere, any other one down past
the run of chosen files that follows it; hence neither the chosen nor the others overtake
each other. Moving down is moving up in the reversed queue (`Reversed`). `ReorderedPage`: a
drag replaces exactly the places of the page. `reorder_pending_page()` checks that each
file at those places is named in the order, never that each file named is at one of them;
that follows from the number of both by `Covers`, the pigeonhole principle from the
cardinalities of the library, and then no file is lost or doubled. `QueueStep` puts the actions together. `QueueListAssumption`
says that the page has a place, that there is something a file can be (`Data` is not empty)
and that the preview is not a file.

`TransferWindowProofs` proves `GatesAreSound` (`GatesSound`), `CancelPrevails`
(`CancelOverStop`), `NothingIsTwice` (`NothingTwice`) and `JobsAreKept` (`JobsExact`) for
any number of jobs, messages and answers; the first three whatever happens. None of them
is inductive. `WindowInv` says first what a session *is*: the window has more than ten
variables for it, and the handlers test now one of them, now another (`SessionInv`). Then
which gate is open, and for whom (`GateInv`): one that accepts is the window's present
one, and while the thread runs it accepts exactly until the session is cancelled, so that
the thread never takes "nothing is appended any more" from a gate that somebody else has
shut. Then what is under way in the dispatcher queue (`MessageInv`): a session posts one
publication and one result at most, the result last, and only after the thread has ended;
therefore `FinishCopy()` finds the plan its result is about. `Counted` follows the
reservations, `PlacesInv` keeps the containers apart, `FateInv` says that what waits in
them are the jobs that were accepted and have not begun. One lemma says for each action
that it keeps `WindowInv`, and a few more what the ways to end or to go on have in common
(`EndsKeeps`, `ItRetires`, `InterruptsWindow`, `ResumeKeeps`, `ThreadPostsKeeps`).

`JobsAreKept` needs more, `KeptInv`: a job that has begun and is not settled belongs to the
plan of the present session, or is astray; a finalizer under way has an empty plan, but
for what an append has brought since; a success that was posted leaves nothing pending,
and nothing parked it does not tell of, but for what the wait that expired has passed
over; whoever waits for the window has a session to wait for, but for those a stop or an
answer left behind. Each exception is a job the step in question has put in `astray`, and
the theorem holds in every circumstance. The only assumption is `WindowAssumption`: `None` is not a job.

**Only model-checked.** Every invariant and every action property of the passing runs is
stated by a theorem above, and so are both refinements. What stays with TLC is what a
recursive operator computes, in the modules only TLC reads, and all liveness:
`EndingWakes`, `SessionEnds`, `SessionFinishes`, `ResumeHonoured`, `RequestsServed` and
`PipeReleased` (fairness and ENABLED are outside the prover).

## 5. Findings

1. **`window_late`** (`MainWindow.Execution.cpp:230`). Two appends are on their way when
   the plan runs dry; one commits, the other is slow. When the wait of 8 s expires the
   loop leaves with the success it has and no longer looks at the plan: the files of
   the append that was in time are never copied, and the window reports completion.

Remarks without a run, met while modelling; each is in the models as the code does it.

* `append()` records planner failures after its commit point and copies paths there
  (`live_copy_plan.cpp:228`): if that throws it answers `InternalFailure` with its files
  already in the plan. A worker that runs out of memory leaves its item active at the end
  of its session (`job_executor.cpp:940`). Allocation failures are not modelled.
* Stop is pressed after the last item was taken; a job appended meanwhile is deferred for
  the stop, the session ends as a success, and the window goes with that job in it; or it
  ends as a failure, and the job stays in a window that does nothing
  (`MainWindow.Execution.cpp:760`). An append that commits between the two looks of a
  finalizer goes with the plan (`:1285`). Both are in the run `window`, recorded by
  `Loses`. Closing a window whose session has parked items hides
  it; its result enters the retry decision, whose dialog does not open in a closing
  window (`:737`).
* Declining the low-space question of one job drops the jobs deferred behind it (`:408`),
  whereas declining the elevation question keeps them. Skip of a conflict item that is no
  longer pending cancels the session (`MainWindow.Conflict.cpp:138`).
* The comment on `JobResult` (`job_executor.hpp:50-51`) says that success means no
  unresolved items, but a session with parked items reports success, and
  `tests/job_executor_item_failure_test.cpp:140` expects that.
* Routing. A question whose owner is destroyed drops the job it is about, as
  `DestroyCompletedWindow()` does not cancel the questions of the window, which
  `DecisionSurface.h:49-50` asks of callers. Cancelling a session withdraws the questions
  of its window, a router's about an unrelated job included
  (`MainWindow.Execution.cpp:558`). An answer "wait" for a window that has become idle
  queues the job there, and nothing starts it (`App.xaml.cpp:485`). After two stale
  answers a session is started without asking. A job at the planner for a gate that a
  conflict has closed is dropped without a message. A hidden window that is stopped votes
  for efficiency mode before what was deferred for the stop goes to its planner
  (`docs/SYSTEM_INTEGRATION.md:52-53`): `ThrottledOnlyIdle` speaks of visible, planning
  and copying windows only. If switching the apartment throws,
  `ResolveStorageKeysAsync()` returns with the request still in flight.
* Planner. A loose file that was given a name of its own can still meet a selected folder
  of that name; the whole job is refused then.
* Queue list. When Details is open while a plan is built and its workers take every file
  before the list is refreshed, each refresh finds "unchanged" and the preview rows stay
  in the published plan, against the comment at `MainWindow.Queue.cpp:147-150` ("until
  enumeration finishes") and `docs/ENGINEERING_RULES.md:178`, by which `queue_view` replaces
  the preview when planning finishes. The model has it (`StalePreview`). Rows of an ended plan stay selected in a collapsed list,
  and as ids start at 1 again the same ids of the next plan are selected when it is
  opened (`:206`, comment at `:309`).
* Archives. A queue that is loaded while its plan is refused leaves its queued jobs in a
  window without a session (`MainWindow.QueuePersistence.cpp:349`). A save misses an item
  that parks the removal of its source between `parked_source_removals()` and
  `export_remaining_plan()` (`:61-62`, `:262-263`); one that finishes or is skipped there
  or later is still in the archive if it was read before. Jobs that are being planned at
  a shutdown are in no archive: the checkpoint takes the plan, the deferred and the queued
  jobs only (`:56-81`). Nothing stops the workers after the checkpoint
  (`MainWindow.Tray.cpp:278-285`): they go on until the process ends, so that a Move may
  remove sources which the archive names; the next process finds one missing and retires
  the archive as a whole, with the items that are still to be moved
  (`MainWindow.Recovery.cpp:109`, `:129`). A source that cannot be read for a passing
  reason has the same effect. `IntactArchiveSurvives` speaks of neither: it is about
  archives whose sources are all there. An archive with a parked removal and an append
  for the same destination is refused as a whole when it is resumed.

## 6. Not modelled

`complete_active()` and `skip_active()` of the plan and `reset()` of the control are
called by tests only. Allocation failures are left out everywhere. Metadata, alternate
streams, share modes and buffer sizes are data of `CopyFile2`. A partial file that
cannot be removed, dispatchers that are gone, and windows destroyed with the process
are left out. The progress mailbox and rate smoothing (`UiSnapshotMailbox.h`,
`ui_snapshot.cpp`) are one critical section for each operation, with unit tests, and no
transfer depends on them. `DestinationPathGuard` pins handles against replacement by
reparse points, which is a matter of share modes of the operating system; it appears as
the pin of a folder being enumerated. Elevation's hand-over file, the arithmetic of free
space, device probes and the choice of worker count are pure functions or system calls.
The byte formats of frames and archives and their limits are parsers, tested with
malformed inputs. Diagnostics, localisation, telemetry and layout are presentation.

## 7. What could follow

1. **SourceRemoval**: the probes and pinned handles one by one against other programs,
   implementing the atomic check of JobExecutor.
2. A refinement from TransferWindow to the windows of TransferRouting.
3. **DestinationPathGuard** against a file system with reparse points.
