----------------------------- MODULE JobPlanner -----------------------------
(***************************************************************************)
(* JobPlanner::build(): from the sources of a job to the directories and   *)
(* files of its plan.  The planner checks the job, takes the sources in    *)
(* order and walks each folder with a stack of its own.  Collisions, the   *)
(* limit and cancellation end the whole job; what cannot be read below a   *)
(* source is recorded and the rest is planned.                             *)
(*                                                                         *)
(* What is abstracted.  A path is the sequence of its names, the volume    *)
(* first; a key is a path whose names are folded where their directory     *)
(* ignores case.  A directory keeps the case policy of the one above it    *)
(* unless it is case sensitive itself.  The tree does not change during    *)
(* the walk, but any folder may fail to open and any enumeration may break *)
(* off, as they do when something is moved or denied meanwhile.  Sizes are *)
(* left out: that one cannot be read or added up is a choice.              *)
(***************************************************************************)
EXTENDS Naturals, Sequences, SequencesExt

CONSTANTS
    Name,        \* the names in paths
    Fold,        \* name -> what it is where case is ignored
    Sensitive,   \* the directories that are case sensitive, with all below
    Jobs,        \* the jobs: sources, destination and layout
    Trees,       \* the file systems: path -> what is there
    MaxEntries,  \* kMaxPlannedEntries
    None

Path == Seq(Name)

\* A folder that is being enumerated.
Enumeration ==
    LET entry == [source : Path, destination : Path] IN
    [folder : entry, left : SUBSET Path, subs : Seq(entry)]

ASSUME PlannerAssumption ==
    /\ Fold \in [Name -> Name]
    /\ MaxEntries \in Nat
    /\ None \notin Enumeration
    /\ \A j \in Jobs : /\ j.sources \in Seq(Path) /\ j.destination \in Path
                       /\ j.layout \in {"PreserveSourceFolder", "ContentsOnly"}
                       /\ j.destination # <<>>
                       /\ \A i \in DOMAIN j.sources : j.sources[i] # <<>>
    /\ \A t \in Trees :
          /\ DOMAIN t \subseteq Path
          /\ t \in [DOMAIN t -> {"File", "Directory", "Surrogate", "Device"}]
          \* What lies between two entries is there and is no file.
          /\ \A d, p \in DOMAIN t : \A n \in Len(d)..(Len(p) - 1) :
                IsPrefix(d, p) => SubSeq(p, 1, n) \in DOMAIN t /\ t[SubSeq(p, 1, n)] # "File"

VARIABLES
    job,      \* the job
    tree,     \* what the file system holds
    at,       \* the source to be taken next; 0 before the job is checked
    stack,    \* pending_directories
    reading,  \* the folder being enumerated, what is left of it, its subfolders
    roots,    \* preserved_roots
    outputs,  \* OutputRegistry: the keys of files_ and directories_
    plan,     \* the plan
    outcome   \* "Planning", "Planned", "Thrown" or "Cancelled"

vars == <<job, tree, at, stack, reading, roots, outputs, plan, outcome>>
-----------------------------------------------------------------------------
(***************************************************************************)
(* Keys and names.                                                         *)
(***************************************************************************)
IsSensitive(d) == \E s \in Sensitive : IsPrefix(s, d)

Folded(n, d) == IF IsSensitive(d) THEN n ELSE Fold[n]

\* PathKeyFactory::make(): the name at n belongs to the directory above it.
Key(p) == [n \in 1..Len(p) |-> Folded(p[n], SubSeq(p, 1, n - 1))]

\* DestinationCatalog::validate()
Inside(p, source) == IsPrefix(Key(source), Key(p))

\* name_collides(): another source of the job has this name.
NameCollides(i) ==
    \E k \in DOMAIN job.sources \ {i} :
       Folded(Last(job.sources[k]), job.destination)
          = Folded(Last(job.sources[i]), job.destination)

\* destination_root_for()
RootFor(i) ==
    LET s == job.sources[i] IN
    IF job.layout = "ContentsOnly" /\ tree[s] = "Directory" THEN job.destination
    ELSE IF job.layout = "PreserveSourceFolder" /\ tree[s] = "File"
              /\ NameCollides(i) /\ Len(s) > 2
    THEN job.destination \o SubSeq(s, Len(s) - 1, Len(s))
    ELSE Append(job.destination, Last(s))
-----------------------------------------------------------------------------
(***************************************************************************)
(* OutputRegistry                                                          *)
(***************************************************************************)
\* What the loop of add_directory() visits: the path and its ancestors, up to
\* and with the first one that is known.
Climbed(k, known) ==
    {SubSeq(k, 1, n) : n \in {m \in 1..Len(k) :
                                \A l \in (m + 1)..Len(k) : SubSeq(k, 1, l) \notin known}}

DirectoryCollides(k) == Climbed(k, outputs.directories) \cap outputs.files # {}

\* Mutant: a file is only compared with files.
FileCollidesWithFiles(k) == k \in outputs.files

FileCollides(k) ==
    \/ DirectoryCollides(Front(k))
    \/ k \in outputs.directories
    \/ k \in outputs.files

AddDirectory(k) ==
    outputs' = [outputs EXCEPT !.directories = @ \cup Climbed(k, @)]

AddFile(k) ==
    outputs' = [files |-> outputs.files \cup {k},
                directories |-> outputs.directories
                                   \cup Climbed(Front(k), outputs.directories)]

\* ensure_plan_capacity()
Full == Len(plan.directories) + Len(plan.files) >= MaxEntries

Throws ==
    /\ outcome' = "Thrown"
    /\ UNCHANGED <<job, tree, at, stack, reading, roots, outputs, plan>>

PlansFile(e) ==
    /\ AddFile(Key(e.destination))
    /\ plan' = [plan EXCEPT !.files = Append(@, e)]

PlansDirectory(e, mirrored) ==
    /\ AddDirectory(Key(e.destination))
    /\ plan' = [plan EXCEPT !.directories =
                   Append(@, [source |-> mirrored, destination |-> e.destination])]

\* record_failure()
RecordFailure(e) ==
    IF Len(plan.failures) >= MaxEntries
    THEN outcome' = "Thrown" /\ UNCHANGED plan
    ELSE plan' = [plan EXCEPT !.failures = Append(@, e)] /\ UNCHANGED outcome
-----------------------------------------------------------------------------
(***************************************************************************)
(* build()                                                                 *)
(***************************************************************************)
Planning == outcome = "Planning"

\* The checks of the job as a whole.
Validates ==
    /\ Planning /\ at = 0
    /\ IF \/ \E i \in DOMAIN job.sources : Inside(job.destination, job.sources[i])
          \/ \E i, k \in DOMAIN job.sources :
                i # k /\ Key(job.sources[i]) = Key(job.sources[k])
       THEN Throws
       ELSE at' = 1 /\ UNCHANGED <<job, tree, stack, reading, roots, outputs, plan, outcome>>

BetweenSources == Planning /\ at > 0 /\ stack = <<>> /\ reading = None

Preserves == job.layout = "PreserveSourceFolder"

\* Why a source ends the job.
Refused(s, key) ==
    \/ tree[s] \in {"Surrogate", "Device"}
    \/ Preserves /\ key \in roots
    \/ Full
    \/ IF tree[s] = "File" THEN FileCollides(key) ELSE DirectoryCollides(key)

\* One source: a file is planned, a folder is planned and walked.
TakesSource ==
    /\ BetweenSources /\ at <= Len(job.sources)
    /\ LET s == job.sources[at] IN
       IF s \notin DOMAIN tree THEN Throws
       ELSE LET e == [source |-> s, destination |-> RootFor(at)] IN
            IF Refused(s, Key(e.destination)) THEN Throws
            ELSE /\ at' = at + 1
                 /\ roots' = IF Preserves THEN roots \cup {Key(e.destination)} ELSE roots
                 /\ IF tree[s] = "File"
                    THEN PlansFile(e) /\ UNCHANGED stack
                    ELSE /\ PlansDirectory(e, IF Preserves THEN s ELSE None)
                         /\ stack' = <<e>>
                 /\ UNCHANGED <<job, tree, reading, outcome>>

\* The size of a file cannot be read, or the sum of the sizes does not fit.
SizeFails ==
    /\ Planning
    /\ \/ BetweenSources /\ at <= Len(job.sources)
          /\ job.sources[at] \in DOMAIN tree /\ tree[job.sources[at]] = "File"
       \/ reading # None /\ \E p \in reading.left : tree[p] = "File"
    /\ Throws

Children(d) ==
    {p \in DOMAIN tree : Len(p) = Len(d) + 1 /\ IsPrefix(d, p)}

BetweenFolders == Planning /\ reading = None /\ stack # <<>>

\* The folder on top of the stack is pinned and its enumeration begins.
OpensFolder ==
    /\ BetweenFolders
    /\ reading' = [folder |-> Last(stack), left |-> Children(Last(stack).source),
                   subs |-> <<>>]
    /\ stack' = Front(stack)
    /\ UNCHANGED <<job, tree, at, roots, outputs, plan, outcome>>

\* It cannot be pinned or enumerated: without the source itself there is
\* nothing to copy, any other folder is recorded.
CannotOpen ==
    /\ BetweenFolders
    /\ IF Last(stack).source = job.sources[at - 1] THEN Throws
       ELSE /\ RecordFailure(Last(stack))
            /\ stack' = Front(stack)
            /\ UNCHANGED <<job, tree, at, reading, roots, outputs>>

Below(p) == [source |-> p, destination |-> Append(reading.folder.destination, Last(p))]

Passes(p, subs) ==
    reading' = [reading EXCEPT !.left = @ \ {p}, !.subs = subs]

EntryFrame == UNCHANGED <<job, tree, at, stack, roots>>

\* A subfolder is planned and kept for later.
TakesFolder(p) ==
    /\ tree[p] = "Directory"
    /\ LET e == Below(p) IN
       IF Full \/ DirectoryCollides(Key(e.destination)) THEN Throws
       ELSE /\ PlansDirectory(e, p)
            /\ Passes(p, Append(reading.subs, e))
            /\ EntryFrame /\ UNCHANGED outcome

TakesFile(p) ==
    /\ tree[p] = "File"
    /\ LET e == Below(p) IN
       IF Full \/ FileCollides(Key(e.destination)) THEN Throws
       ELSE /\ PlansFile(e)
            /\ Passes(p, reading.subs)
            /\ EntryFrame /\ UNCHANGED outcome

\* A junction or symbolic link, a device, a folder that cannot be inspected.
SkipsEntry(p) ==
    /\ tree[p] # "File"
    /\ RecordFailure(Below(p))
    /\ Passes(p, reading.subs)
    /\ EntryFrame /\ UNCHANGED outputs

TakesEntry ==
    /\ Planning /\ reading # None
    /\ \E p \in reading.left : TakesFolder(p) \/ TakesFile(p) \/ SkipsEntry(p)

\* Mutant: the subfolders of a folder that breaks off are forgotten.
SubfoldersLost == UNCHANGED stack

\* The subfolders, the first one on top.
PushesSubfolders == stack' = stack \o Reverse(reading.subs)

LeavesFolder ==
    /\ Planning /\ reading # None /\ reading.left = {}
    /\ PushesSubfolders
    /\ reading' = None
    /\ UNCHANGED <<job, tree, at, roots, outputs, plan, outcome>>

\* The enumeration ends part-way.
BreaksOff ==
    /\ Planning /\ reading # None
    /\ PushesSubfolders
    /\ RecordFailure(reading.folder)
    /\ reading' = None
    /\ UNCHANGED <<job, tree, at, roots, outputs>>

Cancelled ==
    /\ Planning
    /\ outcome' = "Cancelled"
    /\ UNCHANGED <<job, tree, at, stack, reading, roots, outputs, plan>>

Finishes ==
    /\ BetweenSources /\ at > Len(job.sources)
    /\ outcome' = "Planned"
    /\ UNCHANGED <<job, tree, at, stack, reading, roots, outputs, plan>>

Init ==
    /\ job \in Jobs
    /\ tree \in Trees
    /\ at = 0
    /\ stack = <<>>
    /\ reading = None
    /\ roots = {}
    /\ outputs = [files |-> {}, directories |-> {}]
    /\ plan = [directories |-> <<>>, files |-> <<>>, failures |-> <<>>]
    /\ outcome = "Planning"

Next ==
    \/ Validates \/ TakesSource \/ SizeFails \/ OpensFolder \/ CannotOpen
    \/ TakesEntry \/ LeavesFolder \/ BreaksOff \/ Cancelled \/ Finishes

Spec == Init /\ [][Next]_vars
-----------------------------------------------------------------------------
FileKey(i) == Key(plan.files[i].destination)
DirectoryKey(i) == Key(plan.directories[i].destination)

\* No two files of a plan have the same destination, and none has the
\* destination of a folder of the plan or of anything above one or above
\* another file, whatever the sources hold and however their names are written:
\* a file is never written over what another entry has put there.
DestinationsDistinct ==
    \A i \in DOMAIN plan.files :
       /\ \A k \in DOMAIN plan.files : i # k => ~IsPrefix(FileKey(i), FileKey(k))
       /\ \A k \in DOMAIN plan.directories : ~IsPrefix(FileKey(i), DirectoryKey(k))

\* The entry at p, of the source i, is in the plan.
PlannedFrom(i, p) ==
    LET to == RootFor(i) \o SubSeq(p, Len(job.sources[i]) + 1, Len(p)) IN
    IF tree[p] = "File"
    THEN [source |-> p, destination |-> to] \in ToSet(plan.files)
    ELSE [destination |-> to, source |-> IF Preserves \/ p # job.sources[i] THEN p ELSE None]
            \in ToSet(plan.directories)

FailedAbove(i, p) ==
    \E n \in Len(job.sources[i])..Len(p) :
       \E k \in DOMAIN plan.failures : plan.failures[k].source = SubSeq(p, 1, n)

\* When a plan is handed out, every file and folder of the sources is in it or
\* below something recorded as failed, and what is no file or folder is
\* recorded: nothing is left out of a copy in silence, and a move never takes a
\* part of a folder for the whole.
NothingOverlooked ==
    outcome = "Planned" =>
       \A i \in DOMAIN job.sources : \A p \in DOMAIN tree :
          IsPrefix(job.sources[i], p) =>
             \/ tree[p] \in {"File", "Directory"} /\ PlannedFrom(i, p)
             \/ FailedAbove(i, p)
=============================================================================
