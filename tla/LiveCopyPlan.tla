---------------------------- MODULE LiveCopyPlan ----------------------------
(***************************************************************************)
(* The live plan of one transfer session: the mutex-protected object that  *)
(* the copy workers, the queue window, the append path and the recovery    *)
(* path share.  Every action below is one critical section of mutex_.      *)
(*                                                                         *)
(* What is abstracted.  A destination path is its PathKey, a member of     *)
(* Key; an hresult and the paths of an incident are left out; the order    *)
(* inside active_files_ and parked_files_, which only the views show, is   *)
(* left out (both are sets), while the order of pending_files_ is kept.    *)
(* A call that returns false, an append that is rejected and a call that   *)
(* throws before it changed anything are stuttering steps.                 *)
(***************************************************************************)
EXTENDS Naturals, Sequences, FiniteSets, FiniteSetsExt

CONSTANTS
    Key,         \* destination path keys
    Folder,      \* for each planned directory, the keys strictly inside it
    Size,        \* file sizes
    Chunk,       \* cumulative byte counts CopyFile2 may report
    Batch,       \* what the planner may hand over, to build or extend a plan
    MaxId,       \* numeric_limits<uint64_t>::max(), for file ids
    MaxU64,      \* the same limit, for byte and weight counters
    MaxAttempt,  \* numeric_limits<uint32_t>::max(), for attempt numbers
    MaxFolders   \* BOUND on the directories of one plan

ASSUME PlanAssumption ==
    /\ Size \subseteq Nat
    /\ Chunk \subseteq Nat
    /\ Folder \subseteq SUBSET Key
    /\ Batch \subseteq [files : Seq([dest : Key, size : Size]), failures : Nat,
                        directories : Nat, sameRoot : BOOLEAN,
                        sameOperation : BOOLEAN]
    /\ MaxId \in Nat \ {0}
    /\ MaxU64 \in Nat
    /\ MaxAttempt \in Nat \ {0}
    /\ MaxFolders \in Nat

VARIABLES
    file,          \* the PlannedFile of every id ever accepted
    pending,       \* pending_files_, as ids
    active,        \* active_files_
    parked,        \* parked_files_: id -> its incident
    reserved,      \* reserved_destination_keys_
    next,          \* next_file_id_, 0 when the ids are exhausted
    directories,   \* how many directories_ there are ...
    materialized,  \* ... and how many of them were created
    highWater,     \* high_water_
    attemptBytes,  \* attempt_bytes_
    attemptCount,  \* attempt_counts_
    counters,      \* counters_
    totals,        \* total, completed and largest bytes and files
    outcomes,      \* outcomes_
    retained,      \* retained_results_ of items of the plan
    unplanned,     \* how many retained_results_ are planning failures (id 0)
    fate           \* history: what became of each accepted id

queueVars    == <<file, pending, active, parked, reserved, next>>
folderVars   == <<directories, materialized>>
progressVars == <<highWater, attemptBytes, attemptCount>>
resultVars   == <<outcomes, retained, unplanned, fate>>
vars == <<queueVars, folderVars, progressVars, counters, totals, resultVars>>

Outcome == {"Succeeded", "Skipped", "Failed", "CopiedSourceRetained"}
RecoveryAction == {"RetryTransfer", "RetrySourceRemoval"}
Transferred == {"Succeeded", "CopiedSourceRetained"}
-----------------------------------------------------------------------------
Lesser(a, b)  == IF a <= b THEN a ELSE b
Greater(a, b) == IF a <= b THEN b ELSE a

\* A counter of the build's integer width.
Wrap(n) == n % (MaxU64 + 1)

\* Partial functions: the unordered maps of the class.
Put(f, x, v) == [y \in DOMAIN f \cup {x} |-> IF y = x THEN v ELSE f[y]]
Drop(f, S)   == Restrict(f, DOMAIN f \ S)

Weight(size) == Greater(size, 1)

\* The ids handed out when next_file_id_ is `first`.
IdsBefore(first) == IF first = 0 THEN 1..MaxId ELSE 1..(first - 1)

Issued == IdsBefore(next)
Queued == Range(pending)
Live   == Queued \cup active \cup DOMAIN parked

HighWaterOf(id) == IF id \in DOMAIN highWater THEN highWater[id] ELSE 0
AttemptOf(id) == IF id \in DOMAIN attemptCount THEN attemptCount[id] ELSE 1
BytesOf(S)  == MapThenSumSet(LAMBDA id : file[id].size, S)
WeightOf(S) == MapThenSumSet(LAMBDA id : Weight(file[id].size), S)

\* The increasing enumerations of the positions of `pending` whose id is not in
\* S: exactly one, the order that std::erase_if leaves.
Survivors(S) ==
    LET kept == {i \in DOMAIN pending : pending[i] \notin S}
    IN  {f \in [1..Cardinality(kept) -> kept] :
            /\ \A i, j \in DOMAIN f : i < j => f[i] < f[j]
            /\ \A k \in kept : \E i \in DOMAIN f : f[i] = k}

DropFromPending(S) ==
    \E f \in Survivors(S) : pending' = [i \in DOMAIN f |-> pending[f[i]]]
-----------------------------------------------------------------------------
(***************************************************************************)
(* Building and extending the plan.                                        *)
(***************************************************************************)
Positions(plan) == 1..Len(plan.files)

Distinct(plan) ==
    \A i, j \in Positions(plan) :
        plan.files[i].dest = plan.files[j].dest => i = j

PlanBytes(plan) == MapThenSumSet(LAMBDA i : plan.files[i].size, Positions(plan))
PlanWeight(plan) ==
    MapThenSumSet(LAMBDA i : Weight(plan.files[i].size), Positions(plan))

\* The planner, the archive and the export all refuse a plan whose bytes do not
\* fit the width of total_bytes, so none reaches the class.
ASSUME BatchesFit == \A plan \in Batch : PlanBytes(plan) <= MaxU64

PlanLargest(plan) == Max({0} \cup {plan.files[i].size : i \in Positions(plan)})

\* next_file_id_ once n consecutive ids starting at `first` are taken.
IdAfter(first, n) ==
    IF n = 0 THEN first ELSE IF first + n - 1 = MaxId THEN 0 ELSE first + n

\* The ids taken by a batch of n files.
IdsFrom(first, n) == IF n = 0 THEN {} ELSE first..(first + n - 1)

\* The constructor, given a plan without duplicate destinations (it throws on
\* one).  The planner and the archive number the files from 1.
Init ==
    \E plan \in Batch :
        LET n == Len(plan.files) IN
        /\ Distinct(plan)
        /\ n <= MaxId
        /\ file = plan.files
        /\ pending = [i \in Positions(plan) |-> i]
        /\ active = {}
        /\ parked = [id \in {} |-> {}]
        /\ reserved = {plan.files[i].dest : i \in Positions(plan)}
        /\ next = IdAfter(1, n)
        /\ directories = plan.directories
        /\ materialized = 0
        /\ highWater = [id \in {} |-> 0]
        /\ attemptBytes = [id \in {} |-> 0]
        /\ attemptCount = [id \in {} |-> 0]
        /\ counters = [physical |-> 0, succeeded |-> 0, weight |-> plan.failures,
                       total |-> PlanWeight(plan) + plan.failures]
        /\ totals = [bytes |-> PlanBytes(plan), files |-> n, doneBytes |-> 0,
                     doneFiles |-> 0, largest |-> PlanLargest(plan)]
        /\ outcomes = [o \in Outcome |-> IF o = "Failed" THEN plan.failures ELSE 0]
        /\ retained = {}
        /\ unplanned = plan.failures
        /\ fate = [id \in Positions(plan) |-> "Live"]

\* The result append() returns, in the order of its early returns.
AppendResult(plan, allowDrained) ==
    LET n == Len(plan.files) IN
    IF ~allowDrained /\ Live = {} THEN "Drained"
    ELSE IF ~plan.sameRoot THEN "DifferentDestination"
    ELSE IF ~plan.sameOperation THEN "DifferentOperation"
    ELSE IF \/ PlanBytes(plan) > MaxU64 - totals.bytes
            \/ n > MaxU64 - totals.files
         THEN "SizeOverflow"
    ELSE IF n > 0 /\ (next = 0 \/ n > MaxId - next + 1) THEN "InternalFailure"
    ELSE IF PlanWeight(plan) > MaxU64 - counters.total THEN "SizeOverflow"
    ELSE IF \/ ~Distinct(plan)
            \/ \E i \in Positions(plan) : plan.files[i].dest \in reserved
         THEN "DestinationCollision"
    ELSE "Appended"

\* The part of an accepted append() up to its commit.
CommitAppend(plan) ==
    LET n == Len(plan.files)
        new == IdsFrom(next, n)
    IN  /\ file' = [id \in Issued \cup new |->
                      IF id \in new THEN plan.files[id - next + 1] ELSE file[id]]
        /\ pending' = pending \o [i \in Positions(plan) |-> next + i - 1]
        /\ reserved' = reserved \cup {plan.files[i].dest : i \in Positions(plan)}
        /\ next' = IdAfter(next, n)
        /\ directories' = directories + plan.directories
        /\ totals' = [totals EXCEPT !.bytes = @ + PlanBytes(plan),
                                    !.files = @ + n,
                                    !.largest = Greater(@, PlanLargest(plan))]
        /\ fate' = [id \in Issued \cup new |->
                      IF id \in new THEN "Live" ELSE fate[id]]
        /\ UNCHANGED <<active, parked, materialized, progressVars, retained>>

\* BOUND: record_planning_failures_locked() does not guard its additions; they
\* could only wrap after some 2^64 failed entries, which no planner delivers.
FailuresFit(plan) == counters.total + PlanWeight(plan) + plan.failures <= MaxU64

\* BOUND: how many directories the appends of one session bring.
FoldersFit(plan) == directories + plan.directories <= MaxFolders

\* append(): commit, then record_planning_failures_locked().
AppendPlan(plan, allowDrained) ==
    /\ AppendResult(plan, allowDrained) = "Appended"
    /\ FailuresFit(plan)
    /\ FoldersFit(plan)
    /\ CommitAppend(plan)
    /\ counters' = [counters EXCEPT
            !.total = @ + PlanWeight(plan) + plan.failures,
            !.weight = @ + plan.failures]
    /\ outcomes' = [outcomes EXCEPT !["Failed"] = @ + plan.failures]
    /\ unplanned' = unplanned + plan.failures

\* mark_directories_materialized(), with the through_index of a batch that
\* pending_directories() returned earlier.
MarkDirectoriesMaterialized(through) ==
    /\ materialized' = Greater(materialized, Lesser(through, directories))
    /\ UNCHANGED <<queueVars, directories, progressVars, counters, totals, resultVars>>
-----------------------------------------------------------------------------
(***************************************************************************)
(* Queue edits of the window.                                              *)
(***************************************************************************)

\* move_pending_file(), move_pending_files_up(), move_pending_files_down(),
\* reorder_pending_files() and reorder_pending_page(): each permutes
\* pending_files_ and touches nothing else.
ReorderPending ==
    /\ \E p \in Bijection(DOMAIN pending, DOMAIN pending) :
          pending' = [i \in DOMAIN pending |-> pending[p[i]]]
    /\ UNCHANGED <<file, active, parked, reserved, next>>
    /\ UNCHANGED <<folderVars, progressVars, counters, totals, resultVars>>

LargestOf(S) == Max({0} \cup {file[id].size : id \in S})

RemovePendingFiles(ids) ==
    LET gone == ids \cap Queued
        dropped == MapThenSumSet(HighWaterOf, gone)
    IN  /\ gone # {}
        /\ DropFromPending(gone)
        /\ reserved' = reserved \ {file[id].dest : id \in gone}
        /\ highWater' = Drop(highWater, gone)
        /\ attemptBytes' = Drop(attemptBytes, gone)
        /\ attemptCount' = Drop(attemptCount, gone)
        /\ counters' = [counters EXCEPT
                !.total = @ - Lesser(@, WeightOf(gone)),
                !.weight = @ - Lesser(@, dropped)]
        /\ totals' = [totals EXCEPT
                !.bytes = @ - Lesser(@, BytesOf(gone)),
                !.files = @ - Lesser(@, Cardinality(gone)),
                !.largest = IF \E id \in gone : file[id].size = @
                            THEN LargestOf((Queued \ gone) \cup active)
                            ELSE @]
        /\ fate' = [id \in Issued |-> IF id \in gone THEN "Removed" ELSE fate[id]]
        /\ UNCHANGED <<file, active, parked, next, folderVars, outcomes, retained, unplanned>>
-----------------------------------------------------------------------------
(***************************************************************************)
(* A worker and its item.                                                  *)
(***************************************************************************)
\* Mutant: acquiring an item forgets its attempt number.
AcquireNextForgetsAttempt ==
    /\ pending # <<>>
    /\ active' = active \cup {Head(pending)}
    /\ pending' = Tail(pending)
    /\ attemptBytes' = Drop(attemptBytes, {Head(pending)})
    /\ attemptCount' = Drop(attemptCount, {Head(pending)})
    /\ UNCHANGED <<file, parked, reserved, next, folderVars, highWater>>
    /\ UNCHANGED <<counters, totals, resultVars>>

AcquireNext ==
    /\ pending # <<>>
    /\ active' = active \cup {Head(pending)}
    /\ pending' = Tail(pending)
    /\ attemptBytes' = Drop(attemptBytes, {Head(pending)})
    /\ UNCHANGED <<file, parked, reserved, next, folderVars, highWater, attemptCount>>
    /\ UNCHANGED <<counters, totals, resultVars>>

\* Mutant: the released item stays among the active files.
ReleaseActiveKeepsIt(id) ==
    /\ id \in active
    /\ pending' = <<id>> \o pending
    /\ UNCHANGED <<file, active, parked, reserved, next>>
    /\ UNCHANGED <<folderVars, progressVars, counters, totals, resultVars>>

ReleaseActive(id) ==
    /\ id \in active
    /\ pending' = <<id>> \o pending
    /\ active' = active \ {id}
    /\ UNCHANGED <<file, parked, reserved, next>>
    /\ UNCHANGED <<folderVars, progressVars, counters, totals, resultVars>>

\* Mutant: the redirected item keeps its old reservation as well.
RedirectKeepsReservation(id) ==
    /\ id \in active
    /\ \E alternate \in Key \ reserved :
          /\ reserved' = reserved \cup {alternate}
          /\ file' = [file EXCEPT ![id].dest = alternate]
    /\ UNCHANGED <<pending, active, parked, next>>
    /\ UNCHANGED <<folderVars, progressVars, counters, totals, resultVars>>

\* Keep both: the first "stem (n)ext" that is neither reserved nor on disk.
RedirectActiveDestination(id) ==
    /\ id \in active
    /\ \E alternate \in Key \ reserved :
          /\ reserved' = (reserved \cup {alternate}) \ {file[id].dest}
          /\ file' = [file EXCEPT ![id].dest = alternate]
    /\ UNCHANGED <<pending, active, parked, next>>
    /\ UNCHANGED <<folderVars, progressVars, counters, totals, resultVars>>

\* park_active() (RetryTransfer) and park_active_source_removal().
Park(id, action) ==
    /\ id \in active
    /\ parked' = Put(parked, id, [action |-> action, attempts |-> AttemptOf(id)])
    /\ active' = active \ {id}
    /\ UNCHANGED <<file, pending, reserved, next>>
    /\ UNCHANGED <<folderVars, progressVars, counters, totals, resultVars>>

\* Mutant: the mark follows the attempt instead of its maximum.
RecordAttemptBytesRewinds(id, bytes) ==
    LET mark == Lesser(bytes, Weight(file[id].size))
    IN  /\ id \in active
        /\ attemptBytes' = Put(attemptBytes, id, bytes)
        /\ highWater' = Put(highWater, id, mark)
        /\ counters' = [counters EXCEPT !.weight = @ + (mark - HighWaterOf(id))]
        /\ UNCHANGED <<queueVars, folderVars, attemptCount, totals, resultVars>>

\* Mutant: what is copied again counts again.
RecordAttemptBytesRecounts(id, bytes) ==
    LET mark == Greater(HighWaterOf(id), Lesser(bytes, Weight(file[id].size)))
    IN  /\ id \in active
        /\ attemptBytes' = Put(attemptBytes, id, bytes)
        /\ highWater' = Put(highWater, id, mark)
        /\ counters' = [counters EXCEPT
                !.weight = @ + Lesser(bytes, Weight(file[id].size))]
        /\ UNCHANGED <<queueVars, folderVars, attemptCount, totals, resultVars>>

RecordAttemptBytes(id, bytes) ==
    LET last == IF id \in DOMAIN attemptBytes THEN attemptBytes[id] ELSE 0
        delta == IF bytes >= last THEN bytes - last ELSE bytes
        mark == Greater(HighWaterOf(id), Lesser(bytes, Weight(file[id].size)))
    IN  /\ id \in active
        /\ attemptBytes' = Put(attemptBytes, id, bytes)
        /\ highWater' = Put(highWater, id, mark)
        /\ counters' = [counters EXCEPT
                !.physical = Wrap(@ + delta),
                !.weight = @ + (mark - HighWaterOf(id))]
        /\ UNCHANGED <<queueVars, folderVars, attemptCount, totals, resultVars>>
-----------------------------------------------------------------------------
(***************************************************************************)
(* Parked items.                                                           *)
(***************************************************************************)
NextAttempt(id) == Lesser(parked[id].attempts + 1, MaxAttempt)

\* Mutant: an item that only waits for its source to be removed is retried.
UnparkAny(id) ==
    /\ id \in DOMAIN parked
    /\ pending' = <<id>> \o pending
    /\ attemptCount' = Put(attemptCount, id, NextAttempt(id))
    /\ parked' = Drop(parked, {id})
    /\ attemptBytes' = Drop(attemptBytes, {id})
    /\ UNCHANGED <<file, active, reserved, next, folderVars, highWater>>
    /\ UNCHANGED <<counters, totals, resultVars>>

Unpark(id) ==
    /\ id \in DOMAIN parked
    /\ parked[id].action = "RetryTransfer"
    /\ pending' = <<id>> \o pending
    /\ attemptCount' = Put(attemptCount, id, NextAttempt(id))
    /\ parked' = Drop(parked, {id})
    /\ attemptBytes' = Drop(attemptBytes, {id})
    /\ UNCHANGED <<file, active, reserved, next, folderVars, highWater>>
    /\ UNCHANGED <<counters, totals, resultVars>>

\* begin_parked_retry(); record_parked_retry_failure() only sets an hresult.
BeginParkedRetry(id, action) ==
    /\ id \in DOMAIN parked
    /\ parked[id].action = action
    /\ attemptCount' = Put(attemptCount, id, NextAttempt(id))
    /\ parked' = [parked EXCEPT ![id].attempts = NextAttempt(id)]
    /\ UNCHANGED <<file, pending, active, reserved, next, folderVars>>
    /\ UNCHANGED <<highWater, attemptBytes, counters, totals, resultVars>>

\* An archived source removal comes back as a new parked item whose copy is
\* already complete: its whole weight counts as resolved.
RestoreParkedSourceRemoval(dest, size, attempts) ==
    /\ next # 0
    /\ Weight(size) <= MaxU64 - counters.total
    /\ Weight(size) <= MaxU64 - counters.weight
    /\ size <= MaxU64 - totals.bytes
    /\ totals.files # MaxU64
    /\ dest \notin reserved
    /\ LET count == Greater(attempts, 1) IN
          /\ parked' = Put(parked, next,
                           [action |-> "RetrySourceRemoval", attempts |-> count])
          /\ attemptCount' = Put(attemptCount, next, count)
    /\ file' = Put(file, next, [dest |-> dest, size |-> size])
    /\ fate' = Put(fate, next, "Live")
    /\ reserved' = reserved \cup {dest}
    /\ highWater' = Put(highWater, next, Weight(size))
    /\ next' = IdAfter(next, 1)
    /\ counters' = [counters EXCEPT !.total = @ + Weight(size),
                                    !.weight = @ + Weight(size)]
    /\ totals' = [totals EXCEPT !.bytes = @ + size, !.files = @ + 1,
                                !.largest = Greater(@, size)]
    /\ UNCHANGED <<pending, active, folderVars, attemptBytes>>
    /\ UNCHANGED <<outcomes, retained, unplanned>>
-----------------------------------------------------------------------------
(***************************************************************************)
(* Terminal outcomes.                                                      *)
(***************************************************************************)

\* resolve_locked() for every item of S, all with the outcome o.
ResolveLocked(S, o) ==
    LET credit(id) == LET w == Weight(file[id].size)
                      IN  w - Lesser(w, HighWaterOf(id))
        left == totals.bytes - Lesser(totals.bytes, totals.doneBytes)
    IN  /\ retained' = IF o = "Succeeded" THEN retained
                       ELSE retained \cup {[id |-> id, outcome |-> o] : id \in S}
        /\ highWater' = Drop(highWater, S)
        /\ attemptBytes' = Drop(attemptBytes, S)
        /\ attemptCount' = Drop(attemptCount, S)
        /\ counters' = [counters EXCEPT
                !.weight = @ + MapThenSumSet(credit, S),
                !.succeeded = IF o \in Transferred THEN Wrap(@ + BytesOf(S)) ELSE @]
        /\ reserved' = IF o \in Transferred THEN reserved
                       ELSE reserved \ {file[id].dest : id \in S}
        /\ outcomes' = [outcomes EXCEPT ![o] = @ + Cardinality(S)]
        /\ totals' = IF o \notin Transferred THEN totals
                     ELSE [totals EXCEPT
                             !.doneBytes = @ + Lesser(BytesOf(S), left),
                             !.doneFiles = Greater(@, Lesser(totals.files,
                                                             @ + Cardinality(S)))]
        /\ fate' = [id \in Issued |-> IF id \in S THEN o ELSE fate[id]]
        /\ UNCHANGED <<file, next, folderVars, unplanned>>

ResolvePending(id, o) ==
    /\ id \in Queued
    /\ ResolveLocked({id}, o)
    /\ DropFromPending({id})
    /\ UNCHANGED <<active, parked>>

ResolveActive(id, o) ==
    /\ id \in active
    /\ ResolveLocked({id}, o)
    /\ active' = active \ {id}
    /\ UNCHANGED <<pending, parked>>

ResolveParked(id, o) ==
    /\ id \in DOMAIN parked
    /\ ResolveLocked({id}, o)
    /\ parked' = Drop(parked, {id})
    /\ UNCHANGED <<pending, active>>

\* A planned directory could not be created: what is pending inside it fails.
FailPendingUnder(folder) ==
    LET lost == {id \in Queued : file[id].dest \in folder} IN
    /\ lost # {}
    /\ ResolveLocked(lost, "Failed")
    /\ DropFromPending(lost)
    /\ UNCHANGED <<active, parked>>
-----------------------------------------------------------------------------
Next ==
    \/ \E plan \in Batch, allowDrained \in BOOLEAN : AppendPlan(plan, allowDrained)
    \/ \E through \in 0..directories : MarkDirectoriesMaterialized(through)
    \/ ReorderPending
    \/ \E ids \in SUBSET Queued : RemovePendingFiles(ids)
    \/ AcquireNext
    \/ \E id \in active :
          \/ ReleaseActive(id)
          \/ RedirectActiveDestination(id)
          \/ \E action \in RecoveryAction : Park(id, action)
          \/ \E bytes \in Chunk : RecordAttemptBytes(id, bytes)
          \/ \E o \in Outcome : ResolveActive(id, o)
    \/ \E id \in DOMAIN parked :
          \/ Unpark(id)
          \/ \E action \in RecoveryAction : BeginParkedRetry(id, action)
          \/ \E o \in Outcome : ResolveParked(id, o)
    \/ \E dest \in Key, size \in Size, attempts \in 0..MaxAttempt :
          RestoreParkedSourceRemoval(dest, size, attempts)
    \/ \E id \in Queued, o \in Outcome : ResolvePending(id, o)
    \/ \E folder \in Folder : FailPendingUnder(folder)

Spec == Init /\ [][Next]_vars
-----------------------------------------------------------------------------
(***************************************************************************)
(* Properties.                                                             *)
(***************************************************************************)
Fate == {"Live", "Removed"} \cup Outcome
FileRecord == [dest : Key, size : Size]

\* The containers, their items and the bookkeeping kept per item have the shape
\* the class declares.
ContainersTypeOK ==
    /\ next \in 0..MaxId
    /\ file \in [Issued -> FileRecord]
    /\ pending \in Seq(Issued)
    /\ active \in SUBSET Issued
    /\ DOMAIN parked \in SUBSET Issued
    /\ parked \in [DOMAIN parked ->
                     [action : RecoveryAction, attempts : 1..MaxAttempt]]
    /\ reserved \in SUBSET Key
    /\ fate \in [Issued -> Fate]
    /\ DOMAIN attemptCount \in SUBSET Live
    /\ attemptCount \in [DOMAIN attemptCount -> 1..MaxAttempt]
    /\ DOMAIN highWater \in SUBSET Live
    /\ highWater \in [DOMAIN highWater -> Nat]

\* Type correctness of the whole state, the counters included.
TypeOK ==
    /\ ContainersTypeOK
    /\ DOMAIN attemptBytes \in SUBSET Live
    /\ attemptBytes \in [DOMAIN attemptBytes -> Nat]
    /\ counters \in [physical : 0..MaxU64, succeeded : 0..MaxU64,
                      weight : 0..MaxU64, total : 0..MaxU64]
    /\ totals \in [bytes : 0..MaxU64, files : 0..MaxU64, doneBytes : 0..MaxU64,
                    doneFiles : 0..MaxU64, largest : {0} \cup Size]
    /\ outcomes \in [Outcome -> Nat]
    /\ retained \in SUBSET [id : Issued, outcome : Outcome \ {"Succeeded"}]
    /\ unplanned \in Nat
    /\ materialized \in 0..directories

\* Every accepted file is in exactly one place: waiting once in the queue, with
\* one worker, parked, or settled.  acquire_next, release_active, park_active,
\* unpark and the resolve_* calls never lose an item and never duplicate one.
Partition ==
    /\ IsInjective(pending)
    /\ Queued \cap active = {}
    /\ Queued \cap DOMAIN parked = {}
    /\ active \cap DOMAIN parked = {}
    /\ Live = {id \in Issued : fate[id] = "Live"}

\* The items whose destination belongs to this plan: the unresolved ones and
\* those whose copy was produced.
Holders == {id \in Issued : fate[id] \in {"Live"} \cup Transferred}

\* No two items of the plan ever own the same destination, so no worker
\* overwrites what another one produced; and a reservation is held for exactly
\* as long as it is owed, so a later append is not refused for a destination
\* that nothing will produce (header: "Skipped and Failed release the
\* reservation").
ReservationsExact ==
    /\ reserved = {file[id].dest : id \in Holders}
    /\ \A a, b \in Holders : file[a].dest = file[b].dest => a = b

\* An item's visible progress is bounded by its weight.
HighWaterBounded ==
    \A id \in DOMAIN highWater : highWater[id] <= Weight(file[id].size)

Settled == {id \in Issued : fate[id] \in Outcome}
WithFate(S) == {id \in Issued : fate[id] \in S}

\* Visible progress is exact: the numerator is what settled items weigh plus
\* the high-water marks of the others, the denominator what all items weigh,
\* whatever mixture of restarts, retries, edits and restored source removals
\* led there.
ResolutionLedger ==
    /\ counters.total = WeightOf(Live \cup Settled) + unplanned
    /\ counters.weight = WeightOf(Settled) + MapThenSumSet(HighWaterOf, Live)
                            + unplanned

\* The legacy totals and the per-item results agree with what became of every
\* item: none is counted twice, and the saturating subtractions never bite.
ResultLedger ==
    /\ totals.files = Cardinality(Live \cup Settled)
    /\ totals.bytes = BytesOf(Live \cup Settled)
    /\ totals.doneFiles = Cardinality(WithFate(Transferred))
    /\ totals.doneBytes = BytesOf(WithFate(Transferred))
    /\ counters.succeeded = totals.doneBytes
    /\ \A o \in Outcome :
          outcomes[o] = Cardinality(WithFate({o}))
                          + (IF o = "Failed" THEN unplanned ELSE 0)
    /\ retained = {[id |-> id, outcome |-> fate[id]] :
                       id \in Settled \ WithFate({"Succeeded"})}

\* An item parked again reports the attempt it was on: what the decision dialog
\* shows is the plan's own count of attempts.
IncidentMatchesAttempts ==
    \A id \in DOMAIN parked : parked[id].attempts = AttemptOf(id)

\* What the plan keeps a second time agrees with what became of every item: the
\* ledger behind the progress bar, the one behind the completion message and the
\* attempts that the decision dialog shows.
Ledgers == ResolutionLedger /\ ResultLedger /\ IncidentMatchesAttempts

\* Nothing but an edit of the queue moves the visible progress backwards: not a
\* restarted attempt, a retry, a release or a failure.
ProgressNeverRewinds ==
    [][(\A id \in Issued : fate'[id] = "Removed" => fate[id] = "Removed")
         => counters'.weight >= counters.weight]_vars

\* As long as an item is unresolved the number of its attempt never goes back,
\* so the attempts the user is shown count every retry (comment in
\* acquire_next).
AttemptsNeverReset ==
    [][\A id \in Issued :
          fate'[id] = "Live" => /\ AttemptOf(id)' >= AttemptOf(id)
                                /\ id \in DOMAIN parked /\ id \notin DOMAIN parked'
                                      => AttemptOf(id)' = NextAttempt(id)]_vars

\* The state ItemLifecycle gives an item, read off the containers.
StateOf(id) ==
    IF id \notin Issued THEN "Absent"
    ELSE IF id \in Queued THEN "Pending"
    ELSE IF id \in active THEN "Active"
    ELSE IF id \in DOMAIN parked
         THEN IF parked[id].action = "RetryTransfer" THEN "Parked" ELSE "Copied"
    ELSE fate[id]

Lifecycle == INSTANCE ItemLifecycle
               WITH Item <- 1..MaxId, state <- [id \in 1..MaxId |-> StateOf(id)]

\* Every critical section takes each item along the transitions of
\* is_valid_item_transition; in particular an item that only waits for its
\* source to be removed is never copied again.
ImplementsLifecycle == Lifecycle!Spec
=============================================================================
