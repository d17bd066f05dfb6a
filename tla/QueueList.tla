------------------------------ MODULE QueueList ------------------------------
(***************************************************************************)
(* The list of queued files in the details of a transfer window: one page  *)
(* of the pending files of the live plan, refreshed a little at a time,    *)
(* with a selection, drag reorder and the edit commands.  The UI thread    *)
(* works on what it saw at the last refresh; the workers and the append    *)
(* planner change the plan meanwhile, and the window may start another     *)
(* plan, whose file ids begin at 1 again.                                  *)
(*                                                                         *)
(* What is abstracted.  A row is a file id and the rest of the PlannedFile *)
(* as one value; a preview row of the planner stands for all of them.      *)
(* Focus, scrolling, the texts and the rows of active files are left out.  *)
(* A refresh takes its second look at the queue, after it has corrected    *)
(* the page, in the same step as the first.                                *)
(***************************************************************************)
EXTENDS Naturals, FiniteSets, Sequences, SequencesExt, FiniteSetsExt

CONSTANTS
    Data,      \* what a planned file is, its id apart
    PageSize,  \* kVisibleQueueItems
    MaxFiles,  \* BOUND on the files of a plan
    MaxPlans,  \* BOUND on the sessions of the window
    Preview,   \* a row that is only shown while the sources are enumerated
    None

ASSUME QueueListAssumption ==
    /\ PageSize \in Nat \ {0}
    /\ MaxFiles \in Nat /\ MaxPlans \in Nat /\ Data # {}
    /\ Preview \notin [id : Nat, data : Data]

VARIABLES
    session,  \* the session of the window and its plan
    list      \* what the window keeps and shows of the queue

vars == <<session, list>>

Row == [id : 1..MaxFiles, data : Data]

(***************************************************************************)
(* session: phase of the window, number of its last plan, pending_files_,  *)
(* active_files_, the ids settled by the session, and next_file_id_, which *)
(* is 0 until the plan is built.                                           *)
(* list: expanded_, queue_drag_plan_ (None without a drag),                *)
(* queue_page_offset_, queue_rendered_page_offset_, queue_snapshot_, the   *)
(* Items of the ListView, the ids of its selected items and                *)
(* queue_refresh_force_rebuild_; previewed is a history: all that the      *)
(* refreshes have found since the preview was put up is an empty queue.    *)
(***************************************************************************)
TypeOK ==
    /\ session \in [phase : {"Idle", "Planning", "Live"}, plan : 0..MaxPlans,
                    pending : Seq(Row), active : SUBSET Row,
                    settled : SUBSET (1..MaxFiles), next : 0..(MaxFiles + 1)]
    /\ list \in [expanded : BOOLEAN, drag : {None} \cup 1..MaxPlans, offset : Nat,
                 rendered : Nat, snapshot : Seq(Row), items : Seq(Row \cup {Preview}),
                 selected : SUBSET (1..MaxFiles), rebuild : BOOLEAN,
                 previewed : BOOLEAN]

Ids(s) == {s[i].id : i \in {k \in DOMAIN s : s[k] # Preview}}

\* The files of s but those with the given ids, in their order.
Without(s, ids) ==
    LET kept == {i \in 1..Len(s) : s[i].id \notin ids} IN
    [k \in 1..Cardinality(kept) |-> s[CHOOSE i \in kept : Cardinality(kept \cap 1..i) = k]]
-----------------------------------------------------------------------------
(***************************************************************************)
(* RefreshQueue()                                                          *)
(***************************************************************************)
LastPage(n) == IF n = 0 THEN 0 ELSE ((n - 1) \div PageSize) * PageSize

\* An empty page gives way to the last one.
Offset(l, n) == IF l.offset >= n THEN LastPage(n) ELSE l.offset

\* queue_view()
Page(s, offset) == SubSeq(s, offset + 1, Min({offset + PageSize, Len(s)}))

\* completed_prefix: how many of the first rows have left the page.
Gone(l, page) ==
    IF Len(l.items) # Len(l.snapshot) THEN 0
    ELSE Max({n \in 0..Len(l.snapshot) :
                 \A i \in 1..n : l.snapshot[i].id \notin Ids(page)})

\* Mutant: only the number of rows that stay is compared.
TrimsAnyRows(l, page, gone) ==
    gone \in 1..(Len(l.snapshot) - 1) /\ Len(page) >= Len(l.snapshot) - gone

\* can_trim_prefix: the rows that stay are the first of the new page.
Trims(l, page, gone) ==
    /\ gone \in 1..(Len(l.snapshot) - 1)
    /\ IsPrefix(SubSeq(l.snapshot, gone + 1, Len(l.snapshot)), page)

Rows(l, page, rebuilds) ==
    LET gone == Gone(l, page) IN
    IF ~rebuilds /\ Trims(l, page, gone)
    THEN SubSeq(l.items, gone + 1, Len(l.items))
            \o SubSeq(page, Len(l.snapshot) - gone + 1, Len(page))
    ELSE page

\* The selection follows the ids.
Reselected(l, page) == l.selected \cap Ids(page)

Shown(l, s, rebuilds) ==
    LET offset == Offset(l, Len(s.pending))
        page == Page(s.pending, offset)
        asked == [l EXCEPT !.offset = offset, !.rebuild = FALSE]
    IN IF offset = l.rendered /\ page = l.snapshot /\ ~rebuilds THEN asked
       ELSE [asked EXCEPT !.rendered = offset, !.snapshot = page,
                          !.items = Rows(l, page, rebuilds),
                          !.selected = Reselected(l, page)]

\* Without a plan: what is being enumerated, or nothing.
Previewed(l, s) ==
    [l EXCEPT !.offset = 0, !.rendered = 0, !.snapshot = <<>>, !.selected = {},
              !.items = IF s.phase = "Planning" THEN <<Preview>> ELSE <<>>,
              !.rebuild = FALSE, !.previewed = s.phase = "Planning"]

\* The history of a refresh that looks at the queue.
FoundEmpty(l, s, rebuilds) == l.previewed /\ s.pending = <<>> /\ ~rebuilds

\* The list l after a refresh from the session s.
Refreshed(l, s, force) ==
    IF l.drag # None \/ ~l.expanded THEN [l EXCEPT !.rebuild = @ \/ force]
    ELSE IF s.phase = "Live"
    THEN LET rebuilds == l.rebuild \/ force IN
         [Shown(l, s, rebuilds) EXCEPT !.previewed = FoundEmpty(l, s, rebuilds)]
    ELSE Previewed(l, s)
-----------------------------------------------------------------------------
(***************************************************************************)
(* The session: its UI thread, its workers and its append planner.         *)
(***************************************************************************)
Live == session.phase = "Live"

Built == session.next # 0

FilesFrom(first, last, d) == [i \in 1..(last + 1 - first) |-> [id |-> first + i - 1, data |-> d]]

NewPlan == [session EXCEPT !.plan = @ + 1, !.pending = <<>>, !.active = {},
                           !.settled = {}, !.next = 0]

\* What StartTransfer() and StartCopyPlan() do to the list.
Collapsed == [list EXCEPT !.offset = 0, !.rebuild = TRUE, !.expanded = FALSE]

StartTransfer ==
    /\ session.phase = "Idle" /\ session.plan < MaxPlans
    /\ session' = [NewPlan EXCEPT !.phase = "Planning"]
    /\ list' = Refreshed(Collapsed, session', FALSE)

WithFiles(s, n, d) == [s EXCEPT !.pending = FilesFrom(1, n, d), !.next = n + 1]

\* The session thread has its plan; the message that publishes it is on its way.
PlanBuilt ==
    /\ session.phase = "Planning" /\ ~Built
    /\ \E n \in 0..MaxFiles, d \in Data : session' = WithFiles(session, n, d)
    /\ UNCHANGED list

PublishLivePlan ==
    /\ session.phase = "Planning" /\ Built
    /\ session' = [session EXCEPT !.phase = "Live"]
    /\ list' = Refreshed(list, session', FALSE)

\* A saved or recovered plan.
StartCopyPlan ==
    /\ session.phase = "Idle" /\ session.plan < MaxPlans
    /\ \E n \in 1..MaxFiles, d \in Data :
          session' = WithFiles([NewPlan EXCEPT !.phase = "Live"], n, d)
    /\ list' = Refreshed(Collapsed, session', FALSE)

NoSession == [session EXCEPT !.phase = "Idle", !.pending = <<>>, !.active = {}, !.next = 0]

\* FinishCopy() and the finalizers let go of the plan.
Ends ==
    /\ session' = NoSession
    /\ \E force \in BOOLEAN :
          list' = [Refreshed(list, session', force) EXCEPT !.expanded = FALSE]

FinishCopy ==
    /\ session.phase # "Idle" /\ session.active = {}
    /\ Ends

\* acquire_next()
AcquireNext ==
    /\ session.pending # <<>>
    /\ session' = [session EXCEPT !.pending = Tail(@),
                                  !.active = @ \cup {Head(session.pending)}]
    /\ UNCHANGED list

\* release_active(), perhaps after redirect_active_destination()
ReleaseActive ==
    /\ \E r \in session.active, d \in Data :
          session' = [session EXCEPT !.pending = <<[r EXCEPT !.data = d]>> \o @,
                                     !.active = @ \ {r}]
    /\ UNCHANGED list

\* An item is resolved or parked by a worker, or failed with its directory.
Settles ==
    /\ \/ \E r \in session.active :
             session' = [session EXCEPT !.active = @ \ {r}, !.settled = @ \cup {r.id}]
       \/ \E id \in Ids(session.pending) :
             session' = [session EXCEPT !.settled = @ \cup {id},
                                               !.pending = Without(@, {id})]
    /\ UNCHANGED list

Append1 == Append(session.pending, [id |-> session.next, data |-> CHOOSE d \in Data : TRUE])

\* The append planner commits a job to the plan.
AppendPlan ==
    /\ Built /\ session.next <= MaxFiles
    /\ session' = [session EXCEPT !.pending = Append1, !.next = @ + 1]
    /\ UNCHANGED list

\* A progress snapshot, an append, a stop or an answered conflict.
Refreshes ==
    /\ list' = Refreshed(list, session, FALSE)
    /\ UNCHANGED session
-----------------------------------------------------------------------------
(***************************************************************************)
(* The user                                                                *)
(***************************************************************************)
SetExpanded ==
    /\ \E shown \in BOOLEAN \ {list.expanded} :
          LET l == [list EXCEPT !.expanded = shown] IN
          list' = IF shown THEN Refreshed(l, session, FALSE) ELSE l
    /\ UNCHANGED session

\* The window gets wider or narrower.
LayoutChanges ==
    /\ list.expanded
    /\ list' = Refreshed(list, session, TRUE)
    /\ UNCHANGED session

Selects ==
    /\ list.expanded /\ list.drag = None
    /\ \E ids \in SUBSET Ids(list.items) : list' = [list EXCEPT !.selected = ids]
    /\ UNCHANGED session

Turns(offset) ==
    /\ list' = Refreshed([list EXCEPT !.offset = offset], session, TRUE)
    /\ UNCHANGED session

Editable == Live /\ list.expanded /\ list.drag = None

Back == IF list.offset >= PageSize THEN list.offset - PageSize ELSE 0

PreviousPage == Editable /\ list.offset # 0 /\ Turns(Back)

NextPage ==
    LET last == LastPage(Len(session.pending)) IN
    Editable /\ list.offset < last /\ Turns(Min({list.offset + PageSize, last}))

\* PageDown of a queue that has become shorter goes back to its last page.
KeyDown ==
    LET last == LastPage(Len(session.pending)) IN
    Editable /\ list.offset > last /\ Turns(last)

\* move_pending_files_up(): every run of chosen files passes the file above it,
\* which drops below the run; a run at the top stays.
MovedUp(s, chosen) ==
    LET Picked(i) == s[i].id \in chosen
        Others(k) == {i \in 1..k : ~Picked(i)}
    IN [k \in 1..Len(s) |-> IF Others(k) = {} THEN s[k]
                            ELSE IF k < Len(s) /\ Picked(k + 1) THEN s[k + 1]
                            ELSE s[Max(Others(k))]]

MovedDown(s, chosen) == Reverse(MovedUp(Reverse(s), chosen))

MovesSelected ==
    /\ Editable /\ list.selected # {}
    /\ \E order \in {MovedUp(session.pending, list.selected),
                     MovedDown(session.pending, list.selected)} :
          session' = [session EXCEPT !.pending = order]
    /\ list' = Refreshed(list, session', FALSE)

\* remove_pending_files(); a stopped or conflicting session may have nothing
\* left then and ends.
RemovesSelected ==
    /\ Editable /\ list.selected # {}
    /\ LET left == Without(session.pending, list.selected) IN
       \/ /\ session' = [session EXCEPT !.pending = left]
          /\ list' = Refreshed(list, session', FALSE)
       \/ left = <<>> /\ session.active = {} /\ Ends

DragStarts ==
    /\ Live /\ list.expanded /\ list.drag = None /\ list.items # <<>>
    /\ list' = [list EXCEPT !.drag = session.plan]
    /\ UNCHANGED session

Permuted(s) ==
    {[i \in DOMAIN s |-> s[f[i]]] :
        f \in {g \in [DOMAIN s -> DOMAIN s] : \A i, k \in DOMAIN s : g[i] = g[k] => i = k}}

\* The checks of the list and of reorder_pending_page(): the page still holds
\* the very files that are shown.
SamePage(items) ==
    /\ Len(items) = Len(list.snapshot) /\ Len(items) >= 2
    /\ Preview \notin ToSet(items)
    /\ Ids(items) = Ids(list.snapshot)
    /\ list.offset + Len(items) <= Len(session.pending)
    /\ \A i \in DOMAIN items : session.pending[list.offset + i].id \in Ids(items)

\* reorder_pending_page(): the files of the page in the order of the rows.
Reordered(items) ==
    [k \in DOMAIN session.pending |->
        IF k - list.offset \in DOMAIN items
        THEN CHOOSE r \in ToSet(session.pending) : r.id = items[k - list.offset].id
        ELSE session.pending[k]]

\* Mutant: the files of a drag are looked for in whatever plan there is.
AnyPlan == Live

SamePlan == Live /\ session.plan = list.drag

DragCompleted(items) ==
    LET l == [list EXCEPT !.drag = None, !.items = items, !.rebuild = FALSE] IN
    IF ~SamePlan
    THEN /\ list' = Refreshed([l EXCEPT !.rebuild = TRUE], session, list.rebuild)
         /\ UNCHANGED session
    ELSE /\ session' = IF list.expanded /\ SamePage(items)
                       THEN [session EXCEPT !.pending = Reordered(items)] ELSE session
         /\ list' = Refreshed(l, session', TRUE)

DragCompletes ==
    list.drag # None /\ \E items \in Permuted(list.items) : DragCompleted(items)
-----------------------------------------------------------------------------
Init ==
    /\ session = [phase |-> "Idle", plan |-> 0, pending |-> <<>>, active |-> {},
                  settled |-> {}, next |-> 0]
    /\ list = [expanded |-> FALSE, drag |-> None, offset |-> 0, rendered |-> 0,
               snapshot |-> <<>>, items |-> <<>>, selected |-> {}, rebuild |-> FALSE,
               previewed |-> FALSE]

Next ==
    \/ StartTransfer \/ PlanBuilt \/ PublishLivePlan \/ StartCopyPlan \/ FinishCopy
    \/ AcquireNext \/ ReleaseActive \/ Settles \/ AppendPlan \/ Refreshes
    \/ SetExpanded \/ LayoutChanges \/ Selects \/ PreviousPage \/ NextPage \/ KeyDown
    \/ MovesSelected \/ RemovesSelected \/ DragStarts \/ DragCompletes

Spec == Init /\ [][Next]_vars
-----------------------------------------------------------------------------
\* What RefreshQueue() leaves of the preview in a plan that is published: while
\* each of its looks at the queue finds nothing pending, as it does when the
\* workers take every file at once, it returns early and the rows stay
\* (MainWindow.Queue.cpp:184-196).  That is not what is promised: a preview
\* "until enumeration finishes" (147-150), which queue_view replaces "when
\* planning finishes" (docs/ENGINEERING_RULES.md:178).
StalePreview == session.phase = "Live" /\ list.previewed

\* While the list is shown and nothing is dragged, its rows are those of the
\* snapshot, one for one, however it was brought up to date, so that what the
\* user selects, moves and removes are the files whose names are on the screen.
\* Rows of the planner's preview are there instead only while the window plans,
\* and in StalePreview, which ends with the first file that a refresh finds and
\* with the first full rebuild; they never mix with files.
ListShowsSnapshot ==
    list.expanded /\ list.drag = None =>
       \/ list.items = list.snapshot
       \/ /\ session.phase = "Planning" \/ StalePreview
          /\ list.snapshot = <<>> /\ ToSet(list.items) = {Preview}

\* The files of s with the given ids are as before and in the same order in t.
SameOrder(s, t, ids) ==
    /\ Len(s) = Len(t)
    /\ \A i, k \in DOMAIN s :
          i <= k /\ s[i].id \in ids /\ s[k].id \in ids =>
             \E a, b \in DOMAIN t : a <= b /\ t[a] = s[i] /\ t[b] = s[k]

\* The place k of the queue is on the page that is shown.
OnPage(k) == k - list.offset \in DOMAIN list.items

\* What is selected and shown.
Chosen == list.selected \cap Ids(list.items)

\* A file leaves the queue for a worker, with a result, or chosen.
LeavesForCause ==
    \A id \in Ids(session.pending) \ Ids(session'.pending) :
       id \in Chosen \/ id \in session'.settled \/ \E r \in session'.active : r.id = id

\* The queue changes its order by moves of the chosen files or by a drag.
OrderFromScreen ==
    LET old == session.pending
        new == session'.pending
    IN old # new /\ Ids(old) = Ids(new) =>
          \/ SameOrder(old, new, Chosen) /\ SameOrder(old, new, Ids(old) \ Chosen)
          \/ /\ list.drag = session.plan
             /\ Ids(list.items) = {old[k].id : k \in {i \in DOMAIN old : OnPage(i)}}
             /\ \A k \in DOMAIN old : ~OnPage(k) => new[k] = old[k]

\* A file leaves the queue of a session that goes on only for a worker, with a
\* result, or by a removal while it is shown and selected.  An order changes
\* only by moving files that are shown and selected past the others, or by a
\* drag that permutes exactly the files that are shown, at their place: never
\* by what was shown of another page, of an earlier queue or of an earlier plan.
EditsHitWhatIsShown ==
    [][Live /\ session'.phase = "Live" => LeavesForCause /\ OrderFromScreen]_vars
=============================================================================
