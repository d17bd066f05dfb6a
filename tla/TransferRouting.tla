--------------------------- MODULE TransferRouting ---------------------------
(***************************************************************************)
(* From an admitted request to the window that carries it out: App takes   *)
(* the requests one at a time, resolves on which devices they work, asks   *)
(* the person what to do when a window already works there, and hands the  *)
(* job to a window.  Everything but the resolution of the devices runs on  *)
(* the UI thread, so each action is the code between two awaits; while the *)
(* devices are resolved or a question is open the windows go on.           *)
(*                                                                         *)
(* What is abstracted.  The destination and the operation of a job, which  *)
(* are only compared together, are one value; the volumes and disks of its *)
(* destination and sources are one set of identifiers, since two storage   *)
(* keys are the same device exactly when they share one.  A session is its *)
(* state, the jobs in its plan and the jobs being planned for it; how its  *)
(* threads get there is the module TransferWindow.                         *)
(***************************************************************************)
EXTENDS Naturals, Sequences, FiniteSets, FiniteSetsExt, Functions

CONSTANTS
    Job,        \* the requests the pipe server admits, and the drops on a window
    Kind,       \* job -> its destination and operation
    Storage,    \* job -> the volumes and disks it works on, as far as known
    MaxWindow,  \* BOUND on the windows of one process
    Remembers,  \* BOUND on the questions whose answer is ever remembered
    None

Window == 1..MaxWindow      \* window_id_, in the order of creation

\* What can be done with a job.
Choice == {"Append", "Wait", "Parallel"}

\* The request in flight: where its coroutine stands, and the window that the
\* question is about.
Request == [job : Job, step : {"Resolving", "Asking", "Withdrawn"}, attempt : 0..1,
            about : {"destination", "device", None}, window : Window \cup {None}]

ASSUME RoutingAssumption ==
    /\ IsFiniteSet(Job)
    /\ MaxWindow \in Nat
    /\ MaxWindow >= Cardinality(Job)
    /\ Remembers \subseteq {"destination", "device"}
    /\ None \notin Job \cup Request \cup Choice

VARIABLES
    pending,   \* pending_requests_
    route,     \* the request in flight: where DeliverConvertedJob() stands
    prefer,    \* route_preferences_: the remembered answers
    win,       \* the windows
    fate       \* history: what became of every job

vars == <<pending, route, prefer, win, fate>>

Session == {"None", "Planning", "Copying", "Interrupted"}

\* A window before it is created, and the part of one that a session leaves.
Unborn == [life |-> "Unborn", hidden |-> FALSE, session |-> "None", kind |-> None,
           storage |-> {}, accepting |-> FALSE, cancel |-> FALSE, plan |-> {},
           joining |-> <<>>, waiting |-> <<>>, vote |-> FALSE]

Living == {w \in Window : win[w].life \in {"Open", "Exiting"}}
-----------------------------------------------------------------------------
(***************************************************************************)
(* What a window is to the router, and to the efficiency mode.             *)
(***************************************************************************)
Active(s) == s.session # "None"                           \* HasActiveTransfer()
Copies(s) == s.session \in {"Planning", "Copying"}        \* execution_control_

\* SessionSnapshot()
Sessions == {w \in Window : win[w].life = "Open" /\ Active(win[w])}

\* Mutant: a hidden window may save power whatever it does.
EligibleHidden(s) == s.life = "Open" /\ s.hidden

\* RefreshEfficiencyMode()
Eligible(s) == s.life = "Open" /\ s.hidden /\ ~Copies(s) /\ s.joining = <<>>

Refreshed(s) == [s EXCEPT !.vote = Eligible(s)]

\* EfficiencyCoordinator::desired(): the process is throttled when every window
\* that has a vote agrees.
Throttled == \A w \in Living : win[w].vote

Shown(s) == Refreshed([s EXCEPT !.hidden = FALSE])        \* ShowFromTray()

\* StartTransfer(): the devices are those the router resolved, or none.
Started(s, j, storage) ==
    Refreshed([s EXCEPT !.session = "Planning", !.kind = Kind[j],
                        !.storage = storage, !.accepting = TRUE, !.cancel = FALSE,
                        !.plan = {j}, !.joining = <<>>])

\* The session is over; the window shows what came of it.
Ended(s) ==
    Refreshed([s EXCEPT !.session = "None", !.kind = None, !.accepting = FALSE,
                        !.plan = {}, !.joining = <<>>])

\* DestroyCompletedWindow(), or WM_CLOSE of an idle window, through WM_DESTROY.
Destroyed(s) == [Unborn EXCEPT !.life = "Gone"]

\* StartNextQueuedSession()
Continued(s) ==
    Started([s EXCEPT !.waiting = Tail(@)], Head(s.waiting).job, Head(s.waiting).storage)

\* Mutant: what was deferred for the plan is forgotten with it.
RequeuedNot(s, jobs) == s

\* Jobs that wait again, before all others and without their devices.
Requeued(s, jobs) ==
    [s EXCEPT !.waiting = [i \in DOMAIN jobs |-> [job |-> jobs[i], storage |-> {}]] \o @]

JobsOf(queue) == {queue[i].job : i \in DOMAIN queue}
Held(s) == s.plan \cup Range(s.joining) \cup JobsOf(s.waiting)
-----------------------------------------------------------------------------
(***************************************************************************)
(* route_transfer()                                                        *)
(***************************************************************************)
SameKind(j)   == {w \in Sessions : win[w].kind = Kind[j] /\ win[w].accepting}
SameDevice(j) == {w \in Sessions : win[w].storage \cap Storage[j] # {}}

Offered == [destination |-> {"Append", "Wait"}, device |-> {"Wait", "Parallel"}]

Decision(about, w, p) == [about |-> about, window |-> w, choice |-> p[about]]

\* With the preferences p: what to do with j, None where the person is asked.
RouteTransfer(j, p) ==
    IF SameKind(j) # {} THEN Decision("destination", Min(SameKind(j)), p)
    ELSE IF SameDevice(j) # {} THEN Decision("device", Min(SameDevice(j)), p)
    ELSE [about |-> None, window |-> None, choice |-> "Parallel"]
-----------------------------------------------------------------------------
(***************************************************************************)
(* The request in flight.                                                  *)
(***************************************************************************)
Resolving(j) == [job |-> j, step |-> "Resolving", attempt |-> 0,
                 about |-> None, window |-> None]

\* StartNextPendingRequest(), with the queue q.
StartsNext(q) ==
    IF q = <<>> THEN route' = None /\ pending' = q
                ELSE route' = Resolving(Head(q)) /\ pending' = Tail(q)

\* request_in_flight_ is cleared and the next request is taken.
Done == StartsNext(pending)

\* AdmitShellRequest(): the request is queued, and taken when none is in flight.
Admit(j) ==
    /\ fate[j] = "Unknown"
    /\ fate' = [fate EXCEPT ![j] = "Live"]
    /\ IF route = None THEN StartsNext(Append(pending, j))
                       ELSE pending' = Append(pending, j) /\ UNCHANGED route
    /\ UNCHANGED <<prefer, win>>

\* The window a new session gets: the first idle visible one, or a new one.
IdleVisible ==
    {w \in Window : win[w].life = "Open" /\ ~Active(win[w]) /\ ~win[w].hidden}
NextWindow == Min({w \in Window : win[w].life = "Unborn"})
Born(w) == IF win[w].life = "Unborn" THEN [Unborn EXCEPT !.life = "Open"] ELSE win[w]

StartNew(j) ==
    LET w == IF IdleVisible # {} THEN Min(IdleVisible) ELSE NextWindow
    IN  win' = [win EXCEPT ![w] = Started(Shown(Born(w)), j, Storage[j])]

\* AppendTransfer(): the planner of the session takes the job, or it is kept
\* until the plan it shall join exists.
AppendTransfer(w, j) ==
    LET s == Shown(win[w])
    IN  win' = [win EXCEPT ![w] = [s EXCEPT !.joining = Append(s.joining, j)]]

\* EnqueueTransfer()
EnqueueTransfer(w, j) ==
    LET s    == Shown(win[w])
        last == [job |-> j, storage |-> Storage[j]]
    IN  win' = [win EXCEPT ![w] = [s EXCEPT !.waiting = Append(s.waiting, last)]]

HandsOver(j, choice, w) ==
    \/ choice = "Append"   /\ AppendTransfer(w, j)
    \/ choice = "Wait"     /\ EnqueueTransfer(w, j)
    \/ choice = "Parallel" /\ StartNew(j)

\* One turn of the loop of DeliverConvertedJob(), with the preferences p: the
\* job is handed over, or its window is shown and the question asked.
Considers(j, attempt, p) ==
    LET r == RouteTransfer(j, p) IN
    IF r.choice = None
    THEN /\ route' = [job |-> j, step |-> "Asking", attempt |-> attempt,
                      about |-> r.about, window |-> r.window]
         /\ win' = [win EXCEPT ![r.window] = Shown(@)]
         /\ UNCHANGED pending
    ELSE HandsOver(j, r.choice, r.window) /\ Done

\* The devices are known.
Resolved ==
    /\ route # None
    /\ route.step = "Resolving"
    /\ Considers(route.job, 0, prefer)
    /\ UNCHANGED <<prefer, fate>>

\* The devices cannot be found out, or the delivery throws: the newest window
\* says that the request failed.
Fails ==
    /\ route # None
    /\ route.step = "Resolving"
    /\ LET w == IF Living # {} THEN Max(Living) ELSE NextWindow
       IN  win' = [win EXCEPT ![w] = Shown(Born(w))]
    /\ fate' = [fate EXCEPT ![route.job] = "Refused"]
    /\ Done
    /\ UNCHANGED prefer

\* What the person answered can no longer be done: the window does not take the
\* job into its session any more, or it does not exist.  Waiting is not
\* checked against the state of the session.
Stale(choice, w) ==
    \/ choice = "Append" /\ ~(w \in Sessions /\ win[w].accepting)
    \/ choice = "Wait"   /\ w \notin Living

\* The person answers, for this time or for all.
Answer(choice, remember) ==
    /\ route # None
    /\ route.step = "Asking"
    /\ choice \in Offered[route.about]
    /\ remember => route.about \in Remembers
    /\ LET p == IF remember THEN [prefer EXCEPT ![route.about] = choice] ELSE prefer IN
       /\ prefer' = p
       /\ IF ~Stale(choice, route.window)
          THEN HandsOver(route.job, choice, route.window) /\ Done
          ELSE IF route.attempt = 0 THEN Considers(route.job, 1, p)
          ELSE StartNew(route.job) /\ Done
    /\ UNCHANGED fate

\* Mutant: the coroutine returns without taking the next request.
DismissedForGood ==
    /\ route # None
    /\ route.step \in {"Asking", "Withdrawn"}
    /\ fate' = [fate EXCEPT ![route.job] = "Cancelled"]
    /\ UNCHANGED <<pending, route, prefer, win>>

\* The question is closed, by the person or with its window: the job is dropped.
Dismissed ==
    /\ route # None
    /\ route.step \in {"Asking", "Withdrawn"}
    /\ fate' = [fate EXCEPT ![route.job] = "Cancelled"]
    /\ Done
    /\ UNCHANGED <<prefer, win>>

\* CancelDecisionQueue() of w, and the end of a question whose window is
\* destroyed under it: it completes as cancelled.
Withdraws(w) ==
    route' = IF route # None /\ route.step = "Asking" /\ route.window = w
             THEN [route EXCEPT !.step = "Withdrawn"] ELSE route
-----------------------------------------------------------------------------
(***************************************************************************)
(* What the windows do meanwhile.                                          *)
(***************************************************************************)
Settle(jobs, how) == fate' = [j \in Job |-> IF j \in jobs THEN how ELSE fate[j]]

Becomes(w, s) == win' = [win EXCEPT ![w] = s]

RouterFrame == UNCHANGED <<pending, prefer>>

\* The session of s is over and settled; what waits behind it starts, and a
\* window with nothing left to do stays or is destroyed.
GoesOn(w, s, stays) ==
    IF s.waiting # <<>>
    THEN Becomes(w, Continued(Ended(s))) /\ UNCHANGED route
    ELSE IF stays /\ s.life = "Open"
    THEN Becomes(w, Ended(s)) /\ UNCHANGED route
    ELSE Becomes(w, Destroyed(s)) /\ Withdraws(w)

\* PublishLivePlan()
PlanReady(w) ==
    /\ win[w].session = "Planning"
    /\ Becomes(w, Refreshed([win[w] EXCEPT !.session = "Copying"]))
    /\ RouterFrame /\ UNCHANGED <<route, fate>>

\* The job of the session cannot be planned, or is handed to an elevated
\* process: what was to join it gets a session of its own.
PlanFails(w) ==
    /\ win[w].session = "Planning"
    /\ Settle(win[w].plan, "Refused")
    /\ \E stays \in BOOLEAN : GoesOn(w, Requeued(win[w], win[w].joining), stays)
    /\ RouterFrame

\* The person declines because the destination is too small: all of it is
\* cancelled.
Declined(w) ==
    /\ win[w].session = "Planning"
    /\ Settle(win[w].plan \cup Range(win[w].joining), "Cancelled")
    /\ GoesOn(w, win[w], FALSE)
    /\ RouterFrame

\* Mutant: the plan takes files for any destination.
FitsAny(s, j) == TRUE

\* LiveCopyPlan::append() compares destination and operation.
Fits(s, j) == Kind[j] = s.kind

\* The planner is through with the first job that is to join; a job that cannot
\* be planned, or does not fit, is refused with a message, and one for a gate
\* that is closed is dropped.
Joins(w) ==
    LET s == win[w] IN
    /\ s.session \in {"Copying", "Interrupted"}
    /\ s.joining # <<>>
    /\ LET j == Head(s.joining) IN
          \/ /\ Fits(s, j) /\ s.accepting
             /\ Becomes(w, [s EXCEPT !.plan = @ \cup {j}, !.joining = Tail(@)])
             /\ UNCHANGED fate
          \/ /\ Becomes(w, [s EXCEPT !.joining = Tail(@)])
             /\ Settle({j}, IF s.accepting THEN "Refused" ELSE "Dropped")
    /\ RouterFrame /\ UNCHANGED route

\* The copy thread is through, for whatever reason, and closes the gate; its
\* result is on the way to the UI thread.
GateCloses(w) ==
    /\ win[w].session = "Copying"
    /\ win[w].accepting
    /\ Becomes(w, [win[w] EXCEPT !.accepting = FALSE])
    /\ RouterFrame /\ UNCHANGED <<route, fate>>

\* FinishCopy() of a session that is done, cancelled or failed; a window with
\* something to say stays.
Finishes(w) ==
    /\ win[w].session = "Copying"
    /\ ~win[w].accepting
    /\ fate' = [j \in Job |-> IF j \in win[w].plan THEN "Finished"
                             ELSE IF j \in Range(win[w].joining) THEN "Dropped"
                             ELSE fate[j]]
    /\ \E stays \in BOOLEAN : GoesOn(w, win[w], stays)
    /\ RouterFrame

\* FinishCopy() of a session that is stopped or has a question: a new gate is
\* opened.  The efficiency vote is cast before what was kept back for the stop
\* goes to the planner; what is at the planner for the old gate is dropped.
Interrupts(w) ==
    /\ win[w].session = "Copying"
    /\ ~win[w].accepting
    /\ LET s == [win[w] EXCEPT !.session = "Interrupted", !.accepting = TRUE,
                               !.joining = <<>>] IN
          \/ /\ Becomes(w, [Refreshed(s) EXCEPT !.joining = win[w].joining])
             /\ UNCHANGED fate
          \/ /\ Becomes(w, Refreshed(s))
             /\ Settle(Range(win[w].joining), "Dropped")
    /\ RouterFrame /\ UNCHANGED route

\* The interrupted session is resumed, or nothing is left of it.
Resumes(w) ==
    /\ win[w].session = "Interrupted"
    /\ win[w].joining = <<>>
    /\ \/ /\ Becomes(w, Refreshed([win[w] EXCEPT !.session = "Copying", !.cancel = FALSE]))
          /\ UNCHANGED <<route, fate>>
       \/ /\ Settle(win[w].plan, "Finished")
          /\ GoesOn(w, win[w], FALSE)
    /\ RouterFrame

\* CancelCurrentSession(): the questions of the window are withdrawn, the
\* router's too; a running session goes on until its thread has noticed.
CancelsSession(w, s, also) ==
    LET t == [s EXCEPT !.joining = <<>>, !.accepting = FALSE, !.cancel = TRUE] IN
    IF Copies(s)
    THEN /\ Becomes(w, t)
         /\ Settle(Range(s.joining) \cup also, "Cancelled")
         /\ Withdraws(w)
    ELSE /\ Settle(s.plan \cup Range(s.joining) \cup also, "Cancelled")
         /\ IF t.waiting # <<>>
            THEN Becomes(w, Continued(Ended(t)))
            ELSE Becomes(w, Destroyed(t))
         /\ Withdraws(w)

Cancels(w) ==
    /\ win[w].life = "Open" /\ Active(win[w])
    /\ CancelsSession(w, win[w], {})
    /\ RouterFrame

\* WM_CLOSE: a window with a session is hidden, its queue cleared and the
\* session cancelled; an idle one is destroyed.
Closes(w) ==
    /\ win[w].life = "Open"
    /\ IF Active(win[w])
       THEN CancelsSession(w, Refreshed([win[w] EXCEPT !.life = "Exiting", !.hidden = TRUE,
                                                       !.waiting = <<>>]),
                           JobsOf(win[w].waiting))
       ELSE /\ Settle(JobsOf(win[w].waiting), "Cancelled")
            /\ Becomes(w, Destroyed(win[w]))
            /\ Withdraws(w)
    /\ RouterFrame

Hides(w) ==
    /\ win[w].life = "Open"
    /\ Becomes(w, Refreshed([win[w] EXCEPT !.hidden = TRUE]))
    /\ RouterFrame /\ UNCHANGED <<route, fate>>

\* ShowPrimaryWindow(): every window with a session, else the newest one.
Busy == {w \in Living : Active(win[w])}
ShowsPrimary ==
    /\ Living # {}
    /\ LET shown == IF Busy # {} THEN Busy ELSE {Max(Living)}
       IN  win' = [w \in Window |-> IF w \in shown THEN Shown(win[w]) ELSE win[w]]
    /\ RouterFrame /\ UNCHANGED <<route, fate>>

\* HandleDropAsync(): files dropped on a window with a session are a job for its
\* destination; they do not go through the router.
Drops(w, j) ==
    /\ fate[j] = "Unknown"
    /\ win[w].life = "Open" /\ Active(win[w]) /\ ~win[w].cancel
    /\ Kind[j] = win[w].kind
    /\ fate' = [fate EXCEPT ![j] = "Live"]
    /\ Becomes(w, IF win[w].accepting
                  THEN [Refreshed(win[w]) EXCEPT !.joining = Append(@, j)]
                  ELSE [Refreshed(win[w]) EXCEPT
                           !.waiting = Append(@, [job |-> j, storage |-> {}])])
    /\ RouterFrame /\ UNCHANGED route

-----------------------------------------------------------------------------
Init ==
    /\ pending = <<>>
    /\ route = None
    /\ prefer = [destination |-> None, device |-> None]
    /\ win = [w \in Window |-> Unborn]
    /\ fate = [j \in Job |-> "Unknown"]

Routes == Resolved \/ Fails \/ Dismissed \/ \E c \in Choice, r \in BOOLEAN : Answer(c, r)

Windows ==
    \E w \in Window :
        \/ PlanReady(w) \/ PlanFails(w) \/ Declined(w) \/ Joins(w) \/ GateCloses(w)
        \/ Finishes(w) \/ Interrupts(w) \/ Resumes(w) \/ Cancels(w) \/ Closes(w)
        \/ Hides(w)
        \/ \E j \in Job : Drops(w, j)

Next == (\E j \in Job : Admit(j)) \/ Routes \/ Windows \/ ShowsPrimary

\* The devices get resolved, and the person answers or dismisses what is asked.
Spec == Init /\ [][Next]_vars /\ WF_vars(Routes)
-----------------------------------------------------------------------------
TypeOK ==
    /\ pending \in Seq(Job)
    /\ route = None \/ route \in Request
    /\ prefer \in [destination : Offered.destination \cup {None},
                   device : Offered.device \cup {None}]
    /\ \A w \in Window :
          /\ win[w].life \in {"Unborn", "Open", "Exiting", "Gone"}
          /\ win[w].session \in Session
          /\ win[w].plan \subseteq Job
    /\ fate \in [Job -> {"Unknown", "Live", "Finished", "Cancelled", "Refused", "Dropped"}]

\* A window copies only what has the destination and the operation of its
\* session.  The router compares them when it asks; by the time the person
\* answers the window may have ended that session and begun another one.
JoinsOwnKind ==
    \A w \in Window : \A j \in win[w].plan : Kind[j] = win[w].kind

\* The places a job is in: one of the router's, or one of a window's.
InWindow(j, w) ==
    LET s == win[w] IN
    (IF j \in s.plan THEN {<<"plan", w, 0>>} ELSE {})
      \cup {<<"joining", w, i>> : i \in {k \in DOMAIN s.joining : s.joining[k] = j}}
      \cup {<<"waiting", w, i>> : i \in {k \in DOMAIN s.waiting : s.waiting[k].job = j}}
Places(j) ==
    {<<"pending", 0, i>> : i \in {k \in DOMAIN pending : pending[k] = j}}
      \cup (IF route # None /\ route.job = j THEN {<<"route", 0, 0>>} ELSE {})
      \cup UNION {InWindow(j, w) : w \in Window}

\* Every job that is admitted is in exactly one place until it is settled: with
\* the router, or with one window, whatever the windows do while it is resolved
\* and asked about.
NothingAstray ==
    \A j \in Job : Cardinality(Places(j)) = IF fate[j] = "Live" THEN 1 ELSE 0

\* The process is not throttled while a window is visible, plans a session or
\* copies (docs/SYSTEM_INTEGRATION.md:52-53).
ThrottledOnlyIdle ==
    Throttled => \A w \in Living : win[w].hidden /\ ~Copies(win[w])

\* A request is not left behind another one whose question came to nothing.
RequestsServed ==
    \A j \in Job : j \in Range(pending) ~> j \notin Range(pending)
=============================================================================
