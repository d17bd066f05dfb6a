---------------------------- MODULE TransferWindow ----------------------------
(***************************************************************************)
(* One transfer window: its UI thread, the copy thread of the session that *)
(* runs, the planner of appended jobs and the dispatcher queue between     *)
(* them.  It says where every job the window has accepted is, from its     *)
(* arrival until it is settled.                                            *)
(*                                                                         *)
(* A handler of the UI thread is one action, apart from the two finalizers *)
(* that read the plan before they lock the append gate.  A gate is read    *)
(* and written under its mutex only, so a wait on it and the decision that *)
(* follows are one action too.                                             *)
(*                                                                         *)
(* What is abstracted.  A job is one item of a plan, and a plan is named   *)
(* by the job it was built for.  JobExecutor::execute() is what that       *)
(* module shows of it: items are done or parked one by one, and a call     *)
(* returns success only when it found nothing left to take.  A session     *)
(* that is paused is one whose thread does not run.  A gate has at most    *)
(* one control in its life, so whether there is one tells controls apart.  *)
(* The window is the only one: a job routed elsewhere never arrives here.  *)
(* Left out: planned directories, the removals of sources a retry repeats, *)
(* elevating what is parked, saved queues, and a dispatcher that is gone.  *)
(***************************************************************************)
EXTENDS Directive, Naturals, SequencesExt

CONSTANTS
    Job, None,
    Occurs,      \* which of Circumstance may happen
    MaxResumes   \* BOUND on the user's answers that resume a session

Circumstance ==
    {"Stop", "Cancel", "Close", "Remove",   \* the user's buttons
     "Asked",      \* the router asks whether a job should wait for this window
     "Elevation", "LowSpace",               \* questions before a transfer
     "Unplannable",                         \* a job that cannot be planned
     "Rejected",   \* append() does not take a plan
     "Conflict", "Fatal", "Parked",         \* what execute() may meet
     "Late",       \* the planner takes longer than the session waits for it
     "Slip"}       \* an append commits between the two looks of a finalizer

ASSUME WindowAssumption ==
    /\ None \notin Job
    /\ Occurs \subseteq Circumstance
    /\ MaxResumes \in Nat

VARIABLES
    interrupted,      \* interrupted_session_
    stopRequested,    \* stop_requested_
    cancelRequested,  \* cancel_requested_, and the stop token of copy_thread_
    control,          \* whether there is an execution_control_
    gate,             \* append_gate_ as an index of gates, or 0
    live,             \* live_plan_
    pendingResume,    \* pending_resume_: "No", "Stopped", or a conflict's answer
    queuedSessions,   \* queued_sessions_
    deferredSame,     \* deferred_same_destination_jobs_
    deferredStopped,  \* deferred_interrupted_jobs_
    dialog,           \* the item the open conflict dialog is about, or None
    closing, closed,  \* tray_exit_requested_; the window is destroyed
    finalizing,       \* a finalizer found the plan empty and goes for the gate
    messages,         \* the DispatcherQueue
    gates,            \* every AppendGate there has been
    directive,        \* of the session's ExecutionControl
    thread,           \* copy_thread_
    planning,         \* requests of append_planner_
    planner,          \* what its worker does
    home,             \* the plan each planned job is in
    fate,             \* what became of each job
    astray,           \* HISTORY: the jobs the code has lost sight of, see Loses
    resumes           \* counts answers

surfaceVars == <<dialog, closing, closed>>
deferVars   == <<deferredSame, deferredStopped>>
stateVars   == <<interrupted, stopRequested, pendingResume>>
sessionVars == <<control, gate, live, cancelRequested>>
windowVars  == <<surfaceVars, deferVars, stateVars, sessionVars, queuedSessions, resumes>>
threadVars  == <<thread, directive>>
plannerVars == <<planning, planner>>
jobVars     == <<home, fate, astray>>
vars == <<windowVars, threadVars, plannerVars, jobVars, finalizing, messages, gates>>

\* What the answer to a conflict says of the next session: ask again, treat all
\* of them alike, or (a job) replace that one.
Prompt == "Prompt"
All == "All"

Result(kind) == [kind |-> kind, conflict |-> None, parked |-> FALSE]
Quiet == [pc |-> "Done", plan |-> None, policy |-> Prompt, result |-> Result("None")]
NoRequest == [job |-> None, plan |-> None, control |-> FALSE, gate |-> 0]
IdlePlanner == [pc |-> "Idle", request |-> NoRequest, answer |-> "None"]

Init ==
    /\ interrupted = "None" /\ stopRequested = FALSE /\ pendingResume = "No"
    /\ cancelRequested = FALSE
    /\ control = FALSE /\ gate = 0 /\ live = None
    /\ queuedSessions = <<>> /\ deferredSame = <<>> /\ deferredStopped = <<>>
    /\ dialog = None /\ closing = FALSE /\ closed = FALSE
    /\ finalizing = FALSE
    /\ messages = <<>>
    /\ gates = <<>>
    /\ directive = "Run"
    /\ thread = Quiet
    /\ planning = <<>> /\ planner = IdlePlanner
    /\ home = [j \in Job |-> None]
    /\ fate = [j \in Job |-> "Outside"]
    /\ astray = {}
    /\ resumes = 0
-----------------------------------------------------------------------------
OpenGate == [accepting |-> TRUE, count |-> 0]
Accepting(gs, g) == g # 0 /\ gs[g].accepting
Shut(gs, g) == IF g = 0 THEN gs ELSE [gs EXCEPT ![g].accepting = FALSE]
Reserve(gs, g) == [gs EXCEPT ![g].count = @ + 1]
Release(gs, g) == [gs EXCEPT ![g].count = IF @ = 0 THEN 0 ELSE @ - 1]
\* How many of the requests hold a reservation of gate g.
Through(requests, g) == Cardinality({i \in DOMAIN requests : requests[i].gate = g})
ReleaseAll(gs, requests) ==
    [g \in DOMAIN gs |->
        [gs[g] EXCEPT !.count =
             IF @ < Through(requests, g) THEN 0 ELSE @ - Through(requests, g)]]

HasActiveTransfer == control \/ interrupted # "None" \/ stopRequested
\* The UI thread takes one message or one click at a time.
UiFree == ~finalizing /\ ~closed

Among(f, p, kinds) == {j \in Job : home[j] = p /\ f[j] \in kinds}
Remaining(p)     == Among(fate, p, {"Pending"})
Unresolved(f, p) == Among(f, p, {"Pending", "Parked"})
Became(f, S, kind) == [j \in Job |-> IF j \in S THEN kind ELSE f[j]]
Jobs(requests) == {requests[i].job : i \in DOMAIN requests}

Post(m) == messages' = Append(messages, m)
FinishMessage(result, handover) ==
    [kind |-> "Finish", result |-> result, handover |-> handover]

\* A step of the code that goes past these jobs, and with it all that would
\* have taken them up.  Only properties read it.
Loses(jobs) == astray' = astray \cup jobs
-----------------------------------------------------------------------------
(***************************************************************************)
(* Sessions start and end.  These say what the handlers below do to the    *)
(* window; gs is what they have made of the gates so far.                  *)
(***************************************************************************)
StartTransfer(j, gs) ==
    /\ interrupted' = "None" /\ stopRequested' = FALSE /\ pendingResume' = "No"
    /\ cancelRequested' = FALSE
    /\ live' = None /\ control' = TRUE
    /\ gates' = Append(gs, OpenGate) /\ gate' = Len(gs) + 1
    /\ directive' = "Run"
    /\ thread' = [Quiet EXCEPT !.pc = "Planning", !.plan = j]

\* The plan the window has is executed by a new thread.
Executes(policy) ==
    /\ interrupted' = "None" /\ stopRequested' = FALSE /\ pendingResume' = "No"
    /\ cancelRequested' = FALSE
    /\ control' = TRUE
    /\ directive' = "Run"
    /\ thread' = [Quiet EXCEPT !.pc = "Executing", !.plan = live, !.policy = policy]
    /\ UNCHANGED <<live, gate>>

StartNextQueuedSession(gs, queue) ==
    /\ queue # <<>>
    /\ StartTransfer(Head(queue), gs)
    /\ queuedSessions' = Tail(queue)
    /\ UNCHANGED <<closing, closed>>

Idles(gs, queue, gone, cancel) ==
    /\ interrupted' = "None" /\ stopRequested' = FALSE /\ pendingResume' = "No"
    /\ cancelRequested' = cancel
    /\ live' = None /\ control' = FALSE
    /\ gates' = gs /\ gate' = 0
    /\ queuedSessions' = queue
    /\ closed' = gone /\ closing' = (closing \/ gone)
    /\ UNCHANGED threadVars

\* The session is gone: the next one starts, or else the window is idle, and
\* some of the handlers destroy it then (gone).
Retires(gs, queue, gone, cancel) ==
    \/ StartNextQueuedSession(gs, queue)
    \/ queue = <<>> /\ Idles(gs, queue, gone, cancel)

\* EnqueueAppend() of jobs that hold no reservation, onto an accepting gate.
Reserves(jobs, ctl, g, gs) ==
    /\ gates' = [gs EXCEPT ![g].count = @ + Len(jobs)]
    /\ planning' = planning \o
           [i \in DOMAIN jobs |->
               [job |-> jobs[i], plan |-> live, control |-> ctl, gate |-> g]]

\* The end of Finalize{Stopped,Conflict}SessionIfEmpty() comes after a look at
\* the plan whose items f tells of.
FinalizeIfEmpty(f) == finalizing' = (Unresolved(f, live) = {})

\* CancelCurrentSession().
CancelCurrentSession(queue, f, closes) ==
    LET gs == Shut(ReleaseAll(gates, planning), gate)
        dropped == ToSet(deferredSame) \cup ToSet(deferredStopped) \cup Jobs(planning)
                       \cup {j \in Job : f[j] = "Asked"}
    IN
    /\ dialog' = None
    /\ deferredSame' = <<>> /\ deferredStopped' = <<>>
    /\ planning' = <<>>
    /\ planner' = IF planner.pc = "Building" THEN [planner EXCEPT !.pc = "Aborting"]
                  ELSE planner
    /\ \/ /\ control
          /\ pendingResume' = "No" /\ cancelRequested' = TRUE
          /\ directive' = After("Cancel", directive)
          /\ gates' = gs
          /\ queuedSessions' = queue
          /\ fate' = Became(f, dropped, "Dropped")
          /\ closing' = (closing \/ closes)
          /\ UNCHANGED <<interrupted, stopRequested, control, gate, live, thread, closed>>
       \/ /\ ~control
          /\ fate' = Became(f, dropped \cup Unresolved(f, live), "Dropped")
          /\ Retires(gs, queue, TRUE, TRUE)
    /\ UNCHANGED <<home, astray, finalizing>>
-----------------------------------------------------------------------------
(***************************************************************************)
(* Jobs arrive.                                                            *)
(***************************************************************************)
Arrives(j) == fate' = [fate EXCEPT ![j] = "Accepted"]
Queue(j) == queuedSessions' = Append(queuedSessions, j)

\* DeliverConvertedJob() finds the window idle.
ArriveIdle(j) ==
    /\ UiFree /\ ~HasActiveTransfer /\ ~closing
    /\ fate[j] = "Outside" /\ Arrives(j)
    /\ StartTransfer(j, gates)
    /\ UNCHANGED <<surfaceVars, deferVars, queuedSessions, resumes, plannerVars, home, astray,
                   finalizing, messages>>

\* A snapshot of an accepting session lets the router append; a drop asks for
\* less.
Appendable ==
    \/ ~closing /\ HasActiveTransfer /\ Accepting(gates, gate)
    \/ ~closing /\ ~cancelRequested /\ gate # 0 /\ (control \/ live # None)

Defers == stopRequested

\* AppendTransfer(): the job is deferred until Stop is through, or, with its
\* reservation, until the plan is published, or it goes to the planner; where
\* the gate is closed it is deferred or queued.
AppendTransfer(j) ==
    \/ /\ Defers
       /\ deferredStopped' = Append(deferredStopped, j)
       /\ UNCHANGED <<deferredSame, queuedSessions, gates, planning>>
    \/ /\ ~Defers /\ Accepting(gates, gate) /\ live = None
       /\ gates' = Reserve(gates, gate)
       /\ deferredSame' = Append(deferredSame, j)
       /\ UNCHANGED <<deferredStopped, queuedSessions, planning>>
    \/ /\ ~Defers /\ Accepting(gates, gate) /\ live # None
       /\ Reserves(<<j>>, control, gate, gates)
       /\ UNCHANGED <<deferVars, queuedSessions>>
    \/ /\ ~Defers /\ ~Accepting(gates, gate)
       /\ IF interrupted # "None"
          THEN deferredStopped' = Append(deferredStopped, j) /\ UNCHANGED queuedSessions
          ELSE Queue(j) /\ UNCHANGED deferredStopped
       /\ UNCHANGED <<deferredSame, gates, planning>>

ArriveAppend(j) ==
    /\ UiFree /\ Appendable
    /\ fate[j] = "Outside" /\ Arrives(j)
    /\ AppendTransfer(j)
    /\ UNCHANGED <<surfaceVars, stateVars, sessionVars, resumes, threadVars, planner, home, astray,
                   finalizing, messages>>

\* The router lets the job wait for the window ...
ArriveWait(j) ==
    /\ UiFree /\ HasActiveTransfer /\ ~closing
    /\ fate[j] = "Outside" /\ Arrives(j)
    /\ Queue(j)
    /\ UNCHANGED <<surfaceVars, deferVars, stateVars, sessionVars, resumes, threadVars,
                   plannerVars, home, astray, finalizing, messages, gates>>

\* ... or asks first, in a dialog of the window; the answer only looks whether
\* the window is still there, and routes the job anew when it is not.  When it is
\* there without a session the job is queued for one that may never come.
AskToWait(j) ==
    /\ "Asked" \in Occurs
    /\ UiFree /\ HasActiveTransfer /\ ~closing
    /\ fate[j] = "Outside"
    /\ fate' = [fate EXCEPT ![j] = "Asked"]
    /\ UNCHANGED <<windowVars, threadVars, plannerVars, home, astray, finalizing, messages,
                   gates>>

AnswerToWait(j) ==
    /\ ~finalizing /\ fate[j] = "Asked"
    /\ \/ /\ ~closed /\ Arrives(j) /\ Queue(j)
          /\ Loses(IF HasActiveTransfer THEN {} ELSE {j})
       \/ /\ closed /\ fate' = [fate EXCEPT ![j] = "Outside"]
          /\ UNCHANGED <<queuedSessions, astray>>
    /\ UNCHANGED <<surfaceVars, deferVars, stateVars, sessionVars, resumes, threadVars,
                   plannerVars, home, finalizing, messages, gates>>
-----------------------------------------------------------------------------
(***************************************************************************)
(* The user's buttons and answers.                                         *)
(***************************************************************************)
OnStopClick ==
    /\ "Stop" \in Occurs /\ UiFree
    /\ control /\ interrupted = "None" /\ ~stopRequested
    /\ pendingResume' = "No" /\ stopRequested' = TRUE
    /\ directive' = After("Stop", directive)
    /\ UNCHANGED <<surfaceVars, deferVars, interrupted, sessionVars, queuedSessions, resumes,
                   thread, plannerVars, jobVars, finalizing, messages, gates>>

OnCancelClick ==
    /\ "Cancel" \in Occurs /\ UiFree /\ HasActiveTransfer
    /\ CancelCurrentSession(queuedSessions, fate, FALSE)
    /\ UNCHANGED <<resumes, messages>>

\* WM_CLOSE: the window gives up all its work, the queued jobs too.
CancelAndCloseWindow ==
    /\ "Close" \in Occurs /\ UiFree /\ HasActiveTransfer /\ ~closing
    /\ CancelCurrentSession(<<>>, Became(fate, ToSet(queuedSessions), "Dropped"), TRUE)
    /\ UNCHANGED <<resumes, messages>>

OnQueueRemoveClick ==
    /\ "Remove" \in Occurs /\ UiFree /\ live # None
    /\ \E S \in SUBSET Remaining(live) \ {{}} :
           LET f == Became(fate, S, "Removed") IN
           /\ fate' = f
           /\ IF interrupted \in {"Stopped", "Conflict"} THEN FinalizeIfEmpty(f)
              ELSE UNCHANGED finalizing
    /\ UNCHANGED <<windowVars, threadVars, plannerVars, home, astray, messages, gates>>

\* ResumeStoppedCopy() and ResumeConflictCopy(): wait for the planner, give up
\* an empty plan, or go on.
Resume(policy, f) ==
    \/ /\ gate # 0 /\ gates[gate].count # 0
       /\ pendingResume' = policy
       /\ UNCHANGED <<interrupted, stopRequested, sessionVars, threadVars, finalizing>>
    \/ /\ gate = 0 \/ gates[gate].count = 0
       /\ Unresolved(f, live) = {}
       /\ pendingResume' = "No"
       /\ finalizing' = TRUE
       /\ UNCHANGED <<interrupted, stopRequested, sessionVars, threadVars>>
    \/ /\ gate = 0 \/ gates[gate].count = 0
       /\ Unresolved(f, live) # {}
       /\ Executes(IF policy = "Stopped" THEN Prompt ELSE policy)
       /\ UNCHANGED finalizing

OnResumeClick ==
    /\ UiFree /\ interrupted = "Stopped" /\ live # None
    /\ pendingResume = "No" \* the button is off while it waits
    /\ resumes < MaxResumes /\ resumes' = resumes + 1
    /\ Resume("Stopped", fate)
    /\ UNCHANGED <<surfaceVars, deferVars, queuedSessions, plannerVars, jobVars, messages,
                   gates>>

\* ShowConflictDialogAsync() goes on with Replace, Replace all or Skip; Skip of
\* a file that is no longer pending cancels the session, and so does Cancel.
AnswerConflict ==
    /\ UiFree /\ ~closing
    /\ dialog # None /\ interrupted = "Conflict" /\ live # None
    /\ resumes < MaxResumes /\ resumes' = resumes + 1
    /\ UNCHANGED messages
    /\ \/ \E policy \in {All, dialog} :
              /\ dialog' = None
              /\ Resume(policy, fate)
              /\ UNCHANGED <<closing, closed, deferVars, queuedSessions, plannerVars,
                             jobVars, gates>>
       \/ /\ fate[dialog] = "Pending"
          /\ dialog' = None
          /\ fate' = [fate EXCEPT ![dialog] = "Removed"]
          /\ Resume(Prompt, fate')
          /\ UNCHANGED <<closing, closed, deferVars, queuedSessions, plannerVars, home,
                         astray, gates>>
       \/ /\ fate[dialog] # "Pending" \/ "Cancel" \in Occurs
          /\ CancelCurrentSession(queuedSessions, fate, FALSE)
-----------------------------------------------------------------------------
(***************************************************************************)
(* Sessions end.                                                           *)
(***************************************************************************)
\* FinishCopy() of a result that interrupts the session: a new gate, and the
\* jobs that are appended through it.
Interrupts(state, jobs) ==
    /\ interrupted' = state /\ stopRequested' = FALSE /\ pendingResume' = "No"
    /\ control' = FALSE
    /\ deferredSame' = <<>>
    /\ gate' = Len(gates) + 1
    /\ Reserves(jobs, FALSE, gate', Append(gates, OpenGate))
    /\ UNCHANGED <<live, cancelRequested, closing, closed, queuedSessions, threadVars,
                   planner>>

Owned(f) == Unresolved(f, thread.plan)
                \cup {j \in Job : j = thread.plan /\ f[j] = "Accepted"}

\* FinishCopy() of a result that ends it; f is what became of the jobs.  A
\* window may stay to show what a success left to say.  A stop that the thread
\* did not hear of in time has deferred jobs that nobody looks for here.
Ends(kind, deferred, queue, f) ==
    LET gs == Shut(gates, gate) IN
    /\ deferredSame' = <<>>
    /\ \/ /\ kind = "Cancelled"
          /\ deferredStopped' = <<>>
          /\ fate' = Became(f, Owned(f) \cup ToSet(deferred) \cup ToSet(deferredStopped),
                            "Dropped")
          /\ Retires(gs, queue, TRUE, cancelRequested)
          /\ UNCHANGED astray
       \/ /\ kind = "Failed"
          /\ fate' = Became(f, Owned(f), "Refused")
          /\ Retires(gs, deferred \o queue, FALSE, cancelRequested)
          /\ Loses(ToSet(deferredStopped)) /\ UNCHANGED deferredStopped
       \/ /\ kind = "Success"
          /\ fate' = f
          /\ \E gone \in BOOLEAN : Retires(gs, deferred \o queue, gone, cancelRequested)
          /\ Loses(ToSet(deferredStopped)) /\ UNCHANGED deferredStopped
    /\ UNCHANGED <<dialog, plannerVars>>

\* Mutant: a stop that was overtaken by a cancel still counts as a stop.
StopsAnyway(result) == result.kind = "Stopped"

Stops(result) == result.kind = "Stopped" /\ ~cancelRequested

\* FinishCopy(): the kinds of result are told apart in this order.
FinishCopy(result, deferred, queue) ==
    LET stopped == Stops(result)
        conflict == result.conflict # None /\ live # None
        parked == result.parked /\ live # None
        kind == IF result.kind = "Stopped" THEN "Cancelled" ELSE result.kind
    IN
    \/ /\ stopped
       /\ Interrupts("Stopped", deferredStopped)
       /\ deferredStopped' = <<>>
       /\ finalizing' = (Unresolved(fate, live) = {})
       /\ UNCHANGED <<dialog, fate, astray>>
    \/ /\ ~stopped /\ conflict
       /\ Interrupts("Conflict", deferred \o deferredStopped)
       /\ deferredStopped' = <<>>
       /\ dialog' = IF closing THEN None ELSE result.conflict
       /\ UNCHANGED <<fate, astray, finalizing>>
    \/ /\ ~stopped /\ ~conflict /\ parked
       /\ Interrupts("Decision", <<>>)
       /\ UNCHANGED <<dialog, deferredStopped, fate, astray, finalizing>>
    \/ /\ ~stopped /\ ~conflict /\ ~parked
       /\ Ends(kind, deferred, queue, fate)
       /\ UNCHANGED finalizing

\* ResumeParkedFailures() and ResolveParkedFailures(), the answers to
\* ShowRetryDecisionAsync().
AnswerDecision ==
    /\ UiFree /\ ~closing /\ interrupted = "Decision" /\ live # None
    /\ resumes < MaxResumes /\ resumes' = resumes + 1
    /\ LET parked == Among(fate, live, {"Parked"})
           settled == Became(fate, parked, "Done")
       IN
       \/ /\ fate' = Became(fate, parked, "Pending")
          /\ Executes(Prompt)
          /\ UNCHANGED <<dialog, closing, closed, deferVars, queuedSessions, plannerVars,
                         astray, gates>>
       \/ /\ gates[gate].count # 0 \/ Remaining(live) # {}
          /\ fate' = settled
          /\ Executes(Prompt)
          /\ UNCHANGED <<dialog, closing, closed, deferVars, queuedSessions, plannerVars,
                         astray, gates>>
       \/ /\ gates[gate].count = 0 /\ Remaining(live) = {}
          /\ Ends("Success", deferredSame, queuedSessions, settled)
    /\ UNCHANGED <<home, finalizing, messages>>

\* The rest of a finalizer, under the gate's mutex.
FinalizeSession ==
    /\ finalizing /\ finalizing' = FALSE
    /\ \/ /\ gates[gate].count # 0
          /\ UNCHANGED <<windowVars, threadVars, gates>>
       \/ /\ gates[gate].count = 0
          /\ Retires(Shut(gates, gate), queuedSessions, TRUE, cancelRequested)
          /\ dialog' = None \* an open one would find its session gone
          /\ UNCHANGED <<deferVars, resumes>>
    /\ UNCHANGED <<plannerVars, jobVars, messages>>
-----------------------------------------------------------------------------
(***************************************************************************)
(* The DispatcherQueue.                                                    *)
(***************************************************************************)
Message(kind) ==
    /\ UiFree /\ messages # <<>> /\ Head(messages).kind = kind
    /\ messages' = Tail(messages)

Publishes ==
    /\ Message("Publish")
    /\ live' = Head(messages).plan
    /\ planning' = planning \o
           [i \in DOMAIN deferredSame |->
               [job |-> deferredSame[i], plan |-> live', control |-> control, gate |-> gate]]
    /\ UNCHANGED <<surfaceVars, deferredStopped, stateVars, control, gate, cancelRequested,
                   queuedSessions, resumes, threadVars, planner, jobVars, finalizing>>

\* Mutant: jobs published with the plan are reserved a second time.
PublishLivePlanReserves ==
    /\ Publishes
    /\ deferredSame' = <<>>
    /\ gates' = [gates EXCEPT ![gate].count = @ + Len(deferredSame)]

\* The jobs that waited for the plan are appended with the reservations they have.
PublishLivePlan ==
    /\ Publishes
    /\ deferredSame' = <<>>
    /\ UNCHANGED gates

\* A job that would need another process leaves what was deferred to the queue.
Finishes ==
    /\ Message("Finish")
    /\ LET m == Head(messages) IN
       IF m.handover THEN FinishCopy(m.result, <<>>, deferredSame \o queuedSessions)
       ELSE FinishCopy(m.result, deferredSame, queuedSessions)
    /\ UNCHANGED <<resumes, home>>

Untouched ==
    /\ UNCHANGED <<stateVars, sessionVars, threadVars, finalizing>>

\* Mutant: a resume that waited for the planner is forgotten.
ContinueForgetsResume ==
    \/ /\ interrupted \in {"Stopped", "Conflict"}
       /\ FinalizeIfEmpty(fate)
       /\ UNCHANGED <<stateVars, sessionVars, threadVars>>
    \/ interrupted \notin {"Stopped", "Conflict"} /\ Untouched

\* ContinueInterruptedSessionAfterPlanning().
Continue ==
    \/ /\ interrupted = "Stopped" /\ pendingResume = "Stopped"
       /\ Resume("Stopped", fate)
    \/ /\ interrupted = "Conflict" /\ pendingResume \notin {"No", "Stopped"}
       /\ Resume(pendingResume, fate)
    \/ /\ interrupted \in {"Stopped", "Conflict"} /\ pendingResume = "No"
       /\ FinalizeIfEmpty(fate)
       /\ UNCHANGED <<stateVars, sessionVars, threadVars>>
    \/ interrupted \notin {"Stopped", "Conflict"} /\ Untouched

\* What the planner reports is for the session it planned for only.
PlannerReports ==
    /\ \/ /\ Message("Appended")
          /\ LET r == Head(messages).request IN
             IF live = r.plan /\ control = r.control /\ gate = r.gate
             THEN Continue ELSE Untouched
       \/ /\ Message("PlanFailed")
          /\ IF gate = Head(messages).request.gate THEN Continue ELSE Untouched
    /\ UNCHANGED <<surfaceVars, deferVars, queuedSessions, resumes, plannerVars, jobVars,
                   gates>>
-----------------------------------------------------------------------------
(***************************************************************************)
(* The copy thread: what StartTransfer() gives it to do, then the loop of  *)
(* RunLivePlanSession().                                                   *)
(***************************************************************************)
ThreadPosts(result, handover) ==
    /\ Post(FinishMessage(result, handover))
    /\ thread' = [Quiet EXCEPT !.plan = thread.plan]

ThreadFrame == UNCHANGED <<windowVars, plannerVars, finalizing>>

ThreadPlans ==
    /\ thread.pc = "Planning"
    /\ \/ /\ home' = [home EXCEPT ![thread.plan] = thread.plan]
          /\ fate' = [fate EXCEPT ![thread.plan] = "Pending"]
          /\ UNCHANGED astray
          /\ thread' = [thread EXCEPT !.pc = "Planned"]
          /\ UNCHANGED <<messages, gates>>
       \/ /\ cancelRequested \/ "Unplannable" \in Occurs
          /\ gates' = Shut(gates, gate)
          /\ ThreadPosts(Result(IF cancelRequested THEN "Cancelled" ELSE "Failed"), FALSE)
          /\ UNCHANGED jobVars
    /\ UNCHANGED directive /\ ThreadFrame

\* The plan is published and executed.
ThreadBegins ==
    /\ Post([kind |-> "Publish", plan |-> thread.plan])
    /\ thread' = [thread EXCEPT !.pc = "Executing"]
    /\ UNCHANGED <<directive, gates>>

\* The job ends before it has copied anything.
ThreadGivesUp(result, handover) ==
    /\ directive' = After("Cancel", directive)
    /\ gates' = Shut(gates, gate)
    /\ ThreadPosts(result, handover)

ThreadPlanned ==
    /\ thread.pc = "Planned"
    /\ \/ /\ cancelRequested
          /\ directive' = After("Cancel", directive)
          /\ ThreadPosts(Result("Cancelled"), FALSE)
          /\ UNCHANGED gates
       \/ ~cancelRequested /\ ThreadBegins
       \/ /\ ~cancelRequested
          /\ \E question \in {"Elevation", "LowSpace"} \cap Occurs :
                 thread' = [thread EXCEPT !.pc = question]
          /\ UNCHANGED <<directive, gates, messages>>
    /\ UNCHANGED jobVars /\ ThreadFrame

\* PreflightAnswer::wait(): a cancel answers for the user.
ThreadUnasked ==
    /\ thread.pc \in {"Elevation", "LowSpace"} /\ cancelRequested
    /\ ThreadGivesUp(Result("Cancelled"), thread.pc = "Elevation")
    /\ UNCHANGED jobVars /\ ThreadFrame

\* A job for an elevated process never goes on here, whether it is handed over,
\* declined, or cannot be handed over.
AnswerElevation ==
    /\ thread.pc = "Elevation" /\ UiFree
    /\ \E kind \in {"Cancelled", "Failed"} : ThreadGivesUp(Result(kind), TRUE)
    /\ UNCHANGED jobVars /\ ThreadFrame

AnswerLowSpace ==
    /\ thread.pc = "LowSpace" /\ UiFree
    /\ \/ ~cancelRequested /\ ThreadBegins
       \/ ThreadGivesUp(Result("Cancelled"), FALSE)
    /\ UNCHANGED jobVars /\ ThreadFrame

\* One item of the plan; one a worker holds may still end after a stop.
ThreadCopies ==
    /\ thread.pc = "Executing"
    /\ \E j \in Remaining(thread.plan), end \in {"Done"} \cup ({"Parked"} \cap Occurs) :
           fate' = [fate EXCEPT ![j] = end]
    /\ UNCHANGED <<home, astray, threadVars, messages, gates>> /\ ThreadFrame

\* execute() returns; it counts what is parked.
ThreadReturns(kind, conflict) ==
    thread' = [thread EXCEPT !.pc = "Returned",
                   !.policy = IF @ \in Job THEN Prompt ELSE @,
                   !.result = [kind |-> kind, conflict |-> conflict,
                               parked |-> Among(fate, thread.plan, {"Parked"}) # {}]]

ThreadFails ==
    /\ thread.pc = "Executing"
    /\ \/ /\ "Conflict" \in Occurs /\ thread.policy # All
          /\ \E j \in Remaining(thread.plan) \ {thread.policy} : ThreadReturns("Failed", j)
       \/ "Fatal" \in Occurs /\ ThreadReturns("Failed", None)
    /\ directive' = After("Cancel", directive)
    /\ UNCHANGED <<jobVars, messages, gates>> /\ ThreadFrame

Ending == CASE directive = "Stop" -> "Stopped" [] directive = "Cancel" -> "Cancelled"
            [] OTHER -> "Success"

ThreadStops ==
    /\ thread.pc = "Executing"
    /\ \/ directive = "Run" /\ Remaining(thread.plan) = {}
          /\ thread' = [thread EXCEPT !.pc = "Drained"]
       \/ directive # "Run" /\ ThreadReturns(Ending, None)
    /\ UNCHANGED <<directive, jobVars, messages, gates>> /\ ThreadFrame

ThreadDrained ==
    /\ thread.pc = "Drained"
    /\ ThreadReturns(Ending, None)
    /\ UNCHANGED <<directive, jobVars, messages, gates>> /\ ThreadFrame

ThreadGivesResult(result, gs) ==
    /\ gates' = Shut(gs, gate)
    /\ ThreadPosts(result, FALSE)

\* Mutant: a success is a success, whatever was appended meanwhile.
ThreadSettlesAtOnce(gs) ==
    /\ ThreadGivesResult(IF cancelRequested THEN Result("Cancelled") ELSE thread.result, gs)
    /\ UNCHANGED directive

\* What the loop makes of a success or a stop once nothing is being planned or
\* the gate is closed.
ThreadSettles(gs) ==
    LET stopped == thread.result.kind = "Stopped"
        cancelled == cancelRequested \/ (stopped /\ directive = "Cancel")
    IN
    \/ /\ cancelled
       /\ directive' = After("Cancel", directive)
       /\ ThreadGivesResult(Result("Cancelled"), gs)
    \/ /\ ~cancelled /\ stopped
       /\ ThreadGivesResult(thread.result, gs)
       /\ UNCHANGED directive
    \/ /\ ~cancelled /\ ~stopped /\ ~Accepting(gs, gate)
       /\ ThreadGivesResult(IF directive = "Run" THEN thread.result ELSE Result(Ending), gs)
       /\ UNCHANGED directive
    \/ /\ ~cancelled /\ ~stopped /\ Accepting(gs, gate)
       /\ Remaining(thread.plan) # {}
       /\ thread' = [thread EXCEPT !.pc = "Executing", !.result = Result("None")]
       /\ gates' = gs
       /\ UNCHANGED <<directive, messages>>
    \/ /\ ~cancelled /\ ~stopped /\ Accepting(gs, gate)
       /\ Remaining(thread.plan) = {}
       /\ ThreadGivesResult(thread.result, gs)
       /\ UNCHANGED directive

ThreadReturned ==
    /\ thread.pc = "Returned"
    /\ IF thread.result.kind \in {"Cancelled", "Failed"}
       THEN ThreadGivesResult(thread.result, gates) /\ UNCHANGED directive
       ELSE IF gates[gate].count # 0 /\ Accepting(gates, gate)
       THEN thread' = [thread EXCEPT !.pc = "Waiting"]
            /\ UNCHANGED <<directive, messages, gates>>
       ELSE ThreadSettles(gates)
    /\ UNCHANGED jobVars /\ ThreadFrame

\* Mutant: the wait has no limit.
ThreadWaitsUnbounded ==
    /\ thread.pc = "Waiting"
    /\ gates[gate].count = 0 \/ ~Accepting(gates, gate)
    /\ ThreadSettles(gates)
    /\ UNCHANGED jobVars /\ ThreadFrame

\* BoundedCondition::wait(): the planner is through, the gate is closed, or
\* eight seconds are over, which closes it; a success then stands whatever has
\* been appended to the plan while the thread was waiting for more.
ThreadWaits ==
    /\ thread.pc = "Waiting"
    /\ \/ /\ gates[gate].count = 0 \/ ~Accepting(gates, gate)
          /\ ThreadSettles(gates)
          /\ UNCHANGED astray
       \/ /\ "Late" \in Occurs
          /\ gates[gate].count # 0 /\ Accepting(gates, gate)
          /\ ThreadSettles(Shut(gates, gate))
          /\ Loses(IF thread.result.kind = "Success" /\ directive = "Run"
                   THEN Remaining(thread.plan) ELSE {})
    /\ UNCHANGED <<home, fate>> /\ ThreadFrame

Thread ==
    \/ ThreadPlans \/ ThreadPlanned \/ ThreadUnasked \/ ThreadCopies \/ ThreadFails
    \/ ThreadStops \/ ThreadDrained \/ ThreadReturned \/ ThreadWaits
-----------------------------------------------------------------------------
(***************************************************************************)
(* The planner: JobPlanningWorker::run() and the callback of EnqueueAppend.*)
(***************************************************************************)
PlannerFrame == UNCHANGED <<windowVars, threadVars, finalizing>>

PlannerTakes ==
    /\ planner.pc = "Idle" /\ planning # <<>>
    /\ planner' = [IdlePlanner EXCEPT !.pc = "Building", !.request = Head(planning)]
    /\ planning' = Tail(planning)
    /\ UNCHANGED <<jobVars, messages, gates>> /\ PlannerFrame

PlannerBuilds ==
    /\ \/ /\ planner.pc = "Building"
          /\ \E answer \in {"Plan"} \cup (IF "Unplannable" \in Occurs THEN {"Fail"} ELSE {}) :
                 planner' = [planner EXCEPT !.pc = "Answering", !.answer = answer]
       \/ /\ planner.pc = "Aborting"
          /\ planner' = [planner EXCEPT !.pc = "Answering", !.answer = "Abort"]
    /\ UNCHANGED <<planning, jobVars, messages, gates>> /\ PlannerFrame

\* A plan is committed while its gate accepts; then its reservation is released.
\* A finalizer that has found the plan empty does not look again.
PlannerCommits(j, r) ==
    /\ Accepting(gates, r.gate)
    /\ finalizing => "Slip" \in Occurs
    /\ \/ /\ fate' = [fate EXCEPT ![j] = "Pending"]
          /\ home' = [home EXCEPT ![j] = r.plan]
          /\ Loses(IF finalizing THEN {j} ELSE {})
       \/ /\ "Rejected" \in Occurs
          /\ fate' = [fate EXCEPT ![j] = "Refused"]
          /\ UNCHANGED <<home, astray>>
    /\ planner' = [planner EXCEPT !.pc = "Posting"]

PlannerAnswers ==
    /\ planner.pc = "Answering"
    /\ LET r == planner.request
           j == r.job
       IN
       /\ gates' = Release(gates, r.gate)
       /\ \/ /\ planner.answer = "Plan"
             /\ PlannerCommits(j, r)
          \/ /\ \/ planner.answer = "Abort"
                \/ planner.answer = "Plan" /\ ~Accepting(gates, r.gate)
             /\ fate' = [fate EXCEPT ![j] = "Dropped"]
             /\ planner' = IdlePlanner
             /\ UNCHANGED <<home, astray>>
          \/ /\ planner.answer = "Fail"
             /\ fate' = [fate EXCEPT ![j] = "Refused"]
             /\ planner' = [planner EXCEPT !.pc = "Posting"]
             /\ UNCHANGED <<home, astray>>
    /\ UNCHANGED <<planning, messages>> /\ PlannerFrame

PlannerPosts ==
    /\ planner.pc = "Posting"
    /\ Post([kind |-> IF planner.answer = "Plan" THEN "Appended" ELSE "PlanFailed",
             request |-> planner.request])
    /\ planner' = IdlePlanner
    /\ UNCHANGED <<planning, jobVars, gates>> /\ PlannerFrame

Planner == PlannerTakes \/ PlannerBuilds \/ PlannerAnswers \/ PlannerPosts
-----------------------------------------------------------------------------
Dispatch == PublishLivePlan \/ Finishes \/ PlannerReports \/ FinalizeSession

User ==
    \/ OnStopClick \/ OnCancelClick \/ CancelAndCloseWindow \/ OnQueueRemoveClick
    \/ OnResumeClick \/ AnswerConflict \/ AnswerDecision
    \/ AnswerElevation \/ AnswerLowSpace

Router ==
    \E j \in Job : ArriveIdle(j) \/ ArriveAppend(j) \/ ArriveWait(j)
                       \/ AskToWait(j) \/ AnswerToWait(j)

Next == Dispatch \/ User \/ Router \/ Thread \/ Planner

\* The copy thread runs and the UI thread takes its messages; nobody makes the
\* user answer, and a planner may be stuck in the file system for ever.
Spec == Init /\ [][Next]_vars /\ WF_vars(Thread) /\ WF_vars(Dispatch)
-----------------------------------------------------------------------------
(***************************************************************************)
(* Properties.                                                             *)
(***************************************************************************)
Fate == {"Outside", "Asked", "Accepted", "Pending", "Parked", "Done", "Removed",
         "Refused", "Dropped"}

\* Every variable has its type; what is deferred for an interrupted session has
\* gone into it, so that ResumeConflictCopy() never finds any of it.
TypeOK ==
    /\ interrupted \in {"None", "Stopped", "Conflict", "Decision"}
    /\ pendingResume \in {"No", "Stopped", Prompt, All} \cup Job
    /\ {stopRequested, cancelRequested, control, closing, closed, finalizing}
           \subseteq BOOLEAN
    /\ gates \in Seq([accepting : BOOLEAN, count : Nat])
    /\ gate \in 0..Len(gates)
    /\ {live, dialog} \subseteq Job \cup {None}
    /\ directive \in {"Run", "Stop", "Cancel"}
    /\ home \in [Job -> Job \cup {None}] /\ fate \in [Job -> Fate]
    /\ interrupted \in {"Stopped", "Conflict"} => deferredStopped = <<>>

\* The reservations an open gate counts are the jobs on their way through it:
\* those that wait for the plan, and the planner's.  One too few and the session
\* ends before its append; one too many and it waits for nothing.
ReservationsCounted ==
    \A g \in DOMAIN gates : gates[g].accepting =>
        gates[g].count =
              Through(planning, g)
            + (IF planner.request.gate = g /\ planner.pc \in {"Building", "Aborting", "Answering"}
               THEN 1 ELSE 0)
            + (IF gate = g THEN Len(deferredSame) ELSE 0)

\* Only the gate of the window's present session is ever open, and only while
\* there is a session that will look at what comes through it.
OpenGateHasOwner ==
    \A g \in DOMAIN gates : gates[g].accepting => g = gate /\ HasActiveTransfer

\* Together: a job that the window sends through a gate finds a session that
\* waits for it, and no session waits for more.
GatesSound == ReservationsCounted /\ OpenGateHasOwner

\* The containers of jobs that are not planned yet.
Waiting == queuedSessions \o deferredSame \o deferredStopped
               \o [i \in DOMAIN planning |-> planning[i].job]
               \o (IF planner.pc \in {"Building", "Aborting", "Answering"}
                   THEN <<planner.request.job>> ELSE <<>>)

\* A job that the window has accepted and that is not settled can still be
\* reached when it waits somewhere, is what the copy thread works on, or is in
\* the plan of an interrupted session.
Unsettled == {j \in Job : fate[j] \in {"Accepted", "Pending", "Parked"}}
Reached(j) ==
    \/ j \in ToSet(Waiting)
    \/ control /\ thread.plan \in {j, home[j]}
    \/ interrupted # "None" /\ live = home[j]

\* What docs/IMPLEMENTATION_LINE.md:282 leaves no room for: each of them can be
\* reached, also one that was appended before the wait for the planner ended.
NothingLost == \A j \in Unsettled : Reached(j)

\* No interleaving of the appends, the end of a session and the user's buttons
\* loses a job between two of them, but for the four steps of the code that go
\* past one (Loses): the wait for the planner ends and a success stands, an
\* append commits behind the look of a finalizer, a session ends that a stop
\* came too late for, the answer to a routing question finds a window without a
\* session.
NothingElseLost == \A j \in Unsettled \ astray : Reached(j)

\* ... and nowhere is it twice, which would copy it twice.
NothingTwice ==
    /\ IsInjective(Waiting)
    /\ \A j \in ToSet(Waiting) : fate[j] = "Accepted"
    /\ control => thread.plan \notin ToSet(Waiting)

\* A window without a session has nothing that should have started, in any of its
\* three queues, but what one of those steps has left there.
NoIdleWork ==
    ~HasActiveTransfer /\ UiFree =>
        /\ deferredSame = <<>>
        /\ ToSet(queuedSessions) \cup ToSet(deferredStopped) \subseteq astray

\* Together: every accepted job is in one place, and something is at work there
\* that will take it up, or one of the four steps is why not.
JobsExact == NothingElseLost /\ NothingTwice /\ NoIdleWork

\* A session the user cancelled is never offered for resumption as a stopped
\* one, whichever of the two buttons was pressed first and whatever the thread
\* had made of it by then.
CancelOverStop == interrupted = "Stopped" => ~cancelRequested

\* The thread of a session comes to an end, also when the planner never answers.
SessionFinishes ==
    thread.pc \in {"Executing", "Drained", "Returned", "Waiting"} ~> thread.pc = "Done"

\* A resume that waits for the planner takes place, or is withdrawn, if the
\* planner answers.
ResumeHonoured ==
    WF_vars(Planner) => (pendingResume # "No" ~> pendingResume = "No")
=============================================================================
