-------------------------- MODULE ExecutionControl --------------------------
(***************************************************************************)
(* The control block of one session, down to its mutex and condition       *)
(* variable: the window requests, the workers read the directive, wait     *)
(* while it is Pause, back off before a retry and consume skips.           *)
(*                                                                         *)
(* A critical section is one action.  notify_all() is called after the     *)
(* mutex is released, so it is an action of its own: notifying holds the   *)
(* threads between the two.  A waiter that finds its predicate false goes  *)
(* to sleep and gives the mutex up in one step, and may wake by itself.    *)
(* reset() is left out: only tests call it, every session has a control    *)
(* block of its own.                                                       *)
(***************************************************************************)
EXTENDS Directive

CONSTANTS Thread, File

VARIABLES
    directive,   \* directive_
    skips,       \* skip_file_ids_
    hasSkips,    \* has_pending_skips_
    notifying,   \* threads about to call notify_all
    pc,          \* where each thread is
    expired      \* threads in wait_for_retry whose deadline has passed

controlVars == <<directive, skips, hasSkips, notifying, pc, expired>>
waitVars == <<pc, expired>>

\* Idle: outside.  Waiting / Asleep: about to test the predicate of
\* wait_while_paused / blocked in it.  Retry.. : the first wait of
\* wait_for_retry; Timed..: its wait_until.
Asleep == {"Asleep", "RetryAsleep", "TimedAsleep"}
Location == {"Idle", "Waiting", "RetryWaiting", "TimedWaiting"} \cup Asleep

ControlInit ==
    /\ directive = "Run"
    /\ skips = {}
    /\ hasSkips = FALSE
    /\ notifying = {}
    /\ pc = [t \in Thread |-> "Idle"]
    /\ expired = {}

Free(t) == pc[t] = "Idle" /\ t \notin notifying
-----------------------------------------------------------------------------
\* The four requests.  The directive is the one the thread finds once it has
\* the mutex.
RequestChange(t, request) ==
    /\ Free(t)
    /\ directive' = After(request, directive)
    /\ notifying' = IF Notifies(request, directive) THEN notifying \cup {t} ELSE notifying
    /\ skips' = IF request = "Cancel" THEN {} ELSE skips
    /\ hasSkips' = IF request = "Cancel" THEN FALSE ELSE hasSkips
    /\ UNCHANGED waitVars

Woken(p) == CASE p = "Asleep"      -> "Waiting"
              [] p = "RetryAsleep" -> "RetryWaiting"
              [] p = "TimedAsleep" -> "TimedWaiting"
              [] OTHER             -> p

\* Mutant: one waiter is notified instead of all of them.
NotifyOne(t) ==
    /\ t \in notifying
    /\ notifying' = notifying \ {t}
    /\ \E s \in Thread :
          /\ (\E u \in Thread : pc[u] \in Asleep) => pc[s] \in Asleep
          /\ pc' = [pc EXCEPT ![s] = Woken(@)]
    /\ UNCHANGED <<directive, skips, hasSkips, expired>>

NotifyAll(t) ==
    /\ t \in notifying
    /\ notifying' = notifying \ {t}
    /\ pc' = [s \in Thread |-> Woken(pc[s])]
    /\ UNCHANGED <<directive, skips, hasSkips, expired>>

\* request_skip(): advisory, refused once the session is ending.
RequestSkip(t, file) ==
    /\ Free(t)
    /\ directive \in {"Run", "Pause"}
    /\ skips' = skips \cup {file}
    /\ hasSkips' = TRUE
    /\ UNCHANGED <<directive, notifying, waitVars>>

\* Mutant: taking one skip hides the others.
ConsumeSkipHidesRest(t, file) ==
    /\ Free(t)
    /\ hasSkips
    /\ file \in skips
    /\ skips' = skips \ {file}
    /\ hasSkips' = FALSE
    /\ UNCHANGED <<directive, notifying, waitVars>>

\* consume_skip() that returns true.
ConsumeSkip(t, file) ==
    /\ Free(t)
    /\ hasSkips
    /\ file \in skips
    /\ skips' = skips \ {file}
    /\ hasSkips' = (skips' # {})
    /\ UNCHANGED <<directive, notifying, waitVars>>
-----------------------------------------------------------------------------
Move(t, to) == pc' = [pc EXCEPT ![t] = to]

\* wait_while_paused().
Enter(t) ==
    /\ Free(t)
    /\ Move(t, "Waiting")
    /\ UNCHANGED <<directive, skips, hasSkips, notifying, expired>>

Test(t) ==
    /\ pc[t] = "Waiting"
    /\ Move(t, IF directive = "Pause" THEN "Asleep" ELSE "Idle")
    /\ UNCHANGED <<directive, skips, hasSkips, notifying, expired>>

\* wait_for_retry().
EnterRetry(t) ==
    /\ Free(t)
    /\ Move(t, "RetryWaiting")
    /\ expired' = expired \ {t}
    /\ UNCHANGED <<directive, skips, hasSkips, notifying>>

\* The deadline passes while the thread is anywhere inside.
Expire(t) ==
    /\ pc[t] \in {"RetryWaiting", "RetryAsleep", "TimedWaiting", "TimedAsleep"}
    /\ t \notin expired
    /\ expired' = expired \cup {t}
    /\ Move(t, IF pc[t] = "TimedAsleep" THEN "TimedWaiting" ELSE pc[t])
    /\ UNCHANGED <<directive, skips, hasSkips, notifying>>

\* Mutant: the back-off ends on time even if the session is paused.
TestRetryIgnoresPause(t) ==
    /\ pc[t] = "RetryWaiting"
    /\ Move(t, IF directive \notin {"Run", "Pause"} \/ t \in expired THEN "Idle"
               ELSE IF directive = "Pause" THEN "RetryAsleep"
               ELSE "TimedAsleep")
    /\ UNCHANGED <<directive, skips, hasSkips, notifying, expired>>

\* One pass of the loop, up to where the mutex is given up.
TestRetry(t) ==
    /\ pc[t] = "RetryWaiting"
    /\ Move(t, IF directive = "Pause" THEN "RetryAsleep"
               ELSE IF directive # "Run" \/ t \in expired THEN "Idle"
               ELSE "TimedAsleep")
    /\ UNCHANGED <<directive, skips, hasSkips, notifying, expired>>

\* wait_until returned: on to the next pass, or back to sleep.
TestTimed(t) ==
    /\ pc[t] = "TimedWaiting"
    /\ Move(t, IF directive # "Run" \/ t \in expired THEN "RetryWaiting"
               ELSE "TimedAsleep")
    /\ UNCHANGED <<directive, skips, hasSkips, notifying, expired>>

\* A condition variable may wake spuriously.
WakeSpuriously(t) ==
    /\ pc[t] \in Asleep
    /\ Move(t, Woken(pc[t]))
    /\ UNCHANGED <<directive, skips, hasSkips, notifying, expired>>

Resumes(t) == NotifyAll(t) \/ Test(t) \/ TestRetry(t) \/ TestTimed(t) \/ Expire(t)

ControlNext ==
    \E t \in Thread :
        \/ \E request \in Request : RequestChange(t, request)
        \/ NotifyAll(t)
        \/ \E file \in File : RequestSkip(t, file) \/ ConsumeSkip(t, file)
        \/ Enter(t) \/ Test(t)
        \/ EnterRetry(t) \/ TestRetry(t) \/ TestTimed(t) \/ Expire(t)
        \/ WakeSpuriously(t)

\* A thread that can run does, and deadlines pass.  Nobody is obliged to make a
\* request, and nobody relies on a spurious wake-up.
ControlSpec ==
    /\ ControlInit /\ [][ControlNext]_controlVars
    /\ \A t \in Thread : WF_controlVars(Resumes(t))
-----------------------------------------------------------------------------
TypeOK ==
    /\ directive \in ExecutionDirective
    /\ skips \in SUBSET File
    /\ hasSkips \in BOOLEAN
    /\ notifying \in SUBSET Thread
    /\ pc \in [Thread -> Location]
    /\ expired \in SUBSET Thread

\* No wake-up is lost: a thread sleeps only as long as the directive it waited
\* for stands, or a notification is on its way (every request changes
\* directive_ under the mutex that the predicate is tested under).
NoLostWakeup ==
    \A t \in Thread :
        /\ pc[t] \in {"Asleep", "RetryAsleep"} => directive = "Pause" \/ notifying # {}
        /\ pc[t] = "TimedAsleep" => directive = "Run" \/ notifying # {}

\* The flag consume_skip() tests before it takes the mutex never hides a skip,
\* and a cancelled session has none left.
SkipsVisible ==
    /\ hasSkips = (skips # {})
    /\ directive = "Cancel" => skips = {}

\* A session that is being stopped is not resumed, and one that is cancelled
\* stays so, in whatever order the window and the workers make their requests.
EndingIsFinal ==
    [][/\ directive = "Cancel" => directive' = "Cancel"
       /\ directive = "Stop" => directive' \in {"Stop", "Cancel"}]_controlVars

\* While the session is paused no thread leaves a wait, not even one whose
\* back-off is over: no destination is touched during a pause.
PauseHolds ==
    [][\A t \in Thread :
          pc[t] \notin {"Idle"} /\ directive = "Pause" => pc'[t] # "Idle"]_controlVars

\* Stop and Cancel reach every waiting thread, also the paused ones and those
\* that are backing off.
EndingWakes ==
    \A t \in Thread :
        pc[t] # "Idle" /\ directive \in {"Stop", "Cancel"} ~> pc[t] = "Idle"
=============================================================================
