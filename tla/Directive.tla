------------------------------ MODULE Directive ------------------------------
(***************************************************************************)
(* What a request of the window, or of a worker that gives up, makes of    *)
(* the directive of a session.  ExecutionControl says how the threads see  *)
(* it; JobExecutor takes these requests for granted.                       *)
(***************************************************************************)
ExecutionDirective == {"Run", "Pause", "Stop", "Cancel"}
Request == {"Pause", "Resume", "Stop", "Cancel"}

\* Mutant: a resume undoes a stop.
AfterResumesAnything(request, d) ==
    IF request = "Resume" THEN "Run"
    ELSE IF request = "Pause" THEN IF d = "Run" THEN "Pause" ELSE d
    ELSE IF d = "Cancel" THEN d ELSE request

\* request_pause, resume, request_stop and request_cancel.
After(request, d) ==
    CASE request = "Pause"  -> IF d = "Run" THEN "Pause" ELSE d
      [] request = "Resume" -> IF d = "Pause" THEN "Run" ELSE d
      [] request = "Stop"   -> IF d = "Cancel" THEN d ELSE "Stop"
      [] request = "Cancel" -> "Cancel"

\* Mutant: request_stop only changes the directive.
NotifiesAllButStop(request, d) ==
    /\ request = "Resume" => d = "Pause"
    /\ request # "Stop"

\* Whether the call gets as far as notify_all: resume and request_stop return
\* early when there is nothing to change.
Notifies(request, d) ==
    /\ request = "Resume" => d = "Pause"
    /\ request = "Stop" => d # "Cancel"
=============================================================================
