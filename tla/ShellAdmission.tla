-------------------------- MODULE ShellAdmission ---------------------------
(***************************************************************************)
(* How a transfer asked for in Explorer reaches the application: once, or  *)
(* the native engine of Explorer does it, but never both.                  *)
(*                                                                         *)
(* Ctrl+V is caught by the resident process and sent to its own pipe; the  *)
(* drop handler inside Explorer sends without waiting for an answer; a     *)
(* second process sends what it was started with.  The pipe has one        *)
(* instance and one client at a time.  Its thread passes a request to the  *)
(* dispatcher of the UI thread and waits some seconds for the admission.   *)
(*                                                                         *)
(* Time is abstract: a deadline may strike at any step.  Only their order  *)
(* counts: the wait of the server is longer than that of any sender.  The  *)
(* byte format is left out: a frame is the request it carries.             *)
(***************************************************************************)
EXTENDS Naturals, Sequences, FiniteSets, SequencesExt

CONSTANTS
    Request,    \* one gesture each
    Gesture,    \* what each of them is: "Paste", "Drop" or "Launch"
    None,
    CacheLimit, \* 4096 in the code
    MaxTries,   \* BOUND on the attempts within the 3 s of a second process
    MaxStarts   \* BOUND on how often the application starts

ASSUME AdmissionAssumption ==
    /\ Gesture \in [Request -> {"Paste", "Drop", "Launch"}]
    /\ None \notin Request
    /\ CacheLimit \in Nat \ {0} /\ MaxTries \in Nat /\ MaxStarts \in Nat

VARIABLES
    app, starts,  \* the primary process: "Down", "Starting" or "Up"
    sender,       \* each request's sender: what it is, where it stands, its attempts
    answer,       \* what each sender was told
    client,       \* the request at the other end of the pipe
    frame, reply, \* what is in the pipe, towards the server and back
    server,       \* the thread of the pipe
    dispatcher,   \* the admissions queued for the UI thread
    cache,        \* admitted_shell_order_
    admitted,     \* history: how often each request was admitted
    native        \* history: the requests Explorer carries out itself

pipeVars == <<client, frame, reply, server>>
vars == <<app, starts, sender, answer, pipeVars, dispatcher, cache, admitted, native>>

Phase   == {"Fresh", "Launched", "Connecting", "Connected", "Waiting", "Done"}
Answer  == {"None", "Delivered", "Refused", "Ambiguous", "Undelivered"}
Entry   == [req : Request, known : BOOLEAN]
Stopped == [phase |-> "Down", req |-> None, known |-> FALSE, ok |-> FALSE]
Listens == [Stopped EXCEPT !.phase = "Listening"]

Init ==
    /\ app = "Down" /\ starts = 0
    /\ sender = [r \in Request |-> [via |-> Gesture[r], phase |-> "Fresh", tries |-> 0]]
    /\ answer = [r \in Request |-> "None"]
    /\ client = None /\ frame = None /\ reply = None
    /\ server = Stopped
    /\ dispatcher = <<>> /\ cache = <<>>
    /\ admitted = [r \in Request |-> 0]
    /\ native = {}
-----------------------------------------------------------------------------
(***************************************************************************)
(* Deadlines, in milliseconds.                                             *)
(***************************************************************************)
\* What each sender waits for the whole exchange.
SendTimeout(via) == CASE via = "Paste" -> 2000 [] via = "Drop" -> 25 [] via = "Launch" -> 250

\* Mutant: the server is as quick to give up as the senders.
AdmissionTimeoutShort == 1000

\* future.wait_for(): how long the thread of the pipe waits for the UI thread.
AdmissionTimeout == 4000

\* The other end of the pipe still listens.
Listening(r) == sender[r].phase = "Waiting"

\* The sender's deadline began before its frame was written: when the server's
\* expires, it is over.
WaitIsOver(r) == SendTimeout(sender[r].via) < AdmissionTimeout => ~Listening(r)
-----------------------------------------------------------------------------
(***************************************************************************)
(* The senders.                                                            *)
(***************************************************************************)
\* The drop handler sends version 2: no id, and no reply.
Identified(r) == sender[r].via # "Drop"

MovesTo(r, phase) == sender' = [sender EXCEPT ![r].phase = phase]
UnchangedApp == UNCHANGED <<app, starts, dispatcher, cache, admitted>>

\* Ctrl+V is caught only by an application that runs; its worker sends one
\* paste after the other.
MayPaste ==
    /\ app = "Up"
    /\ \A r \in Request : sender[r].via = "Paste" => sender[r].phase \in {"Fresh", "Done"}

Send(r) ==
    /\ sender[r].phase = "Fresh"
    /\ sender[r].via = "Paste" => MayPaste
    /\ MovesTo(r, IF sender[r].via = "Launch" THEN "Launched" ELSE "Connecting")
    /\ UNCHANGED <<answer, pipeVars, native>> /\ UnchangedApp

\* A started process that finds itself the primary one takes the request itself.
Claims(r) ==
    /\ sender[r].phase = "Launched"
    /\ IF app = "Down"
       THEN /\ starts < MaxStarts
            /\ app' = "Starting" /\ starts' = starts + 1
            /\ \/ admitted' = [admitted EXCEPT ![r] = @ + 1]
               \/ UNCHANGED admitted
            /\ MovesTo(r, "Done")
       ELSE /\ MovesTo(r, "Connecting")
            /\ UNCHANGED <<app, starts, admitted>>
    /\ UNCHANGED <<answer, pipeVars, dispatcher, cache, native>>

\* The drop handler starts a process with the request.
StartsProcess(r, a) == sender[r].via = "Drop" /\ a = "Undelivered"

\* Mutant: a second process goes by the error code, which a timeout shares.
TriesAgainOnTimeout(r, a) ==
    /\ sender[r].via = "Launch" /\ a \in {"Undelivered", "Ambiguous"}
    /\ sender[r].tries < MaxTries

\* Only what failed before a byte was written is tried again.
TriesAgain(r, a) ==
    /\ sender[r].via = "Launch" /\ a = "Undelivered"
    /\ sender[r].tries < MaxTries

\* Explorer's own paste, if focus and clipboard are still the same.
MayReplay(r, a) == sender[r].via = "Paste" /\ a \in {"Undelivered", "Refused"}

\* send_shell_request() returns, and its caller does what follows from it.
Returns(r, a) ==
    /\ IF StartsProcess(r, a)
       THEN sender' = [sender EXCEPT ![r] = [via |-> "Launch", phase |-> "Launched", tries |-> 0]]
       ELSE IF TriesAgain(r, a)
       THEN sender' = [sender EXCEPT ![r].phase = "Connecting", ![r].tries = @ + 1]
       ELSE MovesTo(r, "Done")
    /\ answer' = [answer EXCEPT ![r] = a]
    /\ \/ MayReplay(r, a) /\ native' = native \cup {r}
       \/ UNCHANGED native
    /\ UnchangedApp

\* WaitNamedPipe and CreateFile.
Connect(r) ==
    /\ sender[r].phase = "Connecting"
    /\ server.phase = "Listening" /\ client = None
    /\ client' = r
    /\ MovesTo(r, "Connected")
    /\ UNCHANGED <<answer, frame, reply, server, native>> /\ UnchangedApp

\* No pipe, or a pipe that stays busy; nothing was written.
ConnectFails(r) ==
    /\ sender[r].phase \in {"Connecting", "Connected"}
    /\ Returns(r, "Undelivered")
    /\ UNCHANGED pipeVars

Write(r) ==
    /\ sender[r].phase = "Connected" /\ client = r
    /\ frame' = r
    /\ MovesTo(r, "Waiting")
    /\ UNCHANGED <<answer, client, reply, server, native>> /\ UnchangedApp

\* The write fails; some of the frame, or all of it, may have gone out.
WriteFails(r) ==
    /\ sender[r].phase = "Connected"
    /\ frame' \in IF client = r THEN {frame, r} ELSE {frame}
    /\ Returns(r, "Ambiguous")
    /\ UNCHANGED <<client, reply, server>>

\* Version 3 reads one byte; version 2 waits until the frame was consumed, or
\* the pipe was disconnected.
Learns(r) ==
    /\ sender[r].phase = "Waiting"
    /\ IF Identified(r)
       THEN /\ client = r /\ reply # None
            /\ reply' = None
            /\ Returns(r, IF reply THEN "Delivered" ELSE "Refused")
       ELSE /\ client # r \/ frame # r
            /\ Returns(r, "Delivered")
            /\ UNCHANGED reply
    /\ UNCHANGED <<client, frame, server>>

\* The deadline strikes, or the pipe breaks, after the request was written.
GivesUp(r) ==
    /\ sender[r].phase = "Waiting"
    /\ Returns(r, "Ambiguous")
    /\ UNCHANGED pipeVars
-----------------------------------------------------------------------------
(***************************************************************************)
(* The thread of the pipe: receive_and_ack().                              *)
(***************************************************************************)
UnchangedSenders == UNCHANGED <<app, starts, sender, answer, cache, admitted, native>>

Accepts ==
    /\ server.phase = "Listening" /\ client # None
    /\ server' = [server EXCEPT !.phase = "Reading", !.req = None]
    /\ UNCHANGED <<client, frame, reply, dispatcher>> /\ UnchangedSenders

\* A frame of version 3 goes to the dispatcher at once; TryEnqueue may refuse.
Reads ==
    /\ server.phase = "Reading" /\ frame # None
    /\ frame' = None
    /\ \/ /\ Identified(frame)
          /\ dispatcher' = Append(dispatcher, [req |-> frame, known |-> TRUE])
          /\ server' = [server EXCEPT !.phase = "Admitting", !.req = frame, !.known = TRUE]
       \/ /\ Identified(frame)
          /\ server' = [server EXCEPT !.phase = "Acking", !.req = frame, !.known = TRUE, !.ok = FALSE]
          /\ UNCHANGED dispatcher
       \/ /\ ~Identified(frame)
          /\ server' = [server EXCEPT !.phase = "Releasing", !.req = frame, !.known = FALSE]
          /\ UNCHANGED dispatcher
    /\ UNCHANGED <<client, reply>> /\ UnchangedSenders

\* The client is of another session, or its frame does not come in time.
ReadsNothing ==
    /\ server.phase = "Reading"
    /\ server' = [server EXCEPT !.phase = "Releasing"]
    /\ UNCHANGED <<client, frame, reply, dispatcher>> /\ UnchangedSenders

\* Mutant: the thread waits for the UI thread as long as it takes.
GivesUpWaitingNever == FALSE

GivesUpWaiting == server.phase = "Admitting" /\ WaitIsOver(server.req)

AdmissionTimesOut ==
    /\ GivesUpWaiting
    /\ server' = [server EXCEPT !.phase = "Acking", !.ok = FALSE]
    /\ UNCHANGED <<client, frame, reply, dispatcher>> /\ UnchangedSenders

Acks ==
    /\ server.phase = "Acking"
    /\ IF Listening(client)
       THEN reply' = server.ok /\ server' = [server EXCEPT !.phase = "Draining"]
       ELSE UNCHANGED reply /\ server' = [server EXCEPT !.phase = "Releasing"]
    /\ UNCHANGED <<client, frame, dispatcher>> /\ UnchangedSenders

\* drain_admission_reply(): until the reply is read, the client is gone, or 5 s.
Drains ==
    /\ server.phase = "Draining"
    /\ server' = [server EXCEPT !.phase = "Releasing"]
    /\ UNCHANGED <<client, frame, reply, dispatcher>> /\ UnchangedSenders

\* DisconnectNamedPipe() discards what was not read.
Disconnected == client' = None /\ frame' = None /\ reply' = None

\* A request of version 2 is queued only now; if that fails the server stops.
Releases ==
    /\ server.phase = "Releasing"
    /\ Disconnected
    /\ IF server.req # None /\ ~server.known
       THEN \/ /\ dispatcher' = Append(dispatcher, [req |-> server.req, known |-> FALSE])
               /\ server' = Listens
            \/ UNCHANGED dispatcher /\ server' = Stopped
       ELSE UNCHANGED dispatcher /\ server' = Listens
    /\ UnchangedSenders
-----------------------------------------------------------------------------
(***************************************************************************)
(* The UI thread, and the process.                                         *)
(***************************************************************************)
\* The ids the replay cache keeps, once more than the limit came in.
Trimmed(order) == IF Len(order) > CacheLimit THEN Tail(order) ELSE order

Answers(e, ok) ==
    server' = IF server.phase = "Admitting" /\ server.req = e.req
              THEN [server EXCEPT !.phase = "Acking", !.ok = ok] ELSE server

\* AdmitShellRequest(): an id it knows is not admitted again.
Admit ==
    /\ dispatcher # <<>>
    /\ LET e == Head(dispatcher) IN
       IF e.known /\ e.req \in ToSet(cache)
       THEN Answers(e, TRUE) /\ UNCHANGED <<cache, admitted>>
       ELSE \/ /\ admitted' = [admitted EXCEPT ![e.req] = @ + 1]
               /\ cache' = IF e.known THEN Trimmed(Append(cache, e.req)) ELSE cache
               /\ Answers(e, TRUE)
            \/ /\ Answers(e, FALSE)  \* it throws, and is rolled back
               /\ UNCHANGED <<cache, admitted>>
    /\ dispatcher' = Tail(dispatcher)
    /\ UNCHANGED <<app, starts, sender, answer, client, frame, reply, native>>

\* The application is started without a request.
Starts ==
    /\ app = "Down" /\ starts < MaxStarts
    /\ app' = "Starting" /\ starts' = starts + 1
    /\ UNCHANGED <<sender, answer, pipeVars, dispatcher, cache, admitted, native>>

\* The end of OnLaunched().
OpensPipe ==
    /\ app = "Starting"
    /\ app' = "Up"
    /\ server' = Listens
    /\ UNCHANGED <<starts, sender, answer, client, frame, reply, dispatcher, cache, admitted, native>>

\* The process ends; its keyboard hook, and a paste under way, end with it.
Exits ==
    /\ app # "Down"
    /\ app' = "Down"
    /\ server' = Stopped /\ client' = None /\ frame' = None /\ reply' = None
    /\ dispatcher' = <<>> /\ cache' = <<>>
    /\ sender' = [r \in Request |->
            IF sender[r].via = "Paste" /\ sender[r].phase # "Fresh"
            THEN [sender[r] EXCEPT !.phase = "Done"] ELSE sender[r]]
    /\ UNCHANGED <<starts, answer, admitted, native>>
-----------------------------------------------------------------------------
Sender(r) ==
    \/ Connect(r) \/ ConnectFails(r) \/ Write(r) \/ WriteFails(r)
    \/ Learns(r) \/ GivesUp(r)

Server ==
    \/ Accepts \/ Reads \/ ReadsNothing \/ AdmissionTimesOut
    \/ Acks \/ Drains \/ Releases

Next ==
    \/ \E r \in Request : Send(r) \/ Claims(r) \/ Sender(r)
    \/ Server \/ Admit \/ Starts \/ OpensPipe \/ Exits

\* Every wait of a sender and of the thread of the pipe has a deadline; the UI
\* thread may be busy for as long as it likes.
Spec ==
    /\ Init /\ [][Next]_vars
    /\ \A r \in Request : WF_vars(Sender(r))
    /\ WF_vars(Server)
-----------------------------------------------------------------------------
Queued(r) == \E n \in DOMAIN dispatcher : dispatcher[n].req = r

TypeOK ==
    /\ app \in {"Down", "Starting", "Up"} /\ starts \in 0..MaxStarts
    /\ sender \in [Request -> [via : {"Paste", "Drop", "Launch"}, phase : Phase, tries : 0..MaxTries]]
    /\ answer \in [Request -> Answer]
    /\ client \in Request \cup {None} /\ frame \in Request \cup {None}
    /\ reply \in BOOLEAN \cup {None}
    /\ server \in [phase : {"Down", "Listening", "Reading", "Admitting", "Acking", "Draining", "Releasing"},
                   req : Request \cup {None}, known : BOOLEAN, ok : BOOLEAN]
    /\ dispatcher \in Seq(Entry) /\ cache \in Seq(Request)
    /\ admitted \in [Request -> Nat]
    /\ native \subseteq Request

\* No gesture is carried out twice, by the application, by Explorer or by both:
\* not after a timeout, a refusal, a retry, a restart or a late admission
\* (explorer_paste.cpp: "An uncertain admission must never run the same Move in
\* two engines").
NotTwoEngines ==
    \A r \in Request : admitted[r] + (IF r \in native THEN 1 ELSE 0) <= 1

\* The one byte of the reply is true: a sender told yes was admitted, and one
\* told no is neither admitted nor waiting for it.
AnswerTrue ==
    \A r \in Request : Identified(r) =>
        /\ answer[r] = "Delivered" => admitted[r] = 1
        /\ answer[r] = "Refused" => admitted[r] = 0 /\ ~Queued(r)

\* No client, and no busy UI thread, keeps the pipe from the others for ever.
PipeReleased == (client # None) ~> (client = None)
=============================================================================
