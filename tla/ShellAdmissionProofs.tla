------------------------- MODULE ShellAdmissionProofs -------------------------
(***************************************************************************)
(* No gesture is carried out twice, for every set of requests, every size  *)
(* of the replay cache and every number of attempts and starts.            *)
(*                                                                         *)
(* The argument: a request is at one place at a time: with its sender, in  *)
(* the pipe, held by the thread of the pipe, queued for the UI thread, or  *)
(* carried out.  A sender that is told no while it still listens has its   *)
(* request nowhere, and one that stopped listening is told nothing.  That  *)
(* also makes the answers true: a yes comes from an admission, and what a  *)
(* sender was told no of is gone.                                          *)
(***************************************************************************)
EXTENDS ShellAdmission, TLAPS

\* The request has not left its sender.
Unsent(r) == sender[r].phase \in {"Fresh", "Launched", "Connecting", "Connected"}

\* A request of version 2 that is queued when its client is released.
Held(r) == server.phase = "Releasing" /\ server.req = r /\ ~server.known

Untouched(r) == admitted[r] = 0 /\ r \notin native

Nowhere(r) == ~Unsent(r) /\ frame # r /\ ~Held(r) /\ ~Queued(r) /\ Untouched(r)

OnePlace(r) ==
    /\ Unsent(r) => frame # r /\ ~Held(r) /\ ~Queued(r) /\ Untouched(r)
    /\ frame = r => ~Held(r) /\ ~Queued(r) /\ Untouched(r)
    /\ Held(r) => ~Queued(r) /\ Untouched(r)
    /\ Queued(r) => Untouched(r)
    /\ admitted[r] \in {0, 1}
    /\ r \in native => admitted[r] = 0

QueuedOnce ==
    \A n, k \in DOMAIN dispatcher : dispatcher[n].req = dispatcher[k].req => n = k

\* What the thread of the pipe works on is the request of its client.
Answering == server.phase \in {"Admitting", "Acking", "Draining"}

PipeServesClient ==
    /\ frame # None => frame = client
    /\ Answering => client # None /\ server.req = client /\ server.known /\ ~Unsent(client)
    /\ reply # None => client # None /\ ~Unsent(client)
    /\ server.phase = "Reading" => server.req = None

\* A no that is still read is the end of the request.
NoIsFinal ==
    /\ server.phase = "Acking" /\ server.ok = FALSE =>
          (Listening(client) => Nowhere(client))
    /\ reply # None /\ reply # TRUE =>
          client # None /\ (Listening(client) => Nowhere(client))

AdmissionInv ==
    TypeOK /\ QueuedOnce /\ PipeServesClient /\ NoIsFinal /\ \A r \in Request : OnePlace(r)

-----------------------------------------------------------------------------
(***************************************************************************)
(* The queue of the dispatcher                                             *)
(***************************************************************************)
LEMMA QueueGrows ==
    ASSUME TypeOK, QueuedOnce, NEW e \in Entry, ~Queued(e.req),
           dispatcher' = Append(dispatcher, e)
    PROVE  /\ dispatcher' \in Seq(Entry)
           /\ QueuedOnce'
           /\ \A r \in Request : Queued(r)' <=> (Queued(r) \/ r = e.req)
  <1> DEFINE n == Len(dispatcher)
             d == dispatcher'
  <1>1. /\ n \in Nat /\ DOMAIN dispatcher = 1..n
        /\ d \in Seq(Entry) /\ DOMAIN d = 1..(n + 1) /\ d[n + 1] = e
        /\ \A k \in 1..n : d[k] = dispatcher[k]
    BY DEF TypeOK
  <1> HIDE DEF n
  <1>2. \A k \in 1..n : dispatcher[k].req # e.req
    BY <1>1 DEF Queued
  <1>3. \A k \in 1..(n + 1) : k = n + 1 \/ k \in 1..n
    BY <1>1
  <1>4. \A k \in 1..n : k \in 1..(n + 1)
    BY <1>1
  <1>5. n + 1 \in 1..(n + 1)
    BY <1>1
  <1>6. QueuedOnce'
    BY <1>1, <1>2, <1>3 DEF QueuedOnce
  <1>7. \A r \in Request : Queued(r)' <=> (Queued(r) \/ r = e.req)
    BY <1>1, <1>3, <1>4, <1>5 DEF Queued
  <1> QED
    BY <1>1, <1>6, <1>7

\* The dispatcher takes its first entry.
LEMMA QueueShrinks ==
    ASSUME TypeOK, QueuedOnce, dispatcher # <<>>, dispatcher' = Tail(dispatcher)
    PROVE  /\ dispatcher' \in Seq(Entry)
           /\ QueuedOnce'
           /\ Head(dispatcher) \in Entry /\ Queued(Head(dispatcher).req)
           /\ \A r \in Request : Queued(r)' <=> (Queued(r) /\ r # Head(dispatcher).req)
  <1> DEFINE n == Len(dispatcher)
             d == dispatcher'
             e == Head(dispatcher)
  <1>1. /\ n \in Nat /\ n # 0 /\ DOMAIN dispatcher = 1..n
        /\ d \in Seq(Entry) /\ DOMAIN d = 1..(n - 1)
        /\ \A k \in 1..(n - 1) : d[k] = dispatcher[k + 1]
        /\ e \in Entry /\ e = dispatcher[1]
    BY DEF TypeOK
  <1> HIDE DEF n, e
  <1>2. /\ \A k \in 1..(n - 1) : k + 1 \in 1..n /\ k + 1 # 1
        /\ \A k \in 1..n : k = 1 \/ (k - 1 \in 1..(n - 1) /\ (k - 1) + 1 = k)
        /\ \A k, m \in 1..(n - 1) : k + 1 = m + 1 => k = m
        /\ 1 \in 1..n
    BY <1>1
  <1>3. QueuedOnce'
    BY <1>1, <1>2 DEF QueuedOnce
  <1>4. \A r \in Request : Queued(r)' => Queued(r) /\ r # e.req
    BY <1>1, <1>2 DEF Queued, QueuedOnce
  <1>5. ASSUME NEW r \in Request, Queued(r), r # e.req
        PROVE  Queued(r)'
    <2>1. PICK k \in 1..n : dispatcher[k].req = r
      BY <1>1, <1>5 DEF Queued
    <2>2. k # 1
      BY <1>1, <1>5, <2>1
    <2>3. k - 1 \in 1..(n - 1) /\ d[k - 1] = dispatcher[k]
      BY <1>1, <1>2, <2>2
    <2> QED
      BY <1>1, <2>1, <2>3 DEF Queued
  <1>6. Queued(e.req)
    BY <1>1, <1>2 DEF Queued
  <1> QED
    BY <1>1, <1>3, <1>4, <1>5, <1>6 DEF e

-----------------------------------------------------------------------------
(***************************************************************************)
(* The senders                                                             *)
(***************************************************************************)
Senders == [Request -> [via : {"Paste", "Drop", "Launch"}, phase : Phase, tries : 0..MaxTries]]

\* A sender that moves on; nobody else does.
LEMMA Moved ==
    ASSUME TypeOK, NEW r \in Request, NEW phase \in Phase, MovesTo(r, phase)
    PROVE  /\ sender' \in Senders
           /\ \A x \in Request : x # r => sender'[x] = sender[x]
           /\ sender'[r].phase = phase
  BY DEF TypeOK, MovesTo, Senders

\* What send_shell_request() leaves, whatever it returns.
LEMMA Returned ==
    ASSUME TypeOK, NEW r \in Request, NEW a \in Answer, Returns(r, a)
    PROVE  /\ sender' \in Senders
           /\ answer' \in [Request -> Answer]
           /\ native' \subseteq Request /\ native \subseteq native'
           /\ \A x \in Request : x # r => sender'[x] = sender[x] /\ (x \in native' => x \in native)
           /\ sender'[r].phase \in {"Launched", "Connecting", "Done"}
           /\ a # "Undelivered" => sender'[r].phase = "Done"
           /\ r \in native' => r \in native \/ (a \in {"Undelivered", "Refused"} /\ sender'[r].phase = "Done")
           /\ UNCHANGED <<app, starts, dispatcher, cache, admitted>>
  <1> DEFINE S == [via : {"Paste", "Drop", "Launch"}, phase : Phase, tries : 0..MaxTries]
             Kept == /\ sender' \in Senders
                     /\ \A x \in Request : x # r => sender'[x] = sender[x]
                     /\ sender'[r].phase \in {"Launched", "Connecting", "Done"}
                     /\ a # "Undelivered" => sender'[r].phase = "Done"
  <1>1. ASSUME StartsProcess(r, a)
        PROVE  Kept
    <2>1. /\ sender' = [sender EXCEPT ![r] = [via |-> "Launch", phase |-> "Launched", tries |-> 0]]
          /\ a = "Undelivered"
      BY <1>1 DEF Returns, StartsProcess
    <2>2. [via |-> "Launch", phase |-> "Launched", tries |-> 0] \in S
      BY AdmissionAssumption DEF Phase
    <2> QED
      BY <2>1, <2>2 DEF TypeOK, Senders
  <1>2. ASSUME ~StartsProcess(r, a), TriesAgain(r, a)
        PROVE  Kept
    <2>1. sender' = [sender EXCEPT ![r].phase = "Connecting", ![r].tries = @ + 1]
      BY <1>2 DEF Returns
    <2>2. sender[r] \in S /\ a = "Undelivered" /\ sender[r].tries + 1 \in 0..MaxTries
      BY <1>2, AdmissionAssumption DEF TypeOK, TriesAgain
    <2> QED
      BY <2>1, <2>2 DEF TypeOK, Phase, Senders
  <1>3. ASSUME ~StartsProcess(r, a), ~TriesAgain(r, a)
        PROVE  Kept
    <2>1. MovesTo(r, "Done") /\ "Done" \in Phase
      BY <1>3 DEF Returns, Phase
    <2> QED
      BY <2>1, Moved
  <1>4. Kept
    BY <1>1, <1>2, <1>3
  <1>5. /\ answer' \in [Request -> Answer]
        /\ native' \subseteq Request /\ native \subseteq native'
        /\ \A x \in Request : x # r => (x \in native' => x \in native)
        /\ r \in native' => r \in native \/ (a \in {"Undelivered", "Refused"} /\ sender'[r].phase = "Done")
        /\ UNCHANGED <<app, starts, dispatcher, cache, admitted>>
    <2>1. CASE MayReplay(r, a)
      <3>1. ~StartsProcess(r, a) /\ ~TriesAgain(r, a)
        BY <2>1 DEF MayReplay, StartsProcess, TriesAgain
      <3>2. MovesTo(r, "Done") /\ "Done" \in Phase
        BY <3>1 DEF Returns, Phase
      <3>3. sender'[r].phase = "Done"
        BY <3>2, Moved
      <3> QED
        BY <2>1, <3>3 DEF TypeOK, Returns, MayReplay, UnchangedApp
    <2>2. CASE ~MayReplay(r, a)
      BY <2>2 DEF TypeOK, Returns, UnchangedApp
    <2> QED
      BY <2>1, <2>2
  <1> QED
    BY <1>4, <1>5

\* Nothing was sent, nothing is queued.
LEMMA InitAdmission == Init => AdmissionInv
  <1> SUFFICES ASSUME Init PROVE AdmissionInv
    OBVIOUS
  <1>1. TypeOK
    BY AdmissionAssumption DEF Init, TypeOK, Phase, Answer, Stopped
  <1>2. QueuedOnce /\ \A r \in Request : ~Queued(r)
    BY DEF Init, QueuedOnce, Queued
  <1>3. PipeServesClient /\ NoIsFinal
    BY DEF Init, PipeServesClient, NoIsFinal, Answering, Stopped
  <1>4. \A r \in Request : OnePlace(r)
    BY <1>2, AdmissionAssumption DEF Init, OnePlace, Unsent, Held, Untouched, Stopped
  <1> QED
    BY <1>1, <1>2, <1>3, <1>4 DEF AdmissionInv

\* A gesture becomes a request.
LEMMA SendKeeps ==
    ASSUME AdmissionInv, NEW r \in Request, Send(r)
    PROVE  AdmissionInv'
  <1> USE DEF AdmissionInv, Send, MovesTo, UnchangedApp, pipeVars
  <1>1. TypeOK'
    <2>1. /\ MovesTo(r, "Launched") \/ MovesTo(r, "Connecting")
          /\ {"Launched", "Connecting"} \subseteq Phase
      BY DEF Phase
    <2>2. sender' \in Senders
      BY <2>1, Moved
    <2> QED
      BY SMTT(20), <2>2 DEF TypeOK, Senders
  <1>2. QueuedOnce' /\ \A x \in Request : Queued(x)' <=> Queued(x)
    BY DEF QueuedOnce, Queued
  <1>3. sender'[r].phase \in {"Launched", "Connecting"} /\ \A x \in Request : x # r => sender'[x] = sender[x]
    BY DEF TypeOK
  <1>4. \A x \in Request : OnePlace(x)'
    BY <1>2, <1>3 DEF OnePlace, Unsent, Held, Untouched
  <1>5. PipeServesClient'
    BY <1>3 DEF PipeServesClient, Answering, Unsent, TypeOK
  <1>6. NoIsFinal'
    BY <1>2, <1>3 DEF NoIsFinal, PipeServesClient, Answering, Listening, Nowhere, Unsent, Held, Untouched, TypeOK
  <1> QED
    BY <1>1, <1>2, <1>4, <1>5, <1>6

\* A started process is the primary one, or becomes a sender.
LEMMA ClaimsKeeps ==
    ASSUME AdmissionInv, NEW r \in Request, Claims(r)
    PROVE  AdmissionInv'
  <1>1. /\ sender[r].phase = "Launched"
        /\ sender' \in Senders
        /\ \A x \in Request : x # r => sender'[x] = sender[x]
        /\ sender'[r].phase \in {"Connecting", "Done"}
        /\ sender'[r].phase = "Connecting" => admitted'[r] = admitted[r]
        /\ admitted' \in [Request -> Nat]
        /\ \A x \in Request : x # r => admitted'[x] = admitted[x]
        /\ \/ admitted'[r] = admitted[r]
           \/ admitted'[r] = admitted[r] + 1
        /\ app' \in {"Down", "Starting", "Up"} /\ starts' \in 0..MaxStarts
    <2> USE DEF AdmissionInv
    <2>1. TypeOK /\ sender[r].phase = "Launched"
      BY DEF Claims
    <2>2. CASE app = "Down"
      <3>1. MovesTo(r, "Done") /\ "Done" \in Phase
        BY <2>2 DEF Claims, Phase
      <3>2. /\ app' = "Starting" /\ starts' \in 0..MaxStarts
            /\ \/ admitted' = [admitted EXCEPT ![r] = @ + 1]
               \/ admitted' = admitted
        BY <2>1, <2>2, AdmissionAssumption DEF Claims, TypeOK
      <3>3. /\ admitted' \in [Request -> Nat]
            /\ \A x \in Request : x # r => admitted'[x] = admitted[x]
            /\ admitted'[r] = admitted[r] \/ admitted'[r] = admitted[r] + 1
        <4>1. admitted \in [Request -> Nat] /\ admitted[r] + 1 \in Nat
          BY <2>1 DEF TypeOK
        <4>2. CASE admitted' = [admitted EXCEPT ![r] = @ + 1]
          BY <4>1, <4>2
        <4>3. CASE admitted' = admitted
          BY <4>1, <4>3
        <4> QED
          BY <3>2, <4>2, <4>3
      <3>4. /\ sender' \in Senders
            /\ \A x \in Request : x # r => sender'[x] = sender[x]
            /\ sender'[r].phase = "Done"
        BY <2>1, <3>1, Moved
      <3> QED
        BY <2>1, <3>2, <3>3, <3>4
    <2>3. CASE app # "Down"
      <3>1. MovesTo(r, "Connecting") /\ "Connecting" \in Phase
        BY <2>3 DEF Claims, Phase
      <3>2. UNCHANGED <<app, starts, admitted>>
        BY <2>3 DEF Claims
      <3> QED
        BY <2>1, <3>1, <3>2, Moved DEF TypeOK, Senders
    <2> QED
      BY <2>2, <2>3
  <1>2. UNCHANGED <<answer, client, frame, reply, server, dispatcher, cache, native>>
    BY DEF Claims, pipeVars
  <1>3. TypeOK'
    BY <1>1, <1>2 DEF AdmissionInv, TypeOK, Senders
  <1>4. QueuedOnce' /\ \A x \in Request : Queued(x)' <=> Queued(x)
    BY <1>2 DEF AdmissionInv, QueuedOnce, Queued
  <1>5. Unsent(r) /\ OnePlace(r) /\ admitted[r] = 0
    BY <1>1 DEF AdmissionInv, Unsent, OnePlace, Untouched
  <1>6. OnePlace(r)'
    BY <1>1, <1>2, <1>4, <1>5 DEF OnePlace, Unsent, Held, Untouched
  <1>7. \A x \in Request : x # r => OnePlace(x)'
    BY <1>1, <1>2, <1>4 DEF AdmissionInv, OnePlace, Unsent, Held, Untouched
  <1>8. PipeServesClient'
    BY <1>1, <1>2 DEF AdmissionInv, PipeServesClient, Answering, Unsent, TypeOK
  <1>9. NoIsFinal'
    BY <1>1, <1>2, <1>4 DEF AdmissionInv, NoIsFinal, PipeServesClient, Answering, Listening,
                           Nowhere, Unsent, Held, Untouched, TypeOK
  <1> QED
    BY <1>3, <1>4, <1>6, <1>7, <1>8, <1>9 DEF AdmissionInv

\* The pipe was free: whoever connects has sent nothing yet.
LEMMA ConnectKeeps ==
    ASSUME AdmissionInv, NEW r \in Request, Connect(r)
    PROVE  AdmissionInv'
  <1> USE DEF AdmissionInv, Connect, MovesTo, UnchangedApp
  <1>1. TypeOK'
    BY Moved DEF TypeOK, Phase, Senders
  <1>2. QueuedOnce' /\ \A x \in Request : Queued(x)' <=> Queued(x)
    BY DEF QueuedOnce, Queued
  <1>3. sender'[r].phase = "Connected" /\ \A x \in Request : x # r => sender'[x] = sender[x]
    BY DEF TypeOK
  <1>4. \A x \in Request : OnePlace(x)'
    BY <1>2, <1>3 DEF OnePlace, Unsent, Held, Untouched
  <1>5. PipeServesClient'
    BY <1>3, AdmissionAssumption DEF PipeServesClient, Answering, Unsent, TypeOK
  <1>6. NoIsFinal'
    BY <1>2, <1>3, AdmissionAssumption DEF NoIsFinal, PipeServesClient, Answering, Listening, Nowhere, Unsent, Held, Untouched, TypeOK
  <1> QED
    BY <1>1, <1>2, <1>4, <1>5, <1>6

\* The request leaves its sender.
LEMMA WriteKeeps ==
    ASSUME AdmissionInv, NEW r \in Request, Write(r)
    PROVE  AdmissionInv'
  <1> USE DEF AdmissionInv, Write, MovesTo, UnchangedApp
  <1>1. TypeOK'
    BY ZenonT(30), Moved DEF TypeOK, Phase, Senders
  <1>2. QueuedOnce' /\ \A x \in Request : Queued(x)' <=> Queued(x)
    BY DEF QueuedOnce, Queued
  <1>3. sender'[r].phase = "Waiting" /\ \A x \in Request : x # r => sender'[x] = sender[x]
    BY DEF TypeOK
  <1>4. \A x \in Request : OnePlace(x)'
    BY <1>2, <1>3, AdmissionAssumption DEF OnePlace, PipeServesClient, Unsent, Held, Untouched
  <1>5. PipeServesClient'
    BY <1>3, AdmissionAssumption DEF PipeServesClient, Answering, Unsent, TypeOK
  <1>6. ~Answering
    BY DEF PipeServesClient, Unsent
  <1>7. NoIsFinal'
    BY <1>2, <1>3, <1>6, AdmissionAssumption DEF NoIsFinal, PipeServesClient, Answering, Listening, Nowhere, Unsent, Held, Untouched, TypeOK
  <1> QED
    BY <1>1, <1>2, <1>4, <1>5, <1>7

\* A sender whose call returns, the queue and the thread of the pipe as they were.
LEMMA ReturnKeeps ==
    ASSUME AdmissionInv, NEW r \in Request, NEW a \in Answer, Returns(r, a),
           UNCHANGED <<client, server>>,
           frame' = frame \/ (frame' = r /\ client = r),
           reply' = reply \/ reply' = None,
           a = "Undelivered" => Unsent(r) /\ UNCHANGED <<frame, reply>>,
           a = "Refused" => Nowhere(r) /\ UNCHANGED frame,
           a \notin {"Undelivered", "Refused"} => (frame' = frame \/ Unsent(r))
    PROVE  AdmissionInv'
  <1> USE DEF AdmissionInv
  <1>1. /\ sender' \in Senders
        /\ answer' \in [Request -> Answer]
        /\ native' \subseteq Request /\ native \subseteq native'
        /\ \A x \in Request : x # r => sender'[x] = sender[x] /\ (x \in native' => x \in native)
        /\ sender'[r].phase \in {"Launched", "Connecting", "Done"}
        /\ a # "Undelivered" => sender'[r].phase = "Done"
        /\ r \in native' => r \in native \/ (a \in {"Undelivered", "Refused"} /\ sender'[r].phase = "Done")
        /\ UNCHANGED <<app, starts, dispatcher, cache, admitted>>
    BY Returned
  <1>2. TypeOK'
    BY SMTT(20), <1>1 DEF TypeOK, Senders
  <1>3. QueuedOnce' /\ \A x \in Request : Queued(x)' <=> Queued(x)
    BY <1>1 DEF QueuedOnce, Queued
  <1>4. \A x \in Request : x # r => OnePlace(x)'
    BY <1>1, <1>3, AdmissionAssumption DEF OnePlace, Unsent, Held, Untouched
  <1>5. OnePlace(r)'
    <2>1. CASE a = "Undelivered"
      BY <1>1, <1>3, <2>1 DEF OnePlace, Unsent, Held, Untouched
    <2>2. CASE a = "Refused"
      BY <1>1, <1>3, <2>2 DEF OnePlace, Nowhere, Unsent, Held, Untouched
    <2>3. CASE a \notin {"Undelivered", "Refused"}
      BY <1>1, <1>3, <2>3 DEF OnePlace, Unsent, Held, Untouched
    <2> QED
      BY <2>1, <2>2, <2>3
  <1>6. PipeServesClient'
    BY <1>1, AdmissionAssumption DEF PipeServesClient, Answering, Unsent, TypeOK
  <1>7. NoIsFinal'
    BY <1>1, <1>3, <1>6, AdmissionAssumption DEF NoIsFinal, PipeServesClient, Answering, Listening,
                                Nowhere, Unsent, Held, Untouched, TypeOK
  <1> QED
    BY <1>2, <1>3, <1>4, <1>5, <1>6, <1>7

\* Every other step of send_shell_request() is a return.
LEMMA SenderKeeps ==
    ASSUME AdmissionInv, NEW r \in Request, Sender(r)
    PROVE  AdmissionInv'
  <1> USE DEF AdmissionInv
  <1>0. {"Delivered", "Refused", "Ambiguous", "Undelivered"} \subseteq Answer
    BY DEF Answer
  <1>1. CASE ConnectFails(r)
    BY <1>0, <1>1, ReturnKeeps DEF ConnectFails, Unsent, pipeVars
  <1>2. CASE WriteFails(r)
    BY <1>0, <1>2, ReturnKeeps DEF WriteFails, Unsent
  <1>3. CASE GivesUp(r)
    BY <1>0, <1>3, ReturnKeeps DEF GivesUp, pipeVars
  <1>4. CASE Learns(r)
    <2>1. CASE Identified(r)
      <3>1. /\ client = r /\ reply # None /\ reply' = None
            /\ Returns(r, IF reply THEN "Delivered" ELSE "Refused")
            /\ UNCHANGED <<client, frame, server>> /\ Listening(r)
        BY <1>4, <2>1 DEF Learns, Listening
      <3>2. CASE reply = TRUE
        BY <1>0, <3>1, <3>2, ReturnKeeps
      <3>3. CASE reply # TRUE
        <4>1. reply = FALSE /\ Nowhere(r)
          BY <3>1, <3>3 DEF TypeOK, NoIsFinal
        <4> QED
          BY <1>0, <3>1, <4>1, ReturnKeeps
      <3> QED
        BY <3>2, <3>3
    <2>2. CASE ~Identified(r)
      BY <1>0, <1>4, <2>2, ReturnKeeps DEF Learns
    <2> QED
      BY <2>1, <2>2
  <1> QED
    BY <1>1, <1>2, <1>3, <1>4, ConnectKeeps, WriteKeeps DEF Sender

-----------------------------------------------------------------------------
(***************************************************************************)
(* The thread of the pipe                                                  *)
(***************************************************************************)
Servers == [phase : {"Down", "Listening", "Reading", "Admitting", "Acking", "Draining", "Releasing"},
            req : Request \cup {None}, known : BOOLEAN, ok : BOOLEAN]

\* The thread stays with its client and queues nothing.
LEMMA ServerMoves ==
    ASSUME AdmissionInv, UnchangedSenders,
           UNCHANGED <<client, frame, dispatcher>>,
           server' \in Servers,
           \A r \in Request : Held(r)' => Held(r),
           Answering' => Answering /\ server'.req = server.req /\ server'.known = server.known,
           server'.phase = "Reading" => server'.req = None,
           server'.phase = "Acking" /\ server'.ok = FALSE => ~Listening(client),
           reply' \in {reply} \cup BOOLEAN,
           reply' # reply => /\ client # None /\ ~Unsent(client)
                             /\ reply' # TRUE /\ Listening(client) => Nowhere(client)
    PROVE  AdmissionInv'
  <1> USE DEF AdmissionInv, UnchangedSenders
  <1>1. TypeOK'
    BY DEF TypeOK, Servers
  <1>2. QueuedOnce' /\ \A x \in Request : Queued(x)' <=> Queued(x)
    BY DEF QueuedOnce, Queued
  <1>3. \A r \in Request : OnePlace(r)'
    BY <1>2 DEF OnePlace, Unsent, Untouched, TypeOK
  <1>4. PipeServesClient'
    BY DEF PipeServesClient, Answering, Unsent
  <1>5. \A r \in Request : Nowhere(r) => Nowhere(r)'
    BY <1>2 DEF Nowhere, Unsent, Untouched
  <1>6. NoIsFinal'
    BY <1>5, AdmissionAssumption DEF NoIsFinal, PipeServesClient, Listening, TypeOK
  <1> QED
    BY <1>1, <1>2, <1>3, <1>4, <1>6

\* The server waits longer than any sender.
LEMMA WaitsLonger ==
    ASSUME TypeOK, NEW r \in Request, WaitIsOver(r)
    PROVE  ~Listening(r)
  <1>1. sender[r].via \in {"Paste", "Drop", "Launch"}
    BY DEF TypeOK
  <1>2. SendTimeout(sender[r].via) < AdmissionTimeout
    BY <1>1 DEF SendTimeout, AdmissionTimeout
  <1> QED
    BY <1>2 DEF WaitIsOver

\* A client is accepted with no request at hand.
LEMMA AcceptsKeeps == ASSUME AdmissionInv, Accepts PROVE AdmissionInv'
  <1>1. /\ server' \in Servers
        /\ server'.phase = "Reading" /\ server'.req = None
    BY DEF AdmissionInv, TypeOK, Accepts, Servers
  <1> QED
    BY <1>1, ServerMoves DEF Accepts, Held, Answering

\* A client that is sent away without being read.
LEMMA ReadsNothingKeeps == ASSUME AdmissionInv, ReadsNothing PROVE AdmissionInv'
  <1>1. /\ server' \in Servers
        /\ server'.phase = "Releasing" /\ server'.req = None
    BY DEF AdmissionInv, TypeOK, PipeServesClient, ReadsNothing, Servers
  <1> QED
    BY <1>1, ServerMoves, AdmissionAssumption DEF ReadsNothing, Held, Answering

\* The reply was read, or never will be.
LEMMA DrainsKeeps == ASSUME AdmissionInv, Drains PROVE AdmissionInv'
  <1>1. /\ server' \in Servers
        /\ server'.phase = "Releasing" /\ server'.known
    BY DEF AdmissionInv, TypeOK, PipeServesClient, Answering, Drains, Servers
  <1> QED
    BY <1>1, ServerMoves DEF Drains, Held, Answering

\* When the wait for the UI thread is over, no sender listens any more.
LEMMA TimesOutKeeps == ASSUME AdmissionInv, AdmissionTimesOut PROVE AdmissionInv'
  <1>1. server.phase = "Admitting" /\ Answering /\ client \in Request /\ server.req = client
    BY DEF AdmissionInv, TypeOK, PipeServesClient, Answering, AdmissionTimesOut, GivesUpWaiting
  <1>2. ~Listening(client)
    BY <1>1, WaitsLonger DEF AdmissionInv, AdmissionTimesOut, GivesUpWaiting
  <1>3. /\ server' \in Servers
        /\ server'.phase = "Acking" /\ server'.req = server.req /\ server'.known = server.known
    BY DEF AdmissionInv, TypeOK, AdmissionTimesOut, Servers
  <1> QED
    BY <1>1, <1>2, <1>3, ServerMoves DEF AdmissionTimesOut, Held

\* The reply is written only to a client that listens.
LEMMA AcksKeeps == ASSUME AdmissionInv, Acks PROVE AdmissionInv'
  <1>1. /\ server.phase = "Acking" /\ Answering /\ client \in Request /\ server.known
        /\ ~Unsent(client) /\ server.ok \in BOOLEAN
        /\ server.ok = FALSE => (Listening(client) => Nowhere(client))
    BY DEF AdmissionInv, TypeOK, PipeServesClient, NoIsFinal, Answering, Acks
  <1>2. CASE Listening(client)
    <2>1. /\ server' \in Servers /\ reply' = server.ok
          /\ server'.phase = "Draining" /\ server'.req = server.req /\ server'.known = server.known
      BY <1>2 DEF AdmissionInv, TypeOK, Acks, Servers
    <2> QED
      BY <1>1, <1>2, <2>1, ServerMoves, AdmissionAssumption DEF Acks, Held
  <1>3. CASE ~Listening(client)
    <2>1. /\ server' \in Servers /\ reply' = reply
          /\ server'.phase = "Releasing" /\ server'.known
      BY <1>1, <1>3 DEF AdmissionInv, TypeOK, Acks, Servers
    <2> QED
      BY <1>1, <2>1, ServerMoves DEF Acks, Held, Answering
  <1> QED
    BY <1>2, <1>3

\* The request moves from the pipe to the dispatcher, or to the thread.
LEMMA ReadsKeeps == ASSUME AdmissionInv, Reads PROVE AdmissionInv'
  <1> USE DEF AdmissionInv
  <1>1. /\ server.phase = "Reading" /\ frame \in Request /\ frame = client /\ frame' = None
        /\ UNCHANGED <<client, reply, app, starts, sender, answer, cache, admitted, native>>
        /\ ~Unsent(frame) /\ ~Queued(frame) /\ Untouched(frame)
    BY DEF TypeOK, PipeServesClient, OnePlace, Reads, UnchangedSenders
  <1>2. CASE /\ dispatcher' = Append(dispatcher, [req |-> frame, known |-> TRUE])
             /\ server' = [server EXCEPT !.phase = "Admitting", !.req = frame, !.known = TRUE]
    <2>1. [req |-> frame, known |-> TRUE] \in Entry
      BY <1>1 DEF Entry
    <2>2. /\ dispatcher' \in Seq(Entry) /\ QueuedOnce'
          /\ \A r \in Request : Queued(r)' <=> (Queued(r) \/ r = frame)
      BY <1>1, <1>2, <2>1, QueueGrows
    <2>3. server' \in Servers /\ server'.phase = "Admitting" /\ server'.req = frame /\ server'.known
      BY <1>1, <1>2 DEF TypeOK, Servers
    <2>4. TypeOK'
      BY <1>1, <2>2, <2>3 DEF TypeOK, Servers
    <2>5. \A r \in Request : OnePlace(r)'
      BY <1>1, <2>2, <2>3, AdmissionAssumption DEF OnePlace, Unsent, Held, Untouched
    <2>6. PipeServesClient'
      BY <1>1, <2>3, AdmissionAssumption DEF PipeServesClient, Answering, Unsent
    <2>7. reply # None /\ reply # TRUE => ~Listening(client)
      BY <1>1 DEF NoIsFinal, Nowhere
    <2>8. NoIsFinal'
      BY <1>1, <2>3, <2>7, AdmissionAssumption DEF NoIsFinal, Listening
    <2> QED
      BY <2>2, <2>4, <2>5, <2>6, <2>8
  <1>3. CASE /\ UNCHANGED dispatcher
             /\ server' = [server EXCEPT !.phase = "Acking", !.req = frame, !.known = TRUE, !.ok = FALSE]
    <2>1. QueuedOnce' /\ \A r \in Request : Queued(r)' <=> Queued(r)
      BY <1>3 DEF QueuedOnce, Queued
    <2>2. /\ server' \in Servers /\ server'.phase = "Acking" /\ server'.req = frame
          /\ server'.known /\ ~server'.ok
      BY <1>1, <1>3 DEF TypeOK, Servers
    <2>3. TypeOK'
      BY <1>1, <1>3, <2>2 DEF TypeOK, Servers
    <2>4. \A r \in Request : OnePlace(r)'
      BY <1>1, <2>1, <2>2, AdmissionAssumption DEF OnePlace, Unsent, Held, Untouched
    <2>5. PipeServesClient'
      BY <1>1, <2>2, AdmissionAssumption DEF PipeServesClient, Answering, Unsent
    <2>6. Nowhere(client)'
      BY <1>1, <2>1, <2>2, AdmissionAssumption DEF Nowhere, Unsent, Held, Untouched
    <2>7. NoIsFinal'
      BY <1>1, <2>6, AdmissionAssumption DEF NoIsFinal
    <2> QED
      BY <2>1, <2>3, <2>4, <2>5, <2>7
  <1>4. CASE /\ UNCHANGED dispatcher
             /\ server' = [server EXCEPT !.phase = "Releasing", !.req = frame, !.known = FALSE]
    <2>1. QueuedOnce' /\ \A r \in Request : Queued(r)' <=> Queued(r)
      BY <1>4 DEF QueuedOnce, Queued
    <2>2. server' \in Servers /\ server'.phase = "Releasing" /\ server'.req = frame
      BY <1>1, <1>4 DEF TypeOK, Servers
    <2>3. TypeOK'
      BY <1>1, <1>4, <2>2 DEF TypeOK, Servers
    <2>4. \A r \in Request : OnePlace(r)'
      BY <1>1, <2>1, <2>2, AdmissionAssumption DEF OnePlace, Unsent, Held, Untouched
    <2>5. PipeServesClient'
      BY <1>1, <2>2, AdmissionAssumption DEF PipeServesClient, Answering, Unsent
    <2>6. reply # None /\ reply # TRUE => ~Listening(client)
      BY <1>1 DEF NoIsFinal, Nowhere
    <2>7. NoIsFinal'
      BY <1>1, <2>2, <2>6, AdmissionAssumption DEF NoIsFinal, Listening
    <2> QED
      BY <2>1, <2>3, <2>4, <2>5, <2>7
  <1> QED
    BY <1>2, <1>3, <1>4 DEF Reads

\* A request without an id moves from the thread to the dispatcher.
LEMMA ReleasesKeeps == ASSUME AdmissionInv, Releases PROVE AdmissionInv'
  <1> USE DEF AdmissionInv
  <1>1. /\ server.phase = "Releasing"
        /\ client' = None /\ frame' = None /\ reply' = None
        /\ server' \in Servers /\ server'.phase \in {"Listening", "Down"}
        /\ UNCHANGED <<app, starts, sender, answer, cache, admitted, native>>
    <2>1. server' \in {Listens, Stopped}
      BY DEF Releases
    <2>2. /\ Listens \in Servers /\ Stopped \in Servers
          /\ Listens.phase = "Listening" /\ Stopped.phase = "Down"
      BY DEF Servers, Listens, Stopped
    <2> QED
      BY <2>1, <2>2 DEF Releases, Disconnected, UnchangedSenders
  <1>2. PipeServesClient' /\ NoIsFinal'
    BY <1>1 DEF PipeServesClient, NoIsFinal, Answering
  <1>3. CASE UNCHANGED dispatcher
    <2>1. QueuedOnce' /\ \A r \in Request : Queued(r)' <=> Queued(r)
      BY <1>3 DEF QueuedOnce, Queued
    <2>2. TypeOK'
      BY <1>1, <1>3 DEF TypeOK, Servers
    <2>3. \A r \in Request : OnePlace(r)'
      BY <1>1, <2>1, AdmissionAssumption DEF OnePlace, Unsent, Held, Untouched
    <2> QED
      BY <1>2, <2>1, <2>2, <2>3
  <1>4. CASE /\ server.req # None /\ ~server.known
             /\ dispatcher' = Append(dispatcher, [req |-> server.req, known |-> FALSE])
    <2>1. /\ server.req \in Request /\ Held(server.req) /\ ~Queued(server.req)
          /\ ~Unsent(server.req) /\ Untouched(server.req)
      BY <1>1, <1>4 DEF TypeOK, Held, OnePlace
    <2>2. [req |-> server.req, known |-> FALSE] \in Entry
      BY <2>1 DEF Entry
    <2>3. /\ dispatcher' \in Seq(Entry) /\ QueuedOnce'
          /\ \A r \in Request : Queued(r)' <=> (Queued(r) \/ r = server.req)
      BY <1>4, <2>1, <2>2, QueueGrows
    <2>4. TypeOK'
      BY <1>1, <2>3 DEF TypeOK, Servers
    <2>5. \A r \in Request : OnePlace(r)'
      BY <1>1, <2>1, <2>3, AdmissionAssumption DEF OnePlace, Unsent, Held, Untouched
    <2> QED
      BY <1>2, <2>3, <2>4, <2>5
  <1> QED
    BY <1>3, <1>4 DEF Releases

-----------------------------------------------------------------------------
(***************************************************************************)
(* The UI thread, and the process                                          *)
(***************************************************************************)
\* What the thread of the pipe learns of an admission, if it still waits.
LEMMA Told ==
    ASSUME AdmissionInv, NEW e \in Entry, NEW ok \in BOOLEAN, Answers(e, ok)
    PROVE  /\ server' \in Servers
           /\ \A r \in Request : Held(r)' <=> Held(r)
           /\ Answering' => Answering /\ server'.req = server.req /\ server'.known = server.known
           /\ server'.phase = "Reading" => server'.req = None
           /\ \/ server' = server
              \/ server'.phase = "Acking" /\ server'.ok = ok /\ server.req = e.req /\ client = e.req
  <1> USE DEF AdmissionInv
  <1>1. CASE server.phase = "Admitting" /\ server.req = e.req
    BY <1>1 DEF TypeOK, Answers, Servers, Held, Answering, PipeServesClient
  <1>2. CASE ~(server.phase = "Admitting" /\ server.req = e.req)
    BY <1>2 DEF TypeOK, Answers, Servers, Held, Answering, PipeServesClient
  <1> QED
    BY <1>1, <1>2

\* AdmitShellRequest(): the request moves from the dispatcher to the application.
LEMMA AdmitKeeps == ASSUME AdmissionInv, Admit PROVE AdmissionInv'
  <1> USE DEF AdmissionInv
  <1> DEFINE e == Head(dispatcher)
  <1>0. UNCHANGED <<app, starts, sender, answer, client, frame, reply, native>>
    BY DEF Admit
  <1>1. /\ dispatcher # <<>> /\ dispatcher' = Tail(dispatcher)
        /\ \/ Answers(e, TRUE) /\ UNCHANGED <<cache, admitted>>
           \/ /\ admitted' = [admitted EXCEPT ![e.req] = @ + 1]
              /\ cache' = IF e.known THEN Trimmed(Append(cache, e.req)) ELSE cache
              /\ Answers(e, TRUE)
           \/ Answers(e, FALSE) /\ UNCHANGED <<cache, admitted>>
    BY DEF Admit
  <1>2. /\ dispatcher' \in Seq(Entry)
        /\ QueuedOnce'
        /\ e \in Entry /\ Queued(e.req)
        /\ \A r \in Request : Queued(r)' <=> (Queued(r) /\ r # e.req)
    BY <1>1, QueueShrinks
  <1> HIDE DEF e
  <1>3. /\ e.req \in Request /\ frame # e.req /\ ~Held(e.req) /\ ~Unsent(e.req) /\ Untouched(e.req)
    BY <1>2, AdmissionAssumption DEF Entry, OnePlace
  <1>4. PICK ok \in BOOLEAN :
            /\ Answers(e, ok)
            /\ ok = FALSE => UNCHANGED <<cache, admitted>>
    BY <1>1
  <1>5. /\ server' \in Servers
        /\ \A r \in Request : Held(r)' <=> Held(r)
        /\ Answering' => Answering /\ server'.req = server.req /\ server'.known = server.known
        /\ server'.phase = "Reading" => server'.req = None
        /\ \/ server' = server
           \/ server'.phase = "Acking" /\ server'.ok = ok /\ server.req = e.req /\ client = e.req
    BY <1>2, <1>4, Told
  <1>6. /\ admitted' \in [Request -> Nat]
        /\ \A r \in Request : r # e.req => admitted'[r] = admitted[r]
        /\ admitted'[e.req] \in {0, 1}
    <2>1. admitted \in [Request -> Nat] /\ e.req \in Request /\ admitted[e.req] = 0
      BY <1>3 DEF TypeOK, Untouched
    <2>2. CASE admitted' = admitted
      BY <2>1, <2>2
    <2>3. CASE admitted' = [admitted EXCEPT ![e.req] = @ + 1]
      BY <2>1, <2>3
    <2> QED
      BY <1>1, <2>2, <2>3
  <1>7. cache' \in Seq(Request)
    <2>1. CASE cache' = cache
      BY <2>1 DEF TypeOK
    <2>2. CASE cache' = Trimmed(Append(cache, e.req))
      <3> DEFINE order == Append(cache, e.req)
      <3>1. order \in Seq(Request)
        BY <1>3 DEF TypeOK
      <3> HIDE DEF order
      <3>2. Len(order) > CacheLimit => Tail(order) \in Seq(Request)
        BY <3>1, AdmissionAssumption
      <3> QED
        BY <2>2, <3>1, <3>2 DEF Trimmed, order
    <2> QED
      BY <1>1, <2>1, <2>2
  <1>8. TypeOK'
    BY <1>0, <1>2, <1>5, <1>6, <1>7 DEF TypeOK, Servers
  <1>9. \A r \in Request : OnePlace(r)'
    BY <1>0, <1>2, <1>3, <1>5, <1>6 DEF OnePlace, Unsent, Untouched
  <1>10. PipeServesClient'
    BY <1>0, <1>5 DEF PipeServesClient, Unsent, Answering
  <1>11. \A r \in Request : Nowhere(r) => Nowhere(r)'
    BY <1>0, <1>2, <1>5, <1>6 DEF Nowhere, Unsent, Untouched
  <1> PICK q \in Request : q = e.req
    BY <1>3
  <1>12. ok = FALSE => Nowhere(q)'
    BY <1>0, <1>2, <1>3, <1>4, <1>5 DEF Nowhere, Unsent, Untouched
  <1>13. \A r \in Request : Listening(r)' <=> Listening(r)
    BY <1>0 DEF Listening
  <1>14. client # None => client \in Request
    BY DEF TypeOK
  <1>15. (server.phase = "Acking" /\ server.ok = FALSE => (Listening(client) => Nowhere(client)))'
    <2>1. CASE server' = server
      BY <1>0, <1>11, <1>14, <2>1 DEF NoIsFinal, PipeServesClient, Answering, Listening
    <2>2. CASE server'.phase = "Acking" /\ server'.ok = ok /\ client = q
      BY <1>0, <1>12, <2>2
    <2> QED
      BY <1>5, <2>1, <2>2
  <1>16. NoIsFinal'
    BY <1>0, <1>11, <1>13, <1>14, <1>15 DEF NoIsFinal
  <1> QED
    BY <1>2, <1>8, <1>9, <1>10, <1>16

\* The process starts, opens its pipe and ends.
LEMMA ProcessKeeps == ASSUME AdmissionInv, Starts \/ OpensPipe \/ Exits PROVE AdmissionInv'
  <1> USE DEF AdmissionInv
  <1>1. CASE Starts
    <2>1. /\ app' = "Starting" /\ starts' \in 0..MaxStarts
          /\ UNCHANGED <<sender, answer, client, frame, reply, server, dispatcher, cache, admitted, native>>
      BY <1>1, AdmissionAssumption DEF Starts, TypeOK, pipeVars
    <2>2. TypeOK'
      BY <2>1 DEF TypeOK
    <2>3. QueuedOnce' /\ PipeServesClient' /\ NoIsFinal' /\ \A r \in Request : OnePlace(r)'
      BY <2>1 DEF QueuedOnce, PipeServesClient, NoIsFinal, OnePlace, Unsent, Held, Queued, Untouched,
                  Nowhere, Listening, Answering
    <2> QED
      BY <2>2, <2>3
  <1>2. CASE OpensPipe
    <2>1. /\ UNCHANGED <<starts, sender, answer, client, frame, reply, dispatcher, cache, admitted, native>>
          /\ app' = "Up" /\ server' \in Servers /\ server'.phase = "Listening"
      BY <1>2 DEF OpensPipe, Servers, Listens, Stopped
    <2>2. TypeOK'
      BY <2>1 DEF TypeOK, Servers
    <2>3. QueuedOnce' /\ \A r \in Request : Queued(r)' <=> Queued(r)
      BY <2>1 DEF QueuedOnce, Queued
    <2>4. \A r \in Request : OnePlace(r)' /\ (Nowhere(r) => Nowhere(r)')
      BY <2>1, <2>3 DEF OnePlace, Unsent, Held, Untouched, Nowhere
    <2>5. PipeServesClient'
      BY <2>1 DEF PipeServesClient, Answering, Unsent
    <2>6. NoIsFinal'
      BY <2>1, <2>4, AdmissionAssumption DEF NoIsFinal, Listening, TypeOK
    <2> QED
      BY <2>2, <2>3, <2>4, <2>5, <2>6
  <1>3. CASE Exits
    <2>1. /\ UNCHANGED <<starts, answer, admitted, native>>
          /\ app' = "Down" /\ server' \in Servers /\ server'.phase = "Down"
          /\ client' = None /\ frame' = None /\ reply' = None
          /\ dispatcher' = <<>> /\ cache' = <<>>
      BY <1>3 DEF Exits, Servers, Stopped
    <2>2. sender' \in Senders /\ \A r \in Request : Unsent(r)' => Unsent(r)
      BY ZenonT(30), <1>3 DEF Exits, TypeOK, Senders, Phase, Unsent
    <2>3. TypeOK'
      BY SMTT(20), <2>1, <2>2 DEF TypeOK, Servers, Senders
    <2>4. QueuedOnce' /\ \A r \in Request : ~Queued(r)'
      BY <2>1 DEF QueuedOnce, Queued
    <2>5. \A r \in Request : OnePlace(r)'
      BY <2>1, <2>2, <2>4, AdmissionAssumption DEF OnePlace, Held, Untouched
    <2>6. PipeServesClient' /\ NoIsFinal'
      BY <2>1 DEF PipeServesClient, NoIsFinal, Answering
    <2> QED
      BY <2>3, <2>4, <2>5, <2>6
  <1> QED
    BY <1>1, <1>2, <1>3

-----------------------------------------------------------------------------
\* Every step keeps a request at one place, and a no final.
LEMMA AdmissionStep == AdmissionInv /\ [Next]_vars => AdmissionInv'
  <1> SUFFICES ASSUME AdmissionInv, [Next]_vars PROVE AdmissionInv'
    OBVIOUS
  <1>1. CASE \E r \in Request : Send(r) \/ Claims(r) \/ Sender(r)
    BY <1>1, SendKeeps, ClaimsKeeps, SenderKeeps
  <1>2. CASE Server
    BY <1>2, AcceptsKeeps, ReadsKeeps, ReadsNothingKeeps, TimesOutKeeps, AcksKeeps, DrainsKeeps,
       ReleasesKeeps DEF Server
  <1>3. CASE UNCHANGED vars
    <2>1. UNCHANGED <<app, starts, sender, answer, client, frame, reply, server, dispatcher, cache,
                      admitted, native>>
      BY <1>3 DEF vars, pipeVars
    <2>2. TypeOK'
      BY <2>1 DEF AdmissionInv, TypeOK
    <2>3. QueuedOnce' /\ PipeServesClient' /\ NoIsFinal' /\ \A r \in Request : OnePlace(r)'
      BY <2>1 DEF AdmissionInv, QueuedOnce, PipeServesClient, NoIsFinal, OnePlace, Unsent, Held,
                  Queued, Untouched, Nowhere, Listening, Answering
    <2> QED
      BY <2>2, <2>3 DEF AdmissionInv
  <1> QED
    BY <1>1, <1>2, <1>3, AdmitKeeps, ProcessKeeps DEF Next

\* The state of the admission keeps its type, and the inductive invariant holds
\* in every reachable state: a request is at one place at a time, and a no that
\* its sender still reads is the end of it.
THEOREM AdmissionInvariance == Spec => []AdmissionInv
  BY InitAdmission, AdmissionStep, PTL DEF Spec

\* No gesture is carried out twice, whatever times out, is refused, tried again
\* or restarted (explorer_paste.cpp, shell_session.cpp, App::AdmitShellRequest).
THEOREM OneEngineOnly == Spec => []NotTwoEngines
  <1>1. AdmissionInv => NotTwoEngines
    BY DEF AdmissionInv, OnePlace, NotTwoEngines
  <1> QED
    BY <1>1, AdmissionInvariance, PTL

-----------------------------------------------------------------------------
(***************************************************************************)
(* The answers                                                             *)
(***************************************************************************)
\* The request is not carried out by the application, and never will be.
Gone(r) == ~Unsent(r) /\ frame # r /\ ~Held(r) /\ ~Queued(r) /\ admitted[r] = 0

\* What was admitted stays admitted.
LEMMA AdmittedStays ==
    ASSUME AdmissionInv, AdmissionInv', [Next]_vars, NEW r \in Request, admitted[r] = 1
    PROVE  admitted'[r] = 1
  <1>1. admitted'[r] \in {0, 1}
    BY DEF AdmissionInv, OnePlace
  <1>2. admitted'[r] # 0
    <2>0. admitted \in [Request -> Nat]
      BY DEF AdmissionInv, TypeOK
    <2>1. ASSUME NEW q, admitted' = [admitted EXCEPT ![q] = @ + 1]  PROVE admitted'[r] # 0
      BY <2>0, <2>1
    <2>2. CASE admitted' = admitted
      BY <2>2
    <2>3. admitted' = admitted \/ \E q : admitted' = [admitted EXCEPT ![q] = @ + 1]
      <3>1. ASSUME NEW q \in Request, Send(q) \/ Claims(q) \/ Sender(q)
            PROVE  admitted' = admitted \/ admitted' = [admitted EXCEPT ![q] = @ + 1]
        BY <3>1 DEF Send, Claims, Sender, Connect, ConnectFails, Write, WriteFails, Learns, GivesUp,
                    Returns, UnchangedApp
      <3>2. CASE Admit
        BY <3>2 DEF Admit
      <3>3. CASE Server \/ Starts \/ OpensPipe \/ Exits \/ UNCHANGED vars
        BY <3>3 DEF Server, Accepts, Reads, ReadsNothing, AdmissionTimesOut, Acks, Drains, Releases,
                    UnchangedSenders, Starts, OpensPipe, Exits, vars
      <3> QED
        BY <3>1, <3>2, <3>3 DEF Next
    <2> QED
      BY <2>1, <2>2, <2>3
  <1> QED
    BY <1>1, <1>2

\* Whom send_shell_request() returns to: a request that has left its sender does
\* not go back to it.
LEMMA ReturnLeaves ==
    ASSUME TypeOK, NEW r \in Request, NEW a \in Answer, Returns(r, a), a # "Undelivered" \/ Unsent(r)
    PROVE  \A x \in Request : ~Unsent(x) => ~Unsent(x)'
  BY Returned DEF Unsent

\* Nothing brings a request back that is gone.
LEMMA GoneStays ==
    ASSUME AdmissionInv, [Next]_vars, NEW r \in Request, Gone(r)
    PROVE  Gone(r)'
  <1> USE DEF AdmissionInv
  <1>0. /\ ~Unsent(r) /\ frame # r /\ ~Held(r) /\ ~Queued(r) /\ admitted[r] = 0 /\ r # None
        /\ sender \in Senders /\ admitted \in [Request -> Nat]
    BY AdmissionAssumption DEF Gone, TypeOK, Senders
  <1>1. ASSUME NEW q \in Request, Send(q) \/ Claims(q)  PROVE Gone(r)'
    <2>1. sender[q].phase \in {"Fresh", "Launched"} /\ q # r
      BY <1>0, <1>1 DEF Send, Claims, Unsent
    <2>2. sender'[r] = sender[r] /\ admitted'[r] = admitted[r]
      BY <1>0, <1>1, <2>1 DEF Send, Claims, MovesTo, UnchangedApp, Senders
    <2>3. UNCHANGED <<frame, server, dispatcher>>
      BY <1>1 DEF Send, Claims, pipeVars, UnchangedApp
    <2> QED
      BY <1>0, <2>2, <2>3 DEF Gone, Unsent, Held, Queued
  <1>2. ASSUME NEW q \in Request, Connect(q) \/ Write(q)  PROVE Gone(r)'
    <2>1. q # r
      BY <1>0, <1>2 DEF Connect, Write, Unsent
    <2>2. sender'[r] = sender[r] /\ UNCHANGED <<server, dispatcher, admitted>> /\ frame' \in {frame, q}
      BY <1>0, <1>2, <2>1 DEF Connect, Write, MovesTo, UnchangedApp, Senders
    <2> QED
      BY <1>0, <2>1, <2>2 DEF Gone, Unsent, Held, Queued
  <1>3. ASSUME NEW q \in Request, ConnectFails(q) \/ WriteFails(q) \/ Learns(q) \/ GivesUp(q)
        PROVE  Gone(r)'
    <2>1. PICK a \in Answer : Returns(q, a) /\ (a # "Undelivered" \/ Unsent(q))
      BY <1>3 DEF ConnectFails, WriteFails, Learns, GivesUp, Unsent, Answer
    <2>2. ~Unsent(r)' /\ UNCHANGED <<dispatcher, admitted>>
      BY <1>0, <2>1, ReturnLeaves, Returned
    <2>3. server' = server /\ frame' # r
      BY <1>0, <1>3 DEF ConnectFails, WriteFails, Learns, GivesUp, Unsent, pipeVars
    <2> QED
      BY <1>0, <2>2, <2>3 DEF Gone, Held, Queued
  <1>4. CASE Accepts \/ ReadsNothing \/ AdmissionTimesOut \/ Acks \/ Drains
    <2>1. UNCHANGED <<frame, dispatcher, sender, admitted>>
      BY <1>4 DEF Accepts, ReadsNothing, AdmissionTimesOut, Acks, Drains, UnchangedSenders
    <2>2. ~Held(r)'
      BY <1>0, <1>4 DEF Accepts, ReadsNothing, AdmissionTimesOut, Acks, Drains, Held, TypeOK,
                        PipeServesClient, Answering, GivesUpWaiting
    <2> QED
      BY <1>0, <2>1, <2>2 DEF Gone, Unsent, Queued
  <1>5. CASE Reads
    <2>1. /\ UNCHANGED <<sender, admitted>> /\ frame' = None
          /\ server'.req = frame
          /\ dispatcher' = dispatcher \/ dispatcher' = Append(dispatcher, [req |-> frame, known |-> TRUE])
      BY <1>5 DEF Reads, UnchangedSenders, TypeOK
    <2>2. frame \in Request /\ ~Queued(frame)
      BY <1>5 DEF Reads, TypeOK, OnePlace
    <2>3. ~Queued(r)'
      <3>1. CASE dispatcher' = dispatcher
        BY <1>0, <3>1 DEF Queued
      <3>2. CASE dispatcher' = Append(dispatcher, [req |-> frame, known |-> TRUE])
        <4>1. [req |-> frame, known |-> TRUE] \in Entry
          BY <2>2 DEF Entry
        <4> QED
          BY <1>0, <2>2, <3>2, <4>1, QueueGrows
      <3> QED
        BY <2>1, <3>1, <3>2
    <2> QED
      BY <1>0, <2>1, <2>3 DEF Gone, Unsent, Held
  <1>6. CASE Releases
    <2>1. /\ UNCHANGED <<sender, admitted>> /\ frame' = None /\ server' \in {Listens, Stopped}
          /\ \/ dispatcher' = dispatcher
             \/ /\ server.req # None /\ ~server.known
                /\ dispatcher' = Append(dispatcher, [req |-> server.req, known |-> FALSE])
          /\ server.phase = "Releasing"
      BY <1>6 DEF Releases, UnchangedSenders, Disconnected
    <2>2. server'.phase # "Releasing"
      BY <2>1 DEF Listens, Stopped
    <2>3. ~Queued(r)'
      <3>1. CASE dispatcher' = dispatcher
        BY <1>0, <3>1 DEF Queued
      <3>2. CASE /\ server.req # None /\ ~server.known
                 /\ dispatcher' = Append(dispatcher, [req |-> server.req, known |-> FALSE])
        <4>1. server.req \in Request /\ Held(server.req)
          BY <2>1, <3>2 DEF Held, TypeOK
        <4>2. ~Queued(server.req) /\ server.req # r
          BY <1>0, <4>1 DEF OnePlace
        <4>3. [req |-> server.req, known |-> FALSE] \in Entry
          BY <4>1 DEF Entry
        <4> QED
          BY <1>0, <3>2, <4>2, <4>3, QueueGrows
      <3> QED
        BY <2>1, <3>1, <3>2
    <2> QED
      BY <1>0, <2>1, <2>2, <2>3 DEF Gone, Unsent, Held
  <1>7. CASE Admit
    <2> DEFINE e == Head(dispatcher)
    <2>1. /\ e \in Entry /\ Queued(e.req) /\ e.req # r
          /\ ~Queued(r)'
      BY <1>0, <1>7, QueueShrinks DEF Admit
    <2>2. /\ UNCHANGED <<frame, sender>>
          /\ admitted' = admitted \/ admitted' = [admitted EXCEPT ![e.req] = @ + 1]
          /\ \E ok \in BOOLEAN : Answers(e, ok)
      BY <1>7 DEF Admit
    <2>3. admitted'[r] = 0
      BY <1>0, <2>1, <2>2
    <2>4. ~Held(r)'
      BY <1>0, <2>1, <2>2, Told
    <2> QED
      BY <1>0, <2>1, <2>2, <2>3, <2>4 DEF Gone, Unsent
  <1>8. CASE Starts \/ OpensPipe \/ UNCHANGED vars
    <2>1. UNCHANGED <<frame, sender, dispatcher, admitted>> /\ (server' = server \/ server' = Listens)
      BY <1>8 DEF Starts, OpensPipe, vars, pipeVars
    <2> QED
      BY <1>0, <2>1 DEF Gone, Unsent, Held, Queued, Listens, Stopped
  <1>9. CASE Exits
    <2>1. /\ frame' = None /\ server' = Stopped /\ dispatcher' = <<>> /\ admitted' = admitted
          /\ sender'[r] = IF sender[r].via = "Paste" /\ sender[r].phase # "Fresh"
                          THEN [sender[r] EXCEPT !.phase = "Done"] ELSE sender[r]
      BY <1>9 DEF Exits
    <2>2. ~Unsent(r)'
      BY <1>0, <2>1 DEF Unsent, Senders
    <2> QED
      BY <1>0, <2>1, <2>2 DEF Gone, Held, Queued, Stopped
  <1> QED
    BY <1>1, <1>2, <1>3, <1>4, <1>5, <1>6, <1>7, <1>8, <1>9 DEF Next, Sender, Server

\* The parts of TruthInv.
CacheTrue == \A n \in DOMAIN cache : admitted[cache[n]] = 1
ReplyTrue == /\ server.phase = "Acking" /\ server.ok => admitted[client] = 1
             /\ reply # None /\ reply => admitted[client] = 1
ToldTrue  == \A r \in Request : /\ Identified(r) /\ answer[r] = "Delivered" => admitted[r] = 1
                                /\ answer[r] = "Refused" => Gone(r)

\* A step that tells no sender anything leaves the answers true.
LEMMA ToldStays ==
    ASSUME AdmissionInv, AdmissionInv', ToldTrue, [Next]_vars, UNCHANGED answer,
           \A r \in Request : sender'[r].via = sender[r].via
    PROVE  ToldTrue'
  BY AdmittedStays, GoneStays DEF ToldTrue, Identified

\* A step of the thread of the pipe, or of the UI thread, that is not a yes.
LEMMA ReplyStays ==
    ASSUME AdmissionInv, AdmissionInv', ReplyTrue, [Next]_vars,
           server' = server \/ ~(server'.phase = "Acking" /\ server'.ok),
           reply' = reply \/ reply' = None,
           client' = client
    PROVE  ReplyTrue'
  <1>1. ASSUME client \in Request, admitted[client] = 1  PROVE admitted'[client] = 1
    BY <1>1, AdmittedStays
  <1>2. server.phase = "Acking" => client \in Request
    BY DEF AdmissionInv, TypeOK, PipeServesClient, Answering
  <1>3. reply # None => client \in Request
    BY DEF AdmissionInv, TypeOK, PipeServesClient
  <1> QED
    BY <1>1, <1>2, <1>3 DEF ReplyTrue

\* So does the cache, when it does not change.
LEMMA CacheStays ==
    ASSUME AdmissionInv, AdmissionInv', CacheTrue, [Next]_vars, UNCHANGED cache
    PROVE  CacheTrue'
  <1>1. \A n \in DOMAIN cache : cache[n] \in Request
    BY DEF AdmissionInv, TypeOK
  <1> QED
    BY <1>1, AdmittedStays DEF CacheTrue

\* A sender that has not been told yet.
LEMMA SendersKeepTruth ==
    ASSUME AdmissionInv, AdmissionInv', CacheTrue, ReplyTrue, ToldTrue, [Next]_vars, NEW r \in Request,
           Send(r) \/ Claims(r) \/ Connect(r) \/ Write(r)
    PROVE  CacheTrue' /\ ReplyTrue' /\ ToldTrue'
  <1>1. /\ UNCHANGED <<answer, cache, reply, server>>
        /\ client' = client \/ Connect(r)
        /\ \E phase \in Phase : MovesTo(r, phase)
    BY DEF Send, Claims, Connect, Write, UnchangedApp, pipeVars, Phase
  <1>2. \A x \in Request : sender'[x].via = sender[x].via
    BY <1>1 DEF MovesTo, AdmissionInv, TypeOK
  <1>3. ReplyTrue'
    <2>1. CASE client' = client
      BY <1>1, <2>1, ReplyStays
    <2>2. CASE Connect(r)
      BY <1>1, <2>2 DEF Connect, AdmissionInv, PipeServesClient, ReplyTrue
    <2> QED
      BY <1>1, <2>1, <2>2
  <1> QED
    BY <1>1, <1>2, <1>3, ToldStays, CacheStays

\* What a sender is told is true: yes only from a reply that says so, and no
\* only while it still listens.
LEMMA ReturnsKeepTruth ==
    ASSUME AdmissionInv, AdmissionInv', CacheTrue, ReplyTrue, ToldTrue, [Next]_vars, NEW r \in Request,
           ConnectFails(r) \/ WriteFails(r) \/ Learns(r) \/ GivesUp(r)
    PROVE  CacheTrue' /\ ReplyTrue' /\ ToldTrue'
  <1> USE DEF AdmissionInv
  <1>1. PICK a \in Answer :
           /\ Returns(r, a)
           /\ a = "Refused" => Identified(r) /\ client = r /\ reply # None /\ ~reply
                               /\ Listening(r) /\ UNCHANGED <<frame, server>>
           /\ a = "Delivered" /\ Identified(r) => client = r /\ reply # None /\ reply
    BY DEF ConnectFails, WriteFails, Learns, GivesUp, Answer, Listening
  <1>2. /\ answer' = [answer EXCEPT ![r] = a] /\ answer \in [Request -> Answer]
        /\ UNCHANGED <<cache, dispatcher, admitted>>
        /\ \A x \in Request : x # r => sender'[x] = sender[x]
        /\ a # "Undelivered" => sender'[r].phase = "Done"
    BY <1>1, Returned DEF Returns, TypeOK
  <1>3. UNCHANGED <<client, server>> /\ (reply' = reply \/ reply' = None)
    BY DEF ConnectFails, WriteFails, Learns, GivesUp, pipeVars
  <1>4. a = "Refused" => Gone(r)'
    <2> SUFFICES ASSUME a = "Refused" PROVE Gone(r)'
      OBVIOUS
    <2>1. reply # TRUE
      BY <1>1
    <2>2. Nowhere(r)
      BY <1>1, <2>1 DEF NoIsFinal
    <2> QED
      BY <1>1, <1>2, <2>2 DEF Nowhere, Gone, Unsent, Held, Queued, Untouched
  <1>5. a = "Delivered" /\ Identified(r) => admitted'[r] = 1
    BY <1>1, <1>2 DEF ReplyTrue
  <1>6. a # "Undelivered" => sender'[r].via = sender[r].via
    <2>1. ASSUME a # "Undelivered"  PROVE MovesTo(r, "Done")
      BY <1>1, <2>1 DEF Returns, StartsProcess, TriesAgain
    <2> QED
      BY <2>1 DEF MovesTo, TypeOK
  <1>7. ToldTrue'
    <2>1. ASSUME NEW x \in Request, x # r
          PROVE  /\ Identified(x)' /\ answer'[x] = "Delivered" => admitted'[x] = 1
                 /\ answer'[x] = "Refused" => Gone(x)'
      BY <1>2, <2>1, GoneStays DEF ToldTrue, Identified
    <2>2. /\ Identified(r)' /\ answer'[r] = "Delivered" => admitted'[r] = 1
          /\ answer'[r] = "Refused" => Gone(r)'
      BY <1>2, <1>4, <1>5, <1>6 DEF Identified
    <2> QED
      BY <2>1, <2>2 DEF ToldTrue
  <1> QED
    BY <1>2, <1>3, <1>7, ReplyStays, CacheStays

\* The thread of the pipe passes on what the UI thread said.
LEMMA ServerKeepsTruth ==
    ASSUME AdmissionInv, AdmissionInv', CacheTrue, ReplyTrue, ToldTrue, [Next]_vars, Server
    PROVE  CacheTrue' /\ ReplyTrue' /\ ToldTrue'
  <1> USE DEF AdmissionInv
  <1>1. UNCHANGED <<sender, answer, cache, admitted>>
    BY DEF Server, Accepts, Reads, ReadsNothing, AdmissionTimesOut, Acks, Drains, Releases,
           UnchangedSenders
  <1>2. ReplyTrue'
    <2>0. server \in Servers
      BY DEF TypeOK, Servers
    <2>1. CASE Acks
      <3>1. /\ client' = client /\ admitted' = admitted /\ server.phase = "Acking"
            /\ server'.phase # "Acking"
            /\ reply' = server.ok \/ reply' = reply
        BY <2>0, <2>1 DEF Acks, UnchangedSenders, Servers
      <3> QED
        BY <2>0, <3>1 DEF ReplyTrue, Servers
    <2>2. CASE Releases
      <3>1. reply' = None /\ server' \in {Listens, Stopped}
        BY <2>2 DEF Releases, Disconnected
      <3> QED
        BY <3>1 DEF ReplyTrue, Listens, Stopped
    <2>3. CASE Accepts \/ Reads \/ ReadsNothing \/ AdmissionTimesOut \/ Drains
      <3>1. UNCHANGED <<client, reply>> /\ ~(server'.phase = "Acking" /\ server'.ok)
        BY <2>0, <2>3 DEF Accepts, Reads, ReadsNothing, AdmissionTimesOut, Drains, Servers
      <3> QED
        BY <3>1, ReplyStays
    <2> QED
      BY <2>1, <2>2, <2>3 DEF Server
  <1> QED
    BY <1>1, <1>2, ToldStays, CacheStays

\* AdmitShellRequest() says yes to what it has admitted: what it finds in the
\* cache too.
LEMMA AdmitKeepsTruth ==
    ASSUME AdmissionInv, AdmissionInv', CacheTrue, ReplyTrue, ToldTrue, [Next]_vars, Admit
    PROVE  CacheTrue' /\ ReplyTrue' /\ ToldTrue'
  <1> USE DEF AdmissionInv
  <1> DEFINE e == Head(dispatcher)
  <1>1. UNCHANGED <<sender, answer, client, reply>>
    BY DEF Admit
  <1>2. e \in Entry /\ e.req \in Request /\ admitted[e.req] = 0 /\ admitted \in [Request -> Nat]
    <2>1. e \in Entry /\ Queued(e.req)
      BY QueueShrinks DEF Admit
    <2>2. e.req \in Request
      BY <2>1 DEF Entry
    <2> QED
      BY <2>1, <2>2 DEF OnePlace, Untouched, TypeOK
  <1>3. e.req \notin ToSet(cache)
    <2>1. ASSUME e.req \in ToSet(cache)  PROVE FALSE
      <3>1. PICK n \in DOMAIN cache : cache[n] = e.req
        BY <2>1 DEF ToSet
      <3> QED
        BY <1>2, <3>1 DEF CacheTrue
    <2> QED
      BY <2>1
  <1>4. \/ /\ admitted' = [admitted EXCEPT ![e.req] = @ + 1]
           /\ cache' = IF e.known THEN Trimmed(Append(cache, e.req)) ELSE cache
           /\ Answers(e, TRUE)
        \/ Answers(e, FALSE) /\ UNCHANGED <<cache, admitted>>
    BY <1>3 DEF Admit
  <1>5. PICK ok \in BOOLEAN : Answers(e, ok) /\ (ok => admitted'[e.req] = 1)
    <2>1. ASSUME admitted' = [admitted EXCEPT ![e.req] = @ + 1]  PROVE admitted'[e.req] = 1
      BY <1>2, <2>1
    <2> HIDE DEF e
    <2> QED
      BY <1>4, <2>1
  <1>6. ReplyTrue'
    <2>1. \/ server' = server
          \/ server'.phase = "Acking" /\ server'.ok = ok /\ client = e.req
      BY <1>2, <1>5, Told
    <2>2. CASE server' = server \/ ~ok
      BY <1>1, <2>1, <2>2, ReplyStays
    <2>3. CASE ok /\ client = e.req
      <3>1. admitted'[client'] = 1
        BY <1>1, <1>5, <2>3
      <3> QED
        BY <3>1 DEF ReplyTrue
    <2> QED
      BY <2>1, <2>2, <2>3
  <1>7. CacheTrue'
    <2>1. CASE cache' = cache
      BY <2>1, CacheStays
    <2>2. CASE cache' = Trimmed(Append(cache, e.req)) /\ admitted' = [admitted EXCEPT ![e.req] = @ + 1]
      <3> DEFINE order == Append(cache, e.req)
      <3>1. admitted'[e.req] = 1
        BY <1>2, <2>2
      <3>2. \A n \in DOMAIN cache : admitted'[cache[n]] = 1
        <4>1. \A n \in DOMAIN cache : cache[n] \in Request
          BY DEF TypeOK
        <4> QED
          BY <4>1, AdmittedStays DEF CacheTrue
      <3>3. /\ order \in Seq(Request) /\ Len(order) \in Nat
            /\ \A n \in DOMAIN order : order[n] = e.req \/ \E k \in DOMAIN cache : order[n] = cache[k]
        <4>1. cache \in Seq(Request) /\ e.req \in Request
          BY <1>2 DEF TypeOK
        <4> HIDE DEF e
        <4>2. /\ order \in Seq(Request) /\ Len(order) = Len(cache) + 1 /\ Len(cache) \in Nat
              /\ DOMAIN order = 1..(Len(cache) + 1) /\ DOMAIN cache = 1..Len(cache)
              /\ order[Len(cache) + 1] = e.req
              /\ \A n \in 1..Len(cache) : order[n] = cache[n]
          BY <4>1
        <4>3. \A n \in 1..(Len(cache) + 1) : n = Len(cache) + 1 \/ n \in 1..Len(cache)
          BY <4>2
        <4> QED
          BY <4>2, <4>3
      <3>4. \A n \in DOMAIN order : admitted'[order[n]] = 1
        BY <3>1, <3>2, <3>3
      <3> HIDE DEF order
      <3>5. ASSUME Len(order) > CacheLimit
            PROVE  \A n \in DOMAIN Tail(order) : admitted'[Tail(order)[n]] = 1
        <4>1. order # <<>>
          BY <3>3, <3>5, AdmissionAssumption
        <4>2. \A n \in DOMAIN Tail(order) : n + 1 \in DOMAIN order /\ Tail(order)[n] = order[n + 1]
          BY <3>3, <4>1
        <4> QED
          BY <3>4, <4>2
      <3> QED
        BY <2>2, <3>4, <3>5 DEF Trimmed, CacheTrue, order
    <2> QED
      BY <1>4, <2>1, <2>2
  <1> QED
    BY <1>1, <1>6, <1>7, ToldStays

\* The process starts, opens its pipe and ends.
LEMMA ProcessKeepsTruth ==
    ASSUME AdmissionInv, AdmissionInv', CacheTrue, ReplyTrue, ToldTrue, [Next]_vars,
           Starts \/ OpensPipe \/ Exits \/ UNCHANGED vars
    PROVE  CacheTrue' /\ ReplyTrue' /\ ToldTrue'
  <1> USE DEF AdmissionInv
  <1>1. UNCHANGED answer /\ \A r \in Request : sender'[r].via = sender[r].via
    <2>1. CASE Exits
      <3>1. ASSUME NEW r \in Request  PROVE sender'[r].via = sender[r].via
        <4>1. sender'[r] \in {[sender[r] EXCEPT !.phase = "Done"], sender[r]}
          BY <2>1 DEF Exits
        <4> QED
          BY <4>1 DEF TypeOK
      <3> QED
        BY <2>1, <3>1 DEF Exits
    <2>2. CASE Starts \/ OpensPipe \/ UNCHANGED vars
      BY <2>2 DEF Starts, OpensPipe, vars
    <2> QED
      BY <2>1, <2>2
  <1>2. CASE Starts \/ OpensPipe \/ UNCHANGED vars
    <2>1. UNCHANGED <<cache, client, reply>> /\ (server' = server \/ server'.phase # "Acking")
      BY <1>2 DEF Starts, OpensPipe, vars, pipeVars, Listens, Stopped
    <2> QED
      BY <1>1, <2>1, ToldStays, ReplyStays, CacheStays
  <1>3. CASE Exits
    <2>1. cache' = <<>> /\ reply' = None /\ server'.phase # "Acking"
      BY <1>3 DEF Exits, Stopped
    <2> QED
      BY <1>1, <2>1, ToldStays DEF CacheTrue, ReplyTrue
  <1> QED
    BY <1>2, <1>3

\* The one byte of the reply is true: a sender told yes was admitted, and one
\* told no is neither admitted nor waiting for it (ipc_transport.cpp, the reply
\* of receive_and_ack(); App::AdmitShellRequest).
THEOREM AnswersAreTrue == Spec => []AnswerTrue
  <1> DEFINE Truth == CacheTrue /\ ReplyTrue /\ ToldTrue
  <1>1. Init => Truth
    BY DEF Init, CacheTrue, ReplyTrue, ToldTrue, Stopped
  <1>2. AdmissionInv /\ AdmissionInv' /\ Truth /\ [Next]_vars => Truth'
    <2> SUFFICES ASSUME AdmissionInv, AdmissionInv', CacheTrue, ReplyTrue, ToldTrue, [Next]_vars
                 PROVE  CacheTrue' /\ ReplyTrue' /\ ToldTrue'
      OBVIOUS
    <2> QED
      BY SendersKeepTruth, ReturnsKeepTruth, ServerKeepsTruth, AdmitKeepsTruth, ProcessKeepsTruth
         DEF Next, Sender
  <1>3. Truth => AnswerTrue
    BY DEF ToldTrue, Gone, AnswerTrue
  <1> HIDE DEF Truth
  <1> QED
    BY <1>1, <1>2, <1>3, AdmissionInvariance, PTL DEF Spec
=============================================================================
