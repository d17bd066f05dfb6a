------------------------- MODULE TransferWindowProofs -------------------------
(***************************************************************************)
(* One window for any number of jobs and whatever may happen to them: its  *)
(* gates are exact, no job is in two places, a cancel prevails over a      *)
(* stop, and no job is lost but for those that the four steps which write  *)
(* astray go past.                                                         *)
(*                                                                         *)
(* WindowInv holds whatever happens.  SessionInv says which of the         *)
(* window's variables make up a session, GateInv which gate is open and    *)
(* for whom, Counted what its counter counts, MessageInv what the thread   *)
(* has told the window and the window has not yet read, PlacesInv that a   *)
(* waiting job is in one place, and FateInv that those are the jobs        *)
(* accepted and not begun.  KeptInv says where the jobs are that have      *)
(* begun, and what a window without a session has in its queues.           *)
(***************************************************************************)
EXTENDS TransferWindow, TLAPS, FiniteSetTheorems

Gate == [accepting : BOOLEAN, count : Nat]
AppendRequest == [job : Job, plan : Job, control : BOOLEAN, gate : Nat \ {0}]
ResultType ==
    [kind : {"None", "Success", "Stopped", "Cancelled", "Failed"},
     conflict : Job \cup {None}, parked : BOOLEAN]
Notice ==
    [kind : {"Publish"}, plan : Job]
        \cup [kind : {"Finish"}, result : ResultType, handover : BOOLEAN]
        \cup [kind : {"Appended", "PlanFailed"}, request : AppendRequest]

\* Where the copy thread is before the plan is published, and after it.
Before == {"Planning", "Planned", "Elevation", "LowSpace"}
Ran == {"Executing", "Drained", "Returned", "Waiting"}
Copier ==
    [pc : {"Done"} \cup Before \cup Ran, plan : Job \cup {None},
     policy : {Prompt, All} \cup Job, result : ResultType]
Worker ==
    [pc : {"Idle", "Building", "Aborting", "Answering", "Posting"},
     request : AppendRequest \cup {NoRequest}, answer : {"None", "Plan", "Fail", "Abort"}]
Busy == planner.pc \in {"Building", "Aborting", "Answering"}

\* The types of what outlives a session ...
RestTyped ==
    /\ closing \in BOOLEAN /\ closed \in BOOLEAN
    /\ dialog \in Job \cup {None}
    /\ home \in [Job -> Job \cup {None}] /\ fate \in [Job -> Fate]
    /\ queuedSessions \in Seq(Job)
    /\ deferredStopped \in Seq(Job)
    /\ messages \in Seq(Notice)
    /\ planning \in Seq(AppendRequest)
    /\ planner \in Worker
    /\ planner.pc # "Idle" => planner.request \in AppendRequest

\* ... and all of them.
Typed ==
    /\ TypeOK
    /\ RestTyped
    /\ deferredSame \in Seq(Job)
    /\ thread \in Copier

SessionInv ==
    /\ control => interrupted = "None" /\ thread.plan \in Job /\ gate # 0
    /\ interrupted # "None" => live # None /\ gate # 0 /\ gates[gate].accepting
    /\ stopRequested => control
    /\ thread.pc # "Done" => control
    /\ live # None => control \/ interrupted # "None"
    /\ control /\ live # None => live = thread.plan
    /\ thread.pc \in Before => live = None
    /\ finalizing => interrupted \in {"Stopped", "Conflict"}
    /\ gate # 0 => control \/ interrupted # "None"
    /\ deferredSame # <<>> => control /\ live = None
    /\ CancelOverStop

\* Who goes through a gate: the planner's requests.
Requests ==
    {planning[i] : i \in DOMAIN planning} \cup (IF Busy THEN {planner.request} ELSE {})

GateInv ==
    /\ OpenGateHasOwner
    /\ control /\ thread.pc # "Done" => (gates[gate].accepting <=> ~cancelRequested)
    /\ control /\ thread.pc = "Done" => ~gates[gate].accepting
    /\ \A r \in Requests :
           r.gate <= Len(gates) /\ (gates[r.gate].accepting => r.plan = live)

\* The planner holds one reservation of gate g, or none.
Building(g) == IF Busy /\ planner.request.gate = g THEN 1 ELSE 0

Counted ==
    gate # 0 /\ gates[gate].accepting =>
        gates[gate].count = Through(planning, gate) + Building(gate) + Len(deferredSame)

PublishPending == \E i \in DOMAIN messages : messages[i].kind = "Publish"
Substantive(r) == r.kind \in {"Success", "Stopped"} \/ r.conflict # None \/ r.parked

MessageInv ==
    /\ \A i \in DOMAIN messages : messages[i].kind = "Finish" =>
          /\ control /\ thread.pc = "Done"
          /\ \A k \in DOMAIN messages :
                 k > i => messages[k].kind \notin {"Publish", "Finish"}
          /\ Substantive(messages[i].result) => live # None \/ PublishPending
    /\ \A i \in DOMAIN messages : messages[i].kind = "Publish" =>
          /\ control /\ live = None /\ messages[i].plan = thread.plan
          /\ thread.pc \in Ran \cup {"Done"}
          /\ \A k \in DOMAIN messages : messages[k].kind = "Publish" => k = i
    /\ thread.pc \in Ran => live # None \/ PublishPending

\* The places a job waits in, as sets.
InQueue == ToSet(queuedSessions)
InSame == ToSet(deferredSame)
InStopped == ToSet(deferredStopped)
InPlanning == Jobs(planning)
InWorker == IF Busy THEN {planner.request.job} ELSE {}
InWait == InQueue \cup InSame \cup InStopped \cup InPlanning \cup InWorker

PlacesInv ==
    /\ IsInjective(queuedSessions)
    /\ IsInjective(deferredSame)
    /\ IsInjective(deferredStopped)
    /\ \A i, k \in DOMAIN planning : planning[i].job = planning[k].job => i = k
    /\ InQueue \cap InSame = {}
    /\ (InQueue \cup InSame) \cap InStopped = {}
    /\ (InQueue \cup InSame \cup InStopped) \cap InPlanning = {}
    /\ (InQueue \cup InSame \cup InStopped \cup InPlanning) \cap InWorker = {}

Begun(j) == fate[j] \notin {"Outside", "Asked", "Accepted"}

FateInv ==
    /\ \A j \in InWait : fate[j] = "Accepted"
    /\ control => thread.plan \notin InWait
    /\ \A j \in Job : fate[j] = "Accepted" => j \in InWait \/ (control /\ thread.plan = j)
    /\ live # None => Begun(live)
    /\ thread.pc \notin {"Done", "Planning"} \/ PublishPending => Begun(thread.plan)
    /\ control => fate[thread.plan] \notin {"Outside", "Asked"}

SessionPart == Typed /\ SessionInv /\ GateInv /\ Counted /\ MessageInv
WindowInv == SessionPart /\ PlacesInv /\ FateInv

\* A job of a plan that is not settled is in the plan of the session ...
HomeKept ==
    \A j \in Job \ astray : fate[j] \in {"Pending", "Parked"} =>
        \/ control /\ thread.plan = home[j]
        \/ interrupted # "None" /\ live = home[j]

\* ... that is given up only when there is none, ...
EmptyKept ==
    finalizing =>
        \A j \in Job \ astray : fate[j] \in {"Pending", "Parked"} => home[j] # live

\* ... and a success leaves none that it does not tell of.
ParkedKept ==
    thread.pc \in {"Returned", "Waiting"} =>
        (thread.result.parked <=> \E j \in Job : home[j] = thread.plan /\ fate[j] = "Parked")
SuccessKept ==
    \A i \in DOMAIN messages :
        messages[i].kind = "Finish" /\ messages[i].result.kind = "Success" =>
            \A j \in Job : home[j] = thread.plan =>
                /\ fate[j] # "Pending" \/ j \in astray
                /\ fate[j] # "Parked" \/ messages[i].result.parked

\* The queues wait for a session that is there.
QueueKept == control \/ interrupted # "None" \/ InQueue \cup InStopped \subseteq astray

KeptInv == HomeKept /\ EmptyKept /\ ParkedKept /\ SuccessKept /\ QueueKept

-----------------------------------------------------------------------------
(***************************************************************************)
(* Sequences of jobs and of requests.                                      *)
(***************************************************************************)
\* A job that joins a sequence it is not in.
LEMMA JoinsLast ==
    ASSUME NEW s \in Seq(Job), NEW j \in Job
    PROVE  /\ Append(s, j) \in Seq(Job)
           /\ ToSet(Append(s, j)) = ToSet(s) \cup {j}
           /\ IsInjective(s) /\ j \notin ToSet(s) => IsInjective(Append(s, j))
           /\ Len(Append(s, j)) = Len(s) + 1
<1> DEFINE t == Append(s, j)
<1>1. /\ t \in Seq(Job) /\ Len(t) = Len(s) + 1 /\ Len(s) \in Nat
      /\ DOMAIN t = 1..(Len(s) + 1) /\ DOMAIN s = 1..Len(s)
    OBVIOUS
<1>2. \A i \in 1..Len(s) : t[i] = s[i]
    OBVIOUS
<1>3. t[Len(s) + 1] = j
    OBVIOUS
<1> HIDE DEF t
<1>4. ToSet(t) = ToSet(s) \cup {j}
    <2>1. \A x : x \in ToSet(t) <=> x \in ToSet(s) \/ x = j
        BY <1>1, <1>2, <1>3 DEF ToSet
    <2>2. QED BY <2>1
<1>5. ASSUME IsInjective(s), j \notin ToSet(s) PROVE IsInjective(t)
    BY <1>1, <1>2, <1>3, <1>5 DEF IsInjective, ToSet
<1>6. QED BY <1>1, <1>4, <1>5 DEF t

\* The first of a sequence leaves it.
LEMMA LeavesFirst ==
    ASSUME NEW s \in Seq(Job), s # <<>>
    PROVE  /\ Tail(s) \in Seq(Job)
           /\ Head(s) \in ToSet(s) /\ Head(s) \in Job
           /\ IsInjective(s) => /\ IsInjective(Tail(s))
                                /\ ToSet(Tail(s)) = ToSet(s) \ {Head(s)}
<1> DEFINE t == Tail(s)
<1>1. /\ t \in Seq(Job) /\ Len(t) = Len(s) - 1 /\ Len(s) \in Nat \ {0}
      /\ DOMAIN t = 1..(Len(s) - 1) /\ DOMAIN s = 1..Len(s)
    OBVIOUS
<1>2. \A i \in 1..(Len(s) - 1) : t[i] = s[i + 1]
    OBVIOUS
<1>3. Head(s) = s[1] /\ s[1] \in Job
    BY <1>1
<1> HIDE DEF t
<1>4. ASSUME IsInjective(s) PROVE IsInjective(t) /\ ToSet(t) = ToSet(s) \ {Head(s)}
    <2>1. IsInjective(t)
        <3>1. \A a, b \in DOMAIN s : s[a] = s[b] => a = b BY <1>4 DEF IsInjective
        <3>2. \A a \in DOMAIN t : t[a] = s[a + 1] /\ a + 1 \in DOMAIN s BY <1>1, <1>2
        <3>3. \A a, b \in DOMAIN t : t[a] = t[b] => a + 1 = b + 1 BY <3>1, <3>2
        <3>4. \A a, b \in DOMAIN t : t[a] = t[b] => a = b BY <1>1, <3>3
        <3>5. QED BY <3>4 DEF IsInjective
    <2>2. \A x \in ToSet(t) : x \in ToSet(s) \ {Head(s)}
        BY <1>1, <1>2, <1>3, <1>4 DEF IsInjective, ToSet
    <2>3. ASSUME NEW i \in 1..Len(s), s[i] # Head(s) PROVE s[i] \in ToSet(t)
        <3>1. i - 1 \in 1..(Len(s) - 1) /\ t[i - 1] = s[i] BY <1>1, <1>2, <1>3, <2>3
        <3>2. QED BY <1>1, <3>1 DEF ToSet
    <2>4. \A x \in ToSet(s) \ {Head(s)} : x \in ToSet(t) BY <1>1, <2>3 DEF ToSet
    <2>5. QED BY <2>1, <2>2, <2>4
<1>5. QED BY <1>1, <1>3, <1>4 DEF ToSet, t

\* Two sequences one behind the other.
LEMMA OneBehindTheOther ==
    ASSUME NEW s \in Seq(Job), NEW t \in Seq(Job)
    PROVE  /\ s \o t \in Seq(Job)
           /\ ToSet(s \o t) = ToSet(s) \cup ToSet(t)
           /\ IsInjective(s) /\ IsInjective(t) /\ ToSet(s) \cap ToSet(t) = {}
                  => IsInjective(s \o t)
<1> DEFINE u == s \o t
<1>1. /\ u \in Seq(Job) /\ Len(u) = Len(s) + Len(t) /\ Len(s) \in Nat /\ Len(t) \in Nat
      /\ DOMAIN u = 1..(Len(s) + Len(t)) /\ DOMAIN s = 1..Len(s) /\ DOMAIN t = 1..Len(t)
    OBVIOUS
<1>2. \A i \in 1..Len(s) : u[i] = s[i]
    OBVIOUS
<1>3. \A i \in (Len(s) + 1)..(Len(s) + Len(t)) : u[i] = t[i - Len(s)]
    OBVIOUS
<1> HIDE DEF u
<1>4. ASSUME NEW i \in 1..Len(t) PROVE u[Len(s) + i] = t[i] /\ Len(s) + i \in DOMAIN u
    <2>1. /\ Len(s) + i \in (Len(s) + 1)..(Len(s) + Len(t)) /\ (Len(s) + i) - Len(s) = i
          /\ Len(s) + i \in 1..(Len(s) + Len(t))
        BY <1>1
    <2>2. u[Len(s) + i] = t[(Len(s) + i) - Len(s)] BY <1>3, <2>1
    <2>3. QED BY <1>1, <2>1, <2>2
<1>5. ToSet(u) = ToSet(s) \cup ToSet(t)
    <2>1. \A x \in ToSet(u) : x \in ToSet(s) \cup ToSet(t)
        <3>1. SUFFICES ASSUME NEW i \in DOMAIN u PROVE u[i] \in ToSet(s) \cup ToSet(t)
            BY DEF ToSet
        <3>2. CASE i \in 1..Len(s) BY <1>1, <1>2, <3>2 DEF ToSet
        <3>3. CASE i \notin 1..Len(s)
            <4>1. i - Len(s) \in 1..Len(t) /\ i \in (Len(s) + 1)..(Len(s) + Len(t))
                BY <1>1, <3>3
            <4>2. u[i] = t[i - Len(s)] BY <1>3, <4>1
            <4>3. QED BY <1>1, <4>1, <4>2 DEF ToSet
        <3>4. QED BY <3>2, <3>3
    <2>2. \A x \in ToSet(s) : x \in ToSet(u) BY <1>1, <1>2 DEF ToSet
    <2>3. \A x \in ToSet(t) : x \in ToSet(u) BY <1>1, <1>4 DEF ToSet
    <2>4. QED BY <2>1, <2>2, <2>3
<1>6. ASSUME IsInjective(s), IsInjective(t), ToSet(s) \cap ToSet(t) = {}
      PROVE  IsInjective(u)
    <2>1. SUFFICES ASSUME NEW a \in DOMAIN u, NEW b \in DOMAIN u, u[a] = u[b] PROVE a = b
        BY DEF IsInjective
    <2>2. ASSUME NEW c \in DOMAIN u
          PROVE  \/ c \in DOMAIN s /\ u[c] = s[c] /\ u[c] \in ToSet(s)
                 \/ /\ c - Len(s) \in DOMAIN t /\ u[c] = t[c - Len(s)]
                    /\ u[c] \in ToSet(t)
        <3>1. CASE c \in 1..Len(s) BY <1>1, <1>2, <3>1 DEF ToSet
        <3>2. CASE c \notin 1..Len(s)
            <4>1. c - Len(s) \in 1..Len(t) /\ c \in (Len(s) + 1)..(Len(s) + Len(t))
                BY <1>1, <2>2, <3>2
            <4>2. u[c] = t[c - Len(s)] BY <1>3, <4>1
            <4>3. QED BY <1>1, <4>1, <4>2 DEF ToSet
        <3>3. QED BY <3>1, <3>2
    <2>3. CASE a \in DOMAIN s /\ b \in DOMAIN s /\ u[a] = s[a] /\ u[b] = s[b]
        <3>1. \A c, d \in DOMAIN s : s[c] = s[d] => c = d BY <1>6 DEF IsInjective
        <3>2. QED BY <2>1, <2>3, <3>1
    <2>4. CASE /\ a - Len(s) \in DOMAIN t /\ u[a] = t[a - Len(s)]
               /\ b - Len(s) \in DOMAIN t /\ u[b] = t[b - Len(s)]
        <3>1. \A c, d \in DOMAIN t : t[c] = t[d] => c = d BY <1>6 DEF IsInjective
        <3>2. a - Len(s) = b - Len(s) BY <2>1, <2>4, <3>1
        <3>3. QED BY <1>1, <3>2
    <2>5. QED BY <1>6, <2>1, <2>2, <2>3, <2>4
<1>7. QED BY <1>1, <1>5, <1>6 DEF u

\* An empty sequence holds nothing.
LEMMA NothingIn ==
    /\ <<>> \in Seq(Job) /\ ToSet(<<>>) = {} /\ IsInjective(<<>>) /\ Jobs(<<>>) = {}
BY DEF ToSet, IsInjective, Jobs

\* Requests for jobs go to the planner, behind those that are there.
LEMMA RequestsBehind ==
    ASSUME NEW s \in Seq(AppendRequest), NEW t \in Seq(AppendRequest)
    PROVE  /\ s \o t \in Seq(AppendRequest)
           /\ Jobs(s \o t) = Jobs(s) \cup Jobs(t)
           /\ \A i \in DOMAIN (s \o t) :
                  \/ \E k \in DOMAIN s : (s \o t)[i] = s[k]
                  \/ \E k \in DOMAIN t : (s \o t)[i] = t[k]
           /\ /\ \A i, k \in DOMAIN s : s[i].job = s[k].job => i = k
              /\ \A i, k \in DOMAIN t : t[i].job = t[k].job => i = k
              /\ Jobs(s) \cap Jobs(t) = {}
              => \A i, k \in DOMAIN (s \o t) : (s \o t)[i].job = (s \o t)[k].job => i = k
<1> DEFINE u == s \o t
<1>1. /\ u \in Seq(AppendRequest) /\ Len(s) \in Nat /\ Len(t) \in Nat
      /\ DOMAIN u = 1..(Len(s) + Len(t)) /\ DOMAIN s = 1..Len(s) /\ DOMAIN t = 1..Len(t)
    OBVIOUS
<1>2. \A i \in 1..Len(s) : u[i] = s[i]
    OBVIOUS
<1>3. \A i \in (Len(s) + 1)..(Len(s) + Len(t)) : u[i] = t[i - Len(s)]
    OBVIOUS
<1> HIDE DEF u
<1>4. \A i \in DOMAIN s : i \in DOMAIN u /\ u[i] = s[i] BY <1>1, <1>2
<1>5. ASSUME NEW i \in DOMAIN t PROVE Len(s) + i \in DOMAIN u /\ u[Len(s) + i] = t[i]
    <2>1. /\ Len(s) + i \in (Len(s) + 1)..(Len(s) + Len(t)) /\ (Len(s) + i) - Len(s) = i
          /\ Len(s) + i \in 1..(Len(s) + Len(t))
        BY <1>1
    <2>2. u[Len(s) + i] = t[(Len(s) + i) - Len(s)] BY <1>3, <2>1
    <2>3. QED BY <1>1, <2>1, <2>2
<1>6. \A i \in DOMAIN u : \/ i \in DOMAIN s /\ u[i] = s[i]
                          \/ i - Len(s) \in DOMAIN t /\ u[i] = t[i - Len(s)]
    <2>1. SUFFICES ASSUME NEW i \in DOMAIN u
                   PROVE  \/ i \in DOMAIN s /\ u[i] = s[i]
                          \/ i - Len(s) \in DOMAIN t /\ u[i] = t[i - Len(s)]
        OBVIOUS
    <2>2. CASE i \in 1..Len(s) BY <1>1, <1>2, <2>2
    <2>3. CASE i \notin 1..Len(s)
        <3>1. i - Len(s) \in 1..Len(t) /\ i \in (Len(s) + 1)..(Len(s) + Len(t))
            BY <1>1, <2>1, <2>3
        <3>2. QED BY <1>1, <1>3, <3>1
    <2>4. QED BY <2>2, <2>3
<1>7. \A i \in DOMAIN u : \/ \E k \in DOMAIN s : u[i] = s[k]
                          \/ \E k \in DOMAIN t : u[i] = t[k]
    BY <1>6
<1>8. Jobs(u) = Jobs(s) \cup Jobs(t)
    <2>1. \A j \in Jobs(u) : j \in Jobs(s) \cup Jobs(t) BY <1>6 DEF Jobs
    <2>2. \A j \in Jobs(s) : j \in Jobs(u) BY <1>4 DEF Jobs
    <2>3. \A j \in Jobs(t) : j \in Jobs(u) BY <1>5 DEF Jobs
    <2>4. QED BY <2>1, <2>2, <2>3
<1>9. ASSUME \A i, k \in DOMAIN s : s[i].job = s[k].job => i = k,
             \A i, k \in DOMAIN t : t[i].job = t[k].job => i = k,
             Jobs(s) \cap Jobs(t) = {},
             NEW a \in DOMAIN u, NEW b \in DOMAIN u, u[a].job = u[b].job
      PROVE  a = b
    <2>1. CASE a \in DOMAIN s /\ u[a] = s[a] /\ b \in DOMAIN s /\ u[b] = s[b]
        BY <1>9, <2>1
    <2>2. CASE /\ a - Len(s) \in DOMAIN t /\ u[a] = t[a - Len(s)]
               /\ b - Len(s) \in DOMAIN t /\ u[b] = t[b - Len(s)]
        <3>1. a - Len(s) = b - Len(s) BY <1>9, <2>2
        <3>2. QED BY <1>1, <3>1
    <2>3. \A c \in DOMAIN s : s[c].job \in Jobs(s) BY DEF Jobs
    <2>4. \A c \in DOMAIN t : t[c].job \in Jobs(t) BY DEF Jobs
    <2>5. QED BY <1>6, <1>9, <2>1, <2>2, <2>3, <2>4
<1>10. QED BY <1>1, <1>7, <1>8, <1>9 DEF u

\* The requests for a sequence of jobs.
RequestsOf(jobs, p, c, g) ==
    [i \in DOMAIN jobs |-> [job |-> jobs[i], plan |-> p, control |-> c, gate |-> g]]

\* They are as many, for the same jobs and the same gate.
LEMMA RequestsFor ==
    ASSUME NEW jobs \in Seq(Job), NEW p \in Job, NEW c \in BOOLEAN, NEW g \in Nat \ {0}
    PROVE  /\ RequestsOf(jobs, p, c, g) \in Seq(AppendRequest)
           /\ Jobs(RequestsOf(jobs, p, c, g)) = ToSet(jobs)
           /\ Len(RequestsOf(jobs, p, c, g)) = Len(jobs)
           /\ \A i \in DOMAIN RequestsOf(jobs, p, c, g) :
                  /\ RequestsOf(jobs, p, c, g)[i].gate = g
                  /\ RequestsOf(jobs, p, c, g)[i].plan = p
           /\ IsInjective(jobs) =>
                  \A i, k \in DOMAIN RequestsOf(jobs, p, c, g) :
                      RequestsOf(jobs, p, c, g)[i].job = RequestsOf(jobs, p, c, g)[k].job
                          => i = k
<1> DEFINE t == RequestsOf(jobs, p, c, g)
<1>1. /\ DOMAIN t = 1..Len(jobs) /\ DOMAIN jobs = 1..Len(jobs) /\ Len(jobs) \in Nat
      /\ t = [i \in 1..Len(jobs) |-> t[i]]
    BY DEF RequestsOf
<1>2. \A i \in DOMAIN t : /\ t[i] \in AppendRequest
                          /\ t[i].job = jobs[i] /\ t[i].plan = p /\ t[i].gate = g
    BY DEF RequestsOf, AppendRequest
<1> HIDE DEF t
<1>3. t \in [1..Len(jobs) -> AppendRequest] BY <1>1, <1>2
<1>4. t \in Seq(AppendRequest) /\ Len(t) = Len(jobs) BY <1>1, <1>3
<1>5. Jobs(t) = ToSet(jobs) BY <1>1, <1>2 DEF Jobs, ToSet
<1>6. ASSUME IsInjective(jobs), NEW i \in DOMAIN t, NEW k \in DOMAIN t, t[i].job = t[k].job
      PROVE  i = k
    <2>1. \A a, b \in DOMAIN jobs : jobs[a] = jobs[b] => a = b BY <1>6 DEF IsInjective
    <2>2. QED BY <1>1, <1>2, <1>6, <2>1
<1>7. QED BY <1>2, <1>4, <1>5, <1>6 DEF t

\* The worker takes the first of its requests.
LEMMA TakesRequest ==
    ASSUME NEW s \in Seq(AppendRequest), s # <<>>
    PROVE  /\ Tail(s) \in Seq(AppendRequest) /\ Head(s) \in AppendRequest
           /\ Head(s) \in {s[i] : i \in DOMAIN s}
           /\ {Tail(s)[i] : i \in DOMAIN Tail(s)} \subseteq {s[i] : i \in DOMAIN s}
           /\ Jobs(s) = Jobs(Tail(s)) \cup {Head(s).job}
           /\ (\A i, k \in DOMAIN s : s[i].job = s[k].job => i = k)
                => /\ \A i, k \in DOMAIN Tail(s) :
                          Tail(s)[i].job = Tail(s)[k].job => i = k
                   /\ Head(s).job \notin Jobs(Tail(s))
<1> DEFINE t == Tail(s)
<1>1. /\ t \in Seq(AppendRequest) /\ Len(s) \in Nat \ {0}
      /\ DOMAIN t = 1..(Len(s) - 1) /\ DOMAIN s = 1..Len(s)
    OBVIOUS
<1>2. \A i \in 1..(Len(s) - 1) : t[i] = s[i + 1]
    OBVIOUS
<1>3. Head(s) = s[1] /\ s[1] \in AppendRequest /\ 1 \in DOMAIN s
    BY <1>1
<1> HIDE DEF t
<1>4. \A i \in DOMAIN t : i + 1 \in DOMAIN s /\ i + 1 # 1 /\ t[i] = s[i + 1] BY <1>1, <1>2
<1>5. \A i \in DOMAIN s : i = 1 \/ (i - 1 \in DOMAIN t /\ t[i - 1] = s[i]) BY <1>1, <1>2
<1>6. {t[i] : i \in DOMAIN t} \subseteq {s[i] : i \in DOMAIN s} BY <1>4
<1>7. Jobs(s) = Jobs(t) \cup {Head(s).job} BY <1>3, <1>4, <1>5 DEF Jobs
<1>8. ASSUME \A i, k \in DOMAIN s : s[i].job = s[k].job => i = k
      PROVE  /\ \A i, k \in DOMAIN t : t[i].job = t[k].job => i = k
             /\ Head(s).job \notin Jobs(t)
    <2>1. ASSUME NEW i \in DOMAIN t, NEW k \in DOMAIN t, t[i].job = t[k].job PROVE i = k
        <3>1. i + 1 = k + 1 BY <1>4, <1>8, <2>1
        <3>2. QED BY <1>1, <3>1
    <2>2. \A i \in DOMAIN t : t[i].job # Head(s).job BY <1>3, <1>4, <1>8
    <2>3. QED BY <2>1, <2>2 DEF Jobs
<1>9. QED BY <1>1, <1>3, <1>6, <1>7, <1>8 DEF t

-----------------------------------------------------------------------------
(***************************************************************************)
(* How many requests hold a reservation.                                   *)
(***************************************************************************)
\* It is a number.
LEMMA ThroughIsNumber ==
    ASSUME NEW s \in Seq(AppendRequest), NEW g
    PROVE  /\ IsFiniteSet({i \in DOMAIN s : s[i].gate = g})
           /\ Through(s, g) \in Nat
<1>1. DOMAIN s = 1..Len(s) /\ Len(s) \in Nat OBVIOUS
<1>2. IsFiniteSet(DOMAIN s) BY <1>1, FS_Interval
<1>3. {i \in DOMAIN s : s[i].gate = g} \in SUBSET DOMAIN s OBVIOUS
<1>4. IsFiniteSet({i \in DOMAIN s : s[i].gate = g}) BY <1>2, <1>3, FS_Subset
<1>5. QED BY <1>4, FS_CardinalityType DEF Through

\* None, if there is no request for that gate.
LEMMA ThroughNone ==
    ASSUME NEW s \in Seq(AppendRequest), NEW g, \A i \in DOMAIN s : s[i].gate # g
    PROVE  Through(s, g) = 0
<1>1. {i \in DOMAIN s : s[i].gate = g} = {} OBVIOUS
<1>2. QED BY <1>1, FS_EmptySet DEF Through

\* New requests for one gate are all counted, those for another are not.
LEMMA ThroughBehind ==
    ASSUME NEW s \in Seq(AppendRequest), NEW t \in Seq(AppendRequest), NEW g,
           \A i \in DOMAIN t : t[i].gate = g
    PROVE  Through(s \o t, g) = Through(s, g) + Len(t)
<1> DEFINE u == s \o t
           A == {i \in DOMAIN s : s[i].gate = g}
           B == (Len(s) + 1)..(Len(s) + Len(t))
<1>1. /\ Len(s) \in Nat /\ Len(t) \in Nat
      /\ DOMAIN u = 1..(Len(s) + Len(t)) /\ DOMAIN s = 1..Len(s) /\ DOMAIN t = 1..Len(t)
    OBVIOUS
<1>2. \A i \in 1..Len(s) : u[i] = s[i]
    OBVIOUS
<1>3. \A i \in (Len(s) + 1)..(Len(s) + Len(t)) : u[i] = t[i - Len(s)]
    OBVIOUS
<1> HIDE DEF u
<1>4. \A i \in B : i - Len(s) \in DOMAIN t BY <1>1
<1>5. {i \in DOMAIN u : u[i].gate = g} = A \cup B
    <2>1. \A i \in DOMAIN u : i \in DOMAIN s \/ i \in B BY <1>1
    <2>2. \A i \in DOMAIN s : i \in DOMAIN u /\ u[i].gate = s[i].gate /\ i \notin B
        BY <1>1, <1>2
    <2>3. \A i \in B : i \in DOMAIN u /\ u[i] = t[i - Len(s)] BY <1>1, <1>3
    <2>4. \A i \in B : u[i].gate = g BY <1>4, <2>3
    <2>5. QED BY <2>1, <2>2, <2>3, <2>4
<1>6. IsFiniteSet(A) BY ThroughIsNumber
<1>7. IsFiniteSet(B) /\ Cardinality(B) = Len(t)
    <2>1. Len(s) + 1 \in Int /\ Len(s) + Len(t) \in Int BY <1>1
    <2>2. ASSUME NEW a \in Int, NEW b \in Int
          PROVE  /\ IsFiniteSet(a..b)
                 /\ a > b => Cardinality(a..b) = 0
                 /\ ~(a > b) => Cardinality(a..b) = b - a + 1
        BY FS_Interval
    <2> HIDE DEF A
    <2>3. CASE Len(t) = 0 BY <1>1, <2>1, <2>2, <2>3
    <2>4. CASE Len(t) # 0 BY <1>1, <2>1, <2>2, <2>4
    <2>5. QED BY <2>3, <2>4
<1>8. A \cap B = {} BY <1>1
<1>9. Cardinality(A \cup B) = Cardinality(A) + Cardinality(B)
    <2>1. Cardinality(A \cap B) = 0 BY <1>8, FS_EmptySet
    <2>2. Cardinality(A) \in Nat /\ Cardinality(B) \in Nat BY <1>6, <1>7, FS_CardinalityType
    <2>3. Cardinality(A \cup B) = Cardinality(A) + Cardinality(B) - Cardinality(A \cap B)
        BY <1>6, <1>7, FS_Union
    <2>4. QED BY <2>1, <2>2, <2>3
<1>10. Through(u, g) = Cardinality(A \cup B) BY <1>5 DEF Through
<1>11. Through(s, g) = Cardinality(A) BY DEF Through
<1>12. QED BY <1>7, <1>9, <1>10, <1>11 DEF u

\* Taking the first request takes its reservation.
LEMMA ThroughRest ==
    ASSUME NEW s \in Seq(AppendRequest), s # <<>>, NEW g
    PROVE  Through(s, g) = Through(Tail(s), g) + (IF Head(s).gate = g THEN 1 ELSE 0)
<1> DEFINE t == Tail(s)
           A == {i \in DOMAIN s : s[i].gate = g}
           B == {i \in DOMAIN t : t[i].gate = g}
           f == [i \in B |-> i + 1]
<1>1. /\ t \in Seq(AppendRequest) /\ Len(s) \in Nat \ {0}
      /\ DOMAIN t = 1..(Len(s) - 1) /\ DOMAIN s = 1..Len(s)
    OBVIOUS
<1>2. \A i \in 1..(Len(s) - 1) : t[i] = s[i + 1]
    OBVIOUS
<1>3. Head(s) = s[1]
    BY <1>1
<1> HIDE DEF t
<1>4. IsFiniteSet(A) /\ IsFiniteSet(B) BY <1>1, ThroughIsNumber
<1>5. f \in Bijection(B, A \ {1})
    <2>1. \A i \in B : i \in 1..(Len(s) - 1) /\ i + 1 \in A \ {1} BY <1>1, <1>2
    <2>2. \A i, k \in B : f[i] = f[k] => i = k BY <2>1
    <2>3. ASSUME NEW a \in A \ {1} PROVE \E i \in B : f[i] = a
        <3>1. a - 1 \in B /\ f[a - 1] = a BY <1>1, <1>2, <2>3
        <3>2. QED BY <3>1
    <2>4. f \in [B -> A \ {1}] BY <2>1
    <2>5. QED BY <2>2, <2>3, <2>4 DEF Bijection, Injection, Surjection, IsInjective
<1>6. Cardinality(A \ {1}) = Cardinality(B)
    <2>1. ExistsBijection(B, A \ {1}) BY <1>5 DEF ExistsBijection
    <2>2. QED BY <1>4, <2>1, FS_Bijection
<1>7. Cardinality(A) \in Nat BY <1>4, FS_CardinalityType
<1>8. Cardinality(A \ {1}) = IF 1 \in A THEN Cardinality(A) - 1 ELSE Cardinality(A)
    BY <1>4, FS_RemoveElement
<1>9. 1 \in A <=> Head(s).gate = g BY <1>1, <1>3
<1>10. Through(s, g) = Cardinality(A) /\ Through(t, g) = Cardinality(B) BY DEF Through
<1> HIDE DEF A, B
<1>11. Cardinality(A) = Cardinality(B) + (IF Head(s).gate = g THEN 1 ELSE 0)
    BY <1>6, <1>7, <1>8, <1>9
<1>12. QED BY <1>10, <1>11 DEF t

-----------------------------------------------------------------------------
(***************************************************************************)
(* Gates.                                                                  *)
(***************************************************************************)
\* Shutting a gate leaves the others and all the counts.
LEMMA ShutEffect ==
    ASSUME NEW gs \in Seq(Gate), NEW g \in 0..Len(gs)
    PROVE  /\ Shut(gs, g) \in Seq(Gate) /\ Len(Shut(gs, g)) = Len(gs)
           /\ \A h \in 1..Len(gs) :
                  /\ Shut(gs, g)[h].accepting <=> gs[h].accepting /\ h # g
                  /\ Shut(gs, g)[h].count = gs[h].count
<1>1. CASE g = 0 BY <1>1 DEF Shut
<1>2. CASE g # 0
    <2> DEFINE row == [gs[g] EXCEPT !.accepting = FALSE]
               new == [gs EXCEPT ![g] = row]
    <2>1. g \in 1..Len(gs) /\ gs[g] \in Gate /\ Len(gs) \in Nat /\ DOMAIN gs = 1..Len(gs)
        BY <1>2
    <2>2. row \in Gate /\ row.accepting = FALSE /\ row.count = gs[g].count
        BY <2>1 DEF Gate
    <2> HIDE DEF row
    <2>3. gs \in [1..Len(gs) -> Gate] BY <2>1
    <2>4. new \in [1..Len(gs) -> Gate] BY <2>2, <2>3
    <2>5. new \in Seq(Gate) /\ Len(new) = Len(gs) BY <2>1, <2>4
    <2>6. \A h \in 1..Len(gs) : new[h] = IF h = g THEN row ELSE gs[h] BY <2>3
    <2>7. Shut(gs, g) = new BY <1>2 DEF Shut, row
    <2> HIDE DEF new
    <2>8. QED BY <2>2, <2>5, <2>6, <2>7
<1>3. QED BY <1>1, <1>2

WithCount(gs, g, n) == [gs EXCEPT ![g] = [gs[g] EXCEPT !.count = n]]

\* A reservation is taken or given back: one counter changes.
LEMMA CountEffect ==
    ASSUME NEW gs \in Seq(Gate), NEW g \in 1..Len(gs), NEW n \in Nat
    PROVE  /\ WithCount(gs, g, n) \in Seq(Gate) /\ Len(WithCount(gs, g, n)) = Len(gs)
           /\ \A h \in 1..Len(gs) :
                  /\ WithCount(gs, g, n)[h].accepting <=> gs[h].accepting
                  /\ WithCount(gs, g, n)[h].count = IF h = g THEN n ELSE gs[h].count
<1> DEFINE row == [gs[g] EXCEPT !.count = n]
           new == WithCount(gs, g, n)
<1>1. g \in 1..Len(gs) /\ gs[g] \in Gate /\ Len(gs) \in Nat /\ DOMAIN gs = 1..Len(gs)
    OBVIOUS
<1>2. row \in Gate /\ row.accepting = gs[g].accepting /\ row.count = n
    BY <1>1 DEF Gate
<1> HIDE DEF row
<1>3. gs \in [1..Len(gs) -> Gate] BY <1>1
<1>4. new = [gs EXCEPT ![g] = row] BY DEF row, WithCount
<1> HIDE DEF new
<1>5. new \in [1..Len(gs) -> Gate] BY <1>2, <1>3, <1>4
<1>6. new \in Seq(Gate) /\ Len(new) = Len(gs) BY <1>1, <1>5
<1>7. \A h \in 1..Len(gs) : new[h] = IF h = g THEN row ELSE gs[h] BY <1>3, <1>4
<1>8. QED BY <1>2, <1>6, <1>7 DEF new

\* Reserve, for any number of jobs at a time.
WithMore(gs, g, n) == [gs EXCEPT ![g].count = @ + n]

\* So many more of one gate, and the others as they were.
LEMMA ReserveEffect ==
    ASSUME NEW gs \in Seq(Gate), NEW g \in 1..Len(gs), NEW n \in Nat
    PROVE  /\ WithMore(gs, g, n) \in Seq(Gate) /\ Len(WithMore(gs, g, n)) = Len(gs)
           /\ \A h \in 1..Len(gs) :
                  /\ WithMore(gs, g, n)[h].accepting <=> gs[h].accepting
                  /\ WithMore(gs, g, n)[h].count =
                         IF h = g THEN gs[g].count + n ELSE gs[h].count
<1> DEFINE m == gs[g].count + n
<1>1. gs[g] \in Gate OBVIOUS
<1>2. m \in Nat BY <1>1 DEF Gate
<1>3. WithMore(gs, g, n) = WithCount(gs, g, m) BY DEF WithCount, WithMore
<1> HIDE DEF m
<1>4. /\ WithCount(gs, g, m) \in Seq(Gate) /\ Len(WithCount(gs, g, m)) = Len(gs)
      /\ \A h \in 1..Len(gs) :
             /\ WithCount(gs, g, m)[h].accepting <=> gs[h].accepting
             /\ WithCount(gs, g, m)[h].count = IF h = g THEN m ELSE gs[h].count
    BY <1>2, CountEffect
<1>5. QED BY <1>3, <1>4 DEF m

\* Release gives one back, if there is one.
LEMMA ReleaseEffect ==
    ASSUME NEW gs \in Seq(Gate), NEW g \in 1..Len(gs)
    PROVE  /\ Release(gs, g) \in Seq(Gate) /\ Len(Release(gs, g)) = Len(gs)
           /\ \A h \in 1..Len(gs) :
                  /\ Release(gs, g)[h].accepting <=> gs[h].accepting
                  /\ Release(gs, g)[h].count =
                         IF h # g THEN gs[h].count
                         ELSE IF gs[g].count = 0 THEN 0 ELSE gs[g].count - 1
<1> DEFINE n == IF gs[g].count = 0 THEN 0 ELSE gs[g].count - 1
<1>1. gs[g] \in Gate OBVIOUS
<1>2. n \in Nat BY <1>1 DEF Gate
<1>3. Release(gs, g) = WithCount(gs, g, n) BY DEF Release, WithCount
<1> HIDE DEF n
<1>4. /\ Release(gs, g) \in Seq(Gate) /\ Len(Release(gs, g)) = Len(gs)
      /\ \A h \in 1..Len(gs) :
             /\ Release(gs, g)[h].accepting <=> gs[h].accepting
             /\ Release(gs, g)[h].count = IF h = g THEN n ELSE gs[h].count
    BY <1>2, <1>3, CountEffect
<1>5. QED BY <1>4 DEF n

\* ReleaseAll opens and shuts nothing.
LEMMA ReleaseAllEffect ==
    ASSUME NEW gs \in Seq(Gate), NEW s \in Seq(AppendRequest)
    PROVE  /\ ReleaseAll(gs, s) \in Seq(Gate) /\ Len(ReleaseAll(gs, s)) = Len(gs)
           /\ \A h \in 1..Len(gs) : ReleaseAll(gs, s)[h].accepting <=> gs[h].accepting
<1> DEFINE new == ReleaseAll(gs, s)
<1>1. DOMAIN gs = 1..Len(gs) /\ Len(gs) \in Nat OBVIOUS
<1>2. ASSUME NEW h \in 1..Len(gs)
      PROVE  new[h] \in Gate /\ (new[h].accepting <=> gs[h].accepting)
    <2> DEFINE k == IF gs[h].count < Through(s, h) THEN 0 ELSE gs[h].count - Through(s, h)
    <2>0. Through(s, h) \in Nat BY ThroughIsNumber
    <2>1. gs[h] \in Gate /\ Through(s, h) \in Nat BY <2>0
    <2>2. k \in Nat BY <2>1 DEF Gate
    <2>3. new[h] = [gs[h] EXCEPT !.count = k] BY <1>1 DEF ReleaseAll
    <2> HIDE DEF k
    <2>4. QED BY <2>1, <2>2, <2>3 DEF Gate
<1>3. DOMAIN new = 1..Len(gs) BY <1>1 DEF ReleaseAll
<1>4. new = [h \in 1..Len(gs) |-> new[h]] BY <1>1 DEF ReleaseAll
<1> HIDE DEF new
<1>5. new \in [1..Len(gs) -> Gate] BY <1>2, <1>4
<1>6. new \in Seq(Gate) /\ Len(new) = Len(gs) BY <1>1, <1>5
<1>7. QED BY <1>2, <1>6 DEF new

\* A new gate is open and nobody holds a reservation of it.
LEMMA NewGate ==
    ASSUME NEW gs \in Seq(Gate)
    PROVE  /\ Append(gs, OpenGate) \in Seq(Gate)
           /\ Len(Append(gs, OpenGate)) = Len(gs) + 1 /\ Len(gs) \in Nat
           /\ \A h \in 1..Len(gs) : Append(gs, OpenGate)[h] = gs[h]
           /\ Append(gs, OpenGate)[Len(gs) + 1].accepting = TRUE
           /\ Append(gs, OpenGate)[Len(gs) + 1].count = 0
<1>1. OpenGate \in Gate /\ OpenGate.accepting = TRUE /\ OpenGate.count = 0
    BY DEF OpenGate, Gate
<1> HIDE DEF OpenGate
<1>2. QED BY <1>1

\* Once the window's gate is shut, none is open.
LEMMA AllShut ==
    ASSUME Typed, GateInv
    PROVE  /\ Shut(gates, gate) \in Seq(Gate) /\ Len(Shut(gates, gate)) = Len(gates)
           /\ \A h \in 1..Len(gates) : ~Shut(gates, gate)[h].accepting
           /\ gates \in Seq(Gate) /\ DOMAIN gates = 1..Len(gates) /\ Len(gates) \in Nat
           /\ gate \in 0..Len(gates)
<1>1. gates \in Seq(Gate) /\ gate \in 0..Len(gates) BY DEF Typed, TypeOK, Gate
<1>2. DOMAIN gates = 1..Len(gates) /\ Len(gates) \in Nat BY <1>1
<1>3. \A h \in 1..Len(gates) : gates[h].accepting => h = gate
    BY <1>2 DEF GateInv, OpenGateHasOwner
<1>4. QED BY <1>1, <1>2, <1>3, ShutEffect

-----------------------------------------------------------------------------
(***************************************************************************)
(* Sessions begin and end.                                                 *)
(***************************************************************************)
\* No session has left a message in the queue.
NoSession == \A i \in DOMAIN messages : messages[i].kind \notin {"Publish", "Finish"}

\* What goes with the end of a session, whatever comes after it.
Around ==
    /\ RestTyped'
    /\ Requests' \subseteq Requests
    /\ deferredSame' = <<>>
    /\ finalizing' = FALSE
    /\ NoSession'

\* The gates there are, and none of them accepts.
AllClosed(gs) ==
    /\ gs \in Seq(Gate)
    /\ Len(gs) = Len(gates)
    /\ \A h \in 1..Len(gates) : ~gs[h].accepting

\* The types that a step has to keep besides those of the rest.
LEMMA TypesAfter ==
    ASSUME RestTyped', deferredSame' \in Seq(Job), thread' \in Copier,
           interrupted' \in {"None", "Stopped", "Conflict", "Decision"},
           pendingResume' \in {"No", "Stopped", Prompt, All} \cup Job,
           stopRequested' \in BOOLEAN, cancelRequested' \in BOOLEAN,
           control' \in BOOLEAN, finalizing' \in BOOLEAN,
           gates' \in Seq(Gate), gate' \in 0..Len(gates'), live' \in Job \cup {None},
           directive' \in {"Run", "Stop", "Cancel"},
           interrupted' \in {"Stopped", "Conflict"} => deferredStopped' = <<>>
    PROVE  Typed'
<1>1. /\ dialog' \in Job \cup {None} /\ closing' \in BOOLEAN /\ closed' \in BOOLEAN
      /\ home' \in [Job -> Job \cup {None}] /\ fate' \in [Job -> Fate]
    BY DEF RestTyped
<1>2. TypeOK' BY <1>1 DEF TypeOK, Gate
<1>3. QED BY <1>2 DEF Typed

\* What a request of the planner says of its gate.
LEMMA RequestGates ==
    ASSUME Typed, GateInv, NEW r \in Requests
    PROVE  /\ r \in AppendRequest
           /\ r.gate \in 1..Len(gates)
           /\ gates[r.gate].accepting => r.gate = gate /\ r.plan = live
<1>1. r \in AppendRequest
    <2>1. CASE r \in {planning[i] : i \in DOMAIN planning} BY <2>1 DEF Typed, RestTyped
    <2>2. CASE Busy /\ r = planner.request BY <2>2 DEF Typed, RestTyped, Busy
    <2>3. QED BY <2>1, <2>2 DEF Requests
<1>2. r.gate \in Nat \ {0} BY <1>1 DEF AppendRequest
<1>3. gates \in Seq(Gate) /\ Len(gates) \in Nat /\ DOMAIN gates = 1..Len(gates)
    <2>1. gates \in Seq(Gate) BY DEF Typed, TypeOK, Gate
    <2>2. QED BY <2>1
<1>4. r.gate \in 1..Len(gates) BY <1>2, <1>3 DEF GateInv
<1>5. QED BY <1>1, <1>3, <1>4 DEF GateInv, OpenGateHasOwner

\* A session that starts has a gate of its own, open and with nothing reserved.
LEMMA StartKeeps ==
    ASSUME Typed, GateInv, NEW gs, AllClosed(gs), NEW j \in Job, StartTransfer(j, gs), Around
    PROVE  SessionPart'
<1>1. /\ gates' = Append(gs, OpenGate) /\ gate' = Len(gs) + 1
      /\ interrupted' = "None" /\ stopRequested' = FALSE /\ pendingResume' = "No"
      /\ cancelRequested' = FALSE /\ live' = None /\ control' = TRUE /\ directive' = "Run"
      /\ thread' = [Quiet EXCEPT !.pc = "Planning", !.plan = j]
    BY DEF StartTransfer
<1>2. gs \in Seq(Gate) /\ Len(gs) = Len(gates) /\ \A h \in 1..Len(gs) : ~gs[h].accepting
    BY DEF AllClosed
<1>3. /\ gates' \in Seq(Gate) /\ Len(gates') = Len(gs) + 1 /\ Len(gs) \in Nat
      /\ \A h \in 1..Len(gs) : ~gates'[h].accepting
      /\ gates'[gate'].accepting = TRUE /\ gates'[gate'].count = 0
    <2> DEFINE new == Append(gs, OpenGate)
    <2>1. /\ new \in Seq(Gate) /\ Len(new) = Len(gs) + 1 /\ Len(gs) \in Nat
          /\ \A h \in 1..Len(gs) : new[h] = gs[h]
          /\ new[Len(gs) + 1].accepting = TRUE /\ new[Len(gs) + 1].count = 0
        BY <1>2, NewGate
    <2> HIDE DEF new
    <2>2. gates' = new BY <1>1 DEF new
    <2>3. QED BY <1>1, <1>2, <2>1, <2>2
<1>4. thread' \in Copier /\ thread'.pc = "Planning" /\ thread'.plan = j
    BY <1>1 DEF Quiet, Copier, Result, ResultType, Before, Ran
<1>5. RestTyped' /\ deferredSame' = <<>> /\ finalizing' = FALSE BY DEF Around
<1>6. DOMAIN gates' = 1..(Len(gs) + 1) BY <1>3
<1>7. \A r \in Requests' : r.gate \in 1..Len(gs)
    BY <1>2, RequestGates DEF Around
<1>8. Typed'
    <2>1. deferredSame' \in Seq(Job) /\ gate' \in 0..Len(gates') BY <1>1, <1>3, <1>5, NothingIn
    <2>2. QED BY <1>1, <1>3, <1>4, <1>5, <2>1, TypesAfter
<1>9. SessionInv' BY <1>1, <1>3, <1>4, <1>5 DEF SessionInv, CancelOverStop, Before
<1>10. GateInv'
    <2>1. OpenGateHasOwner'
        BY <1>1, <1>3, <1>6 DEF OpenGateHasOwner, HasActiveTransfer
    <2>2. \A r \in Requests' : r.gate <= Len(gates') /\ ~gates'[r.gate].accepting
        BY <1>3, <1>7
    <2>3. QED BY <1>1, <1>3, <1>4, <2>1, <2>2 DEF GateInv
<1>11. Counted'
    <2>1. \A r \in Requests' : r.gate # gate' BY <1>1, <1>3, <1>7
    <2>2. \A i \in DOMAIN planning' : planning'[i].gate # gate' BY <2>1 DEF Requests
    <2>3. Busy' => planner'.request.gate # gate' BY <2>1 DEF Requests
    <2>4. planning' \in Seq(AppendRequest) BY <1>5 DEF RestTyped
    <2>5. Through(planning', gate') = 0 BY <2>2, <2>4, ThroughNone
    <2>6. Building(gate)' = 0 BY <2>3 DEF Building
    <2>7. Len(deferredSame') = 0 BY <1>5
    <2>8. QED BY <1>3, <2>5, <2>6, <2>7 DEF Counted
<1>12. MessageInv' BY <1>4 DEF MessageInv, Around, NoSession, Ran
<1>13. QED BY <1>8, <1>9, <1>10, <1>11, <1>12 DEF SessionPart

\* A window without a session has no gate and no plan.
LEMMA IdleKeeps ==
    ASSUME Typed, GateInv, NEW gs, AllClosed(gs), NEW queue, NEW gone \in BOOLEAN,
           NEW cancel \in BOOLEAN, thread.pc = "Done",
           Idles(gs, queue, gone, cancel), Around
    PROVE  SessionPart'
<1>1. /\ gates' = gs /\ gate' = 0
      /\ interrupted' = "None" /\ stopRequested' = FALSE /\ pendingResume' = "No"
      /\ cancelRequested' = cancel /\ live' = None /\ control' = FALSE
      /\ directive' = directive /\ thread' = thread
    BY DEF Idles, threadVars
<1>2. gs \in Seq(Gate) /\ Len(gs) = Len(gates) /\ \A h \in 1..Len(gs) : ~gs[h].accepting
    BY DEF AllClosed
<1>3. Len(gs) \in Nat /\ DOMAIN gs = 1..Len(gs) BY <1>2
<1>4. RestTyped' /\ deferredSame' = <<>> /\ finalizing' = FALSE BY DEF Around
<1>5. \A r \in Requests' : r.gate \in 1..Len(gs) BY <1>2, RequestGates DEF Around
<1>6. Typed'
    <2>1. directive \in {"Run", "Stop", "Cancel"} /\ thread \in Copier BY DEF Typed, TypeOK
    <2>2. deferredSame' \in Seq(Job) /\ gate' \in 0..Len(gates')
        BY <1>1, <1>2, <1>3, <1>4, NothingIn
    <2>3. QED BY <1>1, <1>2, <1>4, <2>1, <2>2, TypesAfter
<1>7. SessionInv' BY <1>1, <1>4 DEF SessionInv, CancelOverStop, Before
<1>8. GateInv'
    <2>1. OpenGateHasOwner' BY <1>1, <1>2, <1>3 DEF OpenGateHasOwner
    <2>2. \A r \in Requests' : r.gate <= Len(gates') /\ ~gates'[r.gate].accepting
        BY <1>1, <1>2, <1>3, <1>5
    <2>3. QED BY <1>1, <2>1, <2>2 DEF GateInv
<1>9. Counted' BY <1>1 DEF Counted
<1>10. MessageInv' BY <1>1 DEF MessageInv, Around, NoSession, Ran
<1>11. QED BY <1>6, <1>7, <1>8, <1>9, <1>10 DEF SessionPart

\* One of the two comes after a session.
LEMMA RetiresKeeps ==
    ASSUME Typed, GateInv, NEW gs, AllClosed(gs), NEW queue \in Seq(Job),
           NEW gone \in BOOLEAN, NEW cancel \in BOOLEAN, thread.pc = "Done",
           Retires(gs, queue, gone, cancel), Around
    PROVE  SessionPart'
<1>1. CASE StartNextQueuedSession(gs, queue)
    <2>1. Head(queue) \in Job BY <1>1, LeavesFirst DEF StartNextQueuedSession
    <2>2. StartTransfer(Head(queue), gs) BY <1>1 DEF StartNextQueuedSession
    <2>3. QED BY <2>1, <2>2, StartKeeps
<1>2. CASE Idles(gs, queue, gone, cancel) BY <1>2, IdleKeeps
<1>3. QED BY <1>1, <1>2 DEF Retires

\* A resumed session executes the plan of the one that was interrupted, behind
\* the gate that is open since then.
LEMMA ExecutesKeeps ==
    ASSUME SessionPart, interrupted # "None",
           NEW policy \in {Prompt, All} \cup Job, Executes(policy),
           RestTyped', NoSession',
           UNCHANGED <<gates, planning, planner, deferredSame, finalizing>>, ~finalizing
    PROVE  SessionPart'
<1> USE DEF SessionPart
<1>1. /\ interrupted' = "None" /\ stopRequested' = FALSE /\ pendingResume' = "No"
      /\ cancelRequested' = FALSE /\ control' = TRUE /\ directive' = "Run"
      /\ live' = live /\ gate' = gate
      /\ thread' = [Quiet EXCEPT !.pc = "Executing", !.plan = live, !.policy = policy]
    BY DEF Executes
<1>2. live \in Job /\ live # None /\ gate # 0 /\ gates[gate].accepting
    BY DEF SessionInv, Typed, TypeOK
<1>3. thread' \in Copier /\ thread'.pc = "Executing" /\ thread'.plan = live
    BY <1>1, <1>2 DEF Quiet, Copier, Result, ResultType, Before, Ran
<1>4. Typed' BY <1>1, <1>3, TypesAfter DEF Typed, TypeOK, Gate
<1>5. SessionInv' BY <1>1, <1>2, <1>3 DEF SessionInv, CancelOverStop, Before
<1>6. Requests' = Requests BY DEF Requests, Busy
<1>7. GateInv'
    <2>1. OpenGateHasOwner' BY <1>1 DEF GateInv, OpenGateHasOwner, HasActiveTransfer
    <2>2. QED BY <1>1, <1>2, <1>3, <1>6, <2>1 DEF GateInv
<1>8. Counted' BY <1>1 DEF Counted, Building, Busy
<1>9. MessageInv' BY <1>1, <1>2, <1>3 DEF MessageInv, NoSession, Ran, Typed
<1>10. QED BY <1>4, <1>5, <1>7, <1>8, <1>9

\* An interrupted session keeps its plan and gets a new gate, through which the
\* jobs go that were deferred.
LEMMA InterruptsKeeps ==
    ASSUME SessionPart, control, thread.pc = "Done", live # None,
           NEW state \in {"Stopped", "Conflict", "Decision"}, NEW jobs \in Seq(Job),
           Interrupts(state, jobs), RestTyped', NoSession',
           state = "Stopped" => ~cancelRequested,
           state \in {"Stopped", "Conflict"} => deferredStopped' = <<>>,
           finalizing' \in BOOLEAN, finalizing' => state \in {"Stopped", "Conflict"}
    PROVE  SessionPart'
<1> USE DEF SessionPart
<1> DEFINE opened == Append(gates, OpenGate)
           g == Len(gates) + 1
           reqs == RequestsOf(jobs, live, FALSE, g)
<1>1. /\ interrupted' = state /\ stopRequested' = FALSE /\ pendingResume' = "No"
      /\ control' = FALSE /\ deferredSame' = <<>> /\ gate' = g /\ live' = live
      /\ cancelRequested' = cancelRequested /\ thread' = thread /\ directive' = directive
      /\ planner' = planner
      /\ gates' = WithMore(opened, g, Len(jobs))
      /\ planning' = planning \o reqs
    BY DEF Interrupts, Reserves, threadVars, WithMore, RequestsOf
<1>2. /\ gates \in Seq(Gate) /\ DOMAIN gates = 1..Len(gates) /\ Len(gates) \in Nat
      /\ gate \in 0..Len(gates) /\ planning \in Seq(AppendRequest)
      /\ live \in Job /\ Len(jobs) \in Nat
    <2>1. planning \in Seq(AppendRequest) BY DEF Typed, RestTyped
    <2>2. live \in Job BY DEF Typed, TypeOK
    <2>3. QED BY <2>1, <2>2, AllShut
<1>3. \A h \in 1..Len(gates) : ~gates[h].accepting
    BY <1>2 DEF GateInv, OpenGateHasOwner
<1>4. /\ opened \in Seq(Gate) /\ Len(opened) = g /\ g \in 1..Len(opened)
      /\ \A h \in 1..Len(gates) : opened[h] = gates[h]
      /\ opened[g].accepting = TRUE /\ opened[g].count = 0
    <2>1. /\ opened \in Seq(Gate) /\ Len(opened) = Len(gates) + 1
          /\ \A h \in 1..Len(gates) : opened[h] = gates[h]
          /\ opened[Len(gates) + 1].accepting = TRUE /\ opened[Len(gates) + 1].count = 0
        BY <1>2, NewGate
    <2> HIDE DEF opened
    <2>2. QED BY <1>2, <2>1
<1> HIDE DEF opened
<1>5. /\ gates' \in Seq(Gate) /\ Len(gates') = g
      /\ \A h \in 1..g :
             /\ gates'[h].accepting <=> opened[h].accepting
             /\ gates'[h].count = IF h = g THEN opened[g].count + Len(jobs)
                                 ELSE opened[h].count
    <2>1. /\ opened \in Seq(Gate) /\ g \in 1..Len(opened) /\ Len(jobs) \in Nat
        BY <1>2, <1>4
    <2>2. /\ WithMore(opened, g, Len(jobs)) \in Seq(Gate)
          /\ Len(WithMore(opened, g, Len(jobs))) = Len(opened)
          /\ \A h \in 1..Len(opened) :
                 /\ WithMore(opened, g, Len(jobs))[h].accepting <=> opened[h].accepting
                 /\ WithMore(opened, g, Len(jobs))[h].count =
                        IF h = g THEN opened[g].count + Len(jobs) ELSE opened[h].count
        BY <2>1, ReserveEffect
    <2>3. gates' = WithMore(opened, g, Len(jobs)) /\ Len(opened) = g BY <1>1, <1>4
    <2> HIDE DEF g
    <2>4. QED BY <2>2, <2>3
<1>6. /\ \A h \in 1..Len(gates) : ~gates'[h].accepting
      /\ gates'[g].accepting /\ gates'[g].count = Len(jobs)
      /\ DOMAIN gates' = 1..g /\ g \in Nat \ {0}
    <2>1. g \in Nat \ {0} /\ g \in 1..g /\ \A h \in 1..Len(gates) : h \in 1..g /\ h # g
        BY <1>2
    <2>2. DOMAIN gates' = 1..g BY <1>5
    <2>3. \A h \in 1..Len(gates) : ~gates'[h].accepting BY <1>3, <1>4, <1>5, <2>1
    <2>4. gates'[g].accepting BY <1>4, <1>5, <2>1
    <2>5. gates'[g].count = 0 + Len(jobs) BY <1>4, <1>5, <2>1
    <2>6. QED BY <1>2, <2>1, <2>2, <2>3, <2>4, <2>5
<1>7. /\ reqs \in Seq(AppendRequest) /\ Len(reqs) = Len(jobs)
      /\ \A i \in DOMAIN reqs : reqs[i].gate = g /\ reqs[i].plan = live
    BY <1>2, <1>6, RequestsFor
<1> HIDE DEF reqs
<1>8. \A r \in Requests' : r \in Requests \/ (r.plan = live /\ r.gate = g)
    <2>1. \A i \in DOMAIN (planning \o reqs) :
              \/ \E k \in DOMAIN planning : (planning \o reqs)[i] = planning[k]
              \/ \E k \in DOMAIN reqs : (planning \o reqs)[i] = reqs[k]
        BY <1>2, <1>7, RequestsBehind
    <2>2. QED BY <1>1, <1>7, <2>1 DEF Requests, Busy
<1>9. \A r \in Requests : r.gate \in 1..Len(gates) BY RequestGates
<1>10. Typed'
    <2>1. gate' \in 0..Len(gates') /\ deferredSame' \in Seq(Job) BY <1>1, <1>2, <1>5, NothingIn
    <2>2. /\ thread' \in Copier /\ directive' \in {"Run", "Stop", "Cancel"}
          /\ cancelRequested' \in BOOLEAN /\ live' \in Job \cup {None}
        BY <1>1, <1>2 DEF Typed, TypeOK
    <2>3. QED BY <1>1, <1>5, <2>1, <2>2, TypesAfter
<1>11. SessionInv' BY <1>1, <1>2, <1>6 DEF SessionInv, CancelOverStop, Before
<1>12. GateInv'
    <2>1. OpenGateHasOwner' BY <1>1, <1>2, <1>6 DEF OpenGateHasOwner, HasActiveTransfer
    <2>2. \A r \in Requests' :
              r.gate <= Len(gates') /\ (gates'[r.gate].accepting => r.plan = live')
        BY <1>1, <1>2, <1>5, <1>6, <1>8, <1>9
    <2>3. QED BY <1>1, <2>1, <2>2 DEF GateInv
<1>13. Counted'
    <2>1. \A i \in DOMAIN planning : planning[i].gate # g BY <1>2, <1>9 DEF Requests
    <2>2. Through(planning, g) = 0 BY <1>2, <2>1, ThroughNone
    <2>3. Through(planning', g) = Len(jobs)
        <3>1. \A i \in DOMAIN reqs : reqs[i].gate = g BY <1>7
        <3>2. Through(planning \o reqs, g) = Through(planning, g) + Len(reqs)
            BY <1>2, <1>7, <3>1, ThroughBehind
        <3>3. QED BY <1>1, <1>2, <1>7, <2>2, <3>2
    <2>4. Busy => planner.request.gate # g BY <1>2, <1>9 DEF Requests
    <2>5. Building(gate)' = 0 BY <1>1, <2>4 DEF Building, Busy
    <2>6. Len(deferredSame') = 0 BY <1>1
    <2>7. QED BY <1>1, <1>2, <1>6, <2>3, <2>5, <2>6 DEF Counted
<1>14. MessageInv' BY <1>1 DEF MessageInv, NoSession, Ran
<1>15. QED BY <1>10, <1>11, <1>12, <1>13, <1>14

\* The same session goes on behind the same gate: what may change is who waits,
\* what is counted, and what the user asked for besides.
LEMMA SessionGoesOn ==
    ASSUME SessionPart, RestTyped', deferredSame' \in Seq(Job),
           gates' \in Seq(Gate), Len(gates') = Len(gates),
           \A h \in 1..Len(gates) : gates'[h].accepting <=> gates[h].accepting,
           UNCHANGED <<thread, interrupted, cancelRequested, control, gate, live>>,
           pendingResume' \in {"No", "Stopped", Prompt, All} \cup Job,
           directive' \in {"Run", "Stop", "Cancel"},
           stopRequested' \in BOOLEAN, stopRequested' => control, stopRequested => stopRequested',
           finalizing' \in BOOLEAN, finalizing' => interrupted \in {"Stopped", "Conflict"},
           deferredSame' # <<>> => control /\ live = None,
           interrupted \in {"Stopped", "Conflict"} => deferredStopped' = <<>>,
           \A r \in Requests' : r \in Requests \/ (r.gate = gate /\ r.plan = live),
           Counted', MessageInv'
    PROVE  SessionPart'
<1> USE DEF SessionPart
<1>1. /\ gates \in Seq(Gate) /\ DOMAIN gates = 1..Len(gates) /\ Len(gates) \in Nat
      /\ gate \in 0..Len(gates)
    BY AllShut
<1>2. DOMAIN gates' = 1..Len(gates) BY <1>1
<1>3. Typed'
    <2>1. /\ thread' \in Copier /\ cancelRequested' \in BOOLEAN /\ control' \in BOOLEAN
          /\ interrupted' \in {"None", "Stopped", "Conflict", "Decision"}
          /\ live' \in Job \cup {None} /\ gate' \in 0..Len(gates')
        BY <1>1 DEF Typed, TypeOK
    <2>2. QED BY <2>1, TypesAfter
<1>4. SessionInv'
    <2>1. interrupted # "None" => gates'[gate].accepting
        BY <1>1 DEF SessionInv
    <2>2. QED BY <2>1 DEF SessionInv, CancelOverStop, Before
<1>5. GateInv'
    <2>1. OpenGateHasOwner'
        BY <1>1, <1>2 DEF GateInv, OpenGateHasOwner, HasActiveTransfer
    <2>2. ASSUME NEW r \in Requests', r \in Requests
          PROVE  r.gate <= Len(gates) /\ (gates'[r.gate].accepting => r.plan = live)
        <3>1. r.gate \in 1..Len(gates) BY <2>2, RequestGates
        <3>2. QED BY <1>1, <2>2, <3>1 DEF GateInv
    <2>3. ASSUME NEW r \in Requests', r.gate = gate, r.plan = live
          PROVE  r.gate <= Len(gates) /\ (gates'[r.gate].accepting => r.plan = live)
        BY <1>1, <2>3
    <2>4. control => gate \in 1..Len(gates) BY <1>1 DEF SessionInv
    <2>5. QED BY <2>1, <2>2, <2>3, <2>4 DEF GateInv
<1>6. QED BY <1>3, <1>4, <1>5

\* What a step that leaves the session alone has to go on.
LEMMA SessionFacts ==
    ASSUME SessionPart
    PROVE  /\ gates \in Seq(Gate) /\ DOMAIN gates = 1..Len(gates) /\ Len(gates) \in Nat
           /\ gate \in 0..Len(gates)
           /\ deferredSame \in Seq(Job) /\ deferredStopped \in Seq(Job)
           /\ queuedSessions \in Seq(Job) /\ planning \in Seq(AppendRequest)
           /\ messages \in Seq(Notice)
           /\ interrupted \in {"None", "Stopped", "Conflict", "Decision"}
           /\ pendingResume \in {"No", "Stopped", Prompt, All} \cup Job
           /\ directive \in {"Run", "Stop", "Cancel"} /\ live \in Job \cup {None}
           /\ stopRequested \in BOOLEAN /\ finalizing \in BOOLEAN /\ control \in BOOLEAN
           /\ cancelRequested \in BOOLEAN
           /\ interrupted \in {"Stopped", "Conflict"} => deferredStopped = <<>>
           /\ stopRequested => control
           /\ finalizing => interrupted \in {"Stopped", "Conflict"}
           /\ deferredSame # <<>> => control /\ live = None
<1> USE DEF SessionPart
<1>1. /\ gates \in Seq(Gate) /\ DOMAIN gates = 1..Len(gates) /\ Len(gates) \in Nat
      /\ gate \in 0..Len(gates)
    BY AllShut
<1>2. /\ deferredSame \in Seq(Job) /\ deferredStopped \in Seq(Job)
      /\ queuedSessions \in Seq(Job) /\ planning \in Seq(AppendRequest)
      /\ messages \in Seq(Notice)
    BY DEF Typed, RestTyped
<1>3. /\ pendingResume \in {"No", "Stopped", Prompt, All} \cup Job
      /\ interrupted \in {"None", "Stopped", "Conflict", "Decision"}
      /\ directive \in {"Run", "Stop", "Cancel"} /\ live \in Job \cup {None}
      /\ stopRequested \in BOOLEAN /\ finalizing \in BOOLEAN /\ control \in BOOLEAN
      /\ cancelRequested \in BOOLEAN
      /\ interrupted \in {"Stopped", "Conflict"} => deferredStopped = <<>>
    BY DEF Typed, TypeOK
<1>4. /\ stopRequested => control
      /\ finalizing => interrupted \in {"Stopped", "Conflict"}
      /\ deferredSame # <<>> => control /\ live = None
    BY DEF SessionInv
<1>5. QED BY <1>1, <1>2, <1>3, <1>4

\* Nothing happens to the messages of a session that is not touched.
LEMMA MessagesStay ==
    ASSUME MessageInv, UNCHANGED <<messages, control, thread, live>>
    PROVE  MessageInv'
BY DEF MessageInv, PublishPending, Substantive, Ran

\* Nothing is counted anew.
LEMMA CountsStay ==
    ASSUME Counted, UNCHANGED <<gates, gate, planning, planner, deferredSame>>
    PROVE  Counted'
BY DEF Counted, Building, Busy

\* Jobs wait where they were, or the planner is through with one.
LEMMA PlacesStay ==
    ASSUME PlacesInv,
           UNCHANGED <<queuedSessions, deferredSame, deferredStopped, planning>>,
           InWorker' \subseteq InWorker
    PROVE  PlacesInv' /\ InWait' = InQueue \cup InSame \cup InStopped \cup InPlanning
                                       \cup InWorker'
BY DEF PlacesInv, InWait, InQueue, InSame, InStopped, InPlanning

-----------------------------------------------------------------------------
(***************************************************************************)
(* Jobs arrive.                                                            *)
(***************************************************************************)
\* Who waits is a job.
LEMMA WaitingAreJobs ==
    ASSUME Typed
    PROVE  /\ InQueue \subseteq Job /\ InSame \subseteq Job /\ InStopped \subseteq Job
           /\ InPlanning \subseteq Job /\ InWorker \subseteq Job /\ InWait \subseteq Job
<1>1. \A s \in Seq(Job) : ToSet(s) \subseteq Job BY DEF ToSet
<1>2. /\ queuedSessions \in Seq(Job) /\ deferredSame \in Seq(Job)
      /\ deferredStopped \in Seq(Job) /\ planning \in Seq(AppendRequest)
    BY DEF Typed, RestTyped
<1>3. InPlanning \subseteq Job
    <2>1. \A i \in DOMAIN planning : planning[i] \in AppendRequest BY <1>2
    <2>2. QED BY <2>1 DEF InPlanning, Jobs, AppendRequest
<1>4. InWorker \subseteq Job
    BY DEF InWorker, Busy, Typed, RestTyped, AppendRequest
<1>5. InQueue \subseteq Job /\ InSame \subseteq Job /\ InStopped \subseteq Job
    BY <1>1, <1>2 DEF InQueue, InSame, InStopped
<1>6. QED BY <1>3, <1>4, <1>5 DEF InWait

\* A job that was nowhere is accepted and joins those that wait.
LEMMA AcceptedFate ==
    ASSUME Typed, SessionInv, MessageInv, FateInv, NEW j \in Job, fate[j] \in {"Outside", "Asked"},
           fate' = [fate EXCEPT ![j] = "Accepted"],
           UNCHANGED <<control, live, thread, messages>>, InWait' = InWait \cup {j}
    PROVE  FateInv'
<1>1. \A k \in Job : fate'[k] = IF k = j THEN "Accepted" ELSE fate[k]
    BY DEF Typed, RestTyped
<1>2. \A k \in InWait : k \in Job /\ fate[k] = "Accepted" BY WaitingAreJobs DEF FateInv
<1>3. live \in Job \cup {None} /\ (thread.pc # "Done" => control)
      /\ (control => thread.plan \in Job)
    BY DEF Typed, TypeOK, SessionInv
<1>4. \A k \in InWait' : fate'[k] = "Accepted" BY <1>1, <1>2
<1>5. control => thread.plan # j /\ thread.plan \in Job /\ thread.plan \notin InWait
    BY <1>3 DEF FateInv
<1>6. \A k \in Job : fate'[k] = "Accepted" => k \in InWait' \/ (control /\ thread.plan = k)
    BY <1>1 DEF FateInv
<1>7. live # None => live \in Job /\ live # j /\ fate[live] \notin {"Outside", "Asked", "Accepted"}
    BY <1>3 DEF FateInv, Begun
<1>8. PublishPending' <=> PublishPending BY DEF PublishPending
<1>9. thread.pc \notin {"Done", "Planning"} \/ PublishPending => Begun(thread.plan)'
    BY <1>1, <1>3, <1>5 DEF FateInv, Begun, MessageInv, PublishPending
<1>10. QED BY <1>1, <1>3, <1>4, <1>5, <1>6, <1>7, <1>8, <1>9 DEF FateInv, Begun

\* ... at the end of the queue of sessions, ...
LEMMA QueueKeeps ==
    ASSUME WindowInv, NEW j \in Job, fate[j] \in {"Outside", "Asked"}, Arrives(j), Queue(j),
           UNCHANGED <<surfaceVars, deferVars, stateVars, sessionVars, resumes, threadVars,
                       plannerVars, home, finalizing, messages, gates>>
    PROVE  WindowInv'
<1> USE DEF WindowInv, SessionPart
<1> USE DEF surfaceVars, deferVars, stateVars, sessionVars, threadVars, plannerVars
<1>1. fate' = [fate EXCEPT ![j] = "Accepted"] /\ queuedSessions' = Append(queuedSessions, j)
    BY DEF Arrives, Queue
<1>2. j \notin InWait BY DEF FateInv
<1>3. queuedSessions \in Seq(Job) BY DEF Typed, RestTyped
<1>4. /\ queuedSessions' \in Seq(Job) /\ InQueue' = InQueue \cup {j}
      /\ IsInjective(queuedSessions')
    BY <1>1, <1>2, <1>3, JoinsLast DEF InWait, InQueue, PlacesInv
<1>5. /\ InSame' = InSame /\ InStopped' = InStopped /\ InPlanning' = InPlanning
      /\ InWorker' = InWorker
    BY DEF InSame, InStopped, InPlanning, InWorker, Busy
<1>6. RestTyped'
    <2>1. fate' \in [Job -> Fate] BY <1>1 DEF Typed, RestTyped, Fate
    <2>2. QED BY <1>4, <2>1 DEF Typed, RestTyped
<1>7. SessionPart'
    <2>1. MessageInv' BY MessagesStay
    <2>2. Counted' BY CountsStay
    <2>3. Requests' = Requests BY DEF Requests, Busy
    <2>4. QED BY <1>6, <2>1, <2>2, <2>3, SessionFacts, SessionGoesOn
<1>8. PlacesInv' BY <1>2, <1>4, <1>5 DEF PlacesInv, InWait
<1>9. FateInv'
    <2>1. InWait' = InWait \cup {j} BY <1>4, <1>5 DEF InWait
    <2>2. QED BY <1>1, <2>1, AcceptedFate
<1>10. QED BY <1>7, <1>8, <1>9

\* ArriveWait() and the answer of a router that asked.
LEMMA ArriveWaitKeeps ==
    ASSUME WindowInv, NEW j \in Job, ArriveWait(j)
    PROVE  WindowInv'
BY QueueKeeps DEF ArriveWait

\* An open gate has a plan behind it, or a session that will publish one.
LEMMA OpenGateWorks ==
    ASSUME SessionPart, Accepting(gates, gate)
    PROVE  /\ gate \in 1..Len(gates) /\ gates[gate].accepting
           /\ live = None => control /\ interrupted = "None"
           /\ interrupted # "None" => live # None
<1> USE DEF SessionPart
<1>1. gate \in 1..Len(gates) /\ gates[gate].accepting
    BY SessionFacts DEF Accepting
<1>2. HasActiveTransfer BY <1>1, SessionFacts DEF GateInv, OpenGateHasOwner
<1>3. QED BY <1>1, <1>2 DEF HasActiveTransfer, SessionInv

\* A job is deferred until the stop is through.
LEMMA DeferStoppedKeeps ==
    ASSUME WindowInv, NEW j \in Job, fate[j] = "Outside", Arrives(j), stopRequested,
           deferredStopped' = Append(deferredStopped, j),
           UNCHANGED <<deferredSame, queuedSessions, gates, planning>>,
           UNCHANGED <<surfaceVars, stateVars, sessionVars, resumes, threadVars, planner, home,
                       finalizing, messages>>
    PROVE  WindowInv'
<1> USE DEF WindowInv
<1> USE DEF surfaceVars, stateVars, sessionVars, threadVars
<1>1. fate' = [fate EXCEPT ![j] = "Accepted"] BY DEF Arrives
<1>2. j \notin InWait BY DEF FateInv
<1>3. /\ deferredStopped' \in Seq(Job) /\ InStopped' = InStopped \cup {j}
      /\ IsInjective(deferredStopped')
    BY <1>2, SessionFacts, JoinsLast DEF InWait, InStopped, PlacesInv
<1>4. /\ InSame' = InSame /\ InQueue' = InQueue /\ InPlanning' = InPlanning
      /\ InWorker' = InWorker
    BY DEF InSame, InQueue, InPlanning, InWorker, Busy
<1>5. RestTyped'
    <2>1. fate' \in [Job -> Fate] BY <1>1 DEF SessionPart, Typed, RestTyped, Fate
    <2>2. QED BY <1>3, <2>1 DEF SessionPart, Typed, RestTyped
<1>6. SessionPart'
    <2>1. MessageInv' BY MessagesStay DEF SessionPart
    <2>2. Counted' BY CountsStay DEF SessionPart
    <2>3. Requests' = Requests BY DEF Requests, Busy
    <2>4. interrupted = "None" BY DEF SessionPart, SessionInv
    <2>5. QED BY <1>5, <2>1, <2>2, <2>3, <2>4, SessionFacts, SessionGoesOn
<1>7. PlacesInv' BY <1>2, <1>3, <1>4 DEF PlacesInv, InWait
<1>8. FateInv'
    <2>1. InWait' = InWait \cup {j} BY <1>3, <1>4 DEF InWait
    <2>2. QED BY <1>1, <2>1, AcceptedFate DEF SessionPart
<1>9. QED BY <1>6, <1>7, <1>8

\* A job with its reservation waits for the plan.
LEMMA DeferSameKeeps ==
    ASSUME WindowInv, NEW j \in Job, fate[j] = "Outside", Arrives(j),
           Accepting(gates, gate), live = None,
           gates' = Reserve(gates, gate), deferredSame' = Append(deferredSame, j),
           UNCHANGED <<deferredStopped, queuedSessions, planning>>,
           UNCHANGED <<surfaceVars, stateVars, sessionVars, resumes, threadVars, planner, home,
                       finalizing, messages>>
    PROVE  WindowInv'
<1> USE DEF WindowInv
<1> USE DEF surfaceVars, stateVars, sessionVars, threadVars
<1>1. fate' = [fate EXCEPT ![j] = "Accepted"] BY DEF Arrives
<1>2. j \notin InWait BY DEF FateInv
<1>3. /\ deferredSame' \in Seq(Job) /\ InSame' = InSame \cup {j}
      /\ IsInjective(deferredSame') /\ Len(deferredSame') = Len(deferredSame) + 1
    BY <1>2, SessionFacts, JoinsLast DEF InWait, InSame, PlacesInv
<1>4. /\ InStopped' = InStopped /\ InQueue' = InQueue /\ InPlanning' = InPlanning
      /\ InWorker' = InWorker
    BY DEF InStopped, InQueue, InPlanning, InWorker, Busy
<1>5. RestTyped'
    <2>1. fate' \in [Job -> Fate] BY <1>1 DEF SessionPart, Typed, RestTyped, Fate
    <2>2. QED BY <2>1 DEF SessionPart, Typed, RestTyped
<1>6. gates' = WithMore(gates, gate, 1) BY DEF Reserve, WithMore
<1>7. /\ gates' \in Seq(Gate) /\ Len(gates') = Len(gates)
      /\ \A h \in 1..Len(gates) : gates'[h].accepting <=> gates[h].accepting
      /\ gates'[gate].count = gates[gate].count + 1
      /\ control
    <2>1. /\ WithMore(gates, gate, 1) \in Seq(Gate)
          /\ Len(WithMore(gates, gate, 1)) = Len(gates)
          /\ \A h \in 1..Len(gates) :
                 /\ WithMore(gates, gate, 1)[h].accepting <=> gates[h].accepting
                 /\ WithMore(gates, gate, 1)[h].count =
                        IF h = gate THEN gates[gate].count + 1 ELSE gates[h].count
        <3>1. gates \in Seq(Gate) /\ gate \in 1..Len(gates) /\ 1 \in Nat
            BY SessionFacts, OpenGateWorks
        <3>2. QED BY <3>1, ReserveEffect
    <2>2. gate \in 1..Len(gates) /\ control BY OpenGateWorks
    <2>3. QED BY <1>6, <2>1, <2>2
<1>8. SessionPart'
    <2>1. MessageInv' BY MessagesStay DEF SessionPart
    <2>2. Counted'
        <3>1. gates[gate].count = Through(planning, gate) + Building(gate) + Len(deferredSame)
            BY OpenGateWorks, SessionFacts DEF SessionPart, Counted
        <3>2. Building(gate)' = Building(gate) /\ Building(gate) \in {0, 1}
            BY DEF Building, Busy
        <3>3. Through(planning, gate) \in Nat /\ Len(deferredSame) \in Nat
            <4>1. planning \in Seq(AppendRequest) /\ deferredSame \in Seq(Job)
                BY SessionFacts
            <4>2. Through(planning, gate) \in Nat BY <4>1, ThroughIsNumber
            <4>3. QED BY <4>1, <4>2
        <3>4. gates'[gate'].count =
                  Through(planning', gate') + Building(gate)' + Len(deferredSame')
            <4>1. gate' = gate /\ planning' = planning OBVIOUS
            <4>2. Through(planning', gate') = Through(planning, gate) BY <4>1
            <4>3. gates'[gate'].count = gates[gate].count + 1 BY <1>7, <4>1
            <4>4. Building(gate) \in Nat BY <3>2
            <4>5. \A a, b, c \in Nat : (a + b + c) + 1 = a + b + (c + 1) OBVIOUS
            <4>6. gates[gate].count + 1 =
                      Through(planning, gate) + Building(gate) + (Len(deferredSame) + 1)
                BY <3>1, <3>3, <4>4, <4>5
            <4>7. QED BY <1>3, <3>2, <4>2, <4>3, <4>6
        <3>5. QED BY <3>4 DEF Counted
    <2>3. Requests' = Requests BY DEF Requests, Busy
    <2>4. QED BY <1>3, <1>5, <1>7, <2>1, <2>2, <2>3, SessionFacts, SessionGoesOn
<1>9. PlacesInv' BY <1>2, <1>3, <1>4 DEF PlacesInv, InWait
<1>10. FateInv'
    <2>1. InWait' = InWait \cup {j} BY <1>3, <1>4 DEF InWait
    <2>2. QED BY <1>1, <2>1, AcceptedFate DEF SessionPart
<1>11. QED BY <1>8, <1>9, <1>10

\* A job goes to the planner.
LEMMA EnqueueKeeps ==
    ASSUME WindowInv, NEW j \in Job, fate[j] = "Outside", Arrives(j),
           Accepting(gates, gate), live # None,
           Reserves(<<j>>, control, gate, gates),
           UNCHANGED <<deferVars, queuedSessions>>,
           UNCHANGED <<surfaceVars, stateVars, sessionVars, resumes, threadVars, planner, home,
                       finalizing, messages>>
    PROVE  WindowInv'
<1> USE DEF WindowInv
<1> USE DEF surfaceVars, stateVars, sessionVars, threadVars, deferVars
<1> DEFINE jobs == <<j>>
           reqs == RequestsOf(jobs, live, control, gate)
<1>1. fate' = [fate EXCEPT ![j] = "Accepted"] BY DEF Arrives
<1>2. j \notin InWait BY DEF FateInv
<1>3. /\ gates' = WithMore(gates, gate, 1)
      /\ planning' = planning \o reqs
    <2>1. Len(jobs) = 1 OBVIOUS
    <2>2. /\ gates' = WithMore(gates, gate, Len(jobs))
          /\ planning' = planning \o reqs
        BY DEF Reserves, WithMore, RequestsOf
    <2>3. QED BY <2>1, <2>2
<1>4. jobs \in Seq(Job) /\ ToSet(jobs) = {j} /\ IsInjective(jobs) /\ Len(jobs) = 1
    BY DEF ToSet, IsInjective
<1> HIDE DEF jobs
<1>5. gate \in Nat \ {0} /\ live \in Job /\ control \in BOOLEAN
    BY OpenGateWorks, SessionFacts
<1>6. /\ reqs \in Seq(AppendRequest) /\ Jobs(reqs) = {j} /\ Len(reqs) = 1
      /\ \A i \in DOMAIN reqs : reqs[i].gate = gate /\ reqs[i].plan = live
      /\ \A i, k \in DOMAIN reqs : reqs[i].job = reqs[k].job => i = k
    BY <1>4, <1>5, RequestsFor
<1> HIDE DEF reqs
<1>7. /\ planning \o reqs \in Seq(AppendRequest)
      /\ Jobs(planning \o reqs) = InPlanning \cup {j}
      /\ \A i \in DOMAIN (planning \o reqs) :
             \/ \E k \in DOMAIN planning : (planning \o reqs)[i] = planning[k]
             \/ \E k \in DOMAIN reqs : (planning \o reqs)[i] = reqs[k]
      /\ \A i, k \in DOMAIN (planning \o reqs) :
             (planning \o reqs)[i].job = (planning \o reqs)[k].job => i = k
    <2>1. \A i, k \in DOMAIN planning : planning[i].job = planning[k].job => i = k
        BY DEF PlacesInv
    <2>2. Jobs(planning) \cap Jobs(reqs) = {} BY <1>2, <1>6 DEF InWait, InPlanning
    <2>3. QED BY <1>6, <2>1, <2>2, SessionFacts, RequestsBehind DEF InPlanning
<1>8. planning' \in Seq(AppendRequest) /\ InPlanning' = InPlanning \cup {j}
    BY <1>3, <1>7 DEF InPlanning
<1>9. /\ InStopped' = InStopped /\ InQueue' = InQueue /\ InSame' = InSame
      /\ InWorker' = InWorker
    BY DEF InStopped, InQueue, InSame, InWorker, Busy
<1>10. RestTyped'
    <2>1. fate' \in [Job -> Fate] BY <1>1 DEF SessionPart, Typed, RestTyped, Fate
    <2>2. QED BY <1>8, <2>1 DEF SessionPart, Typed, RestTyped
<1>11. /\ gates' \in Seq(Gate) /\ Len(gates') = Len(gates)
       /\ \A h \in 1..Len(gates) : gates'[h].accepting <=> gates[h].accepting
       /\ gates'[gate].count = gates[gate].count + 1
    <2>1. /\ WithMore(gates, gate, 1) \in Seq(Gate)
          /\ Len(WithMore(gates, gate, 1)) = Len(gates)
          /\ \A h \in 1..Len(gates) :
                 /\ WithMore(gates, gate, 1)[h].accepting <=> gates[h].accepting
                 /\ WithMore(gates, gate, 1)[h].count =
                        IF h = gate THEN gates[gate].count + 1 ELSE gates[h].count
        <3>1. gates \in Seq(Gate) /\ gate \in 1..Len(gates) /\ 1 \in Nat
            BY SessionFacts, OpenGateWorks
        <3>2. QED BY <3>1, ReserveEffect
    <2>2. gate \in 1..Len(gates) BY OpenGateWorks
    <2>3. QED BY <1>3, <2>1, <2>2
<1>12. SessionPart'
    <2>1. MessageInv' BY MessagesStay DEF SessionPart
    <2>2. Counted'
        <3>1. gates[gate].count = Through(planning, gate) + Building(gate) + Len(deferredSame)
            BY OpenGateWorks, SessionFacts DEF SessionPart, Counted
        <3>2. Building(gate)' = Building(gate) /\ Building(gate) \in {0, 1}
            BY DEF Building, Busy
        <3>3. Through(planning, gate) \in Nat /\ Len(deferredSame) \in Nat
            <4>1. planning \in Seq(AppendRequest) /\ deferredSame \in Seq(Job)
                BY SessionFacts
            <4>2. Through(planning, gate) \in Nat BY <4>1, ThroughIsNumber
            <4>3. QED BY <4>1, <4>2
        <3>4. Through(planning \o reqs, gate) = Through(planning, gate) + 1
            <4>1. \A i \in DOMAIN reqs : reqs[i].gate = gate BY <1>6
            <4>2. planning \in Seq(AppendRequest) BY SessionFacts
            <4>3. Through(planning \o reqs, gate) = Through(planning, gate) + Len(reqs)
                BY <1>6, <4>1, <4>2, ThroughBehind
            <4>4. QED BY <1>6, <4>3
        <3>5. \A a, b, c, d, e \in Nat : e = a + b + c /\ d = a + 1 => e + 1 = d + b + c
            OBVIOUS
        <3>6. gates[gate].count + 1 =
                  Through(planning \o reqs, gate) + Building(gate) + Len(deferredSame)
            <4>1. Building(gate) \in Nat BY <3>2
            <4>2. Through(planning, gate) + 1 \in Nat BY <3>3
            <4>3. gates[gate].count \in Nat BY <3>1, <3>3, <4>1
            <4>4. QED BY <3>1, <3>3, <3>4, <3>5, <4>1, <4>2, <4>3
        <3>7. planning' = planning \o reqs /\ gate' = gate /\ deferredSame' = deferredSame
            BY <1>3
        <3>8. gates'[gate'].count =
                  Through(planning', gate') + Building(gate)' + Len(deferredSame')
            BY <1>11, <3>2, <3>6, <3>7
        <3>9. QED BY <3>8 DEF Counted
    <2>3. \A r \in Requests' : r \in Requests \/ (r.gate = gate /\ r.plan = live)
        BY <1>3, <1>6, <1>7 DEF Requests, Busy
    <2>4. QED BY <1>10, <1>11, <2>1, <2>2, <2>3, SessionFacts, SessionGoesOn
<1>13. PlacesInv'
    <2>1. \A i, k \in DOMAIN planning' : planning'[i].job = planning'[k].job => i = k
        BY <1>3, <1>7
    <2>2. QED BY <1>2, <1>8, <1>9, <2>1 DEF PlacesInv, InWait
<1>14. FateInv'
    <2>1. InWait' = InWait \cup {j} BY <1>8, <1>9 DEF InWait
    <2>2. QED BY <1>1, <2>1, AcceptedFate DEF SessionPart
<1>15. QED BY <1>12, <1>13, <1>14

\* AppendTransfer() is one of these; the gate of an interrupted session is open.
LEMMA ArriveAppendKeeps ==
    ASSUME WindowInv, NEW j \in Job, ArriveAppend(j)
    PROVE  WindowInv'
<1>1. /\ fate[j] = "Outside" /\ Arrives(j) /\ AppendTransfer(j)
      /\ UNCHANGED <<surfaceVars, stateVars, sessionVars, resumes, threadVars, planner, home,
                     finalizing, messages>>
    BY DEF ArriveAppend
<1>2. CASE /\ Defers
           /\ deferredStopped' = Append(deferredStopped, j)
           /\ UNCHANGED <<deferredSame, queuedSessions, gates, planning>>
    BY <1>1, <1>2, DeferStoppedKeeps DEF Defers
<1>3. CASE /\ ~Defers /\ Accepting(gates, gate) /\ live = None
           /\ gates' = Reserve(gates, gate)
           /\ deferredSame' = Append(deferredSame, j)
           /\ UNCHANGED <<deferredStopped, queuedSessions, planning>>
    BY <1>1, <1>3, DeferSameKeeps
<1>4. CASE /\ ~Defers /\ Accepting(gates, gate) /\ live # None
           /\ Reserves(<<j>>, control, gate, gates)
           /\ UNCHANGED <<deferVars, queuedSessions>>
    BY <1>1, <1>4, EnqueueKeeps
<1>5. CASE /\ ~Defers /\ ~Accepting(gates, gate)
           /\ IF interrupted # "None"
              THEN deferredStopped' = Append(deferredStopped, j) /\ UNCHANGED queuedSessions
              ELSE Queue(j) /\ UNCHANGED deferredStopped
           /\ UNCHANGED <<deferredSame, gates, planning>>
    <2>1. interrupted = "None"
        BY <1>5 DEF WindowInv, SessionPart, SessionInv, Accepting
    <2>2. Queue(j) /\ UNCHANGED <<deferVars, plannerVars>>
        BY <1>1, <1>5, <2>1 DEF deferVars, plannerVars
    <2>3. QED BY <1>1, <1>5, <2>2, QueueKeeps
<1>6. QED BY <1>1, <1>2, <1>3, <1>4, <1>5 DEF AppendTransfer


\* Who waits does not change, and whoever has begun has begun for good.
LEMMA FateStays ==
    ASSUME Typed, SessionInv, MessageInv, FateInv, fate' \in [Job -> Fate],
           \A k \in Job : /\ fate'[k] = "Accepted" => fate[k] = "Accepted"
                          /\ fate[k] = "Accepted" => fate'[k] = "Accepted"
                          /\ Begun(k) => Begun(k)',
           InWait' = InWait, control' = control, live' \in {None, live},
           thread'.plan = thread.plan,
           thread'.pc \in {"Done", "Planning", thread.pc}
               \/ thread.pc \notin {"Done", "Planning"},
           PublishPending' => PublishPending \/ thread.pc \notin {"Done", "Planning"},
           live # None \/ live' = None
    PROVE  FateInv'
<1>1. \A k \in InWait : k \in Job /\ fate[k] = "Accepted" BY WaitingAreJobs DEF FateInv
<1>2. live \in Job \cup {None} /\ (thread.pc # "Done" => control)
      /\ (control => thread.plan \in Job) /\ (PublishPending => control)
    BY DEF Typed, TypeOK, SessionInv, MessageInv, PublishPending
<1>3. \A k \in InWait' : fate'[k] = "Accepted" BY <1>1
<1>4. control' => thread'.plan \notin InWait' BY DEF FateInv
<1>5. \A k \in Job : fate'[k] = "Accepted" => k \in InWait' \/ (control' /\ thread'.plan = k)
    BY DEF FateInv
<1>6. live' # None => Begun(live)' BY <1>2 DEF FateInv, Begun
<1>7. thread'.pc \notin {"Done", "Planning"} \/ PublishPending' => Begun(thread.plan)'
    <2>1. Begun(thread.plan) /\ thread.plan \in Job => Begun(thread.plan)'
        BY DEF Begun
    <2>2. thread'.pc \notin {"Done", "Planning"} \/ PublishPending'
              => thread.pc \notin {"Done", "Planning"} \/ PublishPending
        OBVIOUS
    <2>3. QED BY <1>2, <2>1, <2>2 DEF FateInv
<1>8. control' => fate'[thread'.plan] \notin {"Outside", "Asked"}
    BY <1>2 DEF FateInv, Begun
<1>9. QED BY <1>3, <1>4, <1>5, <1>6, <1>7, <1>8 DEF FateInv

\* ArriveIdle(): the job gets a session of its own.
LEMMA ArriveIdleKeeps ==
    ASSUME WindowInv, NEW j \in Job, ArriveIdle(j)
    PROVE  WindowInv'
<1> USE DEF WindowInv, SessionPart
<1>1. /\ StartTransfer(j, gates) /\ fate[j] = "Outside"
      /\ fate' = [fate EXCEPT ![j] = "Accepted"]
      /\ ~finalizing /\ finalizing' = finalizing
      /\ ~control /\ interrupted = "None" /\ ~stopRequested
      /\ messages' = messages /\ planning' = planning /\ planner' = planner
      /\ deferredSame' = deferredSame /\ deferredStopped' = deferredStopped
      /\ queuedSessions' = queuedSessions
      /\ dialog' = dialog /\ closing' = closing /\ closed' = closed /\ home' = home
    BY DEF ArriveIdle, UiFree, Arrives, HasActiveTransfer, surfaceVars, deferVars, plannerVars
<1>2. deferredSame = <<>> /\ live = None BY <1>1 DEF SessionInv
<1>3. NoSession BY <1>1 DEF MessageInv, NoSession
<1>4. AllClosed(gates)
    <2>1. gates \in Seq(Gate) /\ DOMAIN gates = 1..Len(gates) BY AllShut
    <2>2. QED BY <1>1, <2>1 DEF AllClosed, GateInv, OpenGateHasOwner, HasActiveTransfer
<1>5. Around
    <2>1. fate' \in [Job -> Fate] BY <1>1 DEF Typed, RestTyped, Fate
    <2>2. RestTyped' BY <1>1, <2>1 DEF Typed, RestTyped
    <2>3. Requests' = Requests BY <1>1 DEF Requests, Busy
    <2>4. NoSession' BY <1>1, <1>3 DEF NoSession
    <2>5. finalizing' = FALSE BY <1>1 DEF Typed, TypeOK
    <2>6. QED BY <1>1, <1>2, <2>2, <2>3, <2>4, <2>5 DEF Around
<1>6. SessionPart' BY <1>1, <1>4, <1>5, StartKeeps
<1>7. PlacesInv' /\ InWait' = InWait
    <2>1. InWorker' = InWorker BY <1>1 DEF InWorker, Busy
    <2>2. QED BY <1>1, <2>1, PlacesStay DEF InWait
<1>8. FateInv'
    <2>1. thread'.pc = "Planning" /\ thread'.plan = j /\ live' = None
        BY <1>1 DEF StartTransfer, Quiet
    <2>2. ~PublishPending' BY <1>1, <1>3 DEF PublishPending, NoSession
    <2>3. \A k \in InWait : k \in Job /\ k # j /\ fate[k] = "Accepted"
        BY <1>1, WaitingAreJobs DEF FateInv
    <2>4. \A k \in Job : fate'[k] = IF k = j THEN "Accepted" ELSE fate[k]
        BY <1>1 DEF Typed, RestTyped
    <2>5. control' = TRUE BY <1>1 DEF StartTransfer
    <2>6. QED BY <1>1, <1>7, <2>1, <2>2, <2>3, <2>4, <2>5 DEF FateInv
<1>9. QED BY <1>6, <1>7, <1>8

\* Nothing happens to the messages.
LEMMA MessagesSame ==
    ASSUME SessionPart, UNCHANGED <<messages, control, thread, live>>
    PROVE  messages' \in Seq(Notice) /\ MessageInv' /\ (PublishPending' => PublishPending)
<1>1. messages' \in Seq(Notice) BY SessionFacts
<1>2. MessageInv' BY MessagesStay DEF SessionPart
<1>3. PublishPending' => PublishPending BY DEF PublishPending
<1>4. QED BY <1>1, <1>2, <1>3

\* The session is as it was, and whoever waits still waits.
LEMMA NothingMoves ==
    ASSUME WindowInv, fate' \in [Job -> Fate],
           \A k \in Job : /\ fate'[k] = "Accepted" => fate[k] = "Accepted"
                          /\ fate[k] = "Accepted" => fate'[k] = "Accepted"
                          /\ Begun(k) => Begun(k)',
           messages' \in Seq(Notice), MessageInv', PublishPending' => PublishPending,
           finalizing' \in BOOLEAN, finalizing' => interrupted \in {"Stopped", "Conflict"},
           pendingResume' \in {"No", "Stopped", Prompt, All} \cup Job,
           stopRequested' \in BOOLEAN, stopRequested' => control, stopRequested => stopRequested',
           directive' \in {"Run", "Stop", "Cancel"},
           dialog' \in Job \cup {None}, closing' \in BOOLEAN,
           UNCHANGED <<closed, deferVars, queuedSessions, interrupted, sessionVars,
                       plannerVars, home, gates, thread>>
    PROVE  WindowInv'
<1> USE DEF WindowInv, deferVars, sessionVars, plannerVars
<1>1. RestTyped' BY DEF SessionPart, Typed, RestTyped
<1>2. SessionPart'
    <2>1. Counted' BY CountsStay DEF SessionPart
    <2>2. Requests' = Requests BY DEF Requests, Busy
    <2>3. QED BY <1>1, <2>1, <2>2, SessionFacts, SessionGoesOn
<1>3. PlacesInv' /\ InWait' = InWait
    <2>1. InWorker' = InWorker BY DEF InWorker, Busy
    <2>2. QED BY <2>1, PlacesStay DEF InWait
<1>4. FateInv' BY <1>3, FateStays DEF SessionPart
<1>5. QED BY <1>2, <1>3, <1>4

\* The router asks, ...
LEMMA AskToWaitKeeps ==
    ASSUME WindowInv, NEW j \in Job, AskToWait(j)
    PROVE  WindowInv'
<1>1. /\ fate[j] = "Outside" /\ fate' = [fate EXCEPT ![j] = "Asked"]
      /\ UNCHANGED <<windowVars, threadVars, plannerVars, home, finalizing, messages, gates>>
    BY DEF AskToWait
<1>2. fate \in [Job -> Fate] BY DEF WindowInv, SessionPart, Typed, RestTyped
<1>3. fate' \in [Job -> Fate] /\ \A k \in Job : fate'[k] = IF k = j THEN "Asked" ELSE fate[k]
    BY <1>1, <1>2 DEF Fate
<1>4. SessionPart BY DEF WindowInv
<1>5. \A k \in Job : /\ fate'[k] = "Accepted" => fate[k] = "Accepted"
                     /\ fate[k] = "Accepted" => fate'[k] = "Accepted"
                     /\ Begun(k) => Begun(k)'
    BY <1>1, <1>3 DEF Begun
<1>6. dialog \in Job \cup {None} /\ closing \in BOOLEAN
    BY <1>4 DEF SessionPart, Typed, RestTyped
<1>7. /\ UNCHANGED <<closed, deferVars, queuedSessions, interrupted, sessionVars, messages,
                     plannerVars, home, gates, thread, directive, stopRequested>>
      /\ dialog' = dialog /\ closing' = closing /\ pendingResume' = pendingResume
      /\ finalizing' = finalizing
    BY <1>1 DEF windowVars, surfaceVars, stateVars, threadVars
<1>8. /\ finalizing' \in BOOLEAN /\ (finalizing' => interrupted \in {"Stopped", "Conflict"})
      /\ pendingResume' \in {"No", "Stopped", Prompt, All} \cup Job
      /\ stopRequested' \in BOOLEAN /\ (stopRequested' => control)
      /\ directive' \in {"Run", "Stop", "Cancel"}
      /\ dialog' \in Job \cup {None} /\ closing' \in BOOLEAN
    BY <1>4, <1>6, <1>7, SessionFacts
<1>9. messages' \in Seq(Notice) /\ MessageInv' /\ (PublishPending' => PublishPending)
    BY <1>4, <1>7, MessagesSame DEF sessionVars
<1>10. QED BY <1>3, <1>5, <1>7, <1>8, <1>9, NothingMoves

\* ... and is told to queue the job, or routes it anew.
LEMMA AnswerToWaitKeeps ==
    ASSUME WindowInv, NEW j \in Job, AnswerToWait(j)
    PROVE  WindowInv'
<1>1. /\ fate[j] = "Asked"
      /\ UNCHANGED <<surfaceVars, deferVars, stateVars, sessionVars, resumes, threadVars,
                     plannerVars, home, finalizing, messages, gates>>
    BY DEF AnswerToWait
<1>2. CASE Arrives(j) /\ Queue(j) BY <1>1, <1>2, QueueKeeps
<1>3. CASE fate' = [fate EXCEPT ![j] = "Outside"] /\ UNCHANGED queuedSessions
    <2>1. fate \in [Job -> Fate] BY DEF WindowInv, SessionPart, Typed, RestTyped
    <2>2. /\ fate' \in [Job -> Fate]
          /\ \A k \in Job : fate'[k] = IF k = j THEN "Outside" ELSE fate[k]
        BY <1>3, <2>1 DEF Fate
    <2>3. SessionPart BY DEF WindowInv
    <2>4. \A k \in Job : /\ fate'[k] = "Accepted" => fate[k] = "Accepted"
                         /\ fate[k] = "Accepted" => fate'[k] = "Accepted"
                         /\ Begun(k) => Begun(k)'
        BY <1>1, <2>2 DEF Begun
    <2>5. dialog \in Job \cup {None} /\ closing \in BOOLEAN
        BY <2>3 DEF SessionPart, Typed, RestTyped
    <2>6. /\ UNCHANGED <<closed, deferVars, queuedSessions, interrupted, sessionVars, messages,
                         plannerVars, home, gates, thread, directive, stopRequested>>
          /\ dialog' = dialog /\ closing' = closing /\ pendingResume' = pendingResume
          /\ finalizing' = finalizing
        BY <1>1, <1>3 DEF surfaceVars, stateVars, threadVars
    <2>7. /\ finalizing' \in BOOLEAN /\ (finalizing' => interrupted \in {"Stopped", "Conflict"})
          /\ pendingResume' \in {"No", "Stopped", Prompt, All} \cup Job
          /\ stopRequested' \in BOOLEAN /\ (stopRequested' => control)
          /\ directive' \in {"Run", "Stop", "Cancel"}
          /\ dialog' \in Job \cup {None} /\ closing' \in BOOLEAN
        BY <2>3, <2>5, <2>6, SessionFacts
    <2>8. messages' \in Seq(Notice) /\ MessageInv' /\ (PublishPending' => PublishPending)
        BY <2>3, <2>6, MessagesSame DEF sessionVars
    <2>9. QED BY <2>2, <2>4, <2>6, <2>7, <2>8, NothingMoves
<1>4. QED BY <1>2, <1>3 DEF AnswerToWait

-----------------------------------------------------------------------------
(***************************************************************************)
(* The user stops, removes and resumes.                                    *)
(***************************************************************************)
\* What becomes of some jobs.
LEMMA BecameEffect ==
    ASSUME NEW f \in [Job -> Fate], NEW S, NEW kind \in Fate
    PROVE  /\ Became(f, S, kind) \in [Job -> Fate]
           /\ \A k \in Job : Became(f, S, kind)[k] = IF k \in S THEN kind ELSE f[k]
BY DEF Became

\* Stop is a wish: nothing of the session changes before its thread has read it.
LEMMA OnStopClickKeeps ==
    ASSUME WindowInv, OnStopClick
    PROVE  WindowInv'
<1>1. /\ control /\ pendingResume' = "No" /\ stopRequested' = TRUE
      /\ directive' = After("Stop", directive)
      /\ UNCHANGED <<surfaceVars, deferVars, interrupted, sessionVars, queuedSessions, resumes,
                     thread, plannerVars, jobVars, finalizing, messages, gates>>
    BY DEF OnStopClick
<1>2. SessionPart BY DEF WindowInv
<1>3. /\ fate \in [Job -> Fate] /\ dialog \in Job \cup {None} /\ closing \in BOOLEAN
    BY <1>2 DEF SessionPart, Typed, RestTyped
<1>4. /\ UNCHANGED <<closed, deferVars, queuedSessions, interrupted, sessionVars,
                     plannerVars, home, gates, thread>>
      /\ dialog' = dialog /\ closing' = closing /\ fate' = fate /\ finalizing' = finalizing
      /\ UNCHANGED <<messages, control, thread, live>>
    BY <1>1 DEF surfaceVars, sessionVars, jobVars
<1>5. /\ finalizing' \in BOOLEAN /\ (finalizing' => interrupted \in {"Stopped", "Conflict"})
      /\ pendingResume' \in {"No", "Stopped", Prompt, All} \cup Job
      /\ stopRequested' \in BOOLEAN /\ (stopRequested' => control)
      /\ (stopRequested => stopRequested')
      /\ directive' \in {"Run", "Stop", "Cancel"}
      /\ dialog' \in Job \cup {None} /\ closing' \in BOOLEAN
    BY <1>1, <1>2, <1>3, <1>4, SessionFacts DEF After
<1>6. messages' \in Seq(Notice) /\ MessageInv' /\ (PublishPending' => PublishPending)
    BY <1>2, <1>4, MessagesSame
<1>7. /\ fate' \in [Job -> Fate]
      /\ \A k \in Job : /\ fate'[k] = "Accepted" => fate[k] = "Accepted"
                        /\ fate[k] = "Accepted" => fate'[k] = "Accepted"
                        /\ Begun(k) => Begun(k)'
    BY <1>3, <1>4 DEF Begun
<1>8. QED BY <1>4, <1>5, <1>6, <1>7, NothingMoves

\* What is removed from the plan had begun.
LEMMA OnQueueRemoveClickKeeps ==
    ASSUME WindowInv, OnQueueRemoveClick
    PROVE  WindowInv'
<1>1. PICK S \in SUBSET Remaining(live) \ {{}} :
          /\ fate' = Became(fate, S, "Removed")
          /\ IF interrupted \in {"Stopped", "Conflict"}
             THEN FinalizeIfEmpty(Became(fate, S, "Removed")) ELSE UNCHANGED finalizing
    BY DEF OnQueueRemoveClick
<1>2. UNCHANGED <<windowVars, threadVars, plannerVars, home, messages, gates>>
    BY DEF OnQueueRemoveClick
<1>3. SessionPart BY DEF WindowInv
<1>4. /\ fate \in [Job -> Fate] /\ dialog \in Job \cup {None} /\ closing \in BOOLEAN
    BY <1>3 DEF SessionPart, Typed, RestTyped
<1>5. /\ UNCHANGED <<closed, deferVars, queuedSessions, interrupted, sessionVars,
                     plannerVars, home, gates, thread>>
      /\ dialog' = dialog /\ closing' = closing /\ pendingResume' = pendingResume
      /\ stopRequested' = stopRequested /\ directive' = directive
      /\ UNCHANGED <<messages, control, thread, live>>
    BY <1>2 DEF windowVars, surfaceVars, stateVars, sessionVars, threadVars
<1>6. /\ finalizing' \in BOOLEAN /\ (finalizing' => interrupted \in {"Stopped", "Conflict"})
    BY <1>1, <1>3, SessionFacts DEF FinalizeIfEmpty
<1>7. /\ pendingResume' \in {"No", "Stopped", Prompt, All} \cup Job
      /\ stopRequested' \in BOOLEAN /\ (stopRequested' => control)
      /\ (stopRequested => stopRequested')
      /\ directive' \in {"Run", "Stop", "Cancel"}
      /\ dialog' \in Job \cup {None} /\ closing' \in BOOLEAN
    BY <1>3, <1>4, <1>5, SessionFacts
<1>8. messages' \in Seq(Notice) /\ MessageInv' /\ (PublishPending' => PublishPending)
    BY <1>3, <1>5, MessagesSame
<1>9. /\ fate' \in [Job -> Fate]
      /\ \A k \in Job : /\ fate'[k] = "Accepted" => fate[k] = "Accepted"
                        /\ fate[k] = "Accepted" => fate'[k] = "Accepted"
                        /\ Begun(k) => Begun(k)'
    <2>1. "Removed" \in Fate BY DEF Fate
    <2>2. /\ fate' \in [Job -> Fate]
          /\ \A k \in Job : fate'[k] = IF k \in S THEN "Removed" ELSE fate[k]
        BY <1>1, <1>4, <2>1, BecameEffect
    <2>3. \A k \in S : fate[k] = "Pending" BY <1>1 DEF Remaining, Among
    <2>4. QED BY <2>2, <2>3 DEF Begun
<1>10. QED BY <1>5, <1>6, <1>7, <1>8, <1>9, NothingMoves

\* An interrupted session goes on with its plan.
LEMMA ExecutesWindow ==
    ASSUME WindowInv, interrupted # "None", ~finalizing,
           NEW policy \in {Prompt, All} \cup Job, Executes(policy),
           fate' \in [Job -> Fate],
           \A k \in Job : /\ fate'[k] = "Accepted" => fate[k] = "Accepted"
                          /\ fate[k] = "Accepted" => fate'[k] = "Accepted"
                          /\ Begun(k) => Begun(k)',
           messages' \in Seq(Notice), NoSession',
           dialog' \in Job \cup {None}, closing' \in BOOLEAN, closed' \in BOOLEAN,
           UNCHANGED <<deferVars, queuedSessions, plannerVars, home, gates, finalizing>>
    PROVE  WindowInv'
<1> USE DEF WindowInv, deferVars, plannerVars
<1>1. RestTyped' BY DEF SessionPart, Typed, RestTyped
<1>2. SessionPart' BY <1>1, ExecutesKeeps
<1>3. PlacesInv' /\ InWait' = InWait
    <2>1. InWorker' = InWorker BY DEF InWorker, Busy
    <2>2. QED BY <2>1, PlacesStay DEF InWait
<1>4. FateInv'
    <2>1. ~control /\ live # None /\ live \in Job
        BY DEF SessionPart, SessionInv, Typed, TypeOK
    <2>2. control' = TRUE /\ live' = live /\ thread'.plan = live /\ thread'.pc = "Executing"
        BY DEF Executes, Quiet
    <2>3. \A k \in InWait : k \in Job /\ fate[k] = "Accepted"
        BY WaitingAreJobs DEF FateInv, SessionPart
    <2>4. Begun(live) BY <2>1 DEF FateInv
    <2>5. \A k \in Job : fate'[k] = "Accepted" => k \in InWait BY <2>1 DEF FateInv
    <2>6. Begun(live)'
        <3>1. fate'[live] \notin {"Outside", "Asked", "Accepted"} BY <2>1, <2>4 DEF Begun
        <3>2. QED BY <2>2, <3>1 DEF Begun
    <2>7. QED BY <1>3, <2>1, <2>2, <2>3, <2>4, <2>5, <2>6 DEF FateInv, Begun
<1>5. QED BY <1>2, <1>3, <1>4

\* The window reads the first of its messages.
LEMMA MessagesLeft ==
    ASSUME SessionPart, messages # <<>>, messages' = Tail(messages)
    PROVE  /\ messages' \in Seq(Notice) /\ Head(messages) \in Notice
           /\ 1 \in DOMAIN messages /\ Head(messages) = messages[1]
           /\ \A i \in DOMAIN messages' :
                  i \in Nat /\ i >= 1 /\ i + 1 \in DOMAIN messages /\ messages'[i] = messages[i + 1]
           /\ \A i \in DOMAIN messages :
                  i \in Nat /\ (i = 1 \/ (i > 1 /\ i - 1 \in DOMAIN messages'
                                               /\ messages'[i - 1] = messages[i]))
<1> DEFINE t == Tail(messages)
<1>1. messages \in Seq(Notice) BY SessionFacts
<1>2. /\ t \in Seq(Notice) /\ Len(messages) \in Nat \ {0}
      /\ DOMAIN t = 1..(Len(messages) - 1) /\ DOMAIN messages = 1..Len(messages)
    BY <1>1
<1>3. \A i \in 1..(Len(messages) - 1) : t[i] = messages[i + 1]
    BY <1>1
<1>4. Head(messages) = messages[1] /\ 1 \in DOMAIN messages BY <1>1, <1>2
<1>5. messages' = t OBVIOUS
<1> HIDE DEF t
<1>6. Head(messages) \in Notice BY <1>1, <1>4
<1>7. ASSUME NEW i \in DOMAIN t
      PROVE  i \in Nat /\ i >= 1 /\ i + 1 \in DOMAIN messages /\ t[i] = messages[i + 1]
    BY <1>2, <1>3
<1>8. ASSUME NEW i \in DOMAIN messages
      PROVE  i \in Nat /\ (i = 1 \/ (i > 1 /\ i - 1 \in DOMAIN t /\ t[i - 1] = messages[i]))
    BY <1>2, <1>3
<1>9. QED BY <1>2, <1>4, <1>5, <1>6, <1>7, <1>8

\* A report of the planner leaves what the thread has said.
LEMMA ReportRead ==
    ASSUME SessionPart, messages # <<>>, messages' = Tail(messages),
           Head(messages).kind \notin {"Publish", "Finish"},
           UNCHANGED <<control, thread, live>>
    PROVE  messages' \in Seq(Notice) /\ MessageInv' /\ (PublishPending' => PublishPending)
<1> DEFINE later(m, k) == m[k].kind \notin {"Publish", "Finish"}
<1>1. /\ messages' \in Seq(Notice) /\ Head(messages) = messages[1]
      /\ \A i \in DOMAIN messages' :
             i \in Nat /\ i + 1 \in DOMAIN messages /\ messages'[i] = messages[i + 1]
      /\ \A i \in DOMAIN messages :
             i \in Nat /\ (i = 1 \/ (i - 1 \in DOMAIN messages' /\ messages'[i - 1] = messages[i]))
    BY MessagesLeft
<1>2. PublishPending' <=> PublishPending
    <2>1. PublishPending' => PublishPending BY <1>1 DEF PublishPending
    <2>2. ASSUME NEW i \in DOMAIN messages, messages[i].kind = "Publish" PROVE PublishPending'
        <3>1. i # 1 BY <1>1, <2>2
        <3>2. QED BY <1>1, <2>2, <3>1 DEF PublishPending
    <2>3. QED BY <2>1, <2>2 DEF PublishPending
<1>3. MessageInv BY DEF SessionPart
<1>4. ASSUME NEW i \in DOMAIN messages', messages'[i].kind = "Finish"
      PROVE  /\ control' /\ thread'.pc = "Done"
             /\ \A k \in DOMAIN messages' : k > i => messages'[k].kind \notin {"Publish", "Finish"}
             /\ Substantive(messages'[i].result) => live' # None \/ PublishPending'
    <2>1. i + 1 \in DOMAIN messages /\ messages[i + 1].kind = "Finish" BY <1>1, <1>4
    <2>2. /\ control /\ thread.pc = "Done"
          /\ \A k \in DOMAIN messages : k > i + 1 => messages[k].kind \notin {"Publish", "Finish"}
          /\ Substantive(messages[i + 1].result) => live # None \/ PublishPending
        BY <1>3, <2>1 DEF MessageInv
    <2>3. ASSUME NEW k \in DOMAIN messages', k > i
          PROVE  messages'[k].kind \notin {"Publish", "Finish"}
        <3>1. k + 1 \in DOMAIN messages /\ k + 1 > i + 1 BY <1>1, <2>3
        <3>2. QED BY <1>1, <2>2, <3>1
    <2>4. QED BY <1>1, <1>2, <2>2, <2>3
<1>5. ASSUME NEW i \in DOMAIN messages', messages'[i].kind = "Publish"
      PROVE  /\ control' /\ live' = None /\ messages'[i].plan = thread'.plan
             /\ thread'.pc \in Ran \cup {"Done"}
             /\ \A k \in DOMAIN messages' : messages'[k].kind = "Publish" => k = i
    <2>1. i + 1 \in DOMAIN messages /\ messages[i + 1].kind = "Publish" BY <1>1, <1>5
    <2>2. /\ control /\ live = None /\ messages[i + 1].plan = thread.plan
          /\ thread.pc \in Ran \cup {"Done"}
          /\ \A k \in DOMAIN messages : messages[k].kind = "Publish" => k = i + 1
        BY <1>3, <2>1 DEF MessageInv
    <2>3. ASSUME NEW k \in DOMAIN messages', messages'[k].kind = "Publish" PROVE k = i
        <3>1. k + 1 = i + 1 BY <1>1, <2>2, <2>3
        <3>2. QED BY <1>1, <3>1
    <2>4. QED BY <1>1, <2>2, <2>3
<1>6. thread'.pc \in Ran => live' # None \/ PublishPending' BY <1>2, <1>3 DEF MessageInv, Ran
<1>7. MessageInv' BY <1>4, <1>5, <1>6 DEF MessageInv, Ran
<1>8. QED BY <1>1, <1>2, <1>7

\* While a session is interrupted its thread has nothing more to say.
LEMMA InterruptedQuiet ==
    ASSUME SessionPart, ~control
    PROVE  NoSession /\ thread.pc = "Done"
BY DEF SessionPart, MessageInv, SessionInv, NoSession

\* ... and that stays so as the window reads its messages.
LEMMA QuietStays ==
    ASSUME SessionPart, NoSession,
           messages' = messages \/ (messages # <<>> /\ messages' = Tail(messages))
    PROVE  NoSession' /\ messages' \in Seq(Notice)
<1>1. CASE messages' = messages BY <1>1, SessionFacts DEF NoSession
<1>2. CASE messages # <<>> /\ messages' = Tail(messages)
    <2>1. /\ messages' \in Seq(Notice)
          /\ \A i \in DOMAIN messages' : i + 1 \in DOMAIN messages /\ messages'[i] = messages[i + 1]
        BY <1>2, MessagesLeft
    <2>2. QED BY <2>1 DEF NoSession
<1>3. QED BY <1>1, <1>2

\* ResumeStoppedCopy() and ResumeConflictCopy().
LEMMA ResumeKeeps ==
    ASSUME WindowInv, interrupted \in {"Stopped", "Conflict"}, ~finalizing,
           NEW policy \in {"Stopped", Prompt, All} \cup Job, NEW f, Resume(policy, f),
           fate' \in [Job -> Fate],
           \A k \in Job : /\ fate'[k] = "Accepted" => fate[k] = "Accepted"
                          /\ fate[k] = "Accepted" => fate'[k] = "Accepted"
                          /\ Begun(k) => Begun(k)',
           messages' = messages \/ (messages # <<>> /\ messages' = Tail(messages)),
           dialog' \in Job \cup {None}, closing' = closing, closed' = closed,
           UNCHANGED <<deferVars, queuedSessions, plannerVars, home, gates>>
    PROVE  WindowInv'
<1>1. SessionPart BY DEF WindowInv
<1>2. ~control BY <1>1 DEF SessionPart, SessionInv
<1>3. NoSession' /\ messages' \in Seq(Notice) /\ thread.pc = "Done"
    BY <1>1, <1>2, InterruptedQuiet, QuietStays
<1>4. closing \in BOOLEAN /\ closed \in BOOLEAN BY <1>1 DEF SessionPart, Typed, RestTyped
<1>5. ASSUME UNCHANGED <<interrupted, stopRequested, sessionVars, threadVars>>,
             pendingResume' \in {"No", policy},
             finalizing' = finalizing \/ finalizing' = TRUE
      PROVE  WindowInv'
    <2>1. MessageInv' /\ ~PublishPending'
        <3>1. thread'.pc = "Done" BY <1>3, <1>5 DEF threadVars
        <3>2. QED BY <1>3, <3>1 DEF MessageInv, NoSession, PublishPending, Ran
    <2>2. /\ UNCHANGED <<closed, deferVars, queuedSessions, interrupted, sessionVars,
                         plannerVars, home, gates, thread>>
          /\ directive' = directive /\ stopRequested' = stopRequested
        BY <1>5 DEF threadVars
    <2>3. /\ finalizing' \in BOOLEAN /\ (finalizing' => interrupted \in {"Stopped", "Conflict"})
          /\ pendingResume' \in {"No", "Stopped", Prompt, All} \cup Job
          /\ stopRequested' \in BOOLEAN /\ (stopRequested' => control)
          /\ directive' \in {"Run", "Stop", "Cancel"} /\ closing' \in BOOLEAN
        <3>1. pendingResume' \in {"No", "Stopped", Prompt, All} \cup Job BY <1>5
        <3>2. finalizing \in BOOLEAN /\ stopRequested \in BOOLEAN /\ (stopRequested => control)
              /\ directive \in {"Run", "Stop", "Cancel"}
            BY <1>1, SessionFacts
        <3>3. finalizing' \in BOOLEAN BY <1>5, <3>2
        <3>4. QED BY <1>4, <2>2, <3>1, <3>2, <3>3
    <2>4. QED BY <1>3, <2>1, <2>2, <2>3, NothingMoves
<1>6. CASE /\ pendingResume' = policy
           /\ UNCHANGED <<interrupted, stopRequested, sessionVars, threadVars, finalizing>>
    BY <1>5, <1>6
<1>7. CASE /\ pendingResume' = "No" /\ finalizing' = TRUE
           /\ UNCHANGED <<interrupted, stopRequested, sessionVars, threadVars>>
    BY <1>5, <1>7
<1>8. CASE /\ Executes(IF policy = "Stopped" THEN Prompt ELSE policy)
           /\ UNCHANGED finalizing
    <2> DEFINE p == IF policy = "Stopped" THEN Prompt ELSE policy
    <2>1. p \in {Prompt, All} \cup Job OBVIOUS
    <2>2. Executes(p) BY <1>8
    <2> HIDE DEF p
    <2>3. interrupted # "None" OBVIOUS
    <2>4. QED BY <1>3, <1>4, <1>8, <2>1, <2>2, <2>3, ExecutesWindow
<1>9. QED BY <1>6, <1>7, <1>8 DEF Resume

\* The button of a stopped session.
LEMMA OnResumeClickKeeps ==
    ASSUME WindowInv, OnResumeClick
    PROVE  WindowInv'
<1>1. /\ interrupted = "Stopped" /\ ~finalizing /\ Resume("Stopped", fate)
      /\ UNCHANGED <<surfaceVars, deferVars, queuedSessions, plannerVars, jobVars, messages,
                     gates>>
    BY DEF OnResumeClick, UiFree
<1>2. fate \in [Job -> Fate] /\ dialog \in Job \cup {None}
    BY DEF WindowInv, SessionPart, Typed, RestTyped
<1>3. /\ UNCHANGED <<deferVars, queuedSessions, plannerVars, home, gates>>
      /\ fate' = fate /\ dialog' = dialog /\ closing' = closing /\ closed' = closed
      /\ messages' = messages
    BY <1>1 DEF surfaceVars, jobVars
<1>4. \A k \in Job : Begun(k) => Begun(k)' BY <1>3 DEF Begun
<1>5. QED BY <1>1, <1>2, <1>3, <1>4, ResumeKeeps

\* ContinueInterruptedSessionAfterPlanning() and the report of the planner.
LEMMA PlannerReportsKeeps ==
    ASSUME WindowInv, PlannerReports
    PROVE  WindowInv'
<1>1. /\ UNCHANGED <<surfaceVars, deferVars, queuedSessions, resumes, plannerVars, jobVars,
                     gates>>
      /\ ~finalizing /\ messages # <<>> /\ messages' = Tail(messages)
      /\ Head(messages).kind \notin {"Publish", "Finish"}
      /\ Continue \/ Untouched
    BY DEF PlannerReports, Message, UiFree
<1>2. SessionPart BY DEF WindowInv
<1>3. fate \in [Job -> Fate] /\ dialog \in Job \cup {None} /\ closing \in BOOLEAN
    BY <1>2 DEF SessionPart, Typed, RestTyped
<1>4. /\ UNCHANGED <<deferVars, queuedSessions, plannerVars, home, gates>>
      /\ fate' = fate /\ dialog' = dialog /\ closing' = closing /\ closed' = closed
    BY <1>1 DEF surfaceVars, jobVars
<1>5. \A k \in Job : Begun(k) => Begun(k)' BY <1>4 DEF Begun
<1>6. ASSUME UNCHANGED <<stateVars, sessionVars, threadVars>>,
             finalizing' \in BOOLEAN, finalizing' => interrupted \in {"Stopped", "Conflict"}
      PROVE  WindowInv'
    <2>1. /\ UNCHANGED <<closed, deferVars, queuedSessions, interrupted, sessionVars,
                         plannerVars, home, gates, thread>>
          /\ directive' = directive /\ stopRequested' = stopRequested
          /\ pendingResume' = pendingResume
          /\ UNCHANGED <<control, thread, live>>
        BY <1>4, <1>6 DEF threadVars, stateVars, sessionVars
    <2>2. messages' \in Seq(Notice) /\ MessageInv' /\ (PublishPending' => PublishPending)
        BY <1>1, <1>2, <2>1, ReportRead
    <2>3. /\ pendingResume' \in {"No", "Stopped", Prompt, All} \cup Job
          /\ stopRequested' \in BOOLEAN /\ (stopRequested' => control)
          /\ directive' \in {"Run", "Stop", "Cancel"} /\ closing' \in BOOLEAN
        BY <1>2, <1>3, <1>4, <2>1, SessionFacts
    <2>4. QED BY <1>3, <1>4, <1>5, <1>6, <2>1, <2>2, <2>3, NothingMoves
<1>7. CASE Untouched
    <2>1. finalizing' = finalizing BY <1>7 DEF Untouched
    <2>2. QED BY <1>2, <1>6, <1>7, <2>1, SessionFacts DEF Untouched
<1>8. CASE Continue
    <2>1. CASE interrupted = "Stopped" /\ pendingResume = "Stopped" /\ Resume("Stopped", fate)
        BY <1>1, <1>3, <1>4, <1>5, <2>1, ResumeKeeps
    <2>2. CASE /\ interrupted = "Conflict" /\ pendingResume \notin {"No", "Stopped"}
               /\ Resume(pendingResume, fate)
        <3>1. pendingResume \in {"Stopped", Prompt, All} \cup Job
            BY <1>2, <2>2, SessionFacts
        <3>2. QED BY <1>1, <1>3, <1>4, <1>5, <2>2, <3>1, ResumeKeeps
    <2>3. CASE /\ interrupted \in {"Stopped", "Conflict"} /\ FinalizeIfEmpty(fate)
               /\ UNCHANGED <<stateVars, sessionVars, threadVars>>
        BY <1>6, <2>3 DEF FinalizeIfEmpty
    <2>4. CASE Untouched BY <1>7, <2>4
    <2>5. QED BY <1>8, <2>1, <2>2, <2>3, <2>4 DEF Continue
<1>9. QED BY <1>1, <1>7, <1>8

-----------------------------------------------------------------------------
(***************************************************************************)
(* Sessions end.                                                           *)
(***************************************************************************)
\* Whatever ends a session, the first in the queue leaves it to be worked on.
LEMMA RetiresPlaces ==
    ASSUME NEW gs, NEW queue \in Seq(Job), NEW gone, NEW cancel,
           Retires(gs, queue, gone, cancel), NoSession', thread.pc = "Done",
           IsInjective(queue), deferredSame' = <<>>, IsInjective(deferredStopped'),
           \A i, k \in DOMAIN planning' : planning'[i].job = planning'[k].job => i = k,
           ToSet(queue) \cap InStopped' = {},
           (ToSet(queue) \cup InStopped') \cap InPlanning' = {},
           (ToSet(queue) \cup InStopped' \cup InPlanning') \cap InWorker' = {},
           \A k \in ToSet(queue) \cup InStopped' \cup InPlanning' \cup InWorker' :
               fate'[k] = "Accepted",
           \A k \in Job : fate'[k] = "Accepted" =>
               k \in ToSet(queue) \cup InStopped' \cup InPlanning' \cup InWorker'
    PROVE  PlacesInv' /\ FateInv'
<1>1. InSame' = {} /\ IsInjective(deferredSame') BY NothingIn DEF InSame
<1>2. ~PublishPending' BY DEF NoSession, PublishPending
<1>3. CASE StartNextQueuedSession(gs, queue)
    <2>1. /\ queue # <<>> /\ queuedSessions' = Tail(queue)
          /\ control' = TRUE /\ live' = None
          /\ thread'.pc = "Planning" /\ thread'.plan = Head(queue)
        BY <1>3 DEF StartNextQueuedSession, StartTransfer, Quiet
    <2>2. /\ Head(queue) \in ToSet(queue)
          /\ IsInjective(Tail(queue)) /\ ToSet(Tail(queue)) = ToSet(queue) \ {Head(queue)}
        BY <2>1, LeavesFirst
    <2>3. InQueue' = ToSet(queue) \ {Head(queue)} /\ IsInjective(queuedSessions')
        BY <2>1, <2>2 DEF InQueue
    <2>4. PlacesInv' BY <1>1, <2>3 DEF PlacesInv
    <2>5. InWait' = (ToSet(queue) \ {Head(queue)}) \cup InStopped' \cup InPlanning' \cup InWorker'
        BY <1>1, <2>3 DEF InWait
    <2>6. Head(queue) \notin InWait' BY <2>2, <2>5
    <2>7. FateInv'
        <3>1. \A k \in InWait' : fate'[k] = "Accepted" BY <2>5
        <3>2. fate'[Head(queue)] = "Accepted" BY <2>2
        <3>3. \A k \in Job : fate'[k] = "Accepted" => k \in InWait' \/ Head(queue) = k
            BY <2>5
        <3>4. QED BY <1>2, <2>1, <2>6, <3>1, <3>2, <3>3 DEF FateInv
    <2>8. QED BY <2>4, <2>7
<1>4. CASE queue = <<>> /\ Idles(gs, queue, gone, cancel)
    <2>1. queuedSessions' = queue /\ control' = FALSE /\ live' = None /\ thread' = thread
        BY <1>4 DEF Idles, threadVars
    <2>2. InQueue' = ToSet(queue) BY <2>1 DEF InQueue
    <2>3. PlacesInv' BY <1>1, <2>1, <2>2 DEF PlacesInv
    <2>4. InWait' = ToSet(queue) \cup InStopped' \cup InPlanning' \cup InWorker'
        BY <1>1, <2>2 DEF InWait
    <2>5. FateInv' BY <1>2, <2>1, <2>4 DEF FateInv
    <2>6. QED BY <2>3, <2>5
<1>5. QED BY <1>3, <1>4 DEF Retires

\* What can be said of the window when none of the requests of the planner is
\* new and nothing waits for a plan.
LEMMA ItRetires ==
    ASSUME WindowInv, thread.pc = "Done", NEW gs, AllClosed(gs), NEW queue \in Seq(Job),
           NEW gone \in BOOLEAN, NEW cancel \in BOOLEAN,
           Retires(gs, queue, gone, cancel), NoSession', messages' \in Seq(Notice),
           fate' \in [Job -> Fate], dialog' \in Job \cup {None}, UNCHANGED home,
           IsInjective(queue), deferredSame' = <<>>, finalizing' = FALSE,
           deferredStopped' \in {<<>>, deferredStopped},
           UNCHANGED planning \/ planning' = <<>>,
           planner' \in {planner, [planner EXCEPT !.pc = "Aborting"]},
           planner' # planner => planner.pc = "Building",
           ToSet(queue) \subseteq InQueue \cup InSame,
           \A k \in ToSet(queue) \cup InStopped' \cup InPlanning' \cup InWorker' :
               fate[k] = "Accepted" => fate'[k] = "Accepted",
           \A k \in Job : fate'[k] = "Accepted" =>
               k \in ToSet(queue) \cup InStopped' \cup InPlanning' \cup InWorker'
    PROVE  WindowInv'
<1> USE DEF WindowInv
<1>1. SessionPart OBVIOUS
<1>2. /\ deferredStopped \in Seq(Job) /\ planning \in Seq(AppendRequest)
      /\ planner \in Worker /\ (planner.pc # "Idle" => planner.request \in AppendRequest)
      /\ closed \in BOOLEAN /\ closing \in BOOLEAN
      /\ home \in [Job -> Job \cup {None}]
    BY DEF SessionPart, Typed, RestTyped
<1>3. /\ planner' \in Worker /\ planner'.request = planner.request /\ (Busy' <=> Busy)
      /\ (planner'.pc # "Idle" => planner'.request \in AppendRequest)
    <2>1. CASE planner' = planner BY <1>2, <2>1 DEF Busy
    <2>2. CASE planner' = [planner EXCEPT !.pc = "Aborting"] /\ planner.pc = "Building"
        BY <1>2, <2>2 DEF Worker, Busy
    <2>3. QED BY <2>1, <2>2
<1>4. /\ planning' \in Seq(AppendRequest) /\ InPlanning' \subseteq InPlanning
      /\ \A i, k \in DOMAIN planning' : planning'[i].job = planning'[k].job => i = k
      /\ Requests' \subseteq Requests
    <2>1. CASE UNCHANGED planning
        BY <1>2, <1>3, <2>1 DEF InPlanning, PlacesInv, Requests
    <2>2. CASE planning' = <<>>
        <3>1. InPlanning' = {} BY <2>2, NothingIn DEF InPlanning
        <3>2. planning' \in Seq(AppendRequest) /\ DOMAIN planning' = {} BY <2>2
        <3>3. QED BY <1>3, <3>1, <3>2 DEF Requests
    <2>3. QED BY <2>1, <2>2
<1>5. /\ deferredStopped' \in Seq(Job) /\ IsInjective(deferredStopped')
      /\ InStopped' \subseteq InStopped
    <2>1. CASE deferredStopped' = deferredStopped BY <1>2, <2>1 DEF InStopped, PlacesInv
    <2>2. CASE deferredStopped' = <<>> BY <2>2, NothingIn DEF InStopped
    <2>3. QED BY <2>1, <2>2
<1>6. InWorker' = InWorker BY <1>3 DEF InWorker
<1>7. /\ queuedSessions' \in Seq(Job) /\ closed' \in BOOLEAN /\ closing' \in BOOLEAN
    <2>1. CASE StartNextQueuedSession(gs, queue)
        BY <1>2, <2>1, LeavesFirst DEF StartNextQueuedSession
    <2>2. CASE Idles(gs, queue, gone, cancel) BY <1>2, <2>2 DEF Idles
    <2>3. QED BY <2>1, <2>2 DEF Retires
<1>8. RestTyped' BY <1>2, <1>3, <1>4, <1>5, <1>7 DEF RestTyped
<1>9. Around BY <1>4, <1>8 DEF Around
<1>10. SessionPart' BY <1>9, RetiresKeeps DEF SessionPart
<1>11. /\ ToSet(queue) \cap InStopped' = {}
       /\ (ToSet(queue) \cup InStopped') \cap InPlanning' = {}
       /\ (ToSet(queue) \cup InStopped' \cup InPlanning') \cap InWorker' = {}
    BY <1>4, <1>5, <1>6 DEF PlacesInv
<1>12. \A k \in ToSet(queue) \cup InStopped' \cup InPlanning' \cup InWorker' :
           fate'[k] = "Accepted"
    BY <1>4, <1>5, <1>6 DEF FateInv, InWait
<1>13. PlacesInv' /\ FateInv' BY <1>4, <1>5, <1>11, <1>12, RetiresPlaces
<1>14. QED BY <1>10, <1>13

\* The rest of a finalizer.
LEMMA FinalizeSessionKeeps ==
    ASSUME WindowInv, FinalizeSession
    PROVE  WindowInv'
<1>1. /\ finalizing /\ finalizing' = FALSE
      /\ UNCHANGED <<plannerVars, jobVars, messages>>
    BY DEF FinalizeSession
<1>2. SessionPart BY DEF WindowInv
<1>3. interrupted \in {"Stopped", "Conflict"} /\ ~control /\ deferredSame = <<>>
    BY <1>1, <1>2 DEF SessionPart, SessionInv
<1>4. NoSession /\ thread.pc = "Done" BY <1>2, <1>3, InterruptedQuiet
<1>5. /\ fate \in [Job -> Fate] /\ dialog \in Job \cup {None} /\ closing \in BOOLEAN
      /\ closed \in BOOLEAN
    BY <1>2 DEF SessionPart, Typed, RestTyped
<1>6. fate' = fate /\ home' = home /\ planning' = planning /\ planner' = planner
    BY <1>1 DEF jobVars, plannerVars
<1>7. NoSession' /\ messages' \in Seq(Notice) BY <1>1, <1>2, <1>4, QuietStays
<1>8. CASE UNCHANGED <<windowVars, threadVars, gates>>
    <2>1. /\ UNCHANGED <<closed, deferVars, queuedSessions, interrupted, sessionVars,
                         plannerVars, home, gates, thread>>
          /\ dialog' = dialog /\ closing' = closing /\ pendingResume' = pendingResume
          /\ stopRequested' = stopRequested /\ directive' = directive
          /\ UNCHANGED <<messages, control, thread, live>>
        BY <1>1, <1>6, <1>8 DEF windowVars, surfaceVars, stateVars, sessionVars, threadVars
    <2>2. messages' \in Seq(Notice) /\ MessageInv' /\ (PublishPending' => PublishPending)
        BY <1>2, <2>1, MessagesSame
    <2>3. /\ pendingResume' \in {"No", "Stopped", Prompt, All} \cup Job
          /\ stopRequested' \in BOOLEAN /\ (stopRequested' => control)
          /\ directive' \in {"Run", "Stop", "Cancel"} /\ closing' \in BOOLEAN
        BY <1>2, <1>5, <2>1, SessionFacts
    <2>4. \A k \in Job : Begun(k) => Begun(k)' BY <1>6 DEF Begun
    <2>5. QED BY <1>1, <1>5, <1>6, <2>1, <2>2, <2>3, <2>4, NothingMoves
<1>9. CASE /\ Retires(Shut(gates, gate), queuedSessions, TRUE, cancelRequested)
           /\ dialog' = None /\ UNCHANGED <<deferVars, resumes>>
    <2>1. AllClosed(Shut(gates, gate)) BY <1>2, AllShut DEF SessionPart, AllClosed
    <2>2. /\ queuedSessions \in Seq(Job) /\ cancelRequested \in BOOLEAN
        BY <1>2, SessionFacts
    <2>3. IsInjective(queuedSessions) BY DEF WindowInv, PlacesInv
    <2>4. deferredSame' = <<>> /\ deferredStopped' = deferredStopped
        BY <1>3, <1>9 DEF deferVars
    <2>5. ToSet(queuedSessions) = InQueue BY DEF InQueue
    <2>6. InStopped' = InStopped /\ InPlanning' = InPlanning /\ InWorker' = InWorker
        BY <1>6, <2>4 DEF InStopped, InPlanning, InWorker, Busy
    <2>7. InSame = {} BY <1>3, NothingIn DEF InSame
    <2>8. \A k \in Job : fate'[k] = "Accepted" =>
              k \in ToSet(queuedSessions) \cup InStopped' \cup InPlanning' \cup InWorker'
        BY <1>3, <1>6, <2>5, <2>6, <2>7 DEF WindowInv, FateInv, InWait
    <2> DEFINE gs == Shut(gates, gate)
    <2>9. AllClosed(gs) /\ Retires(gs, queuedSessions, TRUE, cancelRequested) BY <1>9, <2>1
    <2> HIDE DEF gs
    <2>10. QED BY <1>1, <1>4, <1>5, <1>6, <1>7, <1>9, <2>2, <2>3, <2>4, <2>5, <2>8, <2>9, ItRetires
<1>10. QED BY <1>8, <1>9 DEF FinalizeSession

\* FinishCopy() of a result that ends the session.
LEMMA EndsKeeps ==
    ASSUME WindowInv, thread.pc = "Done", ~finalizing, finalizing' = finalizing, home' = home,
           NEW kind, NEW deferred \in Seq(Job), NEW queue \in Seq(Job), NEW f \in [Job -> Fate],
           Ends(kind, deferred, queue, f),
           IsInjective(deferred), IsInjective(queue), ToSet(deferred) \cap ToSet(queue) = {},
           ToSet(deferred) \cup ToSet(queue) = InQueue \cup InSame,
           \A k \in Job : f[k] = "Accepted" <=> fate[k] = "Accepted",
           kind # "Success" => control,
           kind = "Success" => \A k \in Job : f[k] = "Accepted" => k \in InWait,
           NoSession', messages' \in Seq(Notice)
    PROVE  WindowInv'
<1> DEFINE gs == Shut(gates, gate)
           both == deferred \o queue
<1>1. SessionPart BY DEF WindowInv
<1>2. AllClosed(gs) BY <1>1, AllShut DEF SessionPart, AllClosed
<1>3. /\ deferredSame' = <<>> /\ dialog' = dialog /\ planning' = planning /\ planner' = planner
      /\ finalizing' = FALSE
    BY <1>1, SessionFacts DEF Ends, plannerVars
<1>4. /\ dialog \in Job \cup {None} /\ cancelRequested \in BOOLEAN
    BY <1>1, SessionFacts DEF SessionPart, Typed, RestTyped
<1>5. /\ both \in Seq(Job) /\ ToSet(both) = InQueue \cup InSame /\ IsInjective(both)
    BY OneBehindTheOther
<1>6. /\ InPlanning' = InPlanning /\ InWorker' = InWorker
    BY <1>3 DEF InPlanning, InWorker, Busy
<1>7. \A k \in InWait : k \in Job /\ fate[k] = "Accepted"
    BY <1>1, WaitingAreJobs DEF WindowInv, FateInv, SessionPart
<1>8. "Dropped" \in Fate /\ "Refused" \in Fate BY DEF Fate
<1> HIDE DEF gs, both
<1>9. \A k \in Owned(f) : k \notin InWait \/ kind = "Success"
    <2>1. ASSUME NEW k \in Owned(f), kind # "Success", k \in InWait PROVE FALSE
        <3>1. k \in Job /\ f[k] = "Accepted" BY <1>7, <2>1
        <3>2. k = thread.plan BY <3>1, <2>1 DEF Owned, Unresolved, Among
        <3>3. QED BY <2>1, <3>2 DEF WindowInv, FateInv
    <2>2. QED BY <2>1
<1>10. \A k \in Job : f[k] = "Accepted" => k \in InWait \/ k \in Owned(f)
    <2>1. ASSUME NEW k \in Job, f[k] = "Accepted", k \notin InWait PROVE k \in Owned(f)
        <3>1. k = thread.plan BY <2>1 DEF WindowInv, FateInv
        <3>2. QED BY <2>1, <3>1 DEF Owned
    <2>2. QED BY <2>1
<1>11. CASE /\ kind = "Cancelled" /\ deferredStopped' = <<>>
            /\ fate' = Became(f, Owned(f) \cup ToSet(deferred) \cup ToSet(deferredStopped),
                              "Dropped")
            /\ Retires(gs, queue, TRUE, cancelRequested)
    <2> DEFINE S == Owned(f) \cup ToSet(deferred) \cup ToSet(deferredStopped)
    <2>1. /\ fate' \in [Job -> Fate]
          /\ \A k \in Job : fate'[k] = IF k \in S THEN "Dropped" ELSE f[k]
        BY <1>8, <1>11, BecameEffect
    <2>2. InStopped' = {} BY <1>11, NothingIn DEF InStopped
    <2>3. \A k \in ToSet(queue) \cup InPlanning \cup InWorker : k \in InWait /\ k \notin S
        BY <1>9, <1>11 DEF WindowInv, PlacesInv, InWait, InStopped
    <2>4. \A k \in InWait : k \in S \/ k \in ToSet(queue) \cup InPlanning \cup InWorker
        BY DEF InWait, InStopped
    <2> HIDE DEF S
    <2>5. \A k \in ToSet(queue) \cup InStopped' \cup InPlanning' \cup InWorker' :
              fate[k] = "Accepted" => fate'[k] = "Accepted"
        BY <1>6, <1>7, <2>1, <2>2, <2>3
    <2>6. \A k \in Job : fate'[k] = "Accepted" =>
              k \in ToSet(queue) \cup InStopped' \cup InPlanning' \cup InWorker'
        <3>1. Owned(f) \subseteq S BY DEF S
        <3>2. QED BY <1>6, <1>10, <2>1, <2>2, <2>4, <3>1
    <2>7. QED BY <1>2, <1>3, <1>4, <1>11, <2>1, <2>5, <2>6, ItRetires
<1>12. CASE /\ kind = "Failed" /\ UNCHANGED deferredStopped
            /\ fate' = Became(f, Owned(f), "Refused")
            /\ Retires(gs, both, FALSE, cancelRequested)
    <2>1. /\ fate' \in [Job -> Fate]
          /\ \A k \in Job : fate'[k] = IF k \in Owned(f) THEN "Refused" ELSE f[k]
        BY <1>8, <1>12, BecameEffect
    <2>2. InStopped' = InStopped BY <1>12 DEF InStopped
    <2>3. ToSet(both) \cup InStopped' \cup InPlanning' \cup InWorker' = InWait
        BY <1>5, <1>6, <2>2 DEF InWait
    <2>4. \A k \in InWait : fate'[k] = "Accepted" BY <1>7, <1>9, <1>12, <2>1
    <2>5. \A k \in Job : fate'[k] = "Accepted" => k \in InWait BY <1>10, <2>1
    <2>6. PICK gone \in BOOLEAN : Retires(gs, both, gone, cancelRequested) BY <1>12
    <2>7. fate' \in [Job -> Fate] /\ deferredStopped' = deferredStopped BY <1>12, <2>1
    <2>8. QED BY <1>2, <1>3, <1>4, <1>5, <2>3, <2>4, <2>5, <2>6, <2>7, ItRetires
<1>13. CASE /\ kind = "Success" /\ UNCHANGED deferredStopped
            /\ fate' = f
            /\ \E gone \in BOOLEAN : Retires(gs, both, gone, cancelRequested)
    <2>1. PICK gone \in BOOLEAN : Retires(gs, both, gone, cancelRequested) BY <1>13
    <2>2. InStopped' = InStopped BY <1>13 DEF InStopped
    <2>3. ToSet(both) \cup InStopped' \cup InPlanning' \cup InWorker' = InWait
        BY <1>5, <1>6, <2>2 DEF InWait
    <2>4. \A k \in InWait : fate'[k] = "Accepted" BY <1>7, <1>13
    <2>5. \A k \in Job : fate'[k] = "Accepted" => k \in InWait BY <1>13
    <2>6. QED BY <1>2, <1>3, <1>4, <1>5, <1>13, <2>1, <2>3, <2>4, <2>5, ItRetires
<1>14. QED BY <1>11, <1>12, <1>13 DEF Ends, gs, both

\* FinishCopy() of a result that interrupts it: the jobs that were deferred, or
\* none of them, go to the planner.
LEMMA InterruptsWindow ==
    ASSUME WindowInv, control, thread.pc = "Done", live # None, ~finalizing,
           NEW state \in {"Stopped", "Conflict", "Decision"}, NEW jobs \in Seq(Job),
           Interrupts(state, jobs), NoSession', messages' \in Seq(Notice),
           state = "Stopped" => ~cancelRequested,
           \/ jobs = deferredStopped /\ deferredStopped' = <<>>
           \/ /\ state = "Decision" /\ jobs = <<>> /\ deferredStopped' = deferredStopped,
           finalizing' \in BOOLEAN, finalizing' => state \in {"Stopped", "Conflict"},
           dialog' \in Job \cup {None}, UNCHANGED <<home, fate>>
    PROVE  WindowInv'
<1> DEFINE g == Len(gates) + 1
           reqs == RequestsOf(jobs, live, FALSE, g)
<1>1. SessionPart BY DEF WindowInv
<1>2. /\ interrupted' = state /\ control' = FALSE /\ live' = live /\ thread' = thread
      /\ deferredSame' = <<>> /\ closing' = closing /\ closed' = closed
      /\ queuedSessions' = queuedSessions /\ planner' = planner
      /\ planning' = planning \o reqs
    BY DEF Interrupts, Reserves, threadVars, RequestsOf
<1>3. fate' = fate /\ home' = home BY DEF jobVars
<1>4. /\ planning \in Seq(AppendRequest) /\ live \in Job /\ g \in Nat \ {0}
      /\ deferredSame = <<>> /\ live = thread.plan /\ deferredStopped \in Seq(Job)
    BY <1>1, SessionFacts DEF SessionPart, SessionInv
<1>5. /\ IsInjective(jobs) /\ InStopped = ToSet(jobs) \cup InStopped'
      /\ ToSet(jobs) \cap InStopped' = {}
      /\ deferredStopped' \in Seq(Job) /\ IsInjective(deferredStopped')
    <2>1. CASE jobs = deferredStopped /\ deferredStopped' = <<>>
        BY <2>1, NothingIn DEF WindowInv, PlacesInv, InStopped
    <2>2. CASE jobs = <<>> /\ deferredStopped' = deferredStopped
        BY <1>4, <2>2, NothingIn DEF WindowInv, PlacesInv, InStopped
    <2>3. QED BY <2>1, <2>2
<1>6. /\ reqs \in Seq(AppendRequest) /\ Jobs(reqs) = ToSet(jobs)
      /\ \A i, k \in DOMAIN reqs : reqs[i].job = reqs[k].job => i = k
    <2> HIDE DEF g
    <2>1. live \in Job /\ g \in Nat \ {0} /\ FALSE \in BOOLEAN BY <1>4
    <2>2. /\ RequestsOf(jobs, live, FALSE, g) \in Seq(AppendRequest)
          /\ Jobs(RequestsOf(jobs, live, FALSE, g)) = ToSet(jobs)
          /\ \A i, k \in DOMAIN RequestsOf(jobs, live, FALSE, g) :
                 RequestsOf(jobs, live, FALSE, g)[i].job = RequestsOf(jobs, live, FALSE, g)[k].job
                     => i = k
        BY <1>5, <2>1, RequestsFor
    <2>3. QED BY <2>2
<1> HIDE DEF reqs, g
<1>7. /\ planning' \in Seq(AppendRequest) /\ InPlanning' = InPlanning \cup ToSet(jobs)
      /\ \A i, k \in DOMAIN planning' : planning'[i].job = planning'[k].job => i = k
    <2>1. \A i, k \in DOMAIN planning : planning[i].job = planning[k].job => i = k
        BY DEF WindowInv, PlacesInv
    <2>2. Jobs(planning) \cap Jobs(reqs) = {}
        BY <1>5, <1>6 DEF WindowInv, PlacesInv, InPlanning
    <2>3. /\ planning \o reqs \in Seq(AppendRequest)
          /\ Jobs(planning \o reqs) = Jobs(planning) \cup Jobs(reqs)
          /\ \A i, k \in DOMAIN (planning \o reqs) :
                 (planning \o reqs)[i].job = (planning \o reqs)[k].job => i = k
        BY <1>4, <1>6, <2>1, <2>2, RequestsBehind
    <2>4. QED BY <1>2, <1>6, <2>3 DEF InPlanning
<1>8. /\ InQueue' = InQueue /\ InWorker' = InWorker /\ InSame' = {} /\ InSame = {}
      /\ IsInjective(deferredSame')
    BY <1>2, <1>4, NothingIn DEF InQueue, InWorker, InSame, Busy
<1>9. RestTyped' BY <1>1, <1>2, <1>3, <1>5, <1>7 DEF SessionPart, Typed, RestTyped
<1>10. SessionPart'
    <2>1. state \in {"Stopped", "Conflict"} => deferredStopped' = <<>> OBVIOUS
    <2>2. QED BY <1>1, <1>9, <2>1, InterruptsKeeps
<1>11. PlacesInv' BY <1>2, <1>5, <1>7, <1>8 DEF WindowInv, PlacesInv
<1>12. FateInv'
    <2>1. InWait' = InWait BY <1>5, <1>7, <1>8 DEF InWait
    <2>2. ~PublishPending' BY DEF NoSession, PublishPending
    <2>3. Begun(live) BY DEF WindowInv, FateInv
    <2>4. \A k \in InWait : fate[k] = "Accepted" BY DEF WindowInv, FateInv
    <2>5. \A k \in Job : fate[k] = "Accepted" => k \in InWait
        BY <1>4, <2>3 DEF WindowInv, FateInv, Begun
    <2>6. Begun(live)' BY <1>2, <1>3, <2>3 DEF Begun
    <2>7. QED BY <1>2, <1>3, <2>1, <2>2, <2>4, <2>5, <2>6 DEF FateInv
<1>13. QED BY <1>10, <1>11, <1>12 DEF WindowInv

\* The message that a thread leaves is the last word of its session.
LEMMA FinishRead ==
    ASSUME SessionPart, messages # <<>>, messages' = Tail(messages),
           Head(messages).kind = "Finish"
    PROVE  /\ control /\ thread.pc = "Done" /\ NoSession' /\ messages' \in Seq(Notice)
           /\ Head(messages).result \in ResultType
           /\ Substantive(Head(messages).result) => live # None
<1>1. /\ messages' \in Seq(Notice) /\ Head(messages) = messages[1] /\ 1 \in DOMAIN messages
      /\ Head(messages) \in Notice
      /\ \A i \in DOMAIN messages' :
             i \in Nat /\ i >= 1 /\ i + 1 \in DOMAIN messages /\ messages'[i] = messages[i + 1]
      /\ \A i \in DOMAIN messages : i \in Nat /\ (i = 1 \/ i > 1)
    BY MessagesLeft
<1>2. /\ control /\ thread.pc = "Done"
      /\ \A k \in DOMAIN messages : k > 1 => messages[k].kind \notin {"Publish", "Finish"}
      /\ Substantive(messages[1].result) => live # None \/ PublishPending
    BY <1>1 DEF SessionPart, MessageInv
<1>3. ~PublishPending
    <2>1. ASSUME NEW i \in DOMAIN messages PROVE messages[i].kind # "Publish"
        BY <1>1, <1>2
    <2>2. QED BY <2>1 DEF PublishPending
<1>4. NoSession'
    <2>1. ASSUME NEW i \in DOMAIN messages' PROVE messages'[i].kind \notin {"Publish", "Finish"}
        <3>1. i + 1 \in DOMAIN messages /\ i + 1 > 1 /\ messages'[i] = messages[i + 1] BY <1>1
        <3>2. QED BY <1>2, <3>1
    <2>2. QED BY <2>1 DEF NoSession
<1>5. Head(messages).result \in ResultType BY <1>1 DEF Notice
<1>6. QED BY <1>1, <1>2, <1>3, <1>4, <1>5

\* FinishCopy() in all its cases.
LEMMA FinishesKeeps ==
    ASSUME WindowInv, Finishes
    PROVE  WindowInv'
<1> DEFINE result == Head(messages).result
<1>1. /\ messages # <<>> /\ messages' = Tail(messages) /\ Head(messages).kind = "Finish"
      /\ ~finalizing /\ home' = home
    BY DEF Finishes, Message, UiFree
<1>2. SessionPart BY DEF WindowInv
<1>3. /\ control /\ thread.pc = "Done" /\ NoSession' /\ messages' \in Seq(Notice)
      /\ result \in ResultType /\ (Substantive(result) => live # None)
    BY <1>1, <1>2, FinishRead
<1>4. PICK deferred, queue :
          /\ FinishCopy(result, deferred, queue)
          /\ \/ deferred = <<>> /\ queue = deferredSame \o queuedSessions
             \/ deferred = deferredSame /\ queue = queuedSessions
    BY DEF Finishes
<1> HIDE DEF result
<1>5. /\ deferredSame \in Seq(Job) /\ queuedSessions \in Seq(Job)
      /\ deferredStopped \in Seq(Job) /\ fate \in [Job -> Fate]
      /\ dialog \in Job \cup {None} /\ finalizing \in BOOLEAN
      /\ (deferredSame # <<>> => live = None) /\ result.conflict \in Job \cup {None}
    BY <1>2, <1>3, SessionFacts DEF SessionPart, Typed, RestTyped, ResultType
<1>6. /\ deferred \in Seq(Job) /\ queue \in Seq(Job)
      /\ IsInjective(deferred) /\ IsInjective(queue) /\ ToSet(deferred) \cap ToSet(queue) = {}
      /\ ToSet(deferred) \cup ToSet(queue) = InQueue \cup InSame
    <2>1. /\ IsInjective(deferredSame) /\ IsInjective(queuedSessions)
          /\ ToSet(deferredSame) \cap ToSet(queuedSessions) = {}
        BY DEF WindowInv, PlacesInv, InSame, InQueue
    <2>2. CASE deferred = <<>> /\ queue = deferredSame \o queuedSessions
        BY <1>5, <2>1, <2>2, NothingIn, OneBehindTheOther DEF InQueue, InSame
    <2>3. CASE deferred = deferredSame /\ queue = queuedSessions
        BY <1>5, <2>1, <2>3 DEF InQueue, InSame
    <2>4. QED BY <1>4, <2>2, <2>3
<1>7. CASE /\ Stops(result) /\ Interrupts("Stopped", deferredStopped)
           /\ deferredStopped' = <<>>
           /\ finalizing' = (Unresolved(fate, live) = {})
           /\ UNCHANGED <<dialog, fate, astray>>
    <2>1. live # None /\ ~cancelRequested BY <1>3, <1>7 DEF Stops, Substantive
    <2>2. finalizing' \in BOOLEAN BY <1>7
    <2>3. dialog' \in Job \cup {None} /\ UNCHANGED <<home, fate>> BY <1>1, <1>5, <1>7 DEF jobVars
    <2>4. QED BY <1>1, <1>3, <1>5, <1>7, <2>1, <2>2, <2>3, InterruptsWindow
<1>8. CASE /\ result.conflict # None /\ live # None
           /\ Interrupts("Conflict", deferred \o deferredStopped)
           /\ deferredStopped' = <<>>
           /\ dialog' = IF closing THEN None ELSE result.conflict
           /\ UNCHANGED <<fate, astray, finalizing>>
    <2>1. deferred = <<>> BY <1>4, <1>5, <1>8
    <2>2. deferred \o deferredStopped = deferredStopped BY <1>5, <2>1
    <2>3. dialog' \in Job \cup {None} /\ UNCHANGED <<home, fate>> BY <1>1, <1>5, <1>8 DEF jobVars
    <2>4. finalizing' \in BOOLEAN /\ ~finalizing' BY <1>1, <1>5, <1>8
    <2>5. Interrupts("Conflict", deferredStopped) BY <1>8, <2>2
    <2>6. QED BY <1>1, <1>3, <1>5, <1>8, <2>3, <2>4, <2>5, InterruptsWindow
<1>9. CASE /\ live # None
           /\ Interrupts("Decision", <<>>)
           /\ UNCHANGED <<dialog, deferredStopped, fate, astray, finalizing>>
    <2>1. dialog' \in Job \cup {None} /\ UNCHANGED <<home, fate>> BY <1>1, <1>5, <1>9 DEF jobVars
    <2>2. finalizing' \in BOOLEAN /\ ~finalizing' BY <1>1, <1>5, <1>9
    <2>3. <<>> \in Seq(Job) OBVIOUS
    <2>4. QED BY <1>1, <1>3, <1>9, <2>1, <2>2, <2>3, InterruptsWindow
<1>10. CASE /\ Ends(IF result.kind = "Stopped" THEN "Cancelled" ELSE result.kind,
                    deferred, queue, fate)
            /\ UNCHANGED finalizing
    <2> DEFINE kind == IF result.kind = "Stopped" THEN "Cancelled" ELSE result.kind
    <2>1. Ends(kind, deferred, queue, fate) BY <1>10
    <2>2. kind = "Success" => \A k \in Job : fate[k] = "Accepted" => k \in InWait
        <3>1. ASSUME kind = "Success", NEW k \in Job, fate[k] = "Accepted" PROVE k \in InWait
            <4>1. live # None BY <1>3, <3>1 DEF Substantive
            <4>2. live = thread.plan BY <1>2, <1>3, <4>1 DEF SessionPart, SessionInv
            <4>3. Begun(thread.plan) BY <4>1, <4>2 DEF WindowInv, FateInv
            <4>4. QED BY <3>1, <4>3 DEF WindowInv, FateInv, Begun
        <3>2. QED BY <3>1
    <2> HIDE DEF kind
    <2>3. QED BY <1>1, <1>3, <1>5, <1>6, <1>10, <2>1, <2>2, EndsKeeps
<1>11. QED BY <1>4, <1>7, <1>8, <1>9, <1>10 DEF FinishCopy

\* The answers to what is parked.
LEMMA AnswerDecisionKeeps ==
    ASSUME WindowInv, AnswerDecision
    PROVE  WindowInv'
<1> DEFINE parked == Among(fate, live, {"Parked"})
           settled == Became(fate, parked, "Done")
           pending == Became(fate, parked, "Pending")
<1>1. /\ ~finalizing /\ interrupted = "Decision" /\ finalizing' = finalizing
      /\ home' = home /\ messages' = messages
    BY DEF AnswerDecision, UiFree
<1>2. SessionPart BY DEF WindowInv
<1>3. ~control /\ deferredSame = <<>> BY <1>1, <1>2 DEF SessionPart, SessionInv
<1>4. thread.pc = "Done" /\ NoSession' /\ messages' \in Seq(Notice)
    BY <1>1, <1>2, <1>3, InterruptedQuiet, QuietStays
<1>5. /\ fate \in [Job -> Fate] /\ dialog \in Job \cup {None} /\ closing \in BOOLEAN
      /\ closed \in BOOLEAN /\ queuedSessions \in Seq(Job) /\ deferredSame \in Seq(Job)
    BY <1>2 DEF SessionPart, Typed, RestTyped
<1>6. \A k \in parked : fate[k] = "Parked" BY DEF Among
<1>7. /\ settled \in [Job -> Fate] /\ pending \in [Job -> Fate]
      /\ \A k \in Job : /\ settled[k] = IF k \in parked THEN "Done" ELSE fate[k]
                        /\ pending[k] = IF k \in parked THEN "Pending" ELSE fate[k]
    <2>1. "Done" \in Fate /\ "Pending" \in Fate BY DEF Fate
    <2>2. QED BY <1>5, <2>1, BecameEffect
<1> HIDE DEF settled, pending, parked
<1>8. CASE /\ fate' \in {settled, pending} /\ Executes(Prompt)
           /\ UNCHANGED <<dialog, closing, closed, deferVars, queuedSessions, plannerVars,
                          gates>>
    <2>1. /\ fate' \in [Job -> Fate]
          /\ \A k \in Job : /\ fate'[k] = "Accepted" => fate[k] = "Accepted"
                            /\ fate[k] = "Accepted" => fate'[k] = "Accepted"
                            /\ Begun(k) => Begun(k)'
        BY <1>6, <1>7, <1>8 DEF Begun
    <2>2. /\ dialog' \in Job \cup {None} /\ closing' \in BOOLEAN /\ closed' \in BOOLEAN
          /\ UNCHANGED <<deferVars, queuedSessions, plannerVars, home, gates, finalizing>>
        BY <1>1, <1>5, <1>8
    <2>3. Prompt \in {Prompt, All} \cup Job /\ interrupted # "None" BY <1>1
    <2>4. QED BY <1>1, <1>4, <1>8, <2>1, <2>2, <2>3, ExecutesWindow
<1>9. CASE Ends("Success", deferredSame, queuedSessions, settled)
    <2>1. \A k \in Job : settled[k] = "Accepted" <=> fate[k] = "Accepted" BY <1>6, <1>7
    <2>2. \A k \in Job : settled[k] = "Accepted" => k \in InWait
        BY <1>3, <2>1 DEF WindowInv, FateInv
    <2>3. /\ IsInjective(deferredSame) /\ IsInjective(queuedSessions)
          /\ ToSet(deferredSame) \cap ToSet(queuedSessions) = {}
          /\ ToSet(deferredSame) \cup ToSet(queuedSessions) = InQueue \cup InSame
        BY DEF WindowInv, PlacesInv, InSame, InQueue
    <2>4. QED BY <1>1, <1>4, <1>5, <1>7, <1>9, <2>1, <2>2, <2>3, EndsKeeps
<1>10. \/ fate' \in {settled, pending} /\ Executes(Prompt)
              /\ UNCHANGED <<dialog, closing, closed, deferVars, queuedSessions, plannerVars,
                             gates>>
       \/ Ends("Success", deferredSame, queuedSessions, settled)
    BY DEF AnswerDecision, settled, pending, parked
<1>11. QED BY <1>8, <1>9, <1>10

\* A cancel shuts the gate, and drops what was waiting to go through it.
LEMMA CancelKeeps ==
    ASSUME WindowInv, ~finalizing, NEW queue \in Seq(Job), NEW f \in [Job -> Fate],
           NEW closes \in BOOLEAN, CancelCurrentSession(queue, f, closes),
           IsInjective(queue), ToSet(queue) \subseteq InQueue,
           \A k \in Job : f[k] = IF k \in InQueue /\ k \notin ToSet(queue)
                                 THEN "Dropped" ELSE fate[k],
           messages' = messages
    PROVE  WindowInv'
<1> DEFINE gs == Shut(ReleaseAll(gates, planning), gate)
           dropped == ToSet(deferredSame) \cup ToSet(deferredStopped) \cup Jobs(planning)
                          \cup {j \in Job : f[j] = "Asked"}
<1>1. SessionPart BY DEF WindowInv
<1>2. /\ dialog' = None /\ deferredSame' = <<>> /\ deferredStopped' = <<>> /\ planning' = <<>>
      /\ planner' = IF planner.pc = "Building" THEN [planner EXCEPT !.pc = "Aborting"]
                    ELSE planner
      /\ home' = home /\ finalizing' = finalizing
    BY DEF CancelCurrentSession
<1>3. /\ gates \in Seq(Gate) /\ DOMAIN gates = 1..Len(gates) /\ Len(gates) \in Nat
      /\ gate \in 0..Len(gates) /\ planning \in Seq(AppendRequest) /\ finalizing \in BOOLEAN
    BY <1>1, SessionFacts
<1>4. AllClosed(gs)
    <2> DEFINE rs == ReleaseAll(gates, planning)
    <2>1. /\ rs \in Seq(Gate) /\ Len(rs) = Len(gates)
          /\ \A h \in 1..Len(gates) : rs[h].accepting <=> gates[h].accepting
        BY <1>3, ReleaseAllEffect
    <2> HIDE DEF rs
    <2>2. gate \in 0..Len(rs) BY <1>3, <2>1
    <2>3. /\ Shut(rs, gate) \in Seq(Gate) /\ Len(Shut(rs, gate)) = Len(rs)
          /\ \A h \in 1..Len(rs) : Shut(rs, gate)[h].accepting <=> rs[h].accepting /\ h # gate
        BY <2>1, <2>2, ShutEffect
    <2>4. \A h \in 1..Len(gates) : gates[h].accepting => h = gate
        BY <1>1, <1>3 DEF SessionPart, GateInv, OpenGateHasOwner
    <2>5. \A h \in 1..Len(gates) : ~Shut(rs, gate)[h].accepting BY <2>1, <2>3, <2>4
    <2>6. gs = Shut(rs, gate) BY DEF rs
    <2> HIDE DEF gs
    <2>7. QED BY <2>1, <2>3, <2>5, <2>6 DEF AllClosed
<1>5. /\ planner \in Worker /\ (planner.pc # "Idle" => planner.request \in AppendRequest)
      /\ fate \in [Job -> Fate] /\ home \in [Job -> Job \cup {None}]
      /\ closing \in BOOLEAN /\ closed \in BOOLEAN
    BY <1>1 DEF SessionPart, Typed, RestTyped
<1>6. /\ planner' \in Worker /\ planner'.request = planner.request /\ (Busy' <=> Busy)
      /\ (planner'.pc # "Idle" => planner'.request \in AppendRequest)
      /\ planner' \in {planner, [planner EXCEPT !.pc = "Aborting"]}
      /\ (planner' # planner => planner.pc = "Building")
    <2>1. CASE planner.pc = "Building" BY <1>2, <1>5, <2>1 DEF Worker, Busy
    <2>2. CASE planner.pc # "Building" BY <1>2, <1>5, <2>2 DEF Busy
    <2>3. QED BY <2>1, <2>2
<1>7. /\ InSame' = {} /\ InStopped' = {} /\ InPlanning' = {} /\ InWorker' = InWorker
      /\ IsInjective(deferredSame') /\ IsInjective(deferredStopped')
    BY <1>2, <1>6, NothingIn DEF InSame, InStopped, InPlanning, InWorker
<1>8. \A k \in InWait : k \in Job /\ fate[k] = "Accepted"
    BY <1>1, WaitingAreJobs DEF WindowInv, FateInv, SessionPart
<1>9. "Dropped" \in Fate BY DEF Fate
<1>10. dropped = InSame \cup InStopped \cup InPlanning \cup {j \in Job : f[j] = "Asked"}
    BY DEF InSame, InStopped, InPlanning
<1> HIDE DEF gs, dropped
<1>11. \A k \in ToSet(queue) \cup InWorker :
           k \in Job /\ fate[k] = "Accepted" /\ f[k] = "Accepted" /\ k \notin dropped
    <2>1. \A k \in ToSet(queue) \cup InWorker :
              /\ k \in InWait /\ k \notin InSame \cup InStopped \cup InPlanning
              /\ k \in ToSet(queue) \/ k \notin InQueue
        BY DEF WindowInv, PlacesInv, InWait
    <2>2. QED BY <1>8, <1>10, <2>1
<1>12. \A k \in Job : f[k] = "Accepted" /\ k \notin dropped =>
           k \in ToSet(queue) \cup InWorker \/ (control /\ thread.plan = k)
    BY <1>10 DEF WindowInv, FateInv, InWait
<1>13. CASE /\ control
            /\ pendingResume' = "No" /\ cancelRequested' = TRUE
            /\ directive' = After("Cancel", directive)
            /\ gates' = gs
            /\ queuedSessions' = queue
            /\ fate' = Became(f, dropped, "Dropped")
            /\ closing' = (closing \/ closes)
            /\ UNCHANGED <<interrupted, stopRequested, control, gate, live, thread, closed>>
    <2>1. /\ fate' \in [Job -> Fate]
          /\ \A k \in Job : fate'[k] = IF k \in dropped THEN "Dropped" ELSE f[k]
        BY <1>9, <1>13, BecameEffect
    <2>2. /\ gates' \in Seq(Gate) /\ Len(gates') = Len(gates)
          /\ \A h \in 1..Len(gates) : ~gates'[h].accepting
          /\ DOMAIN gates' = 1..Len(gates)
        BY <1>3, <1>4, <1>13 DEF AllClosed
    <2>3. RestTyped'
        <3>1. planning' \in Seq(AppendRequest) /\ deferredStopped' \in Seq(Job) BY <1>2
        <3>2. messages \in Seq(Notice) BY <1>1, SessionFacts
        <3>3. closing' \in BOOLEAN BY <1>5, <1>13
        <3>4. QED BY <1>2, <1>5, <1>6, <1>13, <2>1, <3>1, <3>2, <3>3 DEF RestTyped
    <2>4. Typed'
        <3>1. /\ deferredSame' \in Seq(Job) /\ thread' \in Copier
              /\ interrupted' \in {"None", "Stopped", "Conflict", "Decision"}
              /\ stopRequested' \in BOOLEAN /\ control' \in BOOLEAN
              /\ live' \in Job \cup {None}
            BY <1>1, <1>2, <1>13 DEF SessionPart, Typed, TypeOK
        <3>2. gate' \in 0..Len(gates') /\ finalizing' \in BOOLEAN BY <1>2, <1>3, <1>13, <2>2
        <3>3. directive' \in {"Run", "Stop", "Cancel"} BY <1>13 DEF After
        <3>4. QED BY <1>2, <1>13, <2>2, <2>3, <3>1, <3>2, <3>3, TypesAfter
    <2>5. interrupted = "None" BY <1>1, <1>13 DEF SessionPart, SessionInv
    <2>6. SessionInv'
        BY <1>1, <1>2, <1>13, <2>5 DEF SessionPart, SessionInv, CancelOverStop, Before
    <2>7. Requests' \subseteq Requests
        <3>1. DOMAIN planning' = {} BY <1>2
        <3>2. QED BY <1>6, <3>1 DEF Requests
    <2>8. gate \in 1..Len(gates) BY <1>1, <1>3, <1>13 DEF SessionPart, SessionInv
    <2>9. GateInv'
        <3>1. OpenGateHasOwner' BY <2>2 DEF OpenGateHasOwner
        <3>2. \A r \in Requests' : r.gate <= Len(gates') /\ ~gates'[r.gate].accepting
            <4>1. \A r \in Requests : r.gate \in 1..Len(gates)
                BY <1>1, RequestGates DEF SessionPart
            <4>2. QED BY <1>3, <2>2, <2>7, <4>1
        <3>3. gate' = gate /\ cancelRequested' = TRUE /\ ~gates'[gate].accepting
            BY <1>13, <2>2, <2>8
        <3>4. QED BY <3>1, <3>2, <3>3 DEF GateInv
    <2>10. Counted' BY <1>13, <2>2, <2>8 DEF Counted
    <2>11. MessageInv' BY <1>1, <1>13, MessagesStay DEF SessionPart
    <2>12. InQueue' = ToSet(queue) BY <1>13 DEF InQueue
    <2>13. PlacesInv'
        <3>1. DOMAIN planning' = {} BY <1>2
        <3>2. ToSet(queue) \cap InWorker = {} BY DEF WindowInv, PlacesInv
        <3>3. QED BY <1>7, <1>13, <2>12, <3>1, <3>2 DEF PlacesInv
    <2>14. InWait' = ToSet(queue) \cup InWorker BY <1>7, <2>12 DEF InWait
    <2>15. FateInv'
        <3>1. \A k \in InWait' : fate'[k] = "Accepted" BY <1>11, <2>1, <2>14
        <3>2. \A k \in Job : fate'[k] = "Accepted" =>
                  k \in InWait' \/ (control' /\ thread'.plan = k)
            BY <1>12, <1>13, <2>1, <2>14
        <3>3. control' => thread'.plan \notin InWait'
            <4>1. thread.plan \notin InWait BY <1>13 DEF WindowInv, FateInv
            <4>2. InWait' \subseteq InWait BY <2>14 DEF InWait
            <4>3. QED BY <1>13, <4>1, <4>2
        <3>4. \A k \in Job : Begun(k) => Begun(k)' BY <1>10, <2>1 DEF Begun
        <3>5. /\ live \in Job \cup {None} /\ thread.plan \in Job
            BY <1>1, <1>13, SessionFacts DEF SessionPart, SessionInv
        <3>6. live # None => fate'[live] \notin {"Outside", "Asked", "Accepted"}
            BY <3>4, <3>5 DEF WindowInv, FateInv, Begun
        <3>7. thread.pc \notin {"Done", "Planning"} \/ PublishPending
                  => fate'[thread.plan] \notin {"Outside", "Asked", "Accepted"}
            BY <3>4, <3>5 DEF WindowInv, FateInv, Begun
        <3>8. fate'[thread.plan] \notin {"Outside", "Asked"}
            <4>1. fate[thread.plan] \notin {"Outside", "Asked"}
                BY <1>13 DEF WindowInv, FateInv
            <4>2. QED BY <2>1, <3>5, <4>1
        <3>9. PublishPending' <=> PublishPending BY DEF PublishPending
        <3>10. live' = live /\ thread' = thread BY <1>13
        <3>11. QED BY <3>1, <3>2, <3>3, <3>6, <3>7, <3>8, <3>9, <3>10 DEF FateInv, Begun
    <2>16. QED BY <2>4, <2>6, <2>9, <2>10, <2>11, <2>13, <2>15 DEF WindowInv, SessionPart
<1>14. CASE /\ ~control
            /\ fate' = Became(f, dropped \cup Unresolved(f, live), "Dropped")
            /\ Retires(gs, queue, TRUE, TRUE)
    <2>1. /\ fate' \in [Job -> Fate]
          /\ \A k \in Job : fate'[k] = IF k \in dropped \cup Unresolved(f, live)
                                       THEN "Dropped" ELSE f[k]
        BY <1>9, <1>14, BecameEffect
    <2>2. thread.pc = "Done" /\ NoSession' /\ messages' \in Seq(Notice)
        BY <1>1, <1>14, InterruptedQuiet, QuietStays
    <2>3. \A k \in Unresolved(f, live) : f[k] # "Accepted" BY DEF Unresolved, Among
    <2>4. \A k \in ToSet(queue) \cup InStopped' \cup InPlanning' \cup InWorker' :
              fate'[k] = "Accepted"
        BY <1>7, <1>11, <2>1, <2>3
    <2>5. \A k \in Job : fate'[k] = "Accepted" =>
              k \in ToSet(queue) \cup InStopped' \cup InPlanning' \cup InWorker'
        BY <1>7, <1>12, <1>14, <2>1
    <2>6. fate' \in [Job -> Fate] /\ finalizing' = FALSE BY <1>2, <1>3, <2>1
    <2>7. PICK gone \in BOOLEAN, cancel \in BOOLEAN : Retires(gs, queue, gone, cancel) BY <1>14
    <2>8. QED BY <1>2, <1>4, <1>6, <2>2, <2>4, <2>5, <2>6, <2>7, ItRetires
<1>15. QED BY <1>13, <1>14 DEF CancelCurrentSession, gs, dropped

\* The Cancel button.
LEMMA OnCancelClickKeeps ==
    ASSUME WindowInv, OnCancelClick
    PROVE  WindowInv'
<1>1. /\ ~finalizing /\ CancelCurrentSession(queuedSessions, fate, FALSE)
      /\ messages' = messages
    BY DEF OnCancelClick, UiFree
<1>2. queuedSessions \in Seq(Job) /\ fate \in [Job -> Fate]
    BY DEF WindowInv, SessionPart, Typed, RestTyped
<1>3. IsInjective(queuedSessions) /\ ToSet(queuedSessions) = InQueue
    BY DEF WindowInv, PlacesInv, InQueue
<1>4. FALSE \in BOOLEAN OBVIOUS
<1>5. QED BY <1>1, <1>2, <1>3, <1>4, CancelKeeps

\* The window is closed while it works.
LEMMA CancelAndCloseKeeps ==
    ASSUME WindowInv, CancelAndCloseWindow
    PROVE  WindowInv'
<1> DEFINE f == Became(fate, ToSet(queuedSessions), "Dropped")
<1>1. /\ ~finalizing /\ CancelCurrentSession(<<>>, f, TRUE) /\ messages' = messages
    BY DEF CancelAndCloseWindow, UiFree
<1>2. fate \in [Job -> Fate] BY DEF WindowInv, SessionPart, Typed, RestTyped
<1>3. /\ f \in [Job -> Fate]
      /\ \A k \in Job : f[k] = IF k \in InQueue THEN "Dropped" ELSE fate[k]
    <2>1. "Dropped" \in Fate BY DEF Fate
    <2>2. QED BY <1>2, <2>1, BecameEffect DEF InQueue
<1>4. <<>> \in Seq(Job) /\ IsInjective(<<>>) /\ ToSet(<<>>) = {} BY NothingIn
<1> HIDE DEF f
<1>5. TRUE \in BOOLEAN OBVIOUS
<1>6. QED BY <1>1, <1>3, <1>4, <1>5, CancelKeeps

\* The answers to a conflict.
LEMMA AnswerConflictKeeps ==
    ASSUME WindowInv, AnswerConflict
    PROVE  WindowInv'
<1>1. /\ ~finalizing /\ interrupted = "Conflict" /\ dialog # None /\ messages' = messages
    BY DEF AnswerConflict, UiFree
<1>2. /\ fate \in [Job -> Fate] /\ dialog \in Job
    BY <1>1 DEF WindowInv, SessionPart, Typed, RestTyped
<1>3. CASE \E policy \in {All, dialog} :
              /\ dialog' = None
              /\ Resume(policy, fate)
              /\ UNCHANGED <<closing, closed, deferVars, queuedSessions, plannerVars,
                             jobVars, gates>>
    <2>1. PICK policy \in {All, dialog} : Resume(policy, fate) BY <1>3
    <2>2. policy \in {"Stopped", Prompt, All} \cup Job BY <1>2
    <2>3. /\ UNCHANGED <<deferVars, queuedSessions, plannerVars, home, gates>>
          /\ fate' = fate /\ dialog' = None /\ closing' = closing /\ closed' = closed
        BY <1>3 DEF jobVars
    <2>4. \A k \in Job : Begun(k) => Begun(k)' BY <2>3 DEF Begun
    <2>5. QED BY <1>1, <1>2, <2>1, <2>2, <2>3, <2>4, ResumeKeeps
<1>4. CASE /\ fate[dialog] = "Pending"
           /\ dialog' = None
           /\ fate' = [fate EXCEPT ![dialog] = "Removed"]
           /\ Resume(Prompt, fate')
           /\ UNCHANGED <<closing, closed, deferVars, queuedSessions, plannerVars, home,
                          gates>>
    <2>1. /\ fate' \in [Job -> Fate]
          /\ \A k \in Job : fate'[k] = IF k = dialog THEN "Removed" ELSE fate[k]
        BY <1>2, <1>4 DEF Fate
    <2>2. \A k \in Job : /\ fate'[k] = "Accepted" => fate[k] = "Accepted"
                         /\ fate[k] = "Accepted" => fate'[k] = "Accepted"
                         /\ Begun(k) => Begun(k)'
        BY <1>4, <2>1 DEF Begun
    <2>3. PICK f : Resume(Prompt, f) BY <1>4
    <2>4. Prompt \in {"Stopped", Prompt, All} \cup Job OBVIOUS
    <2>5. /\ dialog' \in Job \cup {None} /\ closing' = closing /\ closed' = closed
          /\ UNCHANGED <<deferVars, queuedSessions, plannerVars, home, gates>>
          /\ interrupted \in {"Stopped", "Conflict"} /\ fate' \in [Job -> Fate]
        BY <1>1, <1>4, <2>1
    <2>6. QED BY <1>1, <2>2, <2>3, <2>4, <2>5, ResumeKeeps
<1>5. CASE CancelCurrentSession(queuedSessions, fate, FALSE)
    <2>1. queuedSessions \in Seq(Job) BY DEF WindowInv, SessionPart, Typed, RestTyped
    <2>2. IsInjective(queuedSessions) /\ ToSet(queuedSessions) = InQueue
        BY DEF WindowInv, PlacesInv, InQueue
    <2>3. FALSE \in BOOLEAN OBVIOUS
    <2>4. QED BY <1>1, <1>2, <1>5, <2>1, <2>2, <2>3, CancelKeeps
<1>6. QED BY <1>3, <1>4, <1>5 DEF AnswerConflict

-----------------------------------------------------------------------------
(***************************************************************************)
(* The plan is published.                                                  *)
(***************************************************************************)
\* The announcement of a plan is the first word of its session.
LEMMA PublishRead ==
    ASSUME SessionPart, messages # <<>>, messages' = Tail(messages),
           Head(messages).kind = "Publish"
    PROVE  /\ control /\ live = None /\ Head(messages).plan = thread.plan
           /\ thread.pc \in Ran \cup {"Done"} /\ PublishPending
           /\ messages' \in Seq(Notice) /\ ~PublishPending'
           /\ \A i \in DOMAIN messages' : messages'[i].kind = "Finish" =>
                 /\ thread.pc = "Done"
                 /\ \A k \in DOMAIN messages' :
                        k > i => messages'[k].kind \notin {"Publish", "Finish"}
<1>1. /\ messages' \in Seq(Notice) /\ Head(messages) = messages[1] /\ 1 \in DOMAIN messages
      /\ \A i \in DOMAIN messages' :
             i \in Nat /\ i >= 1 /\ i + 1 \in DOMAIN messages /\ messages'[i] = messages[i + 1]
    BY MessagesLeft
<1>2. /\ control /\ live = None /\ messages[1].plan = thread.plan
      /\ thread.pc \in Ran \cup {"Done"}
      /\ \A k \in DOMAIN messages : messages[k].kind = "Publish" => k = 1
    BY <1>1 DEF SessionPart, MessageInv
<1>3. PublishPending BY <1>1 DEF PublishPending
<1>4. ~PublishPending'
    <2>1. ASSUME NEW i \in DOMAIN messages', messages'[i].kind = "Publish" PROVE FALSE
        <3>1. i + 1 \in DOMAIN messages /\ messages[i + 1].kind = "Publish" /\ i + 1 # 1
            BY <1>1, <2>1
        <3>2. QED BY <1>2, <3>1
    <2>2. QED BY <2>1 DEF PublishPending
<1>5. ASSUME NEW i \in DOMAIN messages', messages'[i].kind = "Finish"
      PROVE  /\ thread.pc = "Done"
             /\ \A k \in DOMAIN messages' : k > i => messages'[k].kind \notin {"Publish", "Finish"}
    <2>1. i + 1 \in DOMAIN messages /\ messages[i + 1].kind = "Finish" BY <1>1, <1>5
    <2>2. /\ thread.pc = "Done"
          /\ \A k \in DOMAIN messages : k > i + 1 => messages[k].kind \notin {"Publish", "Finish"}
        BY <2>1 DEF SessionPart, MessageInv
    <2>3. ASSUME NEW k \in DOMAIN messages', k > i
          PROVE  messages'[k].kind \notin {"Publish", "Finish"}
        <3>1. k + 1 \in DOMAIN messages /\ k + 1 > i + 1 BY <1>1, <2>3
        <3>2. QED BY <1>1, <2>2, <3>1
    <2>4. QED BY <2>2, <2>3
<1>6. QED BY <1>1, <1>2, <1>3, <1>4, <1>5

\* The jobs that were deferred for it have their reservations already.
LEMMA PublishLivePlanKeeps ==
    ASSUME WindowInv, PublishLivePlan
    PROVE  WindowInv'
<1> DEFINE p == Head(messages).plan
           reqs == RequestsOf(deferredSame, p, control, gate)
<1>1. /\ messages # <<>> /\ messages' = Tail(messages) /\ Head(messages).kind = "Publish"
      /\ live' = p /\ deferredSame' = <<>> /\ gates' = gates
      /\ planning' = planning \o
             [i \in DOMAIN deferredSame |->
                 [job |-> deferredSame[i], plan |-> live', control |-> control, gate |-> gate]]
      /\ UNCHANGED <<surfaceVars, deferredStopped, stateVars, control, gate, cancelRequested,
                     queuedSessions, resumes, threadVars, planner, jobVars, finalizing>>
    BY DEF PublishLivePlan, Publishes, Message
<1>2. planning' = planning \o reqs BY <1>1 DEF RequestsOf
<1>3. SessionPart BY DEF WindowInv
<1>4. /\ control /\ live = None /\ p = thread.plan /\ thread.pc \in Ran \cup {"Done"}
      /\ PublishPending /\ messages' \in Seq(Notice) /\ ~PublishPending'
      /\ \A i \in DOMAIN messages' : messages'[i].kind = "Finish" =>
            /\ thread.pc = "Done"
            /\ \A k \in DOMAIN messages' :
                   k > i => messages'[k].kind \notin {"Publish", "Finish"}
    BY <1>1, <1>3, PublishRead
<1>5. /\ gates \in Seq(Gate) /\ DOMAIN gates = 1..Len(gates) /\ Len(gates) \in Nat
      /\ gate \in 1..Len(gates) /\ planning \in Seq(AppendRequest)
      /\ deferredSame \in Seq(Job) /\ p \in Job /\ p # None
    <2>1. thread.plan \in Job /\ gate # 0 BY <1>3, <1>4 DEF SessionPart, SessionInv
    <2>2. QED BY <1>3, <1>4, <2>1, SessionFacts, WindowAssumption
<1>6. IsInjective(deferredSame) BY DEF WindowInv, PlacesInv
<1>7. /\ reqs \in Seq(AppendRequest) /\ Jobs(reqs) = InSame /\ Len(reqs) = Len(deferredSame)
      /\ \A i \in DOMAIN reqs : reqs[i].gate = gate /\ reqs[i].plan = p
      /\ \A i, k \in DOMAIN reqs : reqs[i].job = reqs[k].job => i = k
    <2> HIDE DEF p
    <2>1. gate \in Nat \ {0} /\ control \in BOOLEAN BY <1>3, <1>5, SessionFacts
    <2>2. /\ RequestsOf(deferredSame, p, control, gate) \in Seq(AppendRequest)
          /\ Jobs(RequestsOf(deferredSame, p, control, gate)) = ToSet(deferredSame)
          /\ Len(RequestsOf(deferredSame, p, control, gate)) = Len(deferredSame)
          /\ \A i \in DOMAIN RequestsOf(deferredSame, p, control, gate) :
                 /\ RequestsOf(deferredSame, p, control, gate)[i].gate = gate
                 /\ RequestsOf(deferredSame, p, control, gate)[i].plan = p
          /\ \A i, k \in DOMAIN RequestsOf(deferredSame, p, control, gate) :
                 RequestsOf(deferredSame, p, control, gate)[i].job =
                     RequestsOf(deferredSame, p, control, gate)[k].job => i = k
        BY <1>5, <1>6, <2>1, RequestsFor
    <2>3. QED BY <2>2 DEF InSame
<1> HIDE DEF reqs, p
<1>8. /\ planning \o reqs \in Seq(AppendRequest)
      /\ Jobs(planning \o reqs) = InPlanning \cup InSame
      /\ \A i \in DOMAIN (planning \o reqs) :
             \/ \E k \in DOMAIN planning : (planning \o reqs)[i] = planning[k]
             \/ \E k \in DOMAIN reqs : (planning \o reqs)[i] = reqs[k]
      /\ \A i, k \in DOMAIN (planning \o reqs) :
             (planning \o reqs)[i].job = (planning \o reqs)[k].job => i = k
    <2>1. \A i, k \in DOMAIN planning : planning[i].job = planning[k].job => i = k
        BY DEF WindowInv, PlacesInv
    <2>2. Jobs(planning) \cap Jobs(reqs) = {}
        BY <1>7 DEF WindowInv, PlacesInv, InPlanning
    <2>3. QED BY <1>5, <1>7, <2>1, <2>2, RequestsBehind DEF InPlanning
<1>9. planning' \in Seq(AppendRequest) /\ InPlanning' = InPlanning \cup InSame
    BY <1>2, <1>8 DEF InPlanning
<1>10. /\ InSame' = {} /\ InStopped' = InStopped /\ InQueue' = InQueue /\ InWorker' = InWorker
       /\ IsInjective(deferredSame')
    BY <1>1, NothingIn DEF InSame, InStopped, InQueue, InWorker, Busy
<1>11. \A r \in Requests' : r \in Requests \/ (r.gate = gate /\ r.plan = p)
    <2>1. ASSUME NEW i \in DOMAIN (planning \o reqs)
          PROVE  \/ (planning \o reqs)[i] \in {planning[k] : k \in DOMAIN planning}
                 \/ (planning \o reqs)[i].gate = gate /\ (planning \o reqs)[i].plan = p
        BY <1>7, <1>8
    <2>2. planner' = planner BY <1>1
    <2>3. QED BY <1>2, <2>1, <2>2 DEF Requests, Busy
<1>12. Typed'
    <2>1. /\ RestTyped'
          BY <1>1, <1>3, <1>4, <1>9 DEF SessionPart, Typed, RestTyped, surfaceVars, jobVars
    <2>2. /\ deferredSame' \in Seq(Job) /\ gate' \in 0..Len(gates') /\ gates' \in Seq(Gate)
          /\ live' \in Job \cup {None}
        BY <1>1, <1>5
    <2>3. /\ thread' \in Copier /\ interrupted' \in {"None", "Stopped", "Conflict", "Decision"}
          /\ pendingResume' \in {"No", "Stopped", Prompt, All} \cup Job
          /\ stopRequested' \in BOOLEAN /\ cancelRequested' \in BOOLEAN
          /\ control' \in BOOLEAN /\ finalizing' \in BOOLEAN
          /\ directive' \in {"Run", "Stop", "Cancel"}
          /\ (interrupted' \in {"Stopped", "Conflict"} => deferredStopped' = <<>>)
        BY <1>1, <1>3 DEF SessionPart, Typed, TypeOK, stateVars, threadVars
    <2>4. QED BY <2>1, <2>2, <2>3, TypesAfter
<1>13. SessionInv'
    BY <1>1, <1>3, <1>4 DEF SessionPart, SessionInv, CancelOverStop, Before, Ran,
                            stateVars, threadVars
<1>14. GateInv'
    <2>1. OpenGateHasOwner'
        BY <1>1, <1>3 DEF SessionPart, GateInv, OpenGateHasOwner, HasActiveTransfer, stateVars
    <2>2. \A r \in Requests : r.gate \in 1..Len(gates) /\ ~gates[r.gate].accepting
        <3>1. ASSUME NEW r \in Requests
              PROVE  r.gate \in 1..Len(gates) /\ ~gates[r.gate].accepting
            <4>1. /\ r \in AppendRequest /\ r.gate \in 1..Len(gates)
                  /\ gates[r.gate].accepting => r.plan = live
                BY <1>3, RequestGates DEF SessionPart
            <4>2. r.plan # None BY <4>1, WindowAssumption DEF AppendRequest
            <4>3. QED BY <1>4, <4>1, <4>2
        <3>2. QED BY <3>1
    <2>3. \A r \in Requests' :
              r.gate <= Len(gates') /\ (gates'[r.gate].accepting => r.plan = live')
        BY <1>1, <1>5, <1>11, <2>2
    <2>4. QED BY <1>1, <1>3, <2>1, <2>3 DEF SessionPart, GateInv, threadVars
<1>15. Counted'
    <2>1. ASSUME gates[gate].accepting
          PROVE  gates'[gate'].count =
                     Through(planning', gate') + Building(gate)' + Len(deferredSame')
        <3>1. gates[gate].count = Through(planning, gate) + Building(gate) + Len(deferredSame)
            BY <1>3, <1>5, <2>1 DEF SessionPart, Counted
        <3>2. Building(gate)' = Building(gate) /\ Building(gate) \in Nat
            BY <1>1 DEF Building, Busy
        <3>3. Through(planning, gate) \in Nat /\ Len(deferredSame) \in Nat
            <4>1. Through(planning, gate) \in Nat BY <1>5, ThroughIsNumber
            <4>2. QED BY <1>5, <4>1
        <3>4. \A i \in DOMAIN reqs : reqs[i].gate = gate BY <1>7
        <3>5. Through(planning \o reqs, gate) = Through(planning, gate) + Len(reqs)
            BY <1>5, <1>7, <3>4, ThroughBehind
        <3>6. Through(planning', gate') = Through(planning, gate) + Len(deferredSame)
            BY <1>1, <1>2, <1>7, <3>5
        <3>7. Len(deferredSame') = 0 BY <1>1
        <3>8. \A a, b, c \in Nat : a + b + c = (a + c) + b + 0 OBVIOUS
        <3>9. gates'[gate'].count = gates[gate].count BY <1>1
        <3>10. Through(planning, gate) + Building(gate) + Len(deferredSame) =
                   (Through(planning, gate) + Len(deferredSame)) + Building(gate) + 0
            BY <3>2, <3>3, <3>8
        <3>11. QED BY <3>1, <3>2, <3>6, <3>7, <3>9, <3>10
    <2>2. QED BY <1>1, <2>1 DEF Counted
<1>16. MessageInv'
    <2>1. control' = control /\ thread' = thread /\ live' # None
        BY <1>1, <1>5 DEF threadVars
    <2>2. \A i \in DOMAIN messages' : messages'[i].kind # "Publish"
        BY <1>4 DEF PublishPending
    <2>3. QED BY <1>4, <2>1, <2>2 DEF MessageInv
<1>17. PlacesInv'
    <2>1. \A i, k \in DOMAIN planning' : planning'[i].job = planning'[k].job => i = k
        BY <1>2, <1>8
    <2>2. queuedSessions' = queuedSessions /\ deferredStopped' = deferredStopped BY <1>1
    <2>3. QED BY <1>9, <1>10, <2>1, <2>2 DEF WindowInv, PlacesInv
<1>18. FateInv'
    <2>1. InWait' = InWait BY <1>9, <1>10 DEF InWait
    <2>2. fate' = fate /\ thread' = thread /\ control' = control
        BY <1>1 DEF jobVars, threadVars
    <2>3. Begun(thread.plan) BY <1>4 DEF WindowInv, FateInv
    <2>4. Begun(live)' BY <1>1, <1>4, <2>2, <2>3 DEF Begun
    <2>5. thread'.pc \notin {"Done", "Planning"} \/ PublishPending' => Begun(thread.plan)'
        BY <2>2, <2>3 DEF Begun
    <2>6. QED BY <2>1, <2>2, <2>4, <2>5 DEF WindowInv, FateInv
<1>19. QED BY <1>12, <1>13, <1>14, <1>15, <1>16, <1>17, <1>18 DEF WindowInv, SessionPart

-----------------------------------------------------------------------------
(***************************************************************************)
(* The copy thread.                                                        *)
(***************************************************************************)
\* A step of the thread that says nothing to the window.
LEMMA ThreadMoves ==
    ASSUME WindowInv, thread' \in Copier, thread'.plan = thread.plan,
           \/ thread.pc \in Before /\ thread'.pc \in Before
           \/ thread.pc \in Ran /\ thread'.pc \in Ran,
           directive' \in {"Run", "Stop", "Cancel"},
           fate' \in [Job -> Fate], home' \in [Job -> Job \cup {None}], FateInv',
           UNCHANGED <<windowVars, plannerVars, finalizing, messages, gates>>
    PROVE  WindowInv'
<1>1. SessionPart BY DEF WindowInv
<1>2. /\ UNCHANGED <<interrupted, stopRequested, pendingResume, cancelRequested, control, gate,
                     live, queuedSessions, deferredSame, deferredStopped, dialog, closing,
                     closed, planning, planner, finalizing, messages, gates>>
    BY DEF windowVars, surfaceVars, deferVars, stateVars, sessionVars, plannerVars
<1>3. RestTyped' BY <1>1, <1>2 DEF SessionPart, Typed, RestTyped
<1>4. Typed'
    <2>1. /\ deferredSame' \in Seq(Job)
          /\ interrupted' \in {"None", "Stopped", "Conflict", "Decision"}
          /\ pendingResume' \in {"No", "Stopped", Prompt, All} \cup Job
          /\ stopRequested' \in BOOLEAN /\ cancelRequested' \in BOOLEAN
          /\ control' \in BOOLEAN /\ finalizing' \in BOOLEAN
          /\ gates' \in Seq(Gate) /\ gate' \in 0..Len(gates') /\ live' \in Job \cup {None}
          /\ (interrupted' \in {"Stopped", "Conflict"} => deferredStopped' = <<>>)
        BY <1>1, <1>2, SessionFacts
    <2>2. QED BY <1>3, <2>1, TypesAfter
<1>5. thread.pc # "Done" /\ thread'.pc # "Done" BY DEF Before, Ran
<1>6. SessionInv'
    BY <1>1, <1>2, <1>5 DEF SessionPart, SessionInv, CancelOverStop, Before, Ran
<1>7. GateInv'
    <2>1. OpenGateHasOwner' BY <1>1, <1>2 DEF SessionPart, GateInv, OpenGateHasOwner,
                                              HasActiveTransfer
    <2>2. Requests' = Requests BY <1>2 DEF Requests, Busy
    <2>3. QED BY <1>1, <1>2, <1>5, <2>1, <2>2 DEF SessionPart, GateInv
<1>8. Counted' BY <1>1, <1>2, CountsStay DEF SessionPart
<1>9. MessageInv'
    <2>1. PublishPending' <=> PublishPending BY <1>2 DEF PublishPending
    <2>2. \A i \in DOMAIN messages : messages[i].kind # "Finish"
        BY <1>1, <1>5 DEF SessionPart, MessageInv
    <2>3. \A i \in DOMAIN messages : messages[i].kind = "Publish" =>
              /\ control /\ live = None /\ messages[i].plan = thread.plan
              /\ thread.pc \in Ran \cup {"Done"}
              /\ \A k \in DOMAIN messages : messages[k].kind = "Publish" => k = i
        BY <1>1 DEF SessionPart, MessageInv
    <2>4. thread.pc \in Ran \cup {"Done"} => thread'.pc \in Ran
        BY <1>5 DEF Before, Ran
    <2>5. thread'.pc \in Ran => live' # None \/ PublishPending'
        BY <1>1, <1>2, <2>1 DEF SessionPart, MessageInv, Before, Ran
    <2>6. QED BY <1>2, <2>2, <2>3, <2>4, <2>5 DEF MessageInv
<1>10. PlacesInv'
    <2>1. InWorker' = InWorker BY <1>2 DEF InWorker, Busy
    <2>2. QED BY <1>2, <2>1, PlacesStay DEF WindowInv
<1>11. QED BY <1>4, <1>6, <1>7, <1>8, <1>9, <1>10 DEF WindowInv, SessionPart

\* ... and that makes nothing of a job that waits.
LEMMA ThreadMovesOn ==
    ASSUME WindowInv, thread' \in Copier, thread'.plan = thread.plan,
           \/ thread.pc \in Before \ {"Planning"} /\ thread'.pc \in Before
           \/ thread.pc \in Ran /\ thread'.pc \in Ran,
           directive' \in {"Run", "Stop", "Cancel"},
           fate' \in [Job -> Fate], home' = home,
           \A k \in Job : /\ fate'[k] = "Accepted" => fate[k] = "Accepted"
                          /\ fate[k] = "Accepted" => fate'[k] = "Accepted"
                          /\ Begun(k) => Begun(k)',
           UNCHANGED <<windowVars, plannerVars, finalizing, messages, gates>>
    PROVE  WindowInv'
<1>1. SessionPart BY DEF WindowInv
<1>2. home' \in [Job -> Job \cup {None}] BY <1>1 DEF SessionPart, Typed, RestTyped
<1>3. /\ UNCHANGED <<control, live, queuedSessions, deferredSame, deferredStopped, planning,
                     planner, messages>>
    BY DEF windowVars, deferVars, sessionVars, plannerVars
<1>4. InWait' = InWait
    BY <1>3 DEF InWait, InQueue, InSame, InStopped, InPlanning, InWorker, Busy
<1>5. PublishPending' <=> PublishPending BY <1>3 DEF PublishPending
<1>6. FateInv'
    <2>1. thread.pc \notin {"Done", "Planning"} BY DEF Before, Ran
    <2>2. QED BY <1>1, <1>3, <1>4, <1>5, <2>1, FateStays DEF WindowInv, SessionPart
<1>7. QED BY <1>2, <1>6, ThreadMoves

\* What comes behind the messages there are.
LEMMA MessageAdded ==
    ASSUME messages \in Seq(Notice), NEW m \in Notice, messages' = Append(messages, m)
    PROVE  /\ messages' \in Seq(Notice) /\ Len(messages) \in Nat
           /\ DOMAIN messages' = DOMAIN messages \cup {Len(messages) + 1}
           /\ \A i \in DOMAIN messages : i \in Nat /\ i <= Len(messages)
                                            /\ messages'[i] = messages[i]
           /\ messages'[Len(messages) + 1] = m
<1> DEFINE t == Append(messages, m)
<1>1. /\ t \in Seq(Notice) /\ Len(messages) \in Nat
      /\ DOMAIN t = 1..(Len(messages) + 1) /\ DOMAIN messages = 1..Len(messages)
    OBVIOUS
<1>2. \A i \in 1..Len(messages) : t[i] = messages[i]
    OBVIOUS
<1>3. t[Len(messages) + 1] = m
    OBVIOUS
<1>4. messages' = t OBVIOUS
<1> HIDE DEF t
<1>5. 1..(Len(messages) + 1) = 1..Len(messages) \cup {Len(messages) + 1} BY <1>1
<1>6. QED BY <1>1, <1>2, <1>3, <1>4, <1>5

\* The thread has said its last word.
LEMMA ThreadPostsKeeps ==
    ASSUME WindowInv, thread.pc # "Done", NEW gs, AllClosed(gs), gates' = gs,
           NEW result \in ResultType, NEW handover \in BOOLEAN, ThreadPosts(result, handover),
           Substantive(result) => thread.pc \in Ran,
           directive' \in {"Run", "Stop", "Cancel"},
           UNCHANGED <<windowVars, plannerVars, finalizing, home, fate>>
    PROVE  WindowInv'
<1> DEFINE m == FinishMessage(result, handover)
           n == Len(messages) + 1
<1>1. SessionPart BY DEF WindowInv
<1>2. /\ UNCHANGED <<interrupted, stopRequested, pendingResume, cancelRequested, control, gate,
                     live, queuedSessions, deferredSame, deferredStopped, dialog, closing,
                     closed, planning, planner, finalizing, home, fate>>
    BY DEF windowVars, surfaceVars, deferVars, stateVars, sessionVars, plannerVars, jobVars
<1>3. control /\ thread.plan \in Job /\ gate # 0 /\ interrupted = "None"
    BY <1>1 DEF SessionPart, SessionInv
<1>4. m \in Notice /\ m.kind = "Finish" /\ m.result = result
    BY DEF FinishMessage, Notice
<1>5. messages' = Append(messages, m) BY DEF ThreadPosts, Post
<1> HIDE DEF m
<1>6. /\ messages' \in Seq(Notice) /\ Len(messages) \in Nat
      /\ DOMAIN messages' = DOMAIN messages \cup {n}
      /\ \A i \in DOMAIN messages : i \in Nat /\ i <= Len(messages) /\ messages'[i] = messages[i]
      /\ messages'[n] = m
    BY <1>1, <1>4, <1>5, SessionFacts, MessageAdded
<1>7. /\ thread' \in Copier /\ thread'.pc = "Done" /\ thread'.plan = thread.plan
    BY <1>3 DEF ThreadPosts, Quiet, Copier, Result, ResultType, Before, Ran
<1>8. /\ gates' \in Seq(Gate) /\ Len(gates') = Len(gates)
      /\ \A h \in 1..Len(gates) : ~gates'[h].accepting
      /\ gates \in Seq(Gate) /\ Len(gates) \in Nat /\ gate \in 1..Len(gates)
    BY <1>1, <1>3, SessionFacts DEF AllClosed
<1>9. RestTyped' BY <1>1, <1>2, <1>6 DEF SessionPart, Typed, RestTyped
<1>10. Typed'
    <2>1. /\ deferredSame' \in Seq(Job)
          /\ interrupted' \in {"None", "Stopped", "Conflict", "Decision"}
          /\ pendingResume' \in {"No", "Stopped", Prompt, All} \cup Job
          /\ stopRequested' \in BOOLEAN /\ cancelRequested' \in BOOLEAN
          /\ control' \in BOOLEAN /\ finalizing' \in BOOLEAN
          /\ live' \in Job \cup {None}
          /\ (interrupted' \in {"Stopped", "Conflict"} => deferredStopped' = <<>>)
        BY <1>1, <1>2, SessionFacts
    <2>2. gate' \in 0..Len(gates') BY <1>2, <1>8
    <2>3. QED BY <1>7, <1>8, <1>9, <2>1, <2>2, TypesAfter
<1>11. SessionInv'
    BY <1>1, <1>2, <1>3, <1>7 DEF SessionPart, SessionInv, CancelOverStop, Before
<1>12. GateInv'
    <2>1. DOMAIN gates' = 1..Len(gates) BY <1>8
    <2>2. OpenGateHasOwner' BY <1>8, <2>1 DEF OpenGateHasOwner
    <2>3. Requests' = Requests BY <1>2 DEF Requests, Busy
    <2>4. \A r \in Requests' : r.gate <= Len(gates') /\ ~gates'[r.gate].accepting
        <3>1. \A r \in Requests : r.gate \in 1..Len(gates) BY <1>1, RequestGates DEF SessionPart
        <3>2. QED BY <1>8, <2>3, <3>1
    <2>5. QED BY <1>2, <1>7, <1>8, <2>2, <2>4 DEF GateInv
<1>13. Counted' BY <1>2, <1>8 DEF Counted
<1>14. PublishPending' <=> PublishPending
    <2>1. PublishPending' => PublishPending BY <1>4, <1>6 DEF PublishPending
    <2>2. PublishPending => PublishPending' BY <1>6 DEF PublishPending
    <2>3. QED BY <2>1, <2>2
<1>15. MessageInv'
    <2>1. \A i \in DOMAIN messages : messages[i].kind # "Finish"
        BY <1>1 DEF SessionPart, MessageInv
    <2>2. ASSUME NEW i \in DOMAIN messages', messages'[i].kind = "Finish"
          PROVE  /\ control' /\ thread'.pc = "Done"
                 /\ \A k \in DOMAIN messages' :
                        k > i => messages'[k].kind \notin {"Publish", "Finish"}
                 /\ Substantive(messages'[i].result) => live' # None \/ PublishPending'
        <3>1. i = n BY <1>6, <2>1, <2>2
        <3>2. \A k \in DOMAIN messages' : ~(k > n) BY <1>6
        <3>3. Substantive(result) => live # None \/ PublishPending
            BY <1>1 DEF SessionPart, MessageInv
        <3>4. QED BY <1>2, <1>3, <1>4, <1>6, <1>7, <1>14, <3>1, <3>2, <3>3
    <2>3. ASSUME NEW i \in DOMAIN messages', messages'[i].kind = "Publish"
          PROVE  /\ control' /\ live' = None /\ messages'[i].plan = thread'.plan
                 /\ thread'.pc \in Ran \cup {"Done"}
                 /\ \A k \in DOMAIN messages' : messages'[k].kind = "Publish" => k = i
        <3>1. i \in DOMAIN messages /\ messages[i].kind = "Publish" BY <1>4, <1>6, <2>3
        <3>2. /\ live = None /\ messages[i].plan = thread.plan
              /\ \A k \in DOMAIN messages : messages[k].kind = "Publish" => k = i
            BY <1>1, <3>1 DEF SessionPart, MessageInv
        <3>3. \A k \in DOMAIN messages' : messages'[k].kind = "Publish" => k = i
            BY <1>4, <1>6, <3>2
        <3>4. QED BY <1>2, <1>3, <1>6, <1>7, <3>1, <3>2, <3>3
    <2>4. QED BY <1>7, <2>2, <2>3 DEF MessageInv, Ran
<1>16. PlacesInv' /\ InWait' = InWait
    <2>1. InWorker' = InWorker BY <1>2 DEF InWorker, Busy
    <2>2. QED BY <1>2, <2>1, PlacesStay DEF WindowInv, InWait
<1>17. FateInv'
    <2>1. /\ fate \in [Job -> Fate] BY <1>1 DEF SessionPart, Typed, RestTyped
    <2>2. \A k \in Job : Begun(k) => Begun(k)' BY <1>2 DEF Begun
    <2>3. QED BY <1>1, <1>2, <1>7, <1>14, <1>16, <2>1, <2>2, FateStays DEF WindowInv, SessionPart
<1>18. QED BY <1>10, <1>11, <1>12, <1>13, <1>15, <1>16, <1>17 DEF WindowInv, SessionPart

\* The thread has planned, and announces the plan it executes.
LEMMA ThreadBeginsKeeps ==
    ASSUME WindowInv, thread.pc \in Before \ {"Planning"}, ThreadBegins,
           UNCHANGED <<windowVars, plannerVars, finalizing, home, fate>>
    PROVE  WindowInv'
<1> DEFINE m == [kind |-> "Publish", plan |-> thread.plan]
           n == Len(messages) + 1
<1>1. SessionPart BY DEF WindowInv
<1>2. /\ UNCHANGED <<interrupted, stopRequested, pendingResume, cancelRequested, control, gate,
                     live, queuedSessions, deferredSame, deferredStopped, dialog, closing,
                     closed, planning, planner, finalizing, home, fate, gates, directive>>
    BY DEF windowVars, surfaceVars, deferVars, stateVars, sessionVars, plannerVars, jobVars,
           ThreadBegins
<1>3. thread.pc \notin {"Done", "Planning"} /\ thread.pc \notin Ran BY DEF Before, Ran
<1>4. control /\ thread.plan \in Job /\ live = None
    BY <1>1, <1>3 DEF SessionPart, SessionInv
<1>5. m \in Notice /\ m.kind = "Publish" /\ m.plan = thread.plan BY <1>4 DEF Notice
<1>6. messages' = Append(messages, m) BY DEF ThreadBegins, Post
<1> HIDE DEF m
<1>7. /\ messages' \in Seq(Notice) /\ Len(messages) \in Nat
      /\ DOMAIN messages' = DOMAIN messages \cup {n}
      /\ \A i \in DOMAIN messages : i \in Nat /\ i <= Len(messages) /\ messages'[i] = messages[i]
      /\ messages'[n] = m
    BY <1>1, <1>5, <1>6, SessionFacts, MessageAdded
<1>8. thread' \in Copier /\ thread'.pc = "Executing" /\ thread'.plan = thread.plan
    <2>1. thread \in Copier BY <1>1 DEF SessionPart, Typed
    <2>2. thread' = [thread EXCEPT !.pc = "Executing"] BY DEF ThreadBegins
    <2>3. QED BY <2>1, <2>2 DEF Copier, Ran
<1>9. RestTyped' BY <1>1, <1>2, <1>7 DEF SessionPart, Typed, RestTyped
<1>10. Typed'
    <2>1. /\ deferredSame' \in Seq(Job)
          /\ interrupted' \in {"None", "Stopped", "Conflict", "Decision"}
          /\ pendingResume' \in {"No", "Stopped", Prompt, All} \cup Job
          /\ stopRequested' \in BOOLEAN /\ cancelRequested' \in BOOLEAN
          /\ control' \in BOOLEAN /\ finalizing' \in BOOLEAN
          /\ gates' \in Seq(Gate) /\ gate' \in 0..Len(gates') /\ live' \in Job \cup {None}
          /\ directive' \in {"Run", "Stop", "Cancel"}
          /\ (interrupted' \in {"Stopped", "Conflict"} => deferredStopped' = <<>>)
        BY <1>1, <1>2, SessionFacts
    <2>2. QED BY <1>8, <1>9, <2>1, TypesAfter
<1>11. SessionInv'
    BY <1>1, <1>2, <1>4, <1>8 DEF SessionPart, SessionInv, CancelOverStop, Before
<1>12. GateInv'
    <2>1. OpenGateHasOwner' BY <1>1, <1>2 DEF SessionPart, GateInv, OpenGateHasOwner,
                                              HasActiveTransfer
    <2>2. Requests' = Requests BY <1>2 DEF Requests, Busy
    <2>3. QED BY <1>1, <1>2, <1>3, <1>8, <2>1, <2>2 DEF SessionPart, GateInv
<1>13. Counted' BY <1>1, <1>2, CountsStay DEF SessionPart
<1>14. \A i \in DOMAIN messages : messages[i].kind \notin {"Publish", "Finish"}
    BY <1>1, <1>3 DEF SessionPart, MessageInv
<1>15. \A i \in DOMAIN messages' : messages'[i].kind \in {"Publish", "Finish"} =>
           i = n /\ messages'[i].kind = "Publish"
    BY <1>5, <1>7, <1>14
<1>16. MessageInv'
    <2>1. \A i \in DOMAIN messages' : messages'[i].kind # "Finish" BY <1>15
    <2>2. ASSUME NEW i \in DOMAIN messages', messages'[i].kind = "Publish"
          PROVE  /\ control' /\ live' = None /\ messages'[i].plan = thread'.plan
                 /\ thread'.pc \in Ran \cup {"Done"}
                 /\ \A k \in DOMAIN messages' : messages'[k].kind = "Publish" => k = i
        <3>1. i = n BY <1>15, <2>2
        <3>2. QED BY <1>2, <1>4, <1>5, <1>7, <1>8, <1>15, <3>1 DEF Ran
    <2>3. PublishPending' BY <1>5, <1>7 DEF PublishPending
    <2>4. QED BY <1>8, <2>1, <2>2, <2>3 DEF MessageInv
<1>17. PlacesInv' /\ InWait' = InWait
    <2>1. InWorker' = InWorker BY <1>2 DEF InWorker, Busy
    <2>2. QED BY <1>2, <2>1, PlacesStay DEF WindowInv, InWait
<1>18. FateInv'
    <2>1. /\ fate \in [Job -> Fate] BY <1>1 DEF SessionPart, Typed, RestTyped
    <2>2. \A k \in Job : Begun(k) => Begun(k)' BY <1>2 DEF Begun
    <2>3. QED BY <1>1, <1>2, <1>3, <1>8, <1>17, <2>1, <2>2, FateStays DEF WindowInv, SessionPart
<1>19. QED BY <1>10, <1>11, <1>12, <1>13, <1>16, <1>17, <1>18 DEF WindowInv, SessionPart

\* The gate is shut with the last word.
LEMMA ThreadShutsKeeps ==
    ASSUME WindowInv, thread.pc # "Done", NEW gs, gs = gates \/ gs = Shut(gates, gate),
           NEW result \in ResultType, NEW handover \in BOOLEAN,
           gates' = Shut(gs, gate), ThreadPosts(result, handover),
           Substantive(result) => thread.pc \in Ran,
           directive' \in {"Run", "Stop", "Cancel"},
           UNCHANGED <<windowVars, plannerVars, finalizing, home, fate>>
    PROVE  WindowInv'
<1> DEFINE new == Shut(gs, gate)
<1>1. /\ Shut(gates, gate) \in Seq(Gate) /\ Len(Shut(gates, gate)) = Len(gates)
      /\ \A h \in 1..Len(gates) : ~Shut(gates, gate)[h].accepting
      /\ gates \in Seq(Gate) /\ gate \in 0..Len(gates)
    BY AllShut DEF WindowInv, SessionPart
<1>2. AllClosed(new)
    <2>1. CASE gs = gates BY <1>1, <2>1 DEF AllClosed
    <2>2. CASE gs = Shut(gates, gate)
        <3>1. /\ gs \in Seq(Gate) /\ Len(gs) = Len(gates) /\ gate \in 0..Len(gs)
              /\ \A h \in 1..Len(gates) : ~gs[h].accepting
            BY <1>1, <2>2
        <3>2. /\ Shut(gs, gate) \in Seq(Gate) /\ Len(Shut(gs, gate)) = Len(gs)
              /\ \A h \in 1..Len(gs) : Shut(gs, gate)[h].accepting <=> gs[h].accepting /\ h # gate
            BY <3>1, ShutEffect
        <3>3. QED BY <3>1, <3>2 DEF AllClosed
    <2>3. QED BY <2>1, <2>2
<1>3. gates' = new OBVIOUS
<1> HIDE DEF new
<1>4. QED BY <1>2, <1>3, ThreadPostsKeeps

\* Whatever a result says, it is one.
LEMMA ResultsAre ==
    /\ \A kind \in {"None", "Success", "Stopped", "Cancelled", "Failed"} :
           Result(kind) \in ResultType
    /\ ~Substantive(Result("Cancelled")) /\ ~Substantive(Result("Failed"))
    /\ TRUE \in BOOLEAN /\ FALSE \in BOOLEAN
BY DEF Result, ResultType, Substantive

\* The job is planned, or nothing comes of it.
LEMMA ThreadPlansKeeps ==
    ASSUME WindowInv, ThreadPlans
    PROVE  WindowInv'
<1>1. /\ thread.pc = "Planning" /\ directive' = directive
      /\ UNCHANGED <<windowVars, plannerVars, finalizing>>
    BY DEF ThreadPlans, ThreadFrame, jobVars
<1>2. SessionPart BY DEF WindowInv
<1>3. /\ control /\ thread.plan \in Job /\ thread \in Copier
      /\ directive' \in {"Run", "Stop", "Cancel"}
      /\ home \in [Job -> Job \cup {None}] /\ fate \in [Job -> Fate]
    BY <1>1, <1>2, SessionFacts DEF SessionPart, SessionInv, Typed, RestTyped
<1>4. CASE /\ home' = [home EXCEPT ![thread.plan] = thread.plan]
           /\ fate' = [fate EXCEPT ![thread.plan] = "Pending"]
           /\ thread' = [thread EXCEPT !.pc = "Planned"]
           /\ UNCHANGED <<messages, gates>>
    <2>1. thread' \in Copier /\ thread'.pc = "Planned" /\ thread'.plan = thread.plan
        BY <1>3, <1>4 DEF Copier, Before
    <2>2. /\ home' \in [Job -> Job \cup {None}] /\ fate' \in [Job -> Fate]
          /\ \A k \in Job : fate'[k] = IF k = thread.plan THEN "Pending" ELSE fate[k]
        BY <1>3, <1>4 DEF Fate
    <2>3. FateInv'
        <3>1. UNCHANGED <<control, live, queuedSessions, deferredSame, deferredStopped, planning,
                          planner, messages>>
            BY <1>1, <1>4 DEF windowVars, deferVars, sessionVars, plannerVars
        <3>2. InWait' = InWait
            BY <3>1 DEF InWait, InQueue, InSame, InStopped, InPlanning, InWorker, Busy
        <3>3. live = None BY <1>1, <1>2 DEF SessionPart, SessionInv, Before
        <3>4. \A k \in InWait : k \in Job /\ fate[k] = "Accepted" /\ k # thread.plan
            BY <1>2, <1>3, WaitingAreJobs DEF WindowInv, FateInv, SessionPart
        <3>5. \A k \in Job : fate'[k] = "Accepted" => k \in InWait
            BY <2>2 DEF WindowInv, FateInv
        <3>6. fate'[thread.plan] = "Pending" BY <1>3, <2>2
        <3>7. \A k \in InWait : fate'[k] = "Accepted" BY <2>2, <3>4
        <3>8. QED BY <1>3, <2>1, <3>1, <3>2, <3>3, <3>4, <3>5, <3>6, <3>7 DEF FateInv, Begun
    <2>4. thread.pc \in Before /\ thread'.pc \in Before BY <1>1, <2>1 DEF Before
    <2>5. QED BY <1>1, <1>3, <1>4, <2>1, <2>2, <2>3, <2>4, ThreadMoves
<1>5. CASE /\ gates' = Shut(gates, gate)
           /\ ThreadPosts(Result(IF cancelRequested THEN "Cancelled" ELSE "Failed"), FALSE)
           /\ UNCHANGED <<home, fate>>
    <2> DEFINE r == Result(IF cancelRequested THEN "Cancelled" ELSE "Failed")
    <2>1. r \in ResultType /\ ~Substantive(r) BY ResultsAre
    <2>2. ThreadPosts(r, FALSE) BY <1>5
    <2> HIDE DEF r
    <2>3. PICK handover \in BOOLEAN : ThreadPosts(r, handover) BY <2>2
    <2>4. QED BY <1>1, <1>3, <1>5, <2>1, <2>3, ThreadShutsKeeps
<1>6. QED BY <1>4, <1>5 DEF ThreadPlans, jobVars

\* The job ends before it has copied anything.
LEMMA ThreadGivesUpKeeps ==
    ASSUME WindowInv, thread.pc # "Done",
           NEW kind \in {"Cancelled", "Failed"}, NEW handover \in BOOLEAN,
           ThreadGivesUp(Result(kind), handover),
           UNCHANGED <<windowVars, plannerVars, finalizing, home, fate>>
    PROVE  WindowInv'
<1> DEFINE r == Result(kind)
<1>1. r \in ResultType /\ ~Substantive(r) BY ResultsAre
<1>2. /\ directive' \in {"Run", "Stop", "Cancel"} /\ gates' = Shut(gates, gate)
      /\ ThreadPosts(r, handover)
    BY DEF ThreadGivesUp, After
<1> HIDE DEF r
<1>3. QED BY <1>1, <1>2, ThreadShutsKeeps

\* Questions, and their answers.
LEMMA ThreadPlannedKeeps ==
    ASSUME WindowInv, ThreadPlanned
    PROVE  WindowInv'
<1>1. /\ thread.pc = "Planned"
      /\ UNCHANGED <<windowVars, plannerVars, finalizing, home, fate>>
    BY DEF ThreadPlanned, ThreadFrame, jobVars
<1>2. SessionPart BY DEF WindowInv
<1>3. /\ thread \in Copier /\ fate \in [Job -> Fate] /\ fate' = fate /\ home' = home
    BY <1>1, <1>2 DEF SessionPart, Typed, RestTyped, jobVars
<1>4. CASE /\ cancelRequested /\ directive' = After("Cancel", directive)
           /\ ThreadPosts(Result("Cancelled"), FALSE) /\ UNCHANGED gates
    <2>1. AllClosed(gates)
        <3>1. /\ gates \in Seq(Gate) /\ DOMAIN gates = 1..Len(gates)
            BY <1>2, SessionFacts
        <3>2. \A h \in DOMAIN gates : gates[h].accepting => h = gate
            BY <1>2 DEF SessionPart, GateInv, OpenGateHasOwner
        <3>3. control BY <1>1, <1>2 DEF SessionPart, SessionInv
        <3>4. ~gates[gate].accepting BY <1>1, <1>2, <1>4, <3>3 DEF SessionPart, GateInv
        <3>5. QED BY <3>1, <3>2, <3>4 DEF AllClosed
    <2>2. directive' \in {"Run", "Stop", "Cancel"} BY <1>4 DEF After
    <2> DEFINE r == Result("Cancelled")
    <2>3. r \in ResultType /\ ~Substantive(r) BY ResultsAre
    <2>4. PICK handover \in BOOLEAN : ThreadPosts(r, handover) BY <1>4
    <2> HIDE DEF r
    <2>5. gates' = gates /\ thread.pc # "Done" BY <1>1, <1>4
    <2>6. QED BY <1>1, <2>1, <2>2, <2>3, <2>4, <2>5, ThreadPostsKeeps
<1>5. CASE ThreadBegins
    <2>1. thread.pc \in Before \ {"Planning"} BY <1>1 DEF Before
    <2>2. QED BY <1>1, <1>5, <2>1, ThreadBeginsKeeps
<1>6. CASE /\ \E question \in {"Elevation", "LowSpace"} \cap Occurs :
                  thread' = [thread EXCEPT !.pc = question]
           /\ UNCHANGED <<directive, gates, messages>>
    <2>1. PICK question \in {"Elevation", "LowSpace"} :
              thread' = [thread EXCEPT !.pc = question]
        BY <1>6
    <2>2. thread' \in Copier /\ thread'.plan = thread.plan /\ thread'.pc = question
        BY <1>3, <2>1 DEF Copier, Before
    <2>3. /\ thread.pc \in Before \ {"Planning"} /\ thread'.pc \in Before
        BY <1>1, <2>2 DEF Before
    <2>4. directive' \in {"Run", "Stop", "Cancel"} BY <1>2, <1>6, SessionFacts
    <2>5. \A k \in Job : Begun(k) => Begun(k)' BY <1>3 DEF Begun
    <2>6. QED BY <1>1, <1>3, <1>6, <2>2, <2>3, <2>4, <2>5, ThreadMovesOn
<1>7. QED BY <1>4, <1>5, <1>6 DEF ThreadPlanned

\* A question that nobody has to answer any more, ...
LEMMA ThreadUnaskedKeeps ==
    ASSUME WindowInv, ThreadUnasked
    PROVE  WindowInv'
<1>1. /\ thread.pc # "Done" /\ ThreadGivesUp(Result("Cancelled"), thread.pc = "Elevation")
      /\ UNCHANGED <<windowVars, plannerVars, finalizing, home, fate>>
    BY DEF ThreadUnasked, ThreadFrame, jobVars
<1>2. (thread.pc = "Elevation") \in BOOLEAN OBVIOUS
<1>3. PICK handover \in BOOLEAN : ThreadGivesUp(Result("Cancelled"), handover) BY <1>1, <1>2
<1>4. QED BY <1>1, <1>3, ThreadGivesUpKeeps

\* ... one for another process, ...
LEMMA AnswerElevationKeeps ==
    ASSUME WindowInv, AnswerElevation
    PROVE  WindowInv'
<1>1. /\ thread.pc # "Done"
      /\ UNCHANGED <<windowVars, plannerVars, finalizing, home, fate>>
    BY DEF AnswerElevation, ThreadFrame, jobVars
<1>2. PICK kind \in {"Cancelled", "Failed"} : ThreadGivesUp(Result(kind), TRUE)
    BY DEF AnswerElevation
<1>3. TRUE \in BOOLEAN OBVIOUS
<1>4. PICK handover \in BOOLEAN : ThreadGivesUp(Result(kind), handover) BY <1>2, <1>3
<1>5. QED BY <1>1, <1>4, ThreadGivesUpKeeps

\* ... and one about space.
LEMMA AnswerLowSpaceKeeps ==
    ASSUME WindowInv, AnswerLowSpace
    PROVE  WindowInv'
<1>1. /\ thread.pc = "LowSpace"
      /\ UNCHANGED <<windowVars, plannerVars, finalizing, home, fate>>
      /\ ThreadBegins \/ ThreadGivesUp(Result("Cancelled"), FALSE)
    BY DEF AnswerLowSpace, ThreadFrame, jobVars
<1>2. CASE ThreadBegins
    <2>1. thread.pc \in Before \ {"Planning"} BY <1>1 DEF Before
    <2>2. QED BY <1>1, <1>2, <2>1, ThreadBeginsKeeps
<1>3. CASE ThreadGivesUp(Result("Cancelled"), FALSE)
    <2>1. thread.pc # "Done" BY <1>1
    <2>2. PICK handover \in BOOLEAN : ThreadGivesUp(Result("Cancelled"), handover) BY <1>3
    <2>3. QED BY <1>1, <2>1, <2>2, ThreadGivesUpKeeps
<1>4. QED BY <1>1, <1>2, <1>3

\* One item after the other.
LEMMA ThreadCopiesKeeps ==
    ASSUME WindowInv, ThreadCopies
    PROVE  WindowInv'
<1>1. /\ thread.pc = "Executing"
      /\ UNCHANGED <<home, threadVars, messages, gates>>
      /\ UNCHANGED <<windowVars, plannerVars, finalizing>>
    BY DEF ThreadCopies, ThreadFrame
<1>2. PICK j \in Remaining(thread.plan), end \in {"Done", "Parked"} :
          fate' = [fate EXCEPT ![j] = end]
    BY DEF ThreadCopies
<1>3. SessionPart BY DEF WindowInv
<1>4. /\ thread \in Copier /\ fate \in [Job -> Fate] /\ directive' \in {"Run", "Stop", "Cancel"}
      /\ thread' = thread
    BY <1>1, <1>3, SessionFacts DEF SessionPart, Typed, RestTyped, threadVars
<1>5. j \in Job /\ fate[j] = "Pending" BY DEF Remaining, Among
<1>6. /\ fate' \in [Job -> Fate]
      /\ \A k \in Job : fate'[k] = IF k = j THEN end ELSE fate[k]
    BY <1>2, <1>4 DEF Fate
<1>7. \A k \in Job : /\ fate'[k] = "Accepted" => fate[k] = "Accepted"
                     /\ fate[k] = "Accepted" => fate'[k] = "Accepted"
                     /\ Begun(k) => Begun(k)'
    BY <1>5, <1>6 DEF Begun
<1>8. thread.pc \in Ran /\ thread'.pc \in Ran BY <1>1, <1>4 DEF Ran
<1>9. QED BY <1>1, <1>4, <1>6, <1>7, <1>8, ThreadMovesOn

\* execute() returns.
LEMMA ThreadReturnsKeeps ==
    ASSUME WindowInv, thread.pc \in Ran,
           NEW kind \in {"None", "Success", "Stopped", "Cancelled", "Failed"},
           NEW conflict \in Job \cup {None}, ThreadReturns(kind, conflict),
           directive' \in {"Run", "Stop", "Cancel"},
           UNCHANGED <<windowVars, plannerVars, finalizing, home, fate, messages, gates>>
    PROVE  WindowInv'
<1> DEFINE p == IF thread.policy \in Job THEN Prompt ELSE thread.policy
           r == [kind |-> kind, conflict |-> conflict,
                 parked |-> Among(fate, thread.plan, {"Parked"}) # {}]
<1>1. SessionPart BY DEF WindowInv
<1>2. thread \in Copier /\ fate \in [Job -> Fate] /\ fate' = fate /\ home' = home
    BY <1>1 DEF SessionPart, Typed, RestTyped, jobVars
<1>3. p \in {Prompt, All} \cup Job /\ r \in ResultType
    BY <1>2 DEF Copier, ResultType
<1>4. thread' = [thread EXCEPT !.pc = "Returned", !.policy = p, !.result = r]
    BY DEF ThreadReturns
<1> HIDE DEF p, r
<1>5. thread' \in Copier /\ thread'.pc = "Returned" /\ thread'.plan = thread.plan
    BY <1>2, <1>3, <1>4 DEF Copier, Ran
<1>6. thread'.pc \in Ran BY <1>5 DEF Ran
<1>7. \A k \in Job : Begun(k) => Begun(k)' BY <1>2 DEF Begun
<1>8. QED BY <1>2, <1>5, <1>6, <1>7, ThreadMovesOn

\* It may fail, ...
LEMMA ThreadFailsKeeps ==
    ASSUME WindowInv, ThreadFails
    PROVE  WindowInv'
<1>1. /\ thread.pc \in Ran /\ directive' \in {"Run", "Stop", "Cancel"}
      /\ UNCHANGED <<windowVars, plannerVars, finalizing, home, fate, messages, gates>>
    BY DEF ThreadFails, ThreadFrame, jobVars, Ran, After
<1>2. PICK conflict \in Job \cup {None} : ThreadReturns("Failed", conflict)
    BY DEF ThreadFails, Remaining, Among
<1>3. QED BY <1>1, <1>2, ThreadReturnsKeeps

\* Whatever the directive says when execute() ends, it is a result.
LEMMA EndingIs ==
    /\ Ending \in {"None", "Success", "Stopped", "Cancelled", "Failed"}
    /\ None \in Job \cup {None}
BY DEF Ending

\* ... be asked to stop, find nothing more to take, ...
LEMMA ThreadStopsKeeps ==
    ASSUME WindowInv, ThreadStops
    PROVE  WindowInv'
<1>1. /\ thread.pc = "Executing" /\ directive' = directive
      /\ UNCHANGED <<windowVars, plannerVars, finalizing, home, fate, messages, gates>>
    BY DEF ThreadStops, ThreadFrame, jobVars
<1>2. SessionPart BY DEF WindowInv
<1>3. /\ thread \in Copier /\ fate \in [Job -> Fate] /\ fate' = fate /\ home' = home
      /\ directive' \in {"Run", "Stop", "Cancel"} /\ thread.pc \in Ran
    BY <1>1, <1>2, SessionFacts DEF SessionPart, Typed, RestTyped, jobVars, Ran
<1>4. CASE thread' = [thread EXCEPT !.pc = "Drained"]
    <2>1. /\ thread' \in Copier /\ thread'.plan = thread.plan /\ thread'.pc \in Ran
        BY <1>3, <1>4 DEF Copier, Ran
    <2>2. \A k \in Job : Begun(k) => Begun(k)' BY <1>3 DEF Begun
    <2>3. QED BY <1>1, <1>3, <2>1, <2>2, ThreadMovesOn
<1>5. CASE ThreadReturns(Ending, None) BY <1>1, <1>3, <1>5, EndingIs, ThreadReturnsKeeps
<1>6. QED BY <1>4, <1>5 DEF ThreadStops

\* ... and return then.
LEMMA ThreadDrainedKeeps ==
    ASSUME WindowInv, ThreadDrained
    PROVE  WindowInv'
<1>1. /\ thread.pc \in Ran /\ directive' = directive /\ ThreadReturns(Ending, None)
      /\ UNCHANGED <<windowVars, plannerVars, finalizing, home, fate, messages, gates>>
    BY DEF ThreadDrained, ThreadFrame, jobVars, Ran
<1>2. directive' \in {"Run", "Stop", "Cancel"} BY <1>1, SessionFacts DEF WindowInv
<1>3. QED BY <1>1, <1>2, EndingIs, ThreadReturnsKeeps

\* What the loop makes of a success or a stop, behind an open gate or a shut one.
LEMMA ThreadSettlesKeeps ==
    ASSUME WindowInv, thread.pc \in {"Returned", "Waiting"},
           NEW gs, gs = gates \/ gs = Shut(gates, gate), ThreadSettles(gs),
           UNCHANGED <<windowVars, plannerVars, finalizing, home, fate>>
    PROVE  WindowInv'
<1>1. SessionPart BY DEF WindowInv
<1>2. /\ thread.pc \in Ran /\ thread.pc # "Done" /\ thread \in Copier
      /\ directive \in {"Run", "Stop", "Cancel"} /\ fate \in [Job -> Fate]
      /\ thread.result \in ResultType /\ fate' = fate /\ home' = home
    BY <1>1, SessionFacts DEF SessionPart, Typed, RestTyped, Ran, Copier, jobVars
<1>3. ASSUME NEW result \in ResultType, ThreadGivesResult(result, gs),
             directive' \in {"Run", "Stop", "Cancel"}
      PROVE  WindowInv'
    <2>1. gates' = Shut(gs, gate) /\ ThreadPosts(result, FALSE)
        BY <1>3 DEF ThreadGivesResult
    <2>2. PICK handover \in BOOLEAN : ThreadPosts(result, handover) BY <2>1
    <2>3. QED BY <1>2, <1>3, <2>1, <2>2, ThreadShutsKeeps
<1>4. Result("Cancelled") \in ResultType /\ Result(Ending) \in ResultType
    BY ResultsAre, EndingIs
<1>5. CASE directive' = After("Cancel", directive) /\ ThreadGivesResult(Result("Cancelled"), gs)
    <2>1. directive' \in {"Run", "Stop", "Cancel"} BY <1>5 DEF After
    <2>2. QED BY <1>3, <1>4, <1>5, <2>1
<1>6. CASE ThreadGivesResult(thread.result, gs) /\ UNCHANGED directive
    BY <1>2, <1>3, <1>6
<1>7. CASE /\ ThreadGivesResult(IF directive = "Run" THEN thread.result ELSE Result(Ending), gs)
           /\ UNCHANGED directive
    <2> DEFINE r == IF directive = "Run" THEN thread.result ELSE Result(Ending)
    <2>1. r \in ResultType BY <1>2, <1>4
    <2>2. ThreadGivesResult(r, gs) /\ directive' = directive BY <1>7
    <2> HIDE DEF r
    <2>3. QED BY <1>2, <1>3, <2>1, <2>2
<1>8. CASE /\ Accepting(gs, gate)
           /\ thread' = [thread EXCEPT !.pc = "Executing", !.result = Result("None")]
           /\ gates' = gs
           /\ UNCHANGED <<directive, messages>>
    <2>1. gs = gates
        <3>1. ASSUME gs = Shut(gates, gate) PROVE FALSE
            <4>1. /\ \A h \in 1..Len(gates) : ~gs[h].accepting
                  /\ gate \in 0..Len(gates) /\ Len(gates) \in Nat
                BY <1>1, <3>1, AllShut DEF SessionPart
            <4>2. gate # 0 /\ gs[gate].accepting BY <1>8 DEF Accepting
            <4>3. QED BY <4>1, <4>2
        <3>2. QED BY <3>1
    <2>2. Result("None") \in ResultType BY ResultsAre
    <2>3. /\ thread' \in Copier /\ thread'.plan = thread.plan /\ thread'.pc \in Ran
        BY <1>2, <1>8, <2>2 DEF Copier, Ran
    <2>4. \A k \in Job : Begun(k) => Begun(k)' BY <1>2 DEF Begun
    <2>5. UNCHANGED <<windowVars, plannerVars, finalizing, messages, gates>> BY <1>8, <2>1
    <2>6. directive' \in {"Run", "Stop", "Cancel"} BY <1>2, <1>8
    <2>7. QED BY <1>2, <2>3, <2>4, <2>5, <2>6, ThreadMovesOn
<1>9. QED BY <1>5, <1>6, <1>7, <1>8 DEF ThreadSettles

\* It waits for the planner, ...
LEMMA ThreadReturnedKeeps ==
    ASSUME WindowInv, ThreadReturned
    PROVE  WindowInv'
<1>1. /\ thread.pc = "Returned"
      /\ UNCHANGED <<windowVars, plannerVars, finalizing, home, fate>>
    BY DEF ThreadReturned, ThreadFrame, jobVars
<1>2. SessionPart BY DEF WindowInv
<1>3. /\ thread \in Copier /\ directive \in {"Run", "Stop", "Cancel"} /\ fate \in [Job -> Fate]
      /\ thread.result \in ResultType /\ fate' = fate /\ home' = home
    BY <1>1, <1>2, SessionFacts DEF SessionPart, Typed, RestTyped, Copier, jobVars
<1>4. CASE ThreadGivesResult(thread.result, gates) /\ UNCHANGED directive
    <2>1. gates' = Shut(gates, gate) /\ ThreadPosts(thread.result, FALSE)
        BY <1>4 DEF ThreadGivesResult
    <2>2. PICK handover \in BOOLEAN : ThreadPosts(thread.result, handover) BY <2>1
    <2>3. thread.pc \in Ran /\ thread.pc # "Done" /\ directive' \in {"Run", "Stop", "Cancel"}
        BY <1>1, <1>3, <1>4 DEF Ran
    <2>4. QED BY <1>1, <1>3, <2>1, <2>2, <2>3, ThreadShutsKeeps
<1>5. CASE /\ thread.result.kind \notin {"Cancelled", "Failed"}
           /\ thread' = [thread EXCEPT !.pc = "Waiting"]
           /\ UNCHANGED <<directive, messages, gates>>
    <2>1. /\ thread' \in Copier /\ thread'.plan = thread.plan /\ thread'.pc \in Ran
          /\ thread.pc \in Ran /\ thread'.result = thread.result
        BY <1>1, <1>3, <1>5 DEF Copier, Ran
    <2>2. \A k \in Job : Begun(k) => Begun(k)' BY <1>3 DEF Begun
    <2>3. QED BY <1>1, <1>3, <1>5, <2>1, <2>2, ThreadMovesOn
<1>6. CASE ThreadSettles(gates) BY <1>1, <1>6, ThreadSettlesKeeps
<1>7. QED BY <1>4, <1>5, <1>6 DEF ThreadReturned

\* ... for eight seconds at most.
LEMMA ThreadWaitsKeeps ==
    ASSUME WindowInv, ThreadWaits
    PROVE  WindowInv'
<1>1. /\ thread.pc = "Waiting"
      /\ UNCHANGED <<windowVars, plannerVars, finalizing, home, fate>>
      /\ ThreadSettles(gates) \/ ThreadSettles(Shut(gates, gate))
    BY DEF ThreadWaits, ThreadFrame, jobVars
<1>2. PICK gs : (gs = gates \/ gs = Shut(gates, gate)) /\ ThreadSettles(gs) BY <1>1
<1>3. QED BY <1>1, <1>2, ThreadSettlesKeeps

-----------------------------------------------------------------------------
(***************************************************************************)
(* The planner.                                                            *)
(***************************************************************************)
\* A step of the planner that opens and shuts no gate and takes no new request.
LEMMA PlannerMoves ==
    ASSUME WindowInv, gates' \in Seq(Gate), Len(gates') = Len(gates),
           \A h \in 1..Len(gates) : gates'[h].accepting <=> gates[h].accepting,
           planning' \in Seq(AppendRequest), planner' \in Worker,
           planner'.pc # "Idle" => planner'.request \in AppendRequest,
           Requests' \subseteq Requests,
           fate' \in [Job -> Fate], home' \in [Job -> Job \cup {None}],
           messages' \in Seq(Notice), MessageInv', Counted', PlacesInv', FateInv',
           UNCHANGED <<windowVars, threadVars, finalizing>>
    PROVE  WindowInv'
<1>1. SessionPart BY DEF WindowInv
<1>2. /\ UNCHANGED <<interrupted, stopRequested, pendingResume, cancelRequested, control, gate,
                     live, queuedSessions, deferredSame, deferredStopped, dialog, closing,
                     closed, finalizing, thread, directive>>
    BY DEF windowVars, surfaceVars, deferVars, stateVars, sessionVars, threadVars
<1>3. RestTyped' BY <1>1, <1>2 DEF SessionPart, Typed, RestTyped
<1>4. gates \in Seq(Gate) /\ Len(gates) \in Nat /\ gate \in 0..Len(gates)
    BY <1>1, SessionFacts
<1>5. DOMAIN gates' = 1..Len(gates) /\ DOMAIN gates = 1..Len(gates) BY <1>4
<1>6. Typed'
    <2>1. /\ deferredSame' \in Seq(Job) /\ thread' \in Copier
          /\ interrupted' \in {"None", "Stopped", "Conflict", "Decision"}
          /\ pendingResume' \in {"No", "Stopped", Prompt, All} \cup Job
          /\ stopRequested' \in BOOLEAN /\ cancelRequested' \in BOOLEAN
          /\ control' \in BOOLEAN /\ finalizing' \in BOOLEAN
          /\ live' \in Job \cup {None} /\ directive' \in {"Run", "Stop", "Cancel"}
          /\ (interrupted' \in {"Stopped", "Conflict"} => deferredStopped' = <<>>)
        BY <1>1, <1>2, SessionFacts DEF SessionPart, Typed
    <2>2. gate' \in 0..Len(gates') BY <1>2, <1>4
    <2>3. QED BY <1>3, <2>1, <2>2, TypesAfter
<1>7. gate # 0 => gate \in 1..Len(gates) BY <1>4
<1>8. SessionInv'
    <2>1. interrupted # "None" => gates'[gate].accepting
        BY <1>1, <1>7 DEF SessionPart, SessionInv
    <2>2. QED BY <1>1, <1>2, <2>1 DEF SessionPart, SessionInv, CancelOverStop
<1>9. GateInv'
    <2>1. OpenGateHasOwner'
        BY <1>1, <1>2, <1>5 DEF SessionPart, GateInv, OpenGateHasOwner, HasActiveTransfer
    <2>2. control => gate # 0 BY <1>1 DEF SessionPart, SessionInv
    <2>3. control => (gates'[gate].accepting <=> gates[gate].accepting) BY <1>7, <2>2
    <2>4. ASSUME NEW r \in Requests'
          PROVE  r.gate <= Len(gates') /\ (gates'[r.gate].accepting => r.plan = live')
        <3>1. r \in Requests BY <2>4
        <3>2. r.gate \in 1..Len(gates) /\ (gates[r.gate].accepting => r.plan = live)
            BY <1>1, <3>1, RequestGates DEF SessionPart
        <3>3. QED BY <1>2, <1>4, <3>2
    <2>5. QED BY <1>1, <1>2, <2>1, <2>3, <2>4 DEF SessionPart, GateInv
<1>10. QED BY <1>6, <1>8, <1>9 DEF WindowInv, SessionPart

\* Its worker takes a request, and the reservation with it.
LEMMA PlannerTakesKeeps ==
    ASSUME WindowInv, PlannerTakes
    PROVE  WindowInv'
<1> DEFINE r == Head(planning)
<1>1. /\ planner.pc = "Idle" /\ planning # <<>>
      /\ planner' = [IdlePlanner EXCEPT !.pc = "Building", !.request = r]
      /\ planning' = Tail(planning)
      /\ UNCHANGED <<jobVars, messages, gates>>
      /\ UNCHANGED <<windowVars, threadVars, finalizing>>
    BY DEF PlannerTakes, PlannerFrame
<1>2. SessionPart BY DEF WindowInv
<1>3. planning \in Seq(AppendRequest) BY <1>2 DEF SessionPart, Typed, RestTyped
<1>4. /\ planning' \in Seq(AppendRequest) /\ r \in AppendRequest
      /\ r \in {planning[i] : i \in DOMAIN planning}
      /\ {planning'[i] : i \in DOMAIN planning'} \subseteq {planning[i] : i \in DOMAIN planning}
      /\ Jobs(planning) = Jobs(planning') \cup {r.job}
    BY <1>1, <1>3, TakesRequest
<1>5. /\ \A i, k \in DOMAIN planning' : planning'[i].job = planning'[k].job => i = k
      /\ r.job \notin Jobs(planning')
    <2>1. \A i, k \in DOMAIN planning : planning[i].job = planning[k].job => i = k
        BY DEF WindowInv, PlacesInv
    <2>2. QED BY <1>1, <1>3, <2>1, TakesRequest
<1>6. \A g : Through(planning, g) = Through(planning', g) + (IF r.gate = g THEN 1 ELSE 0)
    BY <1>1, <1>3, ThroughRest
<1> HIDE DEF r
<1>7. planner' \in Worker /\ planner'.pc = "Building" /\ planner'.request = r
    BY <1>1, <1>4 DEF IdlePlanner, Worker
<1>8. /\ UNCHANGED <<control, gate, live, queuedSessions, deferredSame, deferredStopped, thread,
                     messages, gates, home, fate>>
    BY <1>1 DEF windowVars, deferVars, sessionVars, threadVars, jobVars
<1>9. ~Busy /\ Busy' BY <1>1, <1>7 DEF Busy
<1>10. Requests' \subseteq Requests BY <1>4, <1>7, <1>9 DEF Requests
<1>11. /\ InQueue' = InQueue /\ InSame' = InSame /\ InStopped' = InStopped
       /\ InWorker = {} /\ InWorker' = {r.job} /\ InPlanning = InPlanning' \cup {r.job}
       /\ r.job \notin InPlanning'
    BY <1>4, <1>5, <1>7, <1>8, <1>9 DEF InQueue, InSame, InStopped, InWorker, InPlanning
<1>12. InWait' = InWait BY <1>11 DEF InWait
<1>13. PlacesInv' BY <1>5, <1>8, <1>11 DEF WindowInv, PlacesInv
<1>14. Counted'
    <2>1. Building(gate) = 0 BY <1>9 DEF Building
    <2>2. Building(gate)' = IF r.gate = gate THEN 1 ELSE 0 BY <1>7, <1>8, <1>9 DEF Building
    <2>3. Through(planning', gate) \in Nat BY <1>4, ThroughIsNumber
    <2>4. Through(planning, gate) + Building(gate) = Through(planning', gate) + Building(gate)'
        BY <1>6, <2>1, <2>2, <2>3
    <2>5. QED BY <1>2, <1>8, <2>4 DEF SessionPart, Counted
<1>15. MessageInv' /\ (PublishPending' <=> PublishPending)
    BY <1>2, <1>8 DEF SessionPart, MessageInv, PublishPending
<1>16. /\ fate' \in [Job -> Fate] /\ home' \in [Job -> Job \cup {None}]
       /\ messages' \in Seq(Notice)
    BY <1>2, <1>8 DEF SessionPart, Typed, RestTyped
<1>17. FateInv'
    <2>1. \A k \in Job : Begun(k) => Begun(k)' BY <1>8 DEF Begun
    <2>2. QED BY <1>2, <1>8, <1>12, <1>15, <1>16, <2>1, FateStays DEF WindowInv, SessionPart
<1>18. /\ gates' \in Seq(Gate) /\ Len(gates') = Len(gates)
       /\ \A h \in 1..Len(gates) : gates'[h].accepting <=> gates[h].accepting
    BY <1>2, <1>8, SessionFacts
<1>19. QED BY <1>1, <1>4, <1>7, <1>10, <1>13, <1>14, <1>15, <1>16, <1>17, <1>18, PlannerMoves

\* It has planned the job, or has not.
LEMMA PlannerBuildsKeeps ==
    ASSUME WindowInv, PlannerBuilds
    PROVE  WindowInv'
<1>1. /\ planner.pc \in {"Building", "Aborting"}
      /\ UNCHANGED <<planning, jobVars, messages, gates>>
      /\ UNCHANGED <<windowVars, threadVars, finalizing>>
    BY DEF PlannerBuilds, PlannerFrame
<1>2. PICK answer \in {"Plan", "Fail", "Abort"} :
          planner' = [planner EXCEPT !.pc = "Answering", !.answer = answer]
    BY DEF PlannerBuilds
<1>3. SessionPart BY DEF WindowInv
<1>4. /\ planner \in Worker /\ planner.request \in AppendRequest
      /\ planning \in Seq(AppendRequest)
    BY <1>1, <1>3 DEF SessionPart, Typed, RestTyped
<1>5. planner' \in Worker /\ planner'.pc = "Answering" /\ planner'.request = planner.request
    BY <1>2, <1>4 DEF Worker
<1>6. /\ UNCHANGED <<control, gate, live, queuedSessions, deferredSame, deferredStopped, thread,
                     messages, gates, home, fate, planning>>
    BY <1>1 DEF windowVars, deferVars, sessionVars, threadVars, jobVars
<1>7. Busy /\ Busy' BY <1>1, <1>5 DEF Busy
<1>8. Requests' = Requests BY <1>5, <1>6, <1>7 DEF Requests
<1>9. InWorker' = InWorker BY <1>5, <1>7 DEF InWorker
<1>10. PlacesInv' /\ InWait' = InWait
    BY <1>6, <1>9, PlacesStay DEF WindowInv, InWait
<1>11. Counted'
    <2>1. Building(gate)' = Building(gate) BY <1>5, <1>6, <1>7 DEF Building
    <2>2. QED BY <1>3, <1>6, <2>1 DEF SessionPart, Counted
<1>12. MessageInv' /\ (PublishPending' <=> PublishPending)
    BY <1>3, <1>6 DEF SessionPart, MessageInv, PublishPending
<1>13. /\ fate' \in [Job -> Fate] /\ home' \in [Job -> Job \cup {None}]
       /\ messages' \in Seq(Notice)
    BY <1>3, <1>6 DEF SessionPart, Typed, RestTyped
<1>14. FateInv'
    <2>1. \A k \in Job : Begun(k) => Begun(k)' BY <1>6 DEF Begun
    <2>2. QED BY <1>3, <1>6, <1>10, <1>12, <1>13, <2>1, FateStays DEF WindowInv, SessionPart
<1>15. /\ gates' \in Seq(Gate) /\ Len(gates') = Len(gates)
       /\ \A h \in 1..Len(gates) : gates'[h].accepting <=> gates[h].accepting
    BY <1>3, <1>6, SessionFacts
<1>16. QED BY <1>1, <1>4, <1>5, <1>6, <1>8, <1>10, <1>11, <1>12, <1>13, <1>14, <1>15, PlannerMoves

\* Its job is in the plan, is refused or is dropped, and its reservation is
\* given back.
LEMMA PlannerAnswersKeeps ==
    ASSUME WindowInv, PlannerAnswers
    PROVE  WindowInv'
<1> DEFINE r == planner.request
           j == r.job
<1>1. /\ planner.pc = "Answering"
      /\ gates' = Release(gates, r.gate)
      /\ UNCHANGED <<planning, messages>>
      /\ UNCHANGED <<windowVars, threadVars, finalizing>>
    BY DEF PlannerAnswers, PlannerFrame
<1>2. SessionPart BY DEF WindowInv
<1>3. /\ planner \in Worker /\ r \in AppendRequest /\ planning \in Seq(AppendRequest)
      /\ fate \in [Job -> Fate] /\ home \in [Job -> Job \cup {None}]
      /\ messages \in Seq(Notice)
    BY <1>1, <1>2 DEF SessionPart, Typed, RestTyped
<1>4. Busy BY <1>1 DEF Busy
<1>5. r \in Requests BY <1>4 DEF Requests
<1>6. j \in Job /\ r.plan \in Job BY <1>3 DEF AppendRequest
<1>7. PICK end \in {"Pending", "Refused", "Dropped"} : fate' = [fate EXCEPT ![j] = end]
    BY DEF PlannerAnswers, PlannerCommits
<1>8. home' \in [Job -> Job \cup {None}]
    <2>1. home' = home \/ home' = [home EXCEPT ![j] = r.plan]
        BY DEF PlannerAnswers, PlannerCommits
    <2>2. QED BY <1>3, <1>6, <2>1
<1>9. /\ planner' \in Worker /\ planner'.pc \in {"Idle", "Posting"}
      /\ planner'.pc # "Idle" => planner'.request \in AppendRequest
    <2>1. planner' = IdlePlanner \/ planner' = [planner EXCEPT !.pc = "Posting"]
        BY DEF PlannerAnswers, PlannerCommits
    <2>2. CASE planner' = IdlePlanner BY <2>2 DEF IdlePlanner, Worker
    <2>3. CASE planner' = [planner EXCEPT !.pc = "Posting"] BY <1>3, <2>3 DEF Worker
    <2>4. QED BY <2>1, <2>2, <2>3
<1> HIDE DEF r, j
<1>10. /\ fate' \in [Job -> Fate]
       /\ \A k \in Job : fate'[k] = IF k = j THEN end ELSE fate[k]
    BY <1>3, <1>6, <1>7 DEF Fate
<1>11. /\ UNCHANGED <<control, gate, live, queuedSessions, deferredSame, deferredStopped, thread,
                      messages, planning>>
    BY <1>1 DEF windowVars, deferVars, sessionVars, threadVars
<1>12. ~Busy' BY <1>9 DEF Busy
<1>13. Requests' \subseteq Requests BY <1>11, <1>12 DEF Requests
<1>14. /\ InQueue' = InQueue /\ InSame' = InSame /\ InStopped' = InStopped
       /\ InPlanning' = InPlanning /\ InWorker' = {} /\ InWorker = {j}
    BY <1>4, <1>11, <1>12 DEF InQueue, InSame, InStopped, InWorker, InPlanning, r, j
<1>15. PlacesInv' BY <1>11, <1>14 DEF WindowInv, PlacesInv
<1>16. InWait' = InWait \ {j} /\ j \in InWait BY <1>14 DEF WindowInv, PlacesInv, InWait
<1>17. r.gate \in 1..Len(gates) /\ gates \in Seq(Gate) /\ Len(gates) \in Nat
    BY <1>2, <1>5, RequestGates, SessionFacts DEF SessionPart
<1>18. /\ gates' \in Seq(Gate) /\ Len(gates') = Len(gates)
       /\ \A h \in 1..Len(gates) :
              /\ gates'[h].accepting <=> gates[h].accepting
              /\ gates'[h].count = IF h # r.gate THEN gates[h].count
                                   ELSE IF gates[r.gate].count = 0 THEN 0
                                        ELSE gates[r.gate].count - 1
    <2>1. /\ Release(gates, r.gate) \in Seq(Gate)
          /\ Len(Release(gates, r.gate)) = Len(gates)
          /\ \A h \in 1..Len(gates) :
                 /\ Release(gates, r.gate)[h].accepting <=> gates[h].accepting
                 /\ Release(gates, r.gate)[h].count =
                        IF h # r.gate THEN gates[h].count
                        ELSE IF gates[r.gate].count = 0 THEN 0 ELSE gates[r.gate].count - 1
        BY <1>17, ReleaseEffect
    <2>2. gates' = Release(gates, r.gate) BY <1>1
    <2>3. QED BY <2>1, <2>2
<1>19. Counted'
    <2>1. SUFFICES ASSUME gate # 0, gates'[gate].accepting
                   PROVE  gates'[gate].count = Through(planning, gate) + 0 + Len(deferredSame)
        <3>1. Building(gate)' = 0 BY <1>12 DEF Building
        <3>2. QED BY <1>11, <2>1, <3>1 DEF Counted
    <2>2. gate \in 1..Len(gates) BY <1>2, <2>1, SessionFacts
    <2>3. gates[gate].count = Through(planning, gate) + Building(gate) + Len(deferredSame)
        <3>1. gates[gate].accepting BY <1>18, <2>1, <2>2
        <3>2. Counted BY <1>2 DEF SessionPart
        <3>3. QED BY <2>1, <3>1, <3>2 DEF Counted
    <2>4. /\ Through(planning, gate) \in Nat /\ Len(deferredSame) \in Nat
        <3>1. planning \in Seq(AppendRequest) BY <1>3
        <3>2. Through(planning, gate) \in Nat BY <3>1, ThroughIsNumber
        <3>3. deferredSame \in Seq(Job) BY <1>2 DEF SessionPart, Typed
        <3>4. QED BY <3>2, <3>3
    <2>5. Building(gate) = IF r.gate = gate THEN 1 ELSE 0 BY <1>4 DEF Building, r
    <2>6. CASE r.gate # gate BY <1>18, <2>2, <2>3, <2>5, <2>6
    <2>7. CASE r.gate = gate
        <3>1. gates'[gate].count = IF gates[gate].count = 0 THEN 0 ELSE gates[gate].count - 1
            BY <1>18, <2>2, <2>7
        <3>2. QED BY <2>3, <2>4, <2>5, <2>7, <3>1
    <2>8. QED BY <2>6, <2>7
<1>20. MessageInv' /\ (PublishPending' <=> PublishPending)
    BY <1>2, <1>11 DEF SessionPart, MessageInv, PublishPending
<1>21. FateInv'
    <2>1. \A k \in InWait : k \in Job /\ fate[k] = "Accepted"
        BY <1>2, WaitingAreJobs DEF WindowInv, FateInv, SessionPart
    <2>2. \A k \in InWait' : fate'[k] = "Accepted" BY <1>10, <1>16, <2>1
    <2>3. control => thread.plan \in Job /\ thread.plan \notin InWait /\ thread.plan # j
        BY <1>2, <1>16 DEF WindowInv, FateInv, SessionPart, SessionInv
    <2>4. ASSUME NEW k \in Job, fate'[k] = "Accepted"
          PROVE  k \in InWait' \/ (control' /\ thread'.plan = k)
        <3>1. k # j /\ fate[k] = "Accepted" BY <1>10, <2>4
        <3>2. QED BY <1>11, <1>16, <3>1 DEF WindowInv, FateInv
    <2>5. \A k \in Job : Begun(k) => Begun(k)' BY <1>10 DEF Begun
    <2>6. live' # None => Begun(live)'
        <3>1. live \in Job \cup {None} BY <1>2, SessionFacts
        <3>2. live # None => fate[live] \notin {"Outside", "Asked", "Accepted"}
            BY DEF WindowInv, FateInv, Begun
        <3>3. live # None => fate'[live] \notin {"Outside", "Asked", "Accepted"}
            BY <1>10, <3>1, <3>2
        <3>4. QED BY <1>11, <3>3 DEF Begun
    <2>7. thread'.pc \notin {"Done", "Planning"} \/ PublishPending' => Begun(thread.plan)'
        <3>1. thread.pc \notin {"Done", "Planning"} \/ PublishPending =>
                  control /\ fate[thread.plan] \notin {"Outside", "Asked", "Accepted"}
            BY <1>2 DEF WindowInv, FateInv, Begun, SessionPart, SessionInv, MessageInv,
                        PublishPending
        <3>2. thread.pc \notin {"Done", "Planning"} \/ PublishPending =>
                  fate'[thread.plan] \notin {"Outside", "Asked", "Accepted"}
            BY <1>10, <2>3, <3>1
        <3>3. QED BY <1>11, <1>20, <3>2 DEF Begun
    <2>8. control' => fate'[thread'.plan] \notin {"Outside", "Asked"}
        BY <1>10, <1>11, <2>3 DEF WindowInv, FateInv
    <2>9. control' => thread'.plan \notin InWait' BY <1>11, <1>16, <2>3
    <2>10. QED BY <2>2, <2>4, <2>6, <2>7, <2>8, <2>9 DEF FateInv
<1>22. planning' \in Seq(AppendRequest) /\ messages' \in Seq(Notice) BY <1>3, <1>11
<1>23. QED BY <1>1, <1>8, <1>9, <1>10, <1>13, <1>15, <1>18, <1>19, <1>20, <1>21, <1>22, PlannerMoves

\* It tells the window.
LEMMA PlannerPostsKeeps ==
    ASSUME WindowInv, PlannerPosts
    PROVE  WindowInv'
<1> DEFINE m == [kind |-> IF planner.answer = "Plan" THEN "Appended" ELSE "PlanFailed",
                 request |-> planner.request]
           n == Len(messages) + 1
<1>1. /\ planner.pc = "Posting" /\ planner' = IdlePlanner
      /\ messages' = Append(messages, m)
      /\ UNCHANGED <<planning, jobVars, gates>>
      /\ UNCHANGED <<windowVars, threadVars, finalizing>>
    BY DEF PlannerPosts, PlannerFrame, Post
<1>2. SessionPart BY DEF WindowInv
<1>3. /\ planner.request \in AppendRequest /\ planning \in Seq(AppendRequest)
      /\ fate \in [Job -> Fate] /\ home \in [Job -> Job \cup {None}]
      /\ messages \in Seq(Notice)
    BY <1>1, <1>2 DEF SessionPart, Typed, RestTyped
<1>4. m \in Notice /\ m.kind \notin {"Publish", "Finish"} BY <1>3 DEF Notice
<1> HIDE DEF m
<1>5. /\ messages' \in Seq(Notice) /\ Len(messages) \in Nat
      /\ DOMAIN messages' = DOMAIN messages \cup {n}
      /\ \A i \in DOMAIN messages : i \in Nat /\ i <= Len(messages) /\ messages'[i] = messages[i]
      /\ messages'[n] = m
    BY <1>1, <1>3, <1>4, MessageAdded
<1>6. planner' \in Worker /\ planner'.pc = "Idle" BY <1>1 DEF IdlePlanner, Worker
<1>7. /\ UNCHANGED <<control, gate, live, queuedSessions, deferredSame, deferredStopped, thread,
                     gates, home, fate, planning>>
    BY <1>1 DEF windowVars, deferVars, sessionVars, threadVars, jobVars
<1>8. ~Busy /\ ~Busy' BY <1>1, <1>6 DEF Busy
<1>9. Requests' = Requests BY <1>7, <1>8 DEF Requests
<1>10. InWorker' = InWorker BY <1>8 DEF InWorker
<1>11. PlacesInv' /\ InWait' = InWait BY <1>7, <1>10, PlacesStay DEF WindowInv, InWait
<1>12. Counted'
    <2>1. Building(gate)' = Building(gate) BY <1>8 DEF Building
    <2>2. QED BY <1>2, <1>7, <2>1 DEF SessionPart, Counted
<1>13. \A i \in DOMAIN messages' : messages'[i].kind \in {"Publish", "Finish"} =>
           i \in DOMAIN messages /\ messages'[i] = messages[i]
    BY <1>4, <1>5
<1>14. PublishPending' <=> PublishPending
    <2>1. PublishPending' => PublishPending BY <1>13 DEF PublishPending
    <2>2. PublishPending => PublishPending' BY <1>5 DEF PublishPending
    <2>3. QED BY <2>1, <2>2
<1>15. MessageInv'
    <2>1. MessageInv BY <1>2 DEF SessionPart
    <2>2. ASSUME NEW i \in DOMAIN messages', messages'[i].kind = "Finish"
          PROVE  /\ control' /\ thread'.pc = "Done"
                 /\ \A k \in DOMAIN messages' :
                        k > i => messages'[k].kind \notin {"Publish", "Finish"}
                 /\ Substantive(messages'[i].result) => live' # None \/ PublishPending'
        <3>1. i \in DOMAIN messages /\ messages'[i] = messages[i] BY <1>13, <2>2
        <3>2. /\ control /\ thread.pc = "Done"
              /\ \A k \in DOMAIN messages :
                     k > i => messages[k].kind \notin {"Publish", "Finish"}
              /\ Substantive(messages[i].result) => live # None \/ PublishPending
            BY <2>1, <2>2, <3>1 DEF MessageInv
        <3>3. \A k \in DOMAIN messages' :
                  k > i => messages'[k].kind \notin {"Publish", "Finish"}
            BY <1>13, <3>2
        <3>4. QED BY <1>7, <1>14, <3>1, <3>2, <3>3
    <2>3. ASSUME NEW i \in DOMAIN messages', messages'[i].kind = "Publish"
          PROVE  /\ control' /\ live' = None /\ messages'[i].plan = thread'.plan
                 /\ thread'.pc \in Ran \cup {"Done"}
                 /\ \A k \in DOMAIN messages' : messages'[k].kind = "Publish" => k = i
        <3>1. i \in DOMAIN messages /\ messages'[i] = messages[i] BY <1>13, <2>3
        <3>2. /\ control /\ live = None /\ messages[i].plan = thread.plan
              /\ thread.pc \in Ran \cup {"Done"}
              /\ \A k \in DOMAIN messages : messages[k].kind = "Publish" => k = i
            BY <2>1, <2>3, <3>1 DEF MessageInv
        <3>3. \A k \in DOMAIN messages' : messages'[k].kind = "Publish" => k = i
            BY <1>13, <3>2
        <3>4. QED BY <1>7, <3>1, <3>2, <3>3
    <2>4. thread'.pc \in Ran => live' # None \/ PublishPending'
        BY <1>7, <1>14, <2>1 DEF MessageInv
    <2>5. QED BY <2>2, <2>3, <2>4 DEF MessageInv, Ran
<1>16. fate' \in [Job -> Fate] /\ home' \in [Job -> Job \cup {None}] BY <1>3, <1>7
<1>17. FateInv'
    <2>1. \A k \in Job : Begun(k) => Begun(k)' BY <1>7 DEF Begun
    <2>2. QED BY <1>2, <1>7, <1>11, <1>14, <1>16, <2>1, FateStays DEF WindowInv, SessionPart
<1>18. /\ gates' \in Seq(Gate) /\ Len(gates') = Len(gates)
       /\ \A h \in 1..Len(gates) : gates'[h].accepting <=> gates[h].accepting
    BY <1>2, <1>7, SessionFacts
<1>19. QED BY <1>1, <1>3, <1>5, <1>6, <1>7, <1>9, <1>11, <1>12, <1>15, <1>16, <1>17, <1>18,
              PlannerMoves

-----------------------------------------------------------------------------
(***************************************************************************)
(* All of it.                                                              *)
(***************************************************************************)
\* A step of nobody changes nothing.
LEMMA StutterKeeps ==
    ASSUME WindowInv, UNCHANGED vars
    PROVE  WindowInv'
<1>1. /\ UNCHANGED <<interrupted, stopRequested, pendingResume, cancelRequested, control, gate,
                     live, queuedSessions, deferredSame, deferredStopped, dialog, closing,
                     closed, planning, planner, finalizing, messages, gates, home, fate, thread,
                     directive>>
    BY DEF vars, windowVars, surfaceVars, deferVars, stateVars, sessionVars, threadVars,
           plannerVars, jobVars
<1>2. InWait' = InWait /\ InQueue' = InQueue /\ InSame' = InSame /\ InStopped' = InStopped
      /\ InPlanning' = InPlanning /\ InWorker' = InWorker /\ Requests' = Requests
    BY <1>1 DEF InWait, InQueue, InSame, InStopped, InPlanning, InWorker, Requests, Busy
<1>3. PublishPending' <=> PublishPending BY <1>1 DEF PublishPending
<1>4. Typed' BY <1>1 DEF WindowInv, SessionPart, Typed, TypeOK, RestTyped
<1>5. SessionInv' BY <1>1 DEF WindowInv, SessionPart, SessionInv, CancelOverStop
<1>6. GateInv'
    BY <1>1, <1>2 DEF WindowInv, SessionPart, GateInv, OpenGateHasOwner, HasActiveTransfer
<1>7. Counted' BY <1>1 DEF WindowInv, SessionPart, Counted, Building, Busy
<1>8. MessageInv' BY <1>1, <1>3 DEF WindowInv, SessionPart, MessageInv
<1>9. PlacesInv' BY <1>1, <1>2 DEF WindowInv, PlacesInv
<1>10. FateInv' BY <1>1, <1>2, <1>3 DEF WindowInv, FateInv, Begun
<1>11. QED BY <1>4, <1>5, <1>6, <1>7, <1>8, <1>9, <1>10 DEF WindowInv, SessionPart

\* The window begins without a session, a job or a gate.
LEMMA InitWindowInv == Init => WindowInv
<1> SUFFICES ASSUME Init PROVE WindowInv OBVIOUS
<1> USE DEF Init
<1>1. \A S : <<>> \in Seq(S) /\ DOMAIN <<>> = {} /\ Len(<<>>) = 0 OBVIOUS
<1>2. RestTyped BY <1>1 DEF RestTyped, Fate, IdlePlanner, NoRequest, Worker
<1>3. Typed
    <2>1. thread \in Copier BY DEF Quiet, Copier, Result, ResultType
    <2>2. gates \in Seq(Gate) /\ gate \in 0..Len(gates) BY <1>1
    <2>3. {stopRequested, cancelRequested, control, closing, closed, finalizing}
              \subseteq BOOLEAN
        OBVIOUS
    <2>4. {live, dialog} \subseteq Job \cup {None} OBVIOUS
    <2>5. TypeOK BY <1>2, <2>2, <2>3, <2>4 DEF TypeOK, RestTyped, Gate
    <2>6. QED BY <1>1, <1>2, <2>1, <2>5 DEF Typed
<1>4. ~Busy /\ thread.pc = "Done" /\ ~PublishPending
    BY <1>1 DEF Busy, IdlePlanner, Quiet, PublishPending
<1>5. SessionInv BY <1>4 DEF SessionInv, CancelOverStop, Before
<1>6. Requests = {} BY <1>1, <1>4 DEF Requests
<1>7. GateInv BY <1>1, <1>6 DEF GateInv, OpenGateHasOwner
<1>8. Counted BY DEF Counted
<1>9. MessageInv BY <1>1, <1>4 DEF MessageInv, Ran
<1>10. /\ InQueue = {} /\ InSame = {} /\ InStopped = {} /\ InPlanning = {} /\ InWorker = {}
    BY <1>4, NothingIn DEF InQueue, InSame, InStopped, InPlanning, InWorker
<1>11. PlacesInv BY <1>1, <1>10, NothingIn DEF PlacesInv
<1>12. FateInv BY <1>4, <1>10 DEF FateInv, InWait
<1>13. QED BY <1>3, <1>5, <1>7, <1>8, <1>9, <1>11, <1>12 DEF WindowInv, SessionPart

\* Every step keeps the invariant.
LEMMA NextWindowInv == WindowInv /\ [Next]_vars => WindowInv'
<1> SUFFICES ASSUME WindowInv, [Next]_vars PROVE WindowInv' OBVIOUS
<1>1. CASE Dispatch
    BY <1>1, PublishLivePlanKeeps, FinishesKeeps, PlannerReportsKeeps, FinalizeSessionKeeps
    DEF Dispatch
<1>2. CASE User
    BY <1>2, OnStopClickKeeps, OnCancelClickKeeps, CancelAndCloseKeeps, OnQueueRemoveClickKeeps,
       OnResumeClickKeeps, AnswerConflictKeeps, AnswerDecisionKeeps, AnswerElevationKeeps,
       AnswerLowSpaceKeeps
    DEF User
<1>3. CASE Router
    BY <1>3, ArriveIdleKeeps, ArriveAppendKeeps, ArriveWaitKeeps, AskToWaitKeeps,
       AnswerToWaitKeeps
    DEF Router
<1>4. CASE Thread
    BY <1>4, ThreadPlansKeeps, ThreadPlannedKeeps, ThreadUnaskedKeeps, ThreadCopiesKeeps,
       ThreadFailsKeeps, ThreadStopsKeeps, ThreadDrainedKeeps, ThreadReturnedKeeps,
       ThreadWaitsKeeps
    DEF Thread
<1>5. CASE Planner
    BY <1>5, PlannerTakesKeeps, PlannerBuildsKeeps, PlannerAnswersKeeps, PlannerPostsKeeps
    DEF Planner
<1>6. CASE UNCHANGED vars BY <1>6, StutterKeeps
<1>7. QED BY <1>1, <1>2, <1>3, <1>4, <1>5, <1>6 DEF Next

\* In every state the session's variables agree with each other, the gates with
\* the jobs on their way through them, and the queues with what became of the
\* jobs.
THEOREM WindowInvariant == Spec => []WindowInv
<1>1. Init => WindowInv BY InitWindowInv
<1>2. WindowInv /\ [Next]_vars => WindowInv' BY NextWindowInv
<1>3. QED BY <1>1, <1>2, PTL DEF Spec

\* Whatever the planner, the thread and the user do in whatever order, an open
\* gate counts the jobs on their way through it, not one more and not one less,
\* and belongs to the session the window has: append_gate_ with its reserve(),
\* release() and close(), and every handler that replaces it.
THEOREM GatesAreSound == Spec => []GatesSound
<1>1. WindowInv => GatesSound
    <2>1. SUFFICES ASSUME WindowInv PROVE GatesSound OBVIOUS
    <2>2. SessionPart BY <2>1 DEF WindowInv
    <2>3. OpenGateHasOwner BY <2>2 DEF SessionPart, GateInv
    <2>4. ASSUME NEW g \in DOMAIN gates, gates[g].accepting
          PROVE  gates[g].count =
                       Through(planning, g)
                     + (IF planner.request.gate = g
                           /\ planner.pc \in {"Building", "Aborting", "Answering"}
                        THEN 1 ELSE 0)
                     + (IF gate = g THEN Len(deferredSame) ELSE 0)
        <3>1. g = gate /\ g # 0
            <4>1. gates \in Seq(Gate) BY <2>2, SessionFacts
            <4>2. g \in 1..Len(gates) BY <2>4, <4>1
            <4>3. QED BY <2>3, <2>4, <4>2 DEF OpenGateHasOwner
        <3>2. gates[gate].count = Through(planning, gate) + Building(gate) + Len(deferredSame)
            BY <2>2, <2>4, <3>1 DEF SessionPart, Counted
        <3>3. QED BY <3>1, <3>2 DEF Building, Busy
    <2>5. QED BY <2>3, <2>4 DEF GatesSound, ReservationsCounted
<1>2. QED BY <1>1, WindowInvariant, PTL

\* A session that was cancelled is never offered for resumption as a stopped
\* one: the order of OnStopClick() and OnCancelClick() and of what the thread
\* posts before it hears of either does not matter.
THEOREM CancelPrevails == Spec => []CancelOverStop
<1>1. WindowInv => CancelOverStop BY DEF WindowInv, SessionPart, SessionInv
<1>2. QED BY <1>1, WindowInvariant, PTL

-----------------------------------------------------------------------------
(***************************************************************************)
(* Where the jobs are that have begun.                                     *)
(***************************************************************************)
\* A step that leaves the session and does nothing to its jobs.
LEMMA KeptStays ==
    ASSUME SessionInv, KeptInv, home' = home,
           astray \subseteq astray',
           \A k \in Job : /\ fate'[k] = "Pending" => fate[k] = "Pending"
                          /\ fate'[k] = "Parked" <=> fate[k] = "Parked",
           control' = control, interrupted' = interrupted, thread'.plan = thread.plan,
           live' = live \/ interrupted = "None",
           finalizing' => finalizing,
           thread'.pc \notin {"Returned", "Waiting"}
               \/ (thread.pc \in {"Returned", "Waiting"} /\ thread'.result = thread.result),
           \A i \in DOMAIN messages' : messages'[i].kind = "Finish" =>
               \E k \in DOMAIN messages : messages'[i] = messages[k],
           \/ control \/ interrupted # "None"
           \/ InQueue' \cup InStopped' \subseteq InQueue \cup InStopped \cup astray'
    PROVE  KeptInv'
<1>1. HomeKept' BY DEF KeptInv, HomeKept
<1>2. EmptyKept' BY DEF KeptInv, EmptyKept, SessionInv
<1>3. ParkedKept' BY DEF KeptInv, ParkedKept
<1>4. SuccessKept'
    <2>1. SUFFICES ASSUME NEW i \in DOMAIN messages', messages'[i].kind = "Finish",
                          messages'[i].result.kind = "Success", NEW j \in Job,
                          home'[j] = thread'.plan
                   PROVE  /\ fate'[j] # "Pending" \/ j \in astray'
                          /\ fate'[j] # "Parked" \/ messages'[i].result.parked
        BY DEF SuccessKept
    <2>2. PICK k \in DOMAIN messages : messages'[i] = messages[k] BY <2>1
    <2>3. /\ fate[j] # "Pending" \/ j \in astray
          /\ fate[j] # "Parked" \/ messages[k].result.parked
        BY <2>1, <2>2 DEF KeptInv, SuccessKept
    <2>4. QED BY <2>2, <2>3
<1>5. QueueKept' BY DEF KeptInv, QueueKept
<1>6. QED BY <1>1, <1>2, <1>3, <1>4, <1>5 DEF KeptInv

\* When a session is given up no job of its plan is left.
LEMMA NoneLeft ==
    ASSUME \A k \in Job : fate'[k] \in {"Pending", "Parked"} => k \in astray',
           thread'.pc \notin {"Returned", "Waiting"}, NoSession',
           control' \/ interrupted' # "None" \/ InQueue' \cup InStopped' \subseteq astray'
    PROVE  KeptInv'
BY DEF KeptInv, HomeKept, EmptyKept, ParkedKept, SuccessKept, QueueKept, NoSession

\* ... and whatever comes after it begins anew.
LEMMA RetiresKept ==
    ASSUME thread.pc = "Done", NEW gs, NEW queue, NEW gone, NEW cancel,
           Retires(gs, queue, gone, cancel), NoSession', InStopped' \subseteq astray',
           \A k \in Job : fate'[k] \in {"Pending", "Parked"} => k \in astray'
    PROVE  KeptInv'
<1>1. CASE StartNextQueuedSession(gs, queue)
    <2>1. control' /\ thread'.pc = "Planning"
        BY <1>1 DEF StartNextQueuedSession, StartTransfer, Quiet
    <2>2. QED BY <2>1, NoneLeft
<1>2. CASE queue = <<>> /\ Idles(gs, queue, gone, cancel)
    <2>1. queuedSessions' = <<>> /\ thread'.pc = "Done" BY <1>2 DEF Idles, threadVars
    <2>2. InQueue' = {} BY <2>1 DEF InQueue, ToSet
    <2>3. QED BY <2>1, <2>2, NoneLeft
<1>3. QED BY <1>1, <1>2 DEF Retires

\* FinishCopy() of a result that ends the session.
LEMMA EndsKept ==
    ASSUME thread.pc = "Done", NEW kind, NEW deferred, NEW queue, NEW f \in [Job -> Fate],
           Ends(kind, deferred, queue, f), NoSession',
           \A k \in Job : f[k] \in {"Pending", "Parked"} =>
               k \in astray \/ (kind # "Success" /\ home[k] = thread.plan)
    PROVE  KeptInv'
<1> DEFINE gs == Shut(gates, gate)
           gone == Owned(f) \cup ToSet(deferred) \cup ToSet(deferredStopped)
<1>1. \A k \in Job : f[k] \in {"Pending", "Parked"} =>
          k \in astray \/ (kind # "Success" /\ k \in Owned(f))
    BY DEF Owned, Unresolved, Among
<1>2. "Dropped" \in Fate /\ "Refused" \in Fate BY DEF Fate
<1>3. CASE /\ deferredStopped' = <<>> /\ fate' = Became(f, gone, "Dropped")
           /\ Retires(gs, queue, TRUE, cancelRequested) /\ astray' = astray
    <2>1. \A k \in Job : fate'[k] = IF k \in gone THEN "Dropped" ELSE f[k]
        BY <1>2, <1>3, BecameEffect
    <2>2. \A k \in Job : fate'[k] \in {"Pending", "Parked"} => k \in astray'
        BY <1>1, <1>3, <2>1
    <2>3. InStopped' = {} BY <1>3 DEF InStopped, ToSet
    <2>4. QED BY <1>3, <2>2, <2>3, RetiresKept
<1>4. CASE /\ fate' = Became(f, Owned(f), "Refused")
           /\ Retires(gs, deferred \o queue, FALSE, cancelRequested)
           /\ Loses(ToSet(deferredStopped)) /\ UNCHANGED deferredStopped
    <2>1. \A k \in Job : fate'[k] = IF k \in Owned(f) THEN "Refused" ELSE f[k]
        BY <1>2, <1>4, BecameEffect
    <2>2. \A k \in Job : fate'[k] \in {"Pending", "Parked"} => k \in astray'
        BY <1>1, <1>4, <2>1 DEF Loses
    <2>3. InStopped' \subseteq astray' BY <1>4 DEF InStopped, Loses
    <2>4. QED BY <1>4, <2>2, <2>3, RetiresKept
<1>5. CASE /\ kind = "Success" /\ fate' = f
           /\ \E leaves \in BOOLEAN : Retires(gs, deferred \o queue, leaves, cancelRequested)
           /\ Loses(ToSet(deferredStopped)) /\ UNCHANGED deferredStopped
    <2>1. PICK leaves \in BOOLEAN : Retires(gs, deferred \o queue, leaves, cancelRequested)
        BY <1>5
    <2>2. \A k \in Job : fate'[k] \in {"Pending", "Parked"} => k \in astray'
        BY <1>1, <1>5 DEF Loses
    <2>3. InStopped' \subseteq astray' BY <1>5 DEF InStopped, Loses
    <2>4. QED BY <2>1, <2>2, <2>3, RetiresKept
<1>6. QED BY <1>3, <1>4, <1>5 DEF Ends

\* A result that interrupts it leaves its plan to the window.
LEMMA InterruptsKept ==
    ASSUME SessionInv, KeptInv, control, thread.pc = "Done", live # None,
           NEW state \in {"Stopped", "Conflict", "Decision"}, NEW jobs,
           Interrupts(state, jobs), NoSession', home' = home, fate' = fate,
           astray' = astray,
           finalizing' => \A j \in Job : fate[j] \in {"Pending", "Parked"} => home[j] # live
    PROVE  KeptInv'
<1>1. /\ interrupted' = state /\ live' = live /\ thread' = thread /\ live = thread.plan
      /\ interrupted = "None"
    BY DEF Interrupts, threadVars, SessionInv
<1>2. HomeKept' BY <1>1 DEF KeptInv, HomeKept
<1>3. EmptyKept' BY <1>1 DEF EmptyKept
<1>4. ParkedKept' BY <1>1 DEF ParkedKept
<1>5. SuccessKept' BY DEF SuccessKept, NoSession
<1>6. QueueKept' BY <1>1 DEF KeptInv, QueueKept
<1>7. QED BY <1>2, <1>3, <1>4, <1>5, <1>6 DEF KeptInv

\* Whatever goes on with a plan has the jobs of that plan.
LEMMA ExecutesKept ==
    ASSUME SessionInv, KeptInv, interrupted # "None", NEW policy, Executes(policy),
           NoSession', home' = home, astray' = astray, ~finalizing',
           \A k \in Job : fate'[k] \in {"Pending", "Parked"} => fate[k] \in {"Pending", "Parked"}
    PROVE  KeptInv'
<1>1. control' /\ thread'.plan = live /\ thread'.pc = "Executing" /\ live' = live
    BY DEF Executes, Quiet
<1>2. ~control BY DEF SessionInv
<1>3. HomeKept' BY <1>1, <1>2 DEF KeptInv, HomeKept
<1>4. EmptyKept' BY DEF EmptyKept
<1>5. ParkedKept' BY <1>1 DEF ParkedKept
<1>6. SuccessKept' BY DEF SuccessKept, NoSession
<1>7. QueueKept' BY <1>1 DEF KeptInv, QueueKept
<1>8. QED BY <1>3, <1>4, <1>5, <1>6, <1>7 DEF KeptInv

\* ResumeStoppedCopy() and ResumeConflictCopy() give up an empty plan only.
LEMMA ResumeKept ==
    ASSUME WindowInv, KeptInv, interrupted # "None", ~finalizing,
           NEW policy, NEW f, Resume(policy, f), \A k \in Job : f[k] = fate'[k],
           home' = home, astray' = astray,
           \A k \in Job : /\ fate'[k] = "Pending" => fate[k] = "Pending"
                          /\ fate'[k] = "Parked" <=> fate[k] = "Parked",
           messages' = messages \/ (messages # <<>> /\ messages' = Tail(messages))
    PROVE  KeptInv'
<1>1. SessionPart /\ SessionInv BY DEF WindowInv, SessionPart
<1>2. ~control BY <1>1 DEF SessionInv
<1>3. NoSession' /\ thread.pc = "Done" BY <1>1, <1>2, InterruptedQuiet, QuietStays
<1>4. \A i \in DOMAIN messages' : messages'[i].kind # "Finish" BY <1>3 DEF NoSession
<1>5. CASE UNCHANGED <<interrupted, stopRequested, sessionVars, threadVars, finalizing>>
    <2>1. /\ control' = control /\ interrupted' = interrupted /\ thread' = thread
          /\ live' = live /\ finalizing' = finalizing
        BY <1>5 DEF sessionVars, threadVars
    <2>2. QED BY <1>1, <1>3, <1>4, <2>1, KeptStays
<1>6. CASE /\ Unresolved(f, live) = {}
           /\ UNCHANGED <<interrupted, stopRequested, sessionVars, threadVars>>
    <2>1. /\ control' = control /\ interrupted' = interrupted /\ thread' = thread /\ live' = live
        BY <1>6 DEF sessionVars, threadVars
    <2>2. HomeKept' BY <2>1 DEF KeptInv, HomeKept
    <2>3. EmptyKept' BY <1>6, <2>1 DEF EmptyKept, Unresolved, Among
    <2>4. ParkedKept' BY <1>3, <2>1 DEF ParkedKept
    <2>5. SuccessKept' BY <1>4 DEF SuccessKept
    <2>6. QueueKept' BY <2>1 DEF KeptInv, QueueKept
    <2>7. QED BY <2>2, <2>3, <2>4, <2>5, <2>6 DEF KeptInv
<1>7. CASE Executes(IF policy = "Stopped" THEN Prompt ELSE policy) /\ UNCHANGED finalizing
    <2> DEFINE p == IF policy = "Stopped" THEN Prompt ELSE policy
    <2>1. Executes(p) BY <1>7
    <2> HIDE DEF p
    <2>2. QED BY <1>1, <1>3, <1>7, <2>1, ExecutesKept
<1>8. QED BY <1>5, <1>6, <1>7 DEF Resume

\* A cancel keeps the session of a thread that runs, and drops all the jobs of
\* an interrupted one.
LEMMA CancelKept ==
    ASSUME WindowInv, KeptInv, ~finalizing, NEW queue, NEW f \in [Job -> Fate],
           NEW closes, CancelCurrentSession(queue, f, closes),
           \A k \in Job : f[k] = fate[k] \/ (fate[k] = "Accepted" /\ f[k] = "Dropped"),
           messages' = messages
    PROVE  KeptInv'
<1> DEFINE gs == Shut(ReleaseAll(gates, planning), gate)
           dropped == ToSet(deferredSame) \cup ToSet(deferredStopped) \cup Jobs(planning)
                          \cup {j \in Job : f[j] = "Asked"}
<1>1. SessionPart /\ SessionInv BY DEF WindowInv, SessionPart
<1>2. /\ home' = home /\ astray' = astray /\ finalizing' = finalizing
      /\ deferredStopped' = <<>>
    BY DEF CancelCurrentSession
<1>3. InStopped' = {} BY <1>2 DEF InStopped, ToSet
<1>4. \A k \in dropped : fate[k] \in {"Accepted", "Asked"}
    <2>1. \A k \in InSame \cup InStopped \cup InPlanning : fate[k] = "Accepted"
        BY DEF WindowInv, FateInv, InWait
    <2>2. QED BY <2>1 DEF InSame, InStopped, InPlanning
<1>5. "Dropped" \in Fate BY DEF Fate
<1> HIDE DEF gs, dropped
<1>6. CASE /\ control /\ fate' = Became(f, dropped, "Dropped")
           /\ UNCHANGED <<interrupted, stopRequested, control, gate, live, thread, closed>>
    <2>1. \A k \in Job : fate'[k] = IF k \in dropped THEN "Dropped" ELSE f[k]
        BY <1>5, <1>6, BecameEffect
    <2>2. \A k \in Job : \/ fate'[k] = fate[k]
                         \/ fate[k] \in {"Accepted", "Asked"} /\ fate'[k] = "Dropped"
        BY <1>4, <2>1
    <2>3. QED BY <1>1, <1>2, <1>6, <2>2, KeptStays
<1>7. CASE /\ ~control
           /\ fate' = Became(f, dropped \cup Unresolved(f, live), "Dropped")
           /\ Retires(gs, queue, TRUE, TRUE)
    <2>1. \A k \in Job : fate'[k] = IF k \in dropped \cup Unresolved(f, live)
                                    THEN "Dropped" ELSE f[k]
        BY <1>5, <1>7, BecameEffect
    <2>2. \A k \in Job : f[k] \in {"Pending", "Parked"} => k \in Unresolved(f, live) \cup astray
        BY <1>7 DEF KeptInv, HomeKept, Unresolved, Among
    <2>3. \A k \in Job : fate'[k] \in {"Pending", "Parked"} => k \in astray'
        BY <1>2, <2>1, <2>2
    <2>4. thread.pc = "Done" /\ NoSession' BY <1>1, <1>7, InterruptedQuiet, QuietStays
    <2>5. QED BY <1>3, <1>7, <2>3, <2>4, RetiresKept
<1>8. QED BY <1>6, <1>7 DEF CancelCurrentSession, gs, dropped

-----------------------------------------------------------------------------
(***************************************************************************)
(* ... and what the window and the router make of them.                    *)
(***************************************************************************)
\* A job that arrives at a window without a session finds no other there.
LEMMA ArriveIdleKept ==
    ASSUME WindowInv, KeptInv, NEW j \in Job, ArriveIdle(j)
    PROVE  KeptInv'
<1>1. /\ ~control /\ interrupted = "None" /\ fate' = [fate EXCEPT ![j] = "Accepted"]
      /\ StartTransfer(j, gates) /\ UNCHANGED <<astray, messages>>
    BY DEF ArriveIdle, HasActiveTransfer, Arrives
<1>2. SessionPart /\ fate \in [Job -> Fate]
    BY DEF WindowInv, SessionPart, Typed, RestTyped
<1>3. \A k \in Job : fate[k] \in {"Pending", "Parked"} => k \in astray
    BY <1>1 DEF KeptInv, HomeKept
<1>4. \A k \in Job : fate'[k] \in {"Pending", "Parked"} => k \in astray'
    BY <1>1, <1>2, <1>3
<1>5. control' /\ thread'.pc = "Planning" BY <1>1 DEF StartTransfer, Quiet
<1>6. NoSession' BY <1>1, <1>2, InterruptedQuiet, QuietStays
<1>7. QED BY <1>4, <1>5, <1>6, NoneLeft

\* One that arrives at a session waits for it, or goes into its plan.
LEMMA ArrivesKept ==
    ASSUME WindowInv, KeptInv, NEW j \in Job, ArriveAppend(j) \/ ArriveWait(j)
    PROVE  KeptInv'
<1>1. SessionInv /\ fate \in [Job -> Fate]
    BY DEF WindowInv, SessionPart, Typed, RestTyped
<1>2. /\ fate[j] = "Outside" /\ fate' = [fate EXCEPT ![j] = "Accepted"]
      /\ UNCHANGED <<control, interrupted, live, thread, home, astray, finalizing, messages>>
    BY DEF ArriveAppend, ArriveWait, Arrives, stateVars, sessionVars, threadVars
<1>3. \A k \in Job : fate'[k] = fate[k] \/ (fate[k] = "Outside" /\ fate'[k] = "Accepted")
    BY <1>1, <1>2
<1>4. control \/ interrupted # "None"
    BY <1>1 DEF ArriveAppend, ArriveWait, Appendable, HasActiveTransfer, SessionInv
<1>5. QED BY <1>1, <1>2, <1>3, <1>4, KeptStays

\* The router asks; the answer may find no session, and the job waits for none.
LEMMA AsksKept ==
    ASSUME WindowInv, KeptInv, NEW j \in Job, AskToWait(j) \/ AnswerToWait(j)
    PROVE  KeptInv'
<1>1. SessionInv /\ fate \in [Job -> Fate] /\ queuedSessions \in Seq(Job)
    BY DEF WindowInv, SessionPart, Typed, RestTyped
<1>2. UNCHANGED <<control, interrupted, live, thread, home, finalizing, messages,
                  deferredStopped>>
    BY DEF AskToWait, AnswerToWait, windowVars, deferVars, stateVars, sessionVars, threadVars
<1>3. \A k \in Job : \/ fate'[k] = fate[k]
                     \/ /\ fate[k] \in {"Outside", "Asked"}
                        /\ fate'[k] \in {"Outside", "Asked", "Accepted"}
    BY <1>1 DEF AskToWait, AnswerToWait, Arrives
<1>4. InStopped' = InStopped BY <1>2 DEF InStopped
<1>5. CASE AskToWait(j)
    <2>1. queuedSessions' = queuedSessions /\ astray' = astray
        BY <1>5 DEF AskToWait, windowVars
    <2>2. InQueue' = InQueue BY <2>1 DEF InQueue
    <2>3. QED BY <1>1, <1>2, <1>3, <1>4, <2>1, <2>2, KeptStays
<1>6. CASE AnswerToWait(j)
    <2>1. \/ Queue(j) /\ Loses(IF HasActiveTransfer THEN {} ELSE {j})
          \/ UNCHANGED <<queuedSessions, astray>>
        BY <1>6 DEF AnswerToWait
    <2>2. CASE Queue(j) /\ Loses(IF HasActiveTransfer THEN {} ELSE {j})
        <3>1. InQueue' = InQueue \cup {j} BY <1>1, <2>2, JoinsLast DEF Queue, InQueue
        <3>2. astray \subseteq astray' /\ (HasActiveTransfer \/ j \in astray')
            BY <2>2 DEF Loses
        <3>3. HasActiveTransfer => control \/ interrupted # "None"
            BY <1>1 DEF HasActiveTransfer, SessionInv
        <3>4. QED BY <1>1, <1>2, <1>3, <1>4, <3>1, <3>2, <3>3, KeptStays
    <2>3. CASE UNCHANGED <<queuedSessions, astray>>
        <3>1. InQueue' = InQueue BY <2>3 DEF InQueue
        <3>2. QED BY <1>1, <1>2, <1>3, <1>4, <2>3, <3>1, KeptStays
    <2>4. QED BY <2>1, <2>2, <2>3
<1>7. QED BY <1>5, <1>6

\* A stop says nothing of the jobs yet.
LEMMA OnStopClickKept ==
    ASSUME WindowInv, KeptInv, OnStopClick
    PROVE  KeptInv'
<1>1. SessionInv BY DEF WindowInv, SessionPart
<1>2. UNCHANGED <<control, interrupted, live, thread, home, fate, astray, finalizing,
                  messages>>
      /\ control
    BY DEF OnStopClick, sessionVars, jobVars
<1>3. QED BY <1>1, <1>2, KeptStays

\* What is removed from the queue is settled, and may leave nothing to resume.
LEMMA OnQueueRemoveClickKept ==
    ASSUME WindowInv, KeptInv, OnQueueRemoveClick
    PROVE  KeptInv'
<1>1. PICK S \in SUBSET Remaining(live) \ {{}} :
          /\ fate' = Became(fate, S, "Removed")
          /\ IF interrupted \in {"Stopped", "Conflict"}
             THEN FinalizeIfEmpty(Became(fate, S, "Removed")) ELSE UNCHANGED finalizing
    BY DEF OnQueueRemoveClick
<1>2. /\ UNCHANGED <<control, interrupted, live, thread, home, astray, messages,
                     queuedSessions, deferredStopped>>
      /\ ~finalizing
    BY DEF OnQueueRemoveClick, UiFree, windowVars, deferVars, stateVars, sessionVars,
           threadVars
<1>3. SessionInv /\ fate \in [Job -> Fate]
    BY DEF WindowInv, SessionPart, Typed, RestTyped
<1>4. \A k \in Job : fate'[k] = IF k \in S THEN "Removed" ELSE fate[k]
    BY <1>1, <1>3, BecameEffect DEF Fate
<1>5. \A k \in S : fate[k] = "Pending" BY <1>1 DEF Remaining, Among
<1>6. HomeKept' BY <1>2, <1>4 DEF KeptInv, HomeKept
<1>7. EmptyKept'
    <2>1. finalizing' => Unresolved(fate', live) = {} BY <1>1, <1>2 DEF FinalizeIfEmpty
    <2>2. finalizing' => \A j \in Job : fate'[j] \in {"Pending", "Parked"} => home[j] # live
        BY <2>1 DEF Unresolved, Among
    <2>3. QED BY <1>2, <2>2 DEF EmptyKept
<1>8. ParkedKept' BY <1>2, <1>4, <1>5 DEF KeptInv, ParkedKept
<1>9. SuccessKept' BY <1>2, <1>4 DEF KeptInv, SuccessKept
<1>10. QueueKept' BY <1>2 DEF KeptInv, QueueKept, InQueue, InStopped
<1>11. QED BY <1>6, <1>7, <1>8, <1>9, <1>10 DEF KeptInv

\* The two ways to cancel.
LEMMA CancelsKept ==
    ASSUME WindowInv, KeptInv, OnCancelClick \/ CancelAndCloseWindow
    PROVE  KeptInv'
<1>1. fate \in [Job -> Fate] BY DEF WindowInv, SessionPart, Typed, RestTyped
<1>2. CASE OnCancelClick
    <2>1. /\ ~finalizing /\ CancelCurrentSession(queuedSessions, fate, FALSE)
          /\ messages' = messages
        BY <1>2 DEF OnCancelClick, UiFree
    <2>2. QED BY <1>1, <2>1, CancelKept
<1>3. CASE CancelAndCloseWindow
    <2> DEFINE f == Became(fate, ToSet(queuedSessions), "Dropped")
    <2>1. /\ ~finalizing /\ CancelCurrentSession(<<>>, f, TRUE) /\ messages' = messages
        BY <1>3 DEF CancelAndCloseWindow, UiFree
    <2>2. /\ f \in [Job -> Fate]
          /\ \A k \in Job : f[k] = IF k \in InQueue THEN "Dropped" ELSE fate[k]
        BY <1>1, BecameEffect DEF InQueue, Fate
    <2>3. \A k \in InQueue : fate[k] = "Accepted" BY DEF WindowInv, FateInv, InWait
    <2> HIDE DEF f
    <2>4. QED BY <2>1, <2>2, <2>3, CancelKept
<1>4. QED BY <1>2, <1>3

\* The button of a stopped session.
LEMMA OnResumeClickKept ==
    ASSUME WindowInv, KeptInv, OnResumeClick
    PROVE  KeptInv'
<1>1. /\ interrupted # "None" /\ ~finalizing /\ Resume("Stopped", fate)
      /\ UNCHANGED <<home, fate, astray, messages>>
    BY DEF OnResumeClick, UiFree, jobVars
<1>2. QED BY <1>1, ResumeKept

\* The answers to a conflict: go on, without the file, or cancel.
LEMMA AnswerConflictKept ==
    ASSUME WindowInv, KeptInv, AnswerConflict
    PROVE  KeptInv'
<1>1. /\ ~finalizing /\ interrupted # "None" /\ dialog # None /\ messages' = messages
    BY DEF AnswerConflict, UiFree
<1>2. /\ fate \in [Job -> Fate] /\ dialog \in Job
    BY <1>1 DEF WindowInv, SessionPart, Typed, RestTyped
<1>3. CASE \E policy \in {All, dialog} :
              /\ dialog' = None
              /\ Resume(policy, fate)
              /\ UNCHANGED <<closing, closed, deferVars, queuedSessions, plannerVars,
                             jobVars, gates>>
    <2>1. PICK policy : Resume(policy, fate) BY <1>3
    <2>2. UNCHANGED <<home, fate, astray>> BY <1>3 DEF jobVars
    <2>3. QED BY <1>1, <2>1, <2>2, ResumeKept
<1>4. CASE /\ fate[dialog] = "Pending"
           /\ fate' = [fate EXCEPT ![dialog] = "Removed"]
           /\ Resume(Prompt, fate')
           /\ UNCHANGED <<home, astray>>
    <2>1. \A k \in Job : fate'[k] = IF k = dialog THEN "Removed" ELSE fate[k]
        BY <1>2, <1>4
    <2>2. \A k \in Job : /\ fate'[k] = "Pending" => fate[k] = "Pending"
                         /\ fate'[k] = "Parked" <=> fate[k] = "Parked"
        BY <1>4, <2>1
    <2>3. PICK f : f = fate' /\ Resume(Prompt, f) BY <1>4
    <2>4. \A k \in Job : f[k] = fate'[k] BY <2>3
    <2>5. QED BY <1>1, <1>4, <2>2, <2>3, <2>4, ResumeKept
<1>5. CASE CancelCurrentSession(queuedSessions, fate, FALSE)
    BY <1>1, <1>2, <1>5, CancelKept
<1>6. QED BY <1>3, <1>4, <1>5 DEF AnswerConflict

\* The answers to what is parked settle it, or take it up again.
LEMMA AnswerDecisionKept ==
    ASSUME WindowInv, KeptInv, AnswerDecision
    PROVE  KeptInv'
<1> DEFINE parked == Among(fate, live, {"Parked"})
           settled == Became(fate, parked, "Done")
           pending == Became(fate, parked, "Pending")
<1>1. /\ ~finalizing /\ interrupted # "None" /\ finalizing' = finalizing
      /\ home' = home /\ messages' = messages
    BY DEF AnswerDecision, UiFree
<1>2. SessionPart /\ SessionInv /\ fate \in [Job -> Fate]
    BY DEF WindowInv, SessionPart, Typed, RestTyped
<1>3. ~control BY <1>1, <1>2 DEF SessionInv
<1>4. thread.pc = "Done" /\ NoSession' BY <1>1, <1>2, <1>3, InterruptedQuiet, QuietStays
<1>5. \A k \in Job : k \in parked <=> home[k] = live /\ fate[k] = "Parked" BY DEF Among
<1>6. /\ settled \in [Job -> Fate] /\ pending \in [Job -> Fate]
      /\ \A k \in Job : /\ settled[k] = IF k \in parked THEN "Done" ELSE fate[k]
                        /\ pending[k] = IF k \in parked THEN "Pending" ELSE fate[k]
    <2>1. "Done" \in Fate /\ "Pending" \in Fate BY DEF Fate
    <2>2. QED BY <1>2, <2>1, BecameEffect
<1>7. Remaining(live) = {} =>
          \A k \in Job : settled[k] \in {"Pending", "Parked"} => k \in astray
    <2>1. \A k \in Job : fate[k] \in {"Pending", "Parked"} => home[k] = live \/ k \in astray
        BY <1>3 DEF KeptInv, HomeKept
    <2>2. QED BY <1>5, <1>6, <2>1 DEF Remaining, Among
<1>8. \/ fate' \in {settled, pending} /\ Executes(Prompt) /\ astray' = astray
      \/ Remaining(live) = {} /\ Ends("Success", deferredSame, queuedSessions, settled)
    BY DEF AnswerDecision, settled, pending, parked
<1> HIDE DEF settled, pending, parked
<1>9. CASE fate' \in {settled, pending} /\ Executes(Prompt) /\ astray' = astray
    <2>1. \A k \in Job : fate'[k] \in {"Pending", "Parked"} => fate[k] \in {"Pending", "Parked"}
        BY <1>5, <1>6, <1>9
    <2>2. QED BY <1>1, <1>2, <1>4, <1>9, <2>1, ExecutesKept
<1>10. CASE Remaining(live) = {} /\ Ends("Success", deferredSame, queuedSessions, settled)
    <2>1. \A k \in Job : settled[k] \in {"Pending", "Parked"} => k \in astray
        BY <1>7, <1>10
    <2>2. QED BY <1>4, <1>6, <1>10, <2>1, EndsKept
<1>11. QED BY <1>8, <1>9, <1>10

\* The rest of a finalizer gives up a plan that is still empty.
LEMMA FinalizeSessionKept ==
    ASSUME WindowInv, KeptInv, FinalizeSession
    PROVE  KeptInv'
<1>1. finalizing /\ ~finalizing' /\ UNCHANGED <<home, fate, astray, messages>>
    BY DEF FinalizeSession, jobVars
<1>2. SessionPart /\ SessionInv BY DEF WindowInv, SessionPart
<1>3. ~control /\ interrupted # "None" BY <1>1, <1>2 DEF SessionInv
<1>4. thread.pc = "Done" /\ NoSession' BY <1>1, <1>2, <1>3, InterruptedQuiet, QuietStays
<1>5. CASE UNCHANGED <<windowVars, threadVars, gates>>
    <2>1. UNCHANGED <<control, interrupted, live, thread>>
        BY <1>5 DEF windowVars, stateVars, sessionVars, threadVars
    <2>2. QED BY <1>1, <1>2, <1>3, <2>1, KeptStays
<1>6. CASE /\ Retires(Shut(gates, gate), queuedSessions, TRUE, cancelRequested)
           /\ UNCHANGED deferVars
    <2>1. \A k \in Job : fate[k] \in {"Pending", "Parked"} => k \in astray
        BY <1>1, <1>3 DEF KeptInv, HomeKept, EmptyKept
    <2>2. \A k \in Job : fate'[k] \in {"Pending", "Parked"} => k \in astray' BY <1>1, <2>1
    <2>3. deferredStopped = <<>>
        BY <1>1, <1>2 DEF SessionInv, SessionPart, Typed, TypeOK
    <2>4. InStopped' = {} BY <1>6, <2>3 DEF deferVars, InStopped, ToSet
    <2>5. QED BY <1>4, <1>6, <2>2, <2>4, RetiresKept
<1>7. QED BY <1>5, <1>6 DEF FinalizeSession

\* Reading a message leaves those behind it.
LEMMA StillThere ==
    ASSUME SessionPart, messages # <<>>, messages' = Tail(messages)
    PROVE  \A i \in DOMAIN messages' : \E k \in DOMAIN messages : messages'[i] = messages[k]
BY MessagesLeft

\* The plan is announced.
LEMMA PublishLivePlanKept ==
    ASSUME WindowInv, KeptInv, PublishLivePlan
    PROVE  KeptInv'
<1>1. /\ messages # <<>> /\ messages' = Tail(messages) /\ Head(messages).kind = "Publish"
      /\ UNCHANGED <<control, interrupted, thread, home, fate, astray, finalizing, queuedSessions,
                     deferredStopped>>
    BY DEF PublishLivePlan, Publishes, Message, stateVars, threadVars, jobVars
<1>2. SessionPart /\ SessionInv BY DEF WindowInv, SessionPart
<1>3. interrupted = "None" BY <1>1, <1>2, PublishRead DEF SessionInv
<1>4. \A i \in DOMAIN messages' : \E k \in DOMAIN messages : messages'[i] = messages[k]
    BY <1>1, <1>2, StillThere
<1>5. InQueue' = InQueue /\ InStopped' = InStopped BY <1>1 DEF InQueue, InStopped
<1>6. QED BY <1>1, <1>2, <1>3, <1>4, <1>5, KeptStays

\* What the planner reports may let a resume go on.
LEMMA PlannerReportsKept ==
    ASSUME WindowInv, KeptInv, PlannerReports
    PROVE  KeptInv'
<1>1. /\ messages # <<>> /\ messages' = Tail(messages) /\ ~finalizing
      /\ UNCHANGED <<home, fate, astray, queuedSessions, deferredStopped>>
      /\ InQueue' = InQueue /\ InStopped' = InStopped /\ (Continue \/ Untouched)
    BY DEF PlannerReports, Message, UiFree, jobVars, deferVars, InQueue, InStopped
<1>2. SessionPart /\ SessionInv BY DEF WindowInv, SessionPart
<1>3. \A i \in DOMAIN messages' : \E k \in DOMAIN messages : messages'[i] = messages[k]
    BY <1>1, <1>2, StillThere
<1>4. CASE Untouched
    <2>1. UNCHANGED <<control, interrupted, live, thread, finalizing>>
        BY <1>4 DEF Untouched, stateVars, sessionVars, threadVars
    <2>2. QED BY <1>1, <1>2, <1>3, <2>1, KeptStays
<1>5. CASE \E policy : interrupted # "None" /\ Resume(policy, fate)
    <2>1. PICK policy : interrupted # "None" /\ Resume(policy, fate) BY <1>5
    <2>2. QED BY <1>1, <2>1, ResumeKept
<1>6. CASE FinalizeIfEmpty(fate) /\ UNCHANGED <<stateVars, sessionVars, threadVars>>
    <2>1. UNCHANGED <<control, interrupted, live, thread>>
        BY <1>6 DEF stateVars, sessionVars, threadVars
    <2>2. HomeKept' BY <1>1, <2>1 DEF KeptInv, HomeKept
    <2>3. EmptyKept' BY <1>1, <1>6, <2>1 DEF EmptyKept, FinalizeIfEmpty, Unresolved, Among
    <2>4. ParkedKept' BY <1>1, <2>1 DEF KeptInv, ParkedKept
    <2>5. SuccessKept'
        <3>1. SUFFICES ASSUME NEW i \in DOMAIN messages', messages'[i].kind = "Finish",
                              messages'[i].result.kind = "Success", NEW j \in Job,
                              home[j] = thread.plan
                       PROVE  /\ fate[j] # "Pending" \/ j \in astray
                              /\ fate[j] # "Parked" \/ messages'[i].result.parked
            BY <1>1, <2>1 DEF SuccessKept
        <3>2. PICK k \in DOMAIN messages : messages'[i] = messages[k] BY <1>3
        <3>3. QED BY <3>1, <3>2 DEF KeptInv, SuccessKept
    <2>6. QueueKept' BY <1>1, <2>1 DEF KeptInv, QueueKept
    <2>7. QED BY <2>2, <2>3, <2>4, <2>5, <2>6 DEF KeptInv
<1>7. QED BY <1>1, <1>4, <1>5, <1>6 DEF Continue

\* FinishCopy() loses none of the jobs of the plan.
LEMMA FinishesKept ==
    ASSUME WindowInv, KeptInv, Finishes
    PROVE  KeptInv'
<1> DEFINE result == Head(messages).result
           kind == IF result.kind = "Stopped" THEN "Cancelled" ELSE result.kind
<1>1. /\ messages # <<>> /\ messages' = Tail(messages) /\ Head(messages).kind = "Finish"
      /\ ~finalizing /\ home' = home
    BY DEF Finishes, Message, UiFree
<1>2. SessionPart /\ SessionInv /\ fate \in [Job -> Fate]
    BY DEF WindowInv, SessionPart, Typed, RestTyped
<1>3. /\ control /\ thread.pc = "Done" /\ NoSession'
      /\ (Substantive(result) => live # None)
    BY <1>1, <1>2, FinishRead
<1>4. 1 \in DOMAIN messages /\ Head(messages) = messages[1] BY <1>1, <1>2, MessagesLeft
<1>5. PICK deferred, queue : FinishCopy(result, deferred, queue) BY DEF Finishes
<1>6. CASE /\ Stops(result) /\ Interrupts("Stopped", deferredStopped)
           /\ finalizing' = (Unresolved(fate, live) = {})
           /\ fate' = fate /\ astray' = astray
    <2>1. live # None BY <1>3, <1>6 DEF Stops, Substantive
    <2>2. finalizing' => \A j \in Job : fate[j] \in {"Pending", "Parked"} => home[j] # live
        BY <1>6 DEF Unresolved, Among
    <2>3. QED BY <1>1, <1>2, <1>3, <1>6, <2>1, <2>2, InterruptsKept
<1>7. CASE live # None /\ Interrupts("Conflict", deferred \o deferredStopped)
           /\ UNCHANGED <<fate, astray, finalizing>>
    BY <1>1, <1>2, <1>3, <1>7, InterruptsKept
<1>8. CASE live # None /\ Interrupts("Decision", <<>>)
           /\ UNCHANGED <<fate, astray, finalizing>>
    BY <1>1, <1>2, <1>3, <1>8, InterruptsKept
<1>9. CASE /\ ~(result.parked /\ live # None)
           /\ Ends(kind, deferred, queue, fate)
    <2>1. interrupted = "None" BY <1>2, <1>3 DEF SessionInv
    <2>2. \A k \in Job : fate[k] \in {"Pending", "Parked"} =>
              home[k] = thread.plan \/ k \in astray
        BY <2>1 DEF KeptInv, HomeKept
    <2>3. ASSUME kind = "Success", NEW k \in Job, home[k] = thread.plan
          PROVE  fate[k] \notin {"Pending", "Parked"} \/ k \in astray
        <3>1. result.kind = "Success" BY <2>3
        <3>2. live # None BY <1>3, <3>1 DEF Substantive
        <3>3. messages[1].kind = "Finish" /\ messages[1].result = result BY <1>1, <1>4
        <3>4. /\ fate[k] # "Pending" \/ k \in astray
              /\ fate[k] # "Parked" \/ result.parked
            BY <1>4, <2>3, <3>1, <3>3 DEF KeptInv, SuccessKept
        <3>5. QED BY <1>9, <3>2, <3>4
    <2> HIDE DEF kind, result
    <2>4. \A k \in Job : fate[k] \in {"Pending", "Parked"} =>
              k \in astray \/ (kind # "Success" /\ home[k] = thread.plan)
        BY <2>2, <2>3
    <2>5. QED BY <1>2, <1>3, <1>9, <2>4, EndsKept
<1>10. QED BY <1>5, <1>6, <1>7, <1>8, <1>9 DEF FinishCopy

-----------------------------------------------------------------------------
(***************************************************************************)
(* ... as the thread works on them.                                        *)
(***************************************************************************)
\* A thread that runs has a session, of which nothing has been told yet.
LEMMA RunsForSession ==
    ASSUME WindowInv, thread.pc # "Done"
    PROVE  /\ control /\ interrupted = "None" /\ ~finalizing
           /\ fate \in [Job -> Fate] /\ home \in [Job -> Job \cup {None}]
           /\ thread \in Copier /\ thread.plan \in Job /\ messages \in Seq(Notice)
           /\ gate # 0 /\ (Accepting(gates, gate) <=> ~cancelRequested)
           /\ \A i \in DOMAIN messages : messages[i].kind # "Finish"
<1>1. SessionInv /\ MessageInv /\ GateInv /\ Typed BY DEF WindowInv, SessionPart
<1>2. control /\ interrupted = "None" /\ thread.plan \in Job /\ gate # 0 BY <1>1 DEF SessionInv
<1>3. ~finalizing BY <1>1, <1>2 DEF SessionInv
<1>4. \A i \in DOMAIN messages : messages[i].kind # "Finish" BY <1>1 DEF MessageInv
<1>5. Accepting(gates, gate) <=> ~cancelRequested BY <1>1, <1>2 DEF GateInv, Accepting
<1>6. QED BY <1>1, <1>2, <1>3, <1>4, <1>5 DEF Typed, RestTyped

\* A step of the thread with the jobs of its plan.
LEMMA ThreadKept ==
    ASSUME WindowInv, KeptInv, thread.pc # "Done", thread'.plan = thread.plan,
           \A k \in Job : fate'[k] \in {"Pending", "Parked"} =>
               \/ home'[k] = thread.plan
               \/ home'[k] = home[k] /\ fate[k] \in {"Pending", "Parked"},
           astray \subseteq astray',
           UNCHANGED <<windowVars, finalizing>>,
           ParkedKept', SuccessKept'
    PROVE  KeptInv'
<1>1. control /\ interrupted = "None" /\ ~finalizing BY RunsForSession
<1>2. UNCHANGED <<control, interrupted, finalizing>>
    BY DEF windowVars, stateVars, sessionVars
<1>3. HomeKept' BY <1>1, <1>2 DEF KeptInv, HomeKept
<1>4. EmptyKept' BY <1>1, <1>2 DEF EmptyKept
<1>5. QueueKept' BY <1>1, <1>2 DEF KeptInv, QueueKept
<1>6. QED BY <1>3, <1>4, <1>5 DEF KeptInv

\* It goes on.
LEMMA ThreadGoesOnKept ==
    ASSUME WindowInv, KeptInv, thread.pc # "Done", thread'.plan = thread.plan,
           thread'.pc \notin {"Returned", "Waiting"}
               \/ (thread.pc = "Returned" /\ thread'.result = thread.result),
           \A i \in DOMAIN messages' : messages'[i].kind # "Finish",
           UNCHANGED <<windowVars, finalizing, jobVars>>
    PROVE  KeptInv'
<1>1. home' = home /\ fate' = fate /\ astray' = astray BY DEF jobVars
<1>2. ParkedKept' BY <1>1 DEF KeptInv, ParkedKept
<1>3. SuccessKept' BY DEF SuccessKept
<1>4. QED BY <1>1, <1>2, <1>3, ThreadKept

\* It posts its result.
LEMMA ThreadTellsKept ==
    ASSUME WindowInv, KeptInv, thread.pc # "Done",
           NEW result \in ResultType, NEW handover \in BOOLEAN, ThreadPosts(result, handover),
           result.kind = "Success" => \A j \in Job : home[j] = thread.plan =>
               /\ fate[j] # "Pending" \/ j \in astray'
               /\ fate[j] # "Parked" \/ result.parked,
           UNCHANGED <<windowVars, finalizing, home, fate>>, astray \subseteq astray'
    PROVE  KeptInv'
<1> DEFINE m == FinishMessage(result, handover)
           n == Len(messages) + 1
<1>1. m \in Notice /\ m.result = result BY DEF Notice, FinishMessage
<1>2. /\ messages' = Append(messages, m) /\ thread'.plan = thread.plan /\ thread'.pc = "Done"
    BY DEF ThreadPosts, Post, Quiet
<1> HIDE DEF m
<1>3. messages \in Seq(Notice) /\ \A i \in DOMAIN messages : messages[i].kind # "Finish"
    BY RunsForSession
<1>4. /\ DOMAIN messages' = DOMAIN messages \cup {n}
      /\ \A i \in DOMAIN messages : messages'[i] = messages[i]
      /\ messages'[n] = m
    BY <1>1, <1>2, <1>3, MessageAdded
<1>5. SuccessKept' BY <1>1, <1>2, <1>3, <1>4 DEF SuccessKept
<1>6. ParkedKept' BY <1>2 DEF ParkedKept
<1>7. QED BY <1>2, <1>5, <1>6, ThreadKept

\* ... which goes past no job.
LEMMA ThreadPostsKept ==
    ASSUME WindowInv, KeptInv, thread.pc # "Done",
           NEW result \in ResultType, NEW handover \in BOOLEAN, ThreadPosts(result, handover),
           result.kind = "Success" => \A j \in Job : home[j] = thread.plan =>
               fate[j] # "Pending" /\ (result.parked \/ fate[j] # "Parked"),
           UNCHANGED <<windowVars, finalizing, jobVars>>
    PROVE  KeptInv'
<1>1. UNCHANGED <<windowVars, finalizing, home, fate>> /\ astray \subseteq astray'
    BY DEF jobVars
<1>2. QED BY <1>1, ThreadTellsKept

\* The plan is there, and announced.
LEMMA ThreadBeginsKept ==
    ASSUME WindowInv, KeptInv, thread.pc \in Before, ThreadBegins,
           UNCHANGED <<windowVars, finalizing, jobVars>>
    PROVE  KeptInv'
<1> DEFINE m == [kind |-> "Publish", plan |-> thread.plan]
<1>1. thread.pc # "Done" BY DEF Before
<1>2. /\ messages \in Seq(Notice) /\ \A i \in DOMAIN messages : messages[i].kind # "Finish"
      /\ thread.plan \in Job /\ thread \in Copier
    BY <1>1, RunsForSession
<1>3. m \in Notice /\ m.kind = "Publish" BY <1>2 DEF Notice
<1>4. messages' = Append(messages, m) BY DEF ThreadBegins, Post
<1>5. thread'.plan = thread.plan /\ thread'.pc = "Executing"
    BY <1>2 DEF ThreadBegins, Copier
<1> HIDE DEF m
<1>6. \A i \in DOMAIN messages' : messages'[i].kind # "Finish"
    BY <1>2, <1>3, <1>4, MessageAdded
<1>7. QED BY <1>1, <1>5, <1>6, ThreadGoesOnKept

\* The job is planned, or nothing comes of it.
LEMMA ThreadPlansKept ==
    ASSUME WindowInv, KeptInv, ThreadPlans
    PROVE  KeptInv'
<1>1. thread.pc # "Done" /\ UNCHANGED <<windowVars, finalizing>>
    BY DEF ThreadPlans, ThreadFrame
<1>2. /\ fate \in [Job -> Fate] /\ home \in [Job -> Job \cup {None}]
      /\ thread \in Copier /\ thread.plan \in Job
      /\ \A i \in DOMAIN messages : messages[i].kind # "Finish"
    BY <1>1, RunsForSession
<1>3. CASE /\ home' = [home EXCEPT ![thread.plan] = thread.plan]
           /\ fate' = [fate EXCEPT ![thread.plan] = "Pending"]
           /\ thread' = [thread EXCEPT !.pc = "Planned"]
           /\ messages' = messages /\ astray' = astray
    <2>1. thread'.plan = thread.plan /\ thread'.pc = "Planned" BY <1>2, <1>3 DEF Copier
    <2>2. \A k \in Job : IF k = thread.plan
                         THEN home'[k] = thread.plan /\ fate'[k] = "Pending"
                         ELSE home'[k] = home[k] /\ fate'[k] = fate[k]
        BY <1>2, <1>3
    <2>3. ParkedKept' BY <2>1 DEF ParkedKept
    <2>4. SuccessKept' BY <1>2, <1>3 DEF SuccessKept
    <2>5. QED BY <1>1, <1>3, <2>1, <2>2, <2>3, <2>4, ThreadKept
<1>4. CASE /\ ThreadPosts(Result(IF cancelRequested THEN "Cancelled" ELSE "Failed"), FALSE)
           /\ UNCHANGED jobVars
    <2> DEFINE kind == IF cancelRequested THEN "Cancelled" ELSE "Failed"
    <2>1. kind \in {"Cancelled", "Failed"} /\ ThreadPosts(Result(kind), FALSE) BY <1>4
    <2> HIDE DEF kind
    <2>2. Result(kind) \in ResultType /\ Result(kind).kind # "Success"
        BY <2>1 DEF Result, ResultType
    <2>3. QED BY <1>1, <1>4, <2>1, <2>2, ThreadPostsKept
<1>5. QED BY <1>3, <1>4 DEF ThreadPlans

\* It is given up.
LEMMA ThreadGivesUpKept ==
    ASSUME WindowInv, KeptInv, thread.pc # "Done",
           NEW kind \in {"Cancelled", "Failed"}, NEW handover \in BOOLEAN,
           ThreadPosts(Result(kind), handover),
           UNCHANGED <<windowVars, finalizing, jobVars>>
    PROVE  KeptInv'
<1>1. Result(kind) \in ResultType /\ Result(kind).kind # "Success" BY DEF Result, ResultType
<1>2. QED BY <1>1, ThreadPostsKept

\* Cancelled, begun, or asked about first.
LEMMA ThreadPlannedKept ==
    ASSUME WindowInv, KeptInv, ThreadPlanned
    PROVE  KeptInv'
<1>1. /\ thread.pc = "Planned" /\ thread.pc \in Before /\ thread.pc # "Done"
      /\ UNCHANGED <<windowVars, finalizing, jobVars>>
    BY DEF ThreadPlanned, ThreadFrame, Before
<1>2. CASE ThreadPosts(Result("Cancelled"), FALSE) BY <1>1, <1>2, ThreadGivesUpKept
<1>3. CASE ThreadBegins BY <1>1, <1>3, ThreadBeginsKept
<1>4. CASE /\ \E question \in {"Elevation", "LowSpace"} : thread' = [thread EXCEPT !.pc = question]
           /\ messages' = messages
    <2>1. thread'.plan = thread.plan /\ thread'.pc \notin {"Returned", "Waiting"}
        BY <1>1, <1>4, RunsForSession DEF Copier
    <2>2. \A i \in DOMAIN messages' : messages'[i].kind # "Finish"
        BY <1>1, <1>4, RunsForSession
    <2>3. QED BY <1>1, <2>1, <2>2, ThreadGoesOnKept
<1>5. QED BY <1>2, <1>3, <1>4 DEF ThreadPlanned

\* A cancel answers the question, ...
LEMMA ThreadUnaskedKept ==
    ASSUME WindowInv, KeptInv, ThreadUnasked
    PROVE  KeptInv'
<1> DEFINE handover == thread.pc = "Elevation"
<1>1. /\ thread.pc # "Done" /\ handover \in BOOLEAN
      /\ ThreadPosts(Result("Cancelled"), handover)
      /\ UNCHANGED <<windowVars, finalizing, jobVars>>
    BY DEF ThreadUnasked, ThreadFrame, ThreadGivesUp
<1> HIDE DEF handover
<1>2. QED BY <1>1, ThreadGivesUpKept

\* ... or the user.
LEMMA AnswerPreflightKept ==
    ASSUME WindowInv, KeptInv, AnswerElevation \/ AnswerLowSpace
    PROVE  KeptInv'
<1>1. /\ thread.pc \in Before /\ thread.pc # "Done"
      /\ UNCHANGED <<windowVars, finalizing, jobVars>>
    BY DEF AnswerElevation, AnswerLowSpace, ThreadFrame, Before
<1>2. TRUE \in BOOLEAN /\ FALSE \in BOOLEAN OBVIOUS
<1>3. CASE \E kind \in {"Cancelled", "Failed"} : ThreadGivesUp(Result(kind), TRUE)
    <2>1. PICK kind \in {"Cancelled", "Failed"} : ThreadPosts(Result(kind), TRUE)
        BY <1>3 DEF ThreadGivesUp
    <2>2. QED BY <1>1, <1>2, <2>1, ThreadGivesUpKept
<1>4. CASE ThreadBegins BY <1>1, <1>4, ThreadBeginsKept
<1>5. CASE ThreadGivesUp(Result("Cancelled"), FALSE)
    <2>1. ThreadPosts(Result("Cancelled"), FALSE) BY <1>5 DEF ThreadGivesUp
    <2>2. QED BY <1>1, <1>2, <2>1, ThreadGivesUpKept
<1>6. QED BY <1>3, <1>4, <1>5 DEF AnswerElevation, AnswerLowSpace

\* One item is done, or set aside.
LEMMA ThreadCopiesKept ==
    ASSUME WindowInv, KeptInv, ThreadCopies
    PROVE  KeptInv'
<1>1. /\ thread.pc = "Executing" /\ UNCHANGED <<windowVars, finalizing>>
      /\ UNCHANGED <<home, astray, thread, messages>>
    BY DEF ThreadCopies, ThreadFrame, threadVars
<1>2. PICK j \in Job : \E end \in {"Done", "Parked"} :
          home[j] = thread.plan /\ fate' = [fate EXCEPT ![j] = end]
    BY DEF ThreadCopies, Remaining, Among
<1>3. fate \in [Job -> Fate] /\ \A i \in DOMAIN messages : messages[i].kind # "Finish"
    BY <1>1, RunsForSession
<1>4. \A k \in Job : k # j => fate'[k] = fate[k] BY <1>2, <1>3
<1>5. fate'[j] \in {"Done", "Parked"} BY <1>2, <1>3
<1>6. ParkedKept' BY <1>1 DEF ParkedKept
<1>7. SuccessKept' BY <1>1, <1>3 DEF SuccessKept
<1>8. \A k \in Job : fate'[k] \in {"Pending", "Parked"} =>
          \/ home'[k] = thread.plan
          \/ home'[k] = home[k] /\ fate[k] \in {"Pending", "Parked"}
    BY <1>1, <1>2, <1>4
<1>9. QED BY <1>1, <1>6, <1>7, <1>8, ThreadKept

\* execute() returns, and says whether it has set anything aside.
LEMMA ThreadReturnsKept ==
    ASSUME WindowInv, KeptInv, thread.pc # "Done", NEW kind, NEW conflict,
           ThreadReturns(kind, conflict),
           UNCHANGED <<windowVars, finalizing, jobVars, messages>>
    PROVE  KeptInv'
<1> DEFINE aside == Among(fate, thread.plan, {"Parked"}) # {}
<1>1. /\ thread \in Copier /\ \A i \in DOMAIN messages : messages[i].kind # "Finish"
      /\ home' = home /\ fate' = fate /\ astray' = astray
    BY RunsForSession DEF jobVars
<1>2. thread'.plan = thread.plan /\ thread'.result.parked = aside
    BY <1>1 DEF ThreadReturns, Copier
<1>3. aside <=> \E j \in Job : home[j] = thread.plan /\ fate[j] = "Parked" BY DEF Among
<1> HIDE DEF aside
<1>4. ParkedKept' BY <1>1, <1>2, <1>3 DEF ParkedKept
<1>5. SuccessKept' BY <1>1 DEF SuccessKept
<1>6. QED BY <1>1, <1>2, <1>4, <1>5, ThreadKept

\* It fails, is stopped, or has found nothing left.
LEMMA ThreadEndsKept ==
    ASSUME WindowInv, KeptInv, ThreadFails \/ ThreadStops \/ ThreadDrained
    PROVE  KeptInv'
<1>1. /\ thread.pc # "Done" /\ UNCHANGED <<windowVars, finalizing, jobVars, messages>>
    BY DEF ThreadFails, ThreadStops, ThreadDrained, ThreadFrame
<1>2. \/ \E kind, conflict : ThreadReturns(kind, conflict)
      \/ thread' = [thread EXCEPT !.pc = "Drained"]
    BY DEF ThreadFails, ThreadStops, ThreadDrained
<1>3. CASE \E kind, conflict : ThreadReturns(kind, conflict)
    <2>1. PICK kind, conflict : ThreadReturns(kind, conflict) BY <1>3
    <2>2. QED BY <1>1, <2>1, ThreadReturnsKept
<1>4. CASE thread' = [thread EXCEPT !.pc = "Drained"]
    <2>1. /\ thread \in Copier /\ \A i \in DOMAIN messages' : messages'[i].kind # "Finish"
        BY <1>1, RunsForSession
    <2>2. thread'.plan = thread.plan /\ thread'.pc = "Drained" BY <1>4, <2>1 DEF Copier
    <2>3. QED BY <1>1, <2>1, <2>2, ThreadGoesOnKept
<1>5. QED BY <1>2, <1>3, <1>4

\* The loop ends with a success only when the plan is empty, since nobody shuts
\* the gate of a session that is not cancelled.
LEMMA ThreadSettlesKept ==
    ASSUME WindowInv, KeptInv, thread.pc \in {"Returned", "Waiting"}, ThreadSettles(gates),
           UNCHANGED <<windowVars, finalizing, jobVars>>
    PROVE  KeptInv'
<1>1. /\ thread.pc # "Done" /\ thread \in Copier
      /\ (Accepting(gates, gate) <=> ~cancelRequested)
      /\ \A i \in DOMAIN messages : messages[i].kind # "Finish"
    BY RunsForSession
<1>2. thread.result \in ResultType /\ FALSE \in BOOLEAN BY <1>1 DEF Copier
<1>3. \/ ThreadPosts(Result("Cancelled"), FALSE)
      \/ thread.result.kind = "Stopped" /\ ThreadPosts(thread.result, FALSE)
      \/ /\ thread' = [thread EXCEPT !.pc = "Executing", !.result = Result("None")]
         /\ messages' = messages
      \/ Remaining(thread.plan) = {} /\ ThreadPosts(thread.result, FALSE)
    BY <1>1 DEF ThreadSettles, ThreadGivesResult
<1>4. CASE ThreadPosts(Result("Cancelled"), FALSE)
    BY <1>1, <1>2, <1>4, ThreadGivesUpKept
<1>5. CASE thread.result.kind = "Stopped" /\ ThreadPosts(thread.result, FALSE)
    BY <1>1, <1>2, <1>5, ThreadPostsKept
<1>6. CASE /\ thread' = [thread EXCEPT !.pc = "Executing", !.result = Result("None")]
           /\ messages' = messages
    <2>1. thread'.plan = thread.plan /\ thread'.pc = "Executing" BY <1>1, <1>6 DEF Copier
    <2>2. QED BY <1>1, <1>6, <2>1, ThreadGoesOnKept
<1>7. CASE Remaining(thread.plan) = {} /\ ThreadPosts(thread.result, FALSE)
    <2>1. \A j \in Job : home[j] = thread.plan => fate[j] # "Pending"
        BY <1>7 DEF Remaining, Among
    <2>2. \A j \in Job : home[j] = thread.plan =>
              thread.result.parked \/ fate[j] # "Parked"
        BY DEF KeptInv, ParkedKept
    <2>3. QED BY <1>1, <1>2, <1>7, <2>1, <2>2, ThreadPostsKept
<1>8. QED BY <1>3, <1>4, <1>5, <1>6, <1>7

\* What the loop does with what execute() returns.
LEMMA ThreadReturnedKept ==
    ASSUME WindowInv, KeptInv, ThreadReturned
    PROVE  KeptInv'
<1>1. /\ thread.pc = "Returned" /\ thread.pc # "Done"
      /\ UNCHANGED <<windowVars, finalizing, jobVars>>
    BY DEF ThreadReturned, ThreadFrame
<1>2. /\ thread \in Copier /\ \A i \in DOMAIN messages : messages[i].kind # "Finish"
    BY <1>1, RunsForSession
<1>3. thread.result \in ResultType /\ FALSE \in BOOLEAN BY <1>2 DEF Copier
<1>4. CASE thread.result.kind \in {"Cancelled", "Failed"} /\ ThreadPosts(thread.result, FALSE)
    BY <1>1, <1>3, <1>4, ThreadPostsKept
<1>5. CASE thread' = [thread EXCEPT !.pc = "Waiting"] /\ messages' = messages
    <2>1. thread'.plan = thread.plan /\ thread'.result = thread.result
        BY <1>2, <1>5 DEF Copier
    <2>2. QED BY <1>1, <1>2, <1>5, <2>1, ThreadGoesOnKept
<1>6. CASE ThreadSettles(gates) BY <1>1, <1>6, ThreadSettlesKept
<1>7. QED BY <1>4, <1>5, <1>6 DEF ThreadReturned, ThreadGivesResult

\* A planner that answers ends the wait, or the limit does, which goes past what
\* has come through the gate it shuts.
LEMMA ThreadWaitsKept ==
    ASSUME WindowInv, KeptInv, ThreadWaits
    PROVE  KeptInv'
<1> DEFINE gs == Shut(gates, gate)
           over == thread.result.kind = "Success" /\ directive = "Run"
<1>1. /\ thread.pc = "Waiting" /\ thread.pc # "Done"
      /\ UNCHANGED <<windowVars, finalizing, home, fate>>
    BY DEF ThreadWaits, ThreadFrame
<1>2. /\ thread \in Copier /\ gate # 0 /\ directive \in {"Run", "Stop", "Cancel"}
      /\ gates \in Seq(Gate) /\ gate \in DOMAIN gates
    BY <1>1, RunsForSession, SessionFacts DEF WindowInv
<1>3. thread.result \in ResultType /\ FALSE \in BOOLEAN BY <1>2 DEF Copier
<1>4. CASE ThreadSettles(gates) /\ UNCHANGED astray
    BY <1>1, <1>4, ThreadSettlesKept DEF jobVars
<1>5. CASE ThreadSettles(gs) /\ Loses(IF over THEN Remaining(thread.plan) ELSE {})
    <2>1. ~Accepting(gs, gate)
        <3>1. gate \in 0..Len(gates) /\ gate \in 1..Len(gates) BY <1>2
        <3>2. ~gs[gate].accepting BY <1>2, <3>1, ShutEffect
        <3>3. QED BY <3>2 DEF Accepting
    <2>2. astray \subseteq astray' /\ (over => Remaining(thread.plan) \subseteq astray')
        BY <1>5 DEF Loses
    <2>3. \A kind \in {"Cancelled", "Stopped"} :
              Result(kind) \in ResultType /\ Result(kind).kind # "Success"
        BY DEF Result, ResultType
    <2>4. PICK result \in ResultType :
              ThreadPosts(result, FALSE) /\ (result.kind = "Success" => over /\ result = thread.result)
        <3>1. \/ ThreadPosts(Result("Cancelled"), FALSE)
              \/ thread.result.kind = "Stopped" /\ ThreadPosts(thread.result, FALSE)
              \/ directive = "Run" /\ ThreadPosts(thread.result, FALSE)
              \/ directive # "Run" /\ ThreadPosts(Result(Ending), FALSE)
            BY <1>5, <2>1 DEF ThreadSettles, ThreadGivesResult
        <3>2. directive # "Run" => Ending \in {"Cancelled", "Stopped"} BY <1>2 DEF Ending
        <3>3. QED BY <1>3, <2>3, <3>1, <3>2
    <2>5. over => \A j \in Job : home[j] = thread.plan =>
              /\ fate[j] # "Pending" \/ j \in astray'
              /\ fate[j] # "Parked" \/ thread.result.parked
        BY <1>1, <2>2 DEF Remaining, Among, KeptInv, ParkedKept
    <2> HIDE DEF over
    <2>6. QED BY <1>1, <1>3, <2>2, <2>4, <2>5, ThreadTellsKept
<1>6. QED BY <1>4, <1>5 DEF ThreadWaits

-----------------------------------------------------------------------------
(***************************************************************************)
(* ... and as the planner appends to them.                                 *)
(***************************************************************************)
\* Before it answers.
LEMMA PlannerPreparesKept ==
    ASSUME WindowInv, KeptInv, PlannerTakes \/ PlannerBuilds
    PROVE  KeptInv'
<1>1. SessionInv BY DEF WindowInv, SessionPart
<1>2. UNCHANGED <<control, interrupted, live, thread, home, fate, astray, finalizing, messages,
                  queuedSessions, deferredStopped>>
      /\ InQueue' = InQueue /\ InStopped' = InStopped
    BY DEF PlannerTakes, PlannerBuilds, PlannerFrame, windowVars, deferVars, stateVars, sessionVars,
           threadVars, jobVars, InQueue, InStopped
<1>3. QED BY <1>1, <1>2, KeptStays

\* A plan is committed to the session that is there, while nobody gives it up.
LEMMA PlannerAnswersKept ==
    ASSUME WindowInv, KeptInv, PlannerAnswers
    PROVE  KeptInv'
<1> DEFINE r == planner.request
           j == r.job
<1>1. /\ planner.pc = "Answering"
      /\ UNCHANGED <<control, interrupted, live, thread, finalizing, messages, queuedSessions,
                     deferredStopped>>
      /\ InQueue' = InQueue /\ InStopped' = InStopped
    BY DEF PlannerAnswers, PlannerFrame, windowVars, deferVars, stateVars, sessionVars, threadVars,
           InQueue, InStopped
<1>2. /\ SessionInv /\ GateInv /\ MessageInv /\ fate \in [Job -> Fate]
      /\ home \in [Job -> Job \cup {None}] /\ r \in AppendRequest
    BY <1>1 DEF WindowInv, SessionPart, Typed, RestTyped
<1>3. j \in Job /\ r.plan \in Job /\ r.gate # 0 /\ r \in Requests
    BY <1>1, <1>2 DEF AppendRequest, Requests, Busy
<1>4. fate[j] = "Accepted"
    BY <1>1 DEF WindowInv, FateInv, InWait, InWorker, Busy
<1> HIDE DEF r, j
<1>5. CASE /\ Accepting(gates, r.gate)
           /\ fate' = [fate EXCEPT ![j] = "Pending"]
           /\ home' = [home EXCEPT ![j] = r.plan]
           /\ Loses(IF finalizing THEN {j} ELSE {})
    <2>1. astray \subseteq astray' /\ (finalizing => j \in astray') BY <1>5 DEF Loses
    <2>2. gates[r.gate].accepting /\ r.gate \in DOMAIN gates
        BY <1>2, <1>3, <1>5 DEF Accepting, GateInv, WindowInv, SessionPart, Typed, TypeOK,
           AppendRequest
    <2>3. r.gate = gate /\ r.plan = live /\ HasActiveTransfer
        BY <1>2, <1>3, <2>2 DEF GateInv, OpenGateHasOwner
    <2>4. live # None BY <1>3, <2>3, WindowAssumption
    <2>5. \/ control /\ live = thread.plan /\ thread.pc # "Done"
          \/ interrupted # "None" /\ ~control
        BY <1>2, <2>2, <2>3, <2>4 DEF SessionInv, GateInv
    <2>6. \A i \in DOMAIN messages : messages[i].kind # "Finish"
        BY <1>2, <2>5 DEF MessageInv
    <2>7. \A k \in Job : IF k = j THEN fate'[k] = "Pending" /\ home'[k] = live
                         ELSE fate'[k] = fate[k] /\ home'[k] = home[k]
        BY <1>2, <1>5, <2>3
    <2>8. HomeKept' BY <1>1, <2>1, <2>5, <2>7 DEF KeptInv, HomeKept
    <2>9. EmptyKept' BY <1>1, <2>1, <2>7 DEF KeptInv, EmptyKept
    <2>10. ParkedKept' BY <1>1, <1>4, <2>7 DEF KeptInv, ParkedKept
    <2>11. SuccessKept' BY <1>1, <2>6 DEF SuccessKept
    <2>12. QueueKept' BY <1>1, <2>1 DEF KeptInv, QueueKept
    <2>13. QED BY <2>8, <2>9, <2>10, <2>11, <2>12 DEF KeptInv
<1>6. CASE /\ \E outcome \in {"Refused", "Dropped"} : fate' = [fate EXCEPT ![j] = outcome]
           /\ home' = home /\ astray' = astray
    <2>1. \A k \in Job : fate'[k] = fate[k] \/ (k = j /\ fate'[k] \in {"Refused", "Dropped"})
        BY <1>2, <1>6
    <2>2. QED BY <1>1, <1>2, <1>4, <1>6, <2>1, KeptStays
<1>7. QED BY <1>5, <1>6 DEF PlannerAnswers, PlannerCommits, r, j

\* It reports.
LEMMA PlannerPostsKept ==
    ASSUME WindowInv, KeptInv, PlannerPosts
    PROVE  KeptInv'
<1> DEFINE m == [kind |-> IF planner.answer = "Plan" THEN "Appended" ELSE "PlanFailed",
                 request |-> planner.request]
           n == Len(messages) + 1
<1>1. /\ planner.pc = "Posting" /\ messages' = Append(messages, m)
      /\ UNCHANGED <<control, interrupted, live, thread, home, fate, astray, finalizing,
                     queuedSessions, deferredStopped>>
      /\ InQueue' = InQueue /\ InStopped' = InStopped
    BY DEF PlannerPosts, Post, PlannerFrame, windowVars, deferVars, stateVars, sessionVars,
           threadVars, jobVars, InQueue, InStopped
<1>2. /\ SessionInv /\ messages \in Seq(Notice) /\ planner.request \in AppendRequest
    BY <1>1 DEF WindowInv, SessionPart, Typed, RestTyped
<1>3. m \in Notice /\ m.kind # "Finish" BY <1>2 DEF Notice
<1> HIDE DEF m
<1>4. /\ DOMAIN messages' = DOMAIN messages \cup {n}
      /\ \A i \in DOMAIN messages : messages'[i] = messages[i]
      /\ messages'[n] = m
    BY <1>1, <1>2, <1>3, MessageAdded
<1>5. \A i \in DOMAIN messages' : messages'[i].kind = "Finish" =>
          \E k \in DOMAIN messages : messages'[i] = messages[k]
    BY <1>3, <1>4
<1>6. QED BY <1>1, <1>2, <1>5, KeptStays

\* Nothing happens.
LEMMA StutterKept ==
    ASSUME WindowInv, KeptInv, UNCHANGED vars
    PROVE  KeptInv'
<1>1. SessionInv BY DEF WindowInv, SessionPart
<1>2. UNCHANGED <<control, interrupted, live, thread, home, fate, astray, finalizing, messages,
                  queuedSessions, deferredStopped>>
      /\ InQueue' = InQueue /\ InStopped' = InStopped
    BY DEF vars, windowVars, deferVars, stateVars, sessionVars, threadVars, jobVars, InQueue,
           InStopped
<1>3. QED BY <1>1, <1>2, KeptStays

\* At first there are no jobs.
LEMMA InitKeptInv == Init => KeptInv
BY DEF Init, KeptInv, HomeKept, EmptyKept, ParkedKept, SuccessKept, QueueKept, InQueue, InStopped, ToSet, Quiet

\* Every step keeps them.
LEMMA NextKeptInv == WindowInv /\ KeptInv /\ [Next]_vars => KeptInv'
<1> SUFFICES ASSUME WindowInv, KeptInv, [Next]_vars PROVE KeptInv'
    OBVIOUS
<1>1. CASE Dispatch
    BY <1>1, PublishLivePlanKept, FinishesKept, PlannerReportsKept, FinalizeSessionKept
    DEF Dispatch
<1>2. CASE User
    BY <1>2, OnStopClickKept, CancelsKept, OnQueueRemoveClickKept, OnResumeClickKept,
       AnswerConflictKept, AnswerDecisionKept, AnswerPreflightKept
    DEF User
<1>3. CASE Router
    <2>1. PICK j \in Job : \/ ArriveIdle(j) \/ ArriveAppend(j) \/ ArriveWait(j)
                           \/ AskToWait(j) \/ AnswerToWait(j)
        BY <1>3 DEF Router
    <2>2. QED BY <2>1, ArriveIdleKept, ArrivesKept, AsksKept
<1>4. CASE Thread
    BY <1>4, ThreadPlansKept, ThreadPlannedKept, ThreadUnaskedKept, ThreadCopiesKept,
       ThreadEndsKept, ThreadReturnedKept, ThreadWaitsKept
    DEF Thread
<1>5. CASE Planner
    BY <1>5, PlannerPreparesKept, PlannerAnswersKept, PlannerPostsKept DEF Planner
<1>6. CASE UNCHANGED vars BY <1>6, StutterKept
<1>7. QED BY <1>1, <1>2, <1>3, <1>4, <1>5, <1>6 DEF Next

-----------------------------------------------------------------------------
(***************************************************************************)
(* What that says of the jobs.                                             *)
(***************************************************************************)
\* The places a job waits in, one behind the other.
LEMMA WaitingIs ==
    ASSUME WindowInv
    PROVE  ToSet(Waiting) = InWait /\ IsInjective(Waiting)
<1> DEFINE planned == [i \in DOMAIN planning |-> planning[i].job]
           worked == IF Busy THEN <<planner.request.job>> ELSE <<>>
<1>1. /\ queuedSessions \in Seq(Job) /\ deferredSame \in Seq(Job)
      /\ deferredStopped \in Seq(Job) /\ planning \in Seq(AppendRequest)
      /\ Busy => planner.request \in AppendRequest
    BY DEF WindowInv, SessionPart, Typed, RestTyped, Busy
<1>2. /\ IsInjective(queuedSessions) /\ IsInjective(deferredSame)
      /\ IsInjective(deferredStopped)
      /\ \A i, k \in DOMAIN planning : planning[i].job = planning[k].job => i = k
      /\ InQueue \cap InSame = {}
      /\ (InQueue \cup InSame) \cap InStopped = {}
      /\ (InQueue \cup InSame \cup InStopped) \cap InPlanning = {}
      /\ (InQueue \cup InSame \cup InStopped \cup InPlanning) \cap InWorker = {}
    BY DEF WindowInv, PlacesInv
<1>3. planned \in Seq(Job) /\ ToSet(planned) = InPlanning /\ IsInjective(planned)
    <2>1. /\ DOMAIN planning = 1..Len(planning) /\ Len(planning) \in Nat
          /\ \A i \in DOMAIN planning : planning[i] \in AppendRequest
        <3>1. planning \in Seq(AppendRequest) BY <1>1
        <3>2. QED BY <3>1
    <2>2. \A i \in DOMAIN planning : planning[i].job \in Job BY <2>1 DEF AppendRequest
    <2>3. planned \in Seq(Job) BY <2>1, <2>2
    <2>4. DOMAIN planned = DOMAIN planning
          /\ \A i \in DOMAIN planning : planned[i] = planning[i].job
        OBVIOUS
    <2> HIDE DEF planned
    <2>5. ToSet(planned) = InPlanning BY <2>4 DEF ToSet, InPlanning, Jobs
    <2>6. \A i, k \in DOMAIN planned : planned[i] = planned[k] => i = k BY <1>2, <2>4
    <2>7. IsInjective(planned) BY <2>6 DEF IsInjective
    <2>8. QED BY <2>5, <2>7, <2>3
<1>4. worked \in Seq(Job) /\ ToSet(worked) = InWorker /\ IsInjective(worked)
    <2>1. CASE Busy
        <3> DEFINE x == planner.request.job
        <3>1. x \in Job /\ worked = <<x>> BY <1>1, <2>1 DEF AppendRequest
        <3> HIDE DEF x
        <3>2. worked \in Seq(Job) /\ DOMAIN <<x>> = {1} /\ <<x>>[1] = x BY <3>1
        <3>3. ToSet(<<x>>) = {x} /\ IsInjective(<<x>>) BY <3>2 DEF ToSet, IsInjective
        <3>4. QED BY <2>1, <3>1, <3>2, <3>3 DEF InWorker, x
    <2>2. CASE ~Busy BY <2>2, NothingIn DEF InWorker
    <2>3. QED BY <2>1, <2>2
<1>5. Waiting = queuedSessions \o deferredSame \o deferredStopped \o planned \o worked
    BY DEF Waiting, Busy
<1> HIDE DEF planned, worked
<1> DEFINE two == queuedSessions \o deferredSame
           three == two \o deferredStopped
           four == three \o planned
<1>6. two \in Seq(Job) /\ ToSet(two) = InQueue \cup InSame /\ IsInjective(two)
    BY <1>1, <1>2, OneBehindTheOther DEF InQueue, InSame
<1> HIDE DEF two
<1>7. /\ three \in Seq(Job) /\ ToSet(three) = InQueue \cup InSame \cup InStopped
      /\ IsInjective(three)
    BY <1>1, <1>2, <1>6, OneBehindTheOther DEF InStopped
<1> HIDE DEF three
<1>8. /\ four \in Seq(Job)
      /\ ToSet(four) = InQueue \cup InSame \cup InStopped \cup InPlanning
      /\ IsInjective(four)
    BY <1>2, <1>3, <1>7, OneBehindTheOther
<1> HIDE DEF four
<1>9. ToSet(four \o worked) = InWait /\ IsInjective(four \o worked)
    BY <1>2, <1>4, <1>8, OneBehindTheOther DEF InWait
<1>10. Waiting = four \o worked BY <1>5 DEF four, three, two
<1>11. QED BY <1>9, <1>10

\* No job is in two of the window's containers, or in one while it is copied,
\* whatever happens: AppendTransfer(), PublishLivePlan(), FinishCopy() and the
\* planner hand a job on and never keep it.
THEOREM NothingIsTwice == Spec => []NothingTwice
<1>1. WindowInv => NothingTwice
    BY WaitingIs DEF WindowInv, FateInv, NothingTwice
<1>2. QED BY <1>1, WindowInvariant, PTL

\* No job that the window has accepted is lost, and none waits in a window that
\* has nothing to do, whatever the planner, the thread, the router and the buttons
\* do and in whatever order: but for the jobs of the four steps that write astray,
\* where RunLivePlanSession(), the finalizers, FinishCopy() and the router's answer
\* go past them.
THEOREM JobsAreKept == Spec => []JobsExact
<1>1. Init => KeptInv BY InitKeptInv
<1>2. WindowInv /\ KeptInv /\ [Next]_vars => KeptInv' BY NextKeptInv
<1>3. WindowInv /\ KeptInv => JobsExact
    <2>1. SUFFICES ASSUME WindowInv, KeptInv PROVE JobsExact OBVIOUS
    <2>2. ToSet(Waiting) = InWait BY <2>1, WaitingIs
    <2>3. NothingElseLost
        BY <2>1, <2>2 DEF WindowInv, FateInv, KeptInv, HomeKept, NothingElseLost, Unsettled,
           Reached
    <2>4. NothingTwice BY <2>1, WaitingIs DEF WindowInv, FateInv, NothingTwice
    <2>5. SessionInv BY <2>1 DEF WindowInv, SessionPart
    <2>6. NoIdleWork
        BY <2>1, <2>5 DEF KeptInv, QueueKept, SessionInv, NoIdleWork, HasActiveTransfer,
           InQueue, InStopped
    <2>7. QED BY <2>3, <2>4, <2>6 DEF JobsExact
<1>4. QED BY <1>1, <1>2, <1>3, WindowInvariant, PTL DEF Spec
=============================================================================
