----------------------- MODULE TransferRoutingProofs -----------------------
(***************************************************************************)
(* Proofs about the routing of requests, for any number of jobs and        *)
(* windows, any kinds and any devices.                                     *)
(*                                                                         *)
(* Two of the theorems speak of one window at a time, and every action     *)
(* changes windows one by one.  So their invariant is a property of the    *)
(* state of a window, Sound; a lemma for each way the state of a window is *)
(* built says that the result is sound, and each action is one of those    *)
(* ways.                                                                   *)
(*                                                                         *)
(* The third, that no job is lost or handled twice, is about all of them   *)
(* together.  Its invariant is PlacesInv: the router and the windows hold  *)
(* sets of jobs that have nothing in common, none holds a job twice, and a *)
(* job is live exactly while it is held.  A job may also be lost because   *)
(* there is no window to give it to; that this does not happen is a count: *)
(* a window is created only for a job that leaves the router, so fewer     *)
(* windows were created than there are jobs.                               *)
(***************************************************************************)
EXTENDS TransferRouting, SequenceTheorems, FiniteSetTheorems, WellFoundedInduction,
        TLAPS

Kinds   == {Kind[j] : j \in Job} \cup {None}
Devices == {Storage[j] : j \in Job} \cup {{}}
Later   == [job : Job, storage : Devices]
Life    == {"Unborn", "Open", "Exiting", "Gone"}

State == [life : Life, hidden : BOOLEAN,
          session : Session, kind : Kinds,
          storage : Devices, accepting : BOOLEAN, cancel : BOOLEAN,
          plan : SUBSET Job, joining : Seq(Job),
          waiting : Seq(Later), vote : BOOLEAN]

Shaped(s)  == s \in State
OwnKind(s) == \A j \in s.plan : Kind[j] = s.kind
TrueVote(s) == s.vote => s.hidden /\ ~Copies(s)

\* A window that has all its fields, holds files of its own kind only, and
\* votes for the efficiency mode only while it is hidden and does not copy.
Sound(s) == Shaped(s) /\ OwnKind(s) /\ TrueVote(s)

WindowsSound == win \in [Window -> State] /\ \A w \in Window : Sound(win[w])

RouterTyped == pending \in Seq(Job) /\ (route = None \/ route \in Request)

RoutingInv == RouterTyped /\ WindowsSound
-----------------------------------------------------------------------------
(***************************************************************************)
(* The states a window can be given.                                       *)
(***************************************************************************)

\* Nothing is at the planner, and nothing waits.
LEMMA NothingQueued == <<>> \in Seq(Job) /\ <<>> \in Seq(Later)
BY EmptySeq

\* Every job has a kind, and an idle window has none.
LEMMA KindsKnown == None \in Kinds /\ \A j \in Job : Kind[j] \in Kinds
BY DEF Kinds

\* A window before it exists, and one that is gone, vote for nothing.
LEMMA BlankSound ==
    ASSUME NEW life \in Life
    PROVE  Sound(Unborn) /\ Sound([Unborn EXCEPT !.life = life])
<1>1. {} \in Devices /\ "Unborn" \in Life /\ "None" \in Session
  BY DEF Devices, Life, Session
<1>2. Unborn \in State  BY <1>1, NothingQueued, KindsKnown DEF State, Unborn
<1>3. Unborn.plan = {} /\ Unborn.vote = FALSE  BY DEF Unborn
<1> DEFINE t == [Unborn EXCEPT !.life = life]
<1>4. t \in State /\ t.plan = Unborn.plan /\ t.vote = Unborn.vote  BY <1>2 DEF State
<1> HIDE DEF t
<1> QED  BY <1>2, <1>3, <1>4 DEF Sound, Shaped, OwnKind, TrueVote, t

\* RefreshEfficiencyMode() casts the vote anew, whatever it was before.
LEMMA RefreshedSound ==
    ASSUME NEW s, Shaped(s), OwnKind(s)
    PROVE  Sound(Refreshed(s))
<1> DEFINE v == Eligible(s)
<1>1. v \in BOOLEAN /\ (v => s.hidden /\ ~Copies(s))  BY DEF Eligible
<1>2. Refreshed(s) = [s EXCEPT !.vote = v]  BY DEF Refreshed
<1> HIDE DEF v
<1> QED  BY <1>1, <1>2 DEF Sound, Shaped, State, OwnKind, TrueVote, Copies

\* ShowFromTray() casts it too.
LEMMA ShownSound ==
    ASSUME NEW s, Sound(s)
    PROVE  Sound(Shown(s))
<1> DEFINE t == [s EXCEPT !.hidden = FALSE]
<1>1. Shaped(t) /\ OwnKind(t)  BY DEF Sound, Shaped, State, OwnKind
<1> HIDE DEF t
<1>2. Sound(Refreshed(t))  BY <1>1, RefreshedSound
<1> QED  BY <1>2 DEF Shown, t

\* StartTransfer() takes the kind of the session from the one job it plans.
LEMMA StartedSound ==
    ASSUME NEW s, Shaped(s), NEW j \in Job, NEW storage \in Devices
    PROVE  Sound(Started(s, j, storage))
<1> DEFINE t == [s EXCEPT !.session = "Planning", !.kind = Kind[j],
                          !.storage = storage, !.accepting = TRUE, !.cancel = FALSE,
                          !.plan = {j}, !.joining = <<>>]
<1>1. Shaped(t) /\ OwnKind(t)
  BY NothingQueued, KindsKnown DEF Shaped, State, Session, OwnKind
<1> HIDE DEF t
<1>2. Sound(Refreshed(t))  BY <1>1, RefreshedSound
<1> QED  BY <1>2 DEF Started, t

\* A session that is over leaves no plan.
LEMMA EndedSound ==
    ASSUME NEW s, Shaped(s)
    PROVE  Sound(Ended(s))
<1> DEFINE t == [s EXCEPT !.session = "None", !.kind = None, !.accepting = FALSE,
                          !.plan = {}, !.joining = <<>>]
<1>1. Shaped(t) /\ OwnKind(t)
  BY NothingQueued, KindsKnown DEF Shaped, State, Session, OwnKind
<1> HIDE DEF t
<1>2. Sound(Refreshed(t))  BY <1>1, RefreshedSound
<1> QED  BY <1>2 DEF Ended, t

\* StartNextQueuedSession() is a StartTransfer() of the first job that waits.
LEMMA ContinuedSound ==
    ASSUME NEW s, Shaped(s), s.waiting # <<>>
    PROVE  Sound(Continued(s))
<1> DEFINE t == [s EXCEPT !.waiting = Tail(@)]
<1>1. s.waiting \in Seq(Later)  BY DEF Shaped, State
<1>2. Head(s.waiting) \in Later /\ Tail(s.waiting) \in Seq(Later)  BY <1>1
<1>3. Shaped(t)  BY <1>2 DEF Shaped, State
<1>4. Head(s.waiting).job \in Job /\ Head(s.waiting).storage \in Devices
  BY <1>2 DEF Later
<1> HIDE DEF t
<1>5. Sound(Started(t, Head(s.waiting).job, Head(s.waiting).storage))
  BY <1>3, <1>4, StartedSound
<1> QED  BY <1>5 DEF Continued, t

\* What is at the planner and what waits has no part in the vote.
LEMMA QueuesApart ==
    ASSUME NEW s, Sound(s)
    PROVE  /\ \A q \in Seq(Job) : Sound([s EXCEPT !.joining = q])
           /\ \A q \in Seq(Later) : Sound([s EXCEPT !.waiting = q])
BY DEF Sound, Shaped, State, OwnKind, TrueVote, Copies

\* A window is created with a state of its own, or is one already.
LEMMA BornSound ==
    ASSUME WindowsSound, NEW w \in Window
    PROVE  Sound(Born(w))
BY BlankSound DEF Born, WindowsSound, Life
-----------------------------------------------------------------------------
(***************************************************************************)
(* The changes of one window.                                              *)
(***************************************************************************)

\* One window that becomes sound leaves all of them sound.
LEMMA OneBecomes ==
    ASSUME WindowsSound, NEW w, NEW s, w \in Window => Sound(s), Becomes(w, s)
    PROVE  WindowsSound'
<1>1. \A v \in Window : win'[v] \in {s, win[v]} /\ (win'[v] = s => Sound(s) \/ win'[v] = win[v])
  BY DEF WindowsSound, Becomes
<1>2. \A v \in Window : Sound(win'[v])  BY <1>1 DEF WindowsSound
<1>3. \A v \in Window : win'[v] \in State  BY <1>2 DEF Sound, Shaped
<1>4. win' \in [Window -> State]  BY <1>3 DEF WindowsSound, Becomes
<1> QED  BY <1>2, <1>4 DEF WindowsSound, Sound, Shaped, OwnKind, TrueVote, Copies

\* The end of a session: the next one, an idle window, or none.
LEMMA GoesOnSound ==
    ASSUME WindowsSound, NEW w, NEW s, Shaped(s), NEW stays, GoesOn(w, s, stays)
    PROVE  WindowsSound'
<1>1. Sound(Ended(s))  BY EndedSound
<1>2. s.waiting # <<>> => Sound(Continued(Ended(s)))
  <2>1. Ended(s).waiting = s.waiting  BY DEF Ended, Refreshed, Shaped, State
  <2> QED  BY <1>1, <2>1, ContinuedSound DEF Sound
<1>3. Sound(Destroyed(s))  BY BlankSound DEF Destroyed, Life
<1>4. \/ s.waiting # <<>> /\ Becomes(w, Continued(Ended(s)))
      \/ Becomes(w, Ended(s))
      \/ Becomes(w, Destroyed(s))
  BY DEF GoesOn
<1> QED  BY <1>1, <1>2, <1>3, <1>4, OneBecomes

\* CancelCurrentSession(), of a window that is to close or not.
LEMMA CancelsSound ==
    ASSUME WindowsSound, NEW w, NEW s, Sound(s), NEW also, CancelsSession(w, s, also)
    PROVE  WindowsSound'
<1> DEFINE t == [s EXCEPT !.joining = <<>>, !.accepting = FALSE, !.cancel = TRUE]
<1>1. Sound(t)
  BY NothingQueued DEF Sound, Shaped, State, OwnKind, TrueVote, Copies
<1>2. \/ Becomes(w, t)
      \/ t.waiting # <<>> /\ Becomes(w, Continued(Ended(t)))
      \/ Becomes(w, Destroyed(t))
  BY DEF CancelsSession
<1> HIDE DEF t
<1>3. Sound(Ended(t))  BY <1>1, EndedSound DEF Sound
<1>4. t.waiting # <<>> => Sound(Continued(Ended(t)))
  <2>1. Ended(t).waiting = t.waiting  BY <1>1 DEF Ended, Refreshed, Sound, Shaped, State
  <2> QED  BY <1>3, <2>1, ContinuedSound DEF Sound
<1>5. Sound(Destroyed(t))  BY BlankSound DEF Destroyed, Life
<1> QED  BY <1>1, <1>2, <1>3, <1>4, <1>5, OneBecomes

\* StartTransfer() in the window that is free for it, or in a new one.
LEMMA StartNewSound ==
    ASSUME WindowsSound, NEW j \in Job, StartNew(j)
    PROVE  WindowsSound'
<1> DEFINE w == IF IdleVisible # {} THEN Min(IdleVisible) ELSE NextWindow
           s == Started(Shown(Born(w)), j, Storage[j])
<1>1. Becomes(w, s)  BY DEF StartNew, Becomes
<1> HIDE DEF w
<1>2. w \in Window => Sound(s)
  <2>1. SUFFICES ASSUME w \in Window PROVE Sound(s)  OBVIOUS
  <2>2. Sound(Shown(Born(w)))  BY <2>1, BornSound, ShownSound
  <2> QED  BY <2>2, StartedSound DEF Sound, Devices
<1> HIDE DEF s
<1> QED  BY <1>1, <1>2, OneBecomes

\* A job that is handed over joins, waits, or has a session of its own.
LEMMA HandsOverSound ==
    ASSUME WindowsSound, NEW j \in Job, NEW choice, NEW w, HandsOver(j, choice, w)
    PROVE  WindowsSound'
<1> DEFINE t == Shown(win[w])
<1>1. w \in Window => Sound(t)  BY ShownSound DEF WindowsSound
<1>2. CASE AppendTransfer(w, j)
  <2> DEFINE q == Append(t.joining, j)
  <2>1. w \in Window => q \in Seq(Job)  BY <1>1 DEF Sound, Shaped, State
  <2>2. Becomes(w, [t EXCEPT !.joining = q])
    BY <1>2 DEF AppendTransfer, Becomes
  <2> HIDE DEF t, q
  <2>3. w \in Window => Sound([t EXCEPT !.joining = q])
    BY <1>1, <2>1, QueuesApart
  <2> QED  BY <2>2, <2>3, OneBecomes
<1>3. CASE EnqueueTransfer(w, j)
  <2> DEFINE q == Append(t.waiting, [job |-> j, storage |-> Storage[j]])
  <2>1. w \in Window => q \in Seq(Later)
    BY <1>1 DEF Sound, Shaped, State, Later, Devices
  <2>2. Becomes(w, [t EXCEPT !.waiting = q])
    BY <1>3 DEF EnqueueTransfer, Becomes
  <2> HIDE DEF t, q
  <2>3. w \in Window => Sound([t EXCEPT !.waiting = q])
    BY <1>1, <2>1, QueuesApart
  <2> QED  BY <2>2, <2>3, OneBecomes
<1>4. CASE StartNew(j)  BY <1>4, StartNewSound
<1> QED  BY <1>2, <1>3, <1>4 DEF HandsOver

\* The router hands over, or shows the window its question is about.
LEMMA ConsidersSound ==
    ASSUME WindowsSound, NEW j \in Job, NEW attempt, NEW p, Considers(j, attempt, p)
    PROVE  WindowsSound'
<1> DEFINE r == RouteTransfer(j, p)
<1>1. CASE HandsOver(j, r.choice, r.window)  BY <1>1, HandsOverSound
<1>2. CASE win' = [win EXCEPT ![r.window] = Shown(@)]
  <2> HIDE DEF r
  <2>1. Becomes(r.window, Shown(win[r.window]))  BY <1>2 DEF Becomes, WindowsSound
  <2>2. r.window \in Window => Sound(Shown(win[r.window]))
    BY ShownSound DEF WindowsSound
  <2> QED  BY <2>1, <2>2, OneBecomes
<1> QED  BY <1>1, <1>2 DEF Considers
-----------------------------------------------------------------------------
(***************************************************************************)
(* The steps.                                                              *)
(***************************************************************************)

\* The person answers: the job is handed over, or considered once more.
LEMMA AnswerSound ==
    ASSUME RoutingInv, NEW choice, NEW remember, Answer(choice, remember)
    PROVE  WindowsSound'
<1>1. \/ HandsOver(route.job, choice, route.window)
      \/ \E p : Considers(route.job, 1, p)
      \/ StartNew(route.job)
  BY DEF Answer
<1>2. WindowsSound /\ route.job \in Job  BY DEF RoutingInv, RouterTyped, Answer, Request
<1> QED  BY <1>1, <1>2, HandsOverSound, ConsidersSound, StartNewSound

\* A delivery that fails shows a window that says so.
LEMMA FailsSound ==
    ASSUME WindowsSound, Fails
    PROVE  WindowsSound'
<1> DEFINE w == IF Living # {} THEN Max(Living) ELSE NextWindow
<1>1. Becomes(w, Shown(Born(w)))  BY DEF Fails, Becomes
<1> HIDE DEF w
<1>2. w \in Window => Sound(Shown(Born(w)))  BY BornSound, ShownSound
<1> QED  BY <1>1, <1>2, OneBecomes

\* The thread of the session makes its way: planned, copying, gate closed,
\* interrupted, resumed.
LEMMA ThreadSound ==
    ASSUME WindowsSound, NEW w \in Window,
           PlanReady(w) \/ GateCloses(w) \/ Interrupts(w) \/ Resumes(w)
    PROVE  WindowsSound'
<1> DEFINE s == win[w]
<1>1. Sound(s)  BY DEF WindowsSound
<1>2. CASE PlanReady(w)
  <2> DEFINE t == [s EXCEPT !.session = "Copying"]
  <2>1. Shaped(t) /\ OwnKind(t)  BY <1>1, NothingQueued DEF Sound, Shaped, State, Session, OwnKind
  <2>2. Becomes(w, Refreshed(t))  BY <1>2 DEF PlanReady
  <2> HIDE DEF t
  <2> QED  BY <2>1, <2>2, RefreshedSound, OneBecomes
<1>3. CASE GateCloses(w)
  <2> DEFINE t == [s EXCEPT !.accepting = FALSE]
  <2>1. Sound(t)  BY <1>1 DEF Sound, Shaped, State, OwnKind, TrueVote, Copies
  <2>2. Becomes(w, t)  BY <1>3 DEF GateCloses
  <2> HIDE DEF t
  <2> QED  BY <2>1, <2>2, OneBecomes
<1>4. CASE Interrupts(w)
  <2> DEFINE t == [s EXCEPT !.session = "Interrupted", !.accepting = TRUE,
                            !.joining = <<>>]
  <2>1. Shaped(t) /\ OwnKind(t)  BY <1>1, NothingQueued DEF Sound, Shaped, State, Session, OwnKind
  <2>2. \/ Becomes(w, [Refreshed(t) EXCEPT !.joining = win[w].joining])
        \/ Becomes(w, Refreshed(t))
    BY <1>4 DEF Interrupts
  <2> HIDE DEF t
  <2>3. Sound(Refreshed(t))  BY <2>1, RefreshedSound
  <2>4. s.joining \in Seq(Job)  BY <1>1 DEF Sound, Shaped, State
  <2>5. Sound([Refreshed(t) EXCEPT !.joining = win[w].joining])
    BY <2>3, <2>4, QueuesApart
  <2> QED  BY <2>2, <2>3, <2>5, OneBecomes
<1>5. CASE Resumes(w)
  <2> DEFINE t == [s EXCEPT !.session = "Copying", !.cancel = FALSE]
  <2>1. Shaped(t) /\ OwnKind(t)  BY <1>1, NothingQueued DEF Sound, Shaped, State, Session, OwnKind
  <2>2. Becomes(w, Refreshed(t)) \/ GoesOn(w, win[w], FALSE)
    BY <1>5 DEF Resumes
  <2> HIDE DEF t
  <2>3. Sound(Refreshed(t))  BY <2>1, RefreshedSound
  <2> QED  BY <1>1, <2>2, <2>3, OneBecomes, GoesOnSound DEF Sound
<1> QED  BY <1>2, <1>3, <1>4, <1>5

\* A session ends, well or not.
LEMMA EndsSound ==
    ASSUME WindowsSound, NEW w \in Window,
           PlanFails(w) \/ Declined(w) \/ Finishes(w)
    PROVE  WindowsSound'
<1>1. Shaped(win[w])  BY DEF WindowsSound, Sound
<1>2. CASE PlanFails(w)
  <2> DEFINE s == Requeued(win[w], win[w].joining)
  <2>1. Shaped(s)
    <3> DEFINE v == win[w]
               q == [i \in DOMAIN v.joining |-> [job |-> v.joining[i], storage |-> {}]]
    <3>1. v.joining \in Seq(Job) /\ v.waiting \in Seq(Later)  BY <1>1 DEF Shaped, State
    <3>2. q \in Seq(Later)
      <4>1. DOMAIN v.joining = 1..Len(v.joining) /\ Len(v.joining) \in Nat  BY <3>1
      <4>2. \A i \in 1..Len(v.joining) : [job |-> v.joining[i], storage |-> {}] \in Later
        BY <3>1 DEF Later, Devices
      <4> HIDE DEF v
      <4> QED  BY <4>1, <4>2, IsASeq
    <3>3. s = [v EXCEPT !.waiting = q \o v.waiting]  BY <1>1 DEF Requeued, Shaped, State
    <3> HIDE DEF q
    <3>4. q \o v.waiting \in Seq(Later)  BY <3>1, <3>2
    <3> QED  BY <1>1, <3>3, <3>4 DEF Shaped, State
  <2>2. \E stays \in BOOLEAN : GoesOn(w, s, stays)  BY <1>2 DEF PlanFails
  <2> HIDE DEF s
  <2> QED  BY <2>1, <2>2, GoesOnSound
<1>3. CASE Declined(w)  BY <1>1, <1>3, GoesOnSound DEF Declined
<1>4. CASE Finishes(w)  BY <1>1, <1>4, GoesOnSound DEF Finishes
<1> QED  BY <1>2, <1>3, <1>4

\* LiveCopyPlan::append() takes a job only into a plan of its own kind.
LEMMA JoinsSound ==
    ASSUME WindowsSound, NEW w \in Window, Joins(w)
    PROVE  WindowsSound'
<1> DEFINE s == win[w]
           j == Head(s.joining)
           t == [s EXCEPT !.plan = @ \cup {j}, !.joining = Tail(@)]
           u == [s EXCEPT !.joining = Tail(@)]
<1>1. Sound(s)  BY DEF WindowsSound
<1>2. (Fits(s, j) /\ Becomes(w, t)) \/ Becomes(w, u)  BY DEF Joins
<1>3. s.joining # <<>>  BY DEF Joins
<1> HIDE DEF s
<1>4. j \in Job /\ Tail(s.joining) \in Seq(Job)
  BY <1>1, <1>3 DEF Sound, Shaped, State
<1>5. Sound(u)  BY <1>1, <1>4, QueuesApart
<1>6. ASSUME Fits(s, j) PROVE Sound(t)
  <2> HIDE DEF j
  <2> QED  BY <1>1, <1>4, <1>6 DEF Sound, Shaped, State, OwnKind, TrueVote, Copies, Fits
<1> HIDE DEF t, u
<1> QED  BY <1>2, <1>5, <1>6, OneBecomes

\* What the person does to a window, and files dropped on it.
LEMMA PersonSound ==
    ASSUME WindowsSound, NEW w \in Window,
           Cancels(w) \/ Closes(w) \/ Hides(w) \/ \E j \in Job : Drops(w, j)
    PROVE  WindowsSound'
<1> DEFINE s == win[w]
<1>1. Sound(s)  BY DEF WindowsSound
<1>2. CASE Cancels(w)  BY <1>1, <1>2, CancelsSound DEF Cancels
<1>3. CASE Closes(w)
  <2> DEFINE t == [s EXCEPT !.life = "Exiting", !.hidden = TRUE, !.waiting = <<>>]
             also == JobsOf(win[w].waiting)
  <2>1. Shaped(t) /\ OwnKind(t)  BY <1>1, NothingQueued DEF Sound, Shaped, State, Life, OwnKind
  <2>2. CancelsSession(w, Refreshed(t), also) \/ Becomes(w, Destroyed(s))
    BY <1>3 DEF Closes
  <2>3. Sound(Destroyed(s))  BY BlankSound DEF Destroyed, Life
  <2> HIDE DEF t, also
  <2>4. Sound(Refreshed(t))  BY <2>1, RefreshedSound
  <2> QED  BY <2>2, <2>3, <2>4, OneBecomes, CancelsSound
<1>4. CASE Hides(w)
  <2> DEFINE t == [s EXCEPT !.hidden = TRUE]
  <2>1. Shaped(t) /\ OwnKind(t)  BY <1>1 DEF Sound, Shaped, State, OwnKind
  <2>2. Becomes(w, Refreshed(t))  BY <1>4 DEF Hides
  <2> HIDE DEF t
  <2> QED  BY <2>1, <2>2, RefreshedSound, OneBecomes
<1>5. CASE \E j \in Job : Drops(w, j)
  <2> PICK j \in Job : Drops(w, j)  BY <1>5
  <2> DEFINE r == Refreshed(s)
             q == Append(r.joining, j)
             d == Append(r.waiting, [job |-> j, storage |-> {}])
  <2>1. Sound(r)  BY <1>1, RefreshedSound DEF Sound
  <2>2. Becomes(w, [r EXCEPT !.joining = q]) \/ Becomes(w, [r EXCEPT !.waiting = d])
    BY DEF Drops
  <2>3. q \in Seq(Job) /\ d \in Seq(Later)
    BY <2>1 DEF Sound, Shaped, State, Later, Devices
  <2> HIDE DEF r, q, d
  <2>4. Sound([r EXCEPT !.joining = q]) /\ Sound([r EXCEPT !.waiting = d])
    BY <2>1, <2>3, QueuesApart
  <2> QED  BY <2>2, <2>4, OneBecomes
<1> QED  BY <1>2, <1>3, <1>4, <1>5

\* The next request is one of those that were admitted.
LEMMA StartsNextTyped ==
    ASSUME NEW q \in Seq(Job), StartsNext(q)
    PROVE  RouterTyped'
<1>1. CASE q = <<>>  BY <1>1 DEF StartsNext, RouterTyped
<1>2. CASE q # <<>>
  <2>1. Head(q) \in Job /\ Tail(q) \in Seq(Job)  BY <1>2
  <2>2. route' \in Request /\ pending' \in Seq(Job)
    BY <1>2, <2>1 DEF StartsNext, Resolving, Request
  <2> QED  BY <2>2 DEF RouterTyped
<1> QED  BY <1>1, <1>2

\* The first window of some is one of them.
LEMMA FirstOfWindows ==
    ASSUME NEW S, S \subseteq Window, S # {}
    PROVE  Min(S) \in S
<1>1. S \subseteq Nat  BY DEF Window
<1> DEFINE R == {p \in Nat \X Nat : p[1] < p[2]}
<1>2. IsWellFoundedOn(R, Nat)  BY NatLessThanWellFounded DEF OpToRel
<1>3. \E x \in S : \A y \in S : x <= y
  <2>1. \A x, y \in Nat : <<y, x>> \notin R => x <= y  OBVIOUS
  <2> HIDE DEF R
  <2>2. \E x \in S : \A y \in S : <<y, x>> \notin R  BY <1>1, <1>2, WFMin
  <2> QED  BY <1>1, <2>1, <2>2
<1> QED  BY <1>3 DEF Min

\* A question, and a job that is handed over, is about a window with a session.
LEMMA RoutedWindow ==
    ASSUME NEW j
    PROVE  /\ SameKind(j) \subseteq Sessions /\ SameDevice(j) \subseteq Sessions
           /\ SameKind(j) # {} => Min(SameKind(j)) \in Sessions
           /\ SameDevice(j) # {} => Min(SameDevice(j)) \in Sessions
           /\ Sessions \subseteq Living /\ Living \subseteq Window
<1>1. /\ SameKind(j) \subseteq Sessions /\ SameDevice(j) \subseteq Sessions
      /\ Sessions \subseteq Living /\ Living \subseteq Window
  BY DEF SameKind, SameDevice, Sessions, Living
<1> QED  BY <1>1, FirstOfWindows

\* The request in flight is considered, and stays or makes room.
LEMMA ConsidersTyped ==
    ASSUME RouterTyped, NEW j \in Job, NEW attempt \in 0..1, NEW p,
           Considers(j, attempt, p)
    PROVE  RouterTyped'
<1> DEFINE r == RouteTransfer(j, p)
<1>1. r.about \in {"destination", "device", None} /\ r.window \in Window \cup {None}
  BY RoutedWindow DEF RouteTransfer, Decision
<1> HIDE DEF r
<1>2. CASE Done  BY <1>2, StartsNextTyped DEF Done, RouterTyped
<1>3. CASE /\ route' = [job |-> j, step |-> "Asking", attempt |-> attempt,
                        about |-> r.about, window |-> r.window]
           /\ UNCHANGED pending
  BY <1>1, <1>3 DEF RouterTyped, Request
<1>4. \/ Done
      \/ /\ route' = [job |-> j, step |-> "Asking", attempt |-> attempt,
                      about |-> r.about, window |-> r.window]
         /\ UNCHANGED pending
  BY DEF Considers, r
<1> QED  BY <1>2, <1>3, <1>4

\* The router keeps its type.
LEMMA RouterKeepsType ==
    ASSUME RouterTyped, [Next]_vars
    PROVE  RouterTyped'
<1>1. CASE UNCHANGED <<pending, route>>  BY <1>1 DEF RouterTyped
<1>2. CASE Done  BY <1>2, StartsNextTyped DEF Done, RouterTyped
<1>3. ASSUME NEW j \in Job, Admit(j) PROVE RouterTyped'
  <2>1. Append(pending, j) \in Seq(Job)  BY DEF RouterTyped
  <2> QED  BY <1>3, <2>1, StartsNextTyped DEF Admit, RouterTyped
<1>4. CASE Resolved
  <2>1. route.job \in Job /\ Considers(route.job, 0, prefer)
    BY <1>4 DEF Resolved, RouterTyped, Request
  <2> QED  BY <2>1, ConsidersTyped
<1>5. ASSUME NEW c, NEW b, Answer(c, b) PROVE RouterTyped'
  <2>1. Done \/ \E p : Considers(route.job, 1, p)  BY <1>5 DEF Answer
  <2>2. route.job \in Job  BY <1>5 DEF Answer, RouterTyped, Request
  <2> QED  BY <1>2, <2>1, <2>2, ConsidersTyped
<1>6. ASSUME NEW w, UNCHANGED pending, Withdraws(w) PROVE RouterTyped'
  BY <1>6 DEF Withdraws, RouterTyped, Request
<1>7. CASE Windows
  <2>1. UNCHANGED pending  BY <1>7 DEF Windows, PlanReady, PlanFails, Declined, Joins,
      GateCloses, Finishes, Interrupts, Resumes, Cancels, Closes, Hides, Drops, RouterFrame
  <2>2. UNCHANGED route \/ \E w : Withdraws(w)
    BY <1>7 DEF Windows, PlanReady, PlanFails, Declined, Joins, GateCloses, Finishes,
      Interrupts, Resumes, Cancels, Closes, Hides, Drops, GoesOn, CancelsSession
  <2> QED  BY <1>1, <1>6, <2>1, <2>2
<1>8. CASE Routes
  BY <1>2, <1>4, <1>5, <1>8 DEF Routes, Fails, Dismissed
<1>9. CASE ShowsPrimary  BY <1>1, <1>9 DEF ShowsPrimary, RouterFrame
<1>10. CASE UNCHANGED vars  BY <1>1, <1>10 DEF vars
<1> QED  BY <1>3, <1>7, <1>8, <1>9, <1>10 DEF Next

\* Every step keeps every window sound.
LEMMA StepSound ==
    ASSUME RoutingInv, [Next]_vars
    PROVE  WindowsSound'
<1> USE DEF RoutingInv
<1>1. CASE UNCHANGED win
  BY <1>1 DEF WindowsSound, Sound, Shaped, OwnKind, TrueVote, Copies
<1>2. CASE \E j \in Job : Admit(j)  BY <1>1, <1>2 DEF Admit
<1>3. CASE Routes
  <2>1. CASE Resolved  BY <2>1, ConsidersSound DEF Resolved, RouterTyped, Request
  <2>2. CASE Fails  BY <2>2, FailsSound
  <2>3. CASE Dismissed  BY <1>1, <2>3 DEF Dismissed
  <2>4. CASE \E c \in Choice, r \in BOOLEAN : Answer(c, r)  BY <2>4, AnswerSound
  <2> QED  BY <1>3, <2>1, <2>2, <2>3, <2>4 DEF Routes
<1>4. CASE Windows
  BY <1>4, ThreadSound, EndsSound, JoinsSound, PersonSound DEF Windows
<1>5. CASE ShowsPrimary
  <2> DEFINE shown == IF Busy # {} THEN Busy ELSE {Max(Living)}
  <2>1. win' = [w \in Window |-> IF w \in shown THEN Shown(win[w]) ELSE win[w]]
    BY <1>5 DEF ShowsPrimary
  <2> HIDE DEF shown
  <2>2. \A w \in Window : Sound(Shown(win[w])) /\ Sound(win[w])
    BY ShownSound DEF WindowsSound
  <2>3. \A w \in Window : win'[w] \in {Shown(win[w]), win[w]}  BY <2>1
  <2>4. \A w \in Window : Sound(win'[w])  BY <2>2, <2>3
  <2>5. win' \in [Window -> State]  BY <2>1, <2>4 DEF Sound, Shaped
  <2> QED  BY <2>4, <2>5 DEF WindowsSound, Sound, Shaped, OwnKind, TrueVote, Copies
<1>6. CASE UNCHANGED vars  BY <1>1, <1>6 DEF vars
<1> QED  BY <1>2, <1>3, <1>4, <1>5, <1>6 DEF Next
-----------------------------------------------------------------------------
\* Every window is sound in every reachable state: the invariant the two
\* properties below rest on.
THEOREM RoutingInvariance == Spec => []RoutingInv
<1>1. Init => RoutingInv
  <2>1. Sound(Unborn) /\ Unborn \in State  BY BlankSound DEF Life, Sound, Shaped
  <2> QED
    BY <2>1 DEF Init, RoutingInv, RouterTyped, WindowsSound
<1>2. RoutingInv /\ [Next]_vars => RoutingInv'
  BY StepSound, RouterKeepsType DEF RoutingInv
<1> QED  BY <1>1, <1>2, PTL DEF Spec

\* Nothing is copied by a session of another destination or operation, however
\* late the answer that sent it there.
THEOREM OwnKindOnly == Spec => []JoinsOwnKind
<1>1. RoutingInv => JoinsOwnKind
  BY DEF RoutingInv, WindowsSound, Sound, OwnKind, JoinsOwnKind
<1> QED  BY <1>1, RoutingInvariance, PTL

\* The process is throttled only while all its windows are hidden and none of
\* them plans or copies.
THEOREM EfficiencyOnlyIdle == Spec => []ThrottledOnlyIdle
<1>1. RoutingInv => ThrottledOnlyIdle
  BY DEF RoutingInv, WindowsSound, Sound, TrueVote, ThrottledOnlyIdle, Throttled, Living
<1> QED  BY <1>1, RoutingInvariance, PTL

-----------------------------------------------------------------------------
(***************************************************************************)
(* Where the jobs are.                                                     *)
(***************************************************************************)

\* Nobody waits twice in a queue of a window.
WaitsOnce(queue) == \A i, k \in DOMAIN queue : queue[i].job = queue[k].job => i = k

\* A window that exists and is not gone.
Alive(s) == s.life \notin {"Unborn", "Gone"}

\* A job is in a window once; an idle window has nothing in its plan and
\* nothing at the planner, and a window that does not exist has nothing at all.
Tidy(s) ==
    /\ IsInjective(s.joining)
    /\ WaitsOnce(s.waiting)
    /\ s.plan \cap Range(s.joining) = {}
    /\ (s.plan \cup Range(s.joining)) \cap JobsOf(s.waiting) = {}
    /\ ~Active(s) => s.plan = {} /\ s.joining = <<>>
    /\ ~Alive(s) => ~Active(s) /\ s.waiting = <<>>

\* What the router holds.
InFlight == IF route = None THEN {} ELSE {route.job}
Routed   == Range(pending) \cup InFlight

\* The router holds a job once, in its queue or in flight.
RouterTidy ==
    /\ IsInjective(pending)
    /\ Range(pending) \cap InFlight = {}

\* No two hold the same job.
Apart ==
    /\ RouterTidy
    /\ \A w \in Window : Tidy(win[w]) /\ Held(win[w]) \cap Routed = {}
    /\ \A v, w \in Window : v # w => Held(win[v]) \cap Held(win[w]) = {}

\* A job is live as long as somebody holds it.
LiveHeld ==
    \A j \in Job : fate[j] = "Live" <=> j \in Routed \/ \E w \in Window : j \in Held(win[w])

\* A window is created for a job that leaves the router, so there is always one
\* left for the job in flight.
Created   == {w \in Window : win[w].life # "Unborn"}
GivenAway == {j \in Job : fate[j] # "Unknown" /\ j \notin Routed}
WindowsLeft == Cardinality(Created) <= Cardinality(GivenAway)

\* What becomes of a job.
Fates == {"Unknown", "Live", "Finished", "Cancelled", "Refused", "Dropped"}

\* The invariant NothingAstray rests on.
PlacesInv == fate \in [Job -> Fates] /\ Apart /\ LiveHeld /\ WindowsLeft
-----------------------------------------------------------------------------
(***************************************************************************)
(* Queues.                                                                 *)
(***************************************************************************)

\* What is appended is new, and comes after the rest.
LEMMA QueueGrows ==
    ASSUME NEW S, NEW q \in Seq(S), NEW e \in S
    PROVE  /\ Range(Append(q, e)) = Range(q) \cup {e}
           /\ IsInjective(q) /\ e \notin Range(q) => IsInjective(Append(q, e))
<1> DEFINE n == Len(q)
           r == Append(q, e)
<1>1. n \in Nat /\ DOMAIN q = 1..n /\ DOMAIN r = 1..(n + 1)
  OBVIOUS
<1>2. r[n + 1] = e /\ \A i \in 1..n : r[i] = q[i]
  OBVIOUS
<1> HIDE DEF n, r
<1>3. 1..(n + 1) = (1..n) \cup {n + 1}  BY <1>1
<1>4. Range(r) = Range(q) \cup {e}  BY <1>1, <1>2, <1>3 DEF Range
<1>5. ASSUME IsInjective(q), e \notin Range(q) PROVE IsInjective(r)
  <2>1. \A i \in 1..n : q[i] # e  BY <1>1, <1>5 DEF Range
  <2>2. \A i, k \in 1..n : q[i] = q[k] => i = k  BY <1>1, <1>5 DEF IsInjective
  <2>3. \A i, k \in 1..(n + 1) : r[i] = r[k] => i = k  BY <1>2, <1>3, <2>1, <2>2
  <2> QED  BY <1>1, <2>3 DEF IsInjective
<1> QED  BY <1>4, <1>5 DEF r

\* The first of a queue is in it once.
LEMMA QueueShrinks ==
    ASSUME NEW S, NEW q \in Seq(S), q # <<>>
    PROVE  /\ Head(q) \in S /\ Tail(q) \in Seq(S)
           /\ Range(q) = Range(Tail(q)) \cup {Head(q)}
           /\ IsInjective(q) => IsInjective(Tail(q)) /\ Head(q) \notin Range(Tail(q))
<1> DEFINE n == Len(q)
           r == Tail(q)
<1>1. n \in Nat /\ n # 0 /\ DOMAIN q = 1..n /\ DOMAIN r = 1..(n - 1)
  OBVIOUS
<1>2. Head(q) = q[1] /\ \A i \in 1..(n - 1) : r[i] = q[i + 1]
  OBVIOUS
<1>3. Head(q) \in S /\ r \in Seq(S)  OBVIOUS
<1> HIDE DEF n, r
<1>4. \A x : x \in Range(q) <=> x = q[1] \/ x \in Range(r)
  <2>1. \A i \in 1..n : i = 1 \/ i - 1 \in 1..(n - 1)  BY <1>1
  <2>2. \A i \in 1..n : i # 1 => q[i] = r[i - 1]  BY <1>1, <1>2, <2>1
  <2>3. \A i \in 1..(n - 1) : i + 1 \in 1..n  BY <1>1
  <2>4. 1 \in 1..n  BY <1>1
  <2>5. \A i \in 1..n : q[i] = q[1] \/ \E k \in 1..(n - 1) : q[i] = r[k]
    BY <2>1, <2>2
  <2>6. \A k \in 1..(n - 1) : \E i \in 1..n : q[i] = r[k]  BY <1>2, <2>3
  <2>7. Range(q) = {q[i] : i \in 1..n} /\ Range(r) = {r[i] : i \in 1..(n - 1)}
    BY <1>1 DEF Range
  <2> QED  BY <2>4, <2>5, <2>6, <2>7
<1>5. ASSUME IsInjective(q) PROVE IsInjective(r) /\ q[1] \notin Range(r)
  <2>1. \A i, k \in 1..n : q[i] = q[k] => i = k  BY <1>1, <1>5 DEF IsInjective
  <2>2. \A i \in 1..(n - 1) : i + 1 \in 1..n /\ i + 1 # 1 /\ 1 \in 1..n  BY <1>1
  <2>3. \A i \in 1..(n - 1) : r[i] # q[1]  BY <1>2, <2>1, <2>2
  <2>4. \A i, k \in 1..(n - 1) : r[i] = r[k] => i = k  BY <1>2, <2>1, <2>2
  <2> QED  BY <1>1, <2>3, <2>4 DEF Range, IsInjective
<1> QED  BY <1>2, <1>3, <1>4, <1>5 DEF r

\* The same two for the jobs that wait, each with its devices.
LEMMA WaitingGrows ==
    ASSUME NEW q \in Seq(Later), NEW e \in Later
    PROVE  /\ JobsOf(Append(q, e)) = JobsOf(q) \cup {e.job}
           /\ WaitsOnce(q) /\ e.job \notin JobsOf(q) => WaitsOnce(Append(q, e))
<1> DEFINE n == Len(q)
           r == Append(q, e)
<1>1. n \in Nat /\ DOMAIN q = 1..n /\ DOMAIN r = 1..(n + 1)
  OBVIOUS
<1>2. r[n + 1] = e /\ \A i \in 1..n : r[i] = q[i]
  OBVIOUS
<1> HIDE DEF n, r
<1>3. 1..(n + 1) = (1..n) \cup {n + 1}  BY <1>1
<1>4. JobsOf(r) = JobsOf(q) \cup {e.job}  BY <1>1, <1>2, <1>3 DEF JobsOf
<1>5. ASSUME WaitsOnce(q), e.job \notin JobsOf(q) PROVE WaitsOnce(r)
  <2>1. \A i \in 1..n : q[i].job # e.job  BY <1>1, <1>5 DEF JobsOf
  <2>2. \A i, k \in 1..n : q[i].job = q[k].job => i = k  BY <1>1, <1>5 DEF WaitsOnce
  <2>3. \A i, k \in 1..(n + 1) : r[i].job = r[k].job => i = k  BY <1>2, <1>3, <2>1, <2>2
  <2> QED  BY <1>1, <2>3 DEF WaitsOnce
<1> QED  BY <1>4, <1>5 DEF r

\* The first to wait leaves the others.
LEMMA WaitingShrinks ==
    ASSUME NEW q \in Seq(Later), q # <<>>
    PROVE  /\ Head(q) \in Later /\ Tail(q) \in Seq(Later)
           /\ JobsOf(q) = JobsOf(Tail(q)) \cup {Head(q).job}
           /\ WaitsOnce(q) => WaitsOnce(Tail(q)) /\ Head(q).job \notin JobsOf(Tail(q))
<1> DEFINE n == Len(q)
           r == Tail(q)
<1>1. n \in Nat /\ n # 0 /\ DOMAIN q = 1..n /\ DOMAIN r = 1..(n - 1)
  OBVIOUS
<1>2. Head(q) = q[1] /\ \A i \in 1..(n - 1) : r[i] = q[i + 1]
  OBVIOUS
<1>3. Head(q) \in Later /\ r \in Seq(Later)  OBVIOUS
<1> HIDE DEF n, r
<1>4. \A x : x \in JobsOf(q) <=> x = q[1].job \/ x \in JobsOf(r)
  <2>1. \A i \in 1..n : i = 1 \/ i - 1 \in 1..(n - 1)  BY <1>1
  <2>2. \A i \in 1..n : i # 1 => q[i] = r[i - 1]  BY <1>1, <1>2, <2>1
  <2>3. \A i \in 1..(n - 1) : i + 1 \in 1..n  BY <1>1
  <2>4. 1 \in 1..n  BY <1>1
  <2>5. \A i \in 1..n : q[i] = q[1] \/ \E k \in 1..(n - 1) : q[i] = r[k]
    BY <2>1, <2>2
  <2>6. \A k \in 1..(n - 1) : \E i \in 1..n : q[i] = r[k]  BY <1>2, <2>3
  <2>7. JobsOf(q) = {q[i].job : i \in 1..n} /\ JobsOf(r) = {r[i].job : i \in 1..(n - 1)}
    BY <1>1 DEF JobsOf
  <2> QED  BY <2>4, <2>5, <2>6, <2>7
<1>5. ASSUME WaitsOnce(q) PROVE WaitsOnce(r) /\ q[1].job \notin JobsOf(r)
  <2>1. \A i, k \in 1..n : q[i].job = q[k].job => i = k  BY <1>1, <1>5 DEF WaitsOnce
  <2>2. \A i \in 1..(n - 1) : i + 1 \in 1..n /\ i + 1 # 1 /\ 1 \in 1..n  BY <1>1
  <2>3. \A i \in 1..(n - 1) : r[i].job # q[1].job  BY <1>2, <2>1, <2>2
  <2>4. \A i, k \in 1..(n - 1) : r[i].job = r[k].job => i = k  BY <1>2, <2>1, <2>2
  <2> QED  BY <1>1, <2>3, <2>4 DEF JobsOf, WaitsOnce
<1> QED  BY <1>2, <1>3, <1>4, <1>5 DEF r

\* Jobs that wait again come before the others.
LEMMA WaitingAgain ==
    ASSUME NEW jobs \in Seq(Job), NEW q \in Seq(Later),
           NEW r, r = [i \in DOMAIN jobs |-> [job |-> jobs[i], storage |-> {}]]
    PROVE  /\ r \o q \in Seq(Later)
           /\ JobsOf(r \o q) = Range(jobs) \cup JobsOf(q)
           /\ IsInjective(jobs) /\ WaitsOnce(q) /\ Range(jobs) \cap JobsOf(q) = {}
                => WaitsOnce(r \o q)
<1> DEFINE n == Len(jobs)
           m == Len(q)
           t == r \o q
<1>1. n \in Nat /\ m \in Nat /\ DOMAIN jobs = 1..n /\ DOMAIN q = 1..m  OBVIOUS
<1>2. \A i \in 1..n : jobs[i] \in Job  OBVIOUS
<1> HIDE DEF n, m
<1>3. r \in Seq(Later) /\ DOMAIN r = 1..n /\ \A i \in 1..n : r[i].job = jobs[i]
  <2>1. \A i \in 1..n : [job |-> jobs[i], storage |-> {}] \in Later
    BY <1>2 DEF Later, Devices
  <2>2. r = [i \in 1..n |-> [job |-> jobs[i], storage |-> {}]]  BY <1>1
  <2>3. r \in Seq(Later)  BY <1>1, <2>1, <2>2, IsASeq
  <2> QED  BY <2>2, <2>3
<1>4. Len(r) = n  BY <1>1, <1>3
<1>5. t \in Seq(Later) /\ Len(t) = n + m  BY <1>1, <1>3, <1>4 DEF m
<1>6. DOMAIN t = 1..(n + m)  BY <1>5
<1>7. \A i \in 1..(n + m) : t[i] = IF i <= n THEN r[i] ELSE q[i - n]
  BY <1>1, <1>3, <1>4 DEF m
<1> HIDE DEF t
<1>8. \A i \in 1..(n + m) :
          \/ i \in 1..n /\ t[i].job = jobs[i]
          \/ i \notin 1..n /\ i - n \in 1..m /\ t[i].job = q[i - n].job
  <2>1. \A i \in 1..(n + m) : i <= n => i \in 1..n  BY <1>1
  <2>2. \A i \in 1..(n + m) : ~(i <= n) => i \notin 1..n /\ i - n \in 1..m  BY <1>1
  <2> QED  BY <1>3, <1>7, <2>1, <2>2
<1>9. JobsOf(t) = Range(jobs) \cup JobsOf(q)
  <2>1. \A i \in 1..n : i \in 1..(n + m) /\ i <= n  BY <1>1
  <2>2. \A i \in 1..n : t[i].job = jobs[i]  BY <1>3, <1>7, <2>1
  <2>3. \A i \in 1..m : i + n \in 1..(n + m) /\ ~(i + n <= n) /\ (i + n) - n = i
    BY <1>1
  <2>4. \A i \in 1..m : t[i + n].job = q[i].job  BY <1>7, <2>3
  <2>5. /\ JobsOf(t) = {t[i].job : i \in 1..(n + m)}
        /\ Range(jobs) = {jobs[i] : i \in 1..n} /\ JobsOf(q) = {q[i].job : i \in 1..m}
    BY <1>1, <1>6 DEF JobsOf, Range
  <2>6. \A i \in 1..(n + m) : t[i].job \in Range(jobs) \cup JobsOf(q)  BY <1>8, <2>5
  <2>7. \A i \in 1..n : jobs[i] \in JobsOf(t)  BY <2>1, <2>2, <2>5
  <2>8. \A i \in 1..m : q[i].job \in JobsOf(t)  BY <2>3, <2>4, <2>5
  <2> QED  BY <2>5, <2>6, <2>7, <2>8
<1>10. ASSUME IsInjective(jobs), WaitsOnce(q), Range(jobs) \cap JobsOf(q) = {}
       PROVE  WaitsOnce(t)
  <2>1. \A i, k \in 1..n : jobs[i] = jobs[k] => i = k  BY <1>1, <1>10 DEF IsInjective
  <2>2. \A i, k \in 1..m : q[i].job = q[k].job => i = k  BY <1>1, <1>10 DEF WaitsOnce
  <2>3. \A i \in 1..n, k \in 1..m : jobs[i] # q[k].job
    BY <1>1, <1>10 DEF Range, JobsOf
  <2>4. \A i, k \in 1..(n + m) : i - n = k - n => i = k  BY <1>1
  <2>5. \A i, k \in 1..(n + m) : t[i].job = t[k].job => i = k
    BY <1>8, <2>1, <2>2, <2>3, <2>4
  <2> QED  BY <1>6, <2>5 DEF WaitsOnce
<1> QED  BY <1>5, <1>9, <1>10 DEF t

\* The empty queues.
LEMMA NothingThere ==
    /\ Range(<<>>) = {} /\ JobsOf(<<>>) = {}
    /\ IsInjective(<<>>) /\ WaitsOnce(<<>>)
BY DEF Range, JobsOf, IsInjective, WaitsOnce

\* What a window shows of itself and how it votes has no part in where the
\* jobs are.
LEMMA SameJobs ==
    ASSUME NEW s, NEW t, t.life = s.life, t.session = s.session, t.plan = s.plan,
           t.joining = s.joining, t.waiting = s.waiting
    PROVE  Held(t) = Held(s) /\ (Tidy(s) => Tidy(t))
BY DEF Held, Tidy, Alive, Active

\* RefreshEfficiencyMode() and ShowFromTray() move no job.
LEMMA RefreshMoves ==
    ASSUME NEW s, Shaped(s)
    PROVE  /\ Shaped(Refreshed(s)) /\ Held(Refreshed(s)) = Held(s)
           /\ Refreshed(s).life = s.life /\ Refreshed(s).session = s.session
           /\ Refreshed(s).plan = s.plan /\ Refreshed(s).joining = s.joining
           /\ Refreshed(s).waiting = s.waiting
           /\ Tidy(s) => Tidy(Refreshed(s))
<1> DEFINE t == Refreshed(s)
<1>1. Eligible(s) \in BOOLEAN  BY DEF Eligible
<1>2. /\ Shaped(t) /\ t.life = s.life /\ t.session = s.session
      /\ t.plan = s.plan /\ t.joining = s.joining /\ t.waiting = s.waiting
  <2> DEFINE v == Eligible(s)
  <2>1. t = [s EXCEPT !.vote = v]  BY DEF Refreshed
  <2> HIDE DEF t, v
  <2> QED  BY <1>1, <2>1 DEF Shaped, State, v
<1> HIDE DEF t
<1> QED  BY <1>2, SameJobs DEF t

\* Showing a window leaves its jobs alone.
LEMMA ShownMoves ==
    ASSUME NEW s, Shaped(s)
    PROVE  /\ Shaped(Shown(s)) /\ Held(Shown(s)) = Held(s)
           /\ Shown(s).life = s.life /\ Shown(s).session = s.session
           /\ Shown(s).plan = s.plan /\ Shown(s).joining = s.joining
           /\ Shown(s).waiting = s.waiting
           /\ Tidy(s) => Tidy(Shown(s))
<1> DEFINE h == [s EXCEPT !.hidden = FALSE]
           t == Shown(s)
<1>1. /\ Shaped(h) /\ h.life = s.life /\ h.session = s.session
      /\ h.plan = s.plan /\ h.joining = s.joining /\ h.waiting = s.waiting
  BY DEF Shaped, State
<1> HIDE DEF h
<1>2. /\ Shaped(t) /\ t.life = h.life /\ t.session = h.session
      /\ t.plan = h.plan /\ t.joining = h.joining /\ t.waiting = h.waiting
  BY <1>1, RefreshMoves DEF Shown, h, t
<1> HIDE DEF t
<1> QED  BY <1>1, <1>2, SameJobs DEF t

\* A session begins with one job in its plan, and what waits goes on waiting.
LEMMA StartedMoves ==
    ASSUME NEW s, Shaped(s), Alive(s), WaitsOnce(s.waiting),
           NEW j \in Job, j \notin JobsOf(s.waiting), NEW storage \in Devices
    PROVE  /\ Tidy(Started(s, j, storage))
           /\ Held(Started(s, j, storage)) = {j} \cup JobsOf(s.waiting)
           /\ Started(s, j, storage).life = s.life
<1> DEFINE t == [s EXCEPT !.session = "Planning", !.kind = Kind[j],
                          !.storage = storage, !.accepting = TRUE, !.cancel = FALSE,
                          !.plan = {j}, !.joining = <<>>]
<1>1. Shaped(t)
  BY NothingQueued, KindsKnown DEF Shaped, State, Session
<1>2. /\ t.life = s.life /\ t.session = "Planning" /\ t.plan = {j}
      /\ t.joining = <<>> /\ t.waiting = s.waiting
  BY DEF Shaped, State
<1> HIDE DEF t
<1>3. Tidy(t) /\ Held(t) = {j} \cup JobsOf(s.waiting)
  BY <1>2, NothingThere DEF Tidy, Held, Alive, Active
<1>4. Started(s, j, storage) = Refreshed(t)  BY DEF Started, t
<1> QED  BY <1>1, <1>2, <1>3, <1>4, RefreshMoves

\* A session that ends lets go of its plan and of what was to join it.
LEMMA EndedMoves ==
    ASSUME NEW s, Shaped(s), Alive(s), WaitsOnce(s.waiting)
    PROVE  /\ Tidy(Ended(s)) /\ Held(Ended(s)) = JobsOf(s.waiting)
           /\ Ended(s).life = s.life /\ Ended(s).waiting = s.waiting
<1> DEFINE t == [s EXCEPT !.session = "None", !.kind = None, !.accepting = FALSE,
                          !.plan = {}, !.joining = <<>>]
<1>1. Shaped(t)
  BY NothingQueued, KindsKnown DEF Shaped, State, Session
<1>2. /\ t.life = s.life /\ t.session = "None" /\ t.plan = {}
      /\ t.joining = <<>> /\ t.waiting = s.waiting
  BY DEF Shaped, State
<1> HIDE DEF t
<1>3. Tidy(t) /\ Held(t) = JobsOf(s.waiting)
  BY <1>2, NothingThere DEF Tidy, Held, Alive, Active
<1>4. Ended(s) = Refreshed(t)  BY DEF Ended, t
<1> QED  BY <1>1, <1>2, <1>3, <1>4, RefreshMoves

\* The first job that waits becomes the plan of the next session.
LEMMA ContinuedMoves ==
    ASSUME NEW s, Shaped(s), Alive(s), WaitsOnce(s.waiting), s.waiting # <<>>
    PROVE  /\ Tidy(Continued(s)) /\ Held(Continued(s)) = JobsOf(s.waiting)
           /\ Continued(s).life = s.life
<1> DEFINE q == s.waiting
           t == [s EXCEPT !.waiting = Tail(@)]
<1>1. q \in Seq(Later)  BY DEF Shaped, State
<1>2. /\ Head(q) \in Later /\ Tail(q) \in Seq(Later)
      /\ JobsOf(q) = JobsOf(Tail(q)) \cup {Head(q).job}
      /\ WaitsOnce(Tail(q)) /\ Head(q).job \notin JobsOf(Tail(q))
  BY <1>1, WaitingShrinks
<1>3. Head(q).job \in Job /\ Head(q).storage \in Devices  BY <1>2 DEF Later
<1>4. Shaped(t) /\ t.life = s.life /\ t.waiting = Tail(q)
  BY <1>2 DEF Shaped, State
<1>5. Continued(s) = Started(t, Head(q).job, Head(q).storage)  BY DEF Continued
<1> HIDE DEF t, q
<1>6. Alive(t) /\ WaitsOnce(t.waiting) /\ Head(q).job \notin JobsOf(t.waiting)
  BY <1>2, <1>4 DEF Alive
<1> DEFINE h == Head(q)
<1> HIDE DEF h
<1>7. h.job \in Job /\ h.storage \in Devices /\ h.job \notin JobsOf(t.waiting)
  BY <1>3, <1>6 DEF h
<1>8. /\ Tidy(Started(t, h.job, h.storage))
      /\ Held(Started(t, h.job, h.storage)) = {h.job} \cup JobsOf(t.waiting)
      /\ Started(t, h.job, h.storage).life = t.life
  BY <1>4, <1>6, <1>7, StartedMoves
<1> QED  BY <1>2, <1>4, <1>5, <1>8 DEF h, q

\* A window that is gone holds nothing.
LEMMA DestroyedMoves ==
    ASSUME NEW s
    PROVE  /\ Tidy(Destroyed(s)) /\ Held(Destroyed(s)) = {}
           /\ Destroyed(s).life = "Gone"
<1> DEFINE t == Destroyed(s)
<1>1. /\ t.life = "Gone" /\ t.session = "None" /\ t.plan = {}
      /\ t.joining = <<>> /\ t.waiting = <<>>
  BY DEF Destroyed, Unborn
<1> HIDE DEF t
<1>2. Tidy(t) /\ Held(t) = {}
  BY <1>1, NothingThere DEF Tidy, Held, Alive, Active
<1> QED  BY <1>1, <1>2 DEF t

\* A window before it is created holds nothing, and nothing when it is.
LEMMA BornMoves ==
    ASSUME WindowsSound, NEW w \in Window, Tidy(win[w])
    PROVE  /\ Shaped(Born(w)) /\ Tidy(Born(w))
           /\ Held(Born(w)) = Held(win[w])
           /\ Born(w).life # "Unborn"
           /\ win[w].life = "Unborn" =>
                 Held(win[w]) = {} /\ Born(w).life = "Open" /\ Born(w).session = "None"
<1>1. Shaped(Born(w))  BY BornSound DEF Sound
<1>2. CASE win[w].life = "Unborn"
  <2> DEFINE t == [Unborn EXCEPT !.life = "Open"]
  <2>1. /\ t.life = "Open" /\ t.session = "None" /\ t.plan = {}
        /\ t.joining = <<>> /\ t.waiting = <<>>
    BY DEF Unborn
  <2>2. Born(w) = t  BY <1>2 DEF Born
  <2> HIDE DEF t
  <2>3. Tidy(t) /\ Held(t) = {}
    BY <2>1, NothingThere DEF Tidy, Held, Alive, Active
  <2>4. Held(win[w]) = {}
    BY <1>2, NothingThere DEF Tidy, Held, Alive, Active
  <2> QED  BY <1>1, <2>1, <2>2, <2>3, <2>4
<1>3. CASE win[w].life # "Unborn"
  BY <1>1, <1>3 DEF Born
<1> QED  BY <1>2, <1>3

\* What a well-formed window holds are jobs.
LEMMA HeldAreJobs ==
    ASSUME NEW s, Shaped(s)
    PROVE  /\ Held(s) \subseteq Job /\ s.plan \subseteq Job
           /\ Range(s.joining) \subseteq Job /\ JobsOf(s.waiting) \subseteq Job
           /\ s.joining \in Seq(Job) /\ s.waiting \in Seq(Later)
<1>1. s.joining \in Seq(Job) /\ s.waiting \in Seq(Later) /\ s.plan \subseteq Job
  BY DEF Shaped, State
<1> DEFINE a == s.joining
           b == s.waiting
<1>2. Range(a) \subseteq Job
  <2>1. a \in Seq(Job)  BY <1>1
  <2> HIDE DEF a
  <2> QED  BY <2>1 DEF Range
<1>3. JobsOf(b) \subseteq Job
  <2>1. b \in Seq(Later)  BY <1>1
  <2> HIDE DEF b
  <2>2. \A i \in DOMAIN b : b[i] \in Later  BY <2>1
  <2> QED  BY <2>2 DEF JobsOf, Later
<1> QED  BY <1>1, <1>2, <1>3 DEF Held

-----------------------------------------------------------------------------
(***************************************************************************)
(* One holder changes.                                                     *)
(* Most actions give one window, or the router, another set of jobs.       *)
(***************************************************************************)

\* What becomes of the jobs when one holder is given some and lets go of
\* others: those it keeps stay as they are, a new one was unknown, and those it
\* lets go of are settled.
Moves(now, before) ==
    \A j \in Job :
        /\ j \in now => \/ j \in before /\ fate'[j] = fate[j]
                        \/ fate[j] = "Unknown" /\ fate'[j] = "Live"
        /\ j \in before /\ j \notin now => fate'[j] \notin {"Live", "Unknown"}
        /\ j \notin before /\ j \notin now => fate'[j] = fate[j]

\* Held is a matter of the window alone.
LEMMA TidyThere ==
    ASSUME NEW v
    PROVE  /\ Tidy(win[v])' <=> Tidy(win'[v])
           /\ Held(win[v])' = Held(win'[v])
BY DEF Tidy, Held, Alive, Active, WaitsOnce, JobsOf

\* One window and the router change: no job is in two places, and the live ones
\* are still those in one.
LEMMA OneMoves ==
    ASSUME WindowsSound, RouterTyped, Apart, LiveHeld, NEW w \in Window, NEW s,
           Becomes(w, s), Tidy(s), Held(s) \subseteq Job,
           RouterTyped', RouterTidy', Held(s) \cap Routed' = {},
           Moves(Held(s) \cup Routed', Held(win[w]) \cup Routed)
    PROVE  Apart' /\ LiveHeld'
<1> DEFINE old == Held(win[w])
           new == Held(s)
           r == Routed
           q == Routed'
<1>1. win'[w] = s /\ \A v \in Window \ {w} : win'[v] = win[v]
  BY DEF Becomes, WindowsSound
<1>2. \A v \in Window : Held(win[v]) \subseteq Job
  BY HeldAreJobs DEF WindowsSound, Sound
<1>3. r \subseteq Job /\ q \subseteq Job
  <2>1. Range(pending) \subseteq Job  BY DEF RouterTyped, Range
  <2>2. InFlight \subseteq Job  BY DEF RouterTyped, Request, InFlight
  <2>3. Range(pending') \subseteq Job  BY DEF RouterTyped, Range
  <2>4. InFlight' \subseteq Job  BY DEF RouterTyped, Request, InFlight
  <2> QED  BY <2>1, <2>2, <2>3, <2>4 DEF Routed
<1>4. \A j \in Job : fate[j] = "Live" <=> j \in r \/ \E v \in Window : j \in Held(win[v])
  BY DEF LiveHeld
<1>5. /\ \A v \in Window : Tidy(win[v]) /\ Held(win[v]) \cap r = {}
      /\ \A v, u \in Window : v # u => Held(win[v]) \cap Held(win[u]) = {}
  BY DEF Apart
<1>6. \A j \in Job :
        /\ j \in new \cup q => \/ j \in old \cup r /\ fate'[j] = fate[j]
                               \/ fate[j] = "Unknown" /\ fate'[j] = "Live"
        /\ j \in old \cup r /\ j \notin new \cup q => fate'[j] \notin {"Live", "Unknown"}
        /\ j \notin old \cup r /\ j \notin new \cup q => fate'[j] = fate[j]
  BY DEF Moves
<1>7. new \cap q = {} /\ new \subseteq Job  OBVIOUS
<1>8. old = Held(win[w])  OBVIOUS
<1>9. Held(win'[w]) = new /\ Tidy(win'[w])  BY <1>1
<1>10. \A v \in Window \ {w} : Held(win'[v]) = Held(win[v]) /\ Tidy(win'[v])
  BY <1>1, <1>5
<1> HIDE DEF old, new, r, q
<1>11. \A v \in Window \ {w} : Held(win[v]) \cap (new \cup q) = {}
  BY <1>2, <1>3, <1>4, <1>5, <1>6, <1>7, <1>8
<1>12. \A v \in Window : Tidy(win'[v]) /\ Held(win'[v]) \cap q = {}
  BY <1>7, <1>9, <1>10, <1>11
<1>13. \A v, u \in Window : v # u => Held(win'[v]) \cap Held(win'[u]) = {}
  BY <1>5, <1>9, <1>10, <1>11
<1>14. Apart'
  BY <1>12, <1>13, TidyThere DEF Apart, q
<1>15. ASSUME NEW j \in Job
       PROVE  fate'[j] = "Live" <=> j \in q \/ \E v \in Window : j \in Held(win'[v])
  <2>1. CASE j \in new \cup q
    BY <1>4, <1>6, <1>8, <1>9, <2>1
  <2>2. CASE j \notin new \cup q /\ j \in old \cup r
    <3>1. \A v \in Window \ {w} : j \notin Held(win[v])  BY <1>5, <1>8, <2>2
    <3> QED  BY <1>6, <1>9, <1>10, <2>2, <3>1
  <2>3. CASE j \notin new \cup q /\ j \notin old \cup r
    BY <1>4, <1>6, <1>8, <1>9, <1>10, <2>3
  <2> QED  BY <2>1, <2>2, <2>3
<1>16. LiveHeld'  BY <1>15, TidyThere DEF LiveHeld, q
<1> QED  BY <1>14, <1>16

\* The windows and the jobs can be counted.
LEMMA Countable ==
    /\ IsFiniteSet(Created) /\ Cardinality(Created) \in Nat
    /\ IsFiniteSet(GivenAway) /\ Cardinality(GivenAway) \in Nat
<1>1. Created \subseteq 1..MaxWindow  BY DEF Created, Window
<1>2. IsFiniteSet(1..MaxWindow)  BY RoutingAssumption, FS_Interval
<1>3. IsFiniteSet(Created)  BY <1>1, <1>2, FS_Subset
<1>4. GivenAway \subseteq Job  BY DEF GivenAway
<1>5. IsFiniteSet(GivenAway)  BY <1>4, RoutingAssumption, FS_Subset
<1> QED  BY <1>3, <1>5, FS_CardinalityType

\* No window is created, and no job taken back.
LEMMA LeftStays ==
    ASSUME WindowsLeft, NEW c, NEW g, c \subseteq Created, GivenAway \subseteq g,
           g \subseteq Job
    PROVE  Cardinality(c) <= Cardinality(g)
<1>1. Cardinality(c) <= Cardinality(Created) /\ Cardinality(c) \in Nat
  BY Countable, FS_Subset, FS_CardinalityType
<1>2. IsFiniteSet(g) /\ Cardinality(g) \in Nat
  BY RoutingAssumption, FS_Subset, FS_CardinalityType
<1>3. Cardinality(GivenAway) <= Cardinality(g)
  BY <1>2, FS_Subset
<1>4. \A a, b, d, e \in Nat : a <= b /\ b <= d /\ d <= e => a <= e  OBVIOUS
<1> QED  BY <1>1, <1>2, <1>3, <1>4, Countable DEF WindowsLeft

\* One window is created, and one job given away for it.
LEMMA LeftGrows ==
    ASSUME WindowsLeft, NEW w, NEW j \in Job, j \notin GivenAway,
           NEW c, NEW g, c \subseteq Created \cup {w}, GivenAway \cup {j} \subseteq g,
           g \subseteq Job
    PROVE  Cardinality(c) <= Cardinality(g)
<1> DEFINE a == Created \cup {w}
           b == GivenAway \cup {j}
<1>1. IsFiniteSet(a) /\ Cardinality(a) \in Nat /\ Cardinality(a) <= Cardinality(Created) + 1
  <2>1. IsFiniteSet(a)  BY Countable, FS_AddElement
  <2>2. \/ Cardinality(a) = Cardinality(Created)
        \/ Cardinality(a) = Cardinality(Created) + 1
    BY Countable, FS_AddElement
  <2>3. Cardinality(a) \in Nat  BY <2>1, FS_CardinalityType
  <2> QED  BY <2>1, <2>2, <2>3, Countable
<1>2. IsFiniteSet(b) /\ Cardinality(b) \in Nat /\ Cardinality(b) = Cardinality(GivenAway) + 1
  <2>1. IsFiniteSet(b) /\ Cardinality(b) = Cardinality(GivenAway) + 1
    BY Countable, FS_AddElement
  <2> QED  BY <2>1, FS_CardinalityType
<1>3. c \subseteq a /\ b \subseteq g  OBVIOUS
<1> HIDE DEF a, b
<1>4. Cardinality(c) <= Cardinality(a) /\ Cardinality(c) \in Nat
  BY <1>1, <1>3, FS_Subset, FS_CardinalityType
<1>5. IsFiniteSet(g) /\ Cardinality(g) \in Nat
  BY RoutingAssumption, FS_Subset, FS_CardinalityType
<1>6. Cardinality(b) <= Cardinality(g)  BY <1>3, <1>5, FS_Subset
<1>7. \A u, v, x, y, z, t \in Nat :
        u <= v /\ v <= x + 1 /\ x <= y /\ z = y + 1 /\ z <= t => u <= t
  OBVIOUS
<1>8. Cardinality(Created) <= Cardinality(GivenAway)  BY DEF WindowsLeft
<1> QED  BY <1>1, <1>2, <1>4, <1>5, <1>6, <1>7, <1>8, Countable

\* While the router holds a job there is a window it can be given.
LEMMA OneIsLeft ==
    ASSUME WindowsLeft, NEW j \in Job, j \in Routed
    PROVE  NextWindow \in Window /\ win[NextWindow].life = "Unborn"
<1> DEFINE free == {w \in Window : win[w].life = "Unborn"}
<1>1. free # {}
  <2>1. SUFFICES ASSUME free = {} PROVE FALSE  OBVIOUS
  <2>2. Created = 1..MaxWindow  BY <2>1 DEF Created, Window
  <2>3. Cardinality(Created) = MaxWindow
    BY <2>2, RoutingAssumption, FS_Interval
  <2>4. GivenAway \subseteq Job \ {j}  BY DEF GivenAway
  <2>5. IsFiniteSet(Job \ {j}) /\ Cardinality(Job \ {j}) = Cardinality(Job) - 1
    BY RoutingAssumption, FS_RemoveElement
  <2>6. Cardinality(GivenAway) <= Cardinality(Job \ {j})  BY <2>4, <2>5, FS_Subset
  <2>7. Cardinality(Job) \in Nat  BY RoutingAssumption, FS_CardinalityType
  <2>8. Cardinality(Created) <= Cardinality(GivenAway)  BY DEF WindowsLeft
  <2>9. \A a, b, c, d \in Int : a <= b /\ b <= c - 1 /\ a >= c => FALSE  OBVIOUS
  <2> QED  BY <2>3, <2>5, <2>6, <2>7, <2>8, <2>9, Countable, RoutingAssumption
<1>2. free \subseteq Window  OBVIOUS
<1>3. NextWindow = Min(free)  BY DEF NextWindow
<1>4. Min(free) \in free
  <2> HIDE DEF free
  <2> QED  BY <1>1, <1>2, FirstOfWindows
<1> QED  BY <1>3, <1>4

\* A window that changes by itself leaves the router's jobs where they are, also
\* when it takes the question of the router with it.
LEMMA RouterKept ==
    ASSUME RouterTyped, RouterFrame, NEW w, UNCHANGED route \/ Withdraws(w)
    PROVE  /\ InFlight' = InFlight /\ pending' = pending /\ Routed' = Routed
           /\ RouterTidy => RouterTidy'
<1>1. pending' = pending  BY DEF RouterFrame
<1>2. InFlight' = InFlight
  <2>1. CASE UNCHANGED route  BY <2>1 DEF InFlight
  <2>2. CASE route \in Request /\ route' = [route EXCEPT !.step = "Withdrawn"]
    <3>1. route' \in Request /\ route'.job = route.job  BY <2>2 DEF Request
    <3>2. route # None /\ route' # None  BY <2>2, <3>1, RoutingAssumption
    <3> QED  BY <3>1, <3>2 DEF InFlight
  <2> QED  BY <2>1, <2>2 DEF Withdraws, RouterTyped
<1> QED  BY <1>1, <1>2 DEF Routed, RouterTidy

\* A window that exists changes, and the router holds what it held: what the
\* window lets go of is settled.
LEMMA WindowChanges ==
    ASSUME RoutingInv, RouterTyped', PlacesInv, NEW w \in Window, NEW s, Becomes(w, s),
           win[w].life # "Unborn", Tidy(s), Held(s) \subseteq Job,
           Routed' = Routed, RouterTidy',
           fate' \in [Job -> Fates], Moves(Held(s), Held(win[w]))
    PROVE  PlacesInv'
<1>1. Routed' = Routed /\ RouterTidy'  OBVIOUS
<1>2. Apart /\ LiveHeld /\ WindowsLeft /\ RouterTidy /\ RouterTidy'
  BY <1>1 DEF PlacesInv, Apart
<1>3. Held(win[w]) \subseteq Job  BY HeldAreJobs DEF RoutingInv, WindowsSound, Sound
<1>4. Held(win[w]) \cap Routed = {}  BY DEF PlacesInv, Apart
<1>5. \A j \in Job : fate[j] = "Unknown" => j \notin Routed
  BY DEF PlacesInv, LiveHeld
<1> DEFINE old == Held(win[w])
           new == Held(s)
           r == Routed
<1>6. \A j \in Job :
        /\ j \in new => \/ j \in old /\ fate'[j] = fate[j]
                        \/ fate[j] = "Unknown" /\ fate'[j] = "Live"
        /\ j \in old /\ j \notin new => fate'[j] \notin {"Live", "Unknown"}
        /\ j \notin old /\ j \notin new => fate'[j] = fate[j]
  BY DEF Moves
<1>7. old \cap r = {} /\ new \subseteq Job /\ \A j \in Job : fate[j] = "Unknown" => j \notin r
  BY <1>4, <1>5
<1> HIDE DEF old, new, r
<1>8. new \cap r = {}  BY <1>6, <1>7
<1>9. \A j \in Job :
        /\ j \in new \cup r => \/ j \in old \cup r /\ fate'[j] = fate[j]
                               \/ fate[j] = "Unknown" /\ fate'[j] = "Live"
        /\ j \in old \cup r /\ j \notin new \cup r => fate'[j] \notin {"Live", "Unknown"}
        /\ j \notin old \cup r /\ j \notin new \cup r => fate'[j] = fate[j]
  BY <1>6, <1>7
<1>10. Moves(new \cup Routed', old \cup Routed)  BY <1>1, <1>9 DEF Moves, r
<1>11. Held(s) \cap Routed' = {}  BY <1>1, <1>8 DEF new, r
<1>12. Apart' /\ LiveHeld'
  BY <1>2, <1>10, <1>11, OneMoves DEF RoutingInv, old, new
<1>13. WindowsLeft'
  <2>1. Created' \subseteq Created
    <3>1. \A v \in Window \ {w} : win'[v] = win[v]
      BY DEF Becomes, RoutingInv, WindowsSound
    <3> QED  BY <3>1 DEF Created
  <2>2. GivenAway \subseteq GivenAway' /\ GivenAway' \subseteq Job
    <3>1. \A j \in Job : fate[j] # "Unknown" => fate'[j] # "Unknown"  BY <1>6
    <3> QED  BY <1>1, <3>1 DEF GivenAway
  <2>3. PICK c, g : c = Created' /\ g = GivenAway'  OBVIOUS
  <2>4. Cardinality(c) <= Cardinality(g)
    BY <1>2, <2>1, <2>2, <2>3, LeftStays
  <2> QED  BY <2>3, <2>4 DEF WindowsLeft
<1> QED  BY <1>12, <1>13 DEF PlacesInv

\* The same of a window that changes by itself.
LEMMA WindowMoves ==
    ASSUME RoutingInv, RouterTyped', PlacesInv, NEW w \in Window, NEW s, Becomes(w, s),
           win[w].life # "Unborn", Tidy(s), Held(s) \subseteq Job,
           RouterFrame, UNCHANGED route \/ Withdraws(w),
           fate' \in [Job -> Fates], Moves(Held(s), Held(win[w]))
    PROVE  PlacesInv'
<1>1. RouterTidy  BY DEF PlacesInv, Apart
<1>2. Routed' = Routed /\ RouterTidy'  BY <1>1, RouterKept DEF RoutingInv
<1> QED  BY <1>2, WindowChanges

\* What a step that settles some jobs makes of the fates.
LEMMA SettleFates ==
    ASSUME fate \in [Job -> Fates], NEW jobs, NEW how \in Fates, Settle(jobs, how)
    PROVE  /\ fate' \in [Job -> Fates]
           /\ \A j \in Job : fate'[j] = IF j \in jobs THEN how ELSE fate[j]
BY DEF Settle

\* A session is over: all but what waits has been settled, and the next one
\* begins, or the window is idle or gone.
LEMMA OverMoves ==
    ASSUME RoutingInv, RouterTyped', PlacesInv, NEW w \in Window, NEW s,
           \/ s.waiting # <<>> /\ Becomes(w, Continued(Ended(s)))
           \/ Becomes(w, Ended(s))
           \/ s.waiting = <<>> /\ Becomes(w, Destroyed(s)),
           UNCHANGED route \/ Withdraws(w),
           Shaped(s), Alive(s), WaitsOnce(s.waiting),
           win[w].life # "Unborn", RouterFrame,
           fate' \in [Job -> Fates], Moves(JobsOf(s.waiting), Held(win[w]))
    PROVE  PlacesInv'
<1>1. JobsOf(s.waiting) \subseteq Job  BY HeldAreJobs
<1>2. CASE s.waiting # <<>> /\ Becomes(w, Continued(Ended(s)))
  <2> DEFINE e == Ended(s)
             t == Continued(e)
  <2>1. e.waiting = s.waiting /\ Shaped(e) /\ Alive(e)
    BY EndedMoves, EndedSound DEF Sound, Alive
  <2>2. Becomes(w, t)  BY <1>2
  <2> HIDE DEF e
  <2>3. Tidy(t) /\ Held(t) = JobsOf(s.waiting)  BY <1>2, <2>1, ContinuedMoves
  <2> HIDE DEF t
  <2> QED  BY <1>1, <2>2, <2>3, WindowMoves
<1>3. CASE Becomes(w, Ended(s))
  <2> DEFINE t == Ended(s)
  <2>1. Tidy(t) /\ Held(t) = JobsOf(s.waiting)  BY EndedMoves
  <2> HIDE DEF t
  <2> QED  BY <1>1, <1>3, <2>1, WindowMoves DEF t
<1>4. CASE s.waiting = <<>> /\ Becomes(w, Destroyed(s))
  <2> DEFINE t == Destroyed(s)
  <2>1. Tidy(t) /\ Held(t) = {}  BY DestroyedMoves
  <2>2. JobsOf(s.waiting) = {}  BY <1>4, NothingThere
  <2> HIDE DEF t
  <2> QED  BY <1>1, <1>4, <2>1, <2>2, WindowMoves DEF t
<1> QED  BY <1>2, <1>3, <1>4

\* The same of what follows the end of a session that came by itself.
LEMMA GoesOnMoves ==
    ASSUME RoutingInv, RouterTyped', PlacesInv, NEW w \in Window, NEW s, NEW stays,
           GoesOn(w, s, stays), Shaped(s), Alive(s), WaitsOnce(s.waiting),
           win[w].life # "Unborn", RouterFrame,
           fate' \in [Job -> Fates], Moves(JobsOf(s.waiting), Held(win[w]))
    PROVE  PlacesInv'
BY OverMoves DEF GoesOn

\* A window with a session exists.
LEMMA SessionAlive ==
    ASSUME PlacesInv, NEW w \in Window, win[w].session # "None"
    PROVE  Alive(win[w]) /\ win[w].life # "Unborn"
BY DEF PlacesInv, Apart, Tidy, Alive, Active

\* A window that holds what it held.
LEMMA KeepsJobs ==
    ASSUME RoutingInv, RouterTyped', PlacesInv, NEW w \in Window, NEW s, Becomes(w, s),
           win[w].life # "Unborn", Tidy(s), Held(s) = Held(win[w]),
           RouterFrame, UNCHANGED <<route, fate>>
    PROVE  PlacesInv'
<1>1. Held(s) \subseteq Job  BY HeldAreJobs DEF RoutingInv, WindowsSound, Sound
<1>2. Moves(Held(s), Held(win[w]))  BY DEF Moves
<1>3. fate' \in [Job -> Fates]  BY DEF PlacesInv
<1> QED  BY <1>1, <1>2, <1>3, WindowMoves

-----------------------------------------------------------------------------
(***************************************************************************)
(* The windows.                                                            *)
(***************************************************************************)

\* How a job ends.
Ends == {"Finished", "Cancelled", "Refused", "Dropped"}

\* Jobs that are settled are those that are let go of.
LEMMA LetsGo ==
    ASSUME PlacesInv, NEW jobs, NEW how \in Ends, Settle(jobs, how),
           NEW now, NEW before, now \subseteq before,
           \A j \in Job : j \in jobs <=> j \in before /\ j \notin now
    PROVE  fate' \in [Job -> Fates] /\ Moves(now, before)
<1>1. how \in Fates /\ how \notin {"Live", "Unknown"} /\ fate \in [Job -> Fates]
  BY DEF Ends, Fates, PlacesInv
<1>2. /\ fate' \in [Job -> Fates]
      /\ \A j \in Job : fate'[j] = IF j \in jobs THEN how ELSE fate[j]
  BY <1>1, SettleFates
<1> QED  BY <1>1, <1>2 DEF Moves

\* What is known of a window before its step.
LEMMA WindowKnown ==
    ASSUME RoutingInv, PlacesInv, NEW w \in Window
    PROVE  Shaped(win[w]) /\ Tidy(win[w]) /\ Held(win[w]) \subseteq Job
BY HeldAreJobs DEF RoutingInv, WindowsSound, Sound, PlacesInv, Apart

\* The thread of the session makes its way without moving a job.
LEMMA ThreadPlaces ==
    ASSUME RoutingInv, RouterTyped', PlacesInv, NEW w \in Window,
           PlanReady(w) \/ GateCloses(w) \/ Hides(w)
    PROVE  PlacesInv'
<1> DEFINE s == win[w]
<1>1. Shaped(s) /\ Tidy(s)  BY WindowKnown
<1>2. CASE PlanReady(w)
  <2> DEFINE t == [s EXCEPT !.session = "Copying"]
             r == Refreshed(t)
  <2>1. /\ Shaped(t) /\ t.life = s.life /\ t.session = "Copying" /\ t.plan = s.plan
        /\ t.joining = s.joining /\ t.waiting = s.waiting
    BY <1>1 DEF Shaped, State, Session
  <2>2. s.session = "Planning" /\ Becomes(w, r) /\ RouterFrame /\ UNCHANGED <<route, fate>>
    BY <1>2 DEF PlanReady
  <2> HIDE DEF t
  <2>3. Tidy(t) /\ Held(t) = Held(s)  BY <1>1, <2>1, <2>2 DEF Tidy, Held, Alive, Active
  <2>4. Tidy(r) /\ Held(r) = Held(win[w])  BY <2>1, <2>3, RefreshMoves
  <2>5. win[w].life # "Unborn"  BY <2>2, SessionAlive
  <2> HIDE DEF r
  <2> QED  BY <2>2, <2>4, <2>5, KeepsJobs
<1>3. CASE GateCloses(w)
  <2> DEFINE t == [s EXCEPT !.accepting = FALSE]
  <2>1. /\ Shaped(t) /\ t.life = s.life /\ t.session = s.session /\ t.plan = s.plan
        /\ t.joining = s.joining /\ t.waiting = s.waiting
    BY <1>1 DEF Shaped, State
  <2>2. s.session = "Copying" /\ Becomes(w, t) /\ RouterFrame /\ UNCHANGED <<route, fate>>
    BY <1>3 DEF GateCloses
  <2> HIDE DEF t
  <2>3. Tidy(t) /\ Held(t) = Held(win[w])  BY <1>1, <2>1, SameJobs
  <2>4. win[w].life # "Unborn"  BY <2>2, SessionAlive
  <2> QED  BY <2>2, <2>3, <2>4, KeepsJobs
<1>4. CASE Hides(w)
  <2> DEFINE t == [s EXCEPT !.hidden = TRUE]
             r == Refreshed(t)
  <2>1. /\ Shaped(t) /\ t.life = s.life /\ t.session = s.session /\ t.plan = s.plan
        /\ t.joining = s.joining /\ t.waiting = s.waiting
    BY <1>1 DEF Shaped, State
  <2>2. s.life = "Open" /\ Becomes(w, r) /\ RouterFrame /\ UNCHANGED <<route, fate>>
    BY <1>4 DEF Hides
  <2> HIDE DEF t
  <2>3. Tidy(t) /\ Held(t) = Held(s)  BY <1>1, <2>1, SameJobs
  <2>4. Tidy(r) /\ Held(r) = Held(win[w])  BY <2>1, <2>3, RefreshMoves
  <2>5. win[w].life # "Unborn"  BY <2>2
  <2> HIDE DEF r
  <2> QED  BY <2>2, <2>4, <2>5, KeepsJobs
<1> QED  BY <1>2, <1>3, <1>4

\* A session is interrupted: what is at the planner for the old gate stays, if
\* the planner has not begun, or is dropped.
LEMMA InterruptsPlaces ==
    ASSUME RoutingInv, RouterTyped', PlacesInv, NEW w \in Window, Interrupts(w)
    PROVE  PlacesInv'
<1> DEFINE s == win[w]
           t == [s EXCEPT !.session = "Interrupted", !.accepting = TRUE, !.joining = <<>>]
           r == Refreshed(t)
           k == [r EXCEPT !.joining = s.joining]
<1>1. Shaped(s) /\ Tidy(s) /\ Held(s) \subseteq Job  BY WindowKnown
<1>2. /\ Shaped(t) /\ t.life = s.life /\ t.session = "Interrupted" /\ t.plan = s.plan
      /\ t.joining = <<>> /\ t.waiting = s.waiting
  BY <1>1, NothingQueued DEF Shaped, State, Session
<1>3. /\ s.session = "Copying" /\ RouterFrame /\ UNCHANGED route
      /\ \/ Becomes(w, k) /\ UNCHANGED fate
         \/ Becomes(w, r) /\ Settle(Range(s.joining), "Dropped")
  BY DEF Interrupts
<1>4. win[w].life # "Unborn"  BY <1>3, SessionAlive
<1> HIDE DEF t
<1>5. Tidy(t) /\ Held(t) = s.plan \cup JobsOf(s.waiting)
  BY <1>1, <1>2, <1>3, NothingThere DEF Tidy, Held, Alive, Active
<1>6. /\ Shaped(r) /\ r.life = s.life /\ r.session = "Interrupted" /\ r.plan = s.plan
      /\ r.joining = <<>> /\ r.waiting = s.waiting
      /\ Tidy(r) /\ Held(r) = s.plan \cup JobsOf(s.waiting)
  BY <1>2, <1>5, RefreshMoves
<1>7. CASE Becomes(w, k) /\ UNCHANGED fate
  <2>1. /\ k.life = s.life /\ k.session = "Interrupted" /\ k.plan = s.plan
        /\ k.joining = s.joining /\ k.waiting = s.waiting
    <3> HIDE DEF r
    <3> QED  BY <1>6 DEF Shaped, State
  <2> HIDE DEF k
  <2>2. Tidy(k) /\ Held(k) = Held(win[w])
    BY <1>1, <1>3, <2>1 DEF Tidy, Held, Alive, Active
  <2> QED  BY <1>3, <1>4, <1>7, <2>2, KeepsJobs
<1>8. CASE Becomes(w, r) /\ Settle(Range(s.joining), "Dropped")
  <2>1. \A j \in Job : j \in Range(s.joining) <=> j \in Held(s) /\ j \notin Held(r)
    BY <1>1, <1>6 DEF Tidy, Held
  <2>2. Held(r) \subseteq Held(s)  BY <1>6 DEF Held
  <2> HIDE DEF r
  <2>3. "Dropped" \in Ends  BY DEF Ends
  <2> DEFINE jobs == Range(s.joining)
             before == Held(s)
             now == Held(r)
  <2>4. Settle(jobs, "Dropped")  BY <1>8
  <2>5. now \subseteq before /\ \A j \in Job : j \in jobs <=> j \in before /\ j \notin now
    BY <2>1, <2>2
  <2> HIDE DEF jobs, before, now
  <2>6. fate' \in [Job -> Fates] /\ Moves(now, before)
    BY <2>3, <2>4, <2>5, LetsGo
  <2> QED  BY <1>1, <1>3, <1>4, <1>6, <1>8, <2>2, <2>6, WindowMoves DEF now, before
<1> QED  BY <1>3, <1>7, <1>8

\* An interrupted session goes on, or is over.
LEMMA ResumesPlaces ==
    ASSUME RoutingInv, RouterTyped', PlacesInv, NEW w \in Window, Resumes(w)
    PROVE  PlacesInv'
<1> DEFINE s == win[w]
           t == [s EXCEPT !.session = "Copying", !.cancel = FALSE]
           r == Refreshed(t)
<1>1. Shaped(s) /\ Tidy(s) /\ Held(s) \subseteq Job  BY WindowKnown
<1>2. /\ s.session = "Interrupted" /\ s.joining = <<>> /\ RouterFrame
      /\ \/ Becomes(w, r) /\ UNCHANGED <<route, fate>>
         \/ Settle(s.plan, "Finished") /\ GoesOn(w, s, FALSE)
  BY DEF Resumes
<1>3. Alive(s) /\ s.life # "Unborn"  BY <1>2, SessionAlive
<1>4. CASE Becomes(w, r) /\ UNCHANGED <<route, fate>>
  <2>1. /\ Shaped(t) /\ t.life = s.life /\ t.session = "Copying" /\ t.plan = s.plan
        /\ t.joining = s.joining /\ t.waiting = s.waiting
    BY <1>1 DEF Shaped, State, Session
  <2> HIDE DEF t
  <2>2. Tidy(t) /\ Held(t) = Held(s)
    BY <1>1, <1>2, <2>1 DEF Tidy, Held, Alive, Active
  <2>3. Tidy(r) /\ Held(r) = Held(win[w])  BY <2>1, <2>2, RefreshMoves
  <2> HIDE DEF r
  <2> QED  BY <1>2, <1>3, <1>4, <2>3, KeepsJobs
<1>5. CASE Settle(s.plan, "Finished") /\ GoesOn(w, s, FALSE)
  <2> DEFINE jobs == s.plan
             before == Held(s)
             now == JobsOf(s.waiting)
  <2>1. now \subseteq before  BY DEF Held
  <2>2. \A j \in Job : j \in jobs <=> j \in before /\ j \notin now
    BY <1>1, <1>2, NothingThere DEF Tidy, Held
  <2>3. Settle(jobs, "Finished") /\ "Finished" \in Ends  BY <1>5 DEF Ends
  <2>4. WaitsOnce(s.waiting)  BY <1>1 DEF Tidy
  <2> HIDE DEF jobs, before, now
  <2>5. fate' \in [Job -> Fates] /\ Moves(now, before)  BY <2>1, <2>2, <2>3, LetsGo
  <2> QED
    BY <1>1, <1>2, <1>3, <1>5, <2>4, <2>5, GoesOnMoves DEF now, before
<1> QED  BY <1>2, <1>4, <1>5

\* A session ends with its plan, and what was to join it is dropped.
LEMMA FinishesPlaces ==
    ASSUME RoutingInv, RouterTyped', PlacesInv, NEW w \in Window, Finishes(w)
    PROVE  PlacesInv'
<1> DEFINE s == win[w]
<1>1. Shaped(s) /\ Tidy(s) /\ Held(s) \subseteq Job  BY WindowKnown
<1>2. s.session = "Copying" /\ RouterFrame /\ \E stays \in BOOLEAN : GoesOn(w, s, stays)
  BY DEF Finishes
<1>3. Alive(s) /\ s.life # "Unborn"  BY <1>2, SessionAlive
<1>4. fate' = [j \in Job |-> IF j \in s.plan THEN "Finished"
                             ELSE IF j \in Range(s.joining) THEN "Dropped" ELSE fate[j]]
  BY DEF Finishes
<1>5. fate' \in [Job -> Fates]  BY <1>4 DEF PlacesInv, Fates
<1>6. WaitsOnce(s.waiting)  BY <1>1 DEF Tidy
<1>7. Moves(JobsOf(s.waiting), Held(s))
  <2> DEFINE p == s.plan
             q == Range(s.joining)
             d == JobsOf(s.waiting)
  <2>1. (p \cup q) \cap d = {} /\ Held(s) = p \cup q \cup d  BY <1>1 DEF Tidy, Held
  <2>2. \A j \in Job : fate'[j] = IF j \in p THEN "Finished"
                                  ELSE IF j \in q THEN "Dropped" ELSE fate[j]
    BY <1>4
  <2> HIDE DEF p, q, d
  <2>3. Moves(d, p \cup q \cup d)  BY <2>1, <2>2 DEF Moves
  <2> QED  BY <2>1, <2>3 DEF d
<1> QED  BY <1>1, <1>2, <1>3, <1>5, <1>6, <1>7, GoesOnMoves

\* All of a session that is declined is cancelled.
LEMMA DeclinedPlaces ==
    ASSUME RoutingInv, RouterTyped', PlacesInv, NEW w \in Window, Declined(w)
    PROVE  PlacesInv'
<1> DEFINE s == win[w]
           jobs == s.plan \cup Range(s.joining)
           before == Held(s)
           now == JobsOf(s.waiting)
<1>1. Shaped(s) /\ Tidy(s) /\ Held(s) \subseteq Job  BY WindowKnown
<1>2. s.session = "Planning" /\ RouterFrame /\ GoesOn(w, s, FALSE)
  BY DEF Declined
<1>3. Alive(s) /\ s.life # "Unborn"  BY <1>2, SessionAlive
<1>4. Settle(jobs, "Cancelled") /\ "Cancelled" \in Ends  BY DEF Declined, Ends
<1>5. now \subseteq before /\ \A j \in Job : j \in jobs <=> j \in before /\ j \notin now
  BY <1>1 DEF Tidy, Held
<1>6. WaitsOnce(s.waiting)  BY <1>1 DEF Tidy
<1> HIDE DEF jobs, before, now
<1>7. fate' \in [Job -> Fates] /\ Moves(now, before)  BY <1>4, <1>5, LetsGo
<1> QED  BY <1>1, <1>2, <1>3, <1>6, <1>7, GoesOnMoves DEF now, before

\* What was to join a plan that cannot be made waits again.
LEMMA PlanFailsPlaces ==
    ASSUME RoutingInv, RouterTyped', PlacesInv, NEW w \in Window, PlanFails(w)
    PROVE  PlacesInv'
<1> DEFINE s == win[w]
           q == [i \in DOMAIN s.joining |-> [job |-> s.joining[i], storage |-> {}]]
           t == Requeued(s, s.joining)
<1>1. Shaped(s) /\ Tidy(s) /\ Held(s) \subseteq Job  BY WindowKnown
<1>2. /\ s.session = "Planning" /\ RouterFrame
      /\ Settle(s.plan, "Refused") /\ \E stays \in BOOLEAN : GoesOn(w, t, stays)
  BY DEF PlanFails
<1>3. Alive(s) /\ s.life # "Unborn"  BY <1>2, SessionAlive
<1>4. s.joining \in Seq(Job) /\ s.waiting \in Seq(Later)  BY <1>1, HeldAreJobs
<1>5. /\ IsInjective(s.joining) /\ WaitsOnce(s.waiting)
      /\ s.plan \cap Range(s.joining) = {} /\ s.plan \cap JobsOf(s.waiting) = {}
      /\ Range(s.joining) \cap JobsOf(s.waiting) = {}
  BY <1>1 DEF Tidy
<1>6. /\ q \o s.waiting \in Seq(Later)
      /\ JobsOf(q \o s.waiting) = Range(s.joining) \cup JobsOf(s.waiting)
      /\ WaitsOnce(q \o s.waiting)
  BY <1>4, <1>5, WaitingAgain
<1>7. t = [s EXCEPT !.waiting = q \o s.waiting]  BY <1>1 DEF Requeued, Shaped, State
<1> HIDE DEF q
<1>8. Shaped(t) /\ t.life = s.life /\ t.waiting = q \o s.waiting
  BY <1>1, <1>6, <1>7 DEF Shaped, State
<1> DEFINE jobs == s.plan
           before == Held(s)
           now == JobsOf(t.waiting)
<1>9. now = Range(s.joining) \cup JobsOf(s.waiting)  BY <1>6, <1>8
<1>10. now \subseteq before /\ \A j \in Job : j \in jobs <=> j \in before /\ j \notin now
  BY <1>5, <1>9 DEF Held
<1>11. Settle(jobs, "Refused") /\ "Refused" \in Ends  BY <1>2 DEF Ends
<1>12. Alive(t) /\ WaitsOnce(t.waiting)  BY <1>3, <1>6, <1>8 DEF Alive
<1> HIDE DEF t, jobs, before, now
<1>13. fate' \in [Job -> Fates] /\ Moves(now, before)  BY <1>10, <1>11, LetsGo
<1> QED  BY <1>2, <1>3, <1>8, <1>12, <1>13, GoesOnMoves DEF now, before

\* The first of the jobs that are to join is in the plan, or settled.
LEMMA JoinsPlaces ==
    ASSUME RoutingInv, RouterTyped', PlacesInv, NEW w \in Window, Joins(w)
    PROVE  PlacesInv'
<1> DEFINE s == win[w]
           q == s.joining
           j == Head(q)
           t == [s EXCEPT !.plan = @ \cup {j}, !.joining = Tail(@)]
           u == [s EXCEPT !.joining = Tail(@)]
           how == IF s.accepting THEN "Refused" ELSE "Dropped"
<1>1. Shaped(s) /\ Tidy(s) /\ Held(s) \subseteq Job  BY WindowKnown
<1>2. /\ s.session \in {"Copying", "Interrupted"} /\ q # <<>>
      /\ RouterFrame /\ UNCHANGED route
      /\ \/ Becomes(w, t) /\ UNCHANGED fate
         \/ Becomes(w, u) /\ Settle({j}, how)
  BY DEF Joins
<1>3. Alive(s) /\ s.life # "Unborn"  BY <1>2, SessionAlive
<1>4. q \in Seq(Job)  BY <1>1, HeldAreJobs
<1>5. IsInjective(q)  BY <1>1 DEF Tidy
<1>6. /\ j \in Job /\ Tail(q) \in Seq(Job)
      /\ Range(q) = Range(Tail(q)) \cup {j}
      /\ IsInjective(Tail(q)) /\ j \notin Range(Tail(q))
  <2>1. q # <<>>  BY <1>2
  <2> HIDE DEF q
  <2> QED  BY <1>4, <1>5, <2>1, QueueShrinks
<1>7. /\ t.life = s.life /\ t.session = s.session /\ t.plan = s.plan \cup {j}
      /\ t.joining = Tail(q) /\ t.waiting = s.waiting
  BY <1>1 DEF Shaped, State
<1>8. /\ u.life = s.life /\ u.session = s.session /\ u.plan = s.plan
      /\ u.joining = Tail(q) /\ u.waiting = s.waiting
  BY <1>1 DEF Shaped, State
<1> HIDE DEF t, u
<1> DEFINE r == Range(Tail(q))
           e == Range(q)
           d == JobsOf(s.waiting)
<1>9. /\ e = r \cup {j} /\ j \notin r
      /\ s.plan \cap e = {} /\ (s.plan \cup e) \cap d = {} /\ WaitsOnce(s.waiting)
      /\ Active(s) /\ Held(s) = s.plan \cup e \cup d
  BY <1>1, <1>2, <1>6 DEF Tidy, Held, Active
<1>10. /\ IsInjective(Tail(q)) /\ Range(t.joining) = r /\ Range(u.joining) = r
       /\ JobsOf(t.waiting) = d /\ JobsOf(u.waiting) = d
  BY <1>6, <1>7, <1>8
<1> HIDE DEF j, q, r, e, d
<1>11. Tidy(t) /\ Held(t) = Held(s)
  BY <1>3, <1>7, <1>9, <1>10 DEF Tidy, Held, Alive, Active
<1>12. Tidy(u) /\ Held(u) = s.plan \cup r \cup d
  BY <1>3, <1>8, <1>9, <1>10 DEF Tidy, Held, Alive, Active
<1>13. CASE Becomes(w, t) /\ UNCHANGED fate
  BY <1>2, <1>3, <1>11, <1>13, KeepsJobs
<1>14. CASE Becomes(w, u) /\ Settle({j}, how)
  <2>1. how \in Ends  BY DEF Ends
  <2>2. /\ Held(u) \subseteq Held(s)
        /\ \A i \in Job : i \in {j} <=> i \in Held(s) /\ i \notin Held(u)
    BY <1>9, <1>12
  <2> HIDE DEF how
  <2>3. fate' \in [Job -> Fates] /\ Moves(Held(u), Held(s))
    BY <1>14, <2>1, <2>2, LetsGo
  <2>4. Held(u) \subseteq Job  BY <1>1, <2>2
  <2> QED  BY <1>2, <1>3, <1>12, <1>14, <2>3, <2>4, WindowMoves
<1> QED  BY <1>2, <1>13, <1>14

\* CancelCurrentSession() of a window, or of the window as it is when it closes:
\* then what waited, also, is cancelled too.
LEMMA CancelsPlaces ==
    ASSUME RoutingInv, RouterTyped', PlacesInv, NEW w \in Window, NEW s, NEW also,
           CancelsSession(w, s, also), RouterFrame, Shaped(s), Tidy(s), Alive(s),
           Active(s), win[w].life # "Unborn",
           Held(win[w]) = Held(s) \cup also, Held(s) \cap also = {}
    PROVE  PlacesInv'
<1> DEFINE t == [s EXCEPT !.joining = <<>>, !.accepting = FALSE, !.cancel = TRUE]
<1>1. /\ Shaped(t) /\ t.life = s.life /\ t.session = s.session /\ t.plan = s.plan
      /\ t.joining = <<>> /\ t.waiting = s.waiting
  BY NothingQueued DEF Shaped, State
<1>2. /\ Withdraws(w)
      /\ \/ /\ Becomes(w, t) /\ Settle(Range(s.joining) \cup also, "Cancelled")
         \/ /\ Settle(s.plan \cup Range(s.joining) \cup also, "Cancelled")
            /\ \/ t.waiting # <<>> /\ Becomes(w, Continued(Ended(t)))
               \/ t.waiting = <<>> /\ Becomes(w, Destroyed(t))
  BY DEF CancelsSession
<1> HIDE DEF t
<1>3. /\ s.plan \cap Range(s.joining) = {} /\ WaitsOnce(s.waiting)
      /\ (s.plan \cup Range(s.joining)) \cap JobsOf(s.waiting) = {}
      /\ Held(s) = s.plan \cup Range(s.joining) \cup JobsOf(s.waiting)
  BY DEF Tidy, Held
<1>4. Held(s) \subseteq Job /\ "Cancelled" \in Ends  BY HeldAreJobs DEF Ends
<1> DEFINE p == s.plan
           q == Range(s.joining)
           d == JobsOf(s.waiting)
           before == Held(win[w])
<1>5. /\ before = p \cup q \cup d \cup also /\ p \cap q = {} /\ (p \cup q) \cap d = {}
      /\ (p \cup q \cup d) \cap also = {}
  BY <1>3
<1>6. CASE Becomes(w, t) /\ Settle(Range(s.joining) \cup also, "Cancelled")
  <2>1. Tidy(t) /\ Held(t) = p \cup d
    BY <1>1, NothingThere DEF Tidy, Held, Alive, Active
  <2> DEFINE jobs == q \cup also
             now == p \cup d
  <2>2. Settle(jobs, "Cancelled")  BY <1>6
  <2>3. now \subseteq before /\ \A j \in Job : j \in jobs <=> j \in before /\ j \notin now
    BY <1>5
  <2>4. Held(t) = now /\ Held(t) \subseteq Job  BY <1>3, <1>4, <2>1
  <2> HIDE DEF jobs, now, before
  <2>5. fate' \in [Job -> Fates] /\ Moves(now, before)  BY <1>4, <2>2, <2>3, LetsGo
  <2> QED  BY <1>2, <1>6, <2>1, <2>4, <2>5, WindowMoves DEF before
<1>7. CASE /\ Settle(s.plan \cup Range(s.joining) \cup also, "Cancelled")
           /\ \/ t.waiting # <<>> /\ Becomes(w, Continued(Ended(t)))
              \/ t.waiting = <<>> /\ Becomes(w, Destroyed(t))
  <2> DEFINE jobs == p \cup q \cup also
             now == d
  <2>1. Settle(jobs, "Cancelled")  BY <1>7
  <2>2. now \subseteq before /\ \A j \in Job : j \in jobs <=> j \in before /\ j \notin now
    BY <1>5
  <2>3. JobsOf(t.waiting) = now /\ WaitsOnce(t.waiting) /\ Alive(t)
    BY <1>1, <1>3 DEF Alive
  <2> HIDE DEF jobs, now, before
  <2>4. fate' \in [Job -> Fates] /\ Moves(now, before)  BY <1>4, <2>1, <2>2, LetsGo
  <2> QED  BY <1>1, <1>2, <1>7, <2>3, <2>4, OverMoves DEF before
<1> QED  BY <1>2, <1>6, <1>7

\* The person cancels or closes a window.
LEMMA PersonPlaces ==
    ASSUME RoutingInv, RouterTyped', PlacesInv, NEW w \in Window,
           Cancels(w) \/ Closes(w)
    PROVE  PlacesInv'
<1> DEFINE s == win[w]
<1>1. Shaped(s) /\ Tidy(s) /\ Held(s) \subseteq Job  BY WindowKnown
<1>2. s.life = "Open" /\ RouterFrame  BY DEF Cancels, Closes
<1>3. Alive(s)  BY <1>2 DEF Alive
<1>4. CASE Cancels(w)
  <2>1. Active(s) /\ CancelsSession(w, s, {})  BY <1>4 DEF Cancels
  <2>2. Held(win[w]) = Held(s) \cup {} /\ Held(s) \cap {} = {}  OBVIOUS
  <2> QED  BY <1>1, <1>2, <1>3, <2>1, <2>2, CancelsPlaces
<1>5. CASE Closes(w) /\ Active(s)
  <2> DEFINE t == [s EXCEPT !.life = "Exiting", !.hidden = TRUE, !.waiting = <<>>]
             r == Refreshed(t)
             also == JobsOf(s.waiting)
  <2>1. CancelsSession(w, r, also)  BY <1>5 DEF Closes
  <2>2. /\ Shaped(t) /\ t.life = "Exiting" /\ t.session = s.session /\ t.plan = s.plan
        /\ t.joining = s.joining /\ t.waiting = <<>>
    BY <1>1, NothingQueued DEF Shaped, State, Life
  <2> HIDE DEF t
  <2>3. /\ Tidy(t) /\ Held(t) = s.plan \cup Range(s.joining)
    BY <1>1, <2>2, NothingThere DEF Tidy, Held, Alive, Active
  <2>4. /\ Shaped(r) /\ Tidy(r) /\ Held(r) = s.plan \cup Range(s.joining)
        /\ r.life = "Exiting" /\ r.session = s.session
    BY <2>2, <2>3, RefreshMoves
  <2>5. Alive(r) /\ Active(r)  BY <1>5, <2>4 DEF Alive, Active
  <2>6. Held(win[w]) = Held(r) \cup also /\ Held(r) \cap also = {}
    BY <1>1, <2>4 DEF Tidy, Held
  <2> HIDE DEF r, also
  <2> QED  BY <1>2, <2>1, <2>4, <2>5, <2>6, CancelsPlaces
<1>6. CASE Closes(w) /\ ~Active(s)
  <2> DEFINE jobs == JobsOf(s.waiting)
             before == Held(s)
             t == Destroyed(s)
  <2>1. Settle(jobs, "Cancelled") /\ Becomes(w, t) /\ Withdraws(w) /\ "Cancelled" \in Ends
    BY <1>6 DEF Closes, Ends
  <2>2. Tidy(t) /\ Held(t) = {}  BY DestroyedMoves
  <2>3. {} \subseteq before /\ \A j \in Job : j \in jobs <=> j \in before /\ j \notin {}
    BY <1>1, <1>6, NothingThere DEF Tidy, Held
  <2>4. Held(t) \subseteq Job  BY <2>2
  <2> HIDE DEF jobs, before, t
  <2>5. fate' \in [Job -> Fates] /\ Moves({}, before)  BY <2>1, <2>3, LetsGo
  <2> QED  BY <1>2, <2>1, <2>2, <2>4, <2>5, WindowMoves DEF before
<1> QED  BY <1>4, <1>5, <1>6

\* Files dropped on a window are a job that only it holds.
LEMMA DropsPlaces ==
    ASSUME RoutingInv, RouterTyped', PlacesInv, NEW w \in Window, NEW j \in Job,
           Drops(w, j)
    PROVE  PlacesInv'
<1> DEFINE s == win[w]
           r == Refreshed(s)
           q == Append(s.joining, j)
           l == [job |-> j, storage |-> {}]
           d == Append(s.waiting, l)
           t == [r EXCEPT !.joining = q]
           u == [r EXCEPT !.waiting = d]
<1>1. Shaped(s) /\ Tidy(s) /\ Held(s) \subseteq Job  BY WindowKnown
<1>2. /\ fate[j] = "Unknown" /\ s.life = "Open" /\ Active(s) /\ RouterFrame
      /\ UNCHANGED route /\ fate' = [fate EXCEPT ![j] = "Live"]
  BY DEF Drops
<1>3. /\ Shaped(r) /\ Tidy(r) /\ Held(r) = Held(s) /\ r.life = s.life
      /\ r.session = s.session /\ r.plan = s.plan /\ r.joining = s.joining
      /\ r.waiting = s.waiting
  BY <1>1, RefreshMoves
<1>4. Becomes(w, t) \/ Becomes(w, u)
  BY <1>3 DEF Drops
<1>5. s.joining \in Seq(Job) /\ s.waiting \in Seq(Later)  BY <1>1, HeldAreJobs
<1>6. l \in Later /\ l.job = j  BY DEF Later, Devices
<1> HIDE DEF l
<1>7. j \notin Held(s)
  BY <1>2 DEF PlacesInv, LiveHeld
<1>8. j \notin s.plan /\ j \notin Range(s.joining) /\ j \notin JobsOf(s.waiting)
  BY <1>7 DEF Held
<1>9. /\ IsInjective(s.joining) /\ WaitsOnce(s.waiting)
      /\ s.plan \cap Range(s.joining) = {}
      /\ (s.plan \cup Range(s.joining)) \cap JobsOf(s.waiting) = {}
  BY <1>1 DEF Tidy
<1>10. q \in Seq(Job) /\ Range(q) = Range(s.joining) \cup {j} /\ IsInjective(q)
  BY <1>5, <1>8, <1>9, QueueGrows
<1>11. /\ d \in Seq(Later) /\ JobsOf(d) = JobsOf(s.waiting) \cup {j} /\ WaitsOnce(d)
  BY <1>5, <1>6, <1>8, <1>9, WaitingGrows
<1> HIDE DEF q, d, r
<1>12. /\ t.life = s.life /\ t.session = s.session /\ t.plan = s.plan
       /\ t.joining = q /\ t.waiting = s.waiting
  BY <1>3 DEF Shaped, State
<1>13. /\ u.life = s.life /\ u.session = s.session /\ u.plan = s.plan
       /\ u.joining = s.joining /\ u.waiting = d
  BY <1>3 DEF Shaped, State
<1>14. Alive(s) /\ s.life # "Unborn"  BY <1>2 DEF Alive
<1> HIDE DEF t, u
<1>15. Tidy(t) /\ Held(t) = Held(s) \cup {j}
  BY <1>2, <1>8, <1>9, <1>10, <1>12, <1>14 DEF Tidy, Held, Alive, Active
<1>16. Tidy(u) /\ Held(u) = Held(s) \cup {j}
  BY <1>2, <1>8, <1>9, <1>11, <1>13, <1>14 DEF Tidy, Held, Alive, Active
<1>17. fate \in [Job -> Fates]  BY DEF PlacesInv
<1>18. fate' \in [Job -> Fates] /\ Moves(Held(s) \cup {j}, Held(s))
  <2> DEFINE h == Held(s)
  <2>1. fate' \in [Job -> Fates]  BY <1>2, <1>17 DEF Fates
  <2>2. \A i \in Job : fate'[i] = IF i = j THEN "Live" ELSE fate[i]  BY <1>2, <1>17
  <2> HIDE DEF h
  <2>3. Moves(h \cup {j}, h)  BY <1>2, <1>7, <2>2 DEF Moves, h
  <2> QED  BY <2>1, <2>3 DEF h
<1>19. Held(s) \cup {j} \subseteq Job  BY <1>1
<1> QED  BY <1>2, <1>4, <1>14, <1>15, <1>16, <1>18, <1>19, WindowMoves

-----------------------------------------------------------------------------
(***************************************************************************)
(* The router.                                                             *)
(***************************************************************************)

\* The request in flight is one of the router's, and no other of them.
LEMMA InFlightKnown ==
    ASSUME RoutingInv, PlacesInv, route # None
    PROVE  /\ route \in Request /\ route.job \in Job /\ route.job \in Routed
           /\ route.job \notin Range(pending) /\ Routed = Range(pending) \cup {route.job}
           /\ fate[route.job] = "Live" /\ route.job \notin GivenAway
<1>1. route \in Request /\ route.job \in Job
  BY DEF RoutingInv, RouterTyped, Request
<1>2. Routed = Range(pending) \cup {route.job} /\ route.job \notin Range(pending)
  BY DEF Routed, InFlight, PlacesInv, Apart, RouterTidy
<1> QED  BY <1>1, <1>2 DEF PlacesInv, LiveHeld, GivenAway

\* The next request is taken from a queue that has every job once.
LEMMA StartsNextMoves ==
    ASSUME NEW q \in Seq(Job), IsInjective(q), StartsNext(q)
    PROVE  Routed' = Range(q) /\ RouterTidy'
<1>1. CASE q = <<>>
  <2>1. route' = None /\ pending' = <<>>  BY <1>1 DEF StartsNext
  <2> QED  BY <1>1, <2>1, NothingThere DEF Routed, InFlight, RouterTidy
<1>2. CASE q # <<>>
  <2>1. route' = Resolving(Head(q)) /\ pending' = Tail(q)  BY <1>2 DEF StartsNext
  <2>2. /\ Head(q) \in Job /\ Range(q) = Range(Tail(q)) \cup {Head(q)}
        /\ IsInjective(Tail(q)) /\ Head(q) \notin Range(Tail(q))
    BY <1>2, QueueShrinks
  <2>3. Resolving(Head(q)) \in Request /\ Resolving(Head(q)).job = Head(q)
    BY <2>2 DEF Resolving, Request
  <2>4. route' # None /\ route'.job = Head(q)  BY <2>1, <2>3, RoutingAssumption
  <2> QED  BY <2>1, <2>2, <2>4 DEF Routed, InFlight, RouterTidy
<1> QED  BY <1>1, <1>2

\* The request in flight leaves the router: a window is given the job, or it is
\* settled.
LEMMA RequestLeaves ==
    ASSUME RoutingInv, RouterTyped', PlacesInv, route # None, Done,
           NEW w \in Window, NEW s, Becomes(w, s), Tidy(s), NEW how \in Ends,
           \/ Held(s) = Held(win[w]) \cup {route.job} /\ UNCHANGED fate
           \/ Held(s) = Held(win[w]) /\ fate' = [fate EXCEPT ![route.job] = how]
    PROVE  PlacesInv'
<1> DEFINE j == route.job
           old == Held(win[w])
           new == Held(s)
           r == Routed
           q == Range(pending)
<1>1. j \in Job /\ r = q \cup {j} /\ j \notin q /\ fate[j] = "Live" /\ j \notin GivenAway
  BY InFlightKnown
<1>2. Routed' = q /\ RouterTidy'
  BY StartsNextMoves DEF Done, RoutingInv, RouterTyped, PlacesInv, Apart, RouterTidy
<1>3. Apart /\ LiveHeld /\ WindowsLeft /\ fate \in [Job -> Fates]  BY DEF PlacesInv
<1>4. old \cap r = {}  BY DEF PlacesInv, Apart
<1>5. old \subseteq Job  BY HeldAreJobs DEF RoutingInv, WindowsSound, Sound
<1>6. how \in Fates /\ how \notin {"Live", "Unknown"}  BY DEF Ends, Fates
<1>7. \/ new = old \cup {j} /\ UNCHANGED fate
      \/ new = old /\ fate' = [fate EXCEPT ![j] = how]
  OBVIOUS
<1> HIDE DEF j, old, new, r, q
<1>8. fate' \in [Job -> Fates]  BY <1>1, <1>3, <1>6, <1>7
<1>9. new \subseteq Job /\ new \cap q = {}  BY <1>1, <1>4, <1>5, <1>7
<1>10. Moves(new \cup q, old \cup r)
  <2>1. CASE new = old \cup {j} /\ UNCHANGED fate  BY <1>1, <2>1 DEF Moves
  <2>2. CASE new = old /\ fate' = [fate EXCEPT ![j] = how]
    <3>1. \A i \in Job : fate'[i] = IF i = j THEN how ELSE fate[i]  BY <1>3, <2>2
    <3> QED  BY <1>1, <1>4, <1>6, <2>2, <3>1 DEF Moves
  <2> QED  BY <1>7, <2>1, <2>2
<1>11. Apart' /\ LiveHeld'
  <2>1. Moves(Held(s) \cup Routed', Held(win[w]) \cup Routed)
    BY <1>2, <1>10 DEF new, old, r
  <2>2. Held(s) \subseteq Job /\ Held(s) \cap Routed' = {}  BY <1>2, <1>9 DEF new
  <2> QED  BY <1>2, <1>3, <2>1, <2>2, OneMoves DEF RoutingInv
<1>12. WindowsLeft'
  <2>1. Created' \subseteq Created \cup {w}
    <3>1. \A v \in Window \ {w} : win'[v] = win[v]
      BY DEF Becomes, RoutingInv, WindowsSound
    <3> QED  BY <3>1 DEF Created
  <2>2. GivenAway \cup {j} \subseteq GivenAway' /\ GivenAway' \subseteq Job
    <3>1. \A i \in Job : fate[i] # "Unknown" => fate'[i] # "Unknown"
      BY <1>1, <1>3, <1>6, <1>7
    <3>2. fate'[j] # "Unknown"  BY <1>1, <3>1
    <3>3. \A i \in Job : i \in GivenAway' <=> fate'[i] # "Unknown" /\ i \notin q
      BY <1>2 DEF GivenAway
    <3>4. \A i \in Job : i \in GivenAway <=> fate[i] # "Unknown" /\ i \notin r
      BY DEF GivenAway, r
    <3>5. GivenAway \subseteq Job /\ GivenAway' \subseteq Job  BY DEF GivenAway
    <3> QED  BY <1>1, <3>1, <3>2, <3>3, <3>4, <3>5
  <2>3. PICK c, g : c = Created' /\ g = GivenAway'  OBVIOUS
  <2>4. Cardinality(c) <= Cardinality(g)
    BY <1>1, <1>3, <2>1, <2>2, <2>3, LeftGrows
  <2> QED  BY <2>3, <2>4 DEF WindowsLeft
<1> QED  BY <1>8, <1>11, <1>12 DEF PlacesInv

\* A session takes the job into its plan to come.
LEMMA AppendPlaces ==
    ASSUME RoutingInv, RouterTyped', PlacesInv, route # None, Done, UNCHANGED fate,
           NEW w \in Sessions, AppendTransfer(w, route.job)
    PROVE  PlacesInv'
<1> DEFINE j == route.job
           s == win[w]
           r == Shown(s)
           q == Append(r.joining, j)
           t == [r EXCEPT !.joining = q]
<1>1. w \in Window /\ Active(s) /\ s.life = "Open"  BY DEF Sessions
<1>2. Shaped(s) /\ Tidy(s) /\ Held(s) \subseteq Job  BY <1>1, WindowKnown
<1>3. /\ Shaped(r) /\ Tidy(r) /\ Held(r) = Held(s) /\ r.life = s.life
      /\ r.session = s.session /\ r.plan = s.plan /\ r.joining = s.joining
      /\ r.waiting = s.waiting
  BY <1>2, ShownMoves
<1>4. Becomes(w, t)  BY DEF AppendTransfer, Becomes
<1>5. j \in Job /\ j \notin Held(s)
  BY <1>1, InFlightKnown DEF PlacesInv, Apart
<1>6. /\ r.joining \in Seq(Job) /\ IsInjective(r.joining) /\ WaitsOnce(r.waiting)
      /\ r.plan \cap Range(r.joining) = {}
      /\ (r.plan \cup Range(r.joining)) \cap JobsOf(r.waiting) = {}
  BY <1>3, HeldAreJobs DEF Tidy
<1>7. j \notin r.plan /\ j \notin Range(r.joining) /\ j \notin JobsOf(r.waiting)
  BY <1>3, <1>5 DEF Held
<1>8. q \in Seq(Job) /\ Range(q) = Range(r.joining) \cup {j} /\ IsInjective(q)
  <2> HIDE DEF j, r
  <2> QED  BY <1>5, <1>6, <1>7, QueueGrows
<1> HIDE DEF q, r
<1>9. /\ t.life = r.life /\ t.session = r.session /\ t.plan = r.plan
      /\ t.joining = q /\ t.waiting = r.waiting
  BY <1>3 DEF Shaped, State
<1> HIDE DEF t
<1>10. Tidy(t) /\ Held(t) = Held(s) \cup {j}
  BY <1>1, <1>3, <1>6, <1>7, <1>8, <1>9 DEF Tidy, Held, Alive, Active
<1> QED  BY <1>1, <1>4, <1>10, RequestLeaves DEF Ends

\* The job waits behind the session of a window, or in a window without one.
LEMMA WaitPlaces ==
    ASSUME RoutingInv, RouterTyped', PlacesInv, route # None, Done, UNCHANGED fate,
           NEW w \in Living, EnqueueTransfer(w, route.job)
    PROVE  PlacesInv'
<1> DEFINE j == route.job
           s == win[w]
           r == Shown(s)
           l == [job |-> j, storage |-> Storage[j]]
           q == Append(r.waiting, l)
           t == [r EXCEPT !.waiting = q]
<1>1. w \in Window /\ Alive(s)  BY DEF Living, Alive
<1>2. Shaped(s) /\ Tidy(s) /\ Held(s) \subseteq Job  BY <1>1, WindowKnown
<1>3. /\ Shaped(r) /\ Tidy(r) /\ Held(r) = Held(s) /\ r.life = s.life
      /\ r.session = s.session /\ r.plan = s.plan /\ r.joining = s.joining
      /\ r.waiting = s.waiting
  BY <1>2, ShownMoves
<1>4. Becomes(w, t)  BY DEF EnqueueTransfer, Becomes
<1>5. j \in Job /\ j \notin Held(s)
  BY <1>1, InFlightKnown DEF PlacesInv, Apart
<1>6. /\ r.waiting \in Seq(Later) /\ IsInjective(r.joining) /\ WaitsOnce(r.waiting)
      /\ r.plan \cap Range(r.joining) = {}
      /\ (r.plan \cup Range(r.joining)) \cap JobsOf(r.waiting) = {}
      /\ ~Active(r) => r.plan = {} /\ r.joining = <<>>
  BY <1>3, HeldAreJobs DEF Tidy
<1>7. j \notin r.plan /\ j \notin Range(r.joining) /\ j \notin JobsOf(r.waiting)
  BY <1>3, <1>5 DEF Held
<1>8. l \in Later /\ l.job = j  BY <1>5 DEF Later, Devices
<1>9. JobsOf(q) = JobsOf(r.waiting) \cup {j} /\ WaitsOnce(q)
  <2> HIDE DEF j, r, l
  <2> QED  BY <1>6, <1>7, <1>8, WaitingGrows
<1> HIDE DEF q, r, l
<1>10. /\ t.life = r.life /\ t.session = r.session /\ t.plan = r.plan
       /\ t.joining = r.joining /\ t.waiting = q
  BY <1>3 DEF Shaped, State
<1> HIDE DEF t
<1>11. Tidy(t) /\ Held(t) = Held(s) \cup {j}
  BY <1>1, <1>3, <1>6, <1>7, <1>9, <1>10 DEF Tidy, Held, Alive, Active
<1> QED  BY <1>1, <1>4, <1>11, RequestLeaves DEF Ends

\* The job gets a session of its own, in an idle window or in a new one.
LEMMA StartNewPlaces ==
    ASSUME RoutingInv, RouterTyped', PlacesInv, route # None, Done, UNCHANGED fate,
           StartNew(route.job)
    PROVE  PlacesInv'
<1> DEFINE j == route.job
           w == IF IdleVisible # {} THEN Min(IdleVisible) ELSE NextWindow
           b == Born(w)
           h == Shown(b)
           t == Started(h, j, Storage[j])
<1>1. Becomes(w, t)  BY DEF StartNew, Becomes
<1>2. w \in Window /\ (w \in IdleVisible \/ win[w].life = "Unborn")
  <2>1. IdleVisible \subseteq Window  BY DEF IdleVisible
  <2>2. IdleVisible # {} => Min(IdleVisible) \in IdleVisible  BY <2>1, FirstOfWindows
  <2>3. NextWindow \in Window /\ win[NextWindow].life = "Unborn"
    BY InFlightKnown, OneIsLeft DEF PlacesInv
  <2> QED  BY <2>1, <2>2, <2>3
<1>3. Shaped(win[w]) /\ Tidy(win[w])  BY <1>2, WindowKnown
<1> HIDE DEF w
<1>4. /\ Shaped(b) /\ Tidy(b) /\ Held(b) = Held(win[w]) /\ b.life = "Open"
      /\ b.session = "None"
  <2>1. /\ Shaped(b) /\ Tidy(b) /\ Held(b) = Held(win[w])
        /\ win[w].life = "Unborn" => b.life = "Open" /\ b.session = "None"
    BY <1>2, <1>3, BornMoves DEF RoutingInv
  <2>2. w \in IdleVisible => b = win[w] /\ b.life = "Open" /\ b.session = "None"
    BY DEF IdleVisible, Born, Active
  <2> QED  BY <1>2, <2>1, <2>2
<1> HIDE DEF b
<1>5. /\ Shaped(h) /\ Tidy(h) /\ Held(h) = Held(win[w]) /\ h.life = "Open"
      /\ h.session = "None"
  BY <1>4, ShownMoves
<1> HIDE DEF h
<1>6. Held(h) = JobsOf(h.waiting) /\ WaitsOnce(h.waiting) /\ Alive(h)
  BY <1>5, NothingThere DEF Tidy, Held, Active, Alive
<1>7. j \in Job /\ j \notin Held(win[w])
  BY <1>2, InFlightKnown DEF PlacesInv, Apart
<1>8. Storage[j] \in Devices  BY <1>7 DEF Devices
<1>9. Tidy(t) /\ Held(t) = Held(win[w]) \cup {j}
  BY <1>5, <1>6, <1>7, <1>8, StartedMoves
<1> HIDE DEF t
<1> QED  BY <1>1, <1>2, <1>9, RequestLeaves DEF Ends

\* The router gives the job away.
LEMMA HandsOverPlaces ==
    ASSUME RoutingInv, RouterTyped', PlacesInv, route # None, Done, UNCHANGED fate,
           NEW choice, NEW w, HandsOver(route.job, choice, w),
           choice = "Append" => w \in Sessions, choice = "Wait" => w \in Living
    PROVE  PlacesInv'
BY AppendPlaces, WaitPlaces, StartNewPlaces DEF HandsOver

\* The router asks, or gives the job away to a window with a session.
LEMMA ConsidersPlaces ==
    ASSUME RoutingInv, RouterTyped', PlacesInv, route # None, UNCHANGED fate,
           NEW attempt \in 0..1, NEW p, Considers(route.job, attempt, p)
    PROVE  PlacesInv'
<1> DEFINE j == route.job
           x == RouteTransfer(j, p)
           w == x.window
<1>1. \/ w \in Sessions /\ x.about \in {"destination", "device"}
      \/ x.choice = "Parallel"
  BY RoutedWindow DEF RouteTransfer, Decision
<1>2. Sessions \subseteq Living /\ Living \subseteq Window  BY DEF Sessions, Living
<1>3. CASE HandsOver(j, x.choice, w) /\ Done
  <2>1. (x.choice = "Append" => w \in Sessions) /\ (x.choice = "Wait" => w \in Living)
    BY <1>1, <1>2
  <2> HIDE DEF x
  <2> QED  BY <1>3, <2>1, HandsOverPlaces
<1>4. CASE /\ x.choice = None
           /\ route' = [job |-> j, step |-> "Asking", attempt |-> attempt,
                        about |-> x.about, window |-> w]
           /\ win' = [win EXCEPT ![w] = Shown(@)] /\ UNCHANGED pending
  <2>1. CASE w \in Sessions /\ x.about \in {"destination", "device"}
    <3> DEFINE t == Shown(win[w])
    <3>1. w \in Window /\ win[w].life = "Open"  BY <2>1 DEF Sessions
    <3> HIDE DEF x
    <3>2. Becomes(w, t)  BY <1>4, <3>1 DEF Becomes, RoutingInv, WindowsSound
    <3>3. Shaped(win[w]) /\ Tidy(win[w]) /\ Held(win[w]) \subseteq Job
      BY <3>1, WindowKnown
    <3>4. Tidy(t) /\ Held(t) = Held(win[w])  BY <3>3, ShownMoves
    <3>5. route.job \in Job /\ route \in Request  BY InFlightKnown
    <3>6. route' \in Request /\ route'.job = route.job  BY <1>4, <2>1, <3>1, <3>5 DEF Request
    <3>7. route' # None  BY <3>6, RoutingAssumption
    <3>8. InFlight' = InFlight  BY <3>6, <3>7 DEF InFlight
    <3>9. Routed' = Routed /\ RouterTidy'
      BY <1>4, <3>8 DEF Routed, RouterTidy, PlacesInv, Apart
    <3> HIDE DEF t, w
    <3>10. Moves(Held(t), Held(win[w]))  BY <3>4 DEF Moves
    <3>11. fate' \in [Job -> Fates]  BY DEF PlacesInv
    <3> QED  BY <3>1, <3>2, <3>3, <3>4, <3>9, <3>10, <3>11, WindowChanges
  <2>2. CASE x.choice = "Parallel"  BY <1>4, <2>2, RoutingAssumption DEF Choice
  <2> QED  BY <1>1, <2>1, <2>2
<1>5. \/ HandsOver(j, x.choice, w) /\ Done
      \/ /\ x.choice = None
         /\ route' = [job |-> j, step |-> "Asking", attempt |-> attempt,
                      about |-> x.about, window |-> w]
         /\ win' = [win EXCEPT ![w] = Shown(@)] /\ UNCHANGED pending
  BY DEF Considers
<1> QED  BY <1>3, <1>4, <1>5

\* A request that comes to nothing is settled, and the newest window may say so.
LEMMA RefusedPlaces ==
    ASSUME RoutingInv, RouterTyped', PlacesInv, Fails \/ Dismissed
    PROVE  PlacesInv'
<1>1. route # None /\ Done  BY DEF Fails, Dismissed
<1>2. NextWindow \in Window /\ \A w \in Window : Shaped(win[w]) /\ Tidy(win[w])
  BY <1>1, InFlightKnown, OneIsLeft, WindowKnown DEF PlacesInv
<1>3. CASE Dismissed
  <2> DEFINE v == NextWindow
             s == win[v]
  <2>1. Becomes(v, s)  BY <1>2, <1>3 DEF Dismissed, Becomes, RoutingInv, WindowsSound
  <2>2. fate' = [fate EXCEPT ![route.job] = "Cancelled"] /\ "Cancelled" \in Ends
    BY <1>3 DEF Dismissed, Ends
  <2>3. v \in Window /\ Tidy(s) /\ Held(s) = Held(win[v])  BY <1>2
  <2> HIDE DEF v, s
  <2> QED  BY <1>1, <2>1, <2>2, <2>3, RequestLeaves
<1>4. CASE Fails
  <2> DEFINE u == IF Living # {} THEN Max(Living) ELSE NextWindow
             s == Shown(Born(u))
  <2>1. Becomes(u, s)  BY <1>4 DEF Fails, Becomes
  <2>2. fate' = [fate EXCEPT ![route.job] = "Refused"] /\ "Refused" \in Ends
    BY <1>4 DEF Fails, Ends
  <2> HIDE DEF u
  <2>3. CASE u \in Window
    <3>1. Shaped(Born(u)) /\ Tidy(Born(u)) /\ Held(Born(u)) = Held(win[u])
      BY <1>2, <2>3, BornMoves DEF RoutingInv
    <3>2. Tidy(s) /\ Held(s) = Held(win[u])  BY <3>1, ShownMoves
    <3> HIDE DEF s
    <3> QED  BY <1>1, <2>1, <2>2, <2>3, <3>2, RequestLeaves
  <2>4. CASE u \notin Window
    <3> DEFINE v == NextWindow
               t == win[v]
    <3>1. win' = win  BY <2>1, <2>4 DEF Becomes, RoutingInv, WindowsSound
    <3>2. Becomes(v, t)  BY <1>2, <3>1 DEF Becomes, RoutingInv, WindowsSound
    <3>3. v \in Window /\ Tidy(t) /\ Held(t) = Held(win[v])  BY <1>2
    <3> HIDE DEF v, t
    <3> QED  BY <1>1, <2>2, <3>2, <3>3, RequestLeaves
  <2> QED  BY <2>3, <2>4
<1> QED  BY <1>3, <1>4

\* The devices are known, or the person has answered.
LEMMA RoutesPlaces ==
    ASSUME RoutingInv, RouterTyped', PlacesInv, Routes
    PROVE  PlacesInv'
<1>1. CASE Resolved
  <2>1. route # None /\ UNCHANGED fate /\ Considers(route.job, 0, prefer)
    BY <1>1 DEF Resolved
  <2>2. 0 \in 0..1  OBVIOUS
  <2> QED  BY <2>1, <2>2, ConsidersPlaces
<1>2. ASSUME NEW c, NEW b, Answer(c, b) PROVE PlacesInv'
  <2>1. route # None /\ UNCHANGED fate  BY <1>2 DEF Answer
  <2>2. \/ ~Stale(c, route.window) /\ HandsOver(route.job, c, route.window) /\ Done
        \/ \E p : Considers(route.job, 1, p)
        \/ StartNew(route.job) /\ Done
    BY <1>2 DEF Answer
  <2>3. ASSUME ~Stale(c, route.window), HandsOver(route.job, c, route.window), Done
        PROVE  PlacesInv'
    <3>1. /\ c = "Append" => route.window \in Sessions
          /\ c = "Wait" => route.window \in Living
      BY <2>3 DEF Stale
    <3> QED  BY <2>1, <2>3, <3>1, HandsOverPlaces
  <2>4. 1 \in 0..1  OBVIOUS
  <2> QED  BY <2>1, <2>2, <2>3, <2>4, ConsidersPlaces, StartNewPlaces
<1> QED  BY <1>1, <1>2, RefusedPlaces DEF Routes

\* A job that is admitted joins the queue of the router, which may take it at
\* once.
LEMMA AdmitPlaces ==
    ASSUME RoutingInv, RouterTyped', PlacesInv, NEW j \in Job, Admit(j)
    PROVE  PlacesInv'
<1> DEFINE q == Append(pending, j)
<1>1. /\ fate[j] = "Unknown" /\ fate' = [fate EXCEPT ![j] = "Live"] /\ UNCHANGED win
      /\ \/ route = None /\ StartsNext(q)
         \/ route # None /\ pending' = q /\ UNCHANGED route
  BY DEF Admit
<1>2. fate \in [Job -> Fates] /\ Apart /\ LiveHeld /\ WindowsLeft  BY DEF PlacesInv
<1>3. pending \in Seq(Job) /\ IsInjective(pending) /\ Range(pending) \cap InFlight = {}
  BY DEF RoutingInv, RouterTyped, Apart, PlacesInv, RouterTidy
<1>4. j \notin Routed /\ \A w \in Window : j \notin Held(win[w])
  BY <1>1 DEF PlacesInv, LiveHeld
<1>5. q \in Seq(Job) /\ Range(q) = Range(pending) \cup {j} /\ IsInjective(q)
  BY <1>3, <1>4, QueueGrows DEF Routed
<1> HIDE DEF q
<1>6. Routed' = Routed \cup {j} /\ RouterTidy'
  <2>1. CASE route = None /\ StartsNext(q)
    <3>1. Routed' = Range(q) /\ RouterTidy'  BY <1>5, <2>1, StartsNextMoves
    <3>2. Routed = Range(pending)  BY <2>1 DEF Routed, InFlight
    <3> QED  BY <1>5, <3>1, <3>2
  <2>2. CASE route # None /\ pending' = q /\ UNCHANGED route
    <3>1. InFlight' = InFlight  BY <2>2 DEF InFlight
    <3> QED  BY <1>3, <1>4, <1>5, <2>2, <3>1 DEF Routed, RouterTidy
  <2> QED  BY <1>1, <2>1, <2>2
<1>7. fate' \in [Job -> Fates] /\ \A i \in Job : fate'[i] = IF i = j THEN "Live" ELSE fate[i]
  BY <1>1, <1>2 DEF Fates
<1>8. \A w \in Window : /\ Tidy(win[w])' /\ Held(win[w])' = Held(win[w])
                        /\ Tidy(win[w]) /\ Held(win[w]) \cap Routed = {}
  BY <1>1, TidyThere DEF PlacesInv, Apart
<1>9. Apart'
  <2>1. \A w \in Window : Tidy(win[w])' /\ Held(win[w])' \cap Routed' = {}
    BY <1>4, <1>6, <1>8
  <2>2. \A v, w \in Window : v # w => Held(win[v]) \cap Held(win[w]) = {}
    BY DEF PlacesInv, Apart
  <2>3. \A v, w \in Window : v # w => Held(win[v])' \cap Held(win[w])' = {}
    BY <1>8, <2>2
  <2> QED  BY <1>6, <2>1, <2>3 DEF Apart
<1>10. LiveHeld'
  <2>1. \A i \in Job : fate[i] = "Live" <=> i \in Routed \/ \E w \in Window : i \in Held(win[w])
    BY <1>2 DEF LiveHeld
  <2>2. \A i \in Job : fate'[i] = "Live" <=>
            i \in Routed' \/ \E w \in Window : i \in Held(win[w])'
    BY <1>6, <1>7, <1>8, <2>1
  <2> QED  BY <2>2 DEF LiveHeld
<1>11. WindowsLeft'
  <2>1. Created' = Created  BY <1>1 DEF Created
  <2>2. GivenAway \subseteq GivenAway' /\ GivenAway' \subseteq Job
    BY <1>1, <1>6, <1>7 DEF GivenAway
  <2>3. PICK c, g : c = Created' /\ g = GivenAway'  OBVIOUS
  <2>4. Cardinality(c) <= Cardinality(g)  BY <1>2, <2>1, <2>2, <2>3, LeftStays
  <2> QED  BY <2>3, <2>4 DEF WindowsLeft
<1> QED  BY <1>7, <1>9, <1>10, <1>11 DEF PlacesInv

\* Windows that only show themselves hold what they held.
LEMMA NothingMoves ==
    ASSUME PlacesInv, UNCHANGED <<pending, route, fate>>,
           \A w \in Window : /\ Held(win'[w]) = Held(win[w]) /\ Tidy(win'[w])
                             /\ win'[w].life = win[w].life
    PROVE  PlacesInv'
<1>1. Routed' = Routed /\ (RouterTidy => RouterTidy')  BY DEF Routed, InFlight, RouterTidy
<1>2. \A w \in Window : Tidy(win[w])' /\ Held(win[w])' = Held(win[w])  BY TidyThere
<1>3. Apart'  BY <1>1, <1>2 DEF PlacesInv, Apart
<1>4. LiveHeld'  BY <1>1, <1>2 DEF PlacesInv, LiveHeld
<1>5. Created' = Created  BY DEF Created
<1>6. GivenAway' = GivenAway  BY <1>1 DEF GivenAway
<1> QED  BY <1>3, <1>4, <1>5, <1>6 DEF PlacesInv, WindowsLeft

\* One case per group of actions.
LEMMA StepPlaces ==
    ASSUME RoutingInv, RouterTyped', PlacesInv, [Next]_vars
    PROVE  PlacesInv'
<1>1. CASE \E j \in Job : Admit(j)  BY <1>1, AdmitPlaces
<1>2. CASE Routes  BY <1>2, RoutesPlaces
<1>3. CASE Windows
  BY <1>3, ThreadPlaces, InterruptsPlaces, ResumesPlaces, FinishesPlaces, DeclinedPlaces,
     PlanFailsPlaces, JoinsPlaces, PersonPlaces, DropsPlaces DEF Windows
<1>4. CASE ShowsPrimary
  <2> DEFINE shown == IF Busy # {} THEN Busy ELSE {Max(Living)}
  <2>1. /\ win' = [w \in Window |-> IF w \in shown THEN Shown(win[w]) ELSE win[w]]
        /\ UNCHANGED <<pending, route, fate>>
    BY <1>4 DEF ShowsPrimary, RouterFrame
  <2> HIDE DEF shown
  <2>2. \A w \in Window : win'[w] \in {Shown(win[w]), win[w]}  BY <2>1
  <2>3. \A w \in Window : /\ Held(win'[w]) = Held(win[w]) /\ Tidy(win'[w])
                          /\ win'[w].life = win[w].life
    BY <2>2, WindowKnown, ShownMoves
  <2> QED  BY <2>1, <2>3, NothingMoves
<1>5. CASE UNCHANGED vars
  <2>1. \A w \in Window : Tidy(win[w])  BY WindowKnown
  <2> QED  BY <1>5, <2>1, NothingMoves DEF vars
<1> QED  BY <1>1, <1>2, <1>3, <1>4, <1>5 DEF Next

\* The places of a job, and who holds it.
LEMMA PlacesOf ==
    ASSUME RoutingInv, PlacesInv, NEW j \in Job
    PROVE  Cardinality(Places(j)) = IF fate[j] = "Live" THEN 1 ELSE 0
<1> DEFINE P == {<<"pending", 0, i>> : i \in {k \in DOMAIN pending : pending[k] = j}}
           R == IF route # None /\ route.job = j THEN {<<"route", 0, 0>>} ELSE {}
           W == UNION {InWindow(j, w) : w \in Window}
<1>1. Places(j) = P \cup R \cup W  BY DEF Places
<1>2. \A x, y \in P : x = y
  <2>1. \A i, k \in DOMAIN pending : pending[i] = j /\ pending[k] = j => i = k
    BY DEF PlacesInv, Apart, RouterTidy, IsInjective
  <2> QED  BY <2>1
<1>3. P # {} <=> j \in Range(pending)  BY DEF Range
<1>4. (\A x, y \in R : x = y) /\ (R # {} <=> j \in InFlight)
  BY DEF InFlight
<1>5. ASSUME NEW w \in Window
      PROVE  /\ \A x, y \in InWindow(j, w) : x = y
             /\ InWindow(j, w) # {} <=> j \in Held(win[w])
  <2> DEFINE s == win[w]
             A == IF j \in s.plan THEN {<<"plan", w, 0>>} ELSE {}
             B == {<<"joining", w, i>> : i \in {k \in DOMAIN s.joining : s.joining[k] = j}}
             C == {<<"waiting", w, i>> : i \in {k \in DOMAIN s.waiting : s.waiting[k].job = j}}
  <2>1. Tidy(s)  BY WindowKnown
  <2>2. InWindow(j, w) = A \cup B \cup C  BY DEF InWindow
  <2>3. (\A x, y \in A : x = y) /\ (A # {} <=> j \in s.plan)  OBVIOUS
  <2>4. (\A x, y \in B : x = y) /\ (B # {} <=> j \in Range(s.joining))
    <3>1. \A i, k \in DOMAIN s.joining : s.joining[i] = j /\ s.joining[k] = j => i = k
      BY <2>1 DEF Tidy, IsInjective
    <3>2. \A x, y \in B : x = y  BY <3>1
    <3> QED  BY <3>2 DEF Range
  <2>5. (\A x, y \in C : x = y) /\ (C # {} <=> j \in JobsOf(s.waiting))
    <3>1. \A i, k \in DOMAIN s.waiting :
              s.waiting[i].job = j /\ s.waiting[k].job = j => i = k
      BY <2>1 DEF Tidy, WaitsOnce
    <3>2. \A x, y \in C : x = y  BY <3>1
    <3> QED  BY <3>2 DEF JobsOf
  <2>6. /\ s.plan \cap Range(s.joining) = {}
        /\ (s.plan \cup Range(s.joining)) \cap JobsOf(s.waiting) = {}
        /\ Held(s) = s.plan \cup Range(s.joining) \cup JobsOf(s.waiting)
    BY <2>1 DEF Tidy, Held
  <2> HIDE DEF A, B, C
  <2> QED  BY <2>2, <2>3, <2>4, <2>5, <2>6
<1>6. \A v, w \in Window : j \in Held(win[v]) /\ j \in Held(win[w]) => v = w
  BY DEF PlacesInv, Apart
<1>7. (\A x, y \in W : x = y) /\ (W # {} <=> \E w \in Window : j \in Held(win[w]))
  BY <1>5, <1>6
<1>8. /\ j \notin Range(pending) \/ j \notin InFlight
      /\ \A w \in Window : j \in Held(win[w]) => j \notin Range(pending) /\ j \notin InFlight
  BY DEF PlacesInv, Apart, RouterTidy, Routed
<1>9. fate[j] = "Live" <=> \/ j \in Range(pending) \/ j \in InFlight
                           \/ \E w \in Window : j \in Held(win[w])
  BY DEF PlacesInv, LiveHeld, Routed
<1> HIDE DEF P, R, W
<1>10. (\A x, y \in Places(j) : x = y) /\ (Places(j) # {} <=> fate[j] = "Live")
  BY <1>1, <1>2, <1>3, <1>4, <1>7, <1>8, <1>9
<1>11. CASE fate[j] = "Live"
  <2>1. PICK x : x \in Places(j)  BY <1>10, <1>11
  <2>2. Places(j) = {x}  BY <1>10, <2>1
  <2> QED  BY <1>11, <2>2, FS_Singleton
<1>12. CASE fate[j] # "Live"
  BY <1>10, <1>12, FS_EmptySet
<1> QED  BY <1>11, <1>12

\* Every job that is admitted is in exactly one place until it is settled.
THEOREM NoJobAstray == Spec => []NothingAstray
<1>1. Init => PlacesInv
  <2>1. SUFFICES ASSUME Init PROVE PlacesInv  OBVIOUS
  <2>2. Tidy(Unborn) /\ Held(Unborn) = {} /\ Unborn.life = "Unborn"
    <3>1. /\ Unborn.life = "Unborn" /\ Unborn.session = "None" /\ Unborn.plan = {}
          /\ Unborn.joining = <<>> /\ Unborn.waiting = <<>>
      BY DEF Unborn
    <3> QED  BY <3>1, NothingThere DEF Tidy, Held, Alive, Active
  <2>3. \A w \in Window : win[w] = Unborn  BY <2>1 DEF Init
  <2>4. Routed = {} /\ RouterTidy
    BY <2>1, NothingThere DEF Init, Routed, InFlight, RouterTidy
  <2>5. fate \in [Job -> Fates] /\ \A j \in Job : fate[j] = "Unknown"
    BY <2>1 DEF Init, Fates
  <2>6. Apart  BY <2>2, <2>3, <2>4 DEF Apart
  <2>7. LiveHeld  BY <2>2, <2>3, <2>4, <2>5 DEF LiveHeld
  <2>8. Created = {} /\ GivenAway = {}  BY <2>2, <2>3, <2>5 DEF Created, GivenAway
  <2>9. WindowsLeft  BY <2>8, FS_EmptySet DEF WindowsLeft
  <2> QED  BY <2>5, <2>6, <2>7, <2>9 DEF PlacesInv
<1>2. RoutingInv /\ RoutingInv' /\ PlacesInv /\ [Next]_vars => PlacesInv'
  BY StepPlaces DEF RoutingInv
<1>3. RoutingInv /\ PlacesInv => NothingAstray  BY PlacesOf DEF NothingAstray
<1> QED  BY <1>1, <1>2, <1>3, RoutingInvariance, PTL DEF Spec
=============================================================================
