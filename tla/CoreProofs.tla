------------------------------ MODULE CoreProofs ------------------------------
(***************************************************************************)
(* Two parts of the core that know nothing of each other: the control      *)
(* block of a session and the planner of a job.                            *)
(*                                                                         *)
(* Of the control block, for any number of threads and files: what a       *)
(* waiter sleeps on and what the flag says are one invariant with the      *)
(* types.                                                                  *)
(*                                                                         *)
(* Of the planner, for every job, tree and rule of case:                   *)
(* DestinationsDistinct and NothingOverlooked.  The first proof is about   *)
(* OutputRegistry: its directories are closed under what is above them,    *)
(* its files are apart from its directories and below known ones.  The     *)
(* second is about the walk: every entry below a source that was taken is  *)
(* planned, at or below a recorded failure, or below something that the    *)
(* stack or the enumeration still has.                                     *)
(***************************************************************************)
EXTENDS ExecutionControl, JobPlanner, TLAPS

-----------------------------------------------------------------------------
(***************************************************************************)
(* ExecutionControl.                                                       *)
(***************************************************************************)
ControlInv == TypeOK /\ NoLostWakeup /\ SkipsVisible

\* Waking a thread leaves it inside the call it is in, and not asleep.
LEMMA WokenType ==
    ASSUME NEW p \in Location
    PROVE  Woken(p) \in Location \ Asleep
BY DEF Woken, Location, Asleep

\* A request changes nothing or is followed by a notification; only request_cancel
\* brings Cancel, and a session that ends keeps ending.
LEMMA ChangeNotifies ==
    ASSUME NEW request \in Request, NEW d \in ExecutionDirective
    PROVE  /\ After(request, d) \in ExecutionDirective
           /\ After(request, d) = d \/ Notifies(request, d)
           /\ request # "Cancel" => (After(request, d) = "Cancel" => d = "Cancel")
           /\ d = "Cancel" => After(request, d) = "Cancel"
           /\ d = "Stop" => After(request, d) \in {"Stop", "Cancel"}
BY DEF After, Notifies, Request, ExecutionDirective

\* A control block starts with nobody asleep and nothing to skip.
LEMMA InitControlInv == ControlInit => ControlInv
BY DEF ControlInit, ControlInv, TypeOK, NoLostWakeup, SkipsVisible, ExecutionDirective, Location, Asleep

\* pause(), resume(), stop() and cancel() change the directive before they notify.
LEMMA RequestChangeKeeps ==
    ASSUME ControlInv, NEW t \in Thread, NEW request \in Request, RequestChange(t, request)
    PROVE  ControlInv'
<1> USE DEF ControlInv, RequestChange, waitVars
<1>1. TypeOK' BY ChangeNotifies DEF TypeOK
<1>2. NoLostWakeup'
    <2>1. CASE After(request, directive) = directive
        BY <2>1 DEF NoLostWakeup, TypeOK
    <2>2. CASE Notifies(request, directive)
        BY <2>2 DEF NoLostWakeup
    <2>3. QED BY <2>1, <2>2, ChangeNotifies DEF TypeOK
<1>3. SkipsVisible'
    <2>1. CASE request = "Cancel"
        <3>1. skips' = {} /\ hasSkips' = FALSE BY <2>1
        <3>2. QED BY <3>1 DEF SkipsVisible
    <2>2. CASE request # "Cancel"
        <3>1. skips' = skips /\ hasSkips' = hasSkips BY <2>2
        <3>2. directive' = "Cancel" => directive = "Cancel"
            BY <2>2, ChangeNotifies DEF TypeOK
        <3>3. QED BY <3>1, <3>2 DEF SkipsVisible
    <2>3. QED BY <2>1, <2>2
<1>4. QED BY <1>1, <1>2, <1>3

\* notify_all() leaves nobody asleep.
LEMMA NotifyAllKeeps ==
    ASSUME ControlInv, NEW t \in Thread, NotifyAll(t)
    PROVE  ControlInv'
<1> USE DEF ControlInv, NotifyAll
<1>1. \A s \in Thread : pc'[s] \in Location \ Asleep BY WokenType DEF TypeOK
<1>2. pc' \in [Thread -> Location] BY WokenType DEF TypeOK
<1>3. TypeOK' BY <1>2 DEF TypeOK
<1>4. NoLostWakeup' BY <1>1 DEF NoLostWakeup, Asleep
<1>5. SkipsVisible' BY DEF SkipsVisible
<1>6. QED BY <1>3, <1>4, <1>5

\* request_skip() and consume_skip() keep the flag and the set together.
LEMMA SkipKeeps ==
    ASSUME ControlInv, NEW t \in Thread, NEW f \in File,
           RequestSkip(t, f) \/ ConsumeSkip(t, f)
    PROVE  ControlInv'
<1> USE DEF ControlInv, RequestSkip, ConsumeSkip, waitVars
<1>1. TypeOK' BY DEF TypeOK
<1>2. NoLostWakeup' BY DEF NoLostWakeup
<1>3. SkipsVisible' BY DEF SkipsVisible
<1>4. QED BY <1>1, <1>2, <1>3

\* A thread that moves to sleep does so for the directive that stands.
LEMMA MoveKeeps ==
    ASSUME ControlInv, NEW t \in Thread, NEW to \in Location,
           Move(t, to), UNCHANGED <<directive, skips, hasSkips, notifying>>,
           expired' \in SUBSET Thread,
           to \in {"Asleep", "RetryAsleep"} => directive = "Pause" \/ to = pc[t],
           to = "TimedAsleep" => directive = "Run" \/ to = pc[t]
    PROVE  ControlInv'
<1> USE DEF ControlInv, Move
<1>1. TypeOK' BY DEF TypeOK
<1>2. ASSUME NEW s \in Thread
      PROVE  /\ pc'[s] \in {"Asleep", "RetryAsleep"} => directive = "Pause" \/ notifying # {}
             /\ pc'[s] = "TimedAsleep" => directive = "Run" \/ notifying # {}
    <2>1. CASE s = t BY <2>1 DEF NoLostWakeup, TypeOK
    <2>2. CASE s # t BY <2>2 DEF NoLostWakeup, TypeOK
    <2>3. QED BY <2>1, <2>2
<1>3. NoLostWakeup' BY <1>2 DEF NoLostWakeup
<1>4. SkipsVisible' BY DEF SkipsVisible
<1>5. QED BY <1>1, <1>3, <1>4

\* Every step of every thread keeps the invariant.
LEMMA NextControlInv == ControlInv /\ [ControlNext]_controlVars => ControlInv'
<1> SUFFICES ASSUME ControlInv, [ControlNext]_controlVars PROVE ControlInv' OBVIOUS
<1>1. CASE UNCHANGED controlVars
    BY <1>1 DEF controlVars, ControlInv, TypeOK, NoLostWakeup, SkipsVisible
<1>2. ASSUME NEW t \in Thread,
             \/ Enter(t) \/ Test(t) \/ EnterRetry(t) \/ TestRetry(t)
             \/ TestTimed(t) \/ Expire(t) \/ WakeSpuriously(t)
      PROVE  ControlInv'
    <2> USE DEF Location, Asleep
    <2>1. pc[t] \in Location /\ directive \in ExecutionDirective /\ expired \in SUBSET Thread
        BY DEF ControlInv, TypeOK
    <2>2. CASE Enter(t) BY <2>1, <2>2, MoveKeeps DEF Enter
    <2>3. CASE Test(t) BY <2>1, <2>3, MoveKeeps DEF Test
    <2>4. CASE EnterRetry(t) BY <2>1, <2>4, MoveKeeps DEF EnterRetry
    <2>5. CASE TestRetry(t)
        BY <2>1, <2>5, MoveKeeps DEF TestRetry
    <2>6. CASE TestTimed(t) BY <2>1, <2>6, MoveKeeps DEF TestTimed
    <2>7. CASE Expire(t) BY <2>1, <2>7, MoveKeeps DEF Expire
    <2>8. CASE WakeSpuriously(t)
        <3>1. Woken(pc[t]) \in Location \ Asleep BY <2>1, WokenType
        <3>2. QED BY <2>1, <2>8, <3>1, MoveKeeps DEF WakeSpuriously
    <2>9. QED BY <1>2, <2>2, <2>3, <2>4, <2>5, <2>6, <2>7, <2>8
<1>3. QED BY <1>1, <1>2, RequestChangeKeeps, NotifyAllKeeps, SkipKeeps DEF ControlNext

\* The types, the sleepers and the flag together hold in every reachable state,
\* for any threads and files.
THEOREM ControlInvariance == ControlSpec => []ControlInv
BY InitControlInv, NextControlInv, PTL DEF ControlSpec

\* wait_while_paused() and wait_for_retry() never miss the request they wait
\* for, however many threads wait and request at a time.
THEOREM WakeupsKept == ControlSpec => []NoLostWakeup
<1>1. ControlInv => NoLostWakeup BY DEF ControlInv
<1>2. QED BY <1>1, ControlInvariance, PTL

\* The flag that consume_skip() reads outside the mutex never hides a skip.
THEOREM SkipsSeen == ControlSpec => []SkipsVisible
<1>1. ControlInv => SkipsVisible BY DEF ControlInv
<1>2. QED BY <1>1, ControlInvariance, PTL

\* Stop can only become Cancel, and Cancel is final, whatever the requests.
THEOREM EndsKept == ControlSpec => EndingIsFinal
<1>1. ASSUME ControlInv, [ControlNext]_controlVars
      PROVE  [/\ directive = "Cancel" => directive' = "Cancel"
              /\ directive = "Stop" => directive' \in {"Stop", "Cancel"}]_controlVars
    <2>1. CASE UNCHANGED controlVars BY <2>1
    <2>2. ASSUME NEW t \in Thread, NEW request \in Request, RequestChange(t, request)
          PROVE  /\ directive = "Cancel" => directive' = "Cancel"
                 /\ directive = "Stop" => directive' \in {"Stop", "Cancel"}
        BY <1>1, <2>2, ChangeNotifies DEF RequestChange, ControlInv, TypeOK
    <2>3. CASE ControlNext /\ directive' = directive BY <2>3
    <2>4. ASSUME ControlNext,
                 ~ \E t \in Thread : \E request \in Request : RequestChange(t, request)
          PROVE  directive' = directive
        BY <2>4 DEF ControlNext, NotifyAll, RequestSkip, ConsumeSkip, Enter, Test, EnterRetry,
                    TestRetry, TestTimed, Expire, WakeSpuriously
    <2>5. QED BY <1>1, <2>1, <2>2, <2>3, <2>4
<1>2. QED BY <1>1, ControlInvariance, PTL DEF ControlSpec, EndingIsFinal

\* During a pause no thread leaves a wait, even one whose back-off is over.
THEOREM PausesHold == ControlSpec => PauseHolds
<1>1. ASSUME ControlInv, [ControlNext]_controlVars
      PROVE  [\A t \in Thread :
                 pc[t] \notin {"Idle"} /\ directive = "Pause" => pc'[t] # "Idle"]_controlVars
    <2>1. SUFFICES ASSUME ControlNext, NEW t \in Thread, pc[t] # "Idle", directive = "Pause"
                   PROVE  pc'[t] # "Idle"
        BY <1>1
    <2>2. pc \in [Thread -> Location] BY <1>1 DEF ControlInv, TypeOK
    <2>3. PICK s \in Thread :
              \/ \E request \in Request : RequestChange(s, request)
              \/ NotifyAll(s)
              \/ \E f \in File : RequestSkip(s, f) \/ ConsumeSkip(s, f)
              \/ Enter(s) \/ Test(s) \/ EnterRetry(s) \/ TestRetry(s)
              \/ TestTimed(s) \/ Expire(s) \/ WakeSpuriously(s)
        BY <2>1 DEF ControlNext
    <2>4. CASE \/ \E request \in Request : RequestChange(s, request)
               \/ \E f \in File : RequestSkip(s, f) \/ ConsumeSkip(s, f)
        BY <2>1, <2>4 DEF RequestChange, RequestSkip, ConsumeSkip, waitVars
    <2>5. CASE NotifyAll(s) BY <2>1, <2>2, <2>5 DEF NotifyAll, Woken
    <2>6. CASE Enter(s) \/ EnterRetry(s)
        BY <2>1, <2>2, <2>6 DEF Enter, EnterRetry, Free, Move
    <2>7. CASE Test(s) \/ TestRetry(s) \/ TestTimed(s)
        BY <2>1, <2>2, <2>7 DEF Test, TestRetry, TestTimed, Move
    <2>8. CASE Expire(s) \/ WakeSpuriously(s)
        BY <2>1, <2>2, <2>8 DEF Expire, WakeSpuriously, Move, Woken, Asleep
    <2>9. QED BY <2>3, <2>4, <2>5, <2>6, <2>7, <2>8
<1>2. QED BY <1>1, ControlInvariance, PTL DEF ControlSpec, PauseHolds

-----------------------------------------------------------------------------
(***************************************************************************)
(* JobPlanner: what it has planned, and where it is.                       *)
(***************************************************************************)
Keys == {k \in Seq(Name) : k # <<>>}

Closed(D) == \A d \in D : d \in Keys /\ \A n \in 1..Len(d) : SubSeq(d, 1, n) \in D

\* What OutputRegistry keeps true of itself.
Registry(o) ==
    /\ o \in [files : SUBSET Keys, directories : SUBSET Keys]
    /\ Closed(o.directories)
    /\ o.files \cap o.directories = {}
    /\ \A f \in o.files : \A n \in 1..(Len(f) - 1) : SubSeq(f, 1, n) \in o.directories

Dest == Path \ {<<>>}
Entry == [source : Path, destination : Dest]
Directory == [source : Path \cup {None}, destination : Dest]

\* What is planned is in the registry, and no two files share a place in it.
Registered ==
    /\ Registry(outputs)
    /\ plan \in [directories : Seq(Directory), files : Seq(Entry), failures : Seq(Entry)]
    /\ \A i \in DOMAIN plan.files : FileKey(i) \in outputs.files
    /\ \A i, k \in DOMAIN plan.files : i # k => FileKey(i) # FileKey(k)
    /\ \A i \in DOMAIN plan.directories : DirectoryKey(i) \in outputs.directories

\* The folders the walk is about have destinations.
Walk ==
    /\ job \in Jobs /\ tree \in Trees /\ at \in Nat
    /\ stack \in Seq(Entry)
    /\ reading # None => /\ reading \in [folder : Entry, left : SUBSET Path, subs : Seq(Entry)]
                         /\ \A p \in reading.left : p # <<>>

PlannerInv == Walk /\ Registered

-----------------------------------------------------------------------------
(***************************************************************************)
(* Prefixes and keys                                                       *)
(***************************************************************************)

\* The first names of a path are a path, and their first names are its own.
LEMMA PrefixOfPrefix ==
    ASSUME NEW S, NEW s \in Seq(S), NEW l \in 1..Len(s)
    PROVE  /\ SubSeq(s, 1, l) \in Seq(S)
           /\ Len(SubSeq(s, 1, l)) = l
           /\ \A n \in 1..l : SubSeq(SubSeq(s, 1, l), 1, n) = SubSeq(s, 1, n)
  OBVIOUS

\* A key is as long as its path.
LEMMA KeyIsKey ==
    ASSUME NEW p \in Path, p # <<>>
    PROVE  Key(p) \in Keys /\ Len(Key(p)) = Len(p)
  <1>1. ASSUME NEW n \in 1..Len(p)  PROVE  Folded(p[n], SubSeq(p, 1, n - 1)) \in Name
    BY PlannerAssumption, <1>1 DEF Folded, Path
  <1>2. Key(p) \in [1..Len(p) -> Name]
    BY <1>1 DEF Key
  <1>3. Len(p) \in Nat /\ Len(p) # 0
    BY DEF Path
  <1> QED
    BY <1>2, <1>3 DEF Keys

\* add_directory() makes known everything up to the first known directory ...
LEMMA AboveIsKnown ==
    ASSUME NEW k \in Seq(Name), NEW D, Closed(D), NEW n \in 1..Len(k)
    PROVE  SubSeq(k, 1, n) \in D \cup Climbed(k, D)
  <1>1. CASE \E l \in (n + 1)..Len(k) : SubSeq(k, 1, l) \in D
    <2>1. PICK l \in (n + 1)..Len(k) : SubSeq(k, 1, l) \in D
      BY <1>1
    <2>2. l \in 1..Len(k) /\ n \in 1..l
      BY <2>1
    <2> DEFINE d == SubSeq(k, 1, l)
    <2>3. Len(d) = l /\ \A m \in 1..l : SubSeq(d, 1, m) = SubSeq(k, 1, m)
      BY <2>2, PrefixOfPrefix
    <2>4. SubSeq(d, 1, n) \in D
      BY <2>1, <2>2, <2>3 DEF Closed
    <2> QED
      BY <2>2, <2>3, <2>4
  <1>2. CASE \A l \in (n + 1)..Len(k) : SubSeq(k, 1, l) \notin D
    BY <1>2 DEF Climbed
  <1> QED
    BY <1>1, <1>2

\* ... and so leaves the known directories closed.
LEMMA ClosedGrows ==
    ASSUME NEW k \in Seq(Name), NEW D, Closed(D)
    PROVE  Closed(D \cup Climbed(k, D))
  <1> SUFFICES ASSUME NEW d \in D \cup Climbed(k, D)
               PROVE  d \in Keys /\ \A n \in 1..Len(d) :
                                       SubSeq(d, 1, n) \in D \cup Climbed(k, D)
    BY DEF Closed
  <1>1. CASE d \in D
    BY <1>1 DEF Closed
  <1>2. CASE d \in Climbed(k, D)
    <2>1. PICK m \in 1..Len(k) : d = SubSeq(k, 1, m)
      BY <1>2 DEF Climbed
    <2>2. d \in Seq(Name) /\ Len(d) = m
      BY <2>1, PrefixOfPrefix
    <2>3. \A n \in 1..m : SubSeq(d, 1, n) = SubSeq(k, 1, n)
      BY <2>1, PrefixOfPrefix
    <2>4. d \in Keys
      BY <2>1, <2>2 DEF Keys
    <2>5. ASSUME NEW n \in 1..Len(d)  PROVE  SubSeq(d, 1, n) \in D \cup Climbed(k, D)
      <3>1. n \in 1..Len(k) /\ SubSeq(d, 1, n) = SubSeq(k, 1, n)
        BY <2>1, <2>2, <2>3
      <3> QED
        BY <3>1, AboveIsKnown
    <2> QED
      BY <2>4, <2>5
  <1> QED
    BY <1>1, <1>2

\* A directory that does not collide is added, known and apart from the files.
LEMMA AddingDirectory ==
    ASSUME Registry(outputs), NEW k \in Keys, ~DirectoryCollides(k), AddDirectory(k)
    PROVE  /\ Registry(outputs')
           /\ outputs'.files = outputs.files
           /\ outputs.directories \subseteq outputs'.directories
           /\ k \in outputs'.directories
  <1> DEFINE D == outputs.directories
             C == Climbed(k, D)
  <1>1. outputs'.files = outputs.files /\ outputs'.directories = D \cup C
        /\ outputs' = [files |-> outputs.files, directories |-> D \cup C]
    BY DEF AddDirectory, Registry
  <1>2. Closed(D \cup C)
    BY ClosedGrows DEF Registry, Keys
  <1>3. D \cup C \subseteq Keys
    BY <1>2 DEF Closed
  <1>4. C \cap outputs.files = {}
    BY DEF DirectoryCollides
  <1>5. k \in D \cup C
    <2>1. Len(k) \in 1..Len(k) /\ SubSeq(k, 1, Len(k)) = k
      BY DEF Keys
    <2>2. Closed(D) /\ k \in Seq(Name)
      BY DEF Registry, Keys
    <2>3. SubSeq(k, 1, Len(k)) \in D \cup Climbed(k, D)
      BY <2>1, <2>2, AboveIsKnown
    <2> QED
      BY <2>1, <2>3
  <1> QED
    BY <1>1, <1>2, <1>3, <1>4, <1>5 DEF Registry

\* A file that does not collide is new, below known directories and no directory.
LEMMA AddingFile ==
    ASSUME Registry(outputs), NEW k \in Keys, ~FileCollides(k), AddFile(k)
    PROVE  /\ Registry(outputs')
           /\ outputs'.files = outputs.files \cup {k}
           /\ outputs.directories \subseteq outputs'.directories
           /\ k \notin outputs.files
  <1> DEFINE D == outputs.directories
             C == Climbed(Front(k), D)
  <1>1. /\ Front(k) \in Seq(Name) /\ Len(Front(k)) = Len(k) - 1
        /\ \A n \in 1..(Len(k) - 1) : SubSeq(Front(k), 1, n) = SubSeq(k, 1, n)
    <2>1. k \in Seq(Name) /\ Len(k) \in Nat \ {0}
      BY DEF Keys
    <2>2. CASE Len(k) = 1
      BY <2>1, <2>2 DEF Front
    <2>3. CASE Len(k) # 1
      <3> DEFINE n == Len(k)
      <3>1. n - 1 \in 1..n
        <4>1. n \in Nat /\ n # 0 /\ n # 1
          BY <2>1, <2>3
        <4> HIDE DEF n
        <4> QED
          BY <4>1
      <3> QED
        BY <2>1, <3>1, PrefixOfPrefix DEF Front
    <2> QED
      BY <2>2, <2>3
  <1>2. /\ outputs' = [files |-> outputs.files \cup {k}, directories |-> D \cup C]
        /\ k \notin outputs.files /\ k \notin D /\ C \cap outputs.files = {}
    BY DEF AddFile, FileCollides, DirectoryCollides
  <1>3. Closed(D \cup C)
    BY <1>1, ClosedGrows DEF Registry
  <1>4. D \cup C \subseteq Keys
    BY <1>3 DEF Closed
  <1>5. k \notin C
    <2> SUFFICES ASSUME NEW m \in 1..Len(Front(k)), k = SubSeq(Front(k), 1, m)
                 PROVE  FALSE
      BY DEF Climbed
    <2>1. Len(k) = m
      BY <1>1, PrefixOfPrefix
    <2> QED
      BY <1>1, <2>1 DEF Keys
  <1>6. \A n \in 1..(Len(k) - 1) : SubSeq(k, 1, n) \in D \cup C
    BY <1>1, AboveIsKnown DEF Registry
  <1>7. \A f \in outputs.files : \A n \in 1..(Len(f) - 1) : SubSeq(f, 1, n) \in D \cup C
    BY DEF Registry
  <1> QED
    BY <1>2, <1>3, <1>4, <1>5, <1>6, <1>7 DEF Registry
-----------------------------------------------------------------------------
(***************************************************************************)
(* The steps of the planner                                                *)
(***************************************************************************)
LEMMA EndsOfSequence ==
    ASSUME NEW S, NEW s \in Seq(S), s # <<>>
    PROVE  Last(s) \in S /\ Front(s) \in Seq(S)
  BY DEF Last, Front

\* A sequence that grows by one keeps what it had.
LEMMA Appended ==
    ASSUME NEW S, NEW s \in Seq(S), NEW e \in S
    PROVE  LET t == Append(s, e) IN
           /\ \A i \in DOMAIN t : i = Len(t) \/ (i \in DOMAIN s /\ t[i] = s[i])
           /\ t[Len(t)] = e
  <1> DEFINE t == Append(s, e)
             n == Len(s)
  <1>1. /\ n \in Nat /\ DOMAIN s = 1..n
        /\ Len(t) = n + 1 /\ DOMAIN t = 1..(n + 1) /\ t[n + 1] = e
        /\ \A i \in 1..n : t[i] = s[i]
    OBVIOUS
  <1> HIDE DEF t, n
  <1>2. \A i \in 1..(n + 1) : i = n + 1 \/ i \in 1..n
    BY <1>1
  <1>3. ASSUME NEW i \in DOMAIN t  PROVE  i = Len(t) \/ (i \in DOMAIN s /\ t[i] = s[i])
    <2>1. CASE i = n + 1
      BY <2>1, <1>1
    <2>2. CASE i \in 1..n
      BY <2>2, <1>1
    <2>3. i \in 1..(n + 1)
      BY <1>1
    <2> QED
      BY <2>1, <2>2, <2>3, <1>2
  <1> QED
    BY <1>1, <1>3 DEF t

\* What a longer path has as its proper prefixes.
LEMMA LongerPath ==
    ASSUME NEW d \in Path, NEW p \in Path, p # <<>>
    PROVE  Append(d, Last(p)) \in Dest
  <1> DEFINE n == Last(p)
  <1>1. n \in Name
    BY EndsOfSequence DEF Path
  <1> HIDE DEF n
  <1>2. Append(d, n) \in Seq(Name) /\ Append(d, n) # <<>>
    BY <1>1 DEF Path
  <1> QED
    BY <1>2 DEF Path, Dest, n

\* A source of a job gets a destination at or below that of the job.
LEMMA RootHasNames ==
    ASSUME job \in Jobs, NEW i \in DOMAIN job.sources
    PROVE  RootFor(i) \in Dest /\ job.sources[i] \in Path
  <1> DEFINE s == job.sources[i]
  <1>1. s \in Path /\ s # <<>> /\ job.destination \in Dest /\ job.destination \in Path
    BY PlannerAssumption DEF Dest
  <1>2. Append(job.destination, Last(s)) \in Dest
    BY <1>1, LongerPath
  <1>3. ASSUME Len(s) > 2
        PROVE  job.destination \o SubSeq(s, Len(s) - 1, Len(s)) \in Dest
    <2>1. SubSeq(s, Len(s) - 1, Len(s)) \in Seq(Name)
      BY <1>1, <1>3 DEF Path
    <2> DEFINE end == SubSeq(s, Len(s) - 1, Len(s))
    <2> HIDE DEF end
    <2>2. job.destination \o end \in Seq(Name) /\ job.destination \o end # <<>>
      BY <1>1, <2>1 DEF Path, Dest, end
    <2> QED
      BY <2>2 DEF Path, Dest, end
  <1> QED
    BY <1>1, <1>2, <1>3 DEF RootFor

\* AddFile: a file that does not collide keeps the plan apart.
LEMMA FilePlanned ==
    ASSUME Registered, NEW e \in Entry, ~FileCollides(Key(e.destination)), PlansFile(e)
    PROVE  Registered'
  <1> DEFINE k == Key(e.destination)
             old == plan.files
             new == plan'.files
  <1>1. k \in Keys
    BY KeyIsKey DEF Entry, Dest
  <1>2. /\ Registry(outputs')
        /\ outputs'.files = outputs.files \cup {k}
        /\ outputs.directories \subseteq outputs'.directories
        /\ k \notin outputs.files
    BY <1>1, AddingFile DEF Registered, PlansFile
  <1>3. old \in Seq(Entry) /\ Append(old, e) \in Seq(Entry)
    BY DEF Registered
  <1>4. /\ plan' \in [directories : Seq(Directory), files : Seq(Entry), failures : Seq(Entry)]
        /\ new = Append(old, e) /\ plan'.directories = plan.directories
    BY <1>3 DEF Registered, PlansFile
  <1>5. /\ \A i \in DOMAIN new : i = Len(new) \/ (i \in DOMAIN old /\ new[i] = old[i])
        /\ new[Len(new)] = e
    BY <1>3, <1>4, Appended
  <1>6. \A i \in DOMAIN old : Key(old[i].destination) \in outputs.files
    BY DEF Registered, FileKey
  <1>7. \A i, j \in DOMAIN old : i # j => Key(old[i].destination) # Key(old[j].destination)
    BY DEF Registered, FileKey
  <1>8. \A i \in DOMAIN plan.directories :
           Key(plan'.directories[i].destination) \in outputs'.directories
    BY <1>2, <1>4 DEF Registered, DirectoryKey
  <1>9. \A i \in DOMAIN new : Key(new[i].destination) \in outputs'.files
    BY <1>2, <1>5, <1>6
  <1>10. \A i, j \in DOMAIN new : i # j => Key(new[i].destination) # Key(new[j].destination)
    BY <1>2, <1>5, <1>6, <1>7
  <1> QED
    BY <1>2, <1>4, <1>8, <1>9, <1>10 DEF Registered, FileKey, DirectoryKey

\* AddDirectory: a directory that does not collide keeps the plan apart.
LEMMA DirectoryPlanned ==
    ASSUME Registered, NEW e \in Entry, NEW mirrored \in Path \cup {None},
           ~DirectoryCollides(Key(e.destination)), PlansDirectory(e, mirrored)
    PROVE  Registered'
  <1> DEFINE k == Key(e.destination)
             d == [source |-> mirrored, destination |-> e.destination]
             old == plan.directories
             new == plan'.directories
  <1>1. k \in Keys
    BY KeyIsKey DEF Entry, Dest
  <1>2. /\ Registry(outputs')
        /\ outputs'.files = outputs.files
        /\ outputs.directories \subseteq outputs'.directories
        /\ k \in outputs'.directories
    BY <1>1, AddingDirectory DEF Registered, PlansDirectory
  <1>3. old \in Seq(Directory) /\ Append(old, d) \in Seq(Directory)
    <2>1. d \in Directory
      BY DEF Entry, Directory
    <2> QED
      BY <2>1 DEF Registered
  <1>4. /\ plan' \in [directories : Seq(Directory), files : Seq(Entry), failures : Seq(Entry)]
        /\ new = Append(old, d) /\ plan'.files = plan.files
    BY <1>3 DEF Registered, PlansDirectory
  <1>5. /\ \A i \in DOMAIN new : i = Len(new) \/ (i \in DOMAIN old /\ new[i] = old[i])
        /\ new[Len(new)].destination = e.destination
    <2>1. d \in Directory /\ d.destination = e.destination
      BY DEF Entry, Directory
    <2> HIDE DEF d
    <2> QED
      BY <2>1, <1>3, <1>4, Appended
  <1>6. \A i \in DOMAIN old : Key(old[i].destination) \in outputs.directories
    BY DEF Registered, DirectoryKey
  <1>7. \A i \in DOMAIN new : Key(new[i].destination) \in outputs'.directories
    BY <1>2, <1>5, <1>6
  <1>8. /\ \A i \in DOMAIN plan.files : Key(plan'.files[i].destination) \in outputs'.files
        /\ \A i, j \in DOMAIN plan.files :
              i # j => Key(plan'.files[i].destination) # Key(plan'.files[j].destination)
    BY <1>2, <1>4 DEF Registered, FileKey
  <1> QED
    BY <1>2, <1>4, <1>7, <1>8 DEF Registered, FileKey, DirectoryKey

\* What is planned does not depend on the walk; failures are only listed.
LEMMA NothingPlanned ==
    ASSUME Registered, UNCHANGED outputs,
           UNCHANGED plan \/ \E e \in Entry : plan' = [plan EXCEPT !.failures = Append(@, e)]
    PROVE  Registered'
  <1>1. /\ plan' \in [directories : Seq(Directory), files : Seq(Entry), failures : Seq(Entry)]
        /\ plan'.directories = plan.directories /\ plan'.files = plan.files
    <2>1. CASE UNCHANGED plan
      BY <2>1 DEF Registered
    <2>2. CASE \E e \in Entry : plan' = [plan EXCEPT !.failures = Append(@, e)]
      <3>1. PICK e \in Entry : plan' = [plan EXCEPT !.failures = Append(@, e)]
        BY <2>2
      <3>2. plan.failures \in Seq(Entry) /\ Append(plan.failures, e) \in Seq(Entry)
        BY DEF Registered
      <3> QED
        BY <3>1, <3>2 DEF Registered
    <2> QED
      BY <2>1, <2>2
  <1> QED
    BY <1>1 DEF Registered, FileKey, DirectoryKey

\* An empty plan is sound.
LEMMA InitPlanner == Init => PlannerInv
  <1> SUFFICES ASSUME Init PROVE PlannerInv
    OBVIOUS
  <1>1. Walk
    BY DEF Init, Walk
  <1>2. Registry(outputs)
    BY DEF Init, Registry, Closed
  <1>3. /\ plan \in [directories : Seq(Directory), files : Seq(Entry), failures : Seq(Entry)]
        /\ DOMAIN plan.files = {} /\ DOMAIN plan.directories = {}
    BY DEF Init
  <1> QED
    BY <1>1, <1>2, <1>3 DEF PlannerInv, Registered

\* One source of the job, with the folder it is copied into.
LEMMA TakesSourceKeeps == PlannerInv /\ TakesSource => PlannerInv'
  <1> SUFFICES ASSUME PlannerInv, TakesSource PROVE PlannerInv'
    OBVIOUS
  <1> DEFINE s == job.sources[at]
             e == [source |-> s, destination |-> RootFor(at)]
  <1>1. at \in DOMAIN job.sources
    BY PlannerAssumption DEF TakesSource, BetweenSources, PlannerInv, Walk
  <1>2. e \in Entry /\ s \in Path
    BY <1>1, RootHasNames DEF PlannerInv, Walk, Entry
  <1>3. CASE Throws
    BY <1>3, NothingPlanned DEF Throws, PlannerInv, Walk
  <1>4. CASE /\ ~Refused(s, Key(e.destination))
             /\ at' = at + 1
             /\ tree[s] = "File" /\ PlansFile(e)
             /\ UNCHANGED <<job, tree, reading, stack>>
    <2>1. Registered'
      BY <1>2, <1>4, FilePlanned DEF PlannerInv, Refused
    <2> QED
      BY <1>4, <2>1 DEF PlannerInv, Walk
  <1>5. CASE /\ ~Refused(s, Key(e.destination))
             /\ at' = at + 1
             /\ tree[s] # "File" /\ PlansDirectory(e, IF Preserves THEN s ELSE None)
             /\ stack' = <<e>>
             /\ UNCHANGED <<job, tree, reading>>
    <2>1. Registered'
      BY <1>2, <1>5, DirectoryPlanned DEF PlannerInv, Refused
    <2> QED
      BY <1>2, <1>5, <2>1 DEF PlannerInv, Walk
  <1> QED
    BY <1>3, <1>4, <1>5 DEF TakesSource

\* The folders on the way to an entry are made, or were there.
LEMMA FoldersKeep ==
    PlannerInv /\ (OpensFolder \/ CannotOpen \/ LeavesFolder \/ BreaksOff) => PlannerInv'
  <1> SUFFICES ASSUME PlannerInv,
                      OpensFolder \/ CannotOpen \/ LeavesFolder \/ BreaksOff
               PROVE  PlannerInv'
    OBVIOUS
  <1>1. ASSUME stack # <<>>  PROVE  Last(stack) \in Entry /\ Front(stack) \in Seq(Entry)
    BY <1>1, EndsOfSequence DEF PlannerInv, Walk
  <1>2. ASSUME reading # None, PushesSubfolders  PROVE  stack' \in Seq(Entry)
    <2>1. stack \in Seq(Entry) /\ reading.subs \in Seq(Entry)
      BY <1>2 DEF PlannerInv, Walk
    <2>2. Reverse(reading.subs) \in Seq(Entry)
      BY <2>1 DEF Reverse
    <2> QED
      BY <1>2, <2>1, <2>2 DEF PushesSubfolders
  <1>3. CASE OpensFolder
    <2> DEFINE r == [folder |-> Last(stack), left |-> Children(Last(stack).source), subs |-> <<>>]
    <2>1. Last(stack) \in Entry /\ Front(stack) \in Seq(Entry)
      BY <1>1, <1>3 DEF OpensFolder, BetweenFolders
    <2>2. Children(Last(stack).source) \subseteq Path
      BY PlannerAssumption DEF PlannerInv, Walk, Children
    <2>3. ASSUME NEW p \in Children(Last(stack).source)  PROVE  p # <<>>
      <3>1. Len(p) = Len(Last(stack).source) + 1 /\ Last(stack).source \in Path
        BY <2>1, <2>3 DEF Children, Entry
      <3> QED
        BY <3>1 DEF Path
    <2>4. r \in [folder : Entry, left : SUBSET Path, subs : Seq(Entry)]
      BY <2>1, <2>2
    <2>5. Registered'
      BY <1>3, NothingPlanned DEF OpensFolder, PlannerInv
    <2> QED
      BY <1>3, <2>1, <2>3, <2>4, <2>5 DEF OpensFolder, PlannerInv, Walk
  <1>4. CASE CannotOpen
    <2>1. Last(stack) \in Entry /\ Front(stack) \in Seq(Entry)
      BY <1>1, <1>4 DEF CannotOpen, BetweenFolders
    <2>2. Registered'
      BY <1>4, <2>1, NothingPlanned DEF CannotOpen, RecordFailure, Throws, PlannerInv
    <2> QED
      BY <1>4, <2>1, <2>2 DEF CannotOpen, Throws, BetweenFolders, PlannerInv, Walk
  <1>5. CASE LeavesFolder
    <2>1. Registered'
      BY <1>5, NothingPlanned DEF LeavesFolder, PlannerInv
    <2> QED
      BY <1>2, <1>5, <2>1 DEF LeavesFolder, PlannerInv, Walk
  <1>6. CASE BreaksOff
    <2>1. reading.folder \in Entry
      BY <1>6 DEF BreaksOff, PlannerInv, Walk
    <2>2. Registered'
      BY <1>6, <2>1, NothingPlanned DEF BreaksOff, RecordFailure, PlannerInv
    <2> QED
      BY <1>2, <1>6, <2>2 DEF BreaksOff, PlannerInv, Walk
  <1> QED
    BY <1>3, <1>4, <1>5, <1>6

\* One entry of an enumeration.
LEMMA TakesEntryKeeps == PlannerInv /\ TakesEntry => PlannerInv'
  <1> SUFFICES ASSUME PlannerInv, reading # None, NEW p \in reading.left,
                      TakesFolder(p) \/ TakesFile(p) \/ SkipsEntry(p)
               PROVE  PlannerInv'
    BY DEF TakesEntry
  <1> DEFINE e == Below(p)
  <1>1. p \in Path /\ p # <<>> /\ reading.folder \in Entry /\ reading.subs \in Seq(Entry)
        /\ reading \in [folder : Entry, left : SUBSET Path, subs : Seq(Entry)]
        /\ \A q \in reading.left : q # <<>>
    BY DEF PlannerInv, Walk
  <1>2. e \in Entry
    BY <1>1, LongerPath DEF Below, Entry, Dest
  <1>3. ASSUME NEW subs \in Seq(Entry), Passes(p, subs), EntryFrame  PROVE  Walk'
    BY <1>1, <1>3 DEF Passes, EntryFrame, PlannerInv, Walk
  <1> HIDE DEF e
  <1>4. CASE Throws
    BY <1>4, NothingPlanned DEF Throws, PlannerInv, Walk
  <1>5. CASE TakesFolder(p) /\ ~Throws
    <2>1. /\ ~DirectoryCollides(Key(e.destination)) /\ PlansDirectory(e, p)
          /\ Passes(p, Append(reading.subs, e)) /\ EntryFrame
      BY <1>5 DEF TakesFolder, e
    <2>2. Registered'
      BY <1>1, <1>2, <2>1, DirectoryPlanned DEF PlannerInv
    <2>3. Append(reading.subs, e) \in Seq(Entry)
      BY <1>1, <1>2
    <2> QED
      BY <1>3, <2>1, <2>2, <2>3 DEF PlannerInv
  <1>6. CASE TakesFile(p) /\ ~Throws
    <2>1. /\ ~FileCollides(Key(e.destination)) /\ PlansFile(e)
          /\ Passes(p, reading.subs) /\ EntryFrame
      BY <1>6 DEF TakesFile, e
    <2>2. Registered'
      BY <1>2, <2>1, FilePlanned DEF PlannerInv
    <2> QED
      BY <1>1, <1>3, <2>1, <2>2 DEF PlannerInv
  <1>7. CASE SkipsEntry(p)
    <2>1. Registered'
      BY <1>2, <1>7, NothingPlanned DEF SkipsEntry, RecordFailure, PlannerInv, e
    <2> QED
      BY <1>1, <1>3, <1>7, <2>1 DEF SkipsEntry, PlannerInv
  <1> QED
    BY <1>4, <1>5, <1>6, <1>7

\* The invariant of the planner, for every job and tree.
THEOREM PlannerInvariance == Spec => []PlannerInv
  <1>1. PlannerInv /\ [Next]_vars => PlannerInv'
    <2> SUFFICES ASSUME PlannerInv, [Next]_vars PROVE PlannerInv'
      OBVIOUS
    <2>1. CASE UNCHANGED vars \/ Validates \/ SizeFails \/ Cancelled \/ Finishes
      <3>1. /\ UNCHANGED <<job, tree, stack, reading, outputs, plan>>
            /\ at' \in {at, 1}
        BY <2>1 DEF vars, Validates, SizeFails, Cancelled, Finishes, Throws
      <3> QED
        BY <3>1, NothingPlanned DEF PlannerInv, Walk
    <2> QED
      BY <2>1, TakesSourceKeeps, FoldersKeep, TakesEntryKeeps DEF Next
  <1> QED
    BY <1>1, InitPlanner, PTL DEF Spec

\* No two entries of a plan meet at one destination, however the sources, the
\* names and the rules of case combine.
THEOREM DestinationsKeptApart == Spec => []DestinationsDistinct
  <1>1. PlannerInv => DestinationsDistinct
    <2> SUFFICES ASSUME PlannerInv PROVE DestinationsDistinct
      OBVIOUS
    <2>1. ASSUME NEW f \in outputs.files, NEW k \in Keys, IsPrefix(f, k)
          PROVE  f = k \/ \E n \in 1..(Len(k) - 1) : f = SubSeq(k, 1, n)
      <3>1. f \in Seq(Name) /\ f # <<>> /\ k \in Seq(Name)
        BY <2>1 DEF Keys, PlannerInv, Registered, Registry
      <3>2. /\ Len(f) \in Nat /\ Len(f) # 0 /\ Len(k) \in Nat /\ Len(f) <= Len(k)
            /\ f = SubSeq(f, 1, Len(f)) /\ k = SubSeq(k, 1, Len(k))
            /\ f = SubSeq(k, 1, Len(f))
        BY <2>1, <3>1 DEF IsPrefix
      <3> DEFINE n == Len(f)
                 m == Len(k)
      <3>3. n \in Nat /\ n # 0 /\ m \in Nat /\ n <= m
        BY <3>2
      <3> HIDE DEF n, m
      <3>4. n = m \/ n \in 1..(m - 1)
        BY <3>3
      <3> QED
        BY <3>2, <3>4 DEF n, m
    <2>2. ASSUME NEW i \in DOMAIN plan.files, NEW k \in DOMAIN plan.files, i # k
          PROVE  ~IsPrefix(FileKey(i), FileKey(k))
      <3>1. FileKey(i) \in outputs.files /\ FileKey(k) \in outputs.files /\ FileKey(i) # FileKey(k)
        BY <2>2 DEF PlannerInv, Registered
      <3>2. /\ FileKey(k) \in Keys
            /\ \A n \in 1..(Len(FileKey(k)) - 1) : SubSeq(FileKey(k), 1, n) \notin outputs.files
        BY <3>1 DEF PlannerInv, Registered, Registry
      <3> QED
        BY <2>1, <3>1, <3>2
    <2>3. ASSUME NEW i \in DOMAIN plan.files, NEW k \in DOMAIN plan.directories
          PROVE  ~IsPrefix(FileKey(i), DirectoryKey(k))
      <3>1. FileKey(i) \in outputs.files /\ DirectoryKey(k) \in outputs.directories
        BY DEF PlannerInv, Registered
      <3>2. DirectoryKey(k) \in Keys
            /\ \A n \in 1..Len(DirectoryKey(k)) : SubSeq(DirectoryKey(k), 1, n) \in outputs.directories
        BY <3>1 DEF PlannerInv, Registered, Registry, Closed
      <3>3. \A n \in 1..(Len(DirectoryKey(k)) - 1) : n \in 1..Len(DirectoryKey(k))
        BY <3>2 DEF Keys
      <3>4. outputs.files \cap outputs.directories = {}
        BY DEF PlannerInv, Registered, Registry
      <3>5. \A n \in 1..(Len(DirectoryKey(k)) - 1) :
               SubSeq(DirectoryKey(k), 1, n) \notin outputs.files
        BY <3>2, <3>3, <3>4
      <3> QED
        BY <2>1, <3>1, <3>2, <3>4, <3>5
    <2> QED
      BY <2>2, <2>3 DEF DestinationsDistinct
  <1> QED
    BY <1>1, PlannerInvariance, PTL

-----------------------------------------------------------------------------
(***************************************************************************)
(* Nothing is overlooked                                                   *)
(***************************************************************************)
\* The destination of what is at p, of the source i.
To(i, p) == RootFor(i) \o SubSeq(p, Len(job.sources[i]) + 1, Len(p))

\* A folder of the source that is being walked.
OnTheWay(e) ==
    /\ e.source \in DOMAIN tree /\ tree[e.source] = "Directory"
    /\ IsPrefix(job.sources[at - 1], e.source)
    /\ e.destination = To(at - 1, e.source)

Settled(i, p) ==
    \/ tree[p] \in {"File", "Directory"} /\ PlannedFrom(i, p)
    \/ FailedAbove(i, p)

\* The walk has yet to come to p.
Ahead(p) ==
    \/ \E k \in DOMAIN stack : IsStrictPrefix(stack[k].source, p)
    \/ /\ reading # None
       /\ \/ \E k \in DOMAIN reading.subs : IsStrictPrefix(reading.subs[k].source, p)
          \/ \E q \in reading.left : IsPrefix(q, p)

WayInv ==
    /\ stack # <<>> \/ reading # None => at - 1 \in DOMAIN job.sources
    /\ \A k \in DOMAIN stack : OnTheWay(stack[k])
    /\ reading # None => /\ OnTheWay(reading.folder)
                         /\ reading.left \subseteq Children(reading.folder.source)
                         /\ \A k \in DOMAIN reading.subs : OnTheWay(reading.subs[k])

TakenInv ==
    \A i \in DOMAIN job.sources : \A p \in DOMAIN tree :
       i < at /\ IsPrefix(job.sources[i], p) => Settled(i, p) \/ (i = at - 1 /\ Ahead(p))

\* Every entry below a source that was taken is settled or ahead of the walk.
CoverInv ==
    /\ outcome \in {"Planning", "Planned"} => WayInv /\ TakenInv
    /\ outcome = "Planned" => stack = <<>> /\ reading = None /\ at > Len(job.sources)
-----------------------------------------------------------------------------
(***************************************************************************)
(* Paths below paths                                                       *)
(***************************************************************************)
\* A prefix is what a path starts with.
LEMMA PrefixIsStart ==
    ASSUME NEW q \in Path, NEW p \in Path
    PROVE  /\ IsPrefix(q, p) <=> Len(q) <= Len(p) /\ q = SubSeq(p, 1, Len(q))
           /\ IsPrefix(q, p) => \A n \in 0..Len(q) : SubSeq(q, 1, n) = SubSeq(p, 1, n)
  <1>1. Len(q) \in Nat /\ Len(p) \in Nat /\ SubSeq(q, 1, Len(q)) = q
    BY DEF Path
  <1>2. IsPrefix(q, p) <=> Len(q) <= Len(p) /\ q = SubSeq(p, 1, Len(q))
    BY <1>1 DEF IsPrefix
  <1>3. ASSUME IsPrefix(q, p), NEW n \in 0..Len(q)  PROVE  SubSeq(q, 1, n) = SubSeq(p, 1, n)
    <2> DEFINE l == Len(q)
    <2>1. l \in Nat /\ l <= Len(p) /\ q = SubSeq(p, 1, l)
      BY <1>1, <1>2, <1>3
    <2>2. CASE n = 0
      BY <2>2, <1>1 DEF Path
    <2>3. CASE n # 0
      <3>1. n \in 1..l /\ l \in 1..Len(p)
        BY <1>1, <1>3, <2>1, <2>3
      <3> HIDE DEF l
      <3>2. p \in Seq(Name)
        BY DEF Path
      <3>3. SubSeq(SubSeq(p, 1, l), 1, n) = SubSeq(p, 1, n)
        BY <3>1, <3>2, PrefixOfPrefix
      <3> QED
        BY <2>1, <3>3
    <2> QED
      BY <2>2, <2>3
  <1> QED
    BY <1>2, <1>3

\* Being below is transitive, and paths of one length are below each other only
\* when they are equal.
LEMMA BelowBelow ==
    ASSUME NEW a \in Path, NEW b \in Path, NEW c \in Path, IsPrefix(a, b), IsPrefix(b, c)
    PROVE  /\ IsPrefix(a, c)
           /\ Len(a) <= Len(b) /\ Len(b) <= Len(c)
           /\ Len(a) = Len(b) => a = b
  <1>1. /\ Len(a) \in Nat /\ Len(b) \in Nat /\ Len(c) \in Nat
        /\ Len(a) <= Len(b) /\ a = SubSeq(b, 1, Len(a))
        /\ Len(b) <= Len(c) /\ b = SubSeq(b, 1, Len(b))
    BY PrefixIsStart DEF Path
  <1>2. Len(a) \in 0..Len(b)
    BY <1>1
  <1>3. SubSeq(b, 1, Len(a)) = SubSeq(c, 1, Len(a))
    BY <1>2, PrefixIsStart
  <1>4. Len(a) <= Len(c)
    BY <1>1
  <1> QED
    BY <1>1, <1>3, <1>4, PrefixIsStart

\* What is below a folder is at or below one of its entries.
LEMMA EntryOnTheWay ==
    ASSUME NEW d \in Path, NEW p \in Path, IsPrefix(d, p), d # p
    PROVE  LET c == SubSeq(p, 1, Len(d) + 1) IN
           /\ c \in Path /\ Len(c) = Len(d) + 1 /\ Len(d) + 1 <= Len(p)
           /\ IsPrefix(d, c) /\ IsPrefix(c, p)
  <1> DEFINE l == Len(d)
             m == Len(p)
             c == SubSeq(p, 1, l + 1)
  <1>1. l \in Nat /\ m \in Nat /\ l <= m /\ d = SubSeq(p, 1, l) /\ p = SubSeq(p, 1, m)
    BY PrefixIsStart DEF Path
  <1>2. l # m
    BY <1>1
  <1>3. l + 1 \in 1..m /\ l + 1 <= m
    <2> HIDE DEF l, m
    <2> QED
      BY <1>1, <1>2
  <1>4. c \in Path /\ Len(c) = l + 1 /\ \A n \in 1..(l + 1) : SubSeq(c, 1, n) = SubSeq(p, 1, n)
    BY <1>3, PrefixOfPrefix DEF Path
  <1>5. IsPrefix(c, p)
    BY <1>3, <1>4, PrefixIsStart
  <1>6. SubSeq(c, 1, l) = SubSeq(p, 1, l)
    <2>1. l \in 0..Len(c)
      BY <1>1, <1>4
    <2> QED
      BY <2>1, <1>4, <1>5, PrefixIsStart
  <1>7. IsPrefix(d, c)
    <2>1. l <= Len(c)
      BY <1>1, <1>4
    <2> QED
      BY <2>1, <1>1, <1>4, <1>6, PrefixIsStart
  <1> QED
    BY <1>3, <1>4, <1>5, <1>7

\* An entry of a folder goes below the destination of the folder.
LEMMA EntryDestination ==
    ASSUME NEW r \in Seq(Name), NEW s \in Path, NEW d \in Path, NEW c \in Path,
           IsPrefix(s, d), IsPrefix(d, c), Len(c) = Len(d) + 1
    PROVE  Append(r \o SubSeq(d, Len(s) + 1, Len(d)), Last(c))
              = r \o SubSeq(c, Len(s) + 1, Len(c))
  <1> DEFINE l == Len(s)
             m == Len(d)
             x == SubSeq(d, l + 1, m)
             y == SubSeq(c, l + 1, m + 1)
  <1>1. /\ l \in Nat /\ m \in Nat /\ l <= m /\ Len(c) = m + 1 /\ Last(c) = c[m + 1]
        /\ d = SubSeq(c, 1, m) /\ Last(c) \in Name
    <2>1. Len(d) \in Nat /\ c # <<>>
      BY DEF Path
    <2> QED
      BY <2>1, PrefixIsStart, EndsOfSequence DEF Path, Last
  <1>2. \A n \in 1..m : d[n] = c[n]
    BY <1>1 DEF Path
  <1>3. /\ x \in Seq(Name) /\ Len(x) = m - l /\ \A n \in 1..(m - l) : x[n] = d[l + n]
    BY <1>1 DEF Path
  <1>4. /\ y \in Seq(Name) /\ Len(y) = m + 1 - l /\ \A n \in 1..(m + 1 - l) : y[n] = c[l + n]
    BY <1>1 DEF Path
  <1>5. y = Append(x, Last(c))
    <2> HIDE DEF x, y, l, m
    <2>1. Append(x, Last(c)) \in Seq(Name) /\ Len(Append(x, Last(c))) = Len(y)
      BY <1>1, <1>3, <1>4
    <2>2. ASSUME NEW n \in 1..Len(y)  PROVE  Append(x, Last(c))[n] = y[n]
      <3>1. CASE n = m + 1 - l
        BY <3>1, <1>1, <1>3, <1>4
      <3>2. CASE n # m + 1 - l
        <4>1. n \in 1..(m - l) /\ l + n \in 1..m /\ n \in 1..(m + 1 - l)
          BY <3>2, <1>1, <1>4
        <4>2. Append(x, Last(c))[n] = x[n]
          BY <4>1, <1>1, <1>3
        <4> QED
          BY <4>1, <4>2, <1>2, <1>3, <1>4
      <3> QED
        BY <3>1, <3>2
    <2> QED
      BY <2>1, <2>2, <1>4
  <1>6. Append(r \o x, Last(c)) = r \o Append(x, Last(c))
    <2> HIDE DEF x
    <2> DEFINE z == Last(c)
               a == Append(r \o x, z)
               b == r \o Append(x, z)
    <2>1. z \in Name /\ x \in Seq(Name)
      BY <1>1, <1>3
    <2> HIDE DEF z
    <2>2. /\ r \o x \in Seq(Name) /\ Len(r \o x) = Len(r) + Len(x)
          /\ Append(x, z) \in Seq(Name) /\ Len(Append(x, z)) = Len(x) + 1
          /\ Len(r) \in Nat /\ Len(x) \in Nat
      BY <2>1
    <2>3. /\ a \in Seq(Name) /\ Len(a) = Len(r) + Len(x) + 1
          /\ b \in Seq(Name) /\ Len(b) = Len(r) + Len(x) + 1
      BY <2>1, <2>2
    <2>4. ASSUME NEW n \in 1..Len(a)  PROVE  a[n] = b[n]
      <3>1. n \in 1..(Len(r) + Len(x) + 1)
        BY <2>3
      <3>2. CASE n \in 1..Len(r)
        BY <3>1, <3>2, <2>1, <2>2
      <3>3. CASE n \in (Len(r) + 1)..(Len(r) + Len(x))
        BY <3>1, <3>3, <2>1, <2>2
      <3>4. CASE n = Len(r) + Len(x) + 1
        BY <3>1, <3>4, <2>1, <2>2
      <3> QED
        BY <3>1, <3>2, <3>3, <3>4, <2>2
    <2> HIDE DEF a, b
    <2>5. a = b
      BY <2>3, <2>4
    <2> QED
      BY <2>5 DEF a, b, z
  <1> QED
    BY <1>1, <1>5, <1>6

\* The source itself goes to the root.
LEMMA SourceDestination ==
    ASSUME job \in Jobs, NEW i \in DOMAIN job.sources
    PROVE  To(i, job.sources[i]) = RootFor(i)
  <1>1. RootFor(i) \in Seq(Name) /\ job.sources[i] \in Seq(Name)
    BY RootHasNames DEF Dest, Path
  <1>2. SubSeq(job.sources[i], Len(job.sources[i]) + 1, Len(job.sources[i])) = <<>>
    BY <1>1
  <1> QED
    BY <1>1, <1>2 DEF To
-----------------------------------------------------------------------------
(***************************************************************************)
(* What is planned or recorded stays so                                    *)
(***************************************************************************)
\* The plan has at least what it had.
Grows ==
    /\ UNCHANGED <<job, tree>>
    /\ ToSet(plan.files) \subseteq ToSet(plan'.files)
    /\ ToSet(plan.directories) \subseteq ToSet(plan'.directories)
    /\ \A k \in DOMAIN plan.failures :
          k \in DOMAIN plan'.failures /\ plan'.failures[k] = plan.failures[k]

\* A settled entry stays settled while the plan grows.
LEMMA SettledStays ==
    ASSUME Grows, NEW i, NEW p, Settled(i, p)
    PROVE  Settled(i, p)'
  <1>1. RootFor(i)' = RootFor(i) /\ job' = job /\ tree' = tree /\ Preserves' = Preserves
    BY DEF Grows, RootFor, NameCollides, Preserves
  <1>2. FailedAbove(i, p) => FailedAbove(i, p)'
    BY <1>1 DEF FailedAbove, Grows
  <1>3. PlannedFrom(i, p) => PlannedFrom(i, p)'
    BY <1>1 DEF PlannedFrom, Grows
  <1> QED
    BY <1>1, <1>2, <1>3 DEF Settled

\* The folders on the way stay there while the walk is within one source.
LEMMA WayStays ==
    ASSUME UNCHANGED <<job, tree, at>>, NEW e
    PROVE  /\ OnTheWay(e)' <=> OnTheWay(e)
           /\ \A d : Children(d)' = Children(d)
  BY DEF OnTheWay, To, RootFor, NameCollides, Children

\* What appending does to the elements.
LEMMA ElementAppended ==
    ASSUME NEW S, NEW s \in Seq(S), NEW e \in S
    PROVE  /\ ToSet(s) \subseteq ToSet(Append(s, e))
           /\ e \in ToSet(Append(s, e))
  <1>1. /\ Len(s) \in Nat /\ DOMAIN s = 1..Len(s)
        /\ DOMAIN Append(s, e) = 1..(Len(s) + 1)
        /\ Append(s, e)[Len(s) + 1] = e
        /\ \A k \in 1..Len(s) : Append(s, e)[k] = s[k]
    OBVIOUS
  <1>2. Len(s) + 1 \in 1..(Len(s) + 1) /\ \A k \in 1..Len(s) : k \in 1..(Len(s) + 1)
    BY <1>1
  <1> QED
    BY <1>1, <1>2 DEF ToSet

\* A plan that is left alone has what it had.
LEMMA PlanIsLeft ==
    ASSUME UNCHANGED <<job, tree, plan>>
    PROVE  Grows
  BY DEF Grows

\* A file joins the plan.
LEMMA FileJoins ==
    ASSUME Registered, UNCHANGED <<job, tree>>, NEW e \in Entry, PlansFile(e)
    PROVE  Grows /\ e \in ToSet(plan'.files)
  <1>1. plan.files \in Seq(Entry)
    BY DEF Registered
  <1>2. plan'.files = Append(plan.files, e) /\ plan'.directories = plan.directories
        /\ plan'.failures = plan.failures
    BY DEF PlansFile, Registered
  <1> QED
    BY <1>1, <1>2, ElementAppended DEF Grows

\* A directory joins the plan.
LEMMA DirectoryJoins ==
    ASSUME Registered, UNCHANGED <<job, tree>>, NEW e \in Entry,
           NEW mirrored \in Path \cup {None}, PlansDirectory(e, mirrored)
    PROVE  /\ Grows
           /\ [source |-> mirrored, destination |-> e.destination] \in ToSet(plan'.directories)
  <1> DEFINE d == [source |-> mirrored, destination |-> e.destination]
  <1>1. plan.directories \in Seq(Directory) /\ d \in Directory
    BY DEF Registered, Entry, Directory
  <1>2. plan'.directories = Append(plan.directories, d) /\ plan'.files = plan.files
        /\ plan'.failures = plan.failures
    BY DEF PlansDirectory, Registered
  <1> HIDE DEF d
  <1>3. ToSet(plan.directories) \subseteq ToSet(plan'.directories) /\ d \in ToSet(plan'.directories)
    BY <1>1, <1>2, ElementAppended
  <1> QED
    BY <1>2, <1>3 DEF Grows, d

\* A failure is recorded, or there is no room for it and the job ends.
LEMMA FailureJoins ==
    ASSUME Registered, UNCHANGED <<job, tree>>, NEW e \in Entry, RecordFailure(e)
    PROVE  \/ outcome' = "Thrown"
           \/ /\ Grows /\ UNCHANGED outcome
              /\ \E k \in DOMAIN plan'.failures : plan'.failures[k] = e
  <1> SUFFICES ASSUME outcome' # "Thrown"
               PROVE  /\ Grows /\ UNCHANGED outcome
                      /\ \E k \in DOMAIN plan'.failures : plan'.failures[k] = e
    OBVIOUS
  <1> DEFINE s == plan.failures
             n == Len(s)
  <1>1. s \in Seq(Entry)
    BY DEF Registered
  <1>2. plan'.failures = Append(s, e) /\ plan'.directories = plan.directories
        /\ plan'.files = plan.files /\ UNCHANGED outcome
    BY DEF RecordFailure, Registered
  <1>3. /\ n \in Nat /\ DOMAIN s = 1..n /\ DOMAIN Append(s, e) = 1..(n + 1)
        /\ Append(s, e)[n + 1] = e
        /\ \A k \in 1..n : Append(s, e)[k] = s[k]
    BY <1>1
  <1> HIDE DEF s, n
  <1>4. n + 1 \in 1..(n + 1) /\ \A k \in 1..n : k \in 1..(n + 1)
    BY <1>3
  <1>5. Grows
    BY <1>2, <1>3, <1>4 DEF Grows, s
  <1> QED
    BY <1>2, <1>3, <1>4, <1>5

\* What is at or below a failure that a step leaves recorded is settled by it.
LEMMA BelowFailure ==
    ASSUME job \in Jobs, Grows, NEW i \in DOMAIN job.sources, NEW q \in Path, NEW p \in Path,
           IsPrefix(job.sources[i], q), IsPrefix(q, p),
           NEW k \in DOMAIN plan'.failures, plan'.failures[k].source = q
    PROVE  Settled(i, p)'
  <1>1. job.sources[i] \in Path /\ job' = job
    BY RootHasNames DEF Grows
  <1>2. /\ Len(job.sources[i]) \in Nat /\ Len(q) \in Nat /\ Len(p) \in Nat
        /\ Len(job.sources[i]) <= Len(q) /\ Len(q) <= Len(p) /\ q = SubSeq(p, 1, Len(q))
    BY <1>1, PrefixIsStart DEF Path
  <1>3. Len(q) \in Len(job.sources[i])..Len(p)
    BY <1>2
  <1> QED
    BY <1>1, <1>2, <1>3 DEF Settled, FailedAbove
-----------------------------------------------------------------------------
(***************************************************************************)
(* The walk                                                                *)
(***************************************************************************)
\* The top of the stack and what is below it.
LEMMA StackTop ==
    ASSUME NEW S, NEW s \in Seq(S), s # <<>>
    PROVE  /\ Len(s) \in DOMAIN s /\ Last(s) = s[Len(s)]
           /\ \A k \in DOMAIN s : k = Len(s) \/ (k \in DOMAIN Front(s) /\ Front(s)[k] = s[k])
           /\ \A k \in DOMAIN Front(s) : k \in DOMAIN s /\ Front(s)[k] = s[k]
  <1> DEFINE n == Len(s)
  <1>1. n \in Nat /\ n # 0 /\ DOMAIN s = 1..n /\ Last(s) = s[n]
    BY DEF Last
  <1>2. DOMAIN Front(s) = 1..(n - 1) /\ \A k \in 1..(n - 1) : Front(s)[k] = s[k]
    BY <1>1 DEF Front
  <1> HIDE DEF n
  <1>3. n \in 1..n /\ (\A k \in 1..n : k = n \/ k \in 1..(n - 1)) /\ \A k \in 1..(n - 1) : k \in 1..n
    BY <1>1
  <1> QED
    BY <1>1, <1>2, <1>3 DEF n

\* The subfolders come on top of the stack, and nothing is lost.
LEMMA Pushed ==
    ASSUME NEW s \in Seq(Entry), NEW u \in Seq(Entry)
    PROVE  /\ \A k \in DOMAIN s : k \in DOMAIN (s \o Reverse(u)) /\ (s \o Reverse(u))[k] = s[k]
           /\ \A k \in DOMAIN u : \E l \in DOMAIN (s \o Reverse(u)) : (s \o Reverse(u))[l] = u[k]
           /\ \A l \in DOMAIN (s \o Reverse(u)) :
                 \/ \E k \in DOMAIN s : (s \o Reverse(u))[l] = s[k]
                 \/ \E k \in DOMAIN u : (s \o Reverse(u))[l] = u[k]
  <1> DEFINE t == s \o Reverse(u)
             n == Len(s)
             m == Len(u)
  <1>1. /\ n \in Nat /\ m \in Nat /\ DOMAIN s = 1..n /\ DOMAIN u = 1..m
        /\ Reverse(u) \in Seq(Entry) /\ Len(Reverse(u)) = m
        /\ \A k \in 1..m : Reverse(u)[k] = u[(m - k) + 1]
    BY DEF Reverse
  <1>2. /\ DOMAIN t = 1..(n + m)
        /\ \A k \in 1..n : t[k] = s[k]
        /\ \A k \in (n + 1)..(n + m) : t[k] = Reverse(u)[k - n]
    <2> DEFINE r == Reverse(u)
    <2>1. r \in Seq(Entry) /\ Len(r) = m
      BY <1>1
    <2> HIDE DEF r
    <2> QED
      BY <2>1 DEF r
  <1> HIDE DEF t, n, m
  <1>3. ASSUME NEW k \in 1..n  PROVE  k \in 1..(n + m) /\ t[k] = s[k]
    BY <1>1, <1>2
  <1>4. ASSUME NEW k \in 1..m  PROVE  \E l \in 1..(n + m) : t[l] = u[k]
    <2> DEFINE l == n + (m - k) + 1
    <2>1. l \in (n + 1)..(n + m) /\ l \in 1..(n + m) /\ l - n \in 1..m /\ (m - (l - n)) + 1 = k
      BY <1>1
    <2> HIDE DEF l
    <2> QED
      BY <2>1, <1>1, <1>2
  <1>5. ASSUME NEW l \in 1..(n + m), l \notin 1..n  PROVE  \E k \in 1..m : t[l] = u[k]
    <2> DEFINE k == (m - (l - n)) + 1
    <2>1. l \in (n + 1)..(n + m) /\ l - n \in 1..m /\ k \in 1..m
      BY <1>1, <1>5
    <2>2. t[l] = u[k]
      BY <2>1, <1>1, <1>2
    <2> QED
      BY <2>1, <2>2
  <1> QED
    BY <1>1, <1>2, <1>3, <1>4, <1>5 DEF t

\* An enumeration is not the absence of one.
LEMMA NoneIsNoFolder ==
    ASSUME NEW e \in Entry, NEW left \in SUBSET Path, NEW subs \in Seq(Entry)
    PROVE  [folder |-> e, left |-> left, subs |-> subs] # None
  <1> DEFINE S == [source : Path, destination : Path]
  <1>1. Entry \subseteq S
    BY DEF Entry, Dest
  <1>2. subs \in Seq(S)
    <2>1. Len(subs) \in Nat /\ DOMAIN subs = 1..Len(subs) /\ \A k \in 1..Len(subs) : subs[k] \in Entry
          /\ subs = [l \in 1..Len(subs) |-> subs[l]]
      OBVIOUS
    <2> HIDE DEF S
    <2>2. subs \in [1..Len(subs) -> S]
      BY <2>1, <1>1
    <2> QED
      BY <2>1, <2>2
  <1>3. e \in S
    BY <1>1
  <1>4. None \notin [folder : S, left : SUBSET Path, subs : Seq(S)]
    BY PlannerAssumption DEF Enumeration
  <1> HIDE DEF S
  <1> QED
    BY <1>2, <1>3, <1>4

\* What is below something is below a folder, and below an entry of it.
LEMMA BelowFolder ==
    ASSUME tree \in Trees, NEW d \in DOMAIN tree, NEW p \in DOMAIN tree, IsPrefix(d, p), d # p
    PROVE  /\ tree[d] # "File"
           /\ \E q \in Children(d) : IsPrefix(q, p)
  <1> DEFINE c == SubSeq(p, 1, Len(d) + 1)
  <1>1. d \in Path /\ p \in Path
    BY PlannerAssumption
  <1>2. /\ c \in Path /\ Len(c) = Len(d) + 1 /\ Len(d) + 1 <= Len(p)
        /\ IsPrefix(d, c) /\ IsPrefix(c, p)
    BY <1>1, EntryOnTheWay
  <1>3. Len(d) \in Nat /\ Len(p) \in Nat /\ d = SubSeq(p, 1, Len(d)) /\ p = SubSeq(p, 1, Len(p))
    BY <1>1, PrefixIsStart DEF Path
  <1>4. \A n \in Len(d)..(Len(p) - 1) : SubSeq(p, 1, n) \in DOMAIN tree /\ tree[SubSeq(p, 1, n)] # "File"
    BY PlannerAssumption
  <1>5. tree[d] # "File"
    <2>1. Len(d) \in Len(d)..(Len(p) - 1)
      BY <1>2, <1>3
    <2> QED
      BY <1>3, <1>4, <2>1
  <1>6. c \in DOMAIN tree
    <2>1. CASE Len(d) + 1 = Len(p)
      BY <2>1, <1>3
    <2>2. CASE Len(d) + 1 # Len(p)
      <3> DEFINE l == Len(d)
                 m == Len(p)
      <3> HIDE DEF l, m
      <3>1. l \in Nat /\ m \in Nat /\ l + 1 <= m /\ l + 1 # m
        BY <2>2, <1>2, <1>3 DEF l, m
      <3>2. l + 1 \in l..(m - 1)
        BY <3>1
      <3> QED
        BY <1>4, <3>2 DEF l, m
    <2> QED
      BY <2>1, <2>2
  <1> QED
    BY <1>2, <1>5, <1>6 DEF Children

\* A step within one source covers what was covered when it covers what was
\* ahead of the walk.
LEMMA WalkCovers ==
    ASSUME TakenInv, UNCHANGED at, Grows,
           \A p \in DOMAIN tree :
              /\ at - 1 \in DOMAIN job.sources
              /\ IsPrefix(job.sources[at - 1], p)
              /\ Ahead(p)
              => Settled(at - 1, p)' \/ Ahead(p)'
    PROVE  TakenInv'
  <1> SUFFICES ASSUME NEW i \in DOMAIN job.sources, NEW p \in DOMAIN tree,
                      i < at, IsPrefix(job.sources[i], p)
               PROVE  Settled(i, p)' \/ (i = at - 1 /\ Ahead(p)')
    BY DEF TakenInv, Grows
  <1>1. CASE Settled(i, p)
    BY <1>1, SettledStays
  <1>2. CASE i = at - 1 /\ Ahead(p)
    BY <1>2
  <1> QED
    BY <1>1, <1>2 DEF TakenInv

\* The folder on top of the stack is opened: what was below it is at or below
\* one of its entries.
LEMMA OpensCovers ==
    ASSUME PlannerInv, WayInv, TakenInv, OpensFolder
    PROVE  WayInv' /\ TakenInv' /\ UNCHANGED outcome
  <1> DEFINE top == Last(stack)
  <1>1. /\ stack \in Seq(Entry) /\ stack # <<>> /\ tree \in Trees /\ reading = None
        /\ stack' = Front(stack)
        /\ reading' = [folder |-> top, left |-> Children(top.source), subs |-> <<>>]
        /\ UNCHANGED <<job, tree, at, plan, outcome>>
    BY DEF OpensFolder, BetweenFolders, PlannerInv, Walk
  <1>2. /\ Len(stack) \in DOMAIN stack /\ top = stack[Len(stack)]
        /\ \A k \in DOMAIN stack :
              k = Len(stack) \/ (k \in DOMAIN stack' /\ stack'[k] = stack[k])
        /\ \A k \in DOMAIN stack' : k \in DOMAIN stack /\ stack'[k] = stack[k]
    BY <1>1, StackTop
  <1>3. Grows
    BY <1>1, PlanIsLeft
  <1>4. OnTheWay(top)
    BY <1>2 DEF WayInv
  <1>5. /\ reading'.folder = top /\ reading'.left = Children(top.source)
        /\ DOMAIN reading'.subs = {}
    BY <1>1
  <1>6. at - 1 \in DOMAIN job.sources /\ \A k \in DOMAIN stack : OnTheWay(stack[k])
    BY <1>1 DEF WayInv
  <1>9. reading' # None
    <2>1. top \in Entry /\ Children(top.source) \subseteq Path
      BY <1>1, <1>2, PlannerAssumption DEF Children
    <2>2. <<>> \in Seq(Entry)
      OBVIOUS
    <2>3. [folder |-> top, left |-> Children(top.source), subs |-> <<>>] # None
      BY <2>1, <2>2, NoneIsNoFolder
    <2> QED
      BY <2>3, <1>1
  <1> HIDE DEF top
  <1>7. WayInv'
    <2>1. ASSUME NEW k \in DOMAIN stack'  PROVE  OnTheWay(stack[k])'
      BY ZenonT(30), <1>1, <1>2, <1>6 DEF OnTheWay, To, RootFor, NameCollides
    <2>2. OnTheWay(reading.folder)' /\ (reading.left \subseteq Children(reading.folder.source))'
      BY <1>1, <1>4, <1>5 DEF OnTheWay, To, RootFor, NameCollides, Children
    <2> QED
      BY <2>1, <2>2, <1>1, <1>5, <1>6 DEF WayInv
  <1>8. ASSUME NEW p \in DOMAIN tree, Ahead(p)
        PROVE  Ahead(p)'
    <2>1. PICK k \in DOMAIN stack : IsStrictPrefix(stack[k].source, p)
      BY <1>1, <1>8 DEF Ahead
    <2>2. CASE k = Len(stack)
      <3>1. IsPrefix(top.source, p) /\ top.source # p /\ top.source \in DOMAIN tree
        BY <2>1, <2>2, <1>2, <1>4 DEF IsStrictPrefix, OnTheWay
      <3>2. \E q \in Children(top.source) : IsPrefix(q, p)
        BY <1>1, <3>1, BelowFolder
      <3> QED
        BY <1>5, <1>9, <3>2 DEF Ahead
    <2>3. CASE k # Len(stack)
      BY <2>1, <2>3, <1>2 DEF Ahead
    <2> QED
      BY <2>2, <2>3
  <1> QED
    BY <1>1, <1>3, <1>7, <1>8, WalkCovers

\* A folder that cannot be opened is recorded: what is below it is settled.
LEMMA CannotOpenCovers ==
    ASSUME PlannerInv, WayInv, TakenInv, CannotOpen
    PROVE  outcome' = "Thrown" \/ (WayInv' /\ TakenInv' /\ UNCHANGED outcome)
  <1> SUFFICES ASSUME outcome' # "Thrown"  PROVE  WayInv' /\ TakenInv' /\ UNCHANGED outcome
    OBVIOUS
  <1> DEFINE top == Last(stack)
  <1>1. /\ stack \in Seq(Entry) /\ stack # <<>> /\ tree \in Trees /\ job \in Jobs
        /\ reading = None /\ stack' = Front(stack) /\ RecordFailure(top)
        /\ UNCHANGED <<job, tree, at, reading>>
    BY DEF CannotOpen, Throws, BetweenFolders, PlannerInv, Walk
  <1>2. /\ Len(stack) \in DOMAIN stack /\ top = stack[Len(stack)]
        /\ \A k \in DOMAIN stack :
              k = Len(stack) \/ (k \in DOMAIN stack' /\ stack'[k] = stack[k])
        /\ \A k \in DOMAIN stack' : k \in DOMAIN stack /\ stack'[k] = stack[k]
    BY <1>1, StackTop
  <1>3. top \in Entry /\ OnTheWay(top) /\ at - 1 \in DOMAIN job.sources
    BY <1>1, <1>2 DEF WayInv
  <1> HIDE DEF top
  <1>4. Grows /\ UNCHANGED outcome /\ \E k \in DOMAIN plan'.failures : plan'.failures[k] = top
    BY <1>1, <1>3, FailureJoins DEF PlannerInv
  <1>5. WayInv'
    <2>1. ASSUME NEW k \in DOMAIN stack'  PROVE  OnTheWay(stack[k])'
      <3>1. OnTheWay(stack[k])
        BY <1>1, <1>2 DEF WayInv
      <3> QED
        BY <3>1, <1>1, <1>2 DEF OnTheWay, To, RootFor, NameCollides
    <2> QED
      BY <2>1, <1>1, <1>3 DEF WayInv
  <1>6. ASSUME NEW p \in DOMAIN tree, IsPrefix(job.sources[at - 1], p), Ahead(p)
        PROVE  Settled(at - 1, p)' \/ Ahead(p)'
    <2>1. PICK k \in DOMAIN stack : IsStrictPrefix(stack[k].source, p)
      BY <1>1, <1>6 DEF Ahead
    <2>2. CASE k = Len(stack)
      <3>1. IsPrefix(top.source, p) /\ top.source \in Path /\ p \in Path
            /\ IsPrefix(job.sources[at - 1], top.source)
        BY <2>1, <2>2, <1>1, <1>2, <1>3, PlannerAssumption DEF IsStrictPrefix, OnTheWay
      <3> DEFINE i == at - 1
      <3>2. PICK f \in DOMAIN plan'.failures : plan'.failures[f].source = top.source
        BY <1>4
      <3>3. i \in DOMAIN job.sources /\ IsPrefix(job.sources[i], top.source) /\ at' = at
        BY <1>1, <1>3, <3>1
      <3>4. \A j \in DOMAIN job.sources :
               IsPrefix(job.sources[j], top.source) => Settled(j, p)'
        BY <1>1, <1>4, <3>1, <3>2, BelowFailure
      <3> QED
        BY <3>3, <3>4
    <2>3. CASE k # Len(stack)
      BY <2>1, <2>3, <1>2 DEF Ahead
    <2> QED
      BY <2>2, <2>3
  <1> QED
    BY <1>1, <1>4, <1>5, <1>6, WalkCovers

\* The subfolders that a folder leaves on the stack.
LEMMA PushedOnTheWay ==
    ASSUME PlannerInv, WayInv, reading # None, PushesSubfolders,
           UNCHANGED <<job, tree, at>>, reading' = None
    PROVE  /\ WayInv'
           /\ \A p : \/ \E k \in DOMAIN stack : IsStrictPrefix(stack[k].source, p)
                     \/ \E k \in DOMAIN reading.subs : IsStrictPrefix(reading.subs[k].source, p)
                     => Ahead(p)'
  <1>1. stack \in Seq(Entry) /\ reading.subs \in Seq(Entry) /\ stack' = stack \o Reverse(reading.subs)
    BY DEF PlannerInv, Walk, PushesSubfolders
  <1> DEFINE u == reading.subs
             t == stack \o Reverse(u)
  <1>2. /\ \A k \in DOMAIN stack : k \in DOMAIN t /\ t[k] = stack[k]
        /\ \A k \in DOMAIN u : \E l \in DOMAIN t : t[l] = u[k]
        /\ \A l \in DOMAIN t : \/ \E k \in DOMAIN stack : t[l] = stack[k]
                               \/ \E k \in DOMAIN u : t[l] = u[k]
    <2>1. stack \in Seq(Entry) /\ u \in Seq(Entry)
      BY <1>1
    <2> HIDE DEF u
    <2> QED
      BY <2>1, Pushed
  <1>6. t = stack'
    BY <1>1
  <1>3. /\ at - 1 \in DOMAIN job.sources
        /\ \A k \in DOMAIN stack : OnTheWay(stack[k])
        /\ \A k \in DOMAIN reading.subs : OnTheWay(reading.subs[k])
    BY DEF WayInv
  <1>4. ASSUME NEW l \in DOMAIN stack'  PROVE  OnTheWay(stack[l])'
    <2> HIDE DEF t, u
    <2>1. CASE \E k \in DOMAIN stack : t[l] = stack[k]
      <3>1. PICK k \in DOMAIN stack : stack'[l] = stack[k]
        BY <2>1, <1>6
      <3>2. OnTheWay(stack[k])
        BY <1>3
      <3> QED
        BY <3>1, <3>2 DEF OnTheWay, To, RootFor, NameCollides
    <2>2. CASE \E k \in DOMAIN u : t[l] = u[k]
      <3>1. PICK k \in DOMAIN u : stack'[l] = u[k]
        BY <2>2, <1>6
      <3>2. OnTheWay(u[k])
        BY <1>3 DEF u
      <3> QED
        BY <3>1, <3>2 DEF OnTheWay, To, RootFor, NameCollides
    <2> QED
      BY <2>1, <2>2, <1>2, <1>6
  <1> HIDE DEF t
  <1>5. WayInv'
    BY <1>3, <1>4 DEF WayInv
  <1> QED
    BY <1>2, <1>5, <1>6 DEF Ahead

\* A folder whose entries are all taken: what is ahead is below its subfolders.
LEMMA LeavesCovers ==
    ASSUME PlannerInv, WayInv, TakenInv, LeavesFolder
    PROVE  WayInv' /\ TakenInv' /\ UNCHANGED outcome
  <1>1. /\ reading # None /\ reading.left = {} /\ PushesSubfolders /\ reading' = None
        /\ UNCHANGED <<job, tree, at, plan, outcome>>
    BY DEF LeavesFolder
  <1>2. Grows
    BY <1>1, PlanIsLeft
  <1>3. /\ WayInv'
        /\ \A p : \/ \E k \in DOMAIN stack : IsStrictPrefix(stack[k].source, p)
                  \/ \E k \in DOMAIN reading.subs : IsStrictPrefix(reading.subs[k].source, p)
                  => Ahead(p)'
    BY <1>1, PushedOnTheWay
  <1>4. ASSUME NEW p \in DOMAIN tree, Ahead(p)  PROVE  Ahead(p)'
    <2>1. \/ \E k \in DOMAIN stack : IsStrictPrefix(stack[k].source, p)
          \/ \E k \in DOMAIN reading.subs : IsStrictPrefix(reading.subs[k].source, p)
      BY <1>1, <1>4 DEF Ahead
    <2> QED
      BY <2>1, <1>3
  <1> QED
    BY <1>1, <1>2, <1>3, <1>4, WalkCovers

\* An enumeration that breaks off is recorded: what was left of it is settled.
LEMMA BreaksOffCovers ==
    ASSUME PlannerInv, WayInv, TakenInv, BreaksOff
    PROVE  outcome' = "Thrown" \/ (WayInv' /\ TakenInv' /\ UNCHANGED outcome)
  <1> SUFFICES ASSUME outcome' # "Thrown"  PROVE  WayInv' /\ TakenInv' /\ UNCHANGED outcome
    OBVIOUS
  <1> DEFINE d == reading.folder
  <1>1. /\ reading # None /\ PushesSubfolders /\ reading' = None /\ RecordFailure(d)
        /\ d \in Entry /\ job \in Jobs /\ tree \in Trees
        /\ UNCHANGED <<job, tree, at>>
    BY DEF BreaksOff, PlannerInv, Walk
  <1>2. OnTheWay(d) /\ reading.left \subseteq Children(d.source) /\ at - 1 \in DOMAIN job.sources
    BY <1>1 DEF WayInv
  <1> HIDE DEF d
  <1>3. Grows /\ UNCHANGED outcome /\ \E k \in DOMAIN plan'.failures : plan'.failures[k] = d
    BY <1>1, FailureJoins DEF PlannerInv
  <1>4. /\ WayInv'
        /\ \A p : \/ \E k \in DOMAIN stack : IsStrictPrefix(stack[k].source, p)
                  \/ \E k \in DOMAIN reading.subs : IsStrictPrefix(reading.subs[k].source, p)
                  => Ahead(p)'
    BY <1>1, PushedOnTheWay
  <1>5. ASSUME NEW p \in DOMAIN tree, Ahead(p)
        PROVE  Settled(at - 1, p)' \/ Ahead(p)'
    <2>1. CASE \/ \E k \in DOMAIN stack : IsStrictPrefix(stack[k].source, p)
               \/ \E k \in DOMAIN reading.subs : IsStrictPrefix(reading.subs[k].source, p)
      BY <2>1, <1>4
    <2>2. CASE \E q \in reading.left : IsPrefix(q, p)
      <3>1. PICK q \in reading.left : IsPrefix(q, p)
        BY <2>2
      <3>2. q \in DOMAIN tree /\ IsPrefix(d.source, q)
        BY <1>2 DEF Children
      <3>3. /\ q \in Path /\ p \in Path /\ d.source \in Path
            /\ IsPrefix(job.sources[at - 1], d.source)
        BY <1>1, <1>2, <3>2, PlannerAssumption DEF OnTheWay
      <3>4. IsPrefix(d.source, p)
        BY <3>1, <3>2, <3>3, BelowBelow
      <3>5. PICK f \in DOMAIN plan'.failures : plan'.failures[f].source = d.source
        BY <1>3
      <3>6. \A j \in DOMAIN job.sources : IsPrefix(job.sources[j], d.source) => Settled(j, p)'
        BY <1>1, <1>3, <3>3, <3>4, <3>5, BelowFailure
      <3> QED
        BY <1>1, <1>2, <3>3, <3>6
    <2> QED
      BY <2>1, <2>2, <1>5 DEF Ahead
  <1> QED
    BY <1>1, <1>3, <1>4, <1>5, WalkCovers

\* What is at or below the entry that is taken is settled, or below a folder
\* kept for later; nothing else changes its place.
LEMMA EntryTaken ==
    ASSUME PlannerInv, WayInv, reading # None, NEW c \in reading.left,
           NEW subs \in Seq(Entry), Passes(c, subs), EntryFrame, Grows,
           \A k \in DOMAIN reading.subs : k \in DOMAIN subs /\ subs[k] = reading.subs[k],
           \A k \in DOMAIN subs : k \in DOMAIN reading.subs \/ OnTheWay(subs[k]),
           \A p \in DOMAIN tree :
              IsPrefix(c, p) /\ IsPrefix(job.sources[at - 1], p)
              => \/ Settled(at - 1, p)'
                 \/ \E k \in DOMAIN subs : IsStrictPrefix(subs[k].source, p)
    PROVE  /\ WayInv'
           /\ \A p \in DOMAIN tree :
                 /\ IsPrefix(job.sources[at - 1], p)
                 /\ Ahead(p)
                 => Settled(at - 1, p)' \/ Ahead(p)'
  <1>1. /\ reading \in [folder : Entry, left : SUBSET Path, subs : Seq(Entry)]
        /\ UNCHANGED <<job, tree, at, stack>>
    BY DEF PlannerInv, Walk, EntryFrame
  <1>2. /\ reading'.folder = reading.folder /\ reading'.left = reading.left \ {c}
        /\ reading'.subs = subs
    BY <1>1 DEF Passes
  <1>3. reading' # None
    <2>1. reading' = [folder |-> reading.folder, left |-> reading.left \ {c}, subs |-> subs]
      BY <1>1 DEF Passes
    <2>2. reading.folder \in Entry /\ reading.left \ {c} \in SUBSET Path
      BY <1>1
    <2> QED
      BY <2>1, <2>2, NoneIsNoFolder
  <1>4. /\ at - 1 \in DOMAIN job.sources
        /\ \A k \in DOMAIN stack : OnTheWay(stack[k])
        /\ OnTheWay(reading.folder) /\ reading.left \subseteq Children(reading.folder.source)
        /\ \A k \in DOMAIN reading.subs : OnTheWay(reading.subs[k])
    BY DEF WayInv
  <1>5. ASSUME NEW k \in DOMAIN stack  PROVE  OnTheWay(stack[k])'
    <2>1. OnTheWay(stack[k])
      BY <1>4
    <2> QED
      BY <2>1, <1>1 DEF OnTheWay, To, RootFor, NameCollides
  <1>6. ASSUME NEW k \in DOMAIN subs  PROVE  OnTheWay(reading.subs[k])'
    <2>1. OnTheWay(subs[k])
      BY <1>4
    <2> QED
      BY <2>1, <1>1, <1>2 DEF OnTheWay, To, RootFor, NameCollides
  <1>7. OnTheWay(reading.folder)'
    BY ZenonT(30), <1>1, <1>2, <1>4 DEF OnTheWay, To, RootFor, NameCollides
  <1>8. (reading.left \subseteq Children(reading.folder.source))'
    BY <1>1, <1>2, <1>4 DEF Children
  <1>9. WayInv'
    BY <1>1, <1>2, <1>4, <1>5, <1>6, <1>7, <1>8 DEF WayInv
  <1>10. ASSUME NEW p \in DOMAIN tree, IsPrefix(job.sources[at - 1], p), Ahead(p)
         PROVE  Settled(at - 1, p)' \/ Ahead(p)'
    <2>1. CASE \E k \in DOMAIN stack : IsStrictPrefix(stack[k].source, p)
      BY <2>1, <1>1 DEF Ahead
    <2>2. CASE \E k \in DOMAIN reading.subs : IsStrictPrefix(reading.subs[k].source, p)
      BY <2>2, <1>2, <1>3 DEF Ahead
    <2>3. CASE \E q \in reading.left : q # c /\ IsPrefix(q, p)
      BY <2>3, <1>2, <1>3 DEF Ahead
    <2>4. CASE IsPrefix(c, p)
      <3>1. CASE Settled(at - 1, p)'
        BY <3>1
      <3>2. CASE \E k \in DOMAIN subs : IsStrictPrefix(subs[k].source, p)
        BY <3>2, <1>2, <1>3 DEF Ahead
      <3> QED
        BY <3>1, <3>2, <2>4, <1>10
    <2> QED
      BY <2>1, <2>2, <2>3, <2>4, <1>10 DEF Ahead
  <1> QED
    BY <1>9, <1>10

\* One entry of an enumeration is taken.
LEMMA EntryCovers ==
    ASSUME PlannerInv, WayInv, TakenInv, reading # None, outcome = "Planning",
           NEW c \in reading.left, TakesFolder(c) \/ TakesFile(c) \/ SkipsEntry(c)
    PROVE  outcome' = "Thrown" \/ (WayInv' /\ TakenInv' /\ UNCHANGED outcome)
  <1> SUFFICES ASSUME outcome' # "Thrown"  PROVE  WayInv' /\ TakenInv' /\ UNCHANGED outcome
    OBVIOUS
  <1> DEFINE e == Below(c)
             d == reading.folder
             i == at - 1
             s == job.sources[i]
  <1>1. /\ c \in Path /\ c # <<>> /\ d \in Entry /\ reading.subs \in Seq(Entry)
        /\ job \in Jobs /\ tree \in Trees /\ Registered
    BY DEF PlannerInv, Walk
  <1>2. /\ i \in DOMAIN job.sources /\ OnTheWay(d)
        /\ c \in DOMAIN tree /\ Len(c) = Len(d.source) + 1 /\ IsPrefix(d.source, c)
        /\ \A k \in DOMAIN reading.subs : OnTheWay(reading.subs[k])
    BY DEF WayInv, Children
  <1>3. /\ e \in Entry /\ e.source = c /\ e.destination = Append(d.destination, Last(c))
    BY <1>1, LongerPath DEF Below, Entry, Dest
  <1>4. /\ s \in Path /\ RootFor(i) \in Seq(Name) /\ d.source \in Path
        /\ IsPrefix(s, d.source) /\ d.destination = To(i, d.source)
    <2>1. \A j \in DOMAIN job.sources : RootFor(j) \in Dest /\ job.sources[j] \in Path
      BY <1>1, RootHasNames
    <2> QED
      BY <2>1, <1>1, <1>2 DEF OnTheWay, Entry, Dest, Path
  <1>5. IsPrefix(s, c) /\ s # c
    <2>1. IsPrefix(s, c) /\ Len(s) <= Len(d.source)
      BY <1>1, <1>2, <1>4, BelowBelow
    <2>2. Len(s) # Len(c)
      BY <2>1, <1>2, <1>4 DEF Path
    <2> QED
      BY <2>1, <2>2
  <1>6. e.destination = To(i, c)
    <2> HIDE DEF i, s, d, e
    <2>1. \A r \in Seq(Name) :
             Append(r \o SubSeq(d.source, Len(s) + 1, Len(d.source)), Last(c))
                = r \o SubSeq(c, Len(s) + 1, Len(c))
      BY <1>1, <1>2, <1>4, EntryDestination
    <2> QED
      BY <2>1, <1>3, <1>4 DEF To, s
  <1>7. \A p \in DOMAIN tree : p \in Path /\ (IsPrefix(c, p) /\ p # c => tree[c] # "File")
    BY <1>1, <1>2, BelowFolder, PlannerAssumption
  <1> HIDE DEF e, i, s, d
  <1>8. CASE TakesFolder(c) /\ ~Throws
    <2>1. /\ tree[c] = "Directory" /\ PlansDirectory(e, c)
          /\ Passes(c, Append(reading.subs, e)) /\ EntryFrame /\ UNCHANGED outcome
      BY <1>8 DEF TakesFolder, e
    <2>2. UNCHANGED <<job, tree, at>>
      BY <2>1 DEF EntryFrame
    <2>3. Grows /\ [source |-> c, destination |-> e.destination] \in ToSet(plan'.directories)
      BY <1>1, <1>3, <2>1, <2>2, DirectoryJoins
    <2> DEFINE subs == Append(reading.subs, e)
               u == reading.subs
    <2>4. u \in Seq(Entry) /\ subs \in Seq(Entry)
      BY <1>1, <1>3
    <2>5. /\ \A k \in DOMAIN u : k \in DOMAIN subs /\ subs[k] = u[k]
          /\ \A k \in DOMAIN subs : k \in DOMAIN u \/ subs[k] = e
          /\ \E k \in DOMAIN subs : subs[k] = e
      <3>1. subs = Append(u, e)
        OBVIOUS
      <3> DEFINE n == Len(u)
      <3> HIDE DEF u, subs
      <3>2. /\ n \in Nat /\ DOMAIN u = 1..n /\ DOMAIN subs = 1..(n + 1)
            /\ subs[n + 1] = e /\ \A k \in 1..n : subs[k] = u[k]
        BY <3>1, <2>4, <1>3
      <3> HIDE DEF n
      <3>3. /\ n + 1 \in 1..(n + 1) /\ (\A k \in 1..n : k \in 1..(n + 1))
            /\ \A k \in 1..(n + 1) : k \in 1..n \/ k = n + 1
        BY <3>2
      <3> QED
        BY <3>2, <3>3
    <2>6. OnTheWay(e)
      BY <1>2, <1>3, <1>5, <1>6, <2>1 DEF OnTheWay, i, s
    <2>7. Settled(i, c)'
      <3>1. job' = job /\ tree' = tree /\ RootFor(i)' = RootFor(i) /\ i' = i
        BY <2>2 DEF RootFor, NameCollides, i
      <3>2. To(i, c) = RootFor(i) \o SubSeq(c, Len(job.sources[i]) + 1, Len(c))
        BY DEF To
      <3>3. c # job.sources[i]
        BY <1>5 DEF s
      <3>4. PlannedFrom(i, c)'
        BY <3>1, <3>2, <3>3, <2>1, <2>3, <1>6 DEF PlannedFrom
      <3> QED
        BY <3>1, <3>4, <2>1 DEF Settled
    <2>8. ASSUME NEW p \in DOMAIN tree, IsPrefix(c, p)
          PROVE  Settled(i, p)' \/ \E k \in DOMAIN subs : IsStrictPrefix(subs[k].source, p)
      <3>1. CASE p = c
        BY <3>1, <2>7
      <3>2. CASE p # c
        <4>1. PICK k \in DOMAIN subs : subs[k] = e
          BY <2>5
        <4> HIDE DEF subs
        <4> QED
          BY <3>2, <4>1, <2>8, <1>3 DEF IsStrictPrefix
      <3> QED
        BY <3>1, <3>2
    <2>9. \A k \in DOMAIN subs : k \in DOMAIN u \/ OnTheWay(subs[k])
      <3> HIDE DEF subs, u
      <3> QED
        BY <2>5, <2>6
    <2>10. /\ WayInv'
           /\ \A p \in DOMAIN tree :
                 /\ IsPrefix(job.sources[at - 1], p)
                 /\ Ahead(p)
                 => Settled(at - 1, p)' \/ Ahead(p)'
      <3> DEFINE v == subs
      <3>1. Passes(c, v) /\ v \in Seq(Entry)
        BY <2>1, <2>4
      <3>2. /\ \A k \in DOMAIN reading.subs : k \in DOMAIN v /\ v[k] = reading.subs[k]
            /\ \A k \in DOMAIN v : k \in DOMAIN reading.subs \/ OnTheWay(v[k])
        BY <2>5, <2>9
      <3>3. \A p \in DOMAIN tree :
               IsPrefix(c, p) => Settled(at - 1, p)' \/ \E k \in DOMAIN v : IsStrictPrefix(v[k].source, p)
        BY <2>8 DEF i
      <3> HIDE DEF v, subs, u
      <3> QED
        BY <3>1, <3>2, <3>3, <2>1, <2>3, EntryTaken
    <2> QED
      BY <2>1, <2>2, <2>3, <2>10, WalkCovers
  <1>9. CASE TakesFile(c) /\ ~Throws
    <2>1. /\ tree[c] = "File" /\ PlansFile(e)
          /\ Passes(c, reading.subs) /\ EntryFrame /\ UNCHANGED outcome
      BY <1>9 DEF TakesFile, e
    <2>2. UNCHANGED <<job, tree, at>>
      BY <2>1 DEF EntryFrame
    <2>3. Grows /\ e \in ToSet(plan'.files)
      BY <1>1, <1>3, <2>1, <2>2, FileJoins
    <2>4. Settled(i, c)'
      <3>1. job' = job /\ tree' = tree /\ RootFor(i)' = RootFor(i) /\ i' = i
        BY <2>2 DEF RootFor, NameCollides, i
      <3>2. To(i, c) = RootFor(i) \o SubSeq(c, Len(job.sources[i]) + 1, Len(c))
        BY DEF To
      <3>3. e = [source |-> c, destination |-> To(i, c)]
        BY <1>3, <1>6 DEF Entry
      <3>4. PlannedFrom(i, c)'
        BY <3>1, <3>2, <3>3, <2>1, <2>3 DEF PlannedFrom
      <3> QED
        BY <3>1, <3>4, <2>1 DEF Settled
    <2>5. \A p \in DOMAIN tree : IsPrefix(c, p) => Settled(at - 1, p)'
      BY <1>7, <2>1, <2>4 DEF i
    <2>6. /\ WayInv'
          /\ \A p \in DOMAIN tree :
                /\ IsPrefix(job.sources[at - 1], p)
                /\ Ahead(p)
                => Settled(at - 1, p)' \/ Ahead(p)'
      BY <1>1, <2>1, <2>3, <2>5, EntryTaken
    <2> QED
      BY <2>1, <2>2, <2>3, <2>6, WalkCovers
  <1>10. CASE SkipsEntry(c)
    <2>1. RecordFailure(e) /\ Passes(c, reading.subs) /\ EntryFrame
      BY <1>10 DEF SkipsEntry, e
    <2>2. UNCHANGED <<job, tree, at>>
      BY <2>1 DEF EntryFrame
    <2>3. Grows /\ UNCHANGED outcome /\ \E k \in DOMAIN plan'.failures : plan'.failures[k] = e
      BY <1>1, <1>3, <2>1, <2>2, FailureJoins
    <2>4. PICK f \in DOMAIN plan'.failures : plan'.failures[f].source = c
      BY <2>3, <1>3
    <2>5. \A j \in DOMAIN job.sources : \A p \in Path :
             IsPrefix(job.sources[j], c) /\ IsPrefix(c, p) => Settled(j, p)'
      BY <1>1, <2>3, <2>4, BelowFailure
    <2>6. \A p \in DOMAIN tree : IsPrefix(c, p) => Settled(at - 1, p)'
      BY <1>2, <1>5, <1>7, <2>2, <2>5 DEF i, s
    <2>7. /\ WayInv'
          /\ \A p \in DOMAIN tree :
                /\ IsPrefix(job.sources[at - 1], p)
                /\ Ahead(p)
                => Settled(at - 1, p)' \/ Ahead(p)'
      BY <1>1, <2>1, <2>3, <2>6, EntryTaken
    <2> QED
      BY <2>2, <2>3, <2>7, WalkCovers
  <1> QED
    BY <1>8, <1>9, <1>10 DEF Throws

\* The next source is taken: all before it is settled, and what is below it is
\* ahead of the walk.
LEMMA SourceCovers ==
    ASSUME PlannerInv, WayInv, TakenInv, TakesSource
    PROVE  outcome' = "Thrown" \/ (WayInv' /\ TakenInv' /\ UNCHANGED outcome)
  <1> SUFFICES ASSUME outcome' # "Thrown"  PROVE  WayInv' /\ TakenInv' /\ UNCHANGED outcome
    OBVIOUS
  <1> DEFINE s == job.sources[at]
             e == [source |-> s, destination |-> RootFor(at)]
  <1>1. /\ at \in DOMAIN job.sources /\ at \in Nat /\ stack = <<>> /\ reading = None
        /\ job \in Jobs /\ tree \in Trees /\ Registered
    BY PlannerAssumption DEF TakesSource, BetweenSources, PlannerInv, Walk
  <1>2. /\ s \in DOMAIN tree /\ ~Refused(s, Key(e.destination)) /\ at' = at + 1
        /\ UNCHANGED <<job, tree, reading, outcome>>
        /\ IF tree[s] = "File" THEN PlansFile(e) /\ UNCHANGED stack
           ELSE PlansDirectory(e, IF Preserves THEN s ELSE None) /\ stack' = <<e>>
    BY DEF TakesSource, Throws
  <1>3. /\ s \in Path /\ RootFor(at) \in Dest /\ To(at, s) = RootFor(at)
    <2>1. \A j \in DOMAIN job.sources : /\ RootFor(j) \in Dest /\ job.sources[j] \in Path
                                        /\ To(j, job.sources[j]) = RootFor(j)
      BY <1>1, RootHasNames, SourceDestination
    <2> QED
      BY <2>1, <1>1
  <1>4. e \in Entry /\ e.source = s /\ e.destination = To(at, s) /\ IsPrefix(s, s)
    <2>1. SubSeq(s, 1, Len(s)) = s /\ Len(s) \in Nat
      BY <1>3 DEF Path
    <2> QED
      BY <1>3, <2>1, PrefixIsStart DEF Entry
  <1>5. tree[s] \in {"File", "Directory"}
    BY <1>1, <1>2, PlannerAssumption DEF Refused
  <1>6. \A i, p : /\ RootFor(i)' = RootFor(i) /\ To(i, p)' = To(i, p)
    BY <1>2 DEF RootFor, NameCollides, To
  <1>7. \A p \in DOMAIN tree : p \in Path /\ (IsPrefix(s, p) /\ p # s => tree[s] # "File")
    BY <1>1, <1>2, BelowFolder, PlannerAssumption
  <1> DEFINE mirrored == IF Preserves THEN s ELSE None
  <1> HIDE DEF e
  <1>8. /\ Grows
        /\ IF tree[s] = "File" THEN e \in ToSet(plan'.files)
           ELSE [source |-> mirrored, destination |-> e.destination] \in ToSet(plan'.directories)
    <2>1. CASE tree[s] = "File"
      BY <2>1, <1>1, <1>2, <1>4, FileJoins
    <2>2. CASE tree[s] # "File"
      <3>1. mirrored \in Path \cup {None}
        BY <1>3
      <3>2. PlansDirectory(e, mirrored)
        BY <1>2, <2>2
      <3> HIDE DEF mirrored
      <3> QED
        BY <2>2, <3>1, <3>2, <1>1, <1>2, <1>4, DirectoryJoins
    <2> QED
      BY <2>1, <2>2
  <1>9. e = [source |-> s, destination |-> To(at, s)]
    BY <1>3 DEF e
  <1>10. ASSUME NEW i, NEW p, i = at, p = s  PROVE  Settled(i, p)'
    <2>1. To(i, p) = RootFor(i) \o SubSeq(p, Len(job.sources[i]) + 1, Len(p))
      BY DEF To
    <2>2. RootFor(i)' = RootFor(i) /\ Preserves' = Preserves /\ job' = job /\ tree' = tree
      BY <1>2, <1>6 DEF Preserves
    <2>3. PlannedFrom(i, p)'
      BY <1>8, <1>9, <1>4, <2>1, <2>2, <1>10 DEF PlannedFrom
    <2> QED
      BY <2>2, <2>3, <1>5, <1>10 DEF Settled
  <1>11. WayInv'
    <2>1. CASE tree[s] = "File"
      BY <2>1, <1>1, <1>2 DEF WayInv
    <2>2. CASE tree[s] # "File"
      <3>1. stack' = <<e>> /\ tree[s] = "Directory" /\ reading' = None
        BY <2>2, <1>1, <1>2, <1>5
      <3>2. DOMAIN stack' = {1} /\ stack'[1] = e
        BY <3>1
      <3>3. at' - 1 = at
        BY <1>1, <1>2
      <3>4. OnTheWay(stack[1])'
        BY <3>1, <3>2, <3>3, <1>2, <1>4, <1>6 DEF OnTheWay
      <3> QED
        BY <3>1, <3>2, <3>3, <3>4, <1>1, <1>2 DEF WayInv
    <2> QED
      BY <2>1, <2>2
  <1>12. TakenInv'
    <2> SUFFICES ASSUME NEW i \in DOMAIN job.sources, NEW p \in DOMAIN tree,
                        i < at', IsPrefix(job.sources[i], p)
                 PROVE  Settled(i, p)' \/ (i = at' - 1 /\ Ahead(p)')
      BY <1>2 DEF TakenInv
    <2>1. i \in Nat /\ (i < at \/ i = at) /\ at' - 1 = at
      BY <1>1, <1>2, PlannerAssumption
    <2>2. CASE i < at
      <3>1. ~Ahead(p)
        BY <1>1 DEF Ahead
      <3> QED
        BY <2>2, <3>1, <1>8, SettledStays DEF TakenInv
    <2>3. CASE i = at /\ p = s
      BY <2>3, <1>10
    <2>4. CASE i = at /\ p # s
      <3>1. tree[s] # "File" /\ stack' = <<e>>
        BY <2>4, <1>2, <1>7
      <3>2. 1 \in DOMAIN stack' /\ stack'[1].source = s /\ IsStrictPrefix(s, p)
        BY <3>1, <2>4, <1>4 DEF IsStrictPrefix
      <3>3. Ahead(p)'
        BY <3>2 DEF Ahead
      <3> QED
        BY <2>1, <2>4, <3>3
    <2> QED
      BY <2>1, <2>2, <2>3, <2>4
  <1> QED
    BY <1>2, <1>11, <1>12

\* Every step keeps what is below the sources covered.
LEMMA StepCovers == PlannerInv /\ CoverInv /\ [Next]_vars => CoverInv'
  <1> SUFFICES ASSUME PlannerInv, CoverInv, [Next]_vars PROVE CoverInv'
    OBVIOUS
  <1>1. ASSUME outcome' \in {"Thrown", "Cancelled"}  PROVE  CoverInv'
    BY <1>1 DEF CoverInv
  <1>2. ASSUME outcome = "Planning", UNCHANGED outcome, WayInv', TakenInv'  PROVE  CoverInv'
    BY <1>2 DEF CoverInv
  <1>3. outcome = "Planning" => WayInv /\ TakenInv
    BY DEF CoverInv
  <1>4. CASE UNCHANGED vars
    <2>1. WayInv' = WayInv
      BY <1>4 DEF vars, WayInv, OnTheWay, To, RootFor, NameCollides, Children
    <2>2. Grows /\ UNCHANGED <<at, stack, reading, outcome>>
      BY <1>4, PlanIsLeft DEF vars
    <2>3. TakenInv => TakenInv'
      BY <2>2, WalkCovers DEF Ahead
    <2> QED
      BY <2>1, <2>2, <2>3, <1>4 DEF CoverInv, vars
  <1>5. CASE Validates
    <2>1. CASE Throws
      BY <2>1, <1>1 DEF Throws
    <2>2. CASE ~Throws
      <3>1. /\ outcome = "Planning" /\ at = 0 /\ at' = 1
            /\ UNCHANGED <<job, tree, stack, reading, plan, outcome>>
        BY <2>2, <1>5 DEF Validates, Planning
      <3>2. WayInv /\ DOMAIN job.sources \subseteq Nat \ {0}
        BY <3>1, <1>3, PlannerAssumption DEF PlannerInv, Walk
      <3>3. stack = <<>> /\ reading = None
        BY <3>1, <3>2 DEF WayInv
      <3>4. WayInv'
        BY <3>1, <3>3 DEF WayInv
      <3>5. TakenInv'
        BY <3>1, <3>2 DEF TakenInv
      <3> QED
        BY <3>1, <3>4, <3>5, <1>2
    <2> QED
      BY <2>1, <2>2
  <1>6. CASE TakesSource
    <2>1. outcome = "Planning"
      BY <1>6 DEF TakesSource, BetweenSources, Planning
    <2> QED
      BY <2>1, <1>1, <1>2, <1>3, <1>6, SourceCovers
  <1>7. CASE SizeFails \/ Cancelled
    BY <1>1, <1>7 DEF SizeFails, Cancelled, Throws
  <1>8. CASE OpensFolder
    <2>1. outcome = "Planning"
      BY <1>8 DEF OpensFolder, BetweenFolders, Planning
    <2> QED
      BY <2>1, <1>2, <1>3, <1>8, OpensCovers
  <1>9. CASE CannotOpen
    <2>1. outcome = "Planning"
      BY <1>9 DEF CannotOpen, BetweenFolders, Planning
    <2> QED
      BY <2>1, <1>1, <1>2, <1>3, <1>9, CannotOpenCovers
  <1>10. CASE TakesEntry
    <2>1. /\ outcome = "Planning" /\ reading # None
          /\ \E p \in reading.left : TakesFolder(p) \/ TakesFile(p) \/ SkipsEntry(p)
      BY <1>10 DEF TakesEntry, Planning
    <2>2. outcome' = "Thrown" \/ (WayInv' /\ TakenInv' /\ UNCHANGED outcome)
      BY <2>1, <1>3, EntryCovers
    <2> QED
      BY <2>1, <2>2, <1>1, <1>2
  <1>11. CASE LeavesFolder
    <2>1. outcome = "Planning"
      BY <1>11 DEF LeavesFolder, Planning
    <2> QED
      BY <2>1, <1>2, <1>3, <1>11, LeavesCovers
  <1>12. CASE BreaksOff
    <2>1. outcome = "Planning"
      BY <1>12 DEF BreaksOff, Planning
    <2> QED
      BY <2>1, <1>1, <1>2, <1>3, <1>12, BreaksOffCovers
  <1>13. CASE Finishes
    <2>1. /\ outcome = "Planning" /\ outcome' = "Planned" /\ stack = <<>> /\ reading = None
          /\ at > Len(job.sources)
          /\ UNCHANGED <<job, tree, at, stack, reading, plan>>
      BY <1>13 DEF Finishes, BetweenSources, Planning
    <2>2. Grows
      BY <2>1, PlanIsLeft
    <2>3. WayInv'
      BY <2>1 DEF WayInv
    <2>4. TakenInv'
      BY <2>1, <2>2, <1>3, WalkCovers DEF Ahead
    <2> QED
      BY <2>1, <2>3, <2>4 DEF CoverInv
  <1> QED
    BY <1>4, <1>5, <1>6, <1>7, <1>8, <1>9, <1>10, <1>11, <1>12, <1>13 DEF Next

\* A plan that is handed out has every file and folder of the sources, but for
\* what it says it has not: for every tree, with any folder failing to open and
\* any enumeration breaking off at any entry.
THEOREM PlanOverlooksNothing == Spec => []NothingOverlooked
  <1>1. Init => CoverInv
    BY DEF Init, CoverInv, WayInv, TakenInv
  <1>2. PlannerInv /\ CoverInv => NothingOverlooked
    <2> SUFFICES ASSUME PlannerInv, CoverInv, outcome = "Planned",
                        NEW i \in DOMAIN job.sources, NEW p \in DOMAIN tree,
                        IsPrefix(job.sources[i], p)
                 PROVE  Settled(i, p)
      BY DEF NothingOverlooked, Settled
    <2>1. TakenInv /\ stack = <<>> /\ reading = None /\ at > Len(job.sources)
      BY DEF CoverInv
    <2>2. i < at
      BY <2>1, PlannerAssumption DEF PlannerInv, Walk
    <2>3. ~Ahead(p)
      BY <2>1 DEF Ahead
    <2> QED
      BY <2>1, <2>2, <2>3 DEF TakenInv
  <1> QED
    BY <1>1, <1>2, StepCovers, PlannerInvariance, PTL DEF Spec
=============================================================================
