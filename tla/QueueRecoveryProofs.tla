------------------------- MODULE QueueRecoveryProofs -------------------------
(***************************************************************************)
(* Saved queues for any number of windows, jobs, items and processes.      *)
(*                                                                         *)
(* The windows share the recovery files.  The invariant says whose a path  *)
(* is: of the window that writes there, of the one that takes the file     *)
(* over, or on offer; what stands at a path nobody has written to yet; and *)
(* how an archive in memory relates to the file and to the window it was   *)
(* read from.  Three parts of it are invariants of their own: what stands  *)
(* in the staging file of a save, where a job is that was deferred, and    *)
(* what a save that has read half of a plan still owes.                    *)
(***************************************************************************)
EXTENDS QueueRecovery, FiniteSetTheorems, TLAPS

\* The two savers of a window, and what its thread is about to take over.
R(w) == <<w, "Recovery">>
Q(w) == <<w, "Queue">>

\* The recovery paths of the processes there have been.
Past == {p \in Session : p[1] <= boot}

\* What stands at a path that a later process reads.
Archived == [kind : {"None", "Whole"}, archive : Archive]

JobSets == [planning : SUBSET Job, deferred : SUBSET Job, queued : SUBSET Job]
Phase   == {"Idle", "Removals", "Export", "Open", "Write", "Flush", "Rename"}
Save    == [phase : Phase, path : Path \cup {None}, current : BOOLEAN, archive : Archive,
            owed : SUBSET Item]
Hand    == [phase : {"None", "Loading", "Ready", "Asking", "Adopted"},
            path : Path \cup {None}, archive : Archive]

\* The variables about transfers, and those about files.
TransferTypes ==
    /\ fresh \in SUBSET Job /\ source \in SUBSET Item /\ told \in SUBSET Item
    /\ at \in [Window -> [Item -> State]]
    /\ jobs \in [Window -> JobSets]
    /\ session \in SUBSET Window /\ live \in SUBSET session
    /\ \A w \in Window : jobs[w].planning # {} => w \in session

FileTypes ==
    /\ up \in BOOLEAN /\ boot \in Boot /\ byHand \in Nat
    /\ disk \in [Path -> Archived]
    /\ staged \in [Saver \cup Path -> File]
    /\ name \in [Window -> Past]
    /\ ending \in SUBSET Window /\ checked \in SUBSET Window
    /\ saver \in [Saver -> Save]
    /\ hand \in [Saver -> Hand]
    /\ listed \in BOOLEAN /\ offered \in Seq(Past)

\* Without a process nothing is in memory; a path not yet used has no file.
Quiet ==
    /\ ~up => /\ offered = <<>> /\ ending = {} /\ ~listed
              /\ \A s \in Saver : saver[s] = NoSave /\ hand[s] = NoHand
    /\ ~listed => offered = <<>> /\ \A w \in Window : hand[R(w)] = NoHand
    /\ \A p \in Session : p \notin Past => disk[p] = NoFile

Saving(w) == saver[R(w)].phase # "Idle"
Adopted(w) == hand[R(w)].phase = "Adopted"
Taken(w) == hand[R(w)].path

\* An archive that knows nothing of a job.
Without(a, j) == j \notin a.appends \cup a.queued /\ Content[j] \cap (a.plan \cup a.removals) = {}

NotInWindow(w, j) ==
    /\ j \notin jobs[w].planning \cup jobs[w].deferred \cup jobs[w].queued
    /\ Held(w) \cap Content[j] = {}

NotInArchives(j) ==
    /\ \A p \in Path : Without(disk[p].archive, j)
    /\ \A s \in Saver : Without(saver[s].archive, j) /\ Without(hand[s].archive, j)

\* A job nobody has asked for is nowhere.
FreshInv(j) == NotInArchives(j) /\ \A w \in Window : NotInWindow(w, j)

\* No queue is saved or loaded by hand yet.
ByHandInv ==
    /\ byHand = 0 => \A w \in Window : hand[Q(w)].phase = "None" /\ saver[Q(w)].phase = "Idle"
    /\ \A w \in Window : Saving(w) => byHand = 0

\* Until then a job that was deferred is only where it was deferred, and has
\* nothing in the plan; once the window has ended it may be in its checkpoint.
DeferredInv(w) ==
    byHand = 0 =>
        /\ jobs[w].deferred \cap (jobs[w].planning \cup jobs[w].queued) = {}
        /\ Held(w) \cap Contents(jobs[w].deferred) = {}
        /\ w \notin ending => \A j \in jobs[w].deferred :
              NotInArchives(j) /\ \A v \in Window \ {w} : NotInWindow(v, j)

\* A path is taken over by one window, or on offer once.
OfferInv ==
    /\ IsInjective(offered)
    /\ \A s \in Saver : hand[s].phase = "None" => hand[s] = NoHand
    /\ \A w \in Window :
          /\ hand[R(w)].phase # "None" => Taken(w) \in Past
          /\ hand[Q(w)].phase # "None" => hand[Q(w)].path = Queue
          /\ Taken(w) \notin ToSet(offered)
          /\ Adopted(w) => name[w] = Taken(w)
    /\ \A v, w \in Window : v # w /\ Taken(v) # None => Taken(v) # Taken(w)

\* The path of a window that is not ending is its own, and free.
NameInv ==
    up => \A w \in Window \ ending :
        /\ name[w] \notin ToSet(offered)
        /\ ~Adopted(w) => disk[name[w]] = NoFile
        /\ \A v \in Window : Taken(v) = name[w] => v = w /\ Adopted(w)
        /\ \A v \in Window \ ending : v # w => name[v] # name[w]

\* Only one checkpoint or adoption at a time; a checkpoint writes to a path
\* that is free, the archive of a window that stands still.
CheckpointInv ==
    /\ \A w \in Window : Saving(w) =>
          LET s == saver[R(w)] IN
          /\ w \in ending /\ s.path \in Past /\ disk[s.path] = NoFile
          /\ \A v \in Window : /\ Taken(v) # s.path /\ ~Adopted(v)
                               /\ v \notin ending => name[v] # s.path
                               /\ Saving(v) => v = w
          /\ s.archive.appends = jobs[w].deferred
          /\ s.archive.plan \cap Contents(s.archive.appends) = {}
    /\ \A w \in Window : saver[Q(w)].phase # "Idle" => saver[Q(w)].path = Queue
    /\ \A v, w \in Window : Adopted(v) /\ Adopted(w) => v = w

\* The files: each is whole, and its plan apart from the jobs that join it.
FileInv ==
    \A p \in Session : LET a == disk[p].archive IN
       /\ disk[p].kind = "None" => disk[p] = NoFile
       /\ a.plan \cap Contents(a.appends) = {}

\* What the windows have read of them.
ReadInv ==
    \A w \in Window : hand[R(w)].phase \in {"Ready", "Asking"} =>
       hand[R(w)].archive = Merged(disk[Taken(w)].archive)

\* What the windows have made of them.
AdoptedInv ==
    \A w \in Window : Adopted(w) => Work(disk[Taken(w)].archive) \subseteq Known

FilesInv == Quiet /\ OfferInv /\ NameInv /\ CheckpointInv

\* What a save has put into its staging file.
StagingInv ==
    \A s \in Saver :
        /\ saver[s].phase = "Flush" => staged[s] = [kind |-> "Cached", archive |-> saver[s].archive]
        /\ saver[s].phase = "Rename" => staged[s] = [kind |-> "Whole", archive |-> saver[s].archive]

\* What a save owes is in the plan it has captured; once it has read the removals
\* the copied items among it are in the archive, and at last all of it is.
Owes(s) ==
    LET a == saver[s].archive IN
    /\ IF saver[s].current THEN s[1] \in live /\ saver[s].owed \subseteq Held(s[1])
                           ELSE saver[s].owed = {}
    /\ saver[s].phase = "Export" => saver[s].owed \cap In(s[1], {"Copied"}) \subseteq a.removals
    /\ saver[s].phase \in {"Open", "Write", "Flush", "Rename"} =>
          saver[s].owed \subseteq a.plan \cup a.removals

OwedInv ==
    /\ \A w \in Window \ live : Held(w) = {}
    /\ \A s \in Saver : Owes(s)

RecoveryInv ==
    /\ TransferTypes /\ FileTypes
    /\ StagingInv /\ OwedInv
    /\ ByHandInv /\ \A w \in Window : DeferredInv(w)
    /\ \A j \in fresh : FreshInv(j)
    /\ FilesInv
    /\ FileInv /\ ReadInv /\ AdoptedInv

-----------------------------------------------------------------------------
(***************************************************************************)
(* Lemmas about the operators the model is built from.                     *)
(***************************************************************************)
\* Taking the first element of a list without repetitions: pop_front().
LEMMA TakenFromList ==
    ASSUME NEW S, NEW q \in Seq(S), q # <<>>, IsInjective(q)
    PROVE  /\ Head(q) \in S /\ Head(q) \in ToSet(q)
           /\ Tail(q) \in Seq(S) /\ IsInjective(Tail(q))
           /\ Head(q) \notin ToSet(Tail(q)) /\ ToSet(Tail(q)) \subseteq ToSet(q)
  <1>1. /\ Len(q) \in Nat \ {0} /\ Tail(q) \in Seq(S) /\ Head(q) = q[1]
        /\ DOMAIN q = 1..Len(q) /\ DOMAIN Tail(q) = 1..(Len(q) - 1)
        /\ \A i \in 1..(Len(q) - 1) : Tail(q)[i] = q[i + 1]
    OBVIOUS
  <1>2. q[1] \in S /\ 1 \in DOMAIN q
    BY <1>1
  <1>3. \A i \in DOMAIN Tail(q) : i + 1 \in DOMAIN q /\ i + 1 # 1 /\ Tail(q)[i] = q[i + 1]
    BY <1>1
  <1>4. \A i, j \in DOMAIN Tail(q) : i + 1 = j + 1 => i = j
    BY <1>1
  <1> QED
    BY <1>1, <1>2, <1>3, <1>4 DEF IsInjective, ToSet

\* Giving an element back to the front of such a list: push_front().
LEMMA GivenBackToList ==
    ASSUME NEW S, NEW q \in Seq(S), NEW x \in S, x \notin ToSet(q), IsInjective(q)
    PROVE  /\ <<x>> \o q \in Seq(S) /\ IsInjective(<<x>> \o q)
           /\ ToSet(<<x>> \o q) = ToSet(q) \cup {x}
  <1> DEFINE r == <<x>> \o q
  <1>1. /\ r \in Seq(S) /\ r[1] = x /\ Len(q) \in Nat /\ DOMAIN q = 1..Len(q)
        /\ DOMAIN r = 1..(Len(q) + 1)
        /\ \A i \in 2..(Len(q) + 1) : r[i] = q[i - 1]
    OBVIOUS
  <1> HIDE DEF r
  <1>2. \A i \in DOMAIN r : i = 1 \/ (i - 1 \in DOMAIN q /\ r[i] = q[i - 1])
    BY <1>1
  <1>3. \A i \in DOMAIN q : i + 1 \in DOMAIN r /\ r[i + 1] = q[i]
    BY <1>1
  <1>4. ToSet(r) \subseteq ToSet(q) \cup {x}
    BY <1>1, <1>2 DEF ToSet
  <1>5. ToSet(q) \cup {x} \subseteq ToSet(r)
    <2>1. 1 \in DOMAIN r
      BY <1>1
    <2> QED
      BY <1>1, <1>3, <2>1 DEF ToSet
  <1>6. ASSUME NEW i \in DOMAIN r, NEW j \in DOMAIN r, r[i] = r[j]  PROVE i = j
    <2>1. CASE i = 1 \/ j = 1
      BY <1>1, <1>2, <1>6, <2>1 DEF ToSet
    <2>2. CASE i # 1 /\ j # 1
      <3>1. i - 1 = j - 1
        BY <1>2, <1>6, <2>2 DEF IsInjective
      <3> QED
        BY <1>1, <3>1
    <2> QED
      BY <2>1, <2>2
  <1>7. IsInjective(r)
    BY <1>6 DEF IsInjective
  <1> QED
    BY <1>1, <1>4, <1>5, <1>7 DEF r

\* The recovery paths are finitely many, so that they can be listed.
LEMMA PathsListed ==
    ASSUME NEW S \in SUBSET Session, NEW q \in SetToSeqs(S)
    PROVE  q \in Seq(S) /\ IsInjective(q)
  <1>1. IsFiniteSet(Session)
    <2>1. IsFiniteSet(Boot)
      BY FS_Interval, RecoveryAssumption DEF Boot
    <2> QED
      BY <2>1, FS_Product, RecoveryAssumption DEF Session
  <1>2. Cardinality(S) \in Nat
    BY <1>1, FS_Subset, FS_CardinalityType
  <1> DEFINE n == Cardinality(S)
  <1>3. n \in Nat /\ q \in [1..n -> S] /\ \A i, j \in 1..n : i # j => q[i] # q[j]
    BY <1>2 DEF SetToSeqs
  <1> HIDE DEF n
  <1> QED
    BY <1>3 DEF IsInjective

\* Where recovery files stand.
LEMMA PathFacts ==
    /\ Queue \in Path /\ Queue \notin Session /\ Session \subseteq Path
    /\ None \notin Session /\ Past \subseteq Session
    /\ \A w \in Window : R(w) \in Saver /\ Q(w) \in Saver
    /\ \A v, w \in Window : (R(v) = R(w) => v = w) /\ (Q(v) = Q(w) => v = w) /\ R(v) # Q(w)
    /\ \A s \in Saver : s[1] \in Window /\ (s = R(s[1]) \/ s = Q(s[1]))
    /\ \A w \in Window : R(w)[1] = w /\ R(w)[2] = "Recovery" /\ Q(w)[1] = w /\ Q(w)[2] = "Queue"
  BY RecoveryAssumption DEF Queue, Path, Session, Boot, Past, Saver, R, Q

\* The items of the jobs that follow are told apart by their jobs.
LEMMA ContentFacts ==
    /\ \A j \in Job : Content[j] \in SUBSET Item
    /\ \A js \in SUBSET Job : Contents(js) \in SUBSET Item
    /\ \A j \in Job : \A js \in SUBSET Job : j \notin js => Content[j] \cap Contents(js) = {}
    /\ \A js, ks \in SUBSET Job : Contents(js \cup ks) = Contents(js) \cup Contents(ks)
    /\ Contents({}) = {}
  BY RecoveryAssumption DEF Contents

\* The members of an archive, and the empty one.
LEMMA ArchiveFacts ==
    /\ Nothing \in Archive
    /\ \A a \in Archive : /\ Merged(a) \in Archive
                          /\ Merged(a).plan = a.plan \cup Contents(a.appends)
                          /\ Merged(a).removals = a.removals
                          /\ Merged(a).appends = {} /\ Merged(a).queued = a.queued
                          /\ Work(Merged(a)) = Work(a)
                          /\ Work(a) \in SUBSET Item
    /\ Work(Nothing) = {}
  <1>1. Nothing \in Archive /\ Work(Nothing) = {}
    BY ContentFacts DEF Nothing, Archive, Work, Contents
  <1>2. ASSUME NEW a \in Archive
        PROVE  /\ Merged(a) \in Archive
               /\ Merged(a).plan = a.plan \cup Contents(a.appends)
               /\ Merged(a).removals = a.removals
               /\ Merged(a).appends = {} /\ Merged(a).queued = a.queued
    BY ContentFacts DEF Archive, Merged
  <1>3. ASSUME NEW a \in Archive
        PROVE  Work(Merged(a)) = Work(a) /\ Work(a) \in SUBSET Item
    <2>1. a.appends \in SUBSET Job /\ a.queued \in SUBSET Job /\ {} \in SUBSET Job
          /\ a.plan \in SUBSET Item /\ a.removals \in SUBSET Item
      BY DEF Archive
    <2>2. Contents(a.appends \cup a.queued) = Contents(a.appends) \cup Contents(a.queued)
          /\ Contents(a.appends) \in SUBSET Item /\ Contents(a.queued) \in SUBSET Item
      BY <2>1, ContentFacts
    <2>3. Contents({} \cup a.queued) = Contents(a.queued)
      OBVIOUS
    <2> QED
      BY <1>2, <2>1, <2>2, <2>3 DEF Work
  <1> QED
    BY <1>1, <1>2, <1>3

-----------------------------------------------------------------------------
(***************************************************************************)
(* What the steps do to the savers and to what is about to be taken over.  *)
(***************************************************************************)
\* A save begins with the jobs of the window, and owes what is in its plan.
LEMMA StartsDoes ==
    ASSUME TransferTypes, FileTypes, NEW s \in Saver, NEW path \in Path, Starts(s, path)
    PROVE  /\ saver' \in [Saver -> Save]
           /\ \A t \in Saver \ {s} : saver'[t] = saver[t]
           /\ saver'[s].phase = "Removals" /\ saver'[s].path = path
           /\ saver'[s].current = (s[1] \in live) /\ saver'[s].owed = Held(s[1])
           /\ saver'[s].archive.plan = {} /\ saver'[s].archive.removals = {}
           /\ saver'[s].archive.appends = jobs[s[1]].deferred
           /\ saver'[s].archive.queued = jobs[s[1]].queued
  <1> DEFINE a == [Nothing EXCEPT !.appends = jobs[s[1]].deferred, !.queued = jobs[s[1]].queued]
             c == s[1] \in live
             h == Held(s[1])
             r == [phase |-> "Removals", path |-> path, current |-> c, owed |-> h, archive |-> a]
  <1>1. s[1] \in Window
    BY PathFacts
  <1>2. jobs[s[1]].deferred \in SUBSET Job /\ jobs[s[1]].queued \in SUBSET Job
        /\ c \in BOOLEAN /\ h \in SUBSET Item
    BY <1>1 DEF TransferTypes, JobSets, Held, In
  <1>3. /\ a \in Archive /\ a.plan = {} /\ a.removals = {}
        /\ a.appends = jobs[s[1]].deferred /\ a.queued = jobs[s[1]].queued
    BY <1>2 DEF Nothing, Archive
  <1>4. saver' = [saver EXCEPT ![s] = r]
    BY DEF Starts
  <1> HIDE DEF a, c, h
  <1>5. r \in Save
    BY <1>2, <1>3 DEF Save, Phase
  <1>6. r.phase = "Removals" /\ r.path = path /\ r.current = c /\ r.owed = h /\ r.archive = a
    OBVIOUS
  <1> HIDE DEF r
  <1>7. /\ saver'[s] = r /\ saver' \in [Saver -> Save]
        /\ \A t \in Saver \ {s} : saver'[t] = saver[t]
    BY <1>4, <1>5 DEF FileTypes
  <1> QED
    BY <1>3, <1>6, <1>7 DEF a, c, h

\* What a save captures of the plan is in it.
LEMMA CapturedFacts ==
    ASSUME NEW s \in Saver, NEW states \in SUBSET (State \ {"Out"})
    PROVE  /\ Captured(s, states) \in SUBSET Item
           /\ Captured(s, states) \subseteq Held(s[1])
  BY DEF Captured, Held, In

\* The steps of a save between its first and its last.
GoesOn(s) ==
    ReadRemovals(s) \/ ExportPlan(s) \/ OpenStaging(s) \/ WriteStaging(s) \/ FlushStaging(s)

Finishes(s) == RetireEmpty(s) \/ RenameStaged(s) \/ SaveFails(s)

\* A step of a save changes what is read, written or flushed, and nothing else.
LEMMA GoesOnDoes ==
    ASSUME FileTypes, NEW s \in Saver, GoesOn(s)
    PROVE  /\ saver' \in [Saver -> Save]
           /\ \A t \in Saver \ {s} : saver'[t] = saver[t]
           /\ saver'[s].path = saver[s].path /\ saver'[s].current = saver[s].current
           /\ saver'[s].owed = saver[s].owed
           /\ saver'[s].archive.appends = saver[s].archive.appends
           /\ saver'[s].archive.queued = saver[s].archive.queued
           /\ saver[s].phase # "Idle"
           /\ \/ /\ saver[s].phase = "Removals" /\ saver'[s].phase = "Export"
                 /\ saver'[s].archive.removals = Captured(s, {"Copied"})
                 /\ saver'[s].archive.plan = saver[s].archive.plan
              \/ /\ saver[s].phase = "Export" /\ saver'[s].phase = "Open"
                 /\ saver'[s].archive.plan = Exported(s)
                 /\ saver'[s].archive.removals = saver[s].archive.removals
              \/ /\ <<saver[s].phase, saver'[s].phase>> \in
                       {<<"Open", "Write">>, <<"Write", "Flush">>, <<"Flush", "Rename">>}
                 /\ saver'[s].archive = saver[s].archive
  <1> DEFINE r == saver[s]
             a == r.archive
             Becomes(u) == /\ saver'[s] = u /\ saver' \in [Saver -> Save]
                           /\ \A t \in Saver \ {s} : saver'[t] = saver[t]
  <1>1. r \in Save /\ s[1] \in Window
    BY PathFacts DEF FileTypes
  <1>2. /\ a \in Archive
        /\ Captured(s, {"Copied"}) \in SUBSET Item /\ Exported(s) \in SUBSET Item
    BY <1>1, CapturedFacts DEF Save, Exported, State
  <1>3. ASSUME NEW u \in Save, saver' = [saver EXCEPT ![s] = u]  PROVE Becomes(u)
    BY <1>3 DEF FileTypes
  <1> HIDE DEF Becomes
  <1>4. CASE ReadRemovals(s)
    <2> DEFINE b == [a EXCEPT !.removals = Captured(s, {"Copied"})]
               u == [r EXCEPT !.phase = "Export", !.archive = b]
    <2>1. /\ b \in Archive /\ b.removals = Captured(s, {"Copied"}) /\ b.plan = a.plan
          /\ b.appends = a.appends /\ b.queued = a.queued
      BY <1>2 DEF Archive
    <2>2. saver' = [saver EXCEPT ![s] = u] /\ saver[s].phase = "Removals"
      BY <1>4, <1>1, <1>2 DEF ReadRemovals, At, Save, Archive, FileTypes
    <2> HIDE DEF b
    <2>3. u \in Save /\ u.archive = b /\ u.phase = "Export" /\ u.path = r.path
          /\ u.current = r.current /\ u.owed = r.owed
      BY <1>1, <2>1 DEF Save, Phase
    <2> HIDE DEF u
    <2> QED
      BY <1>3, <2>1, <2>2, <2>3 DEF Becomes
  <1>5. CASE ExportPlan(s)
    <2> DEFINE b == [a EXCEPT !.plan = Exported(s)]
               u == [r EXCEPT !.phase = "Open", !.archive = b]
    <2>1. /\ b \in Archive /\ b.removals = a.removals /\ b.plan = Exported(s)
          /\ b.appends = a.appends /\ b.queued = a.queued
      BY <1>2 DEF Archive
    <2>2. saver' = [saver EXCEPT ![s] = u] /\ saver[s].phase = "Export"
      BY <1>5, <1>1, <1>2 DEF ExportPlan, At, Save, Archive, FileTypes
    <2> HIDE DEF b
    <2>3. u \in Save /\ u.archive = b /\ u.phase = "Open" /\ u.path = r.path
          /\ u.current = r.current /\ u.owed = r.owed
      BY <1>1, <2>1 DEF Save, Phase
    <2> HIDE DEF u
    <2> QED
      BY <1>3, <2>1, <2>2, <2>3 DEF Becomes
  <1>6. CASE OpenStaging(s) \/ WriteStaging(s) \/ FlushStaging(s)
    <2>1. PICK f \in Phase : /\ saver' = [saver EXCEPT ![s].phase = f]
                             /\ <<saver[s].phase, f>> \in
                                   {<<"Open", "Write">>, <<"Write", "Flush">>, <<"Flush", "Rename">>}
      BY <1>6 DEF OpenStaging, WriteStaging, FlushStaging, At, Phase
    <2> DEFINE u == [r EXCEPT !.phase = f]
    <2>2. u \in Save /\ u.archive = a /\ u.phase = f /\ u.path = r.path
          /\ u.current = r.current /\ u.owed = r.owed
      BY <1>1 DEF Save
    <2>3. saver' = [saver EXCEPT ![s] = u]
      BY <2>1
    <2> HIDE DEF u
    <2>4. Becomes(u)
      BY <1>3, <2>2, <2>3
    <2>5. saver[s].phase # "Idle"
      BY <2>1
    <2> QED
      BY <2>1, <2>2, <2>4, <2>5 DEF Becomes
  <1> QED
    BY <1>4, <1>5, <1>6 DEF GoesOn

\* A save ends.
LEMMA SaveEnds ==
    ASSUME FileTypes, NEW s \in Saver, Finishes(s)
    PROVE  /\ saver' \in [Saver -> Save]
           /\ \A t \in Saver \ {s} : saver'[t] = saver[t]
           /\ saver'[s] = NoSave /\ NoSave.phase = "Idle" /\ NoSave.archive = Nothing
           /\ saver[s].phase # "Idle" /\ saver[s].path \in Path \cup {None}
           /\ saver[s].archive \in Archive
  <1>1. NoSave \in Save /\ NoSave.phase = "Idle" /\ NoSave.archive = Nothing
    BY ArchiveFacts DEF NoSave, Save, Phase
  <1>2. saver' = [saver EXCEPT ![s] = NoSave] /\ saver[s].phase # "Idle"
    BY DEF Finishes, RetireEmpty, RenameStaged, SaveFails, At
  <1> QED
    BY <1>1, <1>2 DEF FileTypes, Save

\* What a save has read and where it goes stays as it is.
SavedAs(s) == /\ saver'[s].phase = saver[s].phase /\ saver'[s].path = saver[s].path
              /\ saver'[s].archive = saver[s].archive

\* What a worker does to an item changes what the saves owe.
LEMMA ForgetsDoes ==
    ASSUME FileTypes, NEW w \in Window, NEW i \in Item, NEW gone \in BOOLEAN, Forgets(w, i, gone)
    PROVE  /\ saver' \in [Saver -> Save]
           /\ \A s \in Saver :
                 /\ SavedAs(s) /\ saver'[s].current = saver[s].current
                 /\ saver'[s].owed =
                       IF s[1] = w /\ saver[s].current /\ (gone \/ saver[s].phase = "Export")
                       THEN saver[s].owed \ {i} ELSE saver[s].owed
  <1> DEFINE C(s) == s[1] = w /\ saver[s].current /\ (gone \/ saver[s].phase = "Export")
             Less(r) == [r EXCEPT !.owed = r.owed \ {i}]
             New(s) == IF C(s) THEN Less(saver[s]) ELSE saver[s]
  <1>1. \A s \in Saver : saver[s] \in Save
    BY DEF FileTypes
  <1>2. \A r \in Save : /\ Less(r) \in Save /\ Less(r).owed = r.owed \ {i}
                        /\ Less(r).phase = r.phase /\ Less(r).path = r.path
                        /\ Less(r).archive = r.archive /\ Less(r).current = r.current
    BY DEF Save
  <1>3. saver' = [s \in Saver |-> New(s)]
    BY DEF Forgets
  <1> HIDE DEF Less
  <1>4. \A s \in Saver : New(s) \in Save
    BY <1>1, <1>2
  <1>5. \A s \in Saver : saver'[s] = New(s)
    BY <1>3
  <1>6. ASSUME NEW s \in Saver
        PROVE  /\ SavedAs(s) /\ saver'[s].current = saver[s].current
               /\ saver'[s].owed = IF C(s) THEN saver[s].owed \ {i} ELSE saver[s].owed
    <2> HIDE DEF C
    <2>1. CASE C(s)
      BY <1>1, <1>2, <1>5, <2>1 DEF SavedAs
    <2>2. CASE ~C(s)
      BY <1>1, <1>2, <1>5, <2>2 DEF SavedAs
    <2> QED
      BY <2>1, <2>2
  <1> QED
    BY <1>3, <1>4, <1>6

\* Nothing is left in a plan that the window lets go of.
LEMMA LetsGoDoes ==
    ASSUME FileTypes, NEW w \in Window, NextSession(w)
    PROVE  /\ saver' \in [Saver -> Save]
           /\ \A s \in Saver :
                 /\ SavedAs(s) /\ saver'[s].owed = saver[s].owed
                 /\ saver'[s].current = (saver[s].current /\ s[1] # w)
  <1> DEFINE Gone(r) == [r EXCEPT !.current = FALSE]
             New(s) == IF s[1] = w THEN Gone(saver[s]) ELSE saver[s]
  <1>1. \A s \in Saver : saver[s] \in Save
    BY DEF FileTypes
  <1>2. \A r \in Save : /\ Gone(r) \in Save /\ Gone(r).current = FALSE
                        /\ Gone(r).phase = r.phase /\ Gone(r).path = r.path
                        /\ Gone(r).archive = r.archive /\ Gone(r).owed = r.owed
                        /\ r.current \in BOOLEAN
    BY DEF Save
  <1>3. saver' = [s \in Saver |-> New(s)]
    BY DEF NextSession
  <1> HIDE DEF Gone
  <1>4. \A s \in Saver : New(s) \in Save
    BY <1>1, <1>2
  <1>5. \A s \in Saver : saver'[s] = New(s)
    BY <1>3
  <1>6. ASSUME NEW s \in Saver
        PROVE  /\ SavedAs(s) /\ saver'[s].owed = saver[s].owed
               /\ saver'[s].current = (saver[s].current /\ s[1] # w)
    BY <1>1, <1>2, <1>5 DEF SavedAs
  <1> QED
    BY <1>3, <1>4, <1>6

\* NoHand and NoFile.
LEMMA NoFacts ==
    /\ NoHand \in Hand /\ NoHand.phase = "None" /\ NoHand.path = None /\ NoHand.archive = Nothing
    /\ NoFile \in Archived /\ NoFile \in File /\ NoFile.kind = "None" /\ NoFile.archive = Nothing
    /\ NoSave \in Save /\ NoSave.phase = "Idle" /\ NoSave.archive = Nothing
  BY ArchiveFacts DEF NoHand, NoFile, NoSave, Hand, File, Archived, Save, Phase

\* A file is taken from the offer, or picked: it is being loaded.
LEMMA LoadingDoes ==
    ASSUME FileTypes, NEW s \in Saver, NEW p \in Path,
           hand' = [hand EXCEPT ![s] = [NoHand EXCEPT !.phase = "Loading", !.path = p]]
    PROVE  /\ hand' \in [Saver -> Hand] /\ \A t \in Saver \ {s} : hand'[t] = hand[t]
           /\ hand'[s].phase = "Loading" /\ hand'[s].path = p /\ hand'[s].archive = Nothing
  <1> DEFINE r == [NoHand EXCEPT !.phase = "Loading", !.path = p]
  <1>1. r \in Hand /\ r.phase = "Loading" /\ r.path = p /\ r.archive = Nothing
    BY ArchiveFacts DEF NoHand, Hand
  <1> HIDE DEF r
  <1> QED
    BY <1>1 DEF FileTypes, r

\* It goes on to another phase.
LEMMA PhaseDoes ==
    ASSUME FileTypes, NEW s \in Saver, NEW f \in {"Ready", "Asking", "Adopted"},
           hand' = [hand EXCEPT ![s].phase = f]
    PROVE  /\ hand' \in [Saver -> Hand] /\ \A t \in Saver \ {s} : hand'[t] = hand[t]
           /\ hand'[s].phase = f /\ hand'[s].path = hand[s].path
           /\ hand'[s].archive = hand[s].archive
  <1> DEFINE old == hand[s]
             r == [old EXCEPT !.phase = f]
  <1>1. old \in Hand
    BY DEF FileTypes
  <1>2. r \in Hand /\ r.phase = f /\ r.path = old.path /\ r.archive = old.archive
    BY <1>1 DEF Hand
  <1>3. hand' = [hand EXCEPT ![s] = r]
    OBVIOUS
  <1> HIDE DEF r
  <1> QED
    BY <1>2, <1>3 DEF FileTypes

\* It was read and found usable.
LEMMA LoadFindsDoes ==
    ASSUME FileTypes, NEW s \in Saver, LoadFinds(s), hand[s].path \in Path
    PROVE  /\ hand' \in [Saver -> Hand] /\ \A t \in Saver \ {s} : hand'[t] = hand[t]
           /\ hand'[s].phase = "Ready" /\ hand'[s].path = hand[s].path
           /\ hand'[s].archive = Merged(disk[hand[s].path].archive)
           /\ disk[hand[s].path].archive \in Archive
  <1> DEFINE old == hand[s]
             a == Merged(disk[hand[s].path].archive)
             r == [old EXCEPT !.phase = "Ready", !.archive = a]
  <1>1. old \in Hand /\ a \in Archive /\ disk[hand[s].path].archive \in Archive
    BY ArchiveFacts DEF FileTypes, Archived
  <1>2. hand' = [hand EXCEPT ![s] = r]
    BY DEF LoadFinds, Read
  <1> HIDE DEF a
  <1>3. r \in Hand /\ r.phase = "Ready" /\ r.path = old.path /\ r.archive = a
    BY <1>1 DEF Hand
  <1> HIDE DEF r
  <1> QED
    BY <1>1, <1>2, <1>3 DEF FileTypes, a

\* It is no longer with the window.
LEMMA LetGoDoes ==
    ASSUME FileTypes, NEW s \in Saver, hand' = [hand EXCEPT ![s] = NoHand]
    PROVE  /\ hand' \in [Saver -> Hand] /\ \A t \in Saver \ {s} : hand'[t] = hand[t]
           /\ hand'[s] = NoHand
  BY NoFacts DEF FileTypes

-----------------------------------------------------------------------------
(***************************************************************************)
(* The types of the variables about transfers.                             *)
(***************************************************************************)
\* What a window holds are items.
LEMMA HeldTypes ==
    ASSUME TransferTypes, NEW w \in Window
    PROVE  /\ Held(w) \in SUBSET Item /\ jobs[w] \in JobSets /\ at[w] \in [Item -> State]
           /\ jobs[w].planning \in SUBSET Job /\ jobs[w].deferred \in SUBSET Job
           /\ jobs[w].queued \in SUBSET Job
  BY DEF TransferTypes, JobSets, Held, In

\* A window's jobs change, those of the others do not.
LEMMA JobsDo ==
    ASSUME TransferTypes, NEW w \in Window, NEW row \in JobSets,
           jobs' = [jobs EXCEPT ![w] = row]
    PROVE  /\ jobs' \in [Window -> JobSets]
           /\ \A v \in Window \ {w} : jobs'[v] = jobs[v]
           /\ jobs'[w] = row
  BY DEF TransferTypes, JobSets

\* So do its items.
LEMMA ItemsDo ==
    ASSUME TransferTypes, NEW w \in Window, NEW row \in [Item -> State],
           at' = [at EXCEPT ![w] = row]
    PROVE  /\ at' \in [Window -> [Item -> State]]
           /\ \A v \in Window \ {w} : at'[v] = at[v]
           /\ at'[w] = row
  BY DEF TransferTypes

\* The types after a change of one window's jobs.
LEMMA TypesDo ==
    ASSUME TransferTypes, fresh' \in SUBSET Job, source' \in SUBSET Item, told' \in SUBSET Item,
           at' \in [Window -> [Item -> State]], jobs' \in [Window -> JobSets],
           session' \in SUBSET Window, live' \in SUBSET session',
           NEW w \in Window, \A v \in Window \ {w} : /\ jobs'[v] = jobs[v]
                                                     /\ v \in session => v \in session',
           jobs'[w].planning # {} => w \in session'
    PROVE  TransferTypes'
  BY DEF TransferTypes

\* Submit() finds the window idle or not.
LEMMA SubmitDoes ==
    ASSUME TransferTypes, NEW w \in Window, NEW j \in Job, Submit(w, j)
    PROVE  /\ TransferTypes'
           /\ \A v \in Window \ {w} : jobs'[v] = jobs[v]
           /\ at' = at /\ live' = live /\ session \subseteq session'
           /\ jobs'[w].planning \in {jobs[w].planning, jobs[w].planning \cup {j}}
           /\ jobs'[w].deferred \in {jobs[w].deferred, jobs[w].deferred \cup {j}}
           /\ jobs'[w].queued \in {jobs[w].queued, jobs[w].queued \cup {j}}
           /\ jobs'[w].deferred # jobs[w].deferred =>
                 jobs'[w].planning = jobs[w].planning /\ jobs'[w].queued = jobs[w].queued
  <1> DEFINE p == jobs[w].planning
             d == jobs[w].deferred
             q == jobs[w].queued
             old == jobs[w]
             plans == [old EXCEPT !.planning = p \cup {j}]
             waits == [old EXCEPT !.deferred = d \cup {j}]
             queues == [old EXCEPT !.queued = q \cup {j}]
  <1>1. p \in SUBSET Job /\ d \in SUBSET Job /\ q \in SUBSET Job /\ old \in JobSets
    BY HeldTypes
  <1>2. /\ fresh' \in SUBSET Job /\ UNCHANGED <<source, told, at, live>>
        /\ session' \in {session, session \cup {w}}
    BY DEF Submit, TransferTypes
  <1>3. /\ plans \in JobSets /\ plans.planning = p \cup {j} /\ plans.deferred = d /\ plans.queued = q
        /\ waits \in JobSets /\ waits.planning = p /\ waits.deferred = d \cup {j} /\ waits.queued = q
        /\ queues \in JobSets /\ queues.planning = p /\ queues.deferred = d
        /\ queues.queued = q \cup {j}
    BY <1>1 DEF JobSets
  <1>4. \/ jobs' = [jobs EXCEPT ![w] = plans] /\ w \in session'
        \/ jobs' = [jobs EXCEPT ![w] = waits]
        \/ jobs' = [jobs EXCEPT ![w] = queues]
    <2>1. CASE Idle(w)
      <3>1. p = {} /\ jobs' = [jobs EXCEPT ![w].planning = {j}] /\ session' = session \cup {w}
        BY <2>1 DEF Submit, Idle
      <3>2. {j} = p \cup {j}
        BY <3>1
      <3> QED
        BY <3>1, <3>2
    <2>2. CASE ~Idle(w)
      BY <2>2 DEF Submit, TransferTypes
    <2> QED
      BY <2>1, <2>2
  <1> HIDE DEF plans, waits, queues
  <1>5. PICK row \in {plans, waits, queues} :
           /\ jobs' = [jobs EXCEPT ![w] = row]
           /\ row = plans => w \in session'
    <2>1. CASE plans = waits \/ plans = queues
      <3>1. p \cup {j} = p
        BY <1>3, <2>1
      <3>2. w \in session
        BY <3>1 DEF TransferTypes
      <3> QED
        BY <1>2, <1>4, <3>2
    <2>2. CASE plans # waits /\ plans # queues
      BY <1>4, <2>2
    <2> QED
      BY <2>1, <2>2
  <1>6. /\ jobs' \in [Window -> JobSets] /\ jobs'[w] = row
        /\ \A v \in Window \ {w} : jobs'[v] = jobs[v]
    BY <1>3, <1>5, JobsDo
  <1>7. jobs'[w].planning # {} => w \in session'
    <2>1. CASE row = plans
      BY <1>5, <2>1
    <2>2. CASE row # plans
      BY <1>2, <1>3, <1>5, <1>6, <2>2 DEF TransferTypes
    <2> QED
      BY <2>1, <2>2
  <1>8. TransferTypes'
    BY <1>2, <1>6, <1>7, TypesDo DEF TransferTypes
  <1> QED
    BY <1>2, <1>3, <1>5, <1>6, <1>8

\* The items of a job join a plan they are not in.
LEMMA PendsDoes ==
    ASSUME TransferTypes, NEW w \in Window, NEW j \in Job, Joins(w, j), Pends(w, j)
    PROVE  /\ Content[j] \subseteq source /\ Content[j] \cap Held(w) = {}
           /\ at' \in [Window -> [Item -> State]]
           /\ \A v \in Window \ {w} : at'[v] = at[v]
           /\ \A i \in Item : at'[w][i] = IF i \in Content[j] THEN "Pending" ELSE at[w][i]
  <1> DEFINE items == [i \in Item |-> IF i \in Content[j] THEN "Pending" ELSE at[w][i]]
  <1>1. items \in [Item -> State]
    BY HeldTypes DEF State
  <1>2. at' = [at EXCEPT ![w] = items]
    BY DEF Pends, TransferTypes
  <1>3. \A i \in Item : items[i] = IF i \in Content[j] THEN "Pending" ELSE at[w][i]
    OBVIOUS
  <1> HIDE DEF items
  <1>4. at' \in [Window -> [Item -> State]] /\ (\A v \in Window \ {w} : at'[v] = at[v])
        /\ at'[w] = items
    BY <1>1, <1>2, ItemsDo
  <1>5. Content[j] \subseteq source /\ Content[j] \cap Held(w) = {}
    BY DEF Joins
  <1> QED
    BY <1>3, <1>4, <1>5

\* What planning does with the items of a job.
Joined(w, j) ==
    \/ /\ Content[j] \subseteq source /\ Content[j] \cap Held(w) = {}
       /\ \A i \in Item : at'[w][i] = IF i \in Content[j] THEN "Pending" ELSE at[w][i]
       /\ told' = told /\ w \in live'
    \/ at' = at /\ live' = live /\ told' = told \cup Content[j]

\* The first plan of a session takes up what was deferred, or the person hears
\* of it and what was deferred is queued.
LEMMA PublishedDoes ==
    ASSUME TransferTypes, NEW w \in Window, NEW j \in Job, Published(w, j)
    PROVE  /\ TransferTypes' /\ Joined(w, j) /\ session' = session
           /\ live' \in {live, live \cup {w}}
           /\ \A v \in Window \ {w} : jobs'[v] = jobs[v] /\ at'[v] = at[v]
           /\ j \in jobs[w].planning /\ jobs'[w].deferred = {}
           /\ jobs'[w].planning \cup jobs'[w].queued =
                 (jobs[w].planning \ {j}) \cup jobs[w].deferred \cup jobs[w].queued
  <1> DEFINE p == jobs[w].planning
             d == jobs[w].deferred
             q == jobs[w].queued
             old == jobs[w]
             goes == [old EXCEPT !.planning = (p \ {j}) \cup d, !.deferred = {}]
             fails == [old EXCEPT !.planning = p \ {j}, !.deferred = {}, !.queued = q \cup d]
  <1>1. /\ p \in SUBSET Job /\ d \in SUBSET Job /\ q \in SUBSET Job /\ jobs[w] \in JobSets
        /\ UNCHANGED <<fresh, source, session>> /\ j \in p /\ Content[j] \in SUBSET Item
        /\ w \in session
    BY HeldTypes, ContentFacts DEF Published, TransferTypes
  <1>2. /\ goes \in JobSets /\ goes.planning = (p \ {j}) \cup d /\ goes.deferred = {}
        /\ goes.queued = q
        /\ fails \in JobSets /\ fails.planning = p \ {j} /\ fails.deferred = {}
        /\ fails.queued = q \cup d
    BY <1>1 DEF JobSets
  <1>3. ASSUME NEW row \in {goes, fails}, jobs' = [jobs EXCEPT ![w] = row]
        PROVE  /\ jobs' \in [Window -> JobSets] /\ jobs'[w] = row
               /\ \A v \in Window \ {w} : jobs'[v] = jobs[v]
    <2>1. row \in JobSets
      BY <1>2
    <2> HIDE DEF goes, fails
    <2> QED
      BY <1>3, <2>1, JobsDo
  <1>4. CASE Joins(w, j)
    <2>1. /\ Pends(w, j) /\ live' = live \cup {w} /\ told' = told
          /\ jobs' = [jobs EXCEPT ![w].planning = (@ \ {j}) \cup jobs[w].deferred, ![w].deferred = {}]
      BY <1>4 DEF Published
    <2>2. jobs' = [jobs EXCEPT ![w] = goes]
      BY <2>1 DEF TransferTypes
    <2>3. /\ jobs' \in [Window -> JobSets] /\ jobs'[w] = goes
          /\ \A v \in Window \ {w} : jobs'[v] = jobs[v]
      BY <1>3, <2>2
    <2> HIDE DEF goes, fails
    <2>4. /\ Content[j] \subseteq source /\ Content[j] \cap Held(w) = {}
          /\ at' \in [Window -> [Item -> State]]
          /\ \A v \in Window \ {w} : at'[v] = at[v]
          /\ \A i \in Item : at'[w][i] = IF i \in Content[j] THEN "Pending" ELSE at[w][i]
      BY <1>4, <2>1, PendsDoes
    <2>5. TransferTypes'
      BY <1>1, <2>1, <2>3, <2>4, TypesDo DEF TransferTypes
    <2>6. Joined(w, j)
      BY <2>1, <2>4 DEF Joined
    <2> QED
      BY <1>1, <1>2, <2>1, <2>3, <2>4, <2>5, <2>6
  <1>5. CASE ~Joins(w, j)
    <2>1. /\ at' = at /\ live' = live /\ told' = told \cup Content[j]
          /\ jobs' = [jobs EXCEPT ![w].planning = @ \ {j}, ![w].deferred = {},
                                  ![w].queued = @ \cup jobs[w].deferred]
      BY <1>5 DEF Published
    <2>2. jobs' = [jobs EXCEPT ![w] = fails]
      BY <2>1 DEF TransferTypes
    <2>3. /\ jobs' \in [Window -> JobSets] /\ jobs'[w] = fails
          /\ \A v \in Window \ {w} : jobs'[v] = jobs[v]
      BY <1>3, <2>2
    <2> HIDE DEF goes, fails
    <2>4. TransferTypes'
      BY <1>1, <2>1, <2>3, TypesDo DEF TransferTypes
    <2>5. Joined(w, j)
      BY <2>1 DEF Joined
    <2> QED
      BY <1>1, <1>2, <2>1, <2>3, <2>4, <2>5
  <1> QED
    BY <1>4, <1>5

\* A job that is appended joins the plan, or the person hears of it.
LEMMA PlannedDoes ==
    ASSUME TransferTypes, NEW w \in Window, NEW j \in Job, Planned(w, j)
    PROVE  /\ TransferTypes' /\ Joined(w, j) /\ session' = session /\ live' = live
           /\ \A v \in Window \ {w} : jobs'[v] = jobs[v] /\ at'[v] = at[v]
           /\ j \in jobs[w].planning /\ jobs'[w].planning = jobs[w].planning \ {j}
           /\ jobs'[w].deferred = jobs[w].deferred /\ jobs'[w].queued = jobs[w].queued
  <1> DEFINE p == jobs[w].planning
             old == jobs[w]
             row == [old EXCEPT !.planning = p \ {j}]
  <1>1. /\ p \in SUBSET Job /\ jobs[w] \in JobSets
        /\ UNCHANGED <<fresh, source, session, live>> /\ w \in live
        /\ j \in p /\ Content[j] \in SUBSET Item
    BY HeldTypes, ContentFacts DEF Planned
  <1>2. /\ row \in JobSets /\ row.planning = p \ {j} /\ row.deferred = jobs[w].deferred
        /\ row.queued = jobs[w].queued
    BY <1>1 DEF JobSets
  <1>3. jobs' = [jobs EXCEPT ![w] = row]
    BY DEF Planned
  <1> HIDE DEF row
  <1>4. /\ jobs' \in [Window -> JobSets] /\ jobs'[w] = row
        /\ \A v \in Window \ {w} : jobs'[v] = jobs[v]
    BY <1>2, <1>3, JobsDo
  <1>5. w \in session
    BY <1>1 DEF TransferTypes
  <1>6. CASE Joins(w, j)
    <2>1. Pends(w, j) /\ told' = told
      BY <1>6 DEF Planned
    <2>2. /\ Content[j] \subseteq source /\ Content[j] \cap Held(w) = {}
          /\ at' \in [Window -> [Item -> State]]
          /\ \A v \in Window \ {w} : at'[v] = at[v]
          /\ \A i \in Item : at'[w][i] = IF i \in Content[j] THEN "Pending" ELSE at[w][i]
      BY <1>6, <2>1, PendsDoes
    <2>3. TransferTypes'
      BY <1>1, <1>4, <1>5, <2>1, <2>2, TypesDo DEF TransferTypes
    <2>4. Joined(w, j)
      BY <1>1, <2>1, <2>2 DEF Joined
    <2> QED
      BY <1>1, <1>2, <1>4, <2>2, <2>3, <2>4
  <1>7. CASE ~Joins(w, j)
    <2>1. at' = at /\ told' = told \cup Content[j]
      BY <1>7 DEF Planned
    <2>2. TransferTypes'
      BY <1>1, <1>4, <1>5, <2>1, TypesDo DEF TransferTypes
    <2>3. Joined(w, j)
      BY <1>1, <2>1 DEF Joined
    <2> QED
      BY <1>1, <1>2, <1>4, <2>1, <2>2, <2>3
  <1> QED
    BY <1>6, <1>7

\* What was deferred is planned.
LEMMA TakesDeferredDoes ==
    ASSUME TransferTypes, NEW w \in Window, TakesDeferred(w)
    PROVE  /\ TransferTypes' /\ UNCHANGED <<at, live, session, told>>
           /\ \A v \in Window \ {w} : jobs'[v] = jobs[v]
           /\ jobs'[w].planning = jobs[w].planning \cup jobs[w].deferred
           /\ jobs'[w].deferred = {} /\ jobs'[w].queued = jobs[w].queued
  <1> DEFINE p == jobs[w].planning
             d == jobs[w].deferred
             old == jobs[w]
             row == [old EXCEPT !.planning = p \cup d, !.deferred = {}]
  <1>1. /\ p \in SUBSET Job /\ d \in SUBSET Job /\ jobs[w] \in JobSets
        /\ UNCHANGED <<fresh, source, session, live, at, told>> /\ w \in live /\ w \in session
    BY HeldTypes DEF TakesDeferred, TransferTypes
  <1>2. row \in JobSets /\ row.planning = p \cup d /\ row.deferred = {} /\ row.queued = jobs[w].queued
    BY <1>1 DEF JobSets
  <1>3. jobs' = [jobs EXCEPT ![w] = row]
    BY DEF TakesDeferred, TransferTypes
  <1> HIDE DEF row
  <1>4. /\ jobs' \in [Window -> JobSets] /\ jobs'[w] = row
        /\ \A v \in Window \ {w} : jobs'[v] = jobs[v]
    BY <1>2, <1>3, JobsDo
  <1>5. TransferTypes'
    BY <1>1, <1>4, TypesDo DEF TransferTypes
  <1> QED
    BY <1>1, <1>2, <1>4, <1>5

\* A worker changes one item.
LEMMA WorkOnDoes ==
    ASSUME TransferTypes, FileTypes, NEW w \in Window, NEW i \in Item, WorkOn(w, i)
    PROVE  /\ TransferTypes'
           /\ \A v \in Window \ {w} : at'[v] = at[v]
           /\ \A k \in Item \ {i} : at'[w][k] = at[w][k]
           /\ told \subseteq told' /\ at[w][i] # "Out"
           /\ at'[w][i] = "Out" => i \in told' /\ Forgets(w, i, TRUE)
           /\ at'[w][i] = "Copied" => at[w][i] = "Pending" /\ Forgets(w, i, FALSE)
           /\ at'[w][i] \notin {"Out", "Copied"} => saver' = saver
           /\ jobs' = jobs /\ live' = live
  <1>1. at[w] \in [Item -> State] /\ UNCHANGED <<fresh, jobs, session, live>>
    BY HeldTypes DEF WorkOn
  <1>2. PICK s \in State : /\ at' = [at EXCEPT ![w][i] = s]
                           /\ s = "Out" => told' = told \cup {i} /\ Forgets(w, i, TRUE)
                           /\ s # "Out" => told' = told
                           /\ s = "Copied" => at[w][i] = "Pending" /\ Forgets(w, i, FALSE)
                           /\ s \notin {"Out", "Copied"} => saver' = saver
                           /\ at[w][i] # "Out"
                           /\ source' \in SUBSET source
    <2> DEFINE P(s) == /\ at' = [at EXCEPT ![w][i] = s]
                       /\ s = "Out" => told' = told \cup {i} /\ Forgets(w, i, TRUE)
                       /\ s # "Out" => told' = told
                       /\ s = "Copied" => at[w][i] = "Pending" /\ Forgets(w, i, FALSE)
                       /\ s \notin {"Out", "Copied"} => saver' = saver
                       /\ at[w][i] # "Out"
                       /\ source' \in SUBSET source
    <2>1. P("Out") \/ P("Copied") \/ P("Parked") \/ P("Pending")
      <3> HIDE DEF Forgets
      <3> QED
        BY DEF WorkOn
    <2> QED
      BY <2>1 DEF State
  <1> DEFINE row == [at[w] EXCEPT ![i] = s]
  <1>3. row \in [Item -> State] /\ row[i] = s /\ \A k \in Item \ {i} : row[k] = at[w][k]
    BY <1>1
  <1>4. at' = [at EXCEPT ![w] = row]
    BY <1>2
  <1> HIDE DEF row
  <1>5. at' \in [Window -> [Item -> State]] /\ at'[w] = row
        /\ \A v \in Window \ {w} : at'[v] = at[v]
    BY <1>3, <1>4, ItemsDo
  <1>6. TransferTypes'
    BY <1>1, <1>2, <1>5 DEF TransferTypes
  <1> QED
    BY <1>1, <1>2, <1>3, <1>5, <1>6

\* The next of the queued jobs takes its turn, or nothing is left to do.
LEMMA NextSessionDoes ==
    ASSUME TransferTypes, NEW w \in Window, NextSession(w)
    PROVE  /\ TransferTypes' /\ w \in session /\ UNCHANGED <<at, told>>
           /\ live' = live \ {w} /\ Held(w) = {}
           /\ \A v \in Window \ {w} : jobs'[v] = jobs[v]
           /\ jobs'[w].deferred = jobs[w].deferred
           /\ jobs'[w].planning \cup jobs'[w].queued = jobs[w].planning \cup jobs[w].queued
  <1> DEFINE p == jobs[w].planning
             d == jobs[w].deferred
             q == jobs[w].queued
             old == jobs[w]
  <1>1. p \in SUBSET Job /\ d \in SUBSET Job /\ q \in SUBSET Job /\ jobs[w] \in JobSets
    BY HeldTypes
  <1>2. /\ UNCHANGED <<fresh, source, told, at>> /\ p = {} /\ w \in session
        /\ live' = live \ {w} /\ Held(w) = {}
    BY DEF NextSession
  <1>3. CASE q # {}
    <2>1. session' = session
          /\ \E j \in q : jobs' = [jobs EXCEPT ![w].planning = {j}, ![w].queued = @ \ {j}]
      BY <1>3 DEF NextSession
    <2>2. PICK j \in q : jobs' = [jobs EXCEPT ![w].planning = {j}, ![w].queued = @ \ {j}]
      BY <2>1
    <2> DEFINE row == [old EXCEPT !.planning = {j}, !.queued = q \ {j}]
    <2>3. row \in JobSets /\ row.planning = {j} /\ row.deferred = d /\ row.queued = q \ {j}
      BY <1>1 DEF JobSets
    <2>4. jobs' = [jobs EXCEPT ![w] = row]
      BY <2>2 DEF TransferTypes
    <2> HIDE DEF row
    <2>5. /\ jobs' \in [Window -> JobSets] /\ jobs'[w] = row
          /\ \A v \in Window \ {w} : jobs'[v] = jobs[v]
      BY <2>3, <2>4, JobsDo
    <2>6. TransferTypes'
      BY <1>2, <2>1, <2>5, TypesDo DEF TransferTypes
    <2> QED
      BY <1>2, <2>3, <2>5, <2>6
  <1>4. CASE q = {}
    <2>1. session' = session \ {w} /\ jobs' = jobs
      BY <1>4 DEF NextSession
    <2>2. TransferTypes'
      BY <1>2, <2>1, TypesDo DEF TransferTypes
    <2> QED
      BY <1>2, <2>1, <2>2
  <1> QED
    BY <1>3, <1>4

\* An archive becomes the window's.
LEMMA AdoptsDoes ==
    ASSUME TransferTypes, NEW w \in Window, NEW a \in Archive, Adopts(w, a),
           UNCHANGED <<fresh, source, told>>
    PROVE  /\ TransferTypes' /\ session' = session \cup {w}
           /\ live' \in {live, live \cup {w}} /\ (at' # at => w \in live')
           /\ \A v \in Window \ {w} : jobs'[v] = jobs[v] /\ at'[v] = at[v]
           /\ jobs'[w].deferred = jobs[w].deferred
           /\ \/ /\ a.plan \cup a.removals # {}
                 /\ \A i \in Item : at'[w][i] = IF i \in a.plan THEN "Pending"
                                                ELSE IF i \in a.removals THEN "Copied" ELSE "Out"
                 /\ jobs'[w].planning = jobs[w].planning /\ jobs'[w].queued = a.queued
              \/ /\ a.plan \cup a.removals = {} /\ at' = at
                 /\ \E j \in a.queued : /\ jobs'[w].planning = {j}
                                        /\ jobs'[w].queued = a.queued \ {j}
  <1> DEFINE p == jobs[w].planning
             d == jobs[w].deferred
             q == jobs[w].queued
             Becomes(x, y, z) ==
                /\ jobs' \in [Window -> JobSets]
                /\ \A v \in Window \ {w} : jobs'[v] = jobs[v]
                /\ jobs'[w].planning = x /\ jobs'[w].deferred = y /\ jobs'[w].queued = z
             old == jobs[w]
  <1>1. p \in SUBSET Job /\ d \in SUBSET Job /\ q \in SUBSET Job /\ jobs[w] \in JobSets
        /\ a.queued \in SUBSET Job
    BY HeldTypes DEF Archive
  <1>2. session' = session \cup {w}
    BY DEF Adopts
  <1>3. CASE a.plan \cup a.removals # {}
    <2> DEFINE items == [i \in Item |-> IF i \in a.plan THEN "Pending"
                                        ELSE IF i \in a.removals THEN "Copied" ELSE "Out"]
    <2>1. items \in [Item -> State]
          /\ \A i \in Item : items[i] = IF i \in a.plan THEN "Pending"
                                        ELSE IF i \in a.removals THEN "Copied" ELSE "Out"
      BY DEF State
    <2>2. at' = [at EXCEPT ![w] = items]
      BY <1>3 DEF Adopts
    <2> HIDE DEF items
    <2>3. at' \in [Window -> [Item -> State]] /\ at'[w] = items
          /\ \A v \in Window \ {w} : at'[v] = at[v]
      BY <2>1, <2>2, ItemsDo
    <2> DEFINE row == [old EXCEPT !.queued = a.queued]
    <2>4. row \in JobSets /\ row.planning = p /\ row.deferred = d /\ row.queued = a.queued
      BY <1>1 DEF JobSets
    <2>5. jobs' = [jobs EXCEPT ![w] = row] /\ live' = live \cup {w}
      BY <1>3 DEF Adopts
    <2> HIDE DEF row
    <2>6. Becomes(p, d, a.queued)
      BY <2>4, <2>5, JobsDo
    <2>7. TransferTypes'
      BY <1>2, <2>3, <2>5, <2>6, TypesDo DEF TransferTypes
    <2> QED
      BY <1>2, <1>3, <2>1, <2>3, <2>5, <2>6, <2>7
  <1>4. CASE a.plan \cup a.removals = {}
    <2>1. /\ \E j \in a.queued : jobs' = [jobs EXCEPT ![w].planning = {j}, ![w].queued = a.queued \ {j}]
          /\ at' = at /\ live' = live
      BY <1>4 DEF Adopts
    <2>2. PICK j \in a.queued :
             jobs' = [jobs EXCEPT ![w].planning = {j}, ![w].queued = a.queued \ {j}]
      BY <2>1
    <2> DEFINE row == [old EXCEPT !.planning = {j}, !.queued = a.queued \ {j}]
    <2>3. row \in JobSets /\ row.planning = {j} /\ row.deferred = d /\ row.queued = a.queued \ {j}
      BY <1>1 DEF JobSets
    <2>4. jobs' = [jobs EXCEPT ![w] = row]
      BY <2>2 DEF TransferTypes
    <2> HIDE DEF row
    <2>5. Becomes({j}, d, a.queued \ {j})
      BY <2>3, <2>4, JobsDo
    <2>6. TransferTypes'
      BY <1>2, <2>1, <2>5, TypesDo DEF TransferTypes
    <2> QED
      BY <1>2, <1>4, <2>1, <2>5, <2>6
  <1> QED
    BY <1>3, <1>4

\* LoadQueue() adopts the archive, keeps its queued jobs, or drops it.
LEMMA LoadQueueDoes ==
    ASSUME TransferTypes, FileTypes, NEW w \in Window, LoadQueue(w)
    PROVE  LET a == hand[Q(w)].archive IN
           /\ TransferTypes'
           /\ \A v \in Window \ {w} : jobs'[v] = jobs[v] /\ at'[v] = at[v]
           /\ \/ Idle(w) /\ Adopts(w, a)
              \/ /\ Idle(w) /\ at' = at /\ session' = session /\ live' = live
                 /\ jobs'[w].planning = jobs[w].planning /\ jobs'[w].deferred = jobs[w].deferred
                 /\ jobs'[w].queued = a.queued
              \/ at' = at /\ session' = session /\ live' = live /\ jobs' = jobs
  <1> DEFINE a == hand[Q(w)].archive
             p == jobs[w].planning
             d == jobs[w].deferred
  <1>1. a \in Archive /\ a.queued \in SUBSET Job
    BY PathFacts DEF FileTypes, Hand, Archive
  <1>2. UNCHANGED <<fresh, source, told>>
    BY DEF LoadQueue
  <1>3. CASE Idle(w) /\ Adopts(w, a)
    BY <1>1, <1>2, <1>3, AdoptsDoes
  <1>4. CASE Idle(w) /\ jobs' = [jobs EXCEPT ![w].queued = a.queued] /\ UNCHANGED <<at, session, live>>
    <2>1. p \in SUBSET Job /\ d \in SUBSET Job /\ jobs[w] \in JobSets
      BY HeldTypes
    <2> DEFINE old == jobs[w]
               row == [old EXCEPT !.queued = a.queued]
    <2>2. row \in JobSets /\ row.planning = p /\ row.deferred = d /\ row.queued = a.queued
      BY <1>1, <2>1 DEF JobSets
    <2>3. jobs' = [jobs EXCEPT ![w] = row]
      BY <1>4
    <2> HIDE DEF row
    <2>4. /\ jobs' \in [Window -> JobSets]
          /\ \A v \in Window \ {w} : jobs'[v] = jobs[v]
          /\ jobs'[w].planning = p /\ jobs'[w].deferred = d /\ jobs'[w].queued = a.queued
      BY <2>2, <2>3, JobsDo
    <2>5. jobs'[w].planning # {} => w \in session'
      BY <1>4, <2>4 DEF Idle
    <2>6. TransferTypes'
      BY <1>2, <1>4, <2>4, <2>5, TypesDo DEF TransferTypes
    <2> QED
      BY <1>2, <1>4, <2>4, <2>6
  <1>5. CASE UNCHANGED <<at, jobs, session, live>>
    BY <1>2, <1>5 DEF TransferTypes
  <1> QED
    BY <1>3, <1>4, <1>5 DEF LoadQueue, Q, planVars

\* What every step does with what it does not mention.
LEMMA TransferTypesKept == TransferTypes /\ FileTypes /\ [Next]_vars => TransferTypes'
  <1> SUFFICES ASSUME TransferTypes, FileTypes, [Next]_vars PROVE TransferTypes'
    OBVIOUS
  <1>0. ASSUME UNCHANGED <<fresh, planVars>>, source' \in SUBSET Item, told' \in SUBSET Item
        PROVE  TransferTypes'
    BY <1>0 DEF planVars, TransferTypes
  <1>1. CASE UNCHANGED vars
    BY <1>0, <1>1 DEF vars, windowVars, TransferTypes
  <1>2. ASSUME NEW w \in Window, Transfers(w)  PROVE TransferTypes'
    BY <1>2, SubmitDoes, PublishedDoes, PlannedDoes, TakesDeferredDoes, WorkOnDoes, NextSessionDoes
       DEF Transfers
  <1>3. ASSUME NEW w \in Window, EndSession(w) \/ SaveQueue(w)  PROVE TransferTypes'
    BY <1>0, <1>3 DEF EndSession, SaveQueue, windowVars, TransferTypes
  <1>4. ASSUME NEW s \in Saver, Saves(s) \/ Loads(s)  PROVE TransferTypes'
    BY <1>0, <1>4
       DEF Saves, Loads, ReadRemovals, ExportPlan, RetireEmpty, OpenStaging, WriteStaging,
           FlushStaging, RenameStaged, SaveFails, LoadFinds, LoadRejects, Unsaved, Unloaded,
           windowVars, TransferTypes
  <1>5. ASSUME NEW w \in Window, Offers(w)  PROVE TransferTypes'
    <2>1. CASE Offer(w) \/ Ask(w) \/ GiveBack(w) \/ Retire(w) \/ PickQueue(w)
      BY <1>0, <2>1 DEF Offer, Ask, GiveBack, Retire, PickQueue, Unloaded, windowVars, TransferTypes
    <2>2. CASE Discard(w)
      <3>1. Work(hand[R(w)].archive) \in SUBSET Item
        BY PathFacts, ArchiveFacts DEF FileTypes, Hand
      <3> QED
        BY <1>0, <2>2, <3>1 DEF Discard, windowVars, TransferTypes, R
    <2>3. CASE Resume(w)
      <3>1. hand[R(w)].archive \in Archive
        BY PathFacts DEF FileTypes, Hand
      <3> QED
        BY <2>3, <3>1, AdoptsDoes DEF Resume, R
    <2>4. CASE LoadQueue(w)
      BY <2>4, LoadQueueDoes
    <2> QED
      BY <1>5, <2>1, <2>2, <2>3, <2>4 DEF Offers
  <1>6. ASSUME NEW i \in Item, SourceVanishes(i)  PROVE TransferTypes'
    BY <1>0, <1>6 DEF SourceVanishes, windowVars, TransferTypes
  <1>7. CASE Dies
    BY <1>7 DEF Dies, TransferTypes, JobSets, NoJobs, State
  <1>8. CASE Boots
    BY <1>0, <1>8 DEF Boots, TransferTypes
  <1> QED
    BY <1>1, <1>2, <1>3, <1>4, <1>5, <1>6, <1>7, <1>8 DEF Next

-----------------------------------------------------------------------------
(***************************************************************************)
(* The types of the variables about files.                                 *)
(***************************************************************************)
fileVars == <<up, boot, disk, staged, name, ending, checked, hand, listed, offered, byHand>>

\* A transfer touches no file, nor what a save has read.
LEMMA TransfersTouchNoFiles ==
    ASSUME FileTypes, NEW w \in Window, Transfers(w)
    PROVE  /\ up /\ UNCHANGED fileVars
           /\ saver' \in [Saver -> Save] /\ \A s \in Saver : SavedAs(s)
  <1>1. ASSUME UNCHANGED saver
        PROVE  saver' \in [Saver -> Save] /\ \A s \in Saver : SavedAs(s)
    BY <1>1 DEF FileTypes, SavedAs
  <1>2. ASSUME NEW i \in Item, NEW gone \in BOOLEAN, Forgets(w, i, gone)
        PROVE  saver' \in [Saver -> Save] /\ \A s \in Saver : SavedAs(s)
    BY <1>2, ForgetsDoes
  <1>3. ASSUME NEW i \in Item, WorkOn(w, i)
        PROVE  /\ up /\ UNCHANGED fileVars
               /\ saver' \in [Saver -> Save] /\ \A s \in Saver : SavedAs(s)
    <2>1. up /\ UNCHANGED fileVars
      BY <1>3 DEF WorkOn, fileVars, processVars, offerVars
    <2>2. Forgets(w, i, TRUE) \/ Forgets(w, i, FALSE) \/ UNCHANGED saver
      <3> HIDE DEF Forgets
      <3> QED
        BY <1>3 DEF WorkOn
    <2> QED
      BY <1>1, <1>2, <2>1, <2>2
  <1>4. ASSUME NextSession(w)
        PROVE  /\ up /\ UNCHANGED fileVars
               /\ saver' \in [Saver -> Save] /\ \A s \in Saver : SavedAs(s)
    <2>1. up /\ UNCHANGED fileVars
      BY <1>4 DEF NextSession, fileVars, processVars, offerVars
    <2> QED
      BY <1>4, <2>1, LetsGoDoes
  <1>5. ASSUME NEW j \in Job, Submit(w, j) \/ Published(w, j) \/ Planned(w, j) \/ TakesDeferred(w)
        PROVE  up /\ UNCHANGED fileVars /\ UNCHANGED saver
    BY <1>5 DEF Submit, Published, Planned, TakesDeferred, fileVars, processVars, saveVars, offerVars
  <1>6. ASSUME TakesDeferred(w)  PROVE up /\ UNCHANGED fileVars /\ UNCHANGED saver
    BY <1>6 DEF TakesDeferred, fileVars, processVars, saveVars, offerVars
  <1> QED
    BY <1>1, <1>3, <1>4, <1>5, <1>6 DEF Transfers

\* Nor does another program that removes a source.
LEMMA VanishingTouchesNoFiles ==
    ASSUME NEW i \in Item, SourceVanishes(i)
    PROVE  UNCHANGED <<fileVars, saver, at, jobs, session, live, told, fresh>>
  BY DEF SourceVanishes, fileVars, processVars, windowVars, planVars, saveVars, offerVars

\* The paths of a file that is with a window.
LEMMA HandPaths ==
    ASSUME FileTypes, OfferInv, NEW s \in Saver, hand[s].phase # "None"
    PROVE  hand[s].path \in Path /\ (s[2] = "Recovery" => hand[s].path \in Past)
                                 /\ (s[2] = "Queue" => hand[s].path = Queue)
  BY PathFacts DEF OfferInv, Taken

\* MaybeOfferRecoveryAsync takes the first path of the list, which is made at
\* the first call.
LEMMA OfferDoes ==
    ASSUME FileTypes, Quiet, OfferInv, NEW w \in Window, Offer(w)
    PROVE  /\ up /\ Free /\ hand[R(w)].phase = "None"
           /\ UNCHANGED <<up, boot, disk, staged, name, ending, saver, byHand, at, jobs, session,
                          live, told, source, fresh>>
           /\ listed' = TRUE /\ checked' \in SUBSET Window
           /\ \/ hand' = hand /\ offered' = offered
              \/ \E q \in Seq(Past), p \in Past :
                    /\ IsInjective(offered') /\ offered' \in Seq(Past)
                    /\ p \in ToSet(q) /\ p \notin ToSet(offered')
                    /\ ToSet(offered') \subseteq ToSet(q)
                    /\ IF listed THEN q = offered ELSE \A r \in ToSet(q) : disk[r] # NoFile
                    /\ hand' \in [Saver -> Hand] /\ \A t \in Saver \ {R(w)} : hand'[t] = hand[t]
                    /\ hand'[R(w)].phase = "Loading" /\ hand'[R(w)].path = p
                    /\ hand'[R(w)].archive = Nothing
  <1>1. PICK q \in IF listed THEN {offered} ELSE SetToSeqs(RecoveryFiles) :
           IF q = <<>>
           THEN checked' = checked \cup {w} /\ UNCHANGED <<hand, offered>>
           ELSE /\ hand' = [hand EXCEPT ![R(w)] =
                               [NoHand EXCEPT !.phase = "Loading", !.path = Head(q)]]
                /\ offered' = LeftOnOffer(q)
                /\ UNCHANGED checked
    BY DEF Offer, R
  <1>2. /\ up /\ Free /\ hand[R(w)].phase = "None" /\ listed' = TRUE
        /\ UNCHANGED <<up, boot, disk, staged, name, ending, saver, byHand, at, jobs, session,
                       live, told, source, fresh>>
    BY DEF Offer, R, processVars, windowVars, planVars, saveVars
  <1>3. checked' \in SUBSET Window
    BY <1>1 DEF FileTypes
  <1>4. /\ q \in Seq(Past) /\ IsInjective(q)
        /\ IF listed THEN q = offered ELSE \A r \in ToSet(q) : disk[r] # NoFile
    <2>1. CASE listed
      BY <1>1, <2>1 DEF OfferInv, FileTypes
    <2>2. CASE ~listed
      <3>1. RecoveryFiles \in SUBSET Session /\ RecoveryFiles \subseteq Past
        BY DEF Quiet, RecoveryFiles
      <3>2. q \in SetToSeqs(RecoveryFiles)
        BY <1>1, <2>2
      <3>3. q \in Seq(RecoveryFiles) /\ IsInjective(q)
        BY <3>1, <3>2, PathsListed
      <3>4. q \in Seq(Past) /\ \A i \in DOMAIN q : q[i] \in RecoveryFiles
        BY <3>1, <3>3
      <3> QED
        BY <2>2, <3>3, <3>4 DEF ToSet, RecoveryFiles
    <2> QED
      BY <2>1, <2>2
  <1>5. CASE q = <<>>
    BY <1>1, <1>2, <1>3, <1>5
  <1>6. CASE q # <<>>
    <2>1. /\ Head(q) \in Past /\ Head(q) \in ToSet(q)
          /\ Tail(q) \in Seq(Past) /\ IsInjective(Tail(q))
          /\ Head(q) \notin ToSet(Tail(q)) /\ ToSet(Tail(q)) \subseteq ToSet(q)
      BY <1>4, <1>6, TakenFromList
    <2> DEFINE p == Head(q)
    <2> HIDE DEF p
    <2>2. p \in Path /\ R(w) \in Saver
      BY <2>1, PathFacts DEF p
    <2>3. hand' = [hand EXCEPT ![R(w)] = [NoHand EXCEPT !.phase = "Loading", !.path = p]]
      BY <1>1, <1>6 DEF p
    <2>4. /\ hand' \in [Saver -> Hand] /\ \A t \in Saver \ {R(w)} : hand'[t] = hand[t]
          /\ hand'[R(w)].phase = "Loading" /\ hand'[R(w)].path = p
          /\ hand'[R(w)].archive = Nothing
      BY <2>2, <2>3, LoadingDoes
    <2>5. offered' = Tail(q)
      BY <1>1, <1>6 DEF LeftOnOffer
    <2> QED
      BY <1>2, <1>3, <1>4, <2>1, <2>4, <2>5 DEF p
  <1> QED
    BY <1>5, <1>6

\* No step breaks the types of the files and of what is in memory about them.
LEMMA FileTypesKept ==
    TransferTypes /\ FileTypes /\ FilesInv /\ StagingInv /\ [Next]_vars => FileTypes'
  <1> SUFFICES ASSUME TransferTypes, FileTypes, Quiet, OfferInv, StagingInv, [Next]_vars
               PROVE  FileTypes'
    BY DEF FilesInv
  <1>1. CASE UNCHANGED vars
    BY <1>1 DEF vars, processVars, windowVars, saveVars, offerVars, FileTypes, Past
  <1>2. ASSUME NEW w \in Window, Transfers(w)  PROVE FileTypes'
    BY <1>2, TransfersTouchNoFiles DEF fileVars, FileTypes, Past
  <1>3. ASSUME NEW i \in Item, SourceVanishes(i)  PROVE FileTypes'
    BY <1>3, VanishingTouchesNoFiles DEF fileVars, FileTypes, Past
  <1>4. ASSUME NEW w \in Window, EndSession(w) \/ SaveQueue(w)  PROVE FileTypes'
    <2>1. CASE EndSession(w)
      <3>1. name[w] \in Path /\ R(w) \in Saver
        BY PathFacts DEF FileTypes
      <3>2. saver' \in [Saver -> Save]
        BY <2>1, <3>1, StartsDoes DEF EndSession, R
      <3> QED
        BY <2>1, <3>2 DEF EndSession, processVars, windowVars, offerVars, FileTypes, Past
    <2>2. CASE SaveQueue(w)
      <3>1. Queue \in Path /\ Q(w) \in Saver
        BY PathFacts
      <3>2. saver' \in [Saver -> Save]
        BY <2>2, <3>1, StartsDoes DEF SaveQueue, Q
      <3> QED
        BY <2>2, <3>2 DEF SaveQueue, processVars, windowVars, offerVars, FileTypes, Past
    <2> QED
      BY <1>4, <2>1, <2>2
  <1>5. ASSUME NEW s \in Saver, Saves(s)  PROVE FileTypes'
    <2>1. GoesOn(s) \/ Finishes(s)
      BY <1>5 DEF Saves, GoesOn, Finishes
    <2>2. /\ saver' \in [Saver -> Save] /\ saver[s] \in Save
          /\ UNCHANGED <<up, boot, byHand, name, ending, checked, hand, listed, offered>>
      <3>1. saver' \in [Saver -> Save]
        BY <2>1, GoesOnDoes, SaveEnds
      <3>2. Unsaved' = Unsaved
        BY <2>1 DEF GoesOn, Finishes, ReadRemovals, ExportPlan, OpenStaging, WriteStaging,
                    FlushStaging, RetireEmpty, RenameStaged, SaveFails
      <3> QED
        BY <3>1, <3>2 DEF Unsaved, processVars, windowVars, offerVars, FileTypes
    <2>3. disk' \in [Path -> Archived]
      <3>1. CASE GoesOn(s)
        BY <3>1 DEF GoesOn, ReadRemovals, ExportPlan, OpenStaging, WriteStaging, FlushStaging, FileTypes
      <3>2. CASE RetireEmpty(s) \/ SaveFails(s)
        BY <3>2, NoFacts DEF RetireEmpty, SaveFails, FileTypes
      <3>3. CASE RenameStaged(s)
        <4>1. staged[s] \in Archived
          <5>1. saver[s].phase = "Rename" /\ saver[s].archive \in Archive
            BY <2>2, <3>3 DEF RenameStaged, At, Save
          <5>2. staged[s] = [kind |-> "Whole", archive |-> saver[s].archive]
            BY <5>1 DEF StagingInv
          <5> QED
            BY <5>1, <5>2 DEF Archived
        <4> QED
          BY <3>3, <4>1 DEF RenameStaged, TempFor, FileTypes
      <3> QED
        BY <2>1, <3>1, <3>2, <3>3 DEF Finishes
    <2>4. staged' \in [Saver \cup Path -> File]
      <3>1. ASSUME NEW file \in File, Stages(s, file)  PROVE staged' \in [Saver \cup Path -> File]
        BY <3>1 DEF Stages, TempFor, FileTypes
      <3>2. Partial \in File
        BY ArchiveFacts DEF Partial, File
      <3>3. [kind |-> "Cached", archive |-> saver[s].archive] \in File
        BY <2>2 DEF Save, File
      <3>4. [staged[TempFor(s)] EXCEPT !.kind = IF @ = "Cached" THEN "Whole" ELSE @] \in File
        <4>1. staged[TempFor(s)] \in File
          BY DEF TempFor, FileTypes
        <4> QED
          BY <4>1 DEF File
      <3>5. UNCHANGED staged \/ \E file \in File : Stages(s, file)
        <4> HIDE DEF Stages
        <4>1. CASE GoesOn(s)
          BY <3>2, <3>3, <3>4, <4>1
             DEF GoesOn, ReadRemovals, ExportPlan, OpenStaging, WriteStaging, FlushStaging
        <4>2. CASE Finishes(s)
          BY <4>2, NoFacts DEF Finishes, RetireEmpty, RenameStaged, SaveFails
        <4> QED
          BY <2>1, <4>1, <4>2
      <3> QED
        BY <3>1, <3>5 DEF FileTypes
    <2> QED
      BY <2>2, <2>3, <2>4 DEF FileTypes, Past
  <1>6. ASSUME NEW s \in Saver, Loads(s)  PROVE FileTypes'
    <2>1. CASE LoadFinds(s)
      <3>1. hand[s].path \in Path
        BY <2>1, HandPaths DEF LoadFinds
      <3> QED
        BY <2>1, <3>1, LoadFindsDoes
           DEF LoadFinds, Unloaded, processVars, windowVars, saveVars, FileTypes, Past
    <2>2. CASE LoadRejects(s)
      <3>1. disk' \in [Path -> Archived]
        BY <2>2, NoFacts DEF LoadRejects, FileTypes
      <3> QED
        BY <2>2, <3>1, LetGoDoes
           DEF LoadRejects, Unloaded, processVars, windowVars, saveVars, FileTypes, Past
    <2> QED
      BY <1>6, <2>1, <2>2 DEF Loads
  <1>7. ASSUME NEW w \in Window, Offers(w)  PROVE FileTypes'
    <2>1. CASE Offer(w)
      BY <2>1, OfferDoes DEF FileTypes, Past
    <2>2. CASE Ask(w)
      <3>1. R(w) \in Saver
        BY PathFacts
      <3>2. hand' \in [Saver -> Hand]
        BY <2>2, <3>1, PhaseDoes DEF Ask, R
      <3> QED
        BY <2>2, <3>2 DEF Ask, Unloaded, processVars, windowVars, saveVars, FileTypes, Past
    <2>3. CASE GiveBack(w)
      <3>1. R(w) \in Saver /\ Taken(w) \in Past /\ Taken(w) \notin ToSet(offered)
        BY <2>3, PathFacts DEF GiveBack, OfferInv, R
      <3>2. hand' \in [Saver -> Hand]
        BY <2>3, <3>1, LetGoDoes DEF GiveBack, R
      <3>3. offered' \in Seq(Past)
        BY <2>3, <3>1 DEF GiveBack, FileTypes, Taken, R
      <3> QED
        BY <2>3, <3>2, <3>3 DEF GiveBack, processVars, windowVars, saveVars, FileTypes, Past
    <2>4. CASE Discard(w) \/ Retire(w)
      <3>1. R(w) \in Saver
        BY PathFacts
      <3>2. hand' \in [Saver -> Hand]
        BY <2>4, <3>1, LetGoDoes DEF Discard, Retire, R
      <3>3. disk' \in [Path -> Archived]
        BY <2>4, NoFacts DEF Discard, Retire, FileTypes
      <3> QED
        BY SMTT(20), <2>4, <3>2, <3>3
           DEF Discard, Retire, processVars, windowVars, saveVars, FileTypes, Past
    <2>5. CASE Resume(w)
      <3>1. R(w) \in Saver /\ Taken(w) \in Past
        BY <2>5, PathFacts DEF Resume, OfferInv, R
      <3>2. hand' \in [Saver -> Hand]
        BY <2>5, <3>1, PhaseDoes DEF Resume, R
      <3>3. name' \in [Window -> Past]
        BY <2>5, <3>1 DEF Resume, FileTypes, Taken, R
      <3> QED
        BY <2>5, <3>2, <3>3 DEF Resume, processVars, saveVars, FileTypes, Past
    <2>6. CASE PickQueue(w)
      <3>1. Q(w) \in Saver /\ Queue \in Path
        BY PathFacts
      <3>2. hand' \in [Saver -> Hand]
        BY <2>6, <3>1, LoadingDoes DEF PickQueue, Q
      <3> QED
        BY <2>6, <3>2 DEF PickQueue, processVars, windowVars, FileTypes, Past
    <2>7. CASE LoadQueue(w)
      <3>1. Q(w) \in Saver
        BY PathFacts
      <3>2. hand' \in [Saver -> Hand]
        BY <2>7, <3>1, LetGoDoes DEF LoadQueue, Q
      <3> QED
        BY <2>7, <3>2 DEF LoadQueue, processVars, saveVars, FileTypes, Past
    <2> QED
      BY <1>7, <2>1, <2>2, <2>3, <2>4, <2>5, <2>6, <2>7 DEF Offers
  <1>8. CASE Dies
    <2>1. disk' \in [Path -> Archived] /\ staged' \in [Saver \cup Path -> File]
      BY <1>8, NoFacts DEF Dies, FileTypes, Archived
    <2>2. saver' \in [Saver -> Save] /\ hand' \in [Saver -> Hand] /\ offered' \in Seq(Past)
      BY <1>8, NoFacts DEF Dies
    <2>3. /\ up' \in BOOLEAN /\ boot' = boot /\ byHand' = byHand /\ name' = name
          /\ ending' = {} /\ checked' = {} /\ listed' \in BOOLEAN
      BY <1>8 DEF Dies
    <2>4. Past' = Past
      BY <2>3 DEF Past
    <2> QED
      BY <2>1, <2>2, <2>3, <2>4 DEF FileTypes
  <1>9. CASE Boots
    <2>1. boot' = boot + 1 /\ boot' \in Boot /\ boot \in Nat
      BY <1>9, RecoveryAssumption DEF Boots, FileTypes, Boot
    <2>2. name' \in [Window -> Past'] /\ Past \subseteq Past'
      BY <1>9, <2>1 DEF Boots, Past, Session, Boot
    <2> QED
      BY <1>9, <2>1, <2>2 DEF Boots, saveVars, offerVars, FileTypes
  <1> QED
    BY <1>1, <1>2, <1>3, <1>4, <1>5, <1>6, <1>7, <1>8, <1>9 DEF Next

-----------------------------------------------------------------------------
(***************************************************************************)
(* Whose a path is.                                                        *)
(***************************************************************************)
\* Before anything is asked for there are no files and nothing is in memory.
LEMMA FilesAtFirst == Init => TransferTypes /\ FileTypes /\ FilesInv
  <1> SUFFICES ASSUME Init PROVE TransferTypes /\ FileTypes /\ FilesInv
    OBVIOUS
  <1>1. boot = 1 /\ 1 \in Boot
    BY RecoveryAssumption DEF Init, Boot
  <1>2. TransferTypes
    <2>1. /\ fresh \in SUBSET Job /\ source \in SUBSET Item /\ told = {}
          /\ session = {} /\ live = {}
      BY DEF Init
    <2>2. at \in [Window -> [Item -> State]]
      BY DEF Init, State
    <2>3. jobs = [w \in Window |-> NoJobs] /\ NoJobs \in JobSets /\ NoJobs.planning = {}
      BY DEF Init, JobSets, NoJobs
    <2> QED
      BY <2>1, <2>2, <2>3 DEF TransferTypes
  <1>3. name \in [Window -> Past] /\ \A w \in Window : name[w] = <<1, w>>
    BY <1>1 DEF Init, Past, Session
  <1>4. saver \in [Saver -> Save] /\ hand \in [Saver -> Hand] /\ disk \in [Path -> Archived]
        /\ staged \in [Saver \cup Path -> File]
        /\ \A s \in Saver : saver[s] = NoSave /\ hand[s] = NoHand
        /\ \A p \in Path : disk[p] = NoFile
    BY NoFacts DEF Init
  <1>5. FileTypes
    <2>1. /\ up \in BOOLEAN /\ boot \in Boot /\ byHand \in Nat /\ listed \in BOOLEAN
          /\ ending = {} /\ checked = {} /\ offered \in Seq(Past)
      <3>1. <<>> \in Seq(Past) /\ 0 \in Nat
        OBVIOUS
      <3>2. up = TRUE /\ listed = FALSE /\ byHand = 0 /\ ending = {} /\ checked = {} /\ offered = <<>>
        BY DEF Init
      <3> QED
        BY <1>1, <3>1, <3>2
    <2> QED
      BY <1>3, <1>4, <2>1 DEF FileTypes
  <1>6. offered = <<>> /\ ToSet(offered) = {} /\ IsInjective(offered)
    BY DEF Init, ToSet, IsInjective
  <1>7. \A w \in Window : /\ Taken(w) = None /\ ~Adopted(w) /\ ~Saving(w)
                          /\ saver[Q(w)].phase = "Idle"
                          /\ disk[name[w]] = NoFile /\ name[w] # None
    BY <1>3, <1>4, NoFacts, PathFacts DEF Taken, Adopted, Saving
  <1>8. Quiet
    BY <1>4, <1>6, PathFacts DEF Init, Quiet
  <1>9. OfferInv
    BY <1>4, <1>6, <1>7, NoFacts, PathFacts DEF OfferInv
  <1>10. NameInv
    BY <1>3, <1>6, <1>7 DEF NameInv
  <1>11. CheckpointInv
    BY <1>7 DEF CheckpointInv
  <1> QED
    BY <1>2, <1>5, <1>8, <1>9, <1>10, <1>11 DEF FilesInv

\* What a step changes of the deferred jobs, it changes while no window saves.
LEMMA FilesByTransfers ==
    ASSUME TransferTypes, FileTypes, FilesInv,
           UNCHANGED fileVars, up \/ UNCHANGED saver, \A s \in Saver : SavedAs(s),
           \A w \in Window : Saving(w) => jobs'[w].deferred = jobs[w].deferred
    PROVE  FilesInv'
  <1>1. Past' = Past /\ \A w \in Window : /\ Taken(w)' = Taken(w) /\ Adopted(w)' = Adopted(w)
                                          /\ Saving(w)' = Saving(w)
    BY PathFacts DEF fileVars, Past, Taken, Adopted, Saving, SavedAs
  <1>2. Quiet' /\ OfferInv' /\ NameInv'
    BY <1>1 DEF FilesInv, Quiet, OfferInv, NameInv, fileVars
  <1>3. \A w \in Window : /\ saver'[R(w)].path = saver[R(w)].path
                          /\ saver'[R(w)].archive = saver[R(w)].archive
                          /\ saver'[Q(w)].phase = saver[Q(w)].phase
                          /\ saver'[Q(w)].path = saver[Q(w)].path
    BY PathFacts DEF SavedAs
  <1>4. CheckpointInv'
    BY <1>1, <1>3 DEF FilesInv, CheckpointInv, fileVars
  <1> QED
    BY <1>2, <1>4 DEF FilesInv

\* The transfers.
LEMMA TransfersKeepFiles ==
    ASSUME TransferTypes, FileTypes, FilesInv, NEW w \in Window, Transfers(w)
    PROVE  FilesInv'
  <1>1. \A v \in Window : Saving(v) => jobs'[v].deferred = jobs[v].deferred
    <2>1. ASSUME NEW j \in Job, Submit(w, j) \/ Published(w, j)  PROVE \A v \in Window : ~Saving(v)
      BY <2>1 DEF Submit, Published, Free, Saving, R
    <2>2. ASSUME NextSession(w) \/ TakesDeferred(w)  PROVE \A v \in Window : ~Saving(v)
      BY <2>2 DEF NextSession, TakesDeferred, Free, Saving, R
    <2>3. ASSUME NEW j \in Job, Planned(w, j)
          PROVE  \A v \in Window : jobs'[v].deferred = jobs[v].deferred
      BY <2>3, PlannedDoes
    <2>4. ASSUME NEW i \in Item, WorkOn(w, i)  PROVE jobs' = jobs
      BY <2>4 DEF WorkOn
    <2> QED
      BY <2>1, <2>2, <2>3, <2>4 DEF Transfers
  <1> QED
    BY <1>1, TransfersTouchNoFiles, FilesByTransfers

\* A checkpoint begins: the path is the window's own.
LEMMA EndSessionKeepsFiles ==
    ASSUME TransferTypes, FileTypes, FilesInv, NEW w \in Window, EndSession(w)
    PROVE  FilesInv'
  <1>1. /\ up /\ Free /\ w \notin ending /\ ending' = ending \cup {w}
        /\ UNCHANGED <<up, boot, disk, name, hand, listed, offered, jobs>>
        /\ Starts(R(w), name[w])
    BY DEF EndSession, processVars, windowVars, planVars, offerVars, R
  <1>2. name[w] \in Past /\ name[w] \in Path /\ R(w) \in Saver
    BY PathFacts DEF FileTypes
  <1>3. /\ \A t \in Saver \ {R(w)} : saver'[t] = saver[t]
        /\ saver'[R(w)].path = name[w] /\ saver'[R(w)].archive.plan = {}
        /\ saver'[R(w)].archive.appends = jobs[w].deferred
    BY <1>1, <1>2, StartsDoes, PathFacts
  <1>4. /\ \A v \in Window : ~Saving(v) /\ ~Adopted(v)
        /\ \A v \in Window \ {w} : ~Saving(v)'
        /\ \A v \in Window : saver'[Q(v)] = saver[Q(v)]
    <2>1. \A v \in Window : ~Saving(v) /\ ~Adopted(v)
      BY <1>1 DEF Free, Saving, Adopted, R
    <2>2. \A v \in Window : /\ v # w => saver'[R(v)] = saver[R(v)]
                            /\ saver'[Q(v)] = saver[Q(v)]
      BY <1>3, PathFacts
    <2> QED
      BY <2>1, <2>2 DEF Saving
  <1>5. Past' = Past /\ \A v \in Window : Taken(v)' = Taken(v) /\ Adopted(v)' = Adopted(v)
    BY <1>1 DEF Past, Taken, Adopted
  <1>6. Quiet' /\ OfferInv'
    BY <1>1, <1>5 DEF FilesInv, Quiet, OfferInv
  <1>7. NameInv'
    BY <1>1, <1>5 DEF FilesInv, NameInv
  <1>8. /\ disk[name[w]] = NoFile
        /\ \A v \in Window : /\ Taken(v) # name[w]
                             /\ v \notin ending' => name[v] # name[w]
    BY <1>1, <1>4 DEF FilesInv, NameInv
  <1>9. CheckpointInv'
    BY <1>1, <1>2, <1>3, <1>4, <1>5, <1>8 DEF FilesInv, CheckpointInv
  <1> QED
    BY <1>6, <1>7, <1>9 DEF FilesInv

\* A queue is saved to a file no process takes over.
LEMMA SaveQueueKeepsFiles ==
    ASSUME TransferTypes, FileTypes, FilesInv, NEW w \in Window, SaveQueue(w)
    PROVE  FilesInv'
  <1>1. /\ up /\ UNCHANGED <<up, boot, disk, name, hand, listed, offered, jobs, ending>>
        /\ Starts(Q(w), Queue)
    BY DEF SaveQueue, processVars, windowVars, planVars, offerVars, Q
  <1>2. /\ \A t \in Saver \ {Q(w)} : saver'[t] = saver[t]
        /\ saver'[Q(w)].path = Queue
    BY <1>1, StartsDoes, PathFacts
  <1>3. \A v \in Window : saver'[R(v)] = saver[R(v)] /\ (v # w => saver'[Q(v)] = saver[Q(v)])
    BY <1>2, PathFacts
  <1>4. Past' = Past /\ \A v \in Window : /\ Taken(v)' = Taken(v) /\ Adopted(v)' = Adopted(v)
                                          /\ Saving(v)' = Saving(v)
    BY <1>1, <1>3 DEF Past, Taken, Adopted, Saving
  <1>5. Quiet' /\ OfferInv' /\ NameInv'
    BY <1>1, <1>4 DEF FilesInv, Quiet, OfferInv, NameInv
  <1>6. CheckpointInv'
    BY <1>1, <1>2, <1>3, <1>4 DEF FilesInv, CheckpointInv
  <1> QED
    BY <1>5, <1>6 DEF FilesInv

\* The steps of a save: what is deferred has nothing in the plan.
LEMMA GoesOnKeepsFiles ==
    ASSUME TransferTypes, FileTypes, FilesInv, ByHandInv, \A v \in Window : DeferredInv(v),
           NEW s \in Saver, GoesOn(s)
    PROVE  FilesInv'
  <1>1. /\ up /\ UNCHANGED <<up, boot, disk, name, hand, listed, offered, jobs, ending, at>>
        /\ saver[s].phase # "Idle"
    <2>1. up /\ UNCHANGED Unsaved /\ UNCHANGED disk
      BY DEF GoesOn, ReadRemovals, ExportPlan, OpenStaging, WriteStaging, FlushStaging, At
    <2> QED
      BY <2>1, GoesOnDoes DEF Unsaved, processVars, windowVars, planVars, offerVars
  <1>2. /\ \A t \in Saver \ {s} : saver'[t] = saver[t]
        /\ saver'[s].path = saver[s].path /\ saver'[s].phase # "Idle"
        /\ saver'[s].archive.appends = saver[s].archive.appends
        /\ saver'[s].archive.plan \in {saver[s].archive.plan, Exported(s)}
    BY GoesOnDoes
  <1>3. Past' = Past /\ \A v \in Window : Taken(v)' = Taken(v) /\ Adopted(v)' = Adopted(v)
    BY <1>1 DEF Past, Taken, Adopted
  <1>4. \A v \in Window : Saving(v)' = Saving(v) /\ R(v) \in Saver /\ Q(v) \in Saver
    BY <1>1, <1>2, PathFacts DEF Saving
  <1>5. Quiet' /\ OfferInv' /\ NameInv'
    BY <1>1, <1>3 DEF FilesInv, Quiet, OfferInv, NameInv
  <1>6. ASSUME NEW v \in Window, s = R(v)
        PROVE  Exported(s) \cap Contents(jobs[v].deferred) = {}
    <2>1. Exported(s) \subseteq Held(v)
      BY <1>6, PathFacts, CapturedFacts DEF Exported, State
    <2>2. byHand = 0
      BY <1>1, <1>6 DEF ByHandInv, Saving
    <2>3. Held(v) \cap Contents(jobs[v].deferred) = {}
      BY <2>2 DEF DeferredInv
    <2> QED
      BY <2>1, <2>3
  <1>7. \A v \in Window : Saving(v) =>
           saver'[R(v)].archive.plan \cap Contents(saver'[R(v)].archive.appends) = {}
    BY <1>2, <1>4, <1>6 DEF FilesInv, CheckpointInv
  <1>8. \A v \in Window : /\ saver'[R(v)].path = saver[R(v)].path
                          /\ saver'[Q(v)].path = saver[Q(v)].path
                          /\ saver'[R(v)].archive.appends = saver[R(v)].archive.appends
                          /\ saver'[Q(v)].phase # "Idle" => saver[Q(v)].phase # "Idle"
    BY <1>1, <1>2, <1>4
  <1>9. CheckpointInv'
    BY <1>1, <1>3, <1>4, <1>7, <1>8 DEF FilesInv, CheckpointInv
  <1> QED
    BY <1>5, <1>9 DEF FilesInv

\* The end of a save: only the path it was for changes.
LEMMA SaveEndsKeepsFiles ==
    ASSUME TransferTypes, FileTypes, FilesInv,
           NEW s \in Saver, Finishes(s)
    PROVE  FilesInv'
  <1>1. /\ up /\ UNCHANGED <<up, boot, name, hand, listed, offered, jobs, ending>>
    BY DEF Finishes, RetireEmpty, RenameStaged, SaveFails, Unsaved, processVars, windowVars,
           planVars, offerVars, At
  <1>2. /\ \A t \in Saver \ {s} : saver'[t] = saver[t]
        /\ saver'[s].phase = "Idle" /\ saver[s].phase # "Idle"
    BY SaveEnds
  <1>3. \A p \in Path : p # saver[s].path => disk'[p] = disk[p]
    BY DEF Finishes, RetireEmpty, RenameStaged, SaveFails, FileTypes
  <1>4. Past' = Past /\ \A v \in Window : Taken(v)' = Taken(v) /\ Adopted(v)' = Adopted(v)
    BY <1>1 DEF Past, Taken, Adopted
  <1>5. /\ \A v \in Window : /\ Saving(v)' => Saving(v) /\ s # R(v) /\ saver'[R(v)] = saver[R(v)]
                             /\ saver'[Q(v)].phase # "Idle" => saver'[Q(v)] = saver[Q(v)]
        /\ \A v \in Window : s = R(v) => Saving(v)
    BY <1>2, PathFacts DEF Saving
  <1>6. \/ saver[s].path = Queue
        \/ \E v \in Window : s = R(v) /\ Saving(v) /\ saver[s].path \in Past
                             /\ \A u \in Window \ ending : name[u] # saver[s].path
    BY <1>2, <1>5, PathFacts DEF FilesInv, CheckpointInv
  <1>7. OfferInv'
    BY <1>1, <1>4 DEF FilesInv, OfferInv
  <1>8. Quiet'
    <2>1. \A p \in Session : p \notin Past => p # saver[s].path /\ disk'[p] = disk[p]
      BY <1>3, <1>6, PathFacts
    <2> QED
      BY <1>1, <1>4, <2>1 DEF FilesInv, Quiet
  <1>9. NameInv'
    <2>1. \A u \in Window \ ending : disk'[name[u]] = disk[name[u]]
      <3>1. \A u \in Window : name[u] \in Session /\ name[u] \in Path /\ name[u] # Queue
        BY PathFacts DEF FileTypes
      <3> QED
        BY <1>3, <1>6, <3>1
    <2> QED
      BY <1>1, <1>4, <2>1 DEF FilesInv, NameInv
  <1>10. CheckpointInv'
    <2>1. ASSUME NEW v \in Window, Saving(v)'  PROVE disk'[saver[R(v)].path] = disk[saver[R(v)].path]
      <3>1. Saving(v) /\ s # R(v) /\ saver[R(v)].path \in Past
        BY <1>5, <2>1 DEF FilesInv, CheckpointInv
      <3>2. saver[s].path = Queue
        BY <1>6, <3>1 DEF FilesInv, CheckpointInv
      <3> QED
        BY <1>3, <3>1, <3>2, PathFacts
    <2> QED
      BY <1>1, <1>4, <1>5, <2>1 DEF FilesInv, CheckpointInv
  <1> QED
    BY <1>7, <1>8, <1>9, <1>10 DEF FilesInv

\* The process ends, and another one has names of its own.
LEMMA RestartsKeepFiles ==
    ASSUME TransferTypes, FileTypes, FilesInv, Dies \/ Boots
    PROVE  FilesInv'
  <1>1. CASE Dies
    <2>1. /\ ~up' /\ boot' = boot /\ offered' = <<>> /\ ending' = {} /\ ~listed'
          /\ \A s \in Saver : saver'[s] = NoSave /\ hand'[s] = NoHand
          /\ \A p \in Path : disk'[p] = disk[p]
      BY <1>1 DEF Dies, FileTypes, Archived
    <2>2. Past' = Past /\ ToSet(offered') = {} /\ IsInjective(offered')
      BY <2>1 DEF Past, ToSet, IsInjective
    <2>3. \A w \in Window : /\ Taken(w)' = None /\ ~Adopted(w)' /\ ~Saving(w)'
                            /\ saver'[Q(w)].phase = "Idle" /\ hand'[R(w)].phase = "None"
                            /\ hand'[Q(w)].phase = "None" /\ hand'[R(w)] = NoHand
      BY <2>1, NoFacts, PathFacts DEF Taken, Adopted, Saving
    <2>4. Quiet'
      BY <2>1, <2>2, <2>3, PathFacts DEF FilesInv, Quiet
    <2>5. OfferInv'
      BY <2>1, <2>2, <2>3, PathFacts DEF OfferInv
    <2>6. NameInv' /\ CheckpointInv'
      BY <2>1, <2>3 DEF NameInv, CheckpointInv
    <2> QED
      BY <2>4, <2>5, <2>6 DEF FilesInv
  <1>2. CASE Boots
    <2>1. /\ ~up /\ up' /\ boot' = boot + 1 /\ boot \in Nat /\ boot + 1 \in Boot
          /\ UNCHANGED <<disk, ending, saver, hand, listed, offered, jobs>>
      BY <1>2, RecoveryAssumption DEF Boots, planVars, saveVars, offerVars, FileTypes, Boot
    <2>2. /\ \A w \in Window : name'[w] = <<boot + 1, w>>
          /\ \A w \in Window : <<boot + 1, w>> \in Session /\ <<boot + 1, w>> \notin Past
          /\ Past \subseteq Past'
      BY <1>2, <2>1 DEF Boots, Past, Session, Boot
    <2>3. /\ offered = <<>> /\ ending = {} /\ ~listed
          /\ \A s \in Saver : saver[s] = NoSave /\ hand[s] = NoHand
      BY <2>1 DEF FilesInv, Quiet
    <2>4. \A w \in Window : /\ Taken(w)' = None /\ ~Adopted(w)' /\ ~Saving(w)'
                            /\ saver'[Q(w)].phase = "Idle" /\ hand'[R(w)].phase = "None"
                            /\ hand'[Q(w)].phase = "None" /\ hand'[R(w)] = NoHand
                            /\ name'[w] # None
      <3>1. \A w \in Window : /\ hand'[R(w)] = NoHand /\ hand'[Q(w)] = NoHand
                              /\ saver'[R(w)] = NoSave /\ saver'[Q(w)] = NoSave
        BY <2>1, <2>3, PathFacts
      <3>2. ASSUME NEW w \in Window  PROVE name'[w] # None
        <4>1. name'[w] \in Session
          BY <2>2
        <4> QED
          BY <4>1, RecoveryAssumption
      <3> QED
        BY <3>1, <3>2, NoFacts DEF Taken, Adopted, Saving
    <2>5. ToSet(offered') = {} /\ IsInjective(offered')
      BY <2>1, <2>3 DEF ToSet, IsInjective
    <2>6. Quiet'
      BY <2>1, <2>2, <2>3, <2>4 DEF FilesInv, Quiet
    <2>7. OfferInv'
      BY <2>1, <2>3, <2>4, <2>5 DEF OfferInv
    <2>8. NameInv'
      <3>1. \A w \in Window : disk'[name'[w]] = NoFile
        BY <2>1, <2>2 DEF FilesInv, Quiet
      <3>2. \A v, w \in Window : v # w => name'[v] # name'[w]
        BY <2>2
      <3> QED
        BY <2>4, <2>5, <3>1, <3>2 DEF NameInv
    <2>9. CheckpointInv'
      BY <2>4 DEF CheckpointInv
    <2> QED
      BY <2>6, <2>7, <2>8, <2>9 DEF FilesInv
  <1> QED
    BY <1>1, <1>2

\* A step about the queue a person picked concerns no recovery file.
LEMMA QueueHandKeepsFiles ==
    ASSUME TransferTypes, FileTypes, FilesInv, up, NEW w \in Window,
           UNCHANGED <<up, boot, disk, name, ending, saver, listed, offered>>,
           \A t \in Saver \ {Q(w)} : hand'[t] = hand[t],
           \/ hand'[Q(w)] = NoHand
           \/ hand'[Q(w)].phase # "None" /\ hand'[Q(w)].path = Queue,
           \A v \in Window : Saving(v) => jobs'[v].deferred = jobs[v].deferred
    PROVE  FilesInv'
  <1>1. \A v \in Window : hand'[R(v)] = hand[R(v)] /\ (v # w => hand'[Q(v)] = hand[Q(v)])
    BY PathFacts
  <1>2. Past' = Past /\ \A v \in Window : /\ Taken(v)' = Taken(v) /\ Adopted(v)' = Adopted(v)
                                          /\ Saving(v)' = Saving(v)
    BY <1>1 DEF Past, Taken, Adopted, Saving
  <1>3. Quiet'
    BY <1>1, <1>2 DEF FilesInv, Quiet
  <1>4. OfferInv'
    <2>1. \A s \in Saver : hand'[s].phase = "None" => hand'[s] = NoHand
      BY DEF FilesInv, OfferInv
    <2>2. \A v \in Window : hand'[Q(v)].phase # "None" => hand'[Q(v)].path = Queue
      BY <1>1, NoFacts DEF FilesInv, OfferInv
    <2> QED
      BY <1>1, <1>2, <2>1, <2>2 DEF FilesInv, OfferInv
  <1>5. NameInv'
    BY <1>2 DEF FilesInv, NameInv
  <1>6. CheckpointInv'
    BY <1>2 DEF FilesInv, CheckpointInv
  <1> QED
    BY <1>3, <1>4, <1>5, <1>6 DEF FilesInv

\* A file that stays with the window concerns nobody else.
LEMMA HandGoesOn ==
    ASSUME TransferTypes, FileTypes, FilesInv, up, NEW w \in Window,
           UNCHANGED <<up, boot, disk, name, ending, saver, listed, offered, jobs>>,
           \A t \in Saver \ {R(w)} : hand'[t] = hand[t],
           hand[R(w)].phase \in {"Loading", "Ready"},
           hand'[R(w)].phase \in {"Ready", "Asking"}, hand'[R(w)].path = hand[R(w)].path
    PROVE  FilesInv'
  <1>1. \A v \in Window : hand'[Q(v)] = hand[Q(v)] /\ (v # w => hand'[R(v)] = hand[R(v)])
    BY PathFacts
  <1>2. Past' = Past /\ \A v \in Window : /\ Taken(v)' = Taken(v) /\ Adopted(v)' = Adopted(v)
                                          /\ Saving(v)' = Saving(v)
    BY <1>1 DEF Past, Taken, Adopted, Saving
  <1>3. Quiet'
    <2>1. listed
      BY NoFacts DEF FilesInv, Quiet
    <2> QED
      BY <1>2, <2>1 DEF FilesInv, Quiet
  <1>4. OfferInv'
    <2>1. \A s \in Saver : hand'[s].phase = "None" => hand'[s] = NoHand
      BY DEF FilesInv, OfferInv
    <2>2. \A v \in Window : hand'[R(v)].phase # "None" => Taken(v) \in Past
      BY <1>1 DEF FilesInv, OfferInv
    <2> QED
      BY <1>1, <1>2, <2>1, <2>2 DEF FilesInv, OfferInv
  <1>5. NameInv'
    BY <1>2 DEF FilesInv, NameInv
  <1>6. CheckpointInv'
    BY <1>2 DEF FilesInv, CheckpointInv
  <1> QED
    BY <1>3, <1>4, <1>5, <1>6 DEF FilesInv

\* A window lets go of a file that is gone: rejected, discarded or retired.
LEMMA HandLetsGo ==
    ASSUME TransferTypes, FileTypes, FilesInv, up, NEW w \in Window,
           UNCHANGED <<up, boot, name, ending, saver, listed, offered, jobs>>,
           hand' = [hand EXCEPT ![R(w)] = NoHand],
           disk' = [disk EXCEPT ![hand[R(w)].path] = NoFile],
           hand[R(w)].phase # "None"
    PROVE  FilesInv'
  <1>0. hand'[R(w)] = NoHand /\ \A t \in Saver \ {R(w)} : hand'[t] = hand[t]
    BY PathFacts, LetGoDoes
  <1>1. \A v \in Window : hand'[Q(v)] = hand[Q(v)] /\ (v # w => hand'[R(v)] = hand[R(v)])
    BY <1>0, PathFacts
  <1>2. /\ Past' = Past /\ Taken(w)' = None /\ ~Adopted(w)'
        /\ \A v \in Window : /\ Saving(v)' = Saving(v)
                             /\ v # w => Taken(v)' = Taken(v) /\ Adopted(v)' = Adopted(v)
    BY <1>0, <1>1, NoFacts DEF Past, Taken, Adopted, Saving
  <1>3. Taken(w) \in Past /\ Taken(w) \in Path
    BY PathFacts DEF FilesInv, OfferInv
  <1>4. disk'[Taken(w)] = NoFile /\ \A p \in Path : disk'[p] \in {disk[p], NoFile}
    BY <1>3 DEF FileTypes, Taken
  <1>5. \A v \in Window : name[v] # None /\ name[v] \in Path
    BY PathFacts, RecoveryAssumption DEF FileTypes
  <1>6. Quiet'
    <2>1. \A p \in Session : p \notin Past => disk'[p] = NoFile
      BY <1>4, PathFacts DEF FilesInv, Quiet
    <2>2. listed
      BY NoFacts DEF FilesInv, Quiet
    <2> QED
      BY <1>2, <2>1, <2>2 DEF FilesInv, Quiet
  <1>7. OfferInv'
    <2>1. None \notin ToSet(offered)
      BY PathFacts DEF FileTypes, ToSet
    <2>2. \A s \in Saver : hand'[s].phase = "None" => hand'[s] = NoHand
      BY <1>0 DEF FilesInv, OfferInv
    <2>3. \A v \in Window : /\ hand'[R(v)].phase # "None" => Taken(v)' \in Past
                            /\ hand'[Q(v)].phase # "None" => hand'[Q(v)].path = Queue
      BY <1>0, <1>1, <1>2, NoFacts DEF FilesInv, OfferInv
    <2>4. \A v \in Window : Taken(v)' \notin ToSet(offered) /\ (Adopted(v)' => name[v] = Taken(v)')
      BY <1>2, <2>1 DEF FilesInv, OfferInv
    <2>5. \A v, u \in Window : v # u /\ Taken(v)' # None => Taken(v)' # Taken(u)'
      BY <1>2 DEF FilesInv, OfferInv
    <2> QED
      BY <1>2, <2>2, <2>3, <2>4, <2>5 DEF FilesInv, OfferInv
  <1>8. NameInv'
    <2>1. ASSUME NEW u \in Window \ ending, ~Adopted(u)'  PROVE disk'[name[u]] = NoFile
      <3>1. CASE Adopted(u)
        <4>1. u = w /\ name[w] = Taken(w)
          BY <1>2, <2>1, <3>1 DEF FilesInv, OfferInv
        <4> QED
          BY <1>4, <4>1
      <3>2. CASE ~Adopted(u)
        BY <1>4, <1>5, <3>2 DEF FilesInv, NameInv
      <3> QED
        BY <3>1, <3>2
    <2>2. ASSUME NEW u \in Window \ ending, NEW v \in Window, Taken(v)' = name[u]
          PROVE  v = u /\ Adopted(v)'
      BY <1>2, <1>5, <2>2 DEF FilesInv, NameInv
    <2>3. \A u \in Window \ ending : /\ name[u] \notin ToSet(offered)
                                     /\ \A v \in Window \ ending : v # u => name[v] # name[u]
      BY DEF FilesInv, NameInv
    <2> QED
      BY <2>1, <2>2, <2>3 DEF NameInv
  <1>9. CheckpointInv'
    <2>1. ASSUME NEW v \in Window, Saving(v)  PROVE disk'[saver[R(v)].path] = NoFile
                                                    /\ saver[R(v)].path # None
      <3>1. saver[R(v)].path \in Past /\ disk[saver[R(v)].path] = NoFile
        BY <2>1 DEF FilesInv, CheckpointInv
      <3> QED
        BY <1>4, <3>1, PathFacts
    <2>2. \A u, v \in Window : Saving(v) => Taken(u)' # saver[R(v)].path /\ ~Adopted(u)'
      BY <1>2, <2>1 DEF FilesInv, CheckpointInv
    <2>3. \A u, v \in Window : Adopted(u)' /\ Adopted(v)' => u = v
      BY <1>2 DEF FilesInv, CheckpointInv
    <2> QED
      BY <1>2, <2>1, <2>2, <2>3 DEF FilesInv, CheckpointInv
  <1> QED
    BY <1>6, <1>7, <1>8, <1>9 DEF FilesInv

\* ReturnRecoveryFile: it is on offer again, and with nobody.
LEMMA GiveBackKeepsFiles ==
    ASSUME TransferTypes, FileTypes, FilesInv, NEW w \in Window, GiveBack(w)
    PROVE  FilesInv'
  <1>0. /\ up /\ Free /\ hand[R(w)].phase \in {"Ready", "Asking"}
        /\ UNCHANGED <<up, boot, disk, name, ending, saver, listed, jobs>>
        /\ hand' = [hand EXCEPT ![R(w)] = NoHand]
        /\ offered' = <<Taken(w)>> \o offered
    BY DEF GiveBack, R, Taken, processVars, windowVars, planVars, saveVars
  <1>1. hand'[R(w)] = NoHand /\ \A t \in Saver \ {R(w)} : hand'[t] = hand[t]
    BY <1>0, PathFacts, LetGoDoes
  <1>2. \A v \in Window : hand'[Q(v)] = hand[Q(v)] /\ (v # w => hand'[R(v)] = hand[R(v)])
    BY <1>1, PathFacts
  <1>3. \A v \in Window : ~Saving(v) /\ ~Adopted(v)
    BY <1>0 DEF Free, Saving, Adopted, R
  <1>4. /\ Past' = Past /\ Taken(w)' = None
        /\ \A v \in Window : /\ ~Saving(v)' /\ ~Adopted(v)'
                             /\ v # w => Taken(v)' = Taken(v)
    BY <1>0, <1>1, <1>2, <1>3, NoFacts DEF Past, Taken, Adopted, Saving
  <1>5. Taken(w) \in Past /\ Taken(w) \notin ToSet(offered) /\ Taken(w) # None
    BY <1>0, RecoveryAssumption, PathFacts DEF FilesInv, OfferInv
  <1>6. IsInjective(offered') /\ ToSet(offered') = ToSet(offered) \cup {Taken(w)}
    BY <1>0, <1>5, GivenBackToList DEF FilesInv, OfferInv, FileTypes
  <1>7. \A v \in Window : name[v] # None /\ name[v] \in Path
    BY PathFacts, RecoveryAssumption DEF FileTypes
  <1>8. Quiet'
    <2>1. listed
      BY <1>0, NoFacts DEF FilesInv, Quiet
    <2> QED
      BY <1>0, <1>4, <2>1 DEF FilesInv, Quiet
  <1>9. OfferInv'
    <2>1. None \notin ToSet(offered')
      <3>1. None \notin ToSet(offered)
        BY PathFacts DEF FileTypes, ToSet
      <3> QED
        BY <1>5, <1>6, <3>1
    <2>2. \A s \in Saver : hand'[s].phase = "None" => hand'[s] = NoHand
      BY <1>1 DEF FilesInv, OfferInv
    <2>3. \A v \in Window : /\ hand'[R(v)].phase # "None" => Taken(v)' \in Past
                            /\ hand'[Q(v)].phase # "None" => hand'[Q(v)].path = Queue
      BY <1>1, <1>2, <1>4, NoFacts DEF FilesInv, OfferInv
    <2>4. \A v \in Window : Taken(v)' \notin ToSet(offered')
      BY <1>4, <1>5, <1>6, <2>1 DEF FilesInv, OfferInv
    <2>5. \A v, u \in Window : v # u /\ Taken(v)' # None => Taken(v)' # Taken(u)'
      BY <1>4 DEF FilesInv, OfferInv
    <2> QED
      BY <1>4, <1>6, <2>2, <2>3, <2>4, <2>5 DEF OfferInv
  <1>10. NameInv'
    <2>1. \A u \in Window \ ending : /\ name[u] \notin ToSet(offered')
                                     /\ disk[name[u]] = NoFile
                                     /\ \A v \in Window : Taken(v)' # name[u]
                                     /\ \A v \in Window \ ending : v # u => name[v] # name[u]
      BY <1>0, <1>3, <1>4, <1>6, <1>7 DEF FilesInv, NameInv
    <2> QED
      BY <1>0, <2>1 DEF NameInv
  <1>11. CheckpointInv'
    BY <1>0, <1>4 DEF FilesInv, CheckpointInv
  <1> QED
    BY <1>8, <1>9, <1>10, <1>11 DEF FilesInv

\* The window goes on under the name of the file it has adopted.
LEMMA ResumeKeepsFiles ==
    ASSUME TransferTypes, FileTypes, FilesInv, NEW w \in Window, Resume(w)
    PROVE  FilesInv'
  <1>0. /\ up /\ Free /\ hand[R(w)].phase = "Asking" /\ w \notin ending
        /\ UNCHANGED <<up, boot, disk, ending, saver, listed, offered>>
        /\ hand' = [hand EXCEPT ![R(w)].phase = "Adopted"]
        /\ name' = [name EXCEPT ![w] = Taken(w)]
    BY DEF Resume, R, Taken, processVars, saveVars
  <1>1. /\ \A t \in Saver \ {R(w)} : hand'[t] = hand[t]
        /\ hand'[R(w)].phase = "Adopted" /\ hand'[R(w)].path = Taken(w)
    BY <1>0, PathFacts, PhaseDoes DEF Taken
  <1>2. \A v \in Window : hand'[Q(v)] = hand[Q(v)] /\ (v # w => hand'[R(v)] = hand[R(v)])
    BY <1>1, PathFacts
  <1>3. \A v \in Window : ~Saving(v) /\ ~Adopted(v)
    BY <1>0 DEF Free, Saving, Adopted, R
  <1>4. /\ Past' = Past /\ Adopted(w)'
        /\ \A v \in Window : /\ ~Saving(v)' /\ Taken(v)' = Taken(v)
                             /\ v # w => ~Adopted(v)'
    BY <1>0, <1>1, <1>2, <1>3 DEF Past, Taken, Adopted, Saving
  <1>5. Taken(w) \in Past /\ Taken(w) \notin ToSet(offered) /\ Taken(w) # None
    BY <1>0, RecoveryAssumption, PathFacts DEF FilesInv, OfferInv
  <1>6. name'[w] = Taken(w) /\ \A v \in Window \ {w} : name'[v] = name[v]
    BY <1>0 DEF FileTypes
  <1>7. Quiet'
    <2>1. listed
      BY <1>0, NoFacts DEF FilesInv, Quiet
    <2> QED
      BY <1>0, <1>4, <2>1 DEF FilesInv, Quiet
  <1>8. OfferInv'
    <2>1. \A s \in Saver : hand'[s].phase = "None" => hand'[s] = NoHand
      BY <1>1 DEF FilesInv, OfferInv
    <2>2. \A v \in Window : /\ hand'[R(v)].phase # "None" => Taken(v)' \in Past
                            /\ hand'[Q(v)].phase # "None" => hand'[Q(v)].path = Queue
                            /\ Adopted(v)' => name'[v] = Taken(v)'
      BY <1>2, <1>4, <1>5, <1>6 DEF FilesInv, OfferInv
    <2> QED
      BY <1>0, <1>4, <2>1, <2>2 DEF FilesInv, OfferInv
  <1>9. NameInv'
    <2>1. \A u \in Window \ ending : u # w => name[u] # Taken(w)
      BY <1>0 DEF FilesInv, NameInv
    <2>2. \A u \in Window \ ending :
             /\ name'[u] \notin ToSet(offered)
             /\ ~Adopted(u)' => disk[name'[u]] = NoFile
      BY <1>0, <1>3, <1>4, <1>5, <1>6 DEF FilesInv, NameInv
    <2>3. ASSUME NEW u \in Window \ ending, NEW v \in Window, Taken(v) = name'[u]
          PROVE  v = u /\ Adopted(v)'
      <3>1. CASE u = w
        BY <1>4, <1>5, <1>6, <2>3, <3>1 DEF FilesInv, OfferInv
      <3>2. CASE u # w
        BY <1>0, <1>3, <1>6, <2>3, <3>2 DEF FilesInv, NameInv
      <3> QED
        BY <3>1, <3>2
    <2>4. \A u, v \in Window \ ending : u # v => name'[u] # name'[v]
      BY <1>0, <1>6, <2>1 DEF FilesInv, NameInv
    <2> QED
      BY <1>0, <1>4, <2>2, <2>3, <2>4 DEF NameInv
  <1>10. CheckpointInv'
    BY <1>0, <1>4 DEF FilesInv, CheckpointInv
  <1> QED
    BY <1>7, <1>8, <1>9, <1>10 DEF FilesInv

\* A window takes the first file on offer.
LEMMA OfferKeepsFiles ==
    ASSUME TransferTypes, FileTypes, FilesInv, NEW w \in Window, Offer(w)
    PROVE  FilesInv'
  <1>0. /\ up /\ Free /\ hand[R(w)].phase = "None"
        /\ UNCHANGED <<up, boot, disk, name, ending, saver, jobs>> /\ listed'
    BY OfferDoes DEF FilesInv
  <1>1. \A v \in Window : ~Saving(v) /\ ~Adopted(v)
    BY <1>0 DEF Free, Saving, Adopted, R
  <1>2. CASE hand' = hand /\ offered' = offered
    <2>1. Past' = Past /\ \A v \in Window : /\ Taken(v)' = Taken(v) /\ Adopted(v)' = Adopted(v)
                                            /\ Saving(v)' = Saving(v)
      BY <1>0, <1>2 DEF Past, Taken, Adopted, Saving
    <2>2. Quiet' /\ OfferInv' /\ NameInv' /\ CheckpointInv'
      BY <1>0, <1>2, <2>1 DEF FilesInv, Quiet, OfferInv, NameInv, CheckpointInv
    <2> QED
      BY <2>2 DEF FilesInv
  <1>3. ASSUME NEW q \in Seq(Past), NEW p \in Past,
               IsInjective(offered'), offered' \in Seq(Past),
               p \in ToSet(q), p \notin ToSet(offered'), ToSet(offered') \subseteq ToSet(q),
               IF listed THEN q = offered ELSE \A r \in ToSet(q) : disk[r] # NoFile,
               \A t \in Saver \ {R(w)} : hand'[t] = hand[t],
               hand'[R(w)].phase = "Loading", hand'[R(w)].path = p
        PROVE  FilesInv'
    <2>1. \A v \in Window : hand'[Q(v)] = hand[Q(v)] /\ (v # w => hand'[R(v)] = hand[R(v)])
      BY <1>3, PathFacts
    <2>2. /\ Past' = Past /\ Taken(w)' = p
          /\ \A v \in Window : /\ ~Saving(v)' /\ ~Adopted(v)'
                               /\ v # w => Taken(v)' = Taken(v)
      BY <1>0, <1>1, <1>3, <2>1 DEF Past, Taken, Adopted, Saving
    <2>3. p # None /\ None \notin ToSet(q)
      BY PathFacts, RecoveryAssumption DEF ToSet
    <2>4. \A v \in Window : Taken(v) \notin ToSet(q)
      <3>1. CASE listed
        BY <1>3, <3>1 DEF FilesInv, OfferInv
      <3>2. CASE ~listed
        BY <2>3, <3>2, NoFacts DEF FilesInv, Quiet, Taken
      <3> QED
        BY <3>1, <3>2
    <2>5. \A u \in Window \ ending : name[u] \notin ToSet(q)
      <3>1. CASE listed
        BY <1>0, <1>3, <3>1 DEF FilesInv, NameInv
      <3>2. CASE ~listed
        BY <1>0, <1>1, <1>3, <3>2 DEF FilesInv, NameInv
      <3> QED
        BY <3>1, <3>2
    <2>6. Quiet'
      BY <1>0, <2>2 DEF FilesInv, Quiet
    <2>7. OfferInv'
      <3>1. \A s \in Saver : hand'[s].phase = "None" => hand'[s] = NoHand
        BY <1>3 DEF FilesInv, OfferInv
      <3>2. \A v \in Window : /\ hand'[R(v)].phase # "None" => Taken(v)' \in Past
                              /\ hand'[Q(v)].phase # "None" => hand'[Q(v)].path = Queue
        BY <2>1, <2>2 DEF FilesInv, OfferInv
      <3>3. \A v \in Window : Taken(v)' \notin ToSet(offered')
        BY <1>3, <2>2, <2>4
      <3>4. \A v, u \in Window : v # u /\ Taken(v)' # None => Taken(v)' # Taken(u)'
        BY <1>3, <2>2, <2>4 DEF FilesInv, OfferInv
      <3> QED
        BY <1>3, <2>2, <3>1, <3>2, <3>3, <3>4 DEF OfferInv
    <2>8. NameInv'
      <3>1. \A u \in Window \ ending : /\ name[u] \notin ToSet(offered')
                                       /\ disk[name[u]] = NoFile
                                       /\ \A v \in Window : Taken(v)' # name[u]
                                       /\ \A v \in Window \ ending : v # u => name[v] # name[u]
        BY <1>0, <1>1, <1>3, <2>2, <2>5 DEF FilesInv, NameInv
      <3> QED
        BY <1>0, <3>1 DEF NameInv
    <2>9. CheckpointInv'
      BY <1>0, <2>2 DEF FilesInv, CheckpointInv
    <2> QED
      BY <2>6, <2>7, <2>8, <2>9 DEF FilesInv
  <1> QED
    BY <1>2, <1>3, OfferDoes DEF FilesInv

\* The other steps of taking a file over.
LEMMA LoadsKeepFiles ==
    ASSUME TransferTypes, FileTypes, FilesInv, NEW s \in Saver, Loads(s)
    PROVE  FilesInv'
  <1>1. PICK w \in Window, k \in {"Recovery", "Queue"} : s = <<w, k>>
    BY DEF Saver
  <1>2. (s = R(w) /\ s[2] = "Recovery") \/ (s = Q(w) /\ s[2] = "Queue")
    BY <1>1 DEF R, Q
  <1>3. CASE LoadFinds(s)
    <2>1. /\ up /\ hand[s].phase = "Loading"
          /\ UNCHANGED <<up, boot, disk, name, ending, saver, listed, offered, jobs>>
      BY <1>3 DEF LoadFinds, Unloaded, processVars, windowVars, planVars, saveVars
    <2>2. hand[s].path \in Path /\ (s = Q(w) => hand[s].path = Queue)
      BY <1>2, <2>1, HandPaths, PathFacts DEF FilesInv
    <2>3. /\ \A t \in Saver \ {s} : hand'[t] = hand[t]
          /\ hand'[s].phase = "Ready" /\ hand'[s].path = hand[s].path
      BY <1>3, <2>2, LoadFindsDoes
    <2> QED
      BY <1>2, <2>1, <2>2, <2>3, QueueHandKeepsFiles, HandGoesOn
  <1>4. CASE LoadRejects(s)
    <2>1. /\ up /\ hand[s].phase = "Loading" /\ hand' = [hand EXCEPT ![s] = NoHand]
          /\ disk' = IF s[2] = "Recovery" THEN [disk EXCEPT ![hand[s].path] = NoFile] ELSE disk
          /\ UNCHANGED <<up, boot, name, ending, saver, listed, offered, jobs>>
      BY <1>4 DEF LoadRejects, Unloaded, processVars, windowVars, planVars, saveVars
    <2>2. hand'[s] = NoHand /\ \A t \in Saver \ {s} : hand'[t] = hand[t]
      BY <2>1, LetGoDoes
    <2>3. CASE s = R(w) /\ s[2] = "Recovery"
      BY <1>2, <2>1, <2>3, HandLetsGo
    <2>4. CASE s = Q(w) /\ s[2] = "Queue"
      BY <1>2, <2>1, <2>2, <2>4, QueueHandKeepsFiles
    <2> QED
      BY <1>2, <2>3, <2>4
  <1> QED
    BY <1>3, <1>4 DEF Loads

\* What a window does with a file.
LEMMA OffersKeepFiles ==
    ASSUME TransferTypes, FileTypes, FilesInv, NEW w \in Window, Offers(w)
    PROVE  FilesInv'
  <1>1. CASE Ask(w)
    <2>1. /\ up /\ hand[R(w)].phase = "Ready"
          /\ hand' = [hand EXCEPT ![R(w)].phase = "Asking"]
          /\ UNCHANGED <<up, boot, disk, name, ending, saver, listed, offered, jobs>>
      BY <1>1 DEF Ask, R, Unloaded, processVars, windowVars, planVars, saveVars
    <2>2. /\ \A t \in Saver \ {R(w)} : hand'[t] = hand[t]
          /\ hand'[R(w)].phase = "Asking" /\ hand'[R(w)].path = hand[R(w)].path
      BY <2>1, PathFacts, PhaseDoes
    <2> QED
      BY <2>1, <2>2, HandGoesOn
  <1>2. CASE Discard(w) \/ Retire(w)
    <2>1. /\ up /\ hand[R(w)].phase # "None"
          /\ hand' = [hand EXCEPT ![R(w)] = NoHand]
          /\ disk' = [disk EXCEPT ![hand[R(w)].path] = NoFile]
          /\ UNCHANGED <<up, boot, name, ending, saver, listed, offered, jobs>>
      BY <1>2 DEF Discard, Retire, R, processVars, windowVars, planVars, saveVars
    <2> QED
      BY <2>1, HandLetsGo
  <1>3. CASE PickQueue(w)
    <2>1. /\ up /\ hand' = [hand EXCEPT ![Q(w)] = [NoHand EXCEPT !.phase = "Loading", !.path = Queue]]
          /\ UNCHANGED <<up, boot, disk, name, ending, saver, listed, offered, jobs>>
      BY <1>3 DEF PickQueue, Q, processVars, windowVars, planVars
    <2>2. /\ \A t \in Saver \ {Q(w)} : hand'[t] = hand[t]
          /\ hand'[Q(w)].phase = "Loading" /\ hand'[Q(w)].path = Queue
      BY ZenonT(30), <2>1, PathFacts, LoadingDoes
    <2> QED
      BY <2>1, <2>2, QueueHandKeepsFiles
  <1>4. CASE LoadQueue(w)
    <2>1. /\ up /\ Free /\ hand' = [hand EXCEPT ![Q(w)] = NoHand]
          /\ UNCHANGED <<up, boot, disk, name, ending, saver, listed, offered>>
      BY <1>4 DEF LoadQueue, Q, processVars, saveVars
    <2>2. hand'[Q(w)] = NoHand /\ \A t \in Saver \ {Q(w)} : hand'[t] = hand[t]
      BY <2>1, PathFacts, LetGoDoes
    <2>3. \A v \in Window : ~Saving(v)
      BY <2>1 DEF Free, Saving, R
    <2> QED
      BY <2>1, <2>2, <2>3, QueueHandKeepsFiles
  <1> QED
    BY <1>1, <1>2, <1>3, <1>4, OfferKeepsFiles, GiveBackKeepsFiles, ResumeKeepsFiles DEF Offers

\* Whatever happens, the paths stay apart.
LEMMA FilesKept ==
    TransferTypes /\ FileTypes /\ FilesInv /\ ByHandInv /\ (\A w \in Window : DeferredInv(w))
          /\ [Next]_vars
       => FilesInv'
  <1> SUFFICES ASSUME TransferTypes, FileTypes, FilesInv, ByHandInv, \A w \in Window : DeferredInv(w),
                      [Next]_vars
               PROVE  FilesInv'
    OBVIOUS
  <1>1. CASE UNCHANGED vars
    BY <1>1, FilesByTransfers
       DEF vars, fileVars, processVars, windowVars, planVars, saveVars, offerVars, SavedAs
  <1>2. ASSUME NEW i \in Item, SourceVanishes(i)  PROVE FilesInv'
    BY <1>2, VanishingTouchesNoFiles, FilesByTransfers DEF SavedAs
  <1>3. ASSUME NEW s \in Saver, Saves(s)  PROVE FilesInv'
    BY <1>3, GoesOnKeepsFiles, SaveEndsKeepsFiles DEF Saves, GoesOn, Finishes
  <1> QED
    BY <1>1, <1>2, <1>3, TransfersKeepFiles, EndSessionKeepsFiles, SaveQueueKeepsFiles,
       LoadsKeepFiles, OffersKeepFiles, RestartsKeepFiles DEF Next

-----------------------------------------------------------------------------
(***************************************************************************)
(* Who changes what: the plan and the jobs of a window, and a save.        *)
(***************************************************************************)
\* The steps that change the items or the jobs of a window, or let its plan go.
LEMMA WindowSteps ==
    ASSUME TransferTypes, FileTypes, [Next]_vars, NEW w \in Window
    PROVE  \/ at'[w] = at[w] /\ jobs'[w] = jobs[w] /\ (w \in live => w \in live')
           \/ \E j \in Job : Submit(w, j) \/ Published(w, j) \/ Planned(w, j)
           \/ \E i \in Item : WorkOn(w, i)
           \/ TakesDeferred(w) \/ NextSession(w) \/ Resume(w) \/ LoadQueue(w) \/ Dies
  <1> DEFINE Same == at'[w] = at[w] /\ jobs'[w] = jobs[w] /\ (w \in live => w \in live')
  <1>1. ASSUME UNCHANGED planVars  PROVE Same
    BY <1>1 DEF planVars
  <1>2. ASSUME NEW v \in Window \ {w}, Transfers(v)  PROVE Same
    <2>1. ASSUME NEW j \in Job, Submit(v, j)  PROVE Same
      BY <2>1, SubmitDoes
    <2>2. ASSUME NEW j \in Job, Published(v, j)  PROVE Same
      BY <2>2, PublishedDoes
    <2>3. ASSUME NEW j \in Job, Planned(v, j)  PROVE Same
      BY <2>3, PlannedDoes
    <2>4. ASSUME NEW i \in Item, WorkOn(v, i)  PROVE Same
      BY <2>4, WorkOnDoes
    <2>5. ASSUME TakesDeferred(v)  PROVE Same
      BY <2>5, TakesDeferredDoes
    <2>6. ASSUME NextSession(v)  PROVE Same
      BY <2>6, NextSessionDoes
    <2> HIDE DEF Same
    <2> QED
      BY <1>2, <2>1, <2>2, <2>3, <2>4, <2>5, <2>6 DEF Transfers
  <1>3. ASSUME NEW v \in Window, EndSession(v) \/ SaveQueue(v)  PROVE UNCHANGED planVars
    BY <1>3 DEF EndSession, SaveQueue, windowVars
  <1>4. ASSUME NEW s \in Saver, Saves(s) \/ Loads(s)  PROVE UNCHANGED planVars
    BY <1>4 DEF Saves, Loads, ReadRemovals, ExportPlan, RetireEmpty, OpenStaging, WriteStaging,
                FlushStaging, RenameStaged, SaveFails, LoadFinds, LoadRejects, Unsaved, Unloaded,
                windowVars
  <1>5. ASSUME NEW v \in Window,
               Offer(v) \/ Ask(v) \/ GiveBack(v) \/ Discard(v) \/ Retire(v) \/ PickQueue(v)
        PROVE  UNCHANGED planVars
    BY <1>5 DEF Offer, Ask, GiveBack, Discard, Retire, PickQueue, Unloaded, windowVars
  <1>6. ASSUME NEW v \in Window \ {w}, Resume(v) \/ LoadQueue(v)  PROVE Same
    <2>1. ASSUME NEW a \in Archive, Adopts(v, a), UNCHANGED <<fresh, source, told>>  PROVE Same
      BY <2>1, AdoptsDoes
    <2>2. CASE Resume(v)
      <3>1. /\ Adopts(v, hand[R(v)].archive) /\ UNCHANGED <<fresh, source, told>>
            /\ hand[R(v)].archive \in Archive
        BY <2>2, PathFacts DEF Resume, R, FileTypes, Hand
      <3> QED
        BY <2>1, <3>1
    <2>3. CASE LoadQueue(v)
      <3>1. UNCHANGED <<fresh, source, told>> /\ hand[Q(v)].archive \in Archive
        BY <2>3, PathFacts DEF LoadQueue, FileTypes, Hand
      <3> QED
        BY <2>1, <2>3, <3>1, LoadQueueDoes
    <2> QED
      BY <1>6, <2>2, <2>3
  <1>7. ASSUME UNCHANGED vars \/ Boots \/ \E i \in Item : SourceVanishes(i)
        PROVE  UNCHANGED planVars
    BY <1>7 DEF vars, Boots, SourceVanishes, windowVars
  <1> HIDE DEF Same
  <1> QED
    BY <1>1, <1>2, <1>3, <1>4, <1>5, <1>6, <1>7 DEF Next, Transfers, Offers, Same

\* A save is as it was.
KeptAs(s) == SavedAs(s) /\ saver'[s].owed = saver[s].owed /\ saver'[s].current = saver[s].current

\* The steps that change a save.
LEMMA SaverSteps ==
    ASSUME FileTypes, [Next]_vars, NEW s \in Saver
    PROVE  \/ KeptAs(s)
           \/ GoesOn(s) \/ Finishes(s)
           \/ s = R(s[1]) /\ EndSession(s[1])
           \/ s = Q(s[1]) /\ SaveQueue(s[1])
           \/ \E i \in Item : WorkOn(s[1], i)
           \/ NextSession(s[1]) \/ Dies
  <1>0. ASSUME saver'[s] = saver[s]  PROVE KeptAs(s)
    BY <1>0 DEF KeptAs, SavedAs
  <1>1. ASSUME NEW w \in Window, NEW j \in Job,
               Submit(w, j) \/ Published(w, j) \/ Planned(w, j) \/ TakesDeferred(w)
        PROVE  saver' = saver
    BY <1>1 DEF Submit, Published, Planned, TakesDeferred, saveVars
  <1>2. ASSUME NEW w \in Window, TakesDeferred(w)  PROVE saver' = saver
    BY <1>2 DEF TakesDeferred, saveVars
  <1>3. ASSUME NEW w \in Window, w # s[1], NEW i \in Item, WorkOn(w, i)  PROVE KeptAs(s)
    <2>1. Forgets(w, i, TRUE) \/ Forgets(w, i, FALSE) \/ UNCHANGED saver
      <3> HIDE DEF Forgets
      <3> QED
        BY <1>3 DEF WorkOn
    <2>2. ASSUME NEW gone \in BOOLEAN, Forgets(w, i, gone)  PROVE KeptAs(s)
      BY <1>3, <2>2, ForgetsDoes DEF KeptAs
    <2> QED
      BY <1>0, <2>1, <2>2
  <1>4. ASSUME NEW w \in Window, w # s[1], NextSession(w)  PROVE KeptAs(s)
    <2>1. saver[s].current \in BOOLEAN
      BY DEF FileTypes, Save
    <2> QED
      BY <1>4, <2>1, LetsGoDoes DEF KeptAs
  <1>5. ASSUME NEW w \in Window, Transfers(w)
        PROVE  KeptAs(s) \/ (\E i \in Item : WorkOn(s[1], i)) \/ NextSession(s[1])
    BY <1>0, <1>1, <1>2, <1>3, <1>4, <1>5 DEF Transfers
  <1>6. ASSUME NEW w \in Window, EndSession(w)  PROVE saver'[s] = saver[s] \/ (s = R(w) /\ w = s[1])
    <2>1. Starts(R(w), name[w]) /\ R(w) \in Saver
      BY <1>6, PathFacts DEF EndSession, R
    <2> QED
      BY <2>1, PathFacts DEF Starts, FileTypes
  <1>7. ASSUME NEW w \in Window, SaveQueue(w)  PROVE saver'[s] = saver[s] \/ (s = Q(w) /\ w = s[1])
    <2>1. Starts(Q(w), Queue) /\ Q(w) \in Saver
      BY <1>7, PathFacts DEF SaveQueue, Q
    <2> QED
      BY <2>1, PathFacts DEF Starts, FileTypes
  <1>8. ASSUME NEW t \in Saver, Saves(t)  PROVE saver'[s] = saver[s] \/ GoesOn(s) \/ Finishes(s)
    <2>1. GoesOn(t) \/ Finishes(t)
      BY <1>8 DEF Saves, GoesOn, Finishes
    <2>2. \A u \in Saver \ {t} : saver'[u] = saver[u]
      BY <2>1, GoesOnDoes, SaveEnds
    <2> QED
      BY <2>1, <2>2
  <1>9. ASSUME NEW t \in Saver, Loads(t)  PROVE saver' = saver
    BY <1>9 DEF Loads, LoadFinds, LoadRejects, Unloaded, saveVars
  <1>10. ASSUME NEW w \in Window, Offers(w)  PROVE saver' = saver
    BY <1>10 DEF Offers, Offer, Ask, GiveBack, Discard, Resume, Retire, PickQueue, LoadQueue,
                 Unloaded, saveVars
  <1>11. ASSUME UNCHANGED vars \/ Boots \/ \E i \in Item : SourceVanishes(i)  PROVE saver' = saver
    BY <1>11 DEF vars, Boots, SourceVanishes, saveVars
  <1> QED
    BY <1>0, <1>5, <1>6, <1>7, <1>8, <1>9, <1>10, <1>11 DEF Next

\* What a save has put into its staging file is still there.
LEMMA StagingKept ==
    ASSUME TransferTypes, FileTypes, StagingInv, [Next]_vars  PROVE StagingInv'
  <1> DEFINE Good(s) ==
               /\ saver'[s].phase = "Flush"
                     => staged'[s] = [kind |-> "Cached", archive |-> saver'[s].archive]
               /\ saver'[s].phase = "Rename"
                     => staged'[s] = [kind |-> "Whole", archive |-> saver'[s].archive]
  <1>1. ASSUME NEW s \in Saver, SavedAs(s), staged'[s] = staged[s]  PROVE Good(s)
    BY <1>1 DEF StagingInv, SavedAs
  <1>2. ASSUME NEW s \in Saver, saver'[s].phase \notin {"Flush", "Rename"}  PROVE Good(s)
    BY <1>2
  <1>3. ASSUME NEW t \in Saver, Saves(t), NEW s \in Saver  PROVE Good(s)
    <2>1. GoesOn(t) \/ Finishes(t)
      BY <1>3 DEF Saves, GoesOn, Finishes
    <2>2. CASE s # t
      <3>1. saver'[s] = saver[s]
        BY <2>1, <2>2, GoesOnDoes, SaveEnds
      <3>2. UNCHANGED staged \/ \E f : staged' = [staged EXCEPT ![t] = f]
        BY <1>3 DEF Saves, ReadRemovals, ExportPlan, RetireEmpty, OpenStaging, WriteStaging,
                    FlushStaging, RenameStaged, SaveFails, Stages, TempFor
      <3>3. staged'[s] = staged[s]
        BY <2>2, <3>2 DEF FileTypes
      <3> QED
        BY <1>1, <3>1, <3>3 DEF SavedAs
    <2>3. CASE s = t /\ Finishes(t)
      <3>1. saver'[s].phase = "Idle"
        BY <2>3, SaveEnds
      <3> QED
        BY <1>2, <3>1
    <2>4. CASE s = t /\ GoesOn(t)
      <3>1. CASE WriteStaging(t)
        <4>1. saver[s].phase = "Write"
          BY <2>4, <3>1 DEF WriteStaging, At
        <4>2. saver'[s].phase = "Flush" /\ saver'[s].archive = saver[s].archive
          BY <2>4, <4>1, GoesOnDoes
        <4>3. staged'[s] = [kind |-> "Cached", archive |-> saver[s].archive]
          BY <2>4, <3>1 DEF WriteStaging, Stages, TempFor, FileTypes
        <4> QED
          BY <4>2, <4>3
      <3>2. CASE FlushStaging(t)
        <4>1. saver[s].phase = "Flush"
          BY <2>4, <3>2 DEF FlushStaging, At
        <4>2. saver'[s].phase = "Rename" /\ saver'[s].archive = saver[s].archive
          BY <2>4, <4>1, GoesOnDoes
        <4>3. staged[s] = [kind |-> "Cached", archive |-> saver[s].archive]
          BY <4>1 DEF StagingInv
        <4>4. staged' = [staged EXCEPT ![s] =
                 [staged[s] EXCEPT !.kind = IF @ = "Cached" THEN "Whole" ELSE @]]
          BY <2>4, <3>2 DEF FlushStaging, Stages, TempFor
        <4>5. staged'[s] = [staged[s] EXCEPT !.kind = IF @ = "Cached" THEN "Whole" ELSE @]
          BY <4>4 DEF FileTypes
        <4>6. staged'[s] = [kind |-> "Whole", archive |-> saver[s].archive]
          BY <4>3, <4>5
        <4> QED
          BY <4>2, <4>6
      <3>3. CASE ReadRemovals(t) \/ ExportPlan(t) \/ OpenStaging(t)
        <4>1. saver[s].phase \in {"Removals", "Export", "Open"}
          BY <2>4, <3>3 DEF ReadRemovals, ExportPlan, OpenStaging, At
        <4>2. saver'[s].phase \notin {"Flush", "Rename"}
          BY <2>4, <4>1, GoesOnDoes
        <4> QED
          BY <1>2, <4>2
      <3> QED
        BY <2>4, <3>1, <3>2, <3>3 DEF GoesOn
    <2> QED
      BY <2>1, <2>2, <2>3, <2>4
  <1>4. ASSUME NEW w \in Window, Transfers(w), NEW s \in Saver  PROVE Good(s)
    <2>1. SavedAs(s) /\ staged' = staged
      BY <1>4, TransfersTouchNoFiles DEF fileVars
    <2> QED
      BY <1>1, <2>1
  <1>5. ASSUME NEW w \in Window, EndSession(w) \/ SaveQueue(w), NEW s \in Saver  PROVE Good(s)
    <2>1. /\ staged' = staged
          /\ \E t \in Saver : \E p \in Path : Starts(t, p)
      BY <1>5, PathFacts DEF EndSession, SaveQueue, R, Q, FileTypes
    <2>2. PICK t \in Saver, p \in Path : Starts(t, p)
      BY <2>1
    <2>3. (s # t => saver'[s] = saver[s]) /\ saver'[t].phase = "Removals"
      BY <2>2, StartsDoes
    <2> QED
      BY <1>1, <1>2, <2>1, <2>3 DEF SavedAs
  <1>6. ASSUME UNCHANGED <<saver, staged>>, NEW s \in Saver  PROVE Good(s)
    BY <1>1, <1>6 DEF SavedAs
  <1>7. ASSUME NEW t \in Saver, Loads(t)  PROVE UNCHANGED <<saver, staged>>
    BY <1>7 DEF Loads, LoadFinds, LoadRejects, Unloaded, saveVars
  <1>8. ASSUME NEW w \in Window, Offers(w)  PROVE UNCHANGED <<saver, staged>>
    BY <1>8 DEF Offers, Offer, Ask, GiveBack, Discard, Resume, Retire, PickQueue, LoadQueue,
                Unloaded, saveVars
  <1>9. ASSUME UNCHANGED vars \/ Boots \/ \E i \in Item : SourceVanishes(i)
        PROVE  UNCHANGED <<saver, staged>>
    BY <1>9 DEF vars, Boots, SourceVanishes, saveVars
  <1>10. ASSUME Dies, NEW s \in Saver  PROVE Good(s)
    <2>1. saver'[s].phase = "Idle"
      BY <1>10, NoFacts DEF Dies
    <2> QED
      BY <1>2, <2>1
  <1> HIDE DEF Good
  <1>11. \A s \in Saver : Good(s)
    BY <1>3, <1>4, <1>5, <1>6, <1>7, <1>8, <1>9, <1>10 DEF Next
  <1> QED
    BY <1>11 DEF StagingInv, Good

\* Nothing is saved or loaded by hand before the first time.
LEMMA ByHandKept ==
    ASSUME TransferTypes, FileTypes, FilesInv, ByHandInv, [Next]_vars
    PROVE  ByHandInv' /\ byHand' \in {byHand, byHand + 1}
  <1> DEFINE Good == ByHandInv' /\ byHand' \in {byHand, byHand + 1}
  <1>0. \A w \in Window : R(w) \in Saver /\ Q(w) \in Saver
    BY PathFacts
  <1>1. ASSUME byHand' = byHand,
               \A w \in Window : hand[Q(w)].phase = "None" => hand'[Q(w)].phase = "None",
               \A s \in Saver : saver[s].phase = "Idle" => saver'[s].phase = "Idle"
        PROVE  Good
    BY <1>0, <1>1 DEF ByHandInv, Saving
  <1>2. ASSUME NEW w \in Window, Transfers(w)  PROVE Good
    BY <1>1, <1>2, TransfersTouchNoFiles DEF fileVars, SavedAs
  <1>3. ASSUME NEW w \in Window, EndSession(w)  PROVE Good
    <2>1. byHand = 0 /\ byHand' = byHand /\ hand' = hand /\ Starts(R(w), name[w]) /\ name[w] \in Path
      BY <1>3, PathFacts DEF EndSession, R, offerVars, FileTypes
    <2>2. \A v \in Window : saver'[Q(v)] = saver[Q(v)]
      BY <2>1, StartsDoes, PathFacts
    <2> QED
      BY <2>1, <2>2 DEF ByHandInv, Saving
  <1>4. ASSUME NEW w \in Window, SaveQueue(w) \/ PickQueue(w)  PROVE Good
    <2>1. Free /\ byHand' = byHand + 1 /\ byHand \in Nat
      BY <1>4 DEF SaveQueue, PickQueue, FileTypes
    <2>2. ASSUME NEW v \in Window  PROVE saver'[R(v)] = saver[R(v)]
      <3>1. CASE SaveQueue(w)
        <4>1. Starts(Q(w), Queue)
          BY <3>1 DEF SaveQueue, Q
        <4> QED
          BY <4>1, StartsDoes, PathFacts
      <3>2. CASE PickQueue(w)
        BY <3>2 DEF PickQueue
      <3> QED
        BY <1>4, <3>1, <3>2
    <2>3. \A v \in Window : ~Saving(v)'
      BY <2>1, <2>2 DEF Free, Saving, R
    <2>4. byHand' # 0
      BY <2>1
    <2> QED
      BY <2>1, <2>3, <2>4 DEF ByHandInv
  <1>5. ASSUME NEW s \in Saver, Saves(s)  PROVE Good
    <2>1. GoesOn(s) \/ Finishes(s)
      BY <1>5 DEF Saves, GoesOn, Finishes
    <2>2. hand' = hand /\ byHand' = byHand
      BY <1>5 DEF Saves, ReadRemovals, ExportPlan, RetireEmpty, OpenStaging, WriteStaging,
                  FlushStaging, RenameStaged, SaveFails, Unsaved, offerVars
    <2>3. (\A t \in Saver \ {s} : saver'[t] = saver[t]) /\ saver[s].phase # "Idle"
      BY <2>1, GoesOnDoes, SaveEnds
    <2> QED
      BY <1>1, <2>2, <2>3
  <1>6. ASSUME NEW s \in Saver, Loads(s)  PROVE Good
    <2>1. byHand' = byHand /\ saver' = saver
      BY <1>6 DEF Loads, LoadFinds, LoadRejects, Unloaded, saveVars
    <2>2. hand[s].phase = "Loading" /\ \A t \in Saver \ {s} : hand'[t] = hand[t]
      BY <1>6 DEF Loads, LoadFinds, LoadRejects, FileTypes
    <2> QED
      BY <1>0, <1>1, <2>1, <2>2
  <1>7. ASSUME NEW w \in Window,
               Ask(w) \/ GiveBack(w) \/ Discard(w) \/ Resume(w) \/ Retire(w) \/ LoadQueue(w) \/ Offer(w)
        PROVE  Good
    <2>1. byHand' = byHand /\ saver' = saver
      BY <1>7 DEF Ask, GiveBack, Discard, Resume, Retire, LoadQueue, Offer, Unloaded, saveVars
    <2>2. ASSUME NEW v \in Window, hand[Q(v)].phase = "None"  PROVE hand'[Q(v)].phase = "None"
      <3>1. CASE Ask(w) \/ GiveBack(w) \/ Discard(w) \/ Resume(w) \/ Retire(w)
        <4>1. R(w) # Q(v)
          BY PathFacts
        <4> QED
          BY <1>0, <2>2, <3>1, <4>1 DEF Ask, GiveBack, Discard, Resume, Retire, R, FileTypes
      <3>2. CASE LoadQueue(w)
        <4>1. hand' = [hand EXCEPT ![Q(w)] = NoHand]
          BY <3>2 DEF LoadQueue, Q
        <4> QED
          BY <1>0, <2>2, <4>1, LetGoDoes, NoFacts
      <3>3. CASE Offer(w)
        <4>1. hand' = hand \/ \A t \in Saver \ {R(w)} : hand'[t] = hand[t]
          BY <3>3, OfferDoes DEF FilesInv
        <4> QED
          BY <1>0, <2>2, <4>1, PathFacts
      <3> QED
        BY <1>7, <3>1, <3>2, <3>3
    <2> QED
      BY <1>1, <2>1, <2>2
  <1>8. ASSUME Dies  PROVE Good
    <2>1. byHand' = byHand /\ \A s \in Saver : saver'[s].phase = "Idle" /\ hand'[s].phase = "None"
      BY <1>8, NoFacts DEF Dies
    <2> QED
      BY <1>0, <1>1, <2>1
  <1>9. ASSUME UNCHANGED vars \/ Boots \/ \E i \in Item : SourceVanishes(i)  PROVE Good
    <2>1. UNCHANGED <<byHand, saver, hand>>
      BY <1>9 DEF vars, Boots, SourceVanishes, saveVars, offerVars
    <2> QED
      BY <1>1, <2>1
  <1> HIDE DEF Good
  <1>10. Good
    BY <1>2, <1>3, <1>4, <1>5, <1>6, <1>7, <1>8, <1>9 DEF Next, Offers
  <1> QED
    BY <1>10 DEF Good

-----------------------------------------------------------------------------
(***************************************************************************)
(* Where the jobs and their items are.                                     *)
(***************************************************************************)
\* The items of a set of jobs, one by one.
LEMMA ContentsOf ==
    ASSUME NEW js, NEW i
    PROVE  i \in Contents(js) <=> \E j \in js : i \in Content[j]
  BY DEF Contents

\* What a window holds, one by one.
LEMMA HeldOf ==
    ASSUME TransferTypes, NEW w \in Window, NEW i \in Item
    PROVE  i \in Held(w) <=> at[w][i] # "Out"
  <1>1. at[w][i] \in State
    BY DEF TransferTypes
  <1> QED
    BY <1>1 DEF Held, In, State

\* The same after a step.
LEMMA HeldOfNext ==
    ASSUME TransferTypes', NEW w \in Window, NEW i \in Item
    PROVE  i \in Held(w)' <=> at'[w][i] # "Out"
  <1>1. at'[w][i] \in State
    BY DEF TransferTypes
  <1> QED
    BY <1>1 DEF Held, In, State

\* What planning does to what a window holds: a job that joins adds its items to
\* those of the plan, and a job that does not is told of.
LEMMA JoinedHeld ==
    ASSUME TransferTypes, TransferTypes', NEW w \in Window, NEW j \in Job, Joined(w, j)
    PROVE  /\ Held(w) \subseteq Held(w)' /\ Held(w)' \subseteq Held(w) \cup Content[j]
           /\ In(w, {"Copied"})' \subseteq In(w, {"Copied"})
           /\ told \subseteq told' /\ Content[j] \subseteq told' \cup Held(w)'
  <1>1. Content[j] \in SUBSET Item
    BY ContentFacts
  <1>2. CASE at' = at /\ told' = told \cup Content[j]
    BY <1>2 DEF Held, In
  <1>3. CASE /\ \A i \in Item : at'[w][i] = IF i \in Content[j] THEN "Pending" ELSE at[w][i]
             /\ told' = told
    <2>1. \A i \in Item : i \in Held(w)' <=> i \in Held(w) \cup Content[j]
      BY <1>3, HeldOf, HeldOfNext
    <2>2. Held(w) \subseteq Item /\ Held(w)' \subseteq Item
      BY DEF Held, In
    <2>3. In(w, {"Copied"})' \subseteq In(w, {"Copied"})
      BY <1>3 DEF In
    <2> QED
      BY <1>1, <1>3, <2>1, <2>2, <2>3
  <1> QED
    BY <1>2, <1>3 DEF Joined

\* What a worker does to it.
LEMMA WorkOnHeld ==
    ASSUME TransferTypes, FileTypes, TransferTypes', NEW w \in Window, NEW i \in Item, WorkOn(w, i)
    PROVE  /\ Held(w)' \subseteq Held(w) /\ Held(w) \subseteq Held(w)' \cup {i}
           /\ at'[w][i] # "Out" => Held(w)' = Held(w)
           /\ In(w, {"Copied"})' \subseteq In(w, {"Copied"}) \cup {i}
           /\ at'[w][i] # "Copied" => In(w, {"Copied"})' \subseteq In(w, {"Copied"})
  <1>1. /\ \A k \in Item \ {i} : at'[w][k] = at[w][k]
        /\ at[w][i] # "Out"
    BY WorkOnDoes
  <1>2. Held(w) \subseteq Item /\ Held(w)' \subseteq Item
    BY DEF Held, In
  <1>3. /\ \A k \in Item \ {i} : k \in Held(w)' <=> k \in Held(w)
        /\ i \in Held(w) /\ (at'[w][i] # "Out" => i \in Held(w)')
    BY <1>1, HeldOf, HeldOfNext
  <1>4. /\ In(w, {"Copied"})' \subseteq In(w, {"Copied"}) \cup {i}
        /\ at'[w][i] # "Copied" => In(w, {"Copied"})' \subseteq In(w, {"Copied"})
    BY <1>1 DEF In
  <1> QED
    BY <1>2, <1>3, <1>4

\* An archive that knows nothing of a job, after the steps of a save.
LEMMA WithoutFacts ==
    ASSUME NEW j \in Job
    PROVE  /\ Without(Nothing, j)
           /\ \A a \in Archive : Without(a, j) => Without(Merged(a), j)
  <1>1. Without(Nothing, j)
    BY DEF Without, Nothing
  <1>2. ASSUME NEW a \in Archive, Without(a, j)  PROVE Without(Merged(a), j)
    <2>1. /\ Merged(a).plan = a.plan \cup Contents(a.appends) /\ Merged(a).removals = a.removals
          /\ Merged(a).appends = {} /\ Merged(a).queued = a.queued
      BY ArchiveFacts
    <2>2. a.appends \in SUBSET Job /\ j \notin a.appends
      BY <1>2 DEF Archive, Without
    <2>3. Content[j] \cap Contents(a.appends) = {}
      BY <2>2, ContentFacts
    <2> QED
      BY <1>2, <2>1, <2>3 DEF Without
  <1> QED
    BY <1>1, <1>2

\* No step brings a job into a window that is not the one it was asked for in.
LEMMA OutOfWindow ==
    ASSUME TransferTypes, TransferTypes', FileTypes, [Next]_vars,
           NEW j \in Job, j \in fresh => j \in fresh',
           NotInArchives(j), NEW w \in Window, NotInWindow(w, j)
    PROVE  NotInWindow(w, j)'
  <1> DEFINE Jobs(row) == row.planning \cup row.deferred \cup row.queued
  <1>0. j \notin Jobs(jobs[w]) /\ Held(w) \cap Content[j] = {}
    BY DEF NotInWindow
  <1>1. ASSUME at'[w] = at[w]  PROVE Held(w)' = Held(w)
    BY <1>1 DEF Held, In
  <1>2. ASSUME j \notin Jobs(jobs'[w]), Held(w)' \cap Content[j] = {}  PROVE NotInWindow(w, j)'
    BY <1>2 DEF NotInWindow
  <1>3. CASE at'[w] = at[w] /\ jobs'[w] = jobs[w]
    BY <1>0, <1>1, <1>2, <1>3
  <1>4. ASSUME NEW k \in Job, Submit(w, k)  PROVE NotInWindow(w, j)'
    <2>1. j # k
      BY <1>4 DEF Submit
    <2>2. at' = at /\ Jobs(jobs'[w]) \subseteq Jobs(jobs[w]) \cup {k}
      BY <1>4, SubmitDoes
    <2> HIDE DEF Jobs
    <2> QED
      BY <1>0, <1>1, <1>2, <2>1, <2>2
  <1>5. ASSUME NEW k \in Job, Published(w, k) \/ Planned(w, k)  PROVE NotInWindow(w, j)'
    <2>1. k \in Jobs(jobs[w]) /\ Joined(w, k) /\ Jobs(jobs'[w]) \subseteq Jobs(jobs[w])
      <3>1. CASE Published(w, k)
        BY <3>1, PublishedDoes
      <3>2. CASE Planned(w, k)
        BY <3>2, PlannedDoes
      <3> QED
        BY <1>5, <3>1, <3>2
    <2> HIDE DEF Jobs
    <2>2. Content[j] \cap Content[k] = {}
      BY <1>0, <2>1, RecoveryAssumption
    <2>3. Held(w)' \subseteq Held(w) \cup Content[k]
      BY <2>1, JoinedHeld
    <2> QED
      BY <1>0, <1>2, <2>1, <2>2, <2>3
  <1>6. ASSUME NEW i \in Item, WorkOn(w, i)  PROVE NotInWindow(w, j)'
    <2>1. jobs' = jobs /\ Held(w)' \subseteq Held(w)
      BY <1>6, WorkOnDoes, WorkOnHeld
    <2> QED
      BY <1>0, <1>2, <2>1
  <1>7. CASE TakesDeferred(w)
    <2>1. at' = at /\ Jobs(jobs'[w]) \subseteq Jobs(jobs[w])
      BY <1>7, TakesDeferredDoes
    <2> HIDE DEF Jobs
    <2> QED
      BY <1>0, <1>1, <1>2, <2>1
  <1>8. CASE NextSession(w)
    <2>1. at' = at /\ Jobs(jobs'[w]) \subseteq Jobs(jobs[w])
      BY <1>8, NextSessionDoes
    <2> HIDE DEF Jobs
    <2> QED
      BY <1>0, <1>1, <1>2, <2>1
  <1>9. ASSUME NEW a \in Archive, Without(a, j), Adopts(w, a), UNCHANGED <<fresh, source, told>>
        PROVE  NotInWindow(w, j)'
    <2>1. j \notin Jobs(jobs'[w])
      BY <1>0, <1>9, AdoptsDoes DEF Without
    <2>2. \A i \in Item : at'[w][i] # "Out" => i \in a.plan \cup a.removals \cup Held(w)
      BY <1>9, AdoptsDoes, HeldOf
    <2>3. Held(w)' \subseteq a.plan \cup a.removals \cup Held(w)
      BY <2>2, HeldOfNext DEF Held, In
    <2> QED
      BY <1>0, <1>2, <1>9, <2>1, <2>3 DEF Without
  <1>10. CASE Resume(w)
    <2>1. /\ Adopts(w, hand[R(w)].archive) /\ UNCHANGED <<fresh, source, told>>
          /\ hand[R(w)].archive \in Archive /\ Without(hand[R(w)].archive, j)
      BY <1>10, PathFacts DEF Resume, R, FileTypes, Hand, NotInArchives
    <2> QED
      BY <1>9, <2>1
  <1>11. CASE LoadQueue(w)
    <2>1. /\ UNCHANGED <<fresh, source, told>>
          /\ hand[Q(w)].archive \in Archive /\ Without(hand[Q(w)].archive, j)
      BY <1>11, PathFacts DEF LoadQueue, FileTypes, Hand, NotInArchives
    <2>2. CASE at' = at /\ jobs'[w].planning = jobs[w].planning
               /\ jobs'[w].deferred = jobs[w].deferred
               /\ jobs'[w].queued = hand[Q(w)].archive.queued
      BY <1>0, <1>1, <1>2, <2>1, <2>2 DEF Without
    <2> QED
      BY <1>3, <1>9, <1>11, <2>1, <2>2, LoadQueueDoes
  <1>12. CASE Dies
    <2>1. jobs'[w] = NoJobs /\ \A i \in Item : at'[w][i] = "Out"
      BY <1>12 DEF Dies
    <2>2. Held(w)' = {}
      BY <2>1, HeldOfNext DEF Held, In
    <2> QED
      BY <1>2, <2>1, <2>2 DEF NoJobs
  <1> QED
    BY <1>3, <1>4, <1>5, <1>6, <1>7, <1>8, <1>10, <1>11, <1>12, WindowSteps

\* A job comes into an archive only from a window that saves it.
LEMMA OutOfArchives ==
    ASSUME TransferTypes, FileTypes, FilesInv, StagingInv, ByHandInv, [Next]_vars,
           NEW j \in Job, NotInArchives(j),
           \A w \in Window : NotInWindow(w, j) \/ (w \notin ending' /\ byHand' = 0)
    PROVE  NotInArchives(j)'
  <1>1. Without(Nothing, j) /\ \A a \in Archive : Without(a, j) => Without(Merged(a), j)
    BY WithoutFacts
  <1>2. ASSUME NEW s \in Saver, \A t \in Saver \ {s} : saver'[t] = saver[t],
               Without(saver'[s].archive, j), UNCHANGED <<disk, hand>>
        PROVE  NotInArchives(j)'
    BY <1>2 DEF NotInArchives
  <1>3. ASSUME NEW s \in Saver, \A t \in Saver \ {s} : hand'[t] = hand[t],
               Without(hand'[s].archive, j), UNCHANGED saver,
               \A p \in Path : disk'[p] \in {disk[p], NoFile}
        PROVE  NotInArchives(j)'
    <2>1. \A p \in Path : Without(disk'[p].archive, j)
      BY <1>1, <1>3, NoFacts DEF NotInArchives
    <2> QED
      BY <1>3, <2>1 DEF NotInArchives
  <1>4. ASSUME NEW w \in Window, EndSession(w) \/ SaveQueue(w)  PROVE NotInArchives(j)'
    <2>1. /\ UNCHANGED <<disk, hand>> /\ \E s \in Saver : s[1] = w /\ \E p \in Path : Starts(s, p)
      BY <1>4, PathFacts DEF EndSession, SaveQueue, offerVars, R, Q, FileTypes
    <2>2. PICK s \in Saver, p \in Path : s[1] = w /\ Starts(s, p)
      BY <2>1
    <2>3. w \in ending' \/ byHand' # 0
      BY <1>4 DEF EndSession, SaveQueue, FileTypes
    <2>4. NotInWindow(w, j)
      BY <2>3
    <2>5. Without(saver'[s].archive, j)
      BY <2>2, <2>4, StartsDoes DEF Without, NotInWindow
    <2> QED
      BY <1>2, <2>1, <2>2, <2>5, StartsDoes
  <1>5. ASSUME NEW s \in Saver, GoesOn(s)  PROVE NotInArchives(j)'
    <2>1. UNCHANGED <<disk, hand, ending, byHand>>
      BY <1>5 DEF GoesOn, ReadRemovals, ExportPlan, OpenStaging, WriteStaging, FlushStaging,
                  Unsaved, offerVars
    <2>2. s[1] \in Window /\ (s = R(s[1]) \/ s = Q(s[1])) /\ saver[s].phase # "Idle"
          /\ Without(saver[s].archive, j)
      BY <1>5, GoesOnDoes, PathFacts DEF NotInArchives
    <2>3. s[1] \in ending \/ byHand # 0
      BY <2>2 DEF FilesInv, CheckpointInv, ByHandInv, Saving
    <2>4. Held(s[1]) \cap Content[j] = {}
      BY <2>1, <2>2, <2>3 DEF NotInWindow
    <2>5. Captured(s, {"Copied"}) \subseteq Held(s[1]) /\ Exported(s) \subseteq Held(s[1])
      BY CapturedFacts DEF Exported, State
    <2>6. Without(saver'[s].archive, j)
      BY <1>5, <2>2, <2>4, <2>5, GoesOnDoes DEF Without
    <2> QED
      BY <1>2, <1>5, <2>1, <2>6, GoesOnDoes
  <1>6. ASSUME NEW s \in Saver, Finishes(s)  PROVE NotInArchives(j)'
    <2>1. /\ \A t \in Saver \ {s} : saver'[t] = saver[t]
          /\ Without(saver'[s].archive, j)
      BY <1>1, <1>6, SaveEnds
    <2>2. UNCHANGED hand
      BY <1>6 DEF Finishes, RetireEmpty, RenameStaged, SaveFails, Unsaved, offerVars
    <2>3. ASSUME NEW p \in Path  PROVE Without(disk'[p].archive, j)
      <3>1. CASE RenameStaged(s)
        <4>0. staged[s] = [kind |-> "Whole", archive |-> saver[s].archive]
          BY <3>1 DEF RenameStaged, At, StagingInv
        <4>1. staged[s].archive = saver[s].archive
          BY <4>0
        <4>2. disk'[p] \in {disk[p], staged[s]}
          BY <3>1 DEF RenameStaged, TempFor, FileTypes
        <4> QED
          BY <4>1, <4>2 DEF NotInArchives
      <3>2. CASE RetireEmpty(s) \/ SaveFails(s)
        <4>1. disk'[p] \in {disk[p], NoFile}
          BY <3>2 DEF RetireEmpty, SaveFails, FileTypes
        <4> QED
          BY <1>1, <4>1, NoFacts DEF NotInArchives
      <3> QED
        BY <1>6, <3>1, <3>2 DEF Finishes
    <2> QED
      BY <2>1, <2>2, <2>3 DEF NotInArchives
  <1>7. ASSUME NEW s \in Saver, LoadFinds(s)  PROVE NotInArchives(j)'
    <2>1. UNCHANGED <<disk, saver>> /\ hand[s].phase = "Loading"
      BY <1>7 DEF LoadFinds, Unloaded, saveVars
    <2>2. hand[s].path \in Path
      BY <2>1, HandPaths DEF FilesInv
    <2>3. Without(hand'[s].archive, j)
      BY <1>1, <1>7, <2>2, LoadFindsDoes DEF NotInArchives
    <2> QED
      BY <1>3, <1>7, <2>1, <2>2, <2>3, LoadFindsDoes
  <1>8. ASSUME NEW s \in Saver, LoadRejects(s)  PROVE NotInArchives(j)'
    <2>1. /\ UNCHANGED saver /\ hand' = [hand EXCEPT ![s] = NoHand]
          /\ \A p \in Path : disk'[p] \in {disk[p], NoFile}
      BY <1>8 DEF LoadRejects, Unloaded, saveVars, FileTypes
    <2>2. hand'[s].archive = Nothing /\ \A t \in Saver \ {s} : hand'[t] = hand[t]
      BY <2>1, LetGoDoes, NoFacts
    <2> QED
      BY <1>1, <1>3, <2>1, <2>2
  <1>9. ASSUME NEW w \in Window, GiveBack(w) \/ Discard(w) \/ Retire(w)  PROVE NotInArchives(j)'
    <2>1. /\ UNCHANGED saver /\ hand' = [hand EXCEPT ![R(w)] = NoHand]
          /\ \A p \in Path : disk'[p] \in {disk[p], NoFile}
      BY <1>9 DEF GiveBack, Discard, Retire, R, saveVars, FileTypes
    <2>2. hand'[R(w)].archive = Nothing /\ \A t \in Saver \ {R(w)} : hand'[t] = hand[t]
      BY <2>1, LetGoDoes, NoFacts, PathFacts
    <2> QED
      BY <1>1, <1>3, <2>1, <2>2, PathFacts
  <1>10. ASSUME NEW w \in Window, Ask(w) \/ Resume(w)  PROVE NotInArchives(j)'
    <2>1. /\ UNCHANGED <<saver, disk>>
          /\ \E f \in {"Ready", "Asking", "Adopted"} : hand' = [hand EXCEPT ![R(w)].phase = f]
      BY <1>10 DEF Ask, Resume, R, Unloaded, saveVars
    <2>2. hand'[R(w)].archive = hand[R(w)].archive /\ \A t \in Saver \ {R(w)} : hand'[t] = hand[t]
      BY <2>1, PhaseDoes, PathFacts
    <2> QED
      BY <1>3, <2>1, <2>2, PathFacts DEF NotInArchives
  <1>11. ASSUME NEW w \in Window, Offer(w)  PROVE NotInArchives(j)'
    <2>1. UNCHANGED <<saver, disk>>
          /\ \/ hand' = hand
             \/ /\ hand'[R(w)].archive = Nothing
                /\ \A t \in Saver \ {R(w)} : hand'[t] = hand[t]
      BY <1>11, OfferDoes DEF FilesInv
    <2>2. CASE hand' = hand
      BY <2>1, <2>2 DEF NotInArchives
    <2> QED
      BY <1>1, <1>3, <2>1, <2>2, PathFacts
  <1>12. ASSUME NEW w \in Window, PickQueue(w)  PROVE NotInArchives(j)'
    <2>1. /\ UNCHANGED <<saver, disk>>
          /\ hand' = [hand EXCEPT ![Q(w)] = [NoHand EXCEPT !.phase = "Loading", !.path = Queue]]
      BY <1>12 DEF PickQueue, Q
    <2>2. hand'[Q(w)].archive = Nothing /\ \A t \in Saver \ {Q(w)} : hand'[t] = hand[t]
      BY <2>1, LoadingDoes, PathFacts
    <2> QED
      BY <1>1, <1>3, <2>1, <2>2, PathFacts
  <1>13. ASSUME NEW w \in Window, LoadQueue(w)  PROVE NotInArchives(j)'
    <2>1. /\ UNCHANGED <<saver, disk>> /\ hand' = [hand EXCEPT ![Q(w)] = NoHand]
      BY <1>13 DEF LoadQueue, Q, saveVars
    <2>2. hand'[Q(w)].archive = Nothing /\ \A t \in Saver \ {Q(w)} : hand'[t] = hand[t]
      BY <2>1, LetGoDoes, NoFacts, PathFacts
    <2> QED
      BY <1>1, <1>3, <2>1, <2>2, PathFacts
  <1>14. CASE Dies
    <2>1. /\ \A s \in Saver : saver'[s] = NoSave /\ hand'[s] = NoHand
          /\ \A p \in Path : disk'[p] = disk[p]
      BY <1>14 DEF Dies, FileTypes, Archived
    <2> QED
      BY <1>1, <2>1, NoFacts DEF NotInArchives
  <1>15. ASSUME UNCHANGED <<disk, hand>>, \A s \in Saver : saver'[s].archive = saver[s].archive
         PROVE  NotInArchives(j)'
    BY <1>15 DEF NotInArchives
  <1>16. CASE UNCHANGED vars \/ Boots \/ (\E w \in Window : Transfers(w))
              \/ (\E i \in Item : SourceVanishes(i))
    <2>1. UNCHANGED <<disk, hand>> /\ \A s \in Saver : saver'[s].archive = saver[s].archive
      BY <1>16, TransfersTouchNoFiles, VanishingTouchesNoFiles
         DEF vars, saveVars, offerVars, Boots, fileVars, SavedAs
    <2> QED
      BY <1>15, <2>1
  <1>17. ASSUME NEW s \in Saver, Saves(s)  PROVE NotInArchives(j)'
    BY <1>5, <1>6, <1>17 DEF Saves, GoesOn, Finishes
  <1> QED
    BY <1>4, <1>7, <1>8, <1>9, <1>10, <1>11, <1>12, <1>13, <1>14, <1>16, <1>17
       DEF Next, Loads, Offers

\* Nobody asks for a job twice.
LEMMA FreshShrinks == [Next]_vars => fresh' \subseteq fresh
  <1>1. ASSUME NEW w \in Window, Transfers(w)  PROVE fresh' \subseteq fresh
    BY <1>1 DEF Transfers, Submit, Published, Planned, TakesDeferred, WorkOn, NextSession
  <1>2. ASSUME NEW w \in Window, EndSession(w) \/ SaveQueue(w) \/ Offers(w)  PROVE fresh' = fresh
    BY <1>2 DEF EndSession, SaveQueue, Offers, Offer, Ask, GiveBack, Discard, Resume, Retire,
                PickQueue, LoadQueue, Unloaded
  <1>3. ASSUME NEW s \in Saver, Saves(s) \/ Loads(s)  PROVE fresh' = fresh
    BY <1>3 DEF Saves, Loads, ReadRemovals, ExportPlan, RetireEmpty, OpenStaging, WriteStaging,
                FlushStaging, RenameStaged, SaveFails, LoadFinds, LoadRejects, Unsaved, Unloaded
  <1>4. ASSUME UNCHANGED vars \/ Boots \/ Dies \/ \E i \in Item : SourceVanishes(i)
        PROVE  fresh' = fresh
    BY <1>4 DEF vars, Boots, Dies, SourceVanishes
  <1> QED
    BY <1>1, <1>2, <1>3, <1>4 DEF Next

\* A job nobody has asked for is nowhere, before and after a step.
LEMMA FreshKept ==
    ASSUME TransferTypes, TransferTypes', FileTypes, FilesInv, StagingInv, ByHandInv, [Next]_vars,
           \A j \in fresh : FreshInv(j)
    PROVE  \A j \in fresh' : FreshInv(j)'
  <1> SUFFICES ASSUME NEW j \in fresh'  PROVE FreshInv(j)'
    OBVIOUS
  <1>1. j \in fresh /\ j \in Job /\ NotInArchives(j) /\ \A w \in Window : NotInWindow(w, j)
    BY FreshShrinks DEF TransferTypes, FreshInv
  <1>2. NotInArchives(j)'
    BY <1>1, OutOfArchives
  <1>3. \A w \in Window : NotInWindow(w, j)'
    BY <1>1, OutOfWindow
  <1> QED
    BY <1>2, <1>3 DEF FreshInv

\* A window that ends goes on ending until the process is gone.
LEMMA EndingGrows == [Next]_vars => ending \subseteq ending' \/ Dies
  <1>1. ASSUME NEW w \in Window, Transfers(w)  PROVE ending' = ending
    BY <1>1 DEF Transfers, Submit, Published, Planned, TakesDeferred, WorkOn, NextSession
  <1>2. ASSUME NEW w \in Window, EndSession(w) \/ SaveQueue(w) \/ Offers(w)
        PROVE  ending \subseteq ending'
    BY <1>2 DEF EndSession, SaveQueue, Offers, Offer, Ask, GiveBack, Discard, Resume, Retire,
                PickQueue, LoadQueue, Unloaded
  <1>3. ASSUME NEW s \in Saver, Saves(s) \/ Loads(s)  PROVE ending' = ending
    BY <1>3 DEF Saves, Loads, ReadRemovals, ExportPlan, RetireEmpty, OpenStaging, WriteStaging,
                FlushStaging, RenameStaged, SaveFails, LoadFinds, LoadRejects, Unsaved, Unloaded
  <1>4. ASSUME UNCHANGED vars \/ Boots \/ \E i \in Item : SourceVanishes(i)
        PROVE  ending' = ending
    BY <1>4 DEF vars, Boots, SourceVanishes
  <1> QED
    BY <1>1, <1>2, <1>3, <1>4 DEF Next

\* What was deferred is where it was, until the first save by hand.
LEMMA DeferredKept ==
    ASSUME TransferTypes, TransferTypes', FileTypes, FilesInv, StagingInv, ByHandInv, [Next]_vars,
           \A j \in fresh : FreshInv(j), NEW w \in Window, DeferredInv(w)
    PROVE  DeferredInv(w)'
  <1> DEFINE p == jobs[w].planning
             d == jobs[w].deferred
             q == jobs[w].queued
             Apart2 == /\ jobs'[w].deferred \cap (jobs'[w].planning \cup jobs'[w].queued) = {}
                       /\ Held(w)' \cap Contents(jobs'[w].deferred) = {}
             Grows(j) == /\ j \in fresh /\ j \notin fresh'
                         /\ at' = at /\ \A v \in Window \ {w} : jobs'[v] = jobs[v]
                         /\ jobs'[w].deferred \subseteq d \cup {j}
  <1> SUFFICES ASSUME byHand' = 0  PROVE DeferredInv(w)'
    BY DEF DeferredInv
  <1>0. /\ byHand = 0 /\ d \cap (p \cup q) = {} /\ Held(w) \cap Contents(d) = {}
        /\ p \in SUBSET Job /\ d \in SUBSET Job /\ q \in SUBSET Job
        /\ w \notin ending => \A j \in d :
              NotInArchives(j) /\ \A v \in Window \ {w} : NotInWindow(v, j)
    <2>1. byHand = 0
      BY ByHandKept DEF FileTypes
    <2> QED
      BY <2>1, HeldTypes DEF DeferredInv
  <1>1. ASSUME at'[w] = at[w]  PROVE Held(w)' = Held(w)
    BY <1>1 DEF Held, In
  <1>2. ASSUME jobs'[w].deferred = {}  PROVE Apart2 /\ jobs'[w].deferred \subseteq d
    BY <1>2, ContentFacts
  <1>3. ASSUME at'[w] = at[w], jobs'[w].deferred = d,
               jobs'[w].planning \cup jobs'[w].queued \subseteq p \cup q
        PROVE  Apart2 /\ jobs'[w].deferred \subseteq d
    BY <1>0, <1>1, <1>3
  <1>4. ASSUME NEW j \in Job, Submit(w, j)
        PROVE  Apart2 /\ Grows(j)
    <2>1. /\ j \in fresh /\ j \notin fresh' /\ at' = at
          /\ \A v \in Window \ {w} : jobs'[v] = jobs[v]
          /\ j \notin p \cup d \cup q /\ Held(w) \cap Content[j] = {}
      BY <1>4, SubmitDoes DEF Submit, FreshInv, NotInWindow
    <2>2. CASE jobs'[w].deferred = d
      <3>1. jobs'[w].planning \cup jobs'[w].queued \subseteq p \cup q \cup {j}
        BY <1>4, SubmitDoes
      <3> QED
        BY <1>0, <1>1, <2>1, <2>2, <3>1
    <2>3. CASE jobs'[w].deferred # d
      <3>1. /\ jobs'[w].planning = p /\ jobs'[w].queued = q /\ jobs'[w].deferred = d \cup {j}
        BY <1>4, <2>3, SubmitDoes
      <3>2. Held(w) \cap Contents(d \cup {j}) = {}
        BY <1>0, <2>1, ContentsOf
      <3> QED
        BY <1>0, <1>1, <2>1, <3>1, <3>2
    <2> QED
      BY <2>2, <2>3
  <1>5. ASSUME NEW j \in Job, Planned(w, j)  PROVE Apart2 /\ jobs'[w].deferred \subseteq d
    <2>1. /\ j \in p /\ Joined(w, j) /\ jobs'[w].planning = p \ {j}
          /\ jobs'[w].deferred = d /\ jobs'[w].queued = q
      BY <1>5, PlannedDoes
    <2>2. Content[j] \cap Contents(d) = {}
      BY <1>0, <2>1, ContentFacts
    <2>3. Held(w)' \subseteq Held(w) \cup Content[j]
      BY <2>1, JoinedHeld
    <2> QED
      BY <1>0, <2>1, <2>2, <2>3
  <1>6. ASSUME NEW i \in Item, WorkOn(w, i)  PROVE Apart2 /\ jobs'[w].deferred \subseteq d
    <2>1. jobs' = jobs /\ Held(w)' \subseteq Held(w)
      BY <1>6, WorkOnDoes, WorkOnHeld
    <2> QED
      BY <1>0, <2>1
  <1>7. ASSUME Resume(w)  PROVE Apart2 /\ jobs'[w].deferred \subseteq d
    <2> DEFINE a == hand[R(w)].archive
    <2>1. /\ Adopts(w, a) /\ UNCHANGED <<fresh, source, told>> /\ a \in Archive
          /\ w \notin ending /\ p = {} /\ q = {}
      BY <1>7, PathFacts DEF Resume, R, FileTypes, Hand, Idle
    <2>2. \A j \in d : Without(a, j)
      BY <1>0, <2>1, PathFacts DEF NotInArchives
    <2> HIDE DEF a
    <2>3. jobs'[w].deferred = d /\ jobs'[w].planning \cup jobs'[w].queued \subseteq a.queued
      BY <2>1, AdoptsDoes
    <2>4. \A i \in Item : at'[w][i] # "Out" => i \in a.plan \cup a.removals \cup Held(w)
      BY <2>1, AdoptsDoes, HeldOf
    <2>5. Held(w)' \subseteq a.plan \cup a.removals \cup Held(w)
      BY <2>4, HeldOfNext DEF Held, In
    <2>6. (a.plan \cup a.removals) \cap Contents(d) = {}
      BY <2>2, ContentsOf DEF Without
    <2>7. d \cap a.queued = {}
      BY <2>2 DEF Without
    <2> QED
      BY <1>0, <2>3, <2>5, <2>6, <2>7
  <1>8. ASSUME LoadQueue(w)  PROVE FALSE
    BY <1>0, <1>8 DEF LoadQueue, ByHandInv, Q
  <1>9. Apart2 /\ (jobs'[w].deferred \subseteq d \/ \E j \in Job : Grows(j))
    <2>1. ASSUME NEW j \in Job, Published(w, j)  PROVE jobs'[w].deferred = {}
      BY <2>1, PublishedDoes
    <2>2. ASSUME Dies  PROVE jobs'[w].deferred = {}
      BY <2>2 DEF Dies, NoJobs
    <2>3. ASSUME NextSession(w)
          PROVE  /\ at'[w] = at[w] /\ jobs'[w].deferred = d
                 /\ jobs'[w].planning \cup jobs'[w].queued = p \cup q
      BY <2>3, NextSessionDoes
    <2>4. ASSUME TakesDeferred(w)  PROVE jobs'[w].deferred = {}
      BY <2>4, TakesDeferredDoes
    <2> HIDE DEF Apart2, Grows
    <2> QED
      BY <1>2, <1>3, <1>4, <1>5, <1>6, <1>7, <1>8, <2>1, <2>2, <2>3, <2>4, WindowSteps
  <1>10. ASSUME w \notin ending', NEW j \in jobs'[w].deferred
         PROVE  NotInArchives(j)' /\ \A v \in Window \ {w} : NotInWindow(v, j)'
    <2>1. CASE j \in d
      <3>1. ~Dies
        BY <2>1, <1>10 DEF Dies, NoJobs
      <3>2. w \notin ending
        BY <1>10, <3>1, EndingGrows
      <3>3. j \in Job /\ NotInArchives(j) /\ \A v \in Window \ {w} : NotInWindow(v, j)
        BY <1>0, <2>1, <3>2
      <3>4. j \notin fresh
        BY <2>1 DEF FreshInv, NotInWindow
      <3>5. NotInArchives(j)'
        BY <1>10, <3>3, OutOfArchives
      <3> QED
        BY <3>3, <3>4, <3>5, OutOfWindow
    <2>2. CASE j \notin d
      <3>1. Grows(j)
        BY <1>9, <1>10, <2>2
      <3>2. j \in Job /\ NotInArchives(j) /\ \A v \in Window : NotInWindow(v, j)
        BY <3>1 DEF FreshInv, TransferTypes
      <3>3. NotInArchives(j)'
        BY <3>2, OutOfArchives
      <3>4. ASSUME NEW v \in Window \ {w}  PROVE NotInWindow(v, j)'
        <4>1. at' = at /\ jobs'[v] = jobs[v]
          BY <3>1
        <4>2. Held(v)' = Held(v)
          BY <4>1 DEF Held, In
        <4> QED
          BY <3>2, <4>1, <4>2 DEF NotInWindow
      <3> QED
        BY <3>3, <3>4
    <2> QED
      BY <2>1, <2>2
  <1> HIDE DEF Grows
  <1> QED
    BY <1>9, <1>10 DEF DeferredInv

\* What a save owes is where it says, and it is owed to a plan that is there.
LEMMA OwedKept ==
    ASSUME TransferTypes, TransferTypes', FileTypes, OwedInv, [Next]_vars
    PROVE  OwedInv'
  <1> DEFINE Copied(w) == In(w, {"Copied"})
  <1>0. /\ \A w \in Window \ live : Held(w) = {}
        /\ \A s \in Saver : Owes(s) /\ s[1] \in Window
        /\ \A w \in Window : w \notin session => w \notin live
        /\ \A w \in Window : Held(w) \in SUBSET Item
    BY HeldTypes, PathFacts DEF OwedInv, TransferTypes
  <1>1. ASSUME NEW w \in Window, at'[w] = at[w]  PROVE Held(w)' = Held(w) /\ Copied(w)' = Copied(w)
    BY <1>1 DEF Held, In
  <1>2. ASSUME NEW w \in Window, NEW a \in Archive, Idle(w), Adopts(w, a),
               UNCHANGED <<fresh, source, told>>
        PROVE  at'[w] = at[w] \/ w \in live'
    BY <1>2, AdoptsDoes
  <1>3. ASSUME NEW w \in Window, Resume(w) \/ LoadQueue(w)
        PROVE  \/ at'[w] = at[w] /\ live' = live
               \/ /\ Idle(w) /\ UNCHANGED <<fresh, source, told>>
                  /\ \E a \in Archive : Adopts(w, a)
    <2>1. hand[R(w)].archive \in Archive /\ hand[Q(w)].archive \in Archive
      BY PathFacts DEF FileTypes, Hand
    <2>2. CASE Resume(w)
      BY <2>1, <2>2 DEF Resume, R
    <2>3. CASE LoadQueue(w)
      <3>1. UNCHANGED <<fresh, source, told>>
        BY <2>3 DEF LoadQueue
      <3> QED
        BY <2>1, <2>3, <3>1, LoadQueueDoes
    <2> QED
      BY <1>3, <2>2, <2>3
  \* Only a plan that is there has items.
  <1>4. ASSUME NEW w \in Window, w \notin live'  PROVE Held(w)' = {}
    <2>1. ASSUME NEW j \in Job, Joined(w, j)  PROVE at'[w] = at[w] /\ w \notin live
      BY <1>4, <2>1 DEF Joined
    <2>2. ASSUME at'[w] = at[w], w \notin live  PROVE Held(w)' = {}
      BY <1>0, <1>1, <2>2
    <2>3. ASSUME NEW j \in Job, Submit(w, j) \/ Published(w, j) \/ Planned(w, j)
          PROVE  at'[w] = at[w] /\ w \notin live
      <3>1. CASE Submit(w, j)
        BY <1>4, <3>1, SubmitDoes
      <3>2. CASE Published(w, j) \/ Planned(w, j)
        BY <2>1, <3>2, PublishedDoes, PlannedDoes
      <3> QED
        BY <2>3, <3>1, <3>2
    <2>4. ASSUME NEW i \in Item, WorkOn(w, i)  PROVE Held(w)' = {}
      <3>1. live' = live /\ Held(w)' \subseteq Held(w)
        BY <2>4, WorkOnDoes, WorkOnHeld
      <3> QED
        BY <1>0, <1>4, <3>1
    <2>5. ASSUME NextSession(w)  PROVE Held(w)' = {}
      BY <1>1, <2>5, NextSessionDoes
    <2>6. ASSUME TakesDeferred(w)  PROVE at'[w] = at[w] /\ w \notin live
      BY <1>4, <2>6, TakesDeferredDoes
    <2>7. ASSUME Resume(w) \/ LoadQueue(w)  PROVE Held(w)' = {}
      <3>1. CASE at'[w] = at[w] /\ live' = live
        BY <1>4, <2>2, <3>1
      <3>2. CASE Idle(w) /\ UNCHANGED <<fresh, source, told>> /\ \E a \in Archive : Adopts(w, a)
        BY <1>0, <1>2, <1>4, <2>2, <3>2 DEF Idle
      <3> QED
        BY <1>3, <2>7, <3>1, <3>2
    <2>8. ASSUME Dies  PROVE Held(w)' = {}
      <3>1. \A i \in Item : at'[w][i] = "Out"
        BY <2>8 DEF Dies
      <3> QED
        BY <3>1, HeldOfNext DEF Held, In
    <2> QED
      BY <1>4, <2>2, <2>3, <2>4, <2>5, <2>6, <2>7, <2>8, WindowSteps
  \* What a save owes.
  <1>5. ASSUME NEW s \in Saver, saver'[s].current = FALSE, saver'[s].owed = {}  PROVE Owes(s)'
    BY <1>5 DEF Owes
  <1>6. ASSUME NEW s \in Saver, KeptAs(s), saver[s].current => s[1] \in live',
               Held(s[1]) \subseteq Held(s[1])', Copied(s[1])' \cap Held(s[1]) \subseteq Copied(s[1])
        PROVE  Owes(s)'
    <2>1. Owes(s)
      BY <1>0
    <2>2. CASE saver[s].current
      BY <1>6, <2>1, <2>2 DEF Owes, KeptAs, SavedAs
    <2>3. CASE ~saver[s].current
      BY <1>6, <2>1, <2>3 DEF Owes, KeptAs, SavedAs
    <2> QED
      BY <2>2, <2>3
  <1>7. ASSUME NEW s \in Saver, KeptAs(s), ~\E i \in Item : WorkOn(s[1], i), ~NextSession(s[1]), ~Dies
        PROVE  Owes(s)'
    <2> DEFINE w == s[1]
    <2>0. w \in Window /\ (saver[s].current => w \in live)
      BY <1>0 DEF Owes
    <2> HIDE DEF w
    <2>1. CASE at'[w] = at[w] /\ (w \in live => w \in live')
      BY <1>1, <1>6, <1>7, <2>0, <2>1 DEF w
    <2>2. ASSUME NEW j \in Job, Submit(w, j)  PROVE at'[w] = at[w] /\ (w \in live => w \in live')
      BY <2>0, <2>2, SubmitDoes
    <2>3. ASSUME NEW j \in Job, Published(w, j) \/ Planned(w, j)  PROVE Owes(s)'
      <3>1. Joined(w, j) /\ (w \in live => w \in live')
        BY <2>0, <2>3, PublishedDoes, PlannedDoes
      <3>2. Held(w) \subseteq Held(w)' /\ Copied(w)' \subseteq Copied(w)
        BY <2>0, <3>1, JoinedHeld
      <3> QED
        BY <1>6, <1>7, <2>0, <3>1, <3>2 DEF w
    <2>4. ASSUME TakesDeferred(w)  PROVE at'[w] = at[w] /\ (w \in live => w \in live')
      BY <2>0, <2>4, TakesDeferredDoes
    <2>5. ASSUME Resume(w) \/ LoadQueue(w), ~(at'[w] = at[w] /\ live' = live)  PROVE Owes(s)'
      <3>1. w \notin live
        BY <1>0, <1>3, <2>0, <2>5 DEF Idle
      <3>2. saver[s].current = FALSE /\ saver[s].owed = {}
        <4>1. saver[s].current \in BOOLEAN
          BY DEF FileTypes, Save
        <4> QED
          BY <1>0, <2>0, <3>1, <4>1 DEF Owes
      <3> QED
        BY <1>5, <1>7, <3>2 DEF KeptAs
    <2> QED
      BY <1>7, <2>0, <2>1, <2>2, <2>3, <2>4, <2>5, WindowSteps DEF w
  <1>8. ASSUME NEW s \in Saver, NEW path \in Path, Starts(s, path), UNCHANGED <<at, live>>
        PROVE  Owes(s)'
    <2>1. /\ saver'[s].phase = "Removals" /\ saver'[s].current = (s[1] \in live)
          /\ saver'[s].owed = Held(s[1])
      BY <1>8, StartsDoes
    <2>2. Held(s[1])' = Held(s[1]) /\ (s[1] \notin live => Held(s[1]) = {})
      BY <1>0, <1>1, <1>8
    <2> QED
      BY <1>8, <2>1, <2>2 DEF Owes
  <1>9. ASSUME NEW s \in Saver, GoesOn(s)  PROVE Owes(s)'
    <2> DEFINE w == s[1]
               a == saver[s].archive
    <2>0. w \in Window /\ UNCHANGED <<at, live>> /\ Owes(s)
      BY <1>0, <1>9 DEF GoesOn, ReadRemovals, ExportPlan, OpenStaging, WriteStaging, FlushStaging,
                        Unsaved, windowVars, planVars
    <2> HIDE DEF w
    <2>1. Held(w)' = Held(w) /\ Copied(w)' = Copied(w)
      BY <1>1, <2>0
    <2>2. saver'[s].current = saver[s].current /\ saver'[s].owed = saver[s].owed
      BY <1>9, GoesOnDoes
    <2>3. IF saver'[s].current THEN w \in live' /\ saver'[s].owed \subseteq Held(w)'
                               ELSE saver'[s].owed = {}
      BY <2>0, <2>1, <2>2 DEF Owes, w
    <2>4. CASE saver[s].phase = "Removals"
      <3>1. saver'[s].phase = "Export" /\ saver'[s].archive.removals = Captured(s, {"Copied"})
        BY <1>9, <2>4, GoesOnDoes
      <3>2. saver'[s].owed \cap Copied(w)' \subseteq saver'[s].archive.removals
        <4>1. CASE saver[s].current
          BY <2>1, <3>1, <4>1 DEF Captured, w
        <4>2. CASE ~saver[s].current
          BY <2>2, <2>3, <4>2
        <4> QED
          BY <4>1, <4>2
      <3> QED
        BY <2>3, <3>1, <3>2 DEF Owes, w
    <2>5. CASE saver[s].phase = "Export"
      <3>1. /\ saver'[s].phase = "Open" /\ saver'[s].archive.plan = Exported(s)
            /\ saver'[s].archive.removals = a.removals
        BY <1>9, <2>5, GoesOnDoes
      <3>2. saver'[s].owed \subseteq saver'[s].archive.plan \cup saver'[s].archive.removals
        <4>1. CASE saver[s].current
          <5>1. Held(w) \subseteq In(w, {"Pending", "Parked"}) \cup Copied(w)
            BY DEF Held, In, State
          <5>2. saver[s].owed \subseteq Held(w) /\ saver[s].owed \cap Copied(w) \subseteq a.removals
            BY <2>0, <2>5, <4>1 DEF Owes, w
          <5>3. Exported(s) = In(w, {"Pending", "Parked"})
            BY <4>1 DEF Exported, Captured, w
          <5> QED
            BY <2>2, <3>1, <5>1, <5>2, <5>3
        <4>2. CASE ~saver[s].current
          BY <2>2, <2>3, <4>2
        <4> QED
          BY <4>1, <4>2
      <3> QED
        BY <2>3, <3>1, <3>2 DEF Owes, w
    <2>6. CASE saver[s].phase \notin {"Removals", "Export"}
      <3>1. /\ saver[s].phase \in {"Open", "Write", "Flush"}
            /\ saver'[s].phase \in {"Write", "Flush", "Rename"} /\ saver'[s].archive = a
        BY <1>9, <2>6, GoesOnDoes
      <3>2. saver[s].owed \subseteq a.plan \cup a.removals
        BY <2>0, <3>1 DEF Owes
      <3> QED
        BY <2>2, <2>3, <3>1, <3>2 DEF Owes, w
    <2> QED
      BY <2>4, <2>5, <2>6
  <1>10. ASSUME NEW s \in Saver, NEW i \in Item, WorkOn(s[1], i)  PROVE Owes(s)'
    <2> DEFINE w == s[1]
               Less == saver[s].owed \ {i}
    <2>0. w \in Window /\ Owes(s) /\ saver[s].current \in BOOLEAN
      BY <1>0 DEF FileTypes, Save
    <2> HIDE DEF w
    <2>1. /\ Held(w) \subseteq Held(w)' \cup {i}
          /\ at'[w][i] # "Out" => Held(w)' = Held(w)
          /\ Copied(w)' \subseteq Copied(w) \cup {i}
          /\ at'[w][i] # "Copied" => Copied(w)' \subseteq Copied(w)
          /\ live' = live
          /\ at'[w][i] = "Out" => Forgets(w, i, TRUE)
          /\ at'[w][i] = "Copied" => Forgets(w, i, FALSE)
          /\ at'[w][i] \notin {"Out", "Copied"} => saver' = saver
      BY <1>10, <2>0, WorkOnHeld, WorkOnDoes DEF w
    <2>2. CASE ~saver[s].current
      <3>1. saver[s].owed = {} /\ saver[s].current = FALSE
        BY <2>0, <2>2 DEF Owes
      <3>2. CASE at'[w][i] \in {"Out", "Copied"}
        <4>1. PICK gone \in BOOLEAN : Forgets(w, i, gone)
          BY <2>1, <3>2
        <4>2. saver'[s].current = saver[s].current /\ saver'[s].owed = saver[s].owed
          BY <2>0, <2>2, <4>1, ForgetsDoes
        <4> QED
          BY <1>5, <3>1, <4>2
      <3>3. CASE at'[w][i] \notin {"Out", "Copied"}
        BY <1>5, <2>1, <3>1, <3>3
      <3> QED
        BY <3>2, <3>3
    <2>3. CASE saver[s].current
      <3>0. /\ w \in live /\ saver[s].owed \subseteq Held(w)
            /\ saver[s].phase = "Export" =>
                  saver[s].owed \cap Copied(w) \subseteq saver[s].archive.removals
            /\ saver[s].phase \in {"Open", "Write", "Flush", "Rename"} =>
                  saver[s].owed \subseteq saver[s].archive.plan \cup saver[s].archive.removals
        BY <2>0, <2>3 DEF Owes, w
      <3>1. CASE at'[w][i] = "Out"
        <4>1. SavedAs(s) /\ saver'[s].current /\ saver'[s].owed = Less
          BY <2>0, <2>1, <2>3, <3>1, ForgetsDoes DEF w
        <4>2. Less \subseteq Held(w)' /\ Copied(w)' \subseteq Copied(w)
          BY <2>1, <3>0, <3>1
        <4> QED
          BY <2>1, <3>0, <4>1, <4>2 DEF Owes, SavedAs, w
      <3>2. CASE at'[w][i] = "Copied"
        <4>1. /\ SavedAs(s) /\ saver'[s].current
              /\ saver'[s].owed = IF saver[s].phase = "Export" THEN Less ELSE saver[s].owed
          <5> DEFINE gone == FALSE
          <5>1. gone \in BOOLEAN /\ Forgets(w, i, gone) /\ s[1] = w
            BY <2>1, <3>2 DEF w
          <5>2. ~gone
            OBVIOUS
          <5> HIDE DEF gone
          <5> QED
            BY <2>0, <2>3, <5>1, <5>2, ForgetsDoes
        <4>2. Held(w)' = Held(w) /\ Less \cap Copied(w)' \subseteq saver[s].owed \cap Copied(w)
          BY <2>1, <3>2
        <4> QED
          BY <2>1, <3>0, <4>1, <4>2 DEF Owes, SavedAs, w
      <3>3. CASE at'[w][i] \notin {"Out", "Copied"}
        <4>1. saver' = saver /\ Held(w)' = Held(w) /\ Copied(w)' \subseteq Copied(w)
          BY <2>1, <3>3
        <4>2. /\ saver'[s].current /\ saver'[s].owed = saver[s].owed
              /\ saver'[s].phase = saver[s].phase /\ saver'[s].archive = saver[s].archive
          BY <2>3, <4>1
        <4> QED
          BY <2>1, <3>0, <4>1, <4>2 DEF Owes, w
      <3> QED
        BY <3>1, <3>2, <3>3
    <2> QED
      BY <2>2, <2>3
  <1>11. ASSUME NEW s \in Saver, NextSession(s[1])  PROVE Owes(s)'
    <2>1. saver'[s].owed = saver[s].owed /\ saver'[s].current = (saver[s].current /\ FALSE)
      BY <1>0, <1>11, LetsGoDoes
    <2>2. Held(s[1]) = {} /\ Owes(s)
      BY <1>0, <1>11, NextSessionDoes
    <2>3. saver[s].owed = {}
      BY <2>2 DEF Owes
    <2> QED
      BY <1>5, <2>1, <2>3
  <1>12. ASSUME NEW s \in Saver, saver'[s] = NoSave  PROVE Owes(s)'
    <2>1. NoSave.current = FALSE /\ NoSave.owed = {}
      BY DEF NoSave
    <2> QED
      BY <1>5, <1>12, <2>1
  <1>13. ASSUME NEW w \in Window, EndSession(w)  PROVE Owes(R(w))'
    <2>1. Starts(R(w), name[w]) /\ UNCHANGED <<at, live>> /\ R(w) \in Saver /\ name[w] \in Path
      BY <1>13, PathFacts DEF EndSession, R, windowVars, planVars, FileTypes
    <2> QED
      BY <1>8, <2>1
  <1>14. ASSUME NEW w \in Window, SaveQueue(w)  PROVE Owes(Q(w))'
    <2>1. Starts(Q(w), Queue) /\ UNCHANGED <<at, live>> /\ Q(w) \in Saver /\ Queue \in Path
      BY <1>14, PathFacts DEF SaveQueue, Q, windowVars, planVars
    <2> QED
      BY <1>8, <2>1
  <1>15. ASSUME NEW s \in Saver  PROVE Owes(s)'
    <2>1. ASSUME Dies  PROVE saver'[s] = NoSave
      BY <2>1 DEF Dies
    <2>2. ASSUME Finishes(s)  PROVE saver'[s] = NoSave
      BY <2>2, SaveEnds
    <2>3. ASSUME s = R(s[1]), EndSession(s[1])  PROVE Owes(s)'
      BY <1>0, <1>13, <2>3
    <2>4. ASSUME s = Q(s[1]), SaveQueue(s[1])  PROVE Owes(s)'
      BY <1>0, <1>14, <2>4
    <2> QED
      BY <1>7, <1>9, <1>10, <1>11, <1>12, <2>1, <2>2, <2>3, <2>4, SaverSteps
  <1> QED
    BY <1>4, <1>15 DEF OwedInv

-----------------------------------------------------------------------------
(***************************************************************************)
(* What a file says, and what has become of it.                            *)
(***************************************************************************)
\* Known, item by item.
LEMMA KnownOf ==
    ASSUME NEW i
    PROVE  i \in Known <=>
             \/ i \in told
             \/ \E w \in Window : i \in Held(w)
             \/ \E w \in Window : \E j \in jobs[w].planning \cup jobs[w].deferred \cup jobs[w].queued :
                   i \in Content[j]
  BY DEF Known, Contents

\* The same after a step.
LEMMA KnownOfNext ==
    ASSUME NEW i
    PROVE  i \in Known' <=>
             \/ i \in told'
             \/ \E w \in Window : i \in Held(w)'
             \/ \E w \in Window :
                   \E j \in jobs'[w].planning \cup jobs'[w].deferred \cup jobs'[w].queued :
                      i \in Content[j]
  BY DEF Known, Contents

\* Planning and copying: nothing is forgotten that the person does not know of.
LEMMA WorkIsNotForgotten ==
    ASSUME TransferTypes, FileTypes, TransferTypes', NEW v \in Window,
           \/ \E j \in Job : Planned(v, j)
           \/ \E i \in Item : WorkOn(v, i)
    PROVE  Known \subseteq Known'
  <1> SUFFICES ASSUME NEW i \in Known  PROVE i \in Known'
    OBVIOUS
  <1>0. i \in Item
    <2>1. ASSUME NEW w \in Window, NEW j \in jobs[w].planning \cup jobs[w].deferred \cup jobs[w].queued
          PROVE  Content[j] \subseteq Item
      BY HeldTypes, ContentFacts
    <2>2. told \subseteq Item /\ \A w \in Window : Held(w) \subseteq Item
      BY HeldTypes DEF TransferTypes
    <2> QED
      BY <2>1, <2>2, KnownOf
  <1>1. ASSUME NEW j \in Job, Planned(v, j)  PROVE i \in Known'
    <2>1. /\ \A w \in Window \ {v} : jobs'[w] = jobs[w] /\ at'[w] = at[w]
          /\ jobs'[v].planning = jobs[v].planning \ {j} /\ Joined(v, j)
          /\ jobs'[v].deferred = jobs[v].deferred /\ jobs'[v].queued = jobs[v].queued
      BY <1>1, PlannedDoes
    <2>2. /\ told \subseteq told' /\ Held(v) \subseteq Held(v)'
          /\ Content[j] \subseteq told' \cup Held(v)'
      BY <2>1, JoinedHeld
    <2>3. CASE i \in told
      BY <2>2, <2>3, KnownOfNext
    <2>4. ASSUME NEW w \in Window, i \in Held(w)  PROVE i \in Known'
      <3>1. CASE w = v
        BY <2>2, <2>4, <3>1, KnownOfNext
      <3>2. CASE w # v
        <4>1. Held(w)' = Held(w)
          BY <2>1, <3>2 DEF Held, In
        <4> QED
          BY <2>4, <4>1, KnownOfNext
      <3> QED
        BY <3>1, <3>2
    <2>5. ASSUME NEW w \in Window,
                 NEW k \in jobs[w].planning \cup jobs[w].deferred \cup jobs[w].queued,
                 i \in Content[k]
          PROVE  i \in Known'
      <3>1. CASE w # v \/ k # j
        <4>1. k \in jobs'[w].planning \cup jobs'[w].deferred \cup jobs'[w].queued
          BY <2>1, <3>1
        <4> QED
          BY <2>5, <4>1, KnownOfNext
      <3>2. CASE w = v /\ k = j
        <4>1. i \in told' \/ i \in Held(v)'
          BY <2>2, <2>5, <3>2
        <4> QED
          BY <4>1, KnownOfNext
      <3> QED
        BY <3>1, <3>2
    <2> QED
      BY <2>3, <2>4, <2>5, KnownOf
  <1>2. ASSUME NEW k \in Item, WorkOn(v, k)  PROVE i \in Known'
    <2>1. /\ told \subseteq told' /\ jobs' = jobs
          /\ \A w \in Window \ {v} : at'[w] = at[w]
          /\ \A l \in Item \ {k} : at'[v][l] = at[v][l]
          /\ at'[v][k] = "Out" => k \in told'
      BY <1>2, WorkOnDoes
    <2>2. CASE i \in told
      BY <2>1, <2>2, KnownOfNext
    <2>3. ASSUME NEW w \in Window, i \in Held(w)  PROVE i \in Known'
      <3>1. at[w][i] # "Out"
        BY <1>0, <2>3, HeldOf
      <3>2. at'[w][i] # "Out" \/ i \in told'
        BY <1>0, <2>1, <3>1
      <3> QED
        BY <1>0, <3>2, HeldOfNext, KnownOfNext
    <2>4. ASSUME NEW w \in Window,
                 NEW j \in jobs[w].planning \cup jobs[w].deferred \cup jobs[w].queued,
                 i \in Content[j]
          PROVE  i \in Known'
      BY <2>1, <2>4, KnownOfNext
    <2> QED
      BY <2>2, <2>3, <2>4, KnownOf
  <1> QED
    BY <1>1, <1>2

\* All of the work of an archive a window adopts is with it.
LEMMA AdoptedIsKnown ==
    ASSUME TransferTypes, TransferTypes', NEW w \in Window, NEW a \in Archive,
           Adopts(w, a), UNCHANGED <<fresh, source, told>>, a.appends = {}
    PROVE  Work(a) \subseteq Known'
  <1> SUFFICES ASSUME NEW i \in Work(a)  PROVE i \in Known'
    OBVIOUS
  <1>1. i \in Item /\ a.plan \in SUBSET Item /\ a.removals \in SUBSET Item
    BY ArchiveFacts DEF Archive
  <1>2. i \in a.plan \cup a.removals \/ \E j \in a.queued : i \in Content[j]
    <2>1. i \in a.plan \cup a.removals \/ i \in Contents(a.appends \cup a.queued)
      BY DEF Work
    <2> QED
      BY <2>1, ContentsOf
  <1>3. CASE i \in a.plan \cup a.removals
    <2>1. at'[w][i] # "Out"
      BY <1>1, <1>3, AdoptsDoes
    <2> QED
      BY <1>1, <2>1, HeldOfNext, KnownOfNext
  <1>4. ASSUME NEW j \in a.queued, i \in Content[j]  PROVE i \in Known'
    <2>1. j \in jobs'[w].planning \cup jobs'[w].queued
      BY AdoptsDoes
    <2> QED
      BY <1>4, <2>1, KnownOfNext
  <1> QED
    BY <1>2, <1>3, <1>4

\* A recovery file is renamed whole, and only where none stands.
LEMMA WrittenFile ==
    ASSUME FileTypes, FilesInv, StagingInv, NEW s \in Saver, Finishes(s),
           NEW p \in Session, disk'[p] # disk[p]
    PROVE  /\ disk[p] = NoFile /\ p = saver[s].path
           /\ \A w \in Window : Taken(w) # p /\ ~Adopted(w)
           /\ disk'[p].kind = "Whole" /\ disk'[p].archive = saver[s].archive
           /\ saver[s].archive.plan \cap Contents(saver[s].archive.appends) = {}
  <1>1. s = R(s[1]) /\ s[1] \in Window /\ Saving(s[1]) /\ p = saver[s].path /\ p \in Path
    <2>1. p = saver[s].path /\ p \in Path /\ saver[s].phase # "Idle"
      BY PathFacts, SaveEnds DEF Finishes, RetireEmpty, RenameStaged, SaveFails, FileTypes
    <2>2. p # Queue
      BY PathFacts
    <2>3. s # Q(s[1])
      BY <2>1, <2>2, PathFacts DEF FilesInv, CheckpointInv
    <2> QED
      BY <2>1, <2>3, PathFacts DEF Saving
  <1>2. /\ disk[p] = NoFile /\ \A w \in Window : Taken(w) # p /\ ~Adopted(w)
        /\ saver[s].archive.plan \cap Contents(saver[s].archive.appends) = {}
    BY <1>1 DEF FilesInv, CheckpointInv
  <1>3. RenameStaged(s)
    BY <1>1, <1>2 DEF Finishes, RetireEmpty, SaveFails, FileTypes
  <1>4. disk'[p] = staged[s]
    BY <1>1, <1>3 DEF RenameStaged, TempFor, FileTypes
  <1>5. staged[s] = [kind |-> "Whole", archive |-> saver[s].archive]
    BY <1>3 DEF RenameStaged, At, StagingInv
  <1> QED
    BY <1>1, <1>2, <1>4, <1>5

\* Which steps change a recovery file, and how.
LEMMA FileChanges ==
    ASSUME FileTypes, FilesInv, [Next]_vars, NEW p \in Session, disk'[p] # disk[p]
    PROVE  \/ \E s \in Saver : Finishes(s)
           \/ /\ disk'[p] = NoFile
              /\ \E w \in Window : /\ p = Taken(w)
                                   /\ LoadRejects(R(w)) \/ Discard(w) \/ Retire(w)
  <1>0. p \in Path
    BY PathFacts
  <1>1. ASSUME NEW s \in Saver, LoadRejects(s)
        PROVE  /\ disk'[p] = NoFile
               /\ \E w \in Window : p = Taken(w) /\ LoadRejects(R(w))
    <2>1. PICK w \in Window, k \in {"Recovery", "Queue"} : s = <<w, k>>
      BY DEF Saver
    <2>2. s[2] = "Recovery"
      BY <1>1 DEF LoadRejects
    <2>3. s = R(w)
      BY <2>1, <2>2 DEF R
    <2>4. disk' = [disk EXCEPT ![hand[s].path] = NoFile]
      BY <1>1, <2>2 DEF LoadRejects
    <2> QED
      BY <1>0, <1>1, <2>3, <2>4 DEF FileTypes, Taken
  <1>2. ASSUME NEW w \in Window, Discard(w) \/ Retire(w)  PROVE disk'[p] = NoFile /\ p = Taken(w)
    BY <1>0, <1>2 DEF Discard, Retire, FileTypes, Taken, R
  <1>3. ASSUME NEW w \in Window,
               \/ EndSession(w) \/ SaveQueue(w) \/ Offer(w) \/ Ask(w) \/ GiveBack(w)
               \/ Resume(w) \/ PickQueue(w) \/ LoadQueue(w) \/ Transfers(w)
        PROVE  FALSE
    <2>1. CASE Transfers(w)
      BY <2>1, TransfersTouchNoFiles DEF fileVars
    <2>2. CASE \/ EndSession(w) \/ SaveQueue(w) \/ Offer(w) \/ Ask(w) \/ GiveBack(w)
               \/ Resume(w) \/ PickQueue(w) \/ LoadQueue(w)
      BY <2>2 DEF EndSession, SaveQueue, Offer, Ask, GiveBack, Resume, PickQueue, LoadQueue, Unloaded
    <2> QED
      BY <1>3, <2>1, <2>2
  <1>4. ASSUME NEW s \in Saver, GoesOn(s) \/ LoadFinds(s)  PROVE FALSE
    BY <1>4 DEF GoesOn, ReadRemovals, ExportPlan, OpenStaging, WriteStaging, FlushStaging, LoadFinds
  <1>5. ASSUME Dies  PROVE FALSE
    BY <1>0, <1>5 DEF Dies, FileTypes, Archived
  <1>6. ASSUME Boots \/ UNCHANGED vars \/ \E i \in Item : SourceVanishes(i)  PROVE FALSE
    BY <1>6 DEF Boots, vars, SourceVanishes
  <1> QED
    BY <1>1, <1>2, <1>3, <1>4, <1>5, <1>6 DEF Next, Saves, GoesOn, Finishes, Loads, Offers

\* Every file is as it was written.
LEMMA FileInvKept ==
    FileTypes /\ FilesInv /\ StagingInv /\ FileInv /\ [Next]_vars => FileInv'
  <1> SUFFICES ASSUME FileTypes, FilesInv, StagingInv, FileInv, [Next]_vars, NEW p \in Session
               PROVE  /\ disk'[p].kind = "None" => disk'[p] = NoFile
                      /\ disk'[p].archive.plan \cap Contents(disk'[p].archive.appends) = {}
    BY DEF FileInv
  <1>1. CASE disk'[p] = disk[p]
    BY <1>1 DEF FileInv
  <1>2. CASE disk'[p] = NoFile
    BY <1>2, NoFacts DEF Nothing
  <1>3. ASSUME disk'[p] # disk[p], NEW s \in Saver, Finishes(s)
        PROVE  /\ disk'[p].kind = "None" => disk'[p] = NoFile
               /\ disk'[p].archive.plan \cap Contents(disk'[p].archive.appends) = {}
    BY <1>3, WrittenFile
  <1> QED
    BY <1>1, <1>2, <1>3, FileChanges

\* Which steps change what a window is about to take over.
LEMMA HandChanges ==
    ASSUME FileTypes, FilesInv, [Next]_vars, NEW w \in Window, hand'[R(w)] # hand[R(w)]
    PROVE  \/ Offer(w) \/ Ask(w) \/ Resume(w) \/ LoadFinds(R(w))
           \/ hand'[R(w)] = NoHand
  <1>1. ASSUME NEW s \in Saver, Loads(s)  PROVE LoadFinds(R(w)) \/ hand'[R(w)] = NoHand
    <2>1. s = R(w)
      BY <1>1, PathFacts DEF Loads, LoadFinds, LoadRejects, FileTypes
    <2> QED
      BY <1>1, <2>1, PathFacts, LetGoDoes DEF Loads, LoadRejects
  <1>2. ASSUME NEW v \in Window, Offers(v)
        PROVE  Offer(w) \/ Ask(w) \/ Resume(w) \/ hand'[R(w)] = NoHand
    <2>1. CASE PickQueue(v) \/ LoadQueue(v)
      <3>1. hand'[R(w)] = hand[R(w)]
        BY <2>1, PathFacts DEF PickQueue, LoadQueue, Q, FileTypes
      <3> QED
        BY <3>1
    <2>2. CASE Ask(v) \/ Resume(v) \/ GiveBack(v) \/ Discard(v) \/ Retire(v)
      <3>1. v = w
        BY <2>2, PathFacts DEF Ask, Resume, GiveBack, Discard, Retire, R, FileTypes
      <3>2. CASE GiveBack(v) \/ Discard(v) \/ Retire(v)
        <4>1. hand' = [hand EXCEPT ![R(v)] = NoHand]
          BY <3>2 DEF GiveBack, Discard, Retire, R
        <4> QED
          BY <3>1, <4>1, PathFacts, LetGoDoes
      <3> QED
        BY <2>2, <3>1, <3>2
    <2>3. CASE Offer(v)
      <3>1. hand' = hand \/ \A t \in Saver \ {R(v)} : hand'[t] = hand[t]
        BY <2>3, OfferDoes DEF FilesInv
      <3> QED
        BY <2>3, <3>1, PathFacts
    <2> QED
      BY <1>2, <2>1, <2>2, <2>3 DEF Offers
  <1>3. ASSUME Dies  PROVE hand'[R(w)] = NoHand
    BY <1>3, PathFacts DEF Dies
  <1>4. ASSUME UNCHANGED hand  PROVE FALSE
    BY <1>4
  <1>5. CASE \/ UNCHANGED vars \/ Boots
             \/ \E v \in Window : Transfers(v) \/ EndSession(v) \/ SaveQueue(v)
             \/ \E s \in Saver : Saves(s)
             \/ \E i \in Item : SourceVanishes(i)
    BY <1>4, <1>5, TransfersTouchNoFiles
       DEF vars, offerVars, Boots, EndSession, SaveQueue, Saves, ReadRemovals, ExportPlan,
           RetireEmpty, OpenStaging, WriteStaging, FlushStaging, RenameStaged, SaveFails, Unsaved,
           SourceVanishes, fileVars
  <1> QED
    BY <1>1, <1>2, <1>3, <1>5 DEF Next

\* A file that a window has taken, and keeps, stays what it is.
LEMMA TakenFileStays ==
    ASSUME FileTypes, FilesInv, StagingInv, [Next]_vars, NEW w \in Window,
           hand[R(w)].phase # "None", hand'[R(w)].phase # "None"
    PROVE  disk'[Taken(w)] = disk[Taken(w)]
  <1> SUFFICES ASSUME disk'[Taken(w)] # disk[Taken(w)]  PROVE FALSE
    OBVIOUS
  <1>1. Taken(w) \in Session /\ Taken(w) # None
    BY PathFacts, RecoveryAssumption DEF FilesInv, OfferInv
  <1>2. ASSUME NEW s \in Saver, Finishes(s)  PROVE FALSE
    BY <1>1, <1>2, WrittenFile
  <1>3. ASSUME NEW v \in Window, Taken(w) = Taken(v), LoadRejects(R(v)) \/ Discard(v) \/ Retire(v)
        PROVE  FALSE
    <2>1. v = w
      BY <1>1, <1>3 DEF FilesInv, OfferInv
    <2>2. hand' = [hand EXCEPT ![R(w)] = NoHand]
      BY <1>3, <2>1 DEF LoadRejects, Discard, Retire, R
    <2> QED
      BY <2>2, PathFacts, LetGoDoes, NoFacts
  <1> QED
    BY <1>1, <1>2, <1>3, FileChanges

\* What a window shows the person is what the file says.
LEMMA ReadInvKept ==
    FileTypes /\ FilesInv /\ StagingInv /\ ReadInv /\ [Next]_vars => ReadInv'
  <1> SUFFICES ASSUME FileTypes, FilesInv, StagingInv, ReadInv, [Next]_vars, NEW w \in Window,
                      hand'[R(w)].phase \in {"Ready", "Asking"}
               PROVE  hand'[R(w)].archive = Merged(disk'[hand'[R(w)].path].archive)
    BY DEF ReadInv, Taken
  <1>1. CASE LoadFinds(R(w))
    <2>1. hand[R(w)].path \in Path /\ disk' = disk
      BY <1>1, HandPaths, PathFacts DEF LoadFinds, FilesInv
    <2> QED
      BY <1>1, <2>1, LoadFindsDoes, PathFacts
  <1>2. CASE Ask(w)
    <2>1. hand' = [hand EXCEPT ![R(w)].phase = "Asking"] /\ disk' = disk
          /\ hand[R(w)].phase = "Ready"
      BY <1>2 DEF Ask, R
    <2>2. hand'[R(w)].archive = hand[R(w)].archive /\ hand'[R(w)].path = hand[R(w)].path
      BY <2>1, PhaseDoes, PathFacts
    <2> QED
      BY <2>1, <2>2 DEF ReadInv, Taken
  <1>3. CASE hand'[R(w)] = hand[R(w)]
    BY <1>3, TakenFileStays DEF ReadInv, Taken
  <1>4. ASSUME Resume(w) \/ Offer(w), hand'[R(w)] # hand[R(w)]  PROVE FALSE
    <2>1. CASE Resume(w)
      <3>1. hand' = [hand EXCEPT ![R(w)].phase = "Adopted"]
        BY <2>1 DEF Resume, R
      <3> QED
        BY <3>1, PhaseDoes, PathFacts
    <2>2. CASE Offer(w)
      BY <1>4, <2>2, OfferDoes DEF FilesInv
    <2> QED
      BY <1>4, <2>1, <2>2
  <1> QED
    BY <1>1, <1>2, <1>3, <1>4, HandChanges, NoFacts

\* While an adoption is in progress only planning and copying change what is
\* with the windows.
LEMMA AdoptionStandsStill ==
    ASSUME TransferTypes, FileTypes, TransferTypes', [Next]_vars, ~Free, ~Dies
    PROVE Known \subseteq Known'
  <1>1. ASSUME UNCHANGED <<at, jobs, told>>  PROVE Known' = Known
    BY <1>1 DEF Known, Held, In
  <1>2. ASSUME NEW w \in Window, Transfers(w)  PROVE Known \subseteq Known'
    <2>1. \/ \E j \in Job : Planned(w, j)
          \/ \E i \in Item : WorkOn(w, i)
      BY <1>2 DEF Transfers, Submit, Published, TakesDeferred, NextSession
    <2> QED
      BY <2>1, WorkIsNotForgotten
  <1>3. ASSUME NEW w \in Window, EndSession(w) \/ SaveQueue(w)  PROVE FALSE
    BY <1>3 DEF EndSession, SaveQueue
  <1>4. ASSUME NEW w \in Window, Offers(w)  PROVE Retire(w)
    BY <1>4 DEF Offers, Offer, Ask, GiveBack, Discard, Resume, PickQueue, LoadQueue
  <1>5. ASSUME NEW w \in Window, Retire(w)  PROVE UNCHANGED <<at, jobs, told>>
    BY <1>5 DEF Retire, windowVars, planVars
  <1>6. ASSUME NEW s \in Saver, Saves(s) \/ Loads(s)  PROVE UNCHANGED <<at, jobs, told>>
    BY <1>6 DEF Saves, Loads, ReadRemovals, ExportPlan, RetireEmpty, OpenStaging, WriteStaging,
                FlushStaging, RenameStaged, SaveFails, LoadFinds, LoadRejects, Unsaved, Unloaded,
                windowVars, planVars
  <1>7. ASSUME Boots \/ UNCHANGED vars \/ \E i \in Item : SourceVanishes(i)
        PROVE  UNCHANGED <<at, jobs, told>>
    BY <1>7 DEF Boots, vars, SourceVanishes, windowVars, planVars
  <1> QED
    BY <1>1, <1>2, <1>3, <1>4, <1>5, <1>6, <1>7 DEF Next

\* The work of a file being adopted is with the windows, or known to be done.
LEMMA AdoptedInvKept ==
    TransferTypes /\ TransferTypes' /\ FileTypes /\ FilesInv /\ StagingInv /\ ReadInv /\ AdoptedInv
          /\ [Next]_vars
       => AdoptedInv'
  <1> SUFFICES ASSUME TransferTypes, TransferTypes', FileTypes, FilesInv, StagingInv, ReadInv,
                      AdoptedInv, [Next]_vars, NEW w \in Window, hand'[R(w)].phase = "Adopted"
               PROVE  Work(disk'[hand'[R(w)].path].archive) \subseteq Known'
    BY DEF AdoptedInv, Adopted, Taken
  <1>1. CASE Resume(w)
    <2> DEFINE a == hand[R(w)].archive
    <2>1. /\ hand' = [hand EXCEPT ![R(w)].phase = "Adopted"] /\ disk' = disk
          /\ hand[R(w)].phase = "Asking" /\ Adopts(w, a) /\ UNCHANGED <<fresh, source, told>>
      BY <1>1 DEF Resume, R
    <2>2. hand'[R(w)].path = Taken(w)
      BY <2>1, PhaseDoes, PathFacts DEF Taken
    <2>3. a = Merged(disk[Taken(w)].archive)
      BY <2>1 DEF ReadInv
    <2>4. Taken(w) \in Path
      BY <2>1, HandPaths, PathFacts DEF FilesInv, Taken
    <2>5. disk[Taken(w)].archive \in Archive
      BY <2>4 DEF FileTypes, Archived
    <2>6. a \in Archive /\ a.appends = {} /\ Work(a) = Work(disk[Taken(w)].archive)
      BY <2>3, <2>5, ArchiveFacts
    <2>7. Work(a) \subseteq Known'
      BY <2>1, <2>6, AdoptedIsKnown
    <2> QED
      BY <2>1, <2>2, <2>6, <2>7
  <1>2. CASE hand'[R(w)] = hand[R(w)]
    <2>1. disk'[Taken(w)] = disk[Taken(w)] /\ hand'[R(w)].path = Taken(w) /\ Adopted(w)
      BY <1>2, TakenFileStays DEF Taken, Adopted
    <2>2. ~Free
      BY <2>1 DEF Free, Adopted, R
    <2>3. ~Dies
      <3>1. ASSUME Dies  PROVE hand'[R(w)] = NoHand
        BY <3>1, PathFacts DEF Dies
      <3> QED
        BY <3>1, NoFacts
    <2>4. Known \subseteq Known'
      BY <2>2, <2>3, AdoptionStandsStill
    <2> QED
      BY <2>1, <2>4 DEF AdoptedInv
  <1>3. ASSUME LoadFinds(R(w)) \/ Ask(w) \/ Offer(w), hand'[R(w)] # hand[R(w)]  PROVE FALSE
    <2>1. CASE LoadFinds(R(w))
      <3>1. hand[R(w)].path \in Path
        BY <2>1, HandPaths, PathFacts DEF LoadFinds, FilesInv
      <3> QED
        BY <2>1, <3>1, LoadFindsDoes, PathFacts
    <2>2. CASE Ask(w)
      <3>1. hand' = [hand EXCEPT ![R(w)].phase = "Asking"]
        BY <2>2 DEF Ask, R
      <3> QED
        BY <3>1, PhaseDoes, PathFacts
    <2>3. CASE Offer(w)
      BY <1>3, <2>3, OfferDoes DEF FilesInv
    <2> QED
      BY <1>3, <2>1, <2>2, <2>3
  <1> QED
    BY <1>1, <1>2, <1>3, HandChanges, NoFacts

-----------------------------------------------------------------------------
\* The invariant of the saved queues, for any number of windows, jobs, items and
\* processes.
THEOREM RecoveryInvariant == Spec => []RecoveryInv
  <1>1. Init => RecoveryInv
    <2> SUFFICES ASSUME Init PROVE RecoveryInv
      OBVIOUS
    <2>1. TransferTypes /\ FileTypes /\ FilesInv
      BY FilesAtFirst
    <2>2. \A w \in Window : /\ jobs[w].planning = {} /\ jobs[w].deferred = {} /\ jobs[w].queued = {}
                            /\ Held(w) = {}
      <3>1. \A w \in Window : jobs[w] = NoJobs /\ \A i \in Item : at[w][i] = "Out"
        BY DEF Init
      <3>2. \A w \in Window : Held(w) = {}
        BY <2>1, <3>1, HeldOf DEF Held, In
      <3> QED
        BY <3>1, <3>2 DEF NoJobs
    <2>3. \A s \in Saver : saver[s] = NoSave /\ hand[s] = NoHand
      BY DEF Init
    <2>4. \A p \in Path : disk[p] = NoFile
      BY DEF Init
    <2>5. ByHandInv /\ \A w \in Window : DeferredInv(w)
      BY <2>2, <2>3, NoFacts, PathFacts, ContentFacts DEF ByHandInv, DeferredInv, Saving
    <2>6. \A j \in fresh : FreshInv(j)
      <3>1. ASSUME NEW j \in fresh  PROVE FreshInv(j)
        <4>1. Without(Nothing, j)
          BY <2>1, WithoutFacts DEF TransferTypes
        <4> QED
          BY <2>2, <2>3, <2>4, <4>1, NoFacts DEF FreshInv, NotInArchives, NotInWindow
      <3> QED
        BY <3>1
    <2>7. FileInv
      BY <2>4, NoFacts, PathFacts DEF FileInv, Nothing
    <2>8. ReadInv /\ AdoptedInv
      BY <2>3, NoFacts, PathFacts DEF ReadInv, AdoptedInv, Adopted
    <2>9. StagingInv /\ OwedInv
      <3>1. NoSave.current = FALSE /\ NoSave.owed = {} /\ NoSave.phase = "Idle"
        BY DEF NoSave
      <3>2. \A s \in Saver : Owes(s)
        BY <2>3, <3>1 DEF Owes
      <3> QED
        BY <2>2, <2>3, <3>1, <3>2 DEF StagingInv, OwedInv
    <2> QED
      BY <2>1, <2>5, <2>6, <2>7, <2>8, <2>9 DEF RecoveryInv
  <1>2. RecoveryInv /\ [Next]_vars => RecoveryInv'
    <2> SUFFICES ASSUME RecoveryInv, [Next]_vars PROVE RecoveryInv'
      OBVIOUS
    <2>1. /\ TransferTypes /\ FileTypes /\ FilesInv /\ FileInv /\ ReadInv /\ AdoptedInv
          /\ StagingInv /\ OwedInv /\ ByHandInv /\ \A w \in Window : DeferredInv(w)
          /\ \A j \in fresh : FreshInv(j)
      BY DEF RecoveryInv
    <2>2. TransferTypes' /\ FileTypes'
      BY <2>1, TransferTypesKept, FileTypesKept
    <2>3. FilesInv'
      BY <2>1, FilesKept
    <2>4. StagingInv' /\ OwedInv'
      BY <2>1, <2>2, StagingKept, OwedKept
    <2>5. ByHandInv' /\ \A w \in Window : DeferredInv(w)'
      BY <2>1, <2>2, ByHandKept, DeferredKept
    <2>6. \A j \in fresh' : FreshInv(j)'
      BY <2>1, <2>2, FreshKept
    <2>7. FileInv' /\ ReadInv' /\ AdoptedInv'
      BY <2>1, <2>2, FileInvKept, ReadInvKept, AdoptedInvKept
    <2> QED
      BY <2>2, <2>3, <2>4, <2>5, <2>6, <2>7 DEF RecoveryInv
  <1> QED
    BY <1>1, <1>2, PTL DEF Spec

\* The variables have their types.
THEOREM TypeCorrect == Spec => []TypeOK
  <1>1. RecoveryInv => TypeOK
    <2> SUFFICES ASSUME TransferTypes, FileTypes PROVE TypeOK
      BY DEF RecoveryInv
    <2>1. disk \in [Path -> File]
      <3>1. Archived \subseteq File
        BY DEF Archived, File
      <3> QED
        BY <3>1 DEF FileTypes
    <2>2. name \in [Window -> Session] /\ offered \in Seq(Session)
      BY PathFacts DEF FileTypes
    <2> QED
      BY <2>1, <2>2 DEF TransferTypes, FileTypes, JobSets, TypeOK
  <1> QED
    BY <1>1, RecoveryInvariant, PTL

\* A staging file of its own for each save, written, flushed and renamed in
\* separate steps between which other saves and the end of the process may fall:
\* no path that a later process reads holds anything but a whole archive or none,
\* and what a save renames is the archive it wrote (QueueArchiveStore::save).
THEOREM ArchivesAreWhole == Spec => []WholeArchives
  <1>1. RecoveryInv => WholeArchives
    <2> SUFFICES ASSUME FileTypes, StagingInv PROVE WholeArchives
      BY DEF RecoveryInv
    <2>1. \A p \in Path : disk[p].kind \in {"None", "Whole"}
      BY DEF FileTypes, Archived
    <2>2. \A s \in Saver : saver[s].phase = "Rename" =>
             staged[TempFor(s)] = [kind |-> "Whole", archive |-> saver[s].archive]
      BY DEF StagingInv, TempFor
    <2> QED
      BY <2>1, <2>2 DEF WholeArchives
  <1> QED
    BY <1>1, RecoveryInvariant, PTL

\* Whatever the workers do between parked_source_removals() and
\* export_remaining_plan(), and whether or not the window keeps the plan: an item
\* of the plan at the start of a save, not settled since and not parking its
\* removal between the two calls, is in the archive.
THEOREM SavesCoverThePlan == Spec => []SavedCovers
  <1>1. RecoveryInv => SavedCovers
    <2> SUFFICES ASSUME NEW s \in Saver, Owes(s),
                        saver[s].phase \in {"Open", "Write", "Flush", "Rename"}
                 PROVE  saver[s].owed \subseteq saver[s].archive.plan \cup saver[s].archive.removals
      BY DEF RecoveryInv, OwedInv, SavedCovers
    <2> QED
      BY DEF Owes
  <1> QED
    BY <1>1, RecoveryInvariant, PTL

\* pop_front() and ReturnRecoveryFile hand a recovery file from one place to
\* another: two windows never start its work, and it is offered once.
THEOREM FilesAreAdoptedOnce == Spec => []AdoptedOnce
  <1>1. RecoveryInv => AdoptedOnce
    <2> SUFFICES ASSUME FileTypes, OfferInv, NameInv, up, ending = {}
                 PROVE  LET taken == [w \in Window |-> hand[<<w, "Recovery">>].path] IN
                        /\ IsInjective(offered)
                        /\ \A w \in Window : {taken[w], name[w]} \cap ToSet(offered) = {}
                        /\ \A v, w \in Window : v # w =>
                              /\ name[v] # name[w]
                              /\ taken[v] # None => taken[v] \notin {taken[w], name[w]}
      BY DEF RecoveryInv, FilesInv, AdoptedOnce
    <2> DEFINE taken == [w \in Window |-> hand[<<w, "Recovery">>].path]
    <2>1. \A w \in Window : taken[w] = Taken(w)
      BY DEF Taken, R
    <2> HIDE DEF taken
    <2>2. \A w \in Window : taken[w] \notin ToSet(offered) /\ name[w] \notin ToSet(offered)
      BY <2>1 DEF OfferInv, NameInv
    <2>3. \A v, w \in Window : v # w =>
             /\ name[v] # name[w]
             /\ taken[v] # None => taken[v] # taken[w] /\ taken[v] # name[w]
      BY <2>1 DEF OfferInv, NameInv
    <2> QED
      BY <2>2, <2>3 DEF OfferInv, taken
  <1> QED
    BY <1>1, RecoveryInvariant, PTL

\* An intact recovery file goes only when its work is with a window, done, or
\* discarded: no check on the way to the Resume dialog, and no other window's
\* step, drops it.
THEOREM IntactFilesSurvive == Spec => IntactArchiveSurvives
  <1> DEFINE Survives(p) ==
               LET a == disk[p].archive IN
               disk'[p] # disk[p] /\ Work(a) \subseteq source /\ Apart(Work(a))
                  => Work(a) \subseteq Known' \cup Work(disk'[p].archive)
  <1>1. RecoveryInv /\ [Next]_vars => \A p \in Session : Survives(p)
    <2> SUFFICES ASSUME TransferTypes, FileTypes, FilesInv, StagingInv, FileInv, ReadInv, AdoptedInv,
                        [Next]_vars, NEW p \in Session, disk'[p] # disk[p],
                        Work(disk[p].archive) \subseteq source, Apart(Work(disk[p].archive))
                 PROVE  Work(disk[p].archive) \subseteq Known'
      BY DEF RecoveryInv
    <2> DEFINE a == disk[p].archive
    <2>0. a \in Archive /\ p \in Path
      BY PathFacts DEF FileTypes, Archived
    <2>1. ASSUME NEW s \in Saver, Finishes(s)
          PROVE  Work(a) \subseteq Known'
      <3>1. a = Nothing
        BY <2>1, WrittenFile, NoFacts
      <3> QED
        BY <3>1, ArchiveFacts
    <2>2. ASSUME NEW w \in Window, p = Taken(w), Discard(w)  PROVE Work(a) \subseteq Known'
      <3>1. hand[R(w)].phase = "Asking" /\ told' = told \cup Work(hand[R(w)].archive)
        BY <2>2 DEF Discard, R
      <3>2. hand[R(w)].archive = Merged(a)
        BY <2>2, <3>1 DEF ReadInv
      <3>3. Work(hand[R(w)].archive) = Work(a)
        BY <2>0, <3>2, ArchiveFacts
      <3> QED
        BY <3>1, <3>3 DEF Known
    <2>3. ASSUME NEW w \in Window, p = Taken(w), Retire(w)  PROVE Work(a) \subseteq Known'
      <3>1. Adopted(w) /\ UNCHANGED <<at, jobs, told>>
        BY <2>3 DEF Retire, Adopted, R, windowVars, planVars
      <3>2. Known' = Known
        BY <3>1 DEF Known, Held, In
      <3> QED
        BY <2>3, <3>1, <3>2 DEF AdoptedInv
    <2>4. ASSUME NEW w \in Window, p = Taken(w), LoadRejects(R(w))  PROVE Work(a) \subseteq Known'
      <3>1. Read(R(w)) = disk[p] /\ R(w)[2] = "Recovery"
        BY <2>4, PathFacts DEF Read, Taken
      <3>2. /\ a.plan \subseteq Work(a) /\ a.removals \subseteq Work(a)
            /\ Contents(a.appends) \subseteq Work(a) /\ Contents(a.queued) \subseteq Work(a)
            /\ a.plan \cap Contents(a.appends) = {}
            /\ Work(a) = a.plan \cup a.removals \cup Contents(a.appends) \cup Contents(a.queued)
        BY <2>0, ContentFacts DEF Work, Archive, FileInv
      <3>3. Sound(a) /\ Contents(a.queued) \subseteq source
        BY <3>2 DEF Sound, Apart
      <3>4. CASE disk[p].kind = "None"
        BY <3>4, NoFacts, ArchiveFacts DEF FileInv
      <3>5. CASE disk[p].kind = "Whole"
        <4>1. Usable(R(w))
          BY <3>1, <3>3, <3>5 DEF Usable
        <4>2. ~HasWork(Merged(a))
          BY <2>4, <3>1, <4>1 DEF LoadRejects
        <4>3. a.plan \cup Contents(a.appends) = {} /\ a.removals = {} /\ a.queued = {}
          BY <2>0, <4>2, ArchiveFacts DEF HasWork
        <4>4. Work(a) = {}
          BY <3>2, <4>3, ContentFacts
        <4> QED
          BY <4>4
      <3>6. disk[p].kind \in {"None", "Whole"}
        BY <2>0 DEF FileTypes, Archived
      <3> QED
        BY <3>4, <3>5, <3>6
    <2> QED
      BY <2>1, <2>2, <2>3, <2>4, FileChanges
  <1>2. RecoveryInv /\ [Next]_vars => [\A p \in Session : Survives(p)]_vars
    BY <1>1
  <1> QED
    BY <1>2, RecoveryInvariant, PTL DEF Spec, IntactArchiveSurvives


=============================================================================
