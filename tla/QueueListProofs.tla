--------------------------- MODULE QueueListProofs ---------------------------
(***************************************************************************)
(* The queue list, for every size of page, any number of files and any     *)
(* number of plans: its rows are its snapshot, the preview of a plan apart *)
(* in which no refresh has found a file, and what leaves the queue or      *)
(* changes places there was chosen from what is shown.                     *)
(*                                                                         *)
(* The list is not brought up to date while it is hidden or while a drag   *)
(* is under way, so it may show anything then.  The invariant says what    *)
(* makes up for it: either the rows match the snapshot, and the selection  *)
(* the rows, or a full rebuild is asked for, and none is asked for while   *)
(* the list is shown at rest.  The edits name files by their ids, so the   *)
(* invariant also says that no id stands for two files of the plan.        *)
(***************************************************************************)
EXTENDS QueueList, Integers, FiniteSetTheorems, TLAPS

\* The rows of a preview, which no refresh has had a reason to replace.
OnlyPreview(l) == l.previewed /\ l.snapshot = <<>> /\ ToSet(l.items) = {Preview}

\* What the rows must be to match the snapshot; what is selected is among them.
Match(l) ==
    /\ l.items = l.snapshot \/ OnlyPreview(l)
    /\ l.selected \subseteq Ids(l.items)

Rest(l) == l.drag = None

\* A list at rest matches its snapshot, unless a rebuild is asked for.
MatchesOrRebuilds(l) == Rest(l) /\ ~l.rebuild => Match(l)

\* A list that is shown at rest has been rebuilt.
UpToDate(l) == Rest(l) /\ l.expanded => ~l.rebuild

IsSeq(s) == s \in Seq(ToSet(s))

\* The records as far as the argument needs them.
ListState(l) ==
    /\ l \in [expanded : BOOLEAN, drag : {l.drag}, offset : Nat, rendered : {l.rendered},
              snapshot : {l.snapshot}, items : {l.items}, selected : {l.selected},
              rebuild : BOOLEAN, previewed : BOOLEAN]
    /\ IsSeq(l.snapshot) /\ IsSeq(l.items)

SessionState(s) ==
    /\ s \in [phase : {s.phase}, plan : {s.plan}, pending : {s.pending},
              active : {s.active}, settled : {s.settled}, next : Nat]
    /\ IsSeq(s.pending)

ListInv == SessionState(session) /\ ListState(list) /\ MatchesOrRebuilds(list) /\ UpToDate(list)
-----------------------------------------------------------------------------
(***************************************************************************)
(* Sequences.                                                              *)
(***************************************************************************)

\* A function on 1..n is a sequence.
LEMMA FunctionsAreSequences ==
    ASSUME NEW n \in Int, NEW s, s = [i \in 1..n |-> s[i]]
    PROVE  IsSeq(s)
<1>1. \A i \in 1..n : s[i] \in ToSet(s)  BY DEF ToSet
<1>2. CASE n \in Nat  BY <1>1, <1>2 DEF IsSeq
<1>3. CASE n \notin Nat
  <2>1. 1..n = 1..0  BY <1>3
  <2> QED  BY <1>1, <2>1 DEF IsSeq
<1> QED  BY <1>2, <1>3

\* A page, and what is left of a page, is a sequence.
LEMMA PartsAreSequences ==
    ASSUME NEW s, NEW m \in Int, NEW n \in Int
    PROVE  IsSeq(SubSeq(s, m, n))
<1>1. SubSeq(s, m, n) = [i \in 1..(1 + n - m) |-> s[i + m - 1]]  OBVIOUS
<1> QED  BY <1>1, FunctionsAreSequences

\* What a page adds to its beginning makes it whole.
LEMMA PrefixCompleted ==
    ASSUME NEW p, IsSeq(p), NEW s, IsSeq(s), IsPrefix(p, s)
    PROVE  p \o SubSeq(s, Len(p) + 1, Len(s)) = s
<1>1. Len(p) \in Nat /\ Len(s) \in Nat /\ Len(p) <= Len(s)  BY DEF IsSeq, IsPrefix
<1>2. \A i \in 1..Len(p) : p[i] = s[i]
  <2> TAKE i \in 1..Len(p)
  <2>1. SubSeq(p, 1, Len(p))[i] = p[i]  BY <1>1 DEF IsSeq
  <2>2. SubSeq(s, 1, Len(p))[i] = s[i]  BY <1>1 DEF IsSeq
  <2> QED  BY <2>1, <2>2 DEF IsPrefix
<1> QED  BY <1>1, <1>2 DEF IsSeq

\* The smaller of two numbers is one of them.
LEMMA MinOfTwo ==
    ASSUME NEW a \in Int, NEW b \in Int
    PROVE  Min({a, b}) \in {a, b}
<1>1. CASE a <= b
  <2>1. a \in {a, b} /\ \A y \in {a, b} : a <= y  BY <1>1
  <2> QED  BY <2>1 DEF Min
<1>2. CASE b <= a
  <2>1. b \in {a, b} /\ \A y \in {a, b} : b <= y  BY <1>2
  <2> QED  BY <2>1 DEF Min
<1> QED  BY <1>1, <1>2
-----------------------------------------------------------------------------
(***************************************************************************)
(* A refresh.                                                              *)
(***************************************************************************)

\* The page that is looked at begins somewhere.
LEMMA OffsetTyped ==
    ASSUME NEW n \in Nat
    PROVE  /\ LastPage(n) \in Nat
           /\ \A l : l.offset \in Nat => Offset(l, n) \in Nat
<1>1. CASE n = 0  BY <1>1 DEF Offset, LastPage
<1>2. CASE n # 0
  <2> DEFINE x == n - 1
             q == x \div PageSize
  <2>1. x \in Nat /\ PageSize \in Nat /\ PageSize > 0  BY <1>2, QueueListAssumption
  <2> HIDE DEF x
  <2>2. q \in Int /\ PageSize * q <= x /\ x < PageSize * (q + 1)  BY <2>1
  <2> HIDE DEF q
  <2>3. q >= 0
    <3>1. SUFFICES ASSUME q + 1 <= 0 PROVE FALSE  BY <2>2
    <3>2. PageSize * (q + 1) <= 0  BY <2>1, <2>2, <3>1
    <3> QED  BY <2>1, <2>2, <3>2
  <2>4. q * PageSize \in Nat  BY <2>1, <2>2, <2>3
  <2> QED  BY <1>2, <2>4 DEF Offset, LastPage, q, x
<1> QED  BY <1>1, <1>2

\* A page of a queue is a sequence.
LEMMA PageIsSequence ==
    ASSUME NEW s, IsSeq(s), NEW offset \in Int
    PROVE  IsSeq(Page(s, offset))
<1>1. Len(s) \in Int /\ offset + PageSize \in Int  BY QueueListAssumption DEF IsSeq
<1>2. Min({offset + PageSize, Len(s)}) \in Int  BY <1>1, MinOfTwo
<1> QED  BY <1>2, PartsAreSequences DEF Page

\* Rows that are trimmed at the top and completed at the bottom are the page.
LEMMA RowsArePage ==
    ASSUME NEW l, ListState(l), NEW page, IsSeq(page), NEW rebuilds \in BOOLEAN,
           ~rebuilds => Match(l)
    PROVE  Rows(l, page, rebuilds) = page
<1> DEFINE gone == Gone(l, page)
<1>1. CASE rebuilds \/ ~Trims(l, page, gone)  BY <1>1 DEF Rows
<1>2. CASE ~rebuilds /\ Trims(l, page, gone)
  <2>1. Len(l.snapshot) \in Nat  BY DEF ListState, IsSeq
  <2>2. gone \in 1..(Len(l.snapshot) - 1)  BY <1>2 DEF Trims
  <2>3. l.items = l.snapshot  BY <1>2, <2>1, <2>2 DEF Match, OnlyPreview
  <2> HIDE DEF gone
  <2> DEFINE p == SubSeq(l.snapshot, gone + 1, Len(l.snapshot))
  <2>4. IsPrefix(p, page)  BY <1>2 DEF Trims
  <2>5. IsSeq(p) /\ Len(p) = Len(l.snapshot) - gone
    <3>1. gone + 1 \in Int /\ Len(l.snapshot) \in Int  BY <2>1, <2>2
    <3>2. IsSeq(p)  BY <3>1, PartsAreSequences
    <3>3. Len(p) = Len(l.snapshot) - gone  BY <2>1, <2>2 DEF ListState, IsSeq
    <3> QED  BY <3>2, <3>3
  <2> HIDE DEF p
  <2>6. p \o SubSeq(page, Len(p) + 1, Len(page)) = page  BY <2>4, <2>5, PrefixCompleted
  <2> QED  BY <1>2, <2>3, <2>5, <2>6 DEF Rows, gone, p
<1> QED  BY <1>1, <1>2

\* The page of a queue with files in it has files.
LEMMA PageHasFiles ==
    ASSUME NEW l, l.offset \in Nat, NEW s, IsSeq(s), s # <<>>
    PROVE  Page(s, Offset(l, Len(s))) # <<>>
<1> DEFINE n == Len(s)
           o == Offset(l, n)
<1>1. n \in Nat /\ n > 0 /\ PageSize \in Nat /\ PageSize > 0
  BY QueueListAssumption DEF IsSeq
<1> HIDE DEF n
<1>2. LastPage(n) \in Nat /\ LastPage(n) < n
  <2> DEFINE x == n - 1
             q == x \div PageSize
  <2>1. x \in Nat  BY <1>1
  <2> HIDE DEF x
  <2>2. q \in Int /\ PageSize * q <= x  BY <1>1, <2>1
  <2>3. LastPage(n) = q * PageSize  BY <1>1 DEF LastPage, x
  <2>4. LastPage(n) \in Nat  BY <1>1, OffsetTyped
  <2> HIDE DEF q
  <2>5. q * PageSize <= x  BY <1>1, <2>2
  <2> QED  BY <1>1, <2>3, <2>4, <2>5 DEF x
<1>3. o \in Nat /\ o < n  BY <1>1, <1>2 DEF Offset
<1> DEFINE last == Min({o + PageSize, n})
<1>4. last \in {o + PageSize, n}  BY <1>1, <1>3, MinOfTwo
<1> HIDE DEF o, last
<1>5. last \in Nat /\ last >= o + 1  BY <1>1, <1>3, <1>4
<1> DEFINE page == SubSeq(s, o + 1, last)
<1>6. page = [i \in 1..(last - o) |-> s[i + o]]  BY <1>3, <1>5
<1>7. 1 \in DOMAIN page  BY <1>3, <1>5, <1>6
<1>8. page # <<>>
  <2> HIDE DEF page
  <2> QED  BY <1>7
<1> QED  BY <1>8 DEF Page, page, last, o, n

\* A refresh of the live queue leaves rows that match the snapshot.
LEMMA ShownMatches ==
    ASSUME NEW l, ListState(l), NEW s, IsSeq(s.pending), NEW rebuilds \in BOOLEAN,
           ~rebuilds => Match(l)
    PROVE  LET n == [Shown(l, s, rebuilds) EXCEPT !.previewed = FoundEmpty(l, s, rebuilds)]
           IN /\ ListState(n) /\ Match(n) /\ ~n.rebuild
              /\ n.drag = l.drag /\ n.expanded = l.expanded
<1> DEFINE offset == Offset(l, Len(s.pending))
           page == Page(s.pending, offset)
           rows == Rows(l, page, rebuilds)
           chosen == Reselected(l, page)
           found == FoundEmpty(l, s, rebuilds)
           asked == [l EXCEPT !.offset = offset, !.rebuild = FALSE]
           new == [asked EXCEPT !.rendered = offset, !.snapshot = page,
                                !.items = rows, !.selected = chosen]
<1>1. offset \in Nat
  <2>1. Len(s.pending) \in Nat /\ l.offset \in Nat  BY DEF IsSeq, ListState
  <2> QED  BY <2>1, OffsetTyped
<1>2. IsSeq(page)  BY <1>1, PageIsSequence
<1>3. rows = page  BY <1>2, RowsArePage
<1>0. found \in BOOLEAN  BY DEF FoundEmpty, ListState
<1>4. CASE offset = l.rendered /\ page = l.snapshot /\ ~rebuilds
  <2>1. Shown(l, s, rebuilds) = asked  BY <1>4 DEF Shown
  <2>2. Match(l)  BY <1>4
  <2> DEFINE n == [asked EXCEPT !.previewed = found]
  <2>5. OnlyPreview(l) => found
    <3>1. SUFFICES ASSUME OnlyPreview(l), s.pending # <<>> PROVE FALSE
      BY <1>4 DEF OnlyPreview, FoundEmpty
    <3>2. page # <<>>  BY <3>1, PageHasFiles DEF ListState
    <3> QED  BY <1>4, <3>1, <3>2 DEF OnlyPreview
  <2> HIDE DEF offset, found
  <2>3. ListState(n) /\ ~n.rebuild /\ n.drag = l.drag
        /\ n.expanded = l.expanded /\ n.snapshot = l.snapshot
        /\ n.items = l.items /\ n.selected = l.selected /\ n.previewed = found
    BY <1>0, <1>1 DEF ListState
  <2>4. Match(n)  BY <2>2, <2>3, <2>5 DEF Match, OnlyPreview
  <2> QED  BY <2>1, <2>3, <2>4 DEF found
<1>5. CASE ~(offset = l.rendered /\ page = l.snapshot /\ ~rebuilds)
  <2>1. Shown(l, s, rebuilds) = new  BY <1>5 DEF Shown
  <2> DEFINE n == [new EXCEPT !.previewed = found]
  <2> HIDE DEF offset, page, rows, chosen, found
  <2>2. /\ n \in [expanded : BOOLEAN, drag : {l.drag}, offset : Nat, rendered : {offset},
                  snapshot : {page}, items : {rows}, selected : {chosen},
                  rebuild : BOOLEAN, previewed : BOOLEAN]
        /\ ~n.rebuild /\ n.expanded = l.expanded
    BY <1>0, <1>1 DEF ListState
  <2>3. n.snapshot = page /\ n.items = page /\ n.drag = l.drag
        /\ n.rendered = offset /\ n.selected = chosen /\ n.items = rows
    BY <1>3, <2>2
  <2>4. ListState(n)  BY <1>2, <2>2, <2>3 DEF ListState
  <2>5. Match(n)
    <3>1. chosen \subseteq Ids(page)  BY DEF chosen, Reselected
    <3> QED  BY <2>3, <3>1 DEF Match
  <2> QED  BY <2>1, <2>2, <2>3, <2>4, <2>5 DEF found
<1> QED  BY <1>4, <1>5

\* What a refresh leaves: rows that match or a rebuild that is asked for.
UpDated(n) == ListState(n) /\ MatchesOrRebuilds(n) /\ UpToDate(n)

\* A refresh, whether it is carried out or put off, keeps the invariant, and one
\* that forces a rebuild establishes it.
LEMMA RefreshUpDates ==
    ASSUME NEW l, ListState(l), NEW s, IsSeq(s.pending), NEW force \in BOOLEAN,
           force \/ MatchesOrRebuilds(l)
    PROVE  UpDated(Refreshed(l, s, force))
<1> DEFINE v == l.rebuild \/ force
<1>1. v \in BOOLEAN /\ (~v => ~l.rebuild /\ ~force)  BY DEF ListState
<1>2. CASE l.drag # None \/ ~l.expanded
  <2> DEFINE n == [l EXCEPT !.rebuild = v]
  <2>1. Refreshed(l, s, force) = n  BY <1>2 DEF Refreshed
  <2> HIDE DEF v
  <2>2. ListState(n) /\ n.rebuild = v /\ n.drag = l.drag /\ n.expanded = l.expanded
        /\ n.snapshot = l.snapshot /\ n.items = l.items /\ n.selected = l.selected
        /\ n.previewed = l.previewed
    BY <1>1 DEF ListState
  <2> HIDE DEF n
  <2>3. UpToDate(n)  BY <1>2, <2>2 DEF UpToDate, Rest
  <2>4. MatchesOrRebuilds(n)
    BY <1>1, <2>2 DEF MatchesOrRebuilds, Match, OnlyPreview, Rest
  <2> QED  BY <2>1, <2>2, <2>3, <2>4 DEF UpDated
<1>3. CASE l.drag = None /\ l.expanded /\ s.phase = "Live"
  <2> DEFINE n == [Shown(l, s, v) EXCEPT !.previewed = FoundEmpty(l, s, v)]
  <2>1. Refreshed(l, s, force) = n  BY <1>3 DEF Refreshed
  <2>2. ~v => Match(l)  BY <1>1, <1>3 DEF MatchesOrRebuilds, Rest
  <2> HIDE DEF v
  <2>3. ListState(n) /\ Match(n) /\ ~n.rebuild
    BY <1>1, <2>2, ShownMatches
  <2> HIDE DEF n
  <2> QED  BY <2>1, <2>3 DEF UpDated, MatchesOrRebuilds, UpToDate
<1>4. CASE l.drag = None /\ l.expanded /\ s.phase # "Live"
  <2> DEFINE plans == s.phase = "Planning"
             rows == IF plans THEN <<Preview>> ELSE <<>>
             n == [l EXCEPT !.offset = 0, !.rendered = 0, !.snapshot = <<>>,
                            !.selected = {}, !.items = rows, !.rebuild = FALSE,
                            !.previewed = plans]
  <2>1. Refreshed(l, s, force) = n  BY <1>4 DEF Refreshed, Previewed
  <2>2. IsSeq(rows) /\ (rows = <<>> \/ (plans /\ ToSet(rows) = {Preview}))
    <3>1. rows = <<>> \/ (plans /\ rows = <<Preview>>)  OBVIOUS
    <3>2. IsSeq(<<>>)  BY DEF IsSeq
    <3>3. ToSet(<<Preview>>) = {Preview}  BY DEF ToSet
    <3>4. IsSeq(<<Preview>>)  BY <3>3 DEF IsSeq
    <3> HIDE DEF rows, plans
    <3> QED  BY <3>1, <3>2, <3>3, <3>4
  <2>3. IsSeq(<<>>)  BY DEF IsSeq
  <2>0. plans \in BOOLEAN  OBVIOUS
  <2> DEFINE none == <<>>
             noIds == {}
             top == 0
             m == [l EXCEPT !.offset = top, !.rendered = top, !.snapshot = none,
                            !.selected = noIds, !.items = rows, !.rebuild = FALSE,
                            !.previewed = plans]
  <2>9. top \in Nat  OBVIOUS
  <2> HIDE DEF rows, none, noIds, top, plans
  <2>4. m \in [expanded : BOOLEAN, drag : {l.drag}, offset : Nat, rendered : {top},
               snapshot : {none}, items : {rows}, selected : {noIds},
               rebuild : BOOLEAN, previewed : BOOLEAN]
        /\ ~m.rebuild
    BY <2>0, <2>9 DEF ListState
  <2>5. m.snapshot = none /\ m.items = rows /\ m.rendered = top /\ m.selected = noIds
        /\ m.drag = l.drag /\ m.previewed = plans
    BY <2>4 DEF ListState
  <2>6. ListState(m)  BY <2>2, <2>3, <2>4, <2>5 DEF ListState, none
  <2>7. m = n  BY DEF none, noIds, top
  <2> HIDE DEF m, n
  <2>8. Match(m)  BY <2>2, <2>5 DEF Match, OnlyPreview, none, noIds
  <2> QED  BY <2>1, <2>4, <2>6, <2>7, <2>8 DEF UpDated, MatchesOrRebuilds, UpToDate
<1> QED  BY <1>2, <1>3, <1>4 DEF ListState

\* Hiding the list puts nothing right and nothing wrong.
LEMMA HidingKeeps ==
    ASSUME NEW l, UpDated(l)
    PROVE  UpDated([l EXCEPT !.expanded = FALSE])
BY DEF UpDated, ListState, MatchesOrRebuilds, UpToDate, Match, OnlyPreview, Rest
-----------------------------------------------------------------------------
(***************************************************************************)
(* The steps of the session.                                               *)
(***************************************************************************)

\* The files of a new plan are a sequence.
LEMMA FilesAreSequence ==
    ASSUME NEW n \in Nat, NEW d
    PROVE  IsSeq(FilesFrom(1, n, d))
<1> DEFINE s == FilesFrom(1, n, d)
<1>1. s = [i \in 1..(n + 1 - 1) |-> [id |-> 1 + i - 1, data |-> d]]  BY DEF FilesFrom
<1>2. (n + 1 - 1) \in Int /\ s = [i \in 1..(n + 1 - 1) |-> s[i]]  BY <1>1
<1> HIDE DEF s
<1>3. IsSeq(s)  BY <1>2, FunctionsAreSequences
<1> QED  BY <1>3 DEF s

\* What is left when files are taken out is a sequence.
LEMMA WithoutIsSequence ==
    ASSUME NEW s, IsSeq(s), NEW ids
    PROVE  IsSeq(Without(s, ids))
<1> DEFINE kept == {i \in 1..Len(s) : s[i].id \notin ids}
           r == Without(s, ids)
<1>1. Len(s) \in Nat  BY DEF IsSeq
<1>2. IsFiniteSet(kept)
  <2>1. IsFiniteSet(1..Len(s))  BY <1>1, FS_Interval
  <2> QED  BY <2>1, FS_Subset
<1>3. Cardinality(kept) \in Nat  BY <1>2, FS_CardinalityType
<1>4. r = [k \in 1..Cardinality(kept) |->
              s[CHOOSE i \in kept : Cardinality(kept \cap 1..i) = k]]
  BY DEF Without
<1>5. r = [k \in 1..Cardinality(kept) |-> r[k]]  BY <1>4
<1> HIDE DEF kept, r
<1>6. IsSeq(r)  BY <1>3, <1>5, FunctionsAreSequences
<1> QED  BY <1>6 DEF r

\* Two sequences of the same kind of things, one after the other.
LEMMA Joined ==
    ASSUME NEW s, IsSeq(s), NEW e
    PROVE  IsSeq(<<e>> \o s) /\ IsSeq(Append(s, e)) /\ (s # <<>> => IsSeq(Tail(s)))
<1> DEFINE S == ToSet(s) \cup {e}
<1>1. s \in Seq(S) /\ <<e>> \in Seq(S)  BY DEF IsSeq
<1>2. <<e>> \o s \in Seq(S) /\ Append(s, e) \in Seq(S)  BY <1>1
<1>3. s # <<>> => Tail(s) \in Seq(S)  BY <1>1
<1>4. ASSUME NEW q \in Seq(S) PROVE IsSeq(q)
  <2>1. Len(q) \in Int /\ q = [i \in 1..Len(q) |-> q[i]]  OBVIOUS
  <2> QED  BY <2>1, FunctionsAreSequences
<1> QED  BY <1>2, <1>3, <1>4

\* A plan begins or ends: the session stays a session.
LEMMA NewPlanTyped ==
    ASSUME SessionState(session)
    PROVE  /\ SessionState(NewPlan) /\ NewPlan.next = 0
           /\ SessionState(NoSession)
<1>1. IsSeq(<<>>)  BY DEF IsSeq
<1>2. SessionState([session EXCEPT !.phase = "Idle", !.pending = <<>>,
                                   !.active = {}, !.next = 0])
  BY <1>1 DEF SessionState
<1> DEFINE p == session.plan + 1
           n == [session EXCEPT !.plan = p, !.pending = <<>>, !.active = {},
                                !.settled = {}, !.next = 0]
<1> HIDE DEF p
<1>3. SessionState(n) /\ n.next = 0  BY <1>1 DEF SessionState
<1>4. NewPlan = n  BY DEF NewPlan, p
<1> QED  BY <1>2, <1>3, <1>4 DEF NoSession

\* A plan with its files.
LEMMA WithFilesTyped ==
    ASSUME NEW s, SessionState(s), NEW n \in Nat, NEW d
    PROVE  SessionState(WithFiles(s, n, d))
<1> DEFINE q == FilesFrom(1, n, d)
<1>1. IsSeq(q)  BY FilesAreSequence
<1> DEFINE k == n + 1
<1>2. k \in Nat  OBVIOUS
<1> HIDE DEF q, k
<1>3. SessionState([s EXCEPT !.pending = q, !.next = k])  BY <1>1, <1>2 DEF SessionState
<1> QED  BY <1>3 DEF WithFiles, q, k

\* A new order, or fewer files, in the same plan.
LEMMA PendingTyped ==
    ASSUME NEW s, SessionState(s), NEW q, IsSeq(q), NEW a, NEW b
    PROVE  /\ SessionState([s EXCEPT !.pending = q])
           /\ SessionState([s EXCEPT !.pending = q, !.active = a])
           /\ SessionState([s EXCEPT !.settled = b, !.pending = q])
           /\ SessionState([s EXCEPT !.pending = q, !.next = @ + 1])
<1>1. SessionState([s EXCEPT !.pending = q])  BY DEF SessionState
<1>2. SessionState([s EXCEPT !.pending = q, !.active = a])  BY DEF SessionState
<1>3. SessionState([s EXCEPT !.settled = b, !.pending = q])  BY DEF SessionState
<1>4. SessionState([s EXCEPT !.pending = q, !.next = @ + 1])
  <2> DEFINE k == s.next + 1
  <2>1. k \in Nat  BY DEF SessionState
  <2> HIDE DEF k
  <2>2. SessionState([s EXCEPT !.pending = q, !.next = k])  BY <2>1 DEF SessionState
  <2> QED  BY <2>2 DEF k
<1> QED  BY <1>1, <1>2, <1>3, <1>4

\* What a worker settles.
LEMMA SettledTyped ==
    ASSUME NEW s, SessionState(s), NEW a, NEW b
    PROVE  SessionState([s EXCEPT !.active = a, !.settled = b])
BY DEF SessionState

\* The session is planned, or live.
LEMMA PhaseTyped ==
    ASSUME NEW s, SessionState(s), NEW p
    PROVE  SessionState([s EXCEPT !.phase = p])
BY DEF SessionState
-----------------------------------------------------------------------------
(***************************************************************************)
(* The steps.                                                              *)
(***************************************************************************)

\* The list and the session are what they were, or became.
LEMMA InvFrom ==
    ASSUME SessionState(session'), UpDated(list')
    PROVE  ListInv'
BY DEF ListInv, UpDated, SessionState, ListState, IsSeq, MatchesOrRebuilds, UpToDate,
       Match, OnlyPreview, Rest

\* A new session asks for a rebuild of a list that is hidden.
LEMMA CollapsedRebuilds ==
    ASSUME ListState(list)
    PROVE  ListState(Collapsed) /\ MatchesOrRebuilds(Collapsed)
<1> DEFINE top == 0
           l == [list EXCEPT !.offset = top, !.rebuild = TRUE, !.expanded = FALSE]
<1>1. top \in Nat  OBVIOUS
<1> HIDE DEF top
<1>2. ListState(l) /\ l.rebuild  BY <1>1 DEF ListState
<1>3. l = Collapsed  BY DEF Collapsed, top
<1> HIDE DEF l
<1> QED  BY <1>2, <1>3 DEF MatchesOrRebuilds

\* A session begins, with its files or without.
LEMMA SessionBegins ==
    ASSUME ListInv, StartTransfer \/ StartCopyPlan
    PROVE  ListInv'
<1>1. SessionState(NewPlan)  BY NewPlanTyped DEF ListInv
<1>2. SessionState(session')
  <2>1. CASE StartTransfer  BY <1>1, <2>1, PhaseTyped DEF StartTransfer
  <2>2. CASE StartCopyPlan
    <3>1. SessionState([NewPlan EXCEPT !.phase = "Live"])  BY <1>1, PhaseTyped
    <3>2. PICK n \in 1..MaxFiles, d \in Data :
             session' = WithFiles([NewPlan EXCEPT !.phase = "Live"], n, d)
      BY <2>2 DEF StartCopyPlan
    <3>3. n \in Nat  BY QueueListAssumption
    <3> HIDE DEF NewPlan
    <3> QED  BY <3>1, <3>2, <3>3, WithFilesTyped
  <2> QED  BY <2>1, <2>2
<1>3. list' = Refreshed(Collapsed, session', FALSE)  BY DEF StartTransfer, StartCopyPlan
<1>4. UpDated(list')
  <2>1. ListState(Collapsed) /\ MatchesOrRebuilds(Collapsed)
    BY CollapsedRebuilds DEF ListInv
  <2> HIDE DEF Collapsed
  <2> QED  BY <1>2, <1>3, <2>1, RefreshUpDates DEF SessionState
<1> QED  BY <1>2, <1>4, InvFrom

\* A session ends: its list is refreshed and hidden.
LEMMA SessionEnded ==
    ASSUME ListInv, Ends
    PROVE  ListInv'
<1>1. SessionState(session')  BY NewPlanTyped DEF ListInv, Ends
<1>2. PICK force \in BOOLEAN :
         list' = [Refreshed(list, session', force) EXCEPT !.expanded = FALSE]
  BY DEF Ends
<1>3. UpDated(Refreshed(list, session', force))
  BY <1>1, RefreshUpDates DEF ListInv, SessionState
<1>4. UpDated(list')  BY <1>2, <1>3, HidingKeeps
<1> QED  BY <1>1, <1>4, InvFrom

\* The workers and the planner change the plan, not the list.
LEMMA PlanMoves ==
    ASSUME ListInv, PlanBuilt \/ AcquireNext \/ ReleaseActive \/ Settles \/ AppendPlan
    PROVE  ListInv'
<1>1. SessionState(session) /\ IsSeq(session.pending)  BY DEF ListInv, SessionState
<1>2. CASE PlanBuilt
  <2>1. PICK n \in 0..MaxFiles, d \in Data : session' = WithFiles(session, n, d)
    BY <1>2 DEF PlanBuilt
  <2>2. n \in Nat  BY QueueListAssumption
  <2>3. SessionState(session')  BY <1>1, <2>1, <2>2, WithFilesTyped
  <2> QED  BY <1>2, <2>3, InvFrom DEF PlanBuilt, ListInv, UpDated
<1>3. CASE AcquireNext
  <2>1. IsSeq(Tail(session.pending))  BY <1>1, <1>3, Joined DEF AcquireNext
  <2>2. SessionState(session')  BY <1>1, <1>3, <2>1, PendingTyped DEF AcquireNext
  <2> QED  BY <1>3, <2>2, InvFrom DEF AcquireNext, ListInv, UpDated
<1>4. CASE ReleaseActive
  <2>1. PICK r \in session.active, d \in Data :
           session' = [session EXCEPT !.pending = <<[r EXCEPT !.data = d]>> \o @,
                                      !.active = @ \ {r}]
    BY <1>4 DEF ReleaseActive
  <2> DEFINE e == [r EXCEPT !.data = d]
  <2>2. session' = [session EXCEPT !.pending = <<e>> \o @, !.active = @ \ {r}]  BY <2>1
  <2> HIDE DEF e
  <2>3. IsSeq(<<e>> \o session.pending)  BY <1>1, Joined
  <2>4. SessionState(session')  BY <1>1, <2>2, <2>3, PendingTyped
  <2> QED  BY <1>4, <2>4, InvFrom DEF ReleaseActive, ListInv, UpDated
<1>5. CASE Settles
  <2>1. SessionState(session')
    <3>1. CASE \E r \in session.active :
             session' = [session EXCEPT !.active = @ \ {r}, !.settled = @ \cup {r.id}]
      <4> PICK r \in session.active :
             session' = [session EXCEPT !.active = @ \ {r}, !.settled = @ \cup {r.id}]
        BY <3>1
      <4> DEFINE a == session.active \ {r}
                 b == session.settled \cup {r.id}
      <4>1. session' = [session EXCEPT !.active = a, !.settled = b]  OBVIOUS
      <4> HIDE DEF a, b
      <4>2. SessionState([session EXCEPT !.active = a, !.settled = b])
        BY <1>1, SettledTyped
      <4> QED  BY <4>1, <4>2
    <3>2. ASSUME NEW id,
                 session' = [session EXCEPT !.settled = @ \cup {id},
                                            !.pending = Without(@, {id})]
          PROVE  SessionState(session')
      <4>1. IsSeq(Without(session.pending, {id}))  BY <1>1, WithoutIsSequence
      <4> QED  BY <1>1, <3>2, <4>1, PendingTyped
    <3> QED  BY <1>5, <3>1, <3>2 DEF Settles
  <2> QED  BY <1>5, <2>1, InvFrom DEF Settles, ListInv, UpDated
<1>6. CASE AppendPlan
  <2>1. IsSeq(Append1)  BY <1>1, Joined DEF Append1
  <2>2. SessionState(session')  BY <1>1, <1>6, <2>1, PendingTyped DEF AppendPlan
  <2> QED  BY <1>6, <2>2, InvFrom DEF AppendPlan, ListInv, UpDated
<1> QED  BY <1>2, <1>3, <1>4, <1>5, <1>6

\* The list is refreshed from a session whose queue is a sequence.
LEMMA Refreshing ==
    ASSUME SessionState(session'), NEW l, ListState(l), NEW force \in BOOLEAN,
           force \/ MatchesOrRebuilds(l), list' = Refreshed(l, session', force)
    PROVE  ListInv'
<1>1. UpDated(list')  BY RefreshUpDates DEF SessionState
<1> QED  BY <1>1, InvFrom

\* The plan is published, the list is refreshed for a reason of its own, or its
\* width changes.
LEMMA WindowRefreshes ==
    ASSUME ListInv, PublishLivePlan \/ Refreshes \/ LayoutChanges
    PROVE  ListInv'
<1>1. SessionState(session')
  <2>1. CASE PublishLivePlan  BY <2>1, PhaseTyped DEF PublishLivePlan, ListInv
  <2>2. CASE Refreshes \/ LayoutChanges
    BY <2>2 DEF Refreshes, LayoutChanges, ListInv, SessionState, IsSeq
  <2> QED  BY <2>1, <2>2
<1>2. \E force \in BOOLEAN : list' = Refreshed(list, session', force)
  BY DEF PublishLivePlan, Refreshes, LayoutChanges
<1> QED  BY <1>1, <1>2, Refreshing DEF ListInv

\* The page is turned.
LEMMA PageTurns ==
    ASSUME ListInv, PreviousPage \/ NextPage \/ KeyDown
    PROVE  ListInv'
<1>1. list.offset \in Nat /\ PageSize \in Nat /\ Len(session.pending) \in Nat
  BY QueueListAssumption DEF ListInv, ListState, SessionState, IsSeq
<1>2. LastPage(Len(session.pending)) \in Nat  BY <1>1, OffsetTyped
<1>3. PICK offset \in Nat : Turns(offset)
  <2>1. Back \in Nat  BY <1>1 DEF Back
  <2>2. Min({list.offset + PageSize, LastPage(Len(session.pending))}) \in Nat
    BY <1>1, <1>2, MinOfTwo
  <2> QED  BY <1>2, <2>1, <2>2 DEF PreviousPage, NextPage, KeyDown
<1> DEFINE l == [list EXCEPT !.offset = offset]
<1>4. ListState(l)  BY DEF ListInv, ListState
<1>5. list' = Refreshed(l, session', TRUE) /\ SessionState(session')
  BY <1>3 DEF Turns, ListInv
<1> HIDE DEF l
<1> QED  BY <1>4, <1>5, Refreshing

\* The files that are selected are moved or removed.
LEMMA SelectedEdited ==
    ASSUME ListInv, MovesSelected \/ RemovesSelected
    PROVE  ListInv'
<1>1. SessionState(session) /\ IsSeq(session.pending) /\ Len(session.pending) \in Int
  BY DEF ListInv, SessionState, IsSeq
<1>2. ASSUME NEW s, IsSeq(s) PROVE \A chosen : IsSeq(MovedUp(s, chosen))
  <2> TAKE chosen
  <2> DEFINE m == MovedUp(s, chosen)
  <2>1. m = [k \in 1..Len(s) |-> m[k]]  BY DEF MovedUp
  <2>2. Len(s) \in Int  BY <1>2 DEF IsSeq
  <2> HIDE DEF m
  <2>3. IsSeq(m)  BY <2>1, <2>2, FunctionsAreSequences
  <2> QED  BY <2>3 DEF m
<1>3. ASSUME NEW s, IsSeq(s) PROVE IsSeq(Reverse(s))
  <2> DEFINE m == Reverse(s)
  <2>1. m = [k \in 1..Len(s) |-> m[k]]  BY DEF Reverse
  <2>2. Len(s) \in Int  BY <1>3 DEF IsSeq
  <2> HIDE DEF m
  <2>3. IsSeq(m)  BY <2>1, <2>2, FunctionsAreSequences
  <2> QED  BY <2>3 DEF m
<1>4. ASSUME NEW q, IsSeq(q), session' = [session EXCEPT !.pending = q],
             list' = Refreshed(list, session', FALSE)
      PROVE  ListInv'
  <2>1. SessionState(session')  BY <1>1, <1>4, PendingTyped
  <2> QED  BY <1>4, <2>1, Refreshing DEF ListInv
<1>5. CASE MovesSelected
  <2>1. IsSeq(MovedUp(session.pending, list.selected))  BY <1>1, <1>2
  <2>2. IsSeq(MovedDown(session.pending, list.selected))
    BY <1>1, <1>2, <1>3 DEF MovedDown
  <2>3. PICK q \in {MovedUp(session.pending, list.selected),
                    MovedDown(session.pending, list.selected)} :
           session' = [session EXCEPT !.pending = q]
    BY <1>5 DEF MovesSelected
  <2>4. IsSeq(q)  BY <2>1, <2>2
  <2> QED  BY <1>4, <1>5, <2>3, <2>4 DEF MovesSelected
<1>6. CASE RemovesSelected
  <2> DEFINE left == Without(session.pending, list.selected)
  <2>1. IsSeq(left)  BY <1>1, WithoutIsSequence
  <2>2. \/ /\ session' = [session EXCEPT !.pending = left]
           /\ list' = Refreshed(list, session', FALSE)
        \/ Ends
    BY <1>6 DEF RemovesSelected
  <2> HIDE DEF left
  <2> QED  BY <1>4, <2>1, <2>2, SessionEnded
<1> QED  BY <1>5, <1>6

\* The list is shown or hidden, and rows are selected.
LEMMA ListHandled ==
    ASSUME ListInv, SetExpanded \/ Selects
    PROVE  ListInv'
<1>1. SessionState(session')  BY DEF SetExpanded, Selects, ListInv
<1>2. CASE SetExpanded
  <2>1. PICK shown \in BOOLEAN \ {list.expanded} :
           list' = IF shown THEN Refreshed([list EXCEPT !.expanded = shown], session, FALSE)
                            ELSE [list EXCEPT !.expanded = shown]
    BY <1>2 DEF SetExpanded
  <2> DEFINE l == [list EXCEPT !.expanded = shown]
  <2>2. ListState(l) /\ MatchesOrRebuilds(l)
    BY DEF ListInv, ListState, MatchesOrRebuilds, Match, OnlyPreview, Rest
  <2>3. CASE shown
    <3> HIDE DEF l
    <3>1. list' = Refreshed(l, session', FALSE)  BY <1>2, <2>1, <2>3 DEF SetExpanded, l
    <3> QED  BY <1>1, <2>2, <3>1, Refreshing
  <2>4. CASE ~shown
    <3>1. list' = [list EXCEPT !.expanded = FALSE]  BY <2>1, <2>4
    <3>2. UpDated(list')  BY <3>1, HidingKeeps DEF ListInv, UpDated
    <3> QED  BY <1>1, <3>2, InvFrom
  <2> QED  BY <2>3, <2>4
<1>3. CASE Selects
  <2>1. PICK ids \in SUBSET Ids(list.items) : list' = [list EXCEPT !.selected = ids]
    BY <1>3 DEF Selects
  <2>2. UpDated([list EXCEPT !.selected = ids])
    BY DEF ListInv, UpDated, ListState, MatchesOrRebuilds, UpToDate, Match, OnlyPreview,
           Rest
  <2> QED  BY <1>1, <2>1, <2>2, InvFrom
<1> QED  BY <1>2, <1>3

\* A drag begins, and ends in the plan it began in or in another.
LEMMA Dragged ==
    ASSUME ListInv, DragStarts \/ DragCompletes
    PROVE  ListInv'
<1>1. CASE DragStarts
  <2>1. UpDated([list EXCEPT !.drag = session.plan])
    BY <1>1 DEF ListInv, DragStarts, UpDated, ListState, MatchesOrRebuilds, UpToDate,
                Match, OnlyPreview, Rest
  <2> QED  BY <1>1, <2>1, InvFrom DEF DragStarts, ListInv
<1>2. ASSUME NEW items \in Permuted(list.items), DragCompleted(items) PROVE ListInv'
  <2> DEFINE l == [list EXCEPT !.drag = None, !.items = items, !.rebuild = FALSE]
             k == [l EXCEPT !.rebuild = TRUE]
  <2>0. IsSeq(items)
    <3>1. DOMAIN list.items = 1..Len(list.items) /\ Len(list.items) \in Int
      BY DEF ListInv, ListState, IsSeq
    <3>2. items = [i \in 1..Len(list.items) |-> items[i]]  BY <3>1 DEF Permuted
    <3> QED  BY <3>1, <3>2, FunctionsAreSequences
  <2>1. ListState(l)  BY <2>0 DEF ListInv, ListState
  <2>2. CASE ~SamePlan
    <3>1. list' = Refreshed(k, session', list.rebuild) /\ SessionState(session')
      BY <1>2, <2>2 DEF DragCompleted, ListInv
    <3> HIDE DEF l
    <3>2. ListState(k) /\ k.rebuild  BY <2>1 DEF ListState
    <3>3. list.rebuild \in BOOLEAN  BY DEF ListInv, ListState
    <3> HIDE DEF k
    <3>4. MatchesOrRebuilds(k)  BY <3>2 DEF MatchesOrRebuilds
    <3> QED  BY <3>1, <3>2, <3>3, <3>4, Refreshing
  <2>3. CASE SamePlan
    <3> DEFINE q == Reordered(items)
    <3>1. /\ session' \in {[session EXCEPT !.pending = q], session}
          /\ list' = Refreshed(l, session', TRUE)
      BY <1>2, <2>3 DEF DragCompleted
    <3>2. IsSeq(q)
      <4>1. DOMAIN session.pending = 1..Len(session.pending)
            /\ Len(session.pending) \in Int
        BY DEF ListInv, SessionState, IsSeq
      <4>2. q = [i \in 1..Len(session.pending) |-> q[i]]  BY <4>1 DEF Reordered
      <4> HIDE DEF q
      <4> QED  BY <4>1, <4>2, FunctionsAreSequences
    <3> HIDE DEF q, l
    <3>3. SessionState([session EXCEPT !.pending = q]) /\ SessionState(session)
      BY <3>2, PendingTyped DEF ListInv
    <3>4. SessionState(session')  BY <3>1, <3>3
    <3> QED  BY <2>1, <3>1, <3>4, Refreshing
  <2> QED  BY <2>2, <2>3
<1> QED  BY <1>1, <1>2 DEF DragCompletes

\* Every step keeps the invariant.
LEMMA ListStep == ListInv /\ [Next]_vars => ListInv'
<1> SUFFICES ASSUME ListInv, [Next]_vars PROVE ListInv'
  OBVIOUS
<1>1. CASE FinishCopy  BY <1>1, SessionEnded DEF FinishCopy
<1>2. CASE UNCHANGED vars
  BY <1>2, InvFrom DEF vars, ListInv, UpDated
<1> QED
  BY <1>1, <1>2, SessionBegins, PlanMoves, WindowRefreshes, PageTurns, SelectedEdited,
     ListHandled, Dragged DEF Next
-----------------------------------------------------------------------------
(***************************************************************************)
(* The files of a queue, and what the edits make of their order.           *)
(***************************************************************************)

\* No id occurs twice in s.
Distinct(s) == \A i, k \in 1..Len(s) : s[i].id = s[k].id => i = k

\* A row is no preview, and its id is a number.
LEMMA RowFacts == \A r \in Row : r # Preview /\ r.id \in 1..MaxFiles /\ r.id \in Nat
<1> SUFFICES ASSUME NEW r \in Row PROVE r # Preview /\ r.id \in 1..MaxFiles /\ r.id \in Nat
  OBVIOUS
<1>1. r \in [id : Nat, data : Data] /\ r.id \in 1..MaxFiles
  BY QueueListAssumption DEF Row
<1> QED  BY <1>1, QueueListAssumption

\* The members of a sequence, and its ids when it is one of files.
LEMMA Members ==
    ASSUME NEW s, IsSeq(s)
    PROVE  /\ Len(s) \in Nat /\ DOMAIN s = 1..Len(s)
           /\ ToSet(s) = {s[i] : i \in 1..Len(s)}
<1>1. Len(s) \in Nat /\ DOMAIN s = 1..Len(s)  BY DEF IsSeq
<1> QED  BY <1>1 DEF ToSet

\* A sequence of rows holds rows.
LEMMA RowsAreIsSeq ==
    ASSUME NEW s \in Seq(Row)
    PROVE  IsSeq(s) /\ ToSet(s) \subseteq Row
<1>1. Len(s) \in Int /\ s = [i \in 1..Len(s) |-> s[i]] /\ DOMAIN s = 1..Len(s)  OBVIOUS
<1>2. IsSeq(s)  BY <1>1, FunctionsAreSequences
<1>3. \A i \in 1..Len(s) : s[i] \in Row  OBVIOUS
<1> QED  BY <1>1, <1>2, <1>3 DEF ToSet

\* A sequence of rows is one of rows whichever way it is known.
LEMMA RowsFromSet ==
    ASSUME NEW s, IsSeq(s), ToSet(s) \subseteq Row
    PROVE  s \in Seq(Row)
<1>1. Len(s) \in Nat /\ s = [i \in 1..Len(s) |-> s[i]] /\ DOMAIN s = 1..Len(s)
  BY DEF IsSeq
<1>2. \A i \in 1..Len(s) : s[i] \in Row  BY <1>1 DEF ToSet
<1> QED  BY <1>1, <1>2

\* The ids of a queue are those of its rows.
LEMMA IdsOf ==
    ASSUME NEW s \in Seq(Row)
    PROVE  Ids(s) = {r.id : r \in ToSet(s)}
<1>1. Len(s) \in Nat /\ DOMAIN s = 1..Len(s) /\ \A i \in 1..Len(s) : s[i] \in Row
  OBVIOUS
<1>2. {k \in DOMAIN s : s[k] # Preview} = 1..Len(s)  BY <1>1, RowFacts
<1>3. Ids(s) = {s[i].id : i \in 1..Len(s)}  BY <1>2 DEF Ids
<1> QED  BY <1>1, <1>3 DEF ToSet

\* The first n things of a are different, and all of them are among those of b.
Different(a, n) == \A i, k \in 1..n : a[i] = a[k] => i = k

Among(a, b, n) == \A i \in 1..n : \E k \in 1..n : b[k] = a[i]

\* As many places as there are different things to put there: each has one.
LEMMA Covers ==
    ASSUME NEW n \in Nat, NEW a, NEW b, Different(a, n), Among(a, b, n)
    PROVE  Different(b, n) /\ Among(b, a, n)
<1> DEFINE D == 1..n
           S == {a[i] : i \in D}
           T == {b[i] : i \in D}
           f == [i \in D |-> a[i]]
           g == [i \in D |-> b[i]]
<1>1. IsFiniteSet(D) /\ Cardinality(D) = n
  <2>1. 1 \in Int /\ n \in Int /\ n - 1 + 1 = n  OBVIOUS
  <2>2. Cardinality(1..n) = IF 1 > n THEN 0 ELSE n - 1 + 1  BY <2>1, FS_Interval
  <2> QED  BY <2>1, <2>2, FS_Interval
<1>2. f \in Surjection(D, S) /\ f \in Injection(D, S)
  BY DEF Surjection, Injection, IsInjective, Different
<1>3. g \in Surjection(D, T)  BY DEF Surjection
<1>4. S \subseteq T  BY DEF Among
<1> HIDE DEF D, S, T, f
<1>5. IsFiniteSet(S) /\ Cardinality(S) = Cardinality(D)  BY <1>1, <1>2, FS_Surjection
<1>6. /\ IsFiniteSet(T) /\ Cardinality(T) <= Cardinality(D)
      /\ Cardinality(T) = Cardinality(D) <=> g \in Injection(D, T)
  <2> HIDE DEF g
  <2> QED  BY <1>1, <1>3, FS_Surjection
<1>7. Cardinality(S) <= Cardinality(T) /\ (Cardinality(T) = Cardinality(S) => T = S)
  BY <1>4, <1>6, FS_Subset
<1>8. Cardinality(S) = Cardinality(T)
  <2>1. Cardinality(S) \in Nat /\ Cardinality(T) \in Nat  BY <1>5, <1>6, FS_CardinalityType
  <2> QED  BY <1>5, <1>6, <1>7, <2>1
<1>9. g \in Injection(D, T)
  <2> HIDE DEF g
  <2> QED  BY <1>5, <1>6, <1>8
<1>10. \A i, k \in D : b[i] = b[k] => i = k  BY <1>9 DEF Injection, IsInjective
<1>11. \A k \in D : \E i \in D : a[i] = b[k]
  <2>1. S = T  BY <1>7, <1>8
  <2> QED  BY <2>1 DEF S, T
<1> QED  BY <1>10, <1>11 DEF D, Different, Among

\* A queue that still has every file, in as many places, has no other file and
\* none twice.
LEMMA Rearranged ==
    ASSUME NEW s \in Seq(Row), Distinct(s), NEW t, IsSeq(t), Len(t) = Len(s),
           ToSet(s) \subseteq ToSet(t)
    PROVE  t \in Seq(Row) /\ Distinct(t) /\ ToSet(t) = ToSet(s)
<1> DEFINE n == Len(s)
<1>1. /\ n \in Nat /\ DOMAIN s = 1..n /\ DOMAIN t = 1..n /\ ToSet(s) \subseteq Row
      /\ ToSet(s) = {s[i] : i \in 1..n} /\ ToSet(t) = {t[i] : i \in 1..n}
  BY Members, RowsAreIsSeq
<1>2. \A i, k \in 1..n : s[i] = s[k] => i = k  BY DEF Distinct
<1> HIDE DEF n
<1>3. /\ \A i, k \in 1..n : t[i] = t[k] => i = k
      /\ ToSet(t) = ToSet(s)
  <2>1. n \in Nat /\ Different(s, n) /\ Among(s, t, n)
    BY <1>1, <1>2 DEF Different, Among
  <2>2. Different(t, n) /\ Among(t, s, n)  BY <2>1, Covers
  <2>3. ToSet(t) \subseteq ToSet(s)  BY <1>1, <2>2 DEF Among
  <2> QED  BY <2>2, <2>3 DEF Different
<1>4. \A i \in 1..n : t[i] \in ToSet(s)  BY <1>1, <1>3
<1>5. t \in Seq(Row)  BY <1>1, <1>3, RowsFromSet
<1>6. ASSUME NEW i \in 1..n, NEW k \in 1..n, t[i].id = t[k].id PROVE i = k
  <2>1. PICK j \in 1..n : s[j] = t[i]  BY <1>1, <1>4
  <2>2. PICK m \in 1..n : s[m] = t[k]  BY <1>1, <1>4
  <2>3. j = m  BY <1>6, <2>1, <2>2 DEF Distinct, n
  <2> QED  BY <1>3, <2>1, <2>2, <2>3
<1> QED  BY <1>3, <1>5, <1>6 DEF Distinct, n

\* Two orders that keep some files in theirs, and the others in theirs.
LEMMA OrdersCover ==
    ASSUME NEW s \in Seq(Row), NEW t, IsSeq(t), NEW ids,
           SameOrder(s, t, ids), SameOrder(s, t, Ids(s) \ ids)
    PROVE  Len(t) = Len(s) /\ ToSet(s) \subseteq ToSet(t)
<1>1. DOMAIN s = 1..Len(s) /\ Len(s) \in Nat  OBVIOUS
<1>2. ASSUME NEW i \in DOMAIN s PROVE s[i] \in ToSet(t)
  <2>1. s[i].id \in ids \/ s[i].id \in Ids(s) \ ids
    <3>1. s[i].id \in Ids(s)  BY IdsOf DEF ToSet
    <3> QED  BY <3>1
  <2>2. i <= i  BY <1>1
  <2>3. \E a, b \in DOMAIN t : t[a] = s[i]  BY <2>1, <2>2 DEF SameOrder
  <2> QED  BY <2>3 DEF ToSet
<1> QED  BY <1>2 DEF SameOrder, ToSet

\* A set of numbers that ends has a largest one.
LEMMA Largest ==
    ASSUME NEW n \in Nat, NEW S \in SUBSET (0..n), S # {}
    PROVE  \E x \in S : \A y \in S : y <= x
<1> DEFINE R == {p \in Nat \X Nat : p[1] < p[2]}
           T == {n - x : x \in S}
<1>1. IsWellFoundedOn(R, Nat)  BY NatLessThanWellFounded DEF OpToRel
<1>2. T \subseteq Nat /\ T # {}
  <2>1. \A x \in S : x \in 0..n /\ n - x \in Nat  OBVIOUS
  <2> QED  BY <2>1
<1>3. \A x, y \in Nat : <<y, x>> \notin R => x <= y  OBVIOUS
<1>4. \E x \in T : \A y \in T : <<y, x>> \notin R
  <2> HIDE DEF R, T
  <2> QED  BY <1>1, <1>2, WFMin
<1>5. PICK z \in T : \A y \in T : z <= y
  <2> HIDE DEF R, T
  <2> QED  BY <1>2, <1>3, <1>4
<1>6. PICK x \in S : z = n - x  OBVIOUS
<1>7. ASSUME NEW y \in S PROVE y <= x
  <2>1. n - x <= n - y  BY <1>5, <1>6
  <2> QED  BY <2>1
<1> QED  BY <1>7

\* Taking files out leaves the others, each once; without those files in it a
\* queue stays what it is.
LEMMA WithoutLeaves ==
    ASSUME NEW s \in Seq(Row), Distinct(s), NEW ids
    PROVE  LET t == Without(s, ids) IN
           /\ t \in Seq(Row) /\ Distinct(t)
           /\ ToSet(t) = {r \in ToSet(s) : r.id \notin ids}
           /\ (\A r \in ToSet(s) : r.id \notin ids) => t = s
<1> DEFINE n == Len(s)
           K == {i \in 1..n : s[i].id \notin ids}
           m == Cardinality(K)
           C(i) == Cardinality(K \cap 1..i)
           P(k) == CHOOSE i \in K : C(i) = k
           t == Without(s, ids)
<1>0. n \in Nat /\ DOMAIN s = 1..n /\ ToSet(s) = {s[i] : i \in 1..n} /\ ToSet(s) \subseteq Row
  BY Members, RowsAreIsSeq
<1>1. IsFiniteSet(K) /\ m \in Nat
  <2>1. 1 \in Int /\ n \in Int  BY <1>0
  <2>2. IsFiniteSet(1..n)  BY <2>1, FS_Interval
  <2>3. IsFiniteSet(K)  BY <2>2, FS_Subset
  <2> QED  BY <2>3, FS_CardinalityType
<1>2. ASSUME NEW i \in K, NEW k \in K, i < k PROVE C(i) < C(k)
  <2>1. i \in Nat /\ k \in Nat  BY <1>0
  <2> DEFINE I == K \cap 1..i
             J == K \cap 1..k
  <2>2. I \subseteq J /\ k \in J /\ k \notin I  BY <1>2, <2>1
  <2>3. IsFiniteSet(J) /\ J \subseteq K  BY <1>1, FS_Subset
  <2> HIDE DEF I, J
  <2>4. IsFiniteSet(I) /\ Cardinality(I) <= Cardinality(J)
        /\ (Cardinality(J) = Cardinality(I) => J = I)
    BY <2>2, <2>3, FS_Subset
  <2>5. Cardinality(I) \in Nat /\ Cardinality(J) \in Nat  BY <2>3, <2>4, FS_CardinalityType
  <2>6. Cardinality(I) < Cardinality(J)  BY <2>2, <2>4, <2>5
  <2> QED  BY <2>6 DEF I, J
<1>3. ASSUME NEW i \in K, NEW k \in K, C(i) = C(k) PROVE i = k
  <2>1. i \in Nat /\ k \in Nat  BY <1>0
  <2>2. ~(i < k)
    <3>1. SUFFICES ASSUME i < k PROVE FALSE  OBVIOUS
    <3>2. C(i) < C(k)  BY <1>2, <3>1
    <3>3. C(k) \in Nat
      <4>1. IsFiniteSet(K \cap 1..k)  BY <1>1, FS_Subset
      <4> QED  BY <4>1, FS_CardinalityType
    <3> HIDE DEF C
    <3> QED  BY <1>3, <3>2, <3>3
  <2>3. ~(k < i)
    <3>1. SUFFICES ASSUME k < i PROVE FALSE  OBVIOUS
    <3>2. C(k) < C(i)  BY <1>2, <3>1
    <3>3. C(k) \in Nat
      <4>1. IsFiniteSet(K \cap 1..k)  BY <1>1, FS_Subset
      <4> QED  BY <4>1, FS_CardinalityType
    <3> HIDE DEF C
    <3> QED  BY <1>3, <3>2, <3>3
  <2> QED  BY <2>1, <2>2, <2>3
<1>4. ASSUME NEW i \in K PROVE C(i) \in 1..m
  <2> DEFINE I == K \cap 1..i
  <2>1. I \subseteq K /\ i \in I  BY <1>0
  <2> HIDE DEF I, K
  <2>2. IsFiniteSet(I) /\ Cardinality(I) <= m  BY <1>1, <2>1, FS_Subset
  <2>3. Cardinality(I) \in Nat /\ Cardinality(I) # 0
    BY <2>1, <2>2, FS_CardinalityType, FS_EmptySet
  <2>4. Cardinality(I) \in 1..m
    <3> HIDE DEF m
    <3> QED  BY <1>1, <2>2, <2>3
  <2> QED  BY <2>4 DEF I
<1>5. \A k \in 1..m : \E i \in K : C(i) = k
  <2> DEFINE f == [i \in K |-> C(i)]
  <2>1. f \in Injection(K, 1..m)
    <3> HIDE DEF C, K, m
    <3>1. f \in [K -> 1..m]  BY <1>4
    <3> QED  BY <1>3, <3>1 DEF Injection, IsInjective
  <2>2. IsFiniteSet(1..m) /\ Cardinality(1..m) = m
    <3> HIDE DEF m
    <3>1. 1 \in Int /\ m \in Int /\ m - 1 + 1 = m  BY <1>1
    <3>2. Cardinality(1..m) = IF 1 > m THEN 0 ELSE m - 1 + 1  BY <3>1, FS_Interval
    <3> QED  BY <1>1, <3>1, <3>2, FS_Interval
  <2> DEFINE M == 1..m
  <2>3. f \in Surjection(K, M)
    <3>1. f \in Injection(K, M) /\ IsFiniteSet(M) /\ Cardinality(K) = Cardinality(M)
      BY <2>1, <2>2
    <3> HIDE DEF f, M, K, m
    <3> QED  BY <3>1, FS_Injection
  <2>4. \A k \in M : \E i \in K : f[i] = k
    <3> HIDE DEF f, M, K
    <3> QED  BY <2>3 DEF Surjection
  <2> HIDE DEF C, K, m
  <2> QED  BY <2>4 DEF M
<1>6. \A k \in 1..m : P(k) \in K /\ C(P(k)) = k
  <2> HIDE DEF C, K, m
  <2> QED  BY <1>5
<1>7. \A i \in K : P(C(i)) = i
  <2> HIDE DEF C, K, m, P
  <2>1. \A i \in K : C(i) \in 1..m  BY <1>4
  <2>2. \A i \in K : P(C(i)) \in K /\ C(P(C(i))) = C(i)  BY <1>6, <2>1
  <2> QED  BY <1>3, <2>2
<1>8. t = [k \in 1..m |-> s[P(k)]]  BY DEF Without
<1>9. IsSeq(t) /\ Len(t) = m /\ DOMAIN t = 1..m
  <2>1. t = [k \in 1..m |-> t[k]] /\ m \in Int /\ DOMAIN t = 1..m  BY <1>1, <1>8
  <2> HIDE DEF t, m
  <2>2. IsSeq(t)  BY <2>1, FunctionsAreSequences
  <2>3. Len(t) \in Nat /\ DOMAIN t = 1..Len(t)  BY <2>2, Members
  <2>4. Len(t) = m  BY <1>1, <2>1, <2>3
  <2> QED  BY <2>1, <2>2, <2>4
<1>10. \A i \in K : i \in 1..n /\ s[i].id \notin ids  OBVIOUS
<1>11. \A i \in 1..n : s[i].id \notin ids => i \in K  OBVIOUS
<1> HIDE DEF C, P, K, m, t
<1>12. ToSet(t) = {t[k] : k \in 1..m}  BY <1>9, Members
<1>13. ToSet(t) \subseteq {r \in ToSet(s) : r.id \notin ids}
  <2> SUFFICES ASSUME NEW k \in 1..m PROVE t[k] \in ToSet(s) /\ t[k].id \notin ids
    BY <1>12
  <2>1. t[k] = s[P(k)] /\ P(k) \in K  BY <1>6, <1>8
  <2> QED  BY <1>0, <1>10, <2>1
<1>14. {r \in ToSet(s) : r.id \notin ids} \subseteq ToSet(t)
  <2> SUFFICES ASSUME NEW i \in 1..n, s[i].id \notin ids PROVE s[i] \in ToSet(t)
    BY <1>0
  <2>1. i \in K  BY <1>11
  <2>2. C(i) \in 1..m /\ P(C(i)) = i  BY <1>4, <1>7, <2>1
  <2>3. t[C(i)] = s[i]  BY <1>8, <2>2
  <2> QED  BY <1>12, <2>2, <2>3
<1>15. t \in Seq(Row)  BY <1>0, <1>9, <1>13, RowsFromSet
<1>16. ASSUME NEW i \in 1..m, NEW k \in 1..m, t[i].id = t[k].id PROVE i = k
  <2>1. t[i] = s[P(i)] /\ t[k] = s[P(k)] /\ P(i) \in 1..n /\ P(k) \in 1..n
    BY <1>6, <1>8, <1>10
  <2>2. P(i) = P(k)  BY <1>16, <2>1 DEF Distinct, n
  <2> QED  BY <1>6, <2>2
<1>17. ASSUME \A r \in ToSet(s) : r.id \notin ids PROVE t = s
  <2>1. K = 1..n
    <3>1. \A i \in 1..n : i \in K  BY <1>0, <1>11, <1>17
    <3> QED  BY <1>10, <3>1
  <2>2. \A i \in 0..n : Cardinality(1..i) = i
    <3> TAKE i \in 0..n
    <3>1. 1 \in Int /\ i \in Int /\ i - 1 + 1 = i /\ i >= 0  OBVIOUS
    <3>2. Cardinality(1..i) = IF 1 > i THEN 0 ELSE i - 1 + 1  BY <3>1, FS_Interval
    <3> QED  BY <3>1, <3>2
  <2>3. m = n  BY <1>0, <2>1, <2>2 DEF m
  <2>4. \A i \in 1..n : C(i) = i
    <3> TAKE i \in 1..n
    <3>1. K \cap 1..i = 1..i /\ i \in 0..n  BY <1>0, <2>1
    <3> QED  BY <2>2, <3>1 DEF C
  <2>5. \A i \in 1..n : P(i) = i  BY <1>7, <2>1, <2>4
  <2>6. t = [k \in 1..n |-> s[k]]  BY <1>8, <2>3, <2>5
  <2> QED  BY <1>0, <2>6
<1> QED  BY <1>9, <1>13, <1>14, <1>15, <1>16, <1>17 DEF Distinct, t

\* A file at either end.
LEMMA Grown ==
    ASSUME NEW s \in Seq(Row), Distinct(s), NEW e \in Row,
           \A r \in ToSet(s) : r.id # e.id, NEW t \in {Append(s, e), <<e>> \o s}
    PROVE  t \in Seq(Row) /\ Distinct(t) /\ ToSet(t) = ToSet(s) \cup {e}
<1> DEFINE n == Len(s)
<1>0. n \in Nat /\ DOMAIN s = 1..n /\ ToSet(s) = {s[i] : i \in 1..n}
  BY Members, RowsAreIsSeq
<1>1. \A i \in 1..n : s[i].id # e.id /\ s[i] \in ToSet(s)  BY <1>0
<1>2. CASE t = Append(s, e)
  <2>1. t \in Seq(Row) /\ Len(t) = n + 1 /\ t[n + 1] = e /\ \A i \in 1..n : t[i] = s[i]
    BY <1>0, <1>2
  <2>2. 1..(n + 1) = (1..n) \cup {n + 1}  BY <1>0
  <2>3. ToSet(t) = {t[i] : i \in 1..(n + 1)}  BY <2>1, Members, RowsAreIsSeq
  <2> HIDE DEF n
  <2>4. ToSet(t) = ToSet(s) \cup {e}  BY <1>0, <2>1, <2>2, <2>3
  <2>5. Distinct(t)
    <3> SUFFICES ASSUME NEW i \in 1..(n + 1), NEW k \in 1..(n + 1), t[i].id = t[k].id
                 PROVE  i = k
      BY <2>1 DEF Distinct
    <3>1. i \in 1..n /\ k \in 1..n => i = k  BY <2>1 DEF Distinct, n
    <3>2. (i = n + 1 /\ k \in 1..n => FALSE) /\ (k = n + 1 /\ i \in 1..n => FALSE)
      BY <1>1, <2>1
    <3> QED  BY <2>2, <3>1, <3>2
  <2> QED  BY <2>1, <2>4, <2>5
<1>3. CASE t = <<e>> \o s
  <2>1. t \in Seq(Row) /\ Len(t) = n + 1 /\ t[1] = e /\ \A i \in 1..n : t[i + 1] = s[i]
    BY <1>0, <1>3
  <2>2. \A i \in 1..(n + 1) : i = 1 \/ (i - 1 \in 1..n /\ (i - 1) + 1 = i)  BY <1>0
  <2>3. ToSet(t) = {t[i] : i \in 1..(n + 1)}  BY <2>1, Members, RowsAreIsSeq
  <2>0. 1 \in 1..(n + 1) /\ \A i \in 1..n : i + 1 \in 1..(n + 1)  BY <1>0
  <2>9. \A i \in 1..(n + 1) : i = 1 \/ (t[i] = s[i - 1] /\ i - 1 \in 1..n)  BY <2>1, <2>2
  <2> HIDE DEF n
  <2>4. ToSet(t) = ToSet(s) \cup {e}
    <3>1. ToSet(s) \cup {e} \subseteq ToSet(t)  BY <1>0, <2>0, <2>1, <2>3
    <3>2. ToSet(t) \subseteq ToSet(s) \cup {e}  BY <1>0, <2>1, <2>3, <2>9
    <3> QED  BY <3>1, <3>2
  <2>5. Distinct(t)
    <3> SUFFICES ASSUME NEW i \in 1..(n + 1), NEW k \in 1..(n + 1), t[i].id = t[k].id
                 PROVE  i = k
      BY <2>1 DEF Distinct
    <3>1. CASE i # 1 /\ k # 1
      <4>1. i - 1 \in 1..n /\ k - 1 \in 1..n /\ s[i - 1].id = s[k - 1].id  BY <2>9, <3>1
      <4>2. i - 1 = k - 1  BY <4>1 DEF Distinct, n
      <4> QED  BY <1>0, <4>2
    <3>2. (i = 1 /\ k # 1 => FALSE) /\ (k = 1 /\ i # 1 => FALSE)
      BY <1>1, <2>1, <2>9
    <3> QED  BY <3>1, <3>2
  <2> QED  BY <2>1, <2>4, <2>5
<1> QED  BY <1>2, <1>3

\* The first file.
LEMMA Shrunk ==
    ASSUME NEW s \in Seq(Row), Distinct(s), s # <<>>
    PROVE  /\ Tail(s) \in Seq(Row) /\ Distinct(Tail(s)) /\ Head(s) \in Row
           /\ ToSet(s) = ToSet(Tail(s)) \cup {Head(s)}
           /\ \A r \in ToSet(Tail(s)) : r.id # Head(s).id
<1> DEFINE n == Len(s)
           t == Tail(s)
           e == Head(s)
<1>0. n \in Nat /\ n # 0 /\ DOMAIN s = 1..n /\ ToSet(s) = {s[i] : i \in 1..n}
      /\ \A i \in 1..n : s[i] \in Row
  BY Members, RowsAreIsSeq
<1>1. /\ t \in Seq(Row) /\ Len(t) = n - 1 /\ \A i \in 1..(n - 1) : t[i] = s[i + 1]
      /\ e = s[1] /\ 1 \in 1..n
  BY <1>0
<1>2. ToSet(t) = {t[i] : i \in 1..(n - 1)}  BY <1>1, Members, RowsAreIsSeq
<1>3. \A i \in 1..(n - 1) : i + 1 \in 1..n /\ i + 1 # 1  BY <1>0
<1>4. \A i \in 1..n : i = 1 \/ (i - 1 \in 1..(n - 1) /\ (i - 1) + 1 = i)  BY <1>0
<1>9. \A i \in 1..n : i = 1 \/ (i - 1 \in 1..(n - 1) /\ t[i - 1] = s[i])  BY <1>1, <1>4
<1> HIDE DEF n, t, e
<1>5. Distinct(t)
  <2> SUFFICES ASSUME NEW i \in 1..(n - 1), NEW k \in 1..(n - 1), t[i].id = t[k].id
               PROVE  i = k
    BY <1>1 DEF Distinct
  <2>1. s[i + 1].id = s[k + 1].id  BY <1>1
  <2>2. i + 1 = k + 1  BY <1>3, <2>1 DEF Distinct, n
  <2> QED  BY <1>0, <2>2
<1>6. ToSet(s) = ToSet(t) \cup {e}
  <2>1. ToSet(s) \subseteq ToSet(t) \cup {e}
    <3> SUFFICES ASSUME NEW i \in 1..n PROVE s[i] \in ToSet(t) \cup {e}
      BY <1>0
    <3>1. CASE i = 1  BY <1>1, <3>1
    <3>2. CASE i # 1
      <4>1. i - 1 \in 1..(n - 1) /\ t[i - 1] = s[i]  BY <1>9, <3>2
      <4> QED  BY <1>2, <4>1
    <3> QED  BY <3>1, <3>2
  <2>2. ToSet(t) \cup {e} \subseteq ToSet(s)  BY <1>0, <1>1, <1>2, <1>3
  <2> QED  BY <2>1, <2>2
<1>7. ASSUME NEW i \in 1..(n - 1) PROVE t[i].id # e.id
  <2>1. SUFFICES ASSUME t[i].id = e.id PROVE FALSE  OBVIOUS
  <2>2. s[i + 1].id = s[1].id  BY <1>1, <2>1
  <2>3. i + 1 = 1  BY <1>1, <1>3, <2>2 DEF Distinct, n
  <2> QED  BY <1>3, <2>3
<1> QED  BY <1>0, <1>1, <1>2, <1>5, <1>6, <1>7 DEF t, e
-----------------------------------------------------------------------------
(***************************************************************************)
(* The orders that moving makes.                                           *)
(***************************************************************************)

\* What the order of queues of the same length says of their places.
Follows(s, t, ids, n) ==
    \A i, k \in 1..n :
       i <= k /\ s[i].id \in ids /\ s[k].id \in ids =>
          \E a, b \in 1..n : a <= b /\ t[a] = s[i] /\ t[b] = s[k]

\* The order is one of places.
LEMMA OrderMeans ==
    ASSUME NEW n, NEW s, NEW t, Len(s) = n, Len(t) = n, DOMAIN s = 1..n, DOMAIN t = 1..n,
           NEW ids
    PROVE  SameOrder(s, t, ids) <=> Follows(s, t, ids, n)
BY DEF SameOrder, Follows

\* A chosen file stays or moves up by one place; any other file goes behind the
\* chosen ones that follow it.  Neither the chosen files nor the others pass one
\* another.
LEMMA MovedUpOrders ==
    ASSUME NEW s, IsSeq(s), NEW chosen
    PROVE  LET t == MovedUp(s, chosen) IN
           /\ IsSeq(t) /\ SameOrder(s, t, chosen)
           /\ \A ids : ids \cap chosen = {} => SameOrder(s, t, ids)
<1> DEFINE n == Len(s)
           Picked(i) == s[i].id \in chosen
           Others(k) == {i \in 1..k : ~Picked(i)}
           t == MovedUp(s, chosen)
<1>0. n \in Nat /\ DOMAIN s = 1..n  BY Members
<1>1. t = [k \in 1..n |-> IF Others(k) = {} THEN s[k]
                          ELSE IF k < n /\ Picked(k + 1) THEN s[k + 1]
                          ELSE s[Max(Others(k))]]
  BY DEF MovedUp
<1>2. IsSeq(t) /\ Len(t) = n /\ DOMAIN t = 1..n
  <2>1. t = [k \in 1..n |-> t[k]] /\ n \in Int /\ DOMAIN t = 1..n  BY <1>0, <1>1
  <2> HIDE DEF t, n
  <2>2. IsSeq(t)  BY <2>1, FunctionsAreSequences
  <2>3. Len(t) \in Nat /\ DOMAIN t = 1..Len(t)  BY <2>2, Members
  <2> QED  BY <1>0, <2>1, <2>2, <2>3
<1> HIDE DEF t, n
<1>3. ASSUME NEW i \in 1..n, Picked(i)
      PROVE  \E a \in 1..n : t[a] = s[i] /\ a \in {i - 1, i}
  <2>1. CASE Others(i) = {}
    <3>1. t[i] = s[i]  BY <1>1, <2>1
    <3> QED  BY <3>1
  <2>2. CASE Others(i) # {}
    <3>1. PICK j \in 1..i : ~Picked(j)  BY <2>2
    <3>2. j # i /\ i \in Nat /\ j \in Nat  BY <1>0, <1>3, <3>1
    <3>3. j \in 1..(i - 1) /\ i - 1 \in 1..n /\ i - 1 < n /\ (i - 1) + 1 = i  BY <1>0, <3>2
    <3>4. j \in Others(i - 1)  BY <3>1, <3>3
    <3> HIDE DEF Others, Picked
    <3>5. t[i - 1] = s[i]  BY <1>1, <1>3, <3>3, <3>4
    <3> QED  BY <3>3, <3>5
  <2> QED  BY <2>1, <2>2
<1>4. ASSUME NEW i \in 1..n, ~Picked(i)
      PROVE  \E a \in 1..n : t[a] = s[i] /\ i <= a /\ \A j \in (i + 1)..a : Picked(j)
  <2> DEFINE S == {a \in i..n : \A j \in (i + 1)..a : Picked(j)}
  <2>1. S \subseteq 0..n /\ i \in S  BY <1>0
  <2>2. PICK a \in S : \A y \in S : y <= a
    <3> HIDE DEF S
    <3> QED  BY <1>0, <2>1, Largest
  <2>3. a \in i..n /\ a \in 1..n /\ i <= a /\ (\A j \in (i + 1)..a : Picked(j))  BY <1>0, <2>2
  <2>4. ~(a < n /\ Picked(a + 1))
    <3>1. SUFFICES ASSUME a < n, Picked(a + 1) PROVE FALSE  OBVIOUS
    <3>2. a + 1 \in i..n /\ \A j \in (i + 1)..(a + 1) : j \in (i + 1)..a \/ j = a + 1
      BY <1>0, <2>3, <3>1
    <3>3. a + 1 \in S  BY <2>3, <3>1, <3>2
    <3>4. a + 1 <= a  BY <2>2, <3>3
    <3> QED  BY <1>0, <2>3, <3>4
  <2>5. i \in Others(a) /\ \A y \in Others(a) : y <= i
    <3>1. i \in Others(a)  BY <1>0, <1>4, <2>3
    <3>2. ASSUME NEW y \in Others(a) PROVE y <= i
      <4>1. y \in 1..a /\ ~Picked(y)  OBVIOUS
      <4>2. y \notin (i + 1)..a  BY <2>3, <4>1
      <4> QED  BY <1>0, <2>3, <4>1, <4>2
    <3> QED  BY <3>1, <3>2
  <2>6. Others(a) \subseteq Int /\ i \in Int  BY <1>0
  <2> DEFINE T == Others(a)
  <2>7. Max(T) = i
    <3>1. i \in T /\ (\A y \in T : y <= i) /\ T \subseteq Int  BY <2>5, <2>6
    <3> HIDE DEF T
    <3>2. \E x \in T : \A y \in T : x >= y  BY <3>1
    <3>3. Max(T) \in T /\ \A y \in T : Max(T) >= y  BY <3>2 DEF Max
    <3>4. Max(T) \in Int /\ i \in Int /\ Max(T) <= i /\ Max(T) >= i  BY <2>6, <3>1, <3>3
    <3> QED  BY <3>4
  <2>8. T # {}  BY <2>5
  <2>9. t[a] = s[i]
    <3>1. t[a] = IF T = {} THEN s[a] ELSE IF a < n /\ Picked(a + 1) THEN s[a + 1]
                 ELSE s[Max(T)]
      BY <1>1, <2>3
    <3> HIDE DEF T, Picked
    <3> QED  BY <2>4, <2>7, <2>8, <3>1
  <2> QED  BY <2>3, <2>9
<1>5. Follows(s, t, chosen, n)
  <2> SUFFICES ASSUME NEW i \in 1..n, NEW k \in 1..n, i <= k, Picked(i), Picked(k)
               PROVE  \E a, b \in 1..n : a <= b /\ t[a] = s[i] /\ t[b] = s[k]
    BY DEF Follows
  <2> HIDE DEF Picked
  <2>1. PICK a \in 1..n : t[a] = s[i] /\ a \in {i - 1, i}  BY <1>3
  <2>2. PICK b \in 1..n : t[b] = s[k] /\ b \in {k - 1, k}  BY <1>3
  <2>3. CASE i = k
    <3>1. a <= a  BY <1>0
    <3> QED  BY <2>1, <2>3, <3>1
  <2>4. CASE i # k
    <3>1. a <= b  BY <1>0, <2>1, <2>2, <2>4
    <3> QED  BY <2>1, <2>2, <3>1
  <2> QED  BY <2>3, <2>4
<1>6. ASSUME NEW ids, ids \cap chosen = {} PROVE Follows(s, t, ids, n)
  <2> SUFFICES ASSUME NEW i \in 1..n, NEW k \in 1..n, i <= k, ~Picked(i), ~Picked(k)
               PROVE  \E a, b \in 1..n : a <= b /\ t[a] = s[i] /\ t[b] = s[k]
    BY <1>6 DEF Follows
  <2> HIDE DEF Picked
  <2>1. PICK a \in 1..n : t[a] = s[i] /\ i <= a /\ \A j \in (i + 1)..a : Picked(j)  BY <1>4
  <2>2. PICK b \in 1..n : t[b] = s[k] /\ k <= b  BY <1>4
  <2>3. CASE i = k
    <3>1. a <= a  BY <1>0
    <3> QED  BY <2>1, <2>3, <3>1
  <2>4. CASE i # k
    <3>1. k \notin (i + 1)..a  BY <2>1
    <3>2. a <= b  BY <1>0, <2>2, <2>4, <3>1
    <3> QED  BY <2>1, <2>2, <3>2
  <2> QED  BY <2>3, <2>4
<1>7. \A ids : SameOrder(s, t, ids) <=> Follows(s, t, ids, n)
  BY <1>0, <1>2, OrderMeans DEF n
<1> QED  BY <1>2, <1>5, <1>6, <1>7 DEF t

\* A queue that is turned round has the same files.
LEMMA Reversed ==
    ASSUME NEW s, IsSeq(s)
    PROVE  LET t == Reverse(s) IN
           /\ IsSeq(t) /\ Len(t) = Len(s) /\ DOMAIN t = 1..Len(s) /\ ToSet(t) = ToSet(s)
           /\ \A i \in 1..Len(s) : Len(s) - i + 1 \in 1..Len(s) /\ t[i] = s[Len(s) - i + 1]
<1> DEFINE n == Len(s)
           t == Reverse(s)
<1>0. n \in Nat /\ DOMAIN s = 1..n /\ ToSet(s) = {s[i] : i \in 1..n}  BY Members
<1>1. t = [i \in 1..n |-> s[n - i + 1]]  BY DEF Reverse
<1>2. IsSeq(t) /\ Len(t) = n /\ DOMAIN t = 1..n
  <2>1. t = [k \in 1..n |-> t[k]] /\ n \in Int /\ DOMAIN t = 1..n  BY <1>0, <1>1
  <2> HIDE DEF t, n
  <2>2. IsSeq(t)  BY <2>1, FunctionsAreSequences
  <2>3. Len(t) \in Nat /\ DOMAIN t = 1..Len(t)  BY <2>2, Members
  <2> QED  BY <1>0, <2>1, <2>2, <2>3
<1>3. \A i \in 1..n : n - i + 1 \in 1..n /\ n - (n - i + 1) + 1 = i  BY <1>0
<1> HIDE DEF n, t
<1>4. \A i \in 1..n : t[i] = s[n - i + 1]  BY <1>1
<1>5. ToSet(t) = {t[i] : i \in 1..n}  BY <1>2, Members
<1>6. \A i \in 1..n : s[i] = t[n - i + 1]  BY <1>3, <1>4
<1>7. ToSet(t) = ToSet(s)
  <2>1. ToSet(t) \subseteq ToSet(s)  BY <1>0, <1>3, <1>4, <1>5
  <2>2. ToSet(s) \subseteq ToSet(t)  BY <1>0, <1>3, <1>5, <1>6
  <2> QED  BY <2>1, <2>2
<1> QED  BY <1>2, <1>3, <1>4, <1>7 DEF n, t

\* Moving down is moving up in the queue that is turned round.
LEMMA MovedDownOrders ==
    ASSUME NEW s, IsSeq(s), NEW chosen
    PROVE  LET t == MovedDown(s, chosen) IN
           /\ IsSeq(t) /\ SameOrder(s, t, chosen)
           /\ \A ids : ids \cap chosen = {} => SameOrder(s, t, ids)
<1> DEFINE n == Len(s)
           u == Reverse(s)
           v == MovedUp(u, chosen)
           t == Reverse(v)
<1>0. n \in Nat /\ DOMAIN s = 1..n  BY Members
<1>1. /\ IsSeq(u) /\ Len(u) = n /\ DOMAIN u = 1..n
      /\ \A i \in 1..n : n - i + 1 \in 1..n /\ u[i] = s[n - i + 1]
  BY Reversed
<1> HIDE DEF u, n
<1>2. /\ IsSeq(v) /\ SameOrder(u, v, chosen)
      /\ \A ids : ids \cap chosen = {} => SameOrder(u, v, ids)
  BY <1>1, MovedUpOrders
<1> HIDE DEF v
<1>3. Len(v) = n /\ DOMAIN v = 1..n  BY <1>1, <1>2, Members DEF SameOrder
<1>4. /\ IsSeq(t) /\ Len(t) = n /\ DOMAIN t = 1..n
      /\ \A i \in 1..n : t[i] = v[n - i + 1]
  BY <1>2, <1>3, Reversed
<1> HIDE DEF t
<1>5. \A i \in 1..n : n - (n - i + 1) + 1 = i  BY <1>0
<1>6. ASSUME NEW ids, Follows(u, v, ids, n) PROVE Follows(s, t, ids, n)
  <2> SUFFICES ASSUME NEW i \in 1..n, NEW k \in 1..n, i <= k, s[i].id \in ids, s[k].id \in ids
               PROVE  \E a, b \in 1..n : a <= b /\ t[a] = s[i] /\ t[b] = s[k]
    BY DEF Follows
  <2> DEFINE x == n - k + 1
             y == n - i + 1
  <2>1. x \in 1..n /\ y \in 1..n /\ x <= y  BY <1>0
  <2>2. u[x] = s[k] /\ u[y] = s[i]  BY <1>1, <1>5, <2>1
  <2> HIDE DEF x, y
  <2>3. PICK a, b \in 1..n : a <= b /\ v[a] = s[k] /\ v[b] = s[i]
    BY <1>6, <2>1, <2>2 DEF Follows
  <2> DEFINE c == n - b + 1
             d == n - a + 1
  <2>4. c \in 1..n /\ d \in 1..n /\ c <= d /\ n - c + 1 = b /\ n - d + 1 = a  BY <1>0, <2>3
  <2> HIDE DEF c, d
  <2>5. t[c] = s[i] /\ t[d] = s[k]  BY <1>4, <2>3, <2>4
  <2> QED  BY <2>4, <2>5
<1>7. t = MovedDown(s, chosen)  BY DEF MovedDown, t, v, u
<1>8. \A ids : SameOrder(u, v, ids) <=> Follows(u, v, ids, n)  BY <1>1, <1>3, OrderMeans
<1>9. \A ids : SameOrder(s, t, ids) <=> Follows(s, t, ids, n)
  BY <1>0, <1>4, OrderMeans DEF n
<1> QED  BY <1>2, <1>4, <1>6, <1>7, <1>8, <1>9
-----------------------------------------------------------------------------
(***************************************************************************)
(* The files of the plan.                                                  *)
(***************************************************************************)

\* No file is queued twice, taken twice, or queued and taken, and the numbers
\* that are still to be given are larger than all of theirs.
Files(p, a, n) ==
    /\ p \in Seq(Row) /\ Distinct(p) /\ a \subseteq Row /\ n \in Nat
    /\ \A r, q \in a : r.id = q.id => r = q
    /\ \A r \in ToSet(p), q \in a : r.id # q.id
    /\ \A r \in ToSet(p) \cup a : r.id < n

FilesInv(s) == Files(s.pending, s.active, s.next)

\* A window without a plan has no files, and neither has a plan to be built.
LEMMA NoFiles ==
    /\ Files(<<>>, {}, 0)
    /\ \A p, a : Files(p, a, 0) => a = {}
<1>1. Files(<<>>, {}, 0)
  <2>1. ToSet(<<>>) = {} /\ <<>> \in Seq(Row) /\ Len(<<>>) = 0  BY DEF ToSet
  <2> QED  BY <2>1 DEF Files, Distinct
<1>2. ASSUME NEW p, NEW a, Files(p, a, 0) PROVE a = {}
  <2>1. \A r \in a : r.id \in Nat /\ r.id < 0  BY <1>2, RowFacts DEF Files
  <2> QED  BY <2>1
<1> QED  BY <1>1, <1>2

\* The files of a new plan are numbered from 1.
LEMMA FilesBuilt ==
    ASSUME NEW n \in 0..MaxFiles, NEW d \in Data
    PROVE  Files(FilesFrom(1, n, d), {}, n + 1)
<1> DEFINE s == FilesFrom(1, n, d)
<1>0. n \in Nat /\ n + 1 - 1 = n  BY QueueListAssumption
<1>1. s = [i \in 1..n |-> [id |-> 1 + i - 1, data |-> d]]  BY <1>0 DEF FilesFrom
<1>2. \A i \in 1..n : 1 + i - 1 = i /\ i \in 1..MaxFiles /\ i < n + 1
  BY <1>0, QueueListAssumption
<1>3. \A i \in 1..n : s[i] \in Row /\ s[i].id = i  BY <1>1, <1>2 DEF Row
<1>4. s = [i \in 1..n |-> s[i]] /\ DOMAIN s = 1..n  BY <1>1
<1> HIDE DEF s
<1>5. s \in Seq(Row) /\ Len(s) = n  BY <1>0, <1>3, <1>4
<1>6. ToSet(s) = {s[i] : i \in 1..n}  BY <1>4 DEF ToSet
<1>7. Distinct(s)  BY <1>3, <1>5 DEF Distinct
<1>8. \A r \in ToSet(s) : r.id < n + 1  BY <1>2, <1>3, <1>6
<1> QED  BY <1>0, <1>5, <1>7, <1>8 DEF Files, s

\* Files leave, or change their order.
LEMMA FilesFewer ==
    ASSUME NEW p, NEW a, NEW n, Files(p, a, n), NEW q \in Seq(Row), Distinct(q),
           ToSet(q) \subseteq ToSet(p), NEW b, b \subseteq a
    PROVE  Files(q, b, n)
BY DEF Files

\* A worker takes the first file.
LEMMA FilesTaken ==
    ASSUME NEW p, NEW a, NEW n, Files(p, a, n), p # <<>>
    PROVE  Files(Tail(p), a \cup {Head(p)}, n)
<1>1. /\ Tail(p) \in Seq(Row) /\ Distinct(Tail(p)) /\ Head(p) \in Row
      /\ ToSet(p) = ToSet(Tail(p)) \cup {Head(p)}
      /\ \A r \in ToSet(Tail(p)) : r.id # Head(p).id
  BY Shrunk DEF Files
<1> DEFINE t == Tail(p)
           e == Head(p)
<1> HIDE DEF t, e
<1>2. /\ t \in Seq(Row) /\ Distinct(t) /\ e \in Row /\ ToSet(p) = ToSet(t) \cup {e}
      /\ \A r \in ToSet(t) : r.id # e.id
  BY <1>1 DEF t, e
<1>3. Files(t, a \cup {e}, n)  BY <1>2 DEF Files
<1> QED  BY <1>3 DEF t, e

\* A worker gives its file back, perhaps to another destination.
LEMMA FilesReturned ==
    ASSUME NEW p, NEW a, NEW n, Files(p, a, n), NEW r \in a, NEW e \in Row, e.id = r.id
    PROVE  /\ Files(<<e>> \o p, a \ {r}, n)
           /\ ToSet(<<e>> \o p) = ToSet(p) \cup {e} /\ \A q \in ToSet(p) : q.id # e.id
<1> DEFINE t == <<e>> \o p
<1>1. \A q \in ToSet(p) : q.id # e.id  BY DEF Files
<1>2. t \in Seq(Row) /\ Distinct(t) /\ ToSet(t) = ToSet(p) \cup {e}
  BY <1>1, Grown DEF Files
<1> HIDE DEF t
<1>3. Files(t, a \ {r}, n)  BY <1>2 DEF Files
<1> QED  BY <1>1, <1>2, <1>3 DEF t

\* The planner appends a file with the next number.
LEMMA FilesAppended ==
    ASSUME NEW p, NEW a, NEW n, Files(p, a, n), NEW e \in Row, e.id = n
    PROVE  /\ Files(Append(p, e), a, n + 1)
           /\ ToSet(Append(p, e)) = ToSet(p) \cup {e} /\ \A q \in ToSet(p) : q.id # e.id
<1> DEFINE t == Append(p, e)
<1>1. \A q \in ToSet(p) \cup a : q.id \in Nat /\ q.id < n /\ q.id # e.id
  <2>1. ToSet(p) \subseteq Row /\ a \subseteq Row  BY RowsAreIsSeq DEF Files
  <2>2. \A x \in Nat : x < n => x # n  BY DEF Files
  <2> QED  BY <2>1, <2>2, RowFacts DEF Files
<1>2. t \in Seq(Row) /\ Distinct(t) /\ ToSet(t) = ToSet(p) \cup {e}
  BY <1>1, Grown DEF Files
<1> HIDE DEF t
<1>3. \A q \in ToSet(t) \cup a : q.id < n + 1
  <2>1. n \in Nat /\ \A x \in Nat : x < n => x < n + 1  BY DEF Files
  <2>2. n < n + 1  BY <2>1
  <2> QED  BY <1>1, <1>2, <2>1, <2>2
<1>4. \A q \in ToSet(t), x \in a : q.id # x.id  BY <1>1, <1>2 DEF Files
<1>5. Files(t, a, n + 1)  BY <1>2, <1>3, <1>4 DEF Files
<1> QED  BY <1>1, <1>2, <1>5 DEF t

\* A drag puts the files of the page in another order, at their place.
LEMMA ReorderedPage ==
    ASSUME Files(session.pending, session.active, session.next), list.offset \in Nat,
           IsSeq(list.items), NEW items \in Permuted(list.items), SamePage(items)
    PROVE  LET s == session.pending
               t == Reordered(items) IN
           /\ t \in Seq(Row) /\ Distinct(t) /\ ToSet(t) = ToSet(s)
           /\ Ids(list.items) = {s[k].id : k \in {i \in DOMAIN s : OnPage(i)}}
           /\ \A k \in DOMAIN s : ~OnPage(k) => t[k] = s[k]
<1> DEFINE s == session.pending
           t == Reordered(items)
           n == Len(s)
           o == list.offset
           m == Len(items)
           was == list.items
<1>0. /\ s \in Seq(Row) /\ n \in Nat /\ DOMAIN s = 1..n /\ ToSet(s) = {s[i] : i \in 1..n}
      /\ Distinct(s)
  BY Members, RowsAreIsSeq DEF Files
<1>1. IsSeq(items) /\ Len(was) = m /\ DOMAIN was = 1..m /\ DOMAIN items = 1..m /\ m \in Nat
  <2>1. DOMAIN was = 1..Len(was) /\ Len(was) \in Nat  BY Members
  <2>2. items = [i \in 1..Len(was) |-> items[i]] /\ DOMAIN items = 1..Len(was)
    BY <2>1 DEF Permuted
  <2>3. IsSeq(items)  BY <2>1, <2>2, FunctionsAreSequences
  <2>4. Len(items) \in Nat /\ DOMAIN items = 1..Len(items)  BY <2>3, Members
  <2>5. Len(items) = Len(was)  BY <2>1, <2>2, <2>4
  <2> QED  BY <2>1, <2>3, <2>4, <2>5
<1>2. \A i \in 1..m : \E k \in 1..m : items[i] = was[k]  BY <1>1 DEF Permuted
<1>3. o + m <= n /\ (\A i \in 1..m : s[o + i].id \in Ids(items)) /\ Preview \notin ToSet(items)
  BY <1>1 DEF SamePage
<1>4. o \in Nat /\ \A i \in 1..m : o + i \in 1..n /\ (o + i) - o = i  BY <1>0, <1>1, <1>3
<1>5. Ids(items) \subseteq Ids(was)
  <2> SUFFICES ASSUME NEW i \in 1..m, items[i] # Preview PROVE items[i].id \in Ids(was)
    BY <1>1 DEF Ids
  <2>1. PICK k \in 1..m : items[i] = was[k]  BY <1>2
  <2> QED  BY <1>1, <2>1 DEF Ids
<1>6. Ids(was) \subseteq {was[i].id : i \in 1..m}  BY <1>1 DEF Ids
<1> DEFINE a == [i \in 1..m |-> s[o + i].id]
           b == [i \in 1..m |-> was[i].id]
<1>7. Ids(was) = {s[o + i].id : i \in 1..m}
  <2>1. Different(a, m)
    <3> SUFFICES ASSUME NEW i \in 1..m, NEW k \in 1..m, s[o + i].id = s[o + k].id PROVE i = k
      BY DEF Different
    <3>1. o + i = o + k  BY <1>0, <1>4 DEF Distinct
    <3> QED  BY <1>4, <3>1
  <2>3. {s[o + i].id : i \in 1..m} \subseteq Ids(was)  BY <1>3, <1>5
  <2>4. Among(a, b, m)
    <3>1. \A i \in 1..m : s[o + i].id \in {was[k].id : k \in 1..m}  BY <1>6, <2>3
    <3> QED  BY <3>1 DEF Among
  <2>5. Among(b, a, m)
    <3> HIDE DEF a, b, m
    <3> QED  BY <1>1, <2>1, <2>4, Covers
  <2>6. {was[i].id : i \in 1..m} \subseteq {s[o + i].id : i \in 1..m}
    <3> SUFFICES ASSUME NEW k \in 1..m PROVE was[k].id \in {s[o + i].id : i \in 1..m}
      OBVIOUS
    <3>1. PICK i \in 1..m : a[i] = b[k]  BY <2>5 DEF Among
    <3>2. s[o + i].id = was[k].id  BY <3>1
    <3> QED  BY <3>2
  <2> QED  BY <1>6, <2>3, <2>6
<1>8. \A k \in 1..n : OnPage(k) <=> k - o \in 1..m  BY <1>1 DEF OnPage
<1>9. {s[o + i].id : i \in 1..m} = {s[k].id : k \in {i \in DOMAIN s : OnPage(i)}}
  <2>1. ASSUME NEW i \in 1..m PROVE o + i \in {k \in DOMAIN s : OnPage(k)}
    BY <1>0, <1>4, <1>8
  <2>2. ASSUME NEW k \in DOMAIN s, OnPage(k) PROVE k - o \in 1..m /\ o + (k - o) = k
    BY <1>0, <1>4, <1>8, <2>2
  <2> HIDE DEF s, o, m
  <2> QED  BY <2>1, <2>2
<1>10. t = [k \in 1..n |-> IF k - o \in 1..m
                           THEN CHOOSE r \in ToSet(s) : r.id = items[k - o].id ELSE s[k]]
  BY <1>0, <1>1 DEF Reordered
<1>11. IsSeq(t) /\ Len(t) = n /\ DOMAIN t = 1..n
  <2>1. t = [k \in 1..n |-> t[k]] /\ n \in Int /\ DOMAIN t = 1..n  BY <1>0, <1>10
  <2> HIDE DEF t, n
  <2>2. IsSeq(t)  BY <2>1, FunctionsAreSequences
  <2>3. Len(t) \in Nat /\ DOMAIN t = 1..Len(t)  BY <2>2, Members
  <2> QED  BY <1>0, <2>1, <2>2, <2>3
<1>12. \A k \in 1..n : ~(k - o \in 1..m) => t[k] = s[k]  BY <1>10
<1>13. ASSUME NEW k \in 1..n PROVE s[k] \in {t[i] : i \in 1..n}
  <2>1. CASE ~(k - o \in 1..m)  BY <1>12, <2>1
  <2>2. CASE k - o \in 1..m
    <3>1. o + (k - o) = k  BY <1>4
    <3>2. s[k].id \in Ids(items)  BY <1>3, <2>2, <3>1
    <3>3. PICK j \in 1..m : items[j].id = s[k].id  BY <1>1, <3>2 DEF Ids
    <3>4. t[o + j] = CHOOSE r \in ToSet(s) : r.id = items[j].id  BY <1>4, <1>10, <3>3
    <3>5. s[k] \in ToSet(s) /\ \A r \in ToSet(s) : r.id = items[j].id => r = s[k]
      BY <1>0, <3>3 DEF Distinct
    <3>6. t[o + j] = s[k]  BY <3>3, <3>4, <3>5
    <3> QED  BY <1>4, <3>6
  <2> QED  BY <2>1, <2>2
<1>14. ToSet(s) \subseteq ToSet(t)
  <2>1. ToSet(t) = {t[i] : i \in 1..n}  BY <1>11, Members
  <2> QED  BY <1>0, <1>13, <2>1
<1>15. t \in Seq(Row) /\ Distinct(t) /\ ToSet(t) = ToSet(s)
  <2> HIDE DEF t, s, n
  <2> QED  BY <1>0, <1>11, <1>14, Rearranged DEF n
<1>16. \A k \in DOMAIN s : ~OnPage(k) => t[k] = s[k]  BY <1>0, <1>8, <1>12
<1> QED  BY <1>7, <1>9, <1>15, <1>16
-----------------------------------------------------------------------------
(***************************************************************************)
(* The edits.                                                              *)
(***************************************************************************)

\* The queue list with the plan behind it.
QueueInv == ListInv /\ FilesInv(session)

\* What EditsHitWhatIsShown asks of a step.
EditAllowed == Live /\ session'.phase = "Live" => LeavesForCause /\ OrderFromScreen

\* A step that leaves the queue alone is no edit.
LEMMA NoEdit ==
    ASSUME session'.pending = session.pending
    PROVE  EditAllowed
BY DEF EditAllowed, LeavesForCause, OrderFromScreen

\* A session begins or ends, or its plan is made.
LEMMA PlanFiles ==
    ASSUME QueueInv,
           StartTransfer \/ StartCopyPlan \/ PlanBuilt \/ PublishLivePlan \/ Ends
    PROVE  FilesInv(session') /\ EditAllowed
<1>1. SessionState(session) /\ FilesInv(session)  BY DEF QueueInv, ListInv
<1>2. ASSUME NEW s, s.pending = <<>>, s.active = {}, s.next = 0 PROVE FilesInv(s)
  BY <1>2, NoFiles DEF FilesInv
<1>3. ASSUME NEW s, SessionState(s), s.active = {}, NEW n \in 0..MaxFiles, NEW d \in Data
      PROVE  FilesInv(WithFiles(s, n, d))
  <2> DEFINE q == FilesFrom(1, n, d)
             k == n + 1
  <2>1. Files(q, {}, k)  BY FilesBuilt
  <2>2. WithFiles(s, n, d) = [s EXCEPT !.pending = q, !.next = k]  BY DEF WithFiles
  <2> HIDE DEF q, k
  <2> DEFINE m == [s EXCEPT !.pending = q, !.next = k]
  <2>3. m.pending = q /\ m.next = k /\ m.active = {}  BY <1>3 DEF SessionState
  <2> HIDE DEF m
  <2>4. FilesInv(m)  BY <2>1, <2>3 DEF FilesInv
  <2> QED  BY <2>2, <2>4 DEF m
<1>4. ASSUME NEW s, SessionState(s), NEW p
      PROVE  LET m == [s EXCEPT !.phase = p] IN
             /\ SessionState(m) /\ m.phase = p /\ m.pending = s.pending
             /\ m.active = s.active /\ m.next = s.next
  BY <1>4 DEF SessionState
<1>5. /\ SessionState(NewPlan) /\ NewPlan.pending = <<>> /\ NewPlan.active = {}
      /\ NewPlan.next = 0
  <2> DEFINE x == session.plan + 1
             m == [session EXCEPT !.plan = x, !.pending = <<>>, !.active = {},
                                  !.settled = {}, !.next = 0]
  <2>1. NewPlan = m  BY DEF NewPlan
  <2> HIDE DEF x
  <2>2. m.pending = <<>> /\ m.active = {} /\ m.next = 0  BY <1>1 DEF SessionState
  <2> HIDE DEF m
  <2> QED  BY <1>1, <2>1, <2>2, NewPlanTyped
<1> HIDE DEF NewPlan
<1>6. CASE StartTransfer
  <2>1. session' = [NewPlan EXCEPT !.phase = "Planning"] /\ session.phase = "Idle"
    BY <1>6 DEF StartTransfer
  <2>2. session'.pending = <<>> /\ session'.active = {} /\ session'.next = 0
    BY <1>4, <1>5, <2>1
  <2> QED  BY <1>2, <2>1, <2>2 DEF EditAllowed, Live
<1>7. CASE StartCopyPlan
  <2>1. PICK n \in 1..MaxFiles, d \in Data :
           session' = WithFiles([NewPlan EXCEPT !.phase = "Live"], n, d)
    BY <1>7 DEF StartCopyPlan
  <2>2. n \in 0..MaxFiles /\ session.phase = "Idle"
    BY <1>7, QueueListAssumption DEF StartCopyPlan
  <2> DEFINE s == [NewPlan EXCEPT !.phase = "Live"]
  <2>3. SessionState(s) /\ s.active = {}  BY <1>4, <1>5
  <2> HIDE DEF s
  <2>4. FilesInv(WithFiles(s, n, d))  BY <1>3, <2>2, <2>3
  <2> QED  BY <2>1, <2>2, <2>4 DEF EditAllowed, Live, s
<1>8. CASE PlanBuilt
  <2>1. PICK n \in 0..MaxFiles, d \in Data : session' = WithFiles(session, n, d)
    BY <1>8 DEF PlanBuilt
  <2>2. session.active = {}
    BY <1>1, <1>8, NoFiles DEF PlanBuilt, Built, FilesInv
  <2>3. FilesInv(session')  BY <1>1, <1>3, <2>1, <2>2
  <2> QED  BY <1>8, <2>3 DEF PlanBuilt, EditAllowed, Live
<1>9. CASE PublishLivePlan
  <2>1. session' = [session EXCEPT !.phase = "Live"] /\ session.phase = "Planning"
    BY <1>9 DEF PublishLivePlan
  <2>2. /\ session'.pending = session.pending /\ session'.active = session.active
        /\ session'.next = session.next
    BY <1>1, <1>4, <2>1
  <2> QED  BY <1>1, <2>1, <2>2 DEF FilesInv, EditAllowed, Live
<1>10. CASE Ends
  <2>1. session' = [session EXCEPT !.phase = "Idle", !.pending = <<>>, !.active = {},
                                   !.next = 0]
    BY <1>10 DEF Ends, NoSession
  <2>2. /\ session'.pending = <<>> /\ session'.active = {} /\ session'.next = 0
        /\ session'.phase = "Idle"
    BY <1>1, <2>1 DEF SessionState
  <2> QED  BY <1>2, <2>2 DEF EditAllowed
<1> QED  BY <1>6, <1>7, <1>8, <1>9, <1>10

\* A worker takes a file or gives it back, an item gets its result, and the
\* planner appends a file.
LEMMA WorkerFiles ==
    ASSUME QueueInv, AcquireNext \/ ReleaseActive \/ Settles \/ AppendPlan
    PROVE  FilesInv(session') /\ EditAllowed
<1> DEFINE p == session.pending
           a == session.active
           k == session.next
<1>1. SessionState(session) /\ Files(p, a, k)  BY DEF QueueInv, ListInv, FilesInv
<1>2. p \in Seq(Row) /\ Distinct(p) /\ Ids(p) = {r.id : r \in ToSet(p)}
  BY <1>1, IdsOf DEF Files
<1>3. ASSUME NEW q, NEW b, NEW x, Files(q, b, x)
      PROVE  Ids(q) = {r.id : r \in ToSet(q)}
  BY <1>3, IdsOf DEF Files
<1>4. CASE AcquireNext
  <2> DEFINE t == Tail(p)
             e == Head(p)
             b == a \cup {e}
  <2>1. p # <<>> /\ session' = [session EXCEPT !.pending = t, !.active = b]
    BY <1>4 DEF AcquireNext
  <2>2. Files(t, b, k)  BY <1>1, <2>1, FilesTaken
  <2>3. ToSet(p) = ToSet(t) \cup {e} /\ \A r \in ToSet(t) : r.id # e.id
    BY <1>2, <2>1, Shrunk
  <2>4. e \in b  OBVIOUS
  <2> HIDE DEF t, e, b
  <2>5. session'.pending = t /\ session'.active = b /\ session'.next = k
    BY <1>1, <2>1 DEF SessionState
  <2>6. Ids(t) = {r.id : r \in ToSet(t)}  BY <1>3, <2>2
  <2> HIDE DEF p, a, k
  <2>7. e.id \in Ids(p) /\ e.id \notin Ids(t) /\ \A id \in Ids(p) \ Ids(t) : id = e.id
    BY <1>2, <2>3, <2>6
  <2>8. LeavesForCause  BY <2>4, <2>5, <2>7 DEF LeavesForCause, p
  <2>9. OrderFromScreen  BY <2>5, <2>7 DEF OrderFromScreen, p
  <2> QED  BY <2>2, <2>5, <2>8, <2>9 DEF FilesInv, EditAllowed
<1>5. CASE ReleaseActive
  <2>1. PICK r \in session.active, d \in Data :
           session' = [session EXCEPT !.pending = <<[r EXCEPT !.data = d]>> \o @,
                                      !.active = @ \ {r}]
    BY <1>5 DEF ReleaseActive
  <2> DEFINE e == [r EXCEPT !.data = d]
             t == <<e>> \o p
             b == a \ {r}
  <2>2. session' = [session EXCEPT !.pending = t, !.active = b]  BY <2>1
  <2>3. r \in Row  BY <1>1 DEF Files
  <2>4. e \in Row /\ e.id = r.id  BY <2>3 DEF Row
  <2> HIDE DEF e
  <2>5. Files(t, b, k) /\ ToSet(t) = ToSet(p) \cup {e} /\ \A q \in ToSet(p) : q.id # e.id
    BY <1>1, <2>4, FilesReturned
  <2> HIDE DEF t, b
  <2>6. session'.pending = t /\ session'.active = b /\ session'.next = k
    BY <1>1, <2>2 DEF SessionState
  <2>7. Ids(t) = {q.id : q \in ToSet(t)}  BY <1>3, <2>5
  <2> HIDE DEF p, a, k
  <2>8. Ids(p) \subseteq Ids(t) /\ e.id \in Ids(t) /\ e.id \notin Ids(p)
    BY <1>2, <2>5, <2>7
  <2>9. LeavesForCause  BY <2>6, <2>8 DEF LeavesForCause, p
  <2>10. OrderFromScreen  BY <2>6, <2>8 DEF OrderFromScreen, p
  <2> QED  BY <2>5, <2>6, <2>9, <2>10 DEF FilesInv, EditAllowed
<1>6. CASE AppendPlan
  <2> DEFINE e == [id |-> k, data |-> CHOOSE d \in Data : TRUE]
             t == Append(p, e)
             n == k + 1
  <2>1. session' = [session EXCEPT !.pending = t, !.next = n] /\ k # 0 /\ k <= MaxFiles
    BY <1>6 DEF AppendPlan, Append1, Built
  <2>2. e \in Row /\ e.id = k
    <3>1. k \in 1..MaxFiles  BY <1>1, <2>1, QueueListAssumption DEF Files
    <3>2. (CHOOSE d \in Data : TRUE) \in Data  BY QueueListAssumption
    <3> HIDE DEF k
    <3> QED  BY <3>1, <3>2 DEF Row
  <2> HIDE DEF e
  <2>5. Files(t, a, n) /\ ToSet(t) = ToSet(p) \cup {e} /\ \A q \in ToSet(p) : q.id # e.id
    BY <1>1, <2>2, FilesAppended
  <2> HIDE DEF t, n
  <2>6. session'.pending = t /\ session'.active = a /\ session'.next = n
    BY <1>1, <2>1 DEF SessionState
  <2>7. Ids(t) = {q.id : q \in ToSet(t)}  BY <1>3, <2>5
  <2> HIDE DEF p, a, k
  <2>8. Ids(p) \subseteq Ids(t) /\ e.id \in Ids(t) /\ e.id \notin Ids(p)
    BY <1>2, <2>5, <2>7
  <2>9. LeavesForCause  BY <2>6, <2>8 DEF LeavesForCause, p
  <2>10. OrderFromScreen  BY <2>6, <2>8 DEF OrderFromScreen, p
  <2> QED  BY <2>5, <2>6, <2>9, <2>10 DEF FilesInv, EditAllowed
<1>7. ASSUME NEW r \in session.active,
             session' = [session EXCEPT !.active = @ \ {r}, !.settled = @ \cup {r.id}]
      PROVE  FilesInv(session') /\ EditAllowed
  <2> DEFINE b == a \ {r}
             z == session.settled \cup {r.id}
  <2>1. session' = [session EXCEPT !.active = b, !.settled = z]  BY <1>7
  <2>2. Files(p, b, k)  BY <1>1, <1>2, FilesFewer
  <2> HIDE DEF b, z
  <2>3. session'.pending = p /\ session'.active = b /\ session'.next = k
    BY <1>1, <2>1 DEF SessionState
  <2> QED  BY <2>2, <2>3, NoEdit DEF FilesInv
<1>8. ASSUME NEW id,
             session' = [session EXCEPT !.settled = @ \cup {id}, !.pending = Without(@, {id})]
      PROVE  FilesInv(session') /\ EditAllowed
  <2> DEFINE t == Without(p, {id})
             z == session.settled \cup {id}
  <2>1. session' = [session EXCEPT !.settled = z, !.pending = t]  BY <1>8
  <2>2. /\ t \in Seq(Row) /\ Distinct(t)
        /\ ToSet(t) = {r \in ToSet(p) : r.id \notin {id}}
        /\ (\A r \in ToSet(p) : r.id \notin {id}) => t = p
    BY <1>2, WithoutLeaves
  <2>3. id \in z  OBVIOUS
  <2> HIDE DEF t, z
  <2>4. /\ session'.pending = t /\ session'.active = a /\ session'.next = k
        /\ session'.settled = z
    BY <1>1, <2>1 DEF SessionState
  <2>5. Files(t, a, k)  BY <1>1, <2>2, FilesFewer
  <2>6. Ids(t) = {r.id : r \in ToSet(t)}  BY <1>3, <2>5
  <2> HIDE DEF p, a, k
  <2>7. \A x \in Ids(p) \ Ids(t) : x = id  BY <1>2, <2>2, <2>6
  <2>8. Ids(p) = Ids(t) => t = p  BY <1>2, <2>2, <2>6
  <2>9. LeavesForCause  BY <2>3, <2>4, <2>7 DEF LeavesForCause, p
  <2>10. OrderFromScreen  BY <2>4, <2>8 DEF OrderFromScreen, p
  <2> QED  BY <2>4, <2>5, <2>9, <2>10 DEF FilesInv, EditAllowed
<1>9. CASE Settles  BY <1>7, <1>8, <1>9 DEF Settles
<1> QED  BY <1>4, <1>5, <1>6, <1>9

\* What is selected in a list that is shown at rest is among its rows.
LEMMA ChosenIsShown ==
    ASSUME ListInv, list.expanded, list.drag = None
    PROVE  Chosen = list.selected
<1>1. list.selected \subseteq Ids(list.items)
  BY DEF ListInv, UpToDate, MatchesOrRebuilds, Rest, Match
<1> QED  BY <1>1 DEF Chosen

\* Another order of the same files, which the screen accounts for.
LEMMA QueueReordered ==
    ASSUME QueueInv, NEW q \in Seq(Row), Distinct(q), ToSet(q) = ToSet(session.pending),
           session' = [session EXCEPT !.pending = q]
    PROVE  /\ FilesInv(session') /\ LeavesForCause
           /\ session'.pending = q
<1>1. SessionState(session) /\ Files(session.pending, session.active, session.next)
  BY DEF QueueInv, ListInv, FilesInv
<1>2. /\ session'.pending = q /\ session'.active = session.active
      /\ session'.next = session.next
  BY <1>1 DEF SessionState
<1>3. Files(q, session.active, session.next)  BY <1>1, FilesFewer
<1>4. Ids(session.pending) = {r.id : r \in ToSet(session.pending)}
      /\ Ids(q) = {r.id : r \in ToSet(q)}
  BY <1>1, IdsOf DEF Files
<1>5. Ids(session.pending) = Ids(q)  BY <1>4
<1> QED  BY <1>2, <1>3, <1>5 DEF FilesInv, LeavesForCause

\* The selected files are moved.
LEMMA MovedFiles ==
    ASSUME QueueInv, MovesSelected
    PROVE  FilesInv(session') /\ EditAllowed
<1> DEFINE p == session.pending
           c == list.selected
<1>1. p \in Seq(Row) /\ Distinct(p) /\ IsSeq(p)
  BY RowsAreIsSeq DEF QueueInv, FilesInv, Files
<1>2. Chosen = c  BY ChosenIsShown DEF QueueInv, MovesSelected, Editable
<1>3. PICK q \in {MovedUp(p, c), MovedDown(p, c)} :
         session' = [session EXCEPT !.pending = q]
  BY DEF MovesSelected
<1>4. (Ids(p) \ c) \cap c = {}  OBVIOUS
<1>5. IsSeq(q) /\ SameOrder(p, q, c) /\ SameOrder(p, q, Ids(p) \ c)
  <2> HIDE DEF p, c
  <2>1. CASE q = MovedUp(p, c)  BY <1>1, <1>4, <2>1, MovedUpOrders
  <2>2. CASE q = MovedDown(p, c)  BY <1>1, <1>4, <2>2, MovedDownOrders
  <2> QED  BY <1>3, <2>1, <2>2
<1>6. Len(q) = Len(p) /\ ToSet(p) \subseteq ToSet(q)
  <2> HIDE DEF p, c
  <2> QED  BY <1>1, <1>5, OrdersCover
<1>7. q \in Seq(Row) /\ Distinct(q) /\ ToSet(q) = ToSet(p)
  BY <1>1, <1>5, <1>6, Rearranged
<1>8. FilesInv(session') /\ LeavesForCause /\ session'.pending = q
  BY <1>3, <1>7, QueueReordered
<1>9. OrderFromScreen  BY <1>2, <1>5, <1>8 DEF OrderFromScreen
<1> QED  BY <1>8, <1>9 DEF EditAllowed

\* The selected files are removed.
LEMMA RemovedFiles ==
    ASSUME QueueInv, RemovesSelected
    PROVE  FilesInv(session') /\ EditAllowed
<1> DEFINE p == session.pending
           c == list.selected
           t == Without(p, c)
<1>1. SessionState(session) /\ Files(p, session.active, session.next)
  BY DEF QueueInv, ListInv, FilesInv
<1>2. Chosen = c  BY ChosenIsShown DEF QueueInv, RemovesSelected, Editable
<1>3. session' = [session EXCEPT !.pending = t] \/ Ends  BY DEF RemovesSelected
<1>4. CASE Ends  BY <1>4, PlanFiles
<1>5. CASE session' = [session EXCEPT !.pending = t]
  <2>1. /\ t \in Seq(Row) /\ Distinct(t) /\ ToSet(t) = {r \in ToSet(p) : r.id \notin c}
        /\ (\A r \in ToSet(p) : r.id \notin c) => t = p
    BY <1>1, WithoutLeaves DEF Files
  <2> HIDE DEF t
  <2>2. /\ session'.pending = t /\ session'.active = session.active
        /\ session'.next = session.next
    BY <1>1, <1>5 DEF SessionState
  <2>3. Files(t, session.active, session.next)  BY <1>1, <2>1, FilesFewer
  <2>4. Ids(p) = {r.id : r \in ToSet(p)} /\ Ids(t) = {r.id : r \in ToSet(t)}
    BY <1>1, <2>1, IdsOf DEF Files
  <2> HIDE DEF p, c
  <2>5. \A x \in Ids(p) \ Ids(t) : x \in c  BY <2>1, <2>4
  <2>6. Ids(p) = Ids(t) => t = p  BY <2>1, <2>4
  <2>7. LeavesForCause  BY <1>2, <2>2, <2>5 DEF LeavesForCause, p
  <2>8. OrderFromScreen  BY <2>2, <2>6 DEF OrderFromScreen, p
  <2> QED  BY <2>2, <2>3, <2>7, <2>8 DEF FilesInv, EditAllowed
<1> QED  BY <1>3, <1>4, <1>5

\* A drag ends.
LEMMA DraggedFiles ==
    ASSUME QueueInv, DragCompletes
    PROVE  FilesInv(session') /\ EditAllowed
<1>1. SessionState(session) /\ Files(session.pending, session.active, session.next)
      /\ list.offset \in Nat /\ IsSeq(list.items)
  BY DEF QueueInv, ListInv, FilesInv, ListState
<1>2. PICK items \in Permuted(list.items) : DragCompleted(items)  BY DEF DragCompletes
<1>3. CASE session' = session
  BY <1>1, <1>3, NoEdit DEF FilesInv
<1>4. CASE /\ SamePlan /\ SamePage(items)
           /\ session' = [session EXCEPT !.pending = Reordered(items)]
  <2> DEFINE q == Reordered(items)
             s == session.pending
  <2>1. /\ q \in Seq(Row) /\ Distinct(q) /\ ToSet(q) = ToSet(s)
        /\ Ids(list.items) = {s[k].id : k \in {i \in DOMAIN s : OnPage(i)}}
        /\ \A k \in DOMAIN s : ~OnPage(k) => q[k] = s[k]
    BY <1>1, <1>4, ReorderedPage
  <2>2. session' = [session EXCEPT !.pending = q]  BY <1>4
  <2> HIDE DEF q
  <2>3. FilesInv(session') /\ LeavesForCause /\ session'.pending = q
    BY <2>1, <2>2, QueueReordered
  <2>4. list.drag = session.plan  BY <1>4 DEF SamePlan
  <2>5. OrderFromScreen  BY <2>1, <2>3, <2>4 DEF OrderFromScreen
  <2> QED  BY <2>3, <2>5 DEF EditAllowed
<1> QED  BY <1>2, <1>3, <1>4 DEF DragCompleted

\* Every step leaves the files of the plan in order, and is allowed.
LEMMA QueueStep == QueueInv /\ [Next]_vars => FilesInv(session') /\ EditAllowed
<1> SUFFICES ASSUME QueueInv, [Next]_vars PROVE FilesInv(session') /\ EditAllowed
  OBVIOUS
<1>1. CASE session' = session
  BY <1>1, NoEdit DEF QueueInv, FilesInv
<1>2. CASE \/ UNCHANGED vars \/ Refreshes \/ SetExpanded \/ LayoutChanges \/ Selects
           \/ PreviousPage \/ NextPage \/ KeyDown \/ DragStarts
  BY <1>1, <1>2 DEF vars, Refreshes, SetExpanded, LayoutChanges, Selects, PreviousPage,
                    NextPage, KeyDown, Turns, DragStarts
<1>3. CASE FinishCopy  BY <1>3, PlanFiles DEF FinishCopy
<1> QED
  BY <1>2, <1>3, PlanFiles, WorkerFiles, MovedFiles, RemovedFiles, DraggedFiles DEF Next
-----------------------------------------------------------------------------
(***************************************************************************)
(* The preview.                                                            *)
(***************************************************************************)

\* A list that is shown at rest has a preview only while there is a session.
Phased == Rest(list) /\ list.expanded /\ list.previewed =>
             session.phase \in {"Planning", "Live"}

\* A refresh leaves the preview of the session it looks at.
LEMMA RefreshPhases ==
    ASSUME NEW l, ListState(l), NEW s, NEW force,
           LET n == Refreshed(l, s, force) IN Rest(n) /\ n.expanded /\ n.previewed
    PROVE  s.phase \in {"Planning", "Live"}
<1> DEFINE n == Refreshed(l, s, force)
           plans == s.phase = "Planning"
           m == [l EXCEPT !.offset = 0, !.rendered = 0, !.snapshot = <<>>,
                          !.selected = {}, !.items = IF plans THEN <<Preview>> ELSE <<>>,
                          !.rebuild = FALSE, !.previewed = plans]
<1>1. SUFFICES ASSUME s.phase # "Live" PROVE plans  OBVIOUS
<1>2. ~(l.drag # None \/ ~l.expanded)
  <2> SUFFICES ASSUME l.drag # None \/ ~l.expanded PROVE FALSE  OBVIOUS
  <2>1. n = [l EXCEPT !.rebuild = @ \/ force]  BY DEF Refreshed
  <2>2. n.drag = l.drag /\ n.expanded = l.expanded  BY <2>1 DEF ListState
  <2> QED  BY <2>2 DEF Rest
<1>3. n = m  BY <1>1, <1>2 DEF Refreshed, Previewed
<1>4. m.previewed = plans
  <2> DEFINE rows == IF plans THEN <<Preview>> ELSE <<>>
  <2> HIDE DEF rows, plans
  <2> QED  BY DEF ListState, rows
<1> QED  BY <1>3, <1>4

\* Every step keeps it.
LEMMA PhasedStep == ListInv /\ Phased /\ [Next]_vars => Phased'
<1> SUFFICES ASSUME ListInv, Phased, [Next]_vars PROVE Phased'
  OBVIOUS
<1>1. ASSUME NEW l, ListState(l), NEW force, list' = Refreshed(l, session', force)
      PROVE  Phased'
  BY <1>1, RefreshPhases DEF Phased, Rest
<1>2. ListState(list)  BY DEF ListInv
<1>3. CASE StartTransfer \/ StartCopyPlan
  <2>1. ListState(Collapsed)  BY <1>2, CollapsedRebuilds
  <2> QED  BY <1>1, <1>3, <2>1 DEF StartTransfer, StartCopyPlan
<1>4. CASE Ends
  <2>1. PICK force \in BOOLEAN :
           list' = [Refreshed(list, session', force) EXCEPT !.expanded = FALSE]
    BY <1>4 DEF Ends
  <2>2. UpDated(Refreshed(list, session', force))
    <3>1. SessionState(session')  BY <1>4, NewPlanTyped DEF ListInv, Ends
    <3> QED  BY <3>1, RefreshUpDates DEF ListInv, SessionState
  <2>3. ~list'.expanded  BY <2>1, <2>2 DEF UpDated, ListState
  <2> QED  BY <2>3 DEF Phased
<1>5. CASE PlanBuilt \/ AcquireNext \/ ReleaseActive \/ Settles \/ AppendPlan
  <2>1. session'.phase = session.phase
    BY <1>5 DEF PlanBuilt, AcquireNext, ReleaseActive, Settles, AppendPlan, WithFiles,
                ListInv, SessionState
  <2> QED
    BY <1>5, <2>1 DEF PlanBuilt, AcquireNext, ReleaseActive, Settles, AppendPlan, Phased,
                      Rest
<1>6. CASE PublishLivePlan \/ Refreshes \/ LayoutChanges \/ MovesSelected
  BY <1>1, <1>2, <1>6 DEF PublishLivePlan, Refreshes, LayoutChanges, MovesSelected
<1>7. CASE PreviousPage \/ NextPage \/ KeyDown
  <2>1. PICK offset : Turns(offset)  BY <1>7 DEF PreviousPage, NextPage, KeyDown
  <2>2. list.offset \in Nat /\ PageSize \in Nat /\ Len(session.pending) \in Nat
    BY QueueListAssumption DEF ListInv, ListState, SessionState, IsSeq
  <2>3. session'.phase = session.phase  BY <2>1 DEF Turns
  <2>4. session.phase = "Live"  BY <1>7 DEF PreviousPage, NextPage, KeyDown, Editable, Live
  <2> QED  BY <2>3, <2>4 DEF Phased
<1>8. CASE RemovesSelected
  BY <1>1, <1>2, <1>4, <1>8 DEF RemovesSelected
<1>9. CASE SetExpanded
  <2>1. PICK shown \in BOOLEAN \ {list.expanded} :
           list' = IF shown THEN Refreshed([list EXCEPT !.expanded = shown], session, FALSE)
                            ELSE [list EXCEPT !.expanded = shown]
    BY <1>9 DEF SetExpanded
  <2>2. ListState([list EXCEPT !.expanded = shown])  BY <1>2 DEF ListState
  <2>3. CASE shown  BY <1>1, <1>9, <2>1, <2>2, <2>3 DEF SetExpanded
  <2>4. CASE ~shown
    <3>1. ~list'.expanded  BY <1>2, <2>1, <2>4 DEF ListState
    <3> QED  BY <3>1 DEF Phased
  <2> QED  BY <2>3, <2>4
<1>10. CASE Selects \/ DragStarts
  <2>1. /\ list.drag = None /\ list'.expanded = list.expanded
        /\ list'.previewed = list.previewed /\ session' = session
    BY <1>2, <1>10 DEF Selects, DragStarts, ListState
  <2> QED  BY <2>1 DEF Phased, Rest
<1>11. CASE DragCompletes
  <2>1. PICK items \in Permuted(list.items) : DragCompleted(items)
    BY <1>11 DEF DragCompletes
  <2> DEFINE l == [list EXCEPT !.drag = None, !.items = items, !.rebuild = FALSE]
             k == [l EXCEPT !.rebuild = TRUE]
  <2>2. IsSeq(items)
    <3>1. DOMAIN list.items = 1..Len(list.items) /\ Len(list.items) \in Int
      BY DEF ListInv, ListState, IsSeq
    <3>2. items = [i \in 1..Len(list.items) |-> items[i]]  BY <2>1, <3>1 DEF Permuted
    <3> QED  BY <3>1, <3>2, FunctionsAreSequences
  <2>3. ListState(l)  BY <2>2 DEF ListInv, ListState
  <2>4. ListState(k)  BY <2>2 DEF ListInv, ListState
  <2>5. CASE ~SamePlan
    <3>1. list' = Refreshed(k, session', list.rebuild)  BY <2>1, <2>5 DEF DragCompleted
    <3> HIDE DEF k
    <3> QED  BY <1>1, <2>4, <3>1
  <2>6. CASE SamePlan
    <3>1. list' = Refreshed(l, session', TRUE)  BY <2>1, <2>6 DEF DragCompleted
    <3> HIDE DEF l
    <3> QED  BY <1>1, <2>3, <3>1
  <2> QED  BY <2>5, <2>6
<1>12. CASE UNCHANGED vars  BY <1>12 DEF vars, Phased, Rest
<1> QED
  BY <1>3, <1>4, <1>5, <1>6, <1>7, <1>8, <1>9, <1>10, <1>11, <1>12 DEF Next, FinishCopy
-----------------------------------------------------------------------------
\* The rows match the snapshot or a rebuild is asked for, in every reachable
\* state: the invariant of the queue list.
THEOREM ListInvariance == Spec => []ListInv
<1>1. Init => ListInv
  <2>1. IsSeq(<<>>) /\ ToSet(<<>>) = {}  BY DEF IsSeq, ToSet
  <2> QED
    BY <2>1 DEF Init, ListInv, SessionState, ListState, MatchesOrRebuilds, UpToDate,
                Match, Rest
<1> QED  BY <1>1, ListStep, PTL DEF Spec

\* The rows of a list that is shown at rest are the snapshot that selections and
\* drags are checked against, or nothing but the preview of a plan: one that is
\* being built, or one in which no refresh has found a file yet, although it is
\* published (MainWindow.Queue.cpp, RefreshQueue()).
THEOREM RowsAreSnapshot == Spec => []ListShowsSnapshot
<1>1. ListInv /\ Phased => ListShowsSnapshot
  BY DEF ListInv, MatchesOrRebuilds, UpToDate, Match, OnlyPreview, Rest, Phased,
         ListShowsSnapshot, StalePreview
<1>2. Init => Phased  BY DEF Init, Phased
<1>3. Spec => []Phased
  BY <1>2, PhasedStep, ListInvariance, PTL DEF Spec
<1> QED  BY <1>1, <1>3, ListInvariance, PTL

\* The list and the files of the plan it is about, in every reachable state: no
\* id is queued twice, or queued and taken by a worker, so that an id that the
\* window keeps names one file of the plan.
THEOREM QueueInvariance == Spec => []QueueInv
<1>1. Init => QueueInv
  <2>1. Init => ListInv
    <3>1. IsSeq(<<>>) /\ ToSet(<<>>) = {}  BY DEF IsSeq, ToSet
    <3> QED
      BY <3>1 DEF Init, ListInv, SessionState, ListState, MatchesOrRebuilds, UpToDate,
                  Match, Rest
  <2>2. Init => FilesInv(session)  BY NoFiles DEF Init, FilesInv
  <2> QED  BY <2>1, <2>2 DEF QueueInv
<1>2. QueueInv /\ [Next]_vars => QueueInv'
  <2>1. QueueInv /\ [Next]_vars => FilesInv(session)'  BY QueueStep DEF FilesInv
  <2>2. QueueInv /\ [Next]_vars => ListInv'  BY ListStep DEF QueueInv
  <2> QED  BY <2>1, <2>2 DEF QueueInv
<1> QED  BY <1>1, <1>2, PTL DEF Spec

\* What leaves the queue or changes places there was chosen from what the window
\* showed, or is accounted for by a worker (MainWindow.Queue.cpp and the edits of
\* live_copy_plan.cpp).
THEOREM EditsReachTheShown == Spec => EditsHitWhatIsShown
<1> DEFINE A == Live /\ session'.phase = "Live" => LeavesForCause /\ OrderFromScreen
<1>1. QueueInv /\ [Next]_vars => [A]_vars  BY QueueStep DEF EditAllowed
<1>2. Spec => [][A]_vars
  <2> HIDE DEF A
  <2> QED  BY <1>1, QueueInvariance, PTL DEF Spec
<1> QED  BY <1>2 DEF EditsHitWhatIsShown
=============================================================================
