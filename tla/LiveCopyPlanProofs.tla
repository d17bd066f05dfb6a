------------------------- MODULE LiveCopyPlanProofs -------------------------
EXTENDS LiveCopyPlan, TLAPS, SequenceTheorems, FiniteSetTheorems

-----------------------------------------------------------------------------
(***************************************************************************)
(* Lemmas about the sequence operations of the queue: each says which ids  *)
(* are queued afterwards and that none is queued twice.                    *)
(***************************************************************************)

\* Putting a file that is not queued at the front (release_active, unpark).
LEMMA PrependKeeps ==
    ASSUME NEW S, NEW s \in Seq(S), NEW x \in S, x \notin Range(s), IsInjective(s)
    PROVE  /\ <<x>> \o s \in Seq(S)
           /\ Range(<<x>> \o s) = {x} \cup Range(s)
           /\ IsInjective(<<x>> \o s)
<1>1. <<x>> \in Seq(S) /\ Len(<<x>>) = 1 /\ <<x>>[1] = x /\ Len(s) \in Nat
    OBVIOUS
<1>2. /\ <<x>> \o s \in Seq(S)
      /\ Len(<<x>> \o s) = 1 + Len(s)
      /\ DOMAIN (<<x>> \o s) = 1..(1 + Len(s))
      /\ \A i \in 1..(1 + Len(s)) :
            (<<x>> \o s)[i] = IF i <= 1 THEN <<x>>[i] ELSE s[i - 1]
    BY <1>1, ConcatProperties, LenProperties
<1>3. Range(<<x>> \o s) = {x} \cup Range(s)
    <2>1. Range(<<x>>) = {x} BY <1>1 DEF Range
    <2>2. <<x>> \in Seq(S) BY <1>1
    <2>3. Range(<<x>> \o s) = Range(<<x>>) \cup Range(s)
        BY ZenonT(30), <2>2, RangeConcatenation
    <2>4. QED BY <2>1, <2>3
<1>4. IsInjective(<<x>> \o s)
    <2>1. DOMAIN s = 1..Len(s) BY LenProperties
    <2>2. SUFFICES ASSUME NEW i \in 1..(1 + Len(s)), NEW j \in 1..(1 + Len(s)),
                          (<<x>> \o s)[i] = (<<x>> \o s)[j], i # j
                   PROVE  FALSE
        BY <1>2 DEF IsInjective
    <2>3. CASE i = 1
        <3>1. s[j - 1] = x /\ j - 1 \in DOMAIN s BY <1>1, <1>2, <2>1, <2>2, <2>3
        <3>2. QED BY <3>1 DEF Range
    <2>4. CASE j = 1
        <3>1. s[i - 1] = x /\ i - 1 \in DOMAIN s BY <1>1, <1>2, <2>1, <2>2, <2>4
        <3>2. QED BY <3>1 DEF Range
    <2>5. CASE i # 1 /\ j # 1
        <3>1. /\ s[i - 1] = s[j - 1]
              /\ i - 1 \in DOMAIN s
              /\ j - 1 \in DOMAIN s
              /\ i - 1 # j - 1
            BY <1>1, <1>2, <2>1, <2>2, <2>5
        <3>2. QED BY <3>1 DEF IsInjective
    <2>6. QED BY <2>3, <2>4, <2>5
<1>5. QED BY <1>2, <1>3, <1>4

\* Taking the front file (acquire_next).
LEMMA TailKeeps ==
    ASSUME NEW S, NEW s \in Seq(S), s # <<>>, IsInjective(s)
    PROVE  /\ Head(s) \in Range(s)
           /\ Tail(s) \in Seq(S)
           /\ Range(Tail(s)) = Range(s) \ {Head(s)}
           /\ IsInjective(Tail(s))
<1>1. /\ Len(s) \in Nat \ {0}
      /\ DOMAIN s = 1..Len(s)
      /\ Head(s) = s[1]
    BY LenProperties, EmptySeq
<1>2. /\ Tail(s) \in Seq(S)
      /\ Len(Tail(s)) = Len(s) - 1
      /\ DOMAIN Tail(s) = 1..(Len(s) - 1)
      /\ \A i \in 1..(Len(s) - 1) : Tail(s)[i] = s[i + 1]
    BY HeadTailProperties, LenProperties
<1>3. Head(s) \in Range(s) BY <1>1 DEF Range
<1>4. Range(Tail(s)) \subseteq Range(s) \ {Head(s)}
    <2>1. SUFFICES ASSUME NEW i \in 1..(Len(s) - 1)
                   PROVE  Tail(s)[i] \in Range(s) \ {Head(s)}
        BY <1>2 DEF Range
    <2>2. i + 1 \in DOMAIN s /\ i + 1 # 1 /\ 1 \in DOMAIN s BY <1>1
    <2>3. s[i + 1] # s[1] BY <2>2 DEF IsInjective
    <2>4. QED BY <1>1, <1>2, <2>2, <2>3 DEF Range
<1>5. Range(s) \ {Head(s)} \subseteq Range(Tail(s))
    <2>1. SUFFICES ASSUME NEW i \in 1..Len(s), s[i] # s[1]
                   PROVE  s[i] \in Range(Tail(s))
        BY <1>1 DEF Range
    <2>2. i - 1 \in 1..(Len(s) - 1) /\ Tail(s)[i - 1] = s[i]
        BY <1>1, <1>2, <2>1
    <2>3. QED BY <1>2, <2>2 DEF Range
<1>6. IsInjective(Tail(s))
    <2>1. SUFFICES ASSUME NEW i \in 1..(Len(s) - 1), NEW j \in 1..(Len(s) - 1),
                          Tail(s)[i] = Tail(s)[j]
                   PROVE  i = j
        BY <1>2 DEF IsInjective
    <2>2. i + 1 \in DOMAIN s /\ j + 1 \in DOMAIN s /\ s[i + 1] = s[j + 1]
        BY <1>1, <1>2, <2>1
    <2>3. i + 1 = j + 1 BY <2>2 DEF IsInjective
    <2>4. QED BY <2>3
<1>7. QED BY <1>2, <1>3, <1>4, <1>5, <1>6

\* Reordering the queue through a bijection of its positions.
LEMMA PermuteKeeps ==
    ASSUME NEW S, NEW s \in Seq(S), IsInjective(s),
           NEW p \in Bijection(DOMAIN s, DOMAIN s)
    PROVE  LET t == [i \in DOMAIN s |-> s[p[i]]] IN
           /\ t \in Seq(S)
           /\ Range(t) = Range(s)
           /\ IsInjective(t)
<1> DEFINE t == [i \in DOMAIN s |-> s[p[i]]]
<1>1. /\ Len(s) \in Nat
      /\ DOMAIN s = 1..Len(s)
      /\ \A i \in DOMAIN s : s[i] \in S
    BY LenProperties
<1>2. /\ p \in [DOMAIN s -> DOMAIN s]
      /\ \A a, b \in DOMAIN s : p[a] = p[b] => a = b
      /\ \A k \in DOMAIN s : \E i \in DOMAIN s : p[i] = k
    BY DEF Bijection, Injection, Surjection, IsInjective
<1>3. t \in Seq(S) BY <1>1, <1>2
<1>4. Range(t) = Range(s) BY <1>2 DEF Range
<1>5. IsInjective(t) BY <1>2 DEF IsInjective
<1>6. QED BY <1>3, <1>4, <1>5

\* Adding the files of an append at the back.
LEMMA ConcatKeeps ==
    ASSUME NEW S, NEW s \in Seq(S), NEW t \in Seq(S), IsInjective(s), IsInjective(t),
           Range(s) \cap Range(t) = {}
    PROVE  /\ s \o t \in Seq(S)
           /\ Range(s \o t) = Range(s) \cup Range(t)
           /\ IsInjective(s \o t)
<1>1. /\ Len(s) \in Nat /\ DOMAIN s = 1..Len(s)
      /\ Len(t) \in Nat /\ DOMAIN t = 1..Len(t)
    BY LenProperties
<1>2. /\ s \o t \in Seq(S)
      /\ Len(s \o t) = Len(s) + Len(t)
      /\ DOMAIN (s \o t) = 1..(Len(s) + Len(t))
      /\ \A i \in 1..(Len(s) + Len(t)) :
            (s \o t)[i] = IF i <= Len(s) THEN s[i] ELSE t[i - Len(s)]
    BY ConcatProperties, LenProperties
<1>3. Range(s \o t) = Range(s) \cup Range(t) BY RangeConcatenation
<1>4. IsInjective(s \o t)
    <2>1. SUFFICES ASSUME NEW i \in 1..(Len(s) + Len(t)),
                          NEW j \in 1..(Len(s) + Len(t)),
                          (s \o t)[i] = (s \o t)[j]
                   PROVE  i = j
        BY <1>2 DEF IsInjective
    <2>2. CASE i <= Len(s) /\ j <= Len(s)
        <3>1. i \in DOMAIN s /\ j \in DOMAIN s /\ s[i] = s[j]
            BY <1>1, <1>2, <2>1, <2>2
        <3>2. QED BY <3>1 DEF IsInjective
    <2>3. CASE i > Len(s) /\ j > Len(s)
        <3>1. /\ i - Len(s) \in DOMAIN t /\ j - Len(s) \in DOMAIN t
              /\ t[i - Len(s)] = t[j - Len(s)]
            BY <1>1, <1>2, <2>1, <2>3
        <3>2. i - Len(s) = j - Len(s) BY <3>1 DEF IsInjective
        <3>3. QED BY <1>1, <3>2
    <2>4. CASE i <= Len(s) /\ j > Len(s)
        <3>1. i \in DOMAIN s /\ j - Len(s) \in DOMAIN t /\ s[i] = t[j - Len(s)]
            BY <1>1, <1>2, <2>1, <2>4
        <3>2. QED BY <3>1 DEF Range
    <2>5. CASE i > Len(s) /\ j <= Len(s)
        <3>1. j \in DOMAIN s /\ i - Len(s) \in DOMAIN t /\ s[j] = t[i - Len(s)]
            BY <1>1, <1>2, <2>1, <2>5
        <3>2. QED BY <3>1 DEF Range
    <2>6. QED BY <1>1, <2>2, <2>3, <2>4, <2>5
<1>5. QED BY <1>2, <1>3, <1>4

\* Erasing a set of files from the queue.
LEMMA DropKeeps ==
    ASSUME NEW S, NEW T, pending \in Seq(S), IsInjective(pending), DropFromPending(T)
    PROVE  /\ pending' \in Seq(S)
           /\ Range(pending') = Range(pending) \ T
           /\ IsInjective(pending')
<1> DEFINE kept == {i \in DOMAIN pending : pending[i] \notin T}
           n == Cardinality(kept)
<1>1. /\ Len(pending) \in Nat
      /\ DOMAIN pending = 1..Len(pending)
      /\ \A i \in DOMAIN pending : pending[i] \in S
    BY LenProperties
<1>2. IsFiniteSet(kept) /\ n \in Nat
    <2>1. IsFiniteSet(1..Len(pending)) BY <1>1, FS_Interval
    <2>2. IsFiniteSet(kept) BY <1>1, <2>1, FS_Subset
    <2>3. QED BY <2>2, FS_CardinalityType
<1>3. PICK f \in [1..n -> kept] :
        /\ \A i, j \in 1..n : i < j => f[i] < f[j]
        /\ \A k \in kept : \E i \in 1..n : f[i] = k
        /\ pending' = [i \in 1..n |-> pending[f[i]]]
    BY DEF DropFromPending, Survivors
<1> HIDE DEF n
<1>4. pending' \in Seq(S) BY <1>1, <1>2, <1>3
<1>5. Range(pending') = Range(pending) \ T
    <2>1. Range(pending') = {pending[f[i]] : i \in 1..n} BY <1>3 DEF Range
    <2>2. \A i \in 1..n : f[i] \in DOMAIN pending /\ pending[f[i]] \notin T
        BY <1>3
    <2>3. \A k \in DOMAIN pending :
            pending[k] \notin T => \E i \in 1..n : f[i] = k
        BY <1>3
    <2>4. QED BY <2>1, <2>2, <2>3 DEF Range
<1>6. IsInjective(pending')
    <2>1. SUFFICES ASSUME NEW i \in 1..n, NEW j \in 1..n,
                          pending[f[i]] = pending[f[j]], i # j
                   PROVE  FALSE
        BY <1>3 DEF IsInjective
    <2>2. f[i] \in DOMAIN pending /\ f[j] \in DOMAIN pending BY <1>3
    <2>3. f[i] = f[j] BY <2>1, <2>2 DEF IsInjective
    <2>4. i < j \/ j < i BY <1>2, <2>1
    <2>5. f[i] < f[j] \/ f[j] < f[i] BY <1>3, <2>4
    <2>6. QED BY <1>1, <2>2, <2>3, <2>5
<1>7. QED BY <1>4, <1>5, <1>6
-----------------------------------------------------------------------------
(***************************************************************************)
(* Sums.                                                                   *)
(* A sum over a finite set is a fold, so what it is for every set          *)
(* needs an induction over sets.  It is made here in the form of a         *)
(* smallest counterexample: a set of subsets of a finite set that is not   *)
(* empty has an element none of whose proper subsets belongs to it.        *)
(***************************************************************************)

\* The sum of f over S.
Sum(f, S) == MapThenSumSet(LAMBDA x : f[x], S)

\* The element the fold takes next.
Pick(s) == CHOOSE x \in s : TRUE

\* The sums over the subsets of S, as the fold computes them.
Sums(f, S, g) ==
    g = [s \in SUBSET S |-> IF s = {} THEN 0 ELSE f[Pick(s)] + g[s \ {Pick(s)}]]

\* What the fold takes is in the set.
LEMMA PickIn == \A s : s # {} => Pick(s) \in s
BY DEF Pick

\* A smallest counterexample.
LEMMA Smallest ==
    ASSUME NEW S, IsFiniteSet(S), NEW B \in SUBSET (SUBSET S), B # {}
    PROVE  \E T \in B : \A U \in SUBSET T : U # T => U \notin B
<1>1. IsWellFoundedOn(StrictSubsetOrdering(S), SUBSET S)
  BY FS_FiniteSubsetsOfFinite, FS_StrictSubsetOrderingWellFounded
<1>2. PICK T \in B : \A U \in B : <<U, T>> \notin StrictSubsetOrdering(S)
  BY <1>1, WFMin
<1>3. \A U \in SUBSET T : U # T => U \notin B
  <2>1. SUFFICES ASSUME NEW U \in SUBSET T, U # T, U \in B PROVE FALSE  OBVIOUS
  <2>2. <<U, T>> \in StrictSubsetOrdering(S)
    BY <2>1 DEF StrictSubsetOrdering
  <2> QED  BY <1>2, <2>1, <2>2
<1> QED  BY <1>2, <1>3

\* There is one such function of the subsets only.
LEMMA SumsUnique ==
    ASSUME NEW f, NEW S, IsFiniteSet(S), NEW g, NEW h, Sums(f, S, g), Sums(f, S, h)
    PROVE  g = h
<1> DEFINE B == {T \in SUBSET S : g[T] # h[T]}
<1>1. \A T \in SUBSET S : g[T] = h[T]
  <2>1. SUFFICES ASSUME B # {} PROVE FALSE  OBVIOUS
  <2>2. PICK T \in B : \A U \in SUBSET T : U # T => U \notin B
    <3>1. B \in SUBSET (SUBSET S)  OBVIOUS
    <3> HIDE DEF B
    <3> QED  BY <2>1, <3>1, Smallest
  <2>3. T # {}  BY <2>2 DEF Sums
  <2>4. T \ {Pick(T)} \in SUBSET T /\ T \ {Pick(T)} # T  BY <2>3, PickIn
  <2>5. g[T \ {Pick(T)}] = h[T \ {Pick(T)}]  BY <2>2, <2>4
  <2>6. /\ g[T] = f[Pick(T)] + g[T \ {Pick(T)}]
        /\ h[T] = f[Pick(T)] + h[T \ {Pick(T)}]
    BY <2>2, <2>3 DEF Sums
  <2> QED  BY <2>2, <2>5, <2>6
<1> QED  BY <1>1 DEF Sums

\* Where there is one, it gives the sum.
LEMMA SumIs ==
    ASSUME NEW f, NEW S, IsFiniteSet(S), NEW g, Sums(f, S, g)
    PROVE  Sum(f, S) = g[S]
<1> DEFINE h == CHOOSE k : Sums(f, S, k)
<1>1. Sums(f, S, h)  OBVIOUS
<1>2. Sum(f, S) = h[S]  BY DEF Sum, MapThenSumSet, MapThenFoldSet, Sums, Pick
<1> HIDE DEF h
<1> QED  BY <1>1, <1>2, SumsUnique

\* It gives the sum over the subsets too.
LEMMA SumIsWithin ==
    ASSUME NEW f, NEW S, IsFiniteSet(S), NEW g, Sums(f, S, g), NEW T \in SUBSET S
    PROVE  Sum(f, T) = g[T]
<1> DEFINE h == [s \in SUBSET T |-> g[s]]
<1>1. \A s \in SUBSET T : s \ {Pick(s)} \in SUBSET T  OBVIOUS
<1>2. Sums(f, T, h)  BY <1>1 DEF Sums
<1>3. h[T] = g[T]  OBVIOUS
<1> HIDE DEF h
<1> QED  BY <1>2, <1>3, SumIs, FS_Subset

\* So the sum over S is that of one element and the rest, as the fold says.
LEMMA SumsStep ==
    ASSUME NEW f, NEW S, IsFiniteSet(S), \E g : Sums(f, S, g)
    PROVE  Sum(f, S) = IF S = {} THEN 0 ELSE f[Pick(S)] + Sum(f, S \ {Pick(S)})
<1> PICK g : Sums(f, S, g)  OBVIOUS
<1>1. Sum(f, S) = g[S] /\ Sum(f, S \ {Pick(S)}) = g[S \ {Pick(S)}]  BY SumIsWithin
<1> QED  BY <1>1 DEF Sums

\* And there always is one: a smallest set that has none would get it from
\* the sums over its own subsets.
LEMMA SumsExist ==
    ASSUME NEW f, NEW S, IsFiniteSet(S)
    PROVE  \E g : Sums(f, S, g)
<1> DEFINE B == {T \in SUBSET S : ~ \E g : Sums(f, T, g)}
<1>1. SUFFICES ASSUME B # {} PROVE FALSE  OBVIOUS
<1>2. PICK T \in B : \A U \in SUBSET T : U # T => U \notin B
  <2>1. B \in SUBSET (SUBSET S)  OBVIOUS
  <2> HIDE DEF B
  <2> QED  BY <1>1, <2>1, Smallest
<1>3. \A U \in SUBSET T : IsFiniteSet(U)  BY FS_Subset
<1>4. ASSUME NEW U \in SUBSET T, U # T
      PROVE  Sum(f, U) = IF U = {} THEN 0 ELSE f[Pick(U)] + Sum(f, U \ {Pick(U)})
  <2>1. \E g : Sums(f, U, g)  BY <1>2, <1>4
  <2> QED  BY <1>3, <2>1, SumsStep
<1> DEFINE g == [s \in SUBSET T |->
                   IF s = {} THEN 0 ELSE f[Pick(s)] + Sum(f, s \ {Pick(s)})]
<1>5. \A s \in SUBSET T : s # {} => s \ {Pick(s)} \in SUBSET T /\ s \ {Pick(s)} # T
  BY PickIn
<1>6. \A s \in SUBSET T : s # {} => g[s \ {Pick(s)}] = Sum(f, s \ {Pick(s)})
  BY <1>4, <1>5
<1>7. Sums(f, T, g)  BY <1>6 DEF Sums
<1> QED  BY <1>2, <1>7

\* The sum over nothing, and the next step of a sum.
LEMMA SumEmpty == \A f : Sum(f, {}) = 0
BY FS_EmptySet, SumsExist, SumsStep

LEMMA SumStep ==
    ASSUME NEW f, NEW S, IsFiniteSet(S), S # {}
    PROVE  Sum(f, S) = f[Pick(S)] + Sum(f, S \ {Pick(S)})
BY SumsExist, SumsStep

\* A sum of natural numbers is one.
LEMMA SumNat ==
    ASSUME NEW f, NEW S, IsFiniteSet(S), \A x \in S : f[x] \in Nat
    PROVE  Sum(f, S) \in Nat
<1> DEFINE B == {T \in SUBSET S : Sum(f, T) \notin Nat}
<1>1. SUFFICES ASSUME B # {} PROVE FALSE  OBVIOUS
<1>2. PICK T \in B : \A U \in SUBSET T : U # T => U \notin B
  <2>1. B \in SUBSET (SUBSET S)  OBVIOUS
  <2> HIDE DEF B
  <2> QED  BY <1>1, <2>1, Smallest
<1>3. IsFiniteSet(T) /\ T # {}  BY <1>2, FS_Subset, SumEmpty
<1>4. Pick(T) \in T /\ T \ {Pick(T)} \in SUBSET T /\ T \ {Pick(T)} # T
  BY <1>3, PickIn
<1>5. Sum(f, T \ {Pick(T)}) \in Nat /\ f[Pick(T)] \in Nat  BY <1>2, <1>4
<1> QED  BY <1>2, <1>3, <1>5, SumStep

\* Any element may be taken first.
LEMMA SumTakes ==
    ASSUME NEW f, NEW S, IsFiniteSet(S), \A x \in S : f[x] \in Nat, NEW y \in S
    PROVE  Sum(f, S) = f[y] + Sum(f, S \ {y})
<1> DEFINE B == {T \in SUBSET S : \E x \in T : Sum(f, T) # f[x] + Sum(f, T \ {x})}
<1>1. SUFFICES ASSUME B # {} PROVE FALSE  OBVIOUS
<1>2. PICK T \in B : \A U \in SUBSET T : U # T => U \notin B
  <2>1. B \in SUBSET (SUBSET S)  OBVIOUS
  <2> HIDE DEF B
  <2> QED  BY <1>1, <2>1, Smallest
<1>3. PICK x \in T : Sum(f, T) # f[x] + Sum(f, T \ {x})  BY <1>2
<1>4. \A U \in SUBSET T : IsFiniteSet(U) /\ Sum(f, U) \in Nat  BY FS_Subset, SumNat
<1>13. \A U \in SUBSET T : U # T => \A z \in U : Sum(f, U) = f[z] + Sum(f, U \ {z})
  BY <1>2
<1> DEFINE p == Pick(T)
<1>5. p \in T /\ Sum(f, T) = f[p] + Sum(f, T \ {p})  BY <1>3, <1>4, PickIn, SumStep
<1> HIDE DEF p
<1>6. p # x  BY <1>3, <1>5
<1>7. Sum(f, T \ {p}) = f[x] + Sum(f, (T \ {p}) \ {x})
  <2>1. T \ {p} \in SUBSET T /\ T \ {p} # T /\ x \in T \ {p}  BY <1>5, <1>6
  <2> QED  BY <1>13, <2>1
<1>8. Sum(f, T \ {x}) = f[p] + Sum(f, (T \ {x}) \ {p})
  <2>1. T \ {x} \in SUBSET T /\ T \ {x} # T /\ p \in T \ {x}  BY <1>5, <1>6
  <2> QED  BY <1>13, <2>1
<1>9. (T \ {x}) \ {p} = (T \ {p}) \ {x}  OBVIOUS
<1>10. f[x] \in Nat /\ f[p] \in Nat /\ Sum(f, (T \ {p}) \ {x}) \in Nat  BY <1>4, <1>5
<1> HIDE DEF B
<1>11. \A a, b, c, d, e \in Nat : d = b + c /\ e = a + c => a + d = b + e  OBVIOUS
<1>12. Sum(f, T \ {p}) \in Nat /\ Sum(f, T \ {x}) \in Nat  BY <1>4
<1>14. Sum(f, T \ {x}) = f[p] + Sum(f, (T \ {p}) \ {x})  BY <1>8, <1>9
<1>15. f[p] + Sum(f, T \ {p}) = f[x] + Sum(f, T \ {x})
  BY <1>7, <1>10, <1>11, <1>12, <1>14
<1> QED  BY <1>3, <1>5, <1>15

\* Sums of functions that agree on the set.
LEMMA SumAgree ==
    ASSUME NEW S, IsFiniteSet(S), NEW f, NEW h, \A x \in S : f[x] = h[x]
    PROVE  Sum(f, S) = Sum(h, S)
<1> DEFINE B == {T \in SUBSET S : Sum(f, T) # Sum(h, T)}
<1>1. SUFFICES ASSUME B # {} PROVE FALSE  OBVIOUS
<1>2. PICK T \in B : \A U \in SUBSET T : U # T => U \notin B
  <2>1. B \in SUBSET (SUBSET S)  OBVIOUS
  <2> HIDE DEF B
  <2> QED  BY <1>1, <2>1, Smallest
<1>3. IsFiniteSet(T) /\ T # {}  BY <1>2, FS_Subset, SumEmpty
<1>4. Pick(T) \in T /\ T \ {Pick(T)} \in SUBSET T /\ T \ {Pick(T)} # T
  BY <1>3, PickIn
<1>5. Sum(f, T \ {Pick(T)}) = Sum(h, T \ {Pick(T)}) /\ f[Pick(T)] = h[Pick(T)]  BY <1>2, <1>4
<1> QED  BY <1>2, <1>3, <1>5, SumStep

\* The sum over one element.
LEMMA SumOne ==
    ASSUME NEW f, NEW x, f[x] \in Nat
    PROVE  Sum(f, {x}) = f[x]
<1>1. IsFiniteSet({x}) /\ {x} \ {x} = {}  BY FS_Singleton
<1>2. Sum(f, {x}) = f[x] + Sum(f, {x} \ {x})  BY <1>1, SumTakes
<1> QED  BY <1>1, <1>2, SumEmpty

\* The sum over two sets that have nothing in common.
LEMMA SumUnion ==
    ASSUME NEW S, NEW R, IsFiniteSet(S), IsFiniteSet(R), S \cap R = {},
           NEW f, \A x \in S \cup R : f[x] \in Nat
    PROVE  Sum(f, S \cup R) = Sum(f, S) + Sum(f, R)
<1> DEFINE B == {T \in SUBSET R : Sum(f, S \cup T) # Sum(f, S) + Sum(f, T)}
<1>1. SUFFICES ASSUME B # {} PROVE FALSE  OBVIOUS
<1>2. PICK T \in B : \A U \in SUBSET T : U # T => U \notin B
  <2>1. B \in SUBSET (SUBSET R)  OBVIOUS
  <2> HIDE DEF B
  <2> QED  BY <1>1, <2>1, Smallest
<1>3. Sum(f, S) \in Nat /\ \A U \in SUBSET R : IsFiniteSet(U) /\ Sum(f, U) \in Nat
  BY FS_Subset, SumNat
<1>4. T # {}
  <2>1. S \cup {} = S /\ \A a \in Nat : a = a + 0  OBVIOUS
  <2> QED  BY <1>2, <1>3, <2>1, SumEmpty
<1>5. PICK x \in T : TRUE  BY <1>4
<1>6. Sum(f, S \cup (T \ {x})) = Sum(f, S) + Sum(f, T \ {x})
  BY <1>2, <1>5
<1>7. Sum(f, T) = f[x] + Sum(f, T \ {x})  BY <1>3, <1>5, SumTakes
<1>8. IsFiniteSet(S \cup T) /\ (S \cup T) \ {x} = S \cup (T \ {x})  BY <1>3, <1>5, FS_Union
<1>9. Sum(f, S \cup T) = f[x] + Sum(f, (S \cup T) \ {x})  BY <1>8, SumTakes
<1>10. \A a, b, c, d, e \in Nat : c = a + b => d + c = a + (d + b)  OBVIOUS
<1>11. f[x] \in Nat /\ Sum(f, T \ {x}) \in Nat /\ Sum(f, S \cup (T \ {x})) \in Nat
  BY <1>3, <1>5, <1>6
<1> QED  BY <1>2, <1>3, <1>6, <1>7, <1>8, <1>9, <1>10, <1>11

\* A part, and what is left of it.
LEMMA SumSplit ==
    ASSUME NEW S, IsFiniteSet(S), NEW R \in SUBSET S,
           NEW f, \A x \in S : f[x] \in Nat
    PROVE  /\ Sum(f, S \ R) \in Nat /\ Sum(f, R) \in Nat
           /\ Sum(f, S) = Sum(f, S \ R) + Sum(f, R)
<1>1. IsFiniteSet(R) /\ IsFiniteSet(S \ R)  BY FS_Subset
<1>2. (S \ R) \cap R = {} /\ (S \ R) \cup R = S  OBVIOUS
<1>3. Sum(f, (S \ R) \cup R) = Sum(f, S \ R) + Sum(f, R)  BY <1>1, <1>2, SumUnion
<1> QED  BY <1>1, <1>2, <1>3, SumNat

\* The sum of two functions.
LEMMA SumOfTwo ==
    ASSUME NEW S, IsFiniteSet(S), NEW f, NEW g, NEW h,
           \A x \in S : g[x] \in Nat /\ h[x] \in Nat /\ f[x] = g[x] + h[x]
    PROVE  Sum(f, S) = Sum(g, S) + Sum(h, S)
<1> DEFINE B == {T \in SUBSET S : Sum(f, T) # Sum(g, T) + Sum(h, T)}
<1>1. SUFFICES ASSUME B # {} PROVE FALSE  OBVIOUS
<1>2. PICK T \in B : \A U \in SUBSET T : U # T => U \notin B
  <2>1. B \in SUBSET (SUBSET S)  OBVIOUS
  <2> HIDE DEF B
  <2> QED  BY <1>1, <2>1, Smallest
<1>3. IsFiniteSet(T) /\ T # {}
  <2>1. IsFiniteSet(T) /\ 0 = 0 + 0  BY <1>2, FS_Subset
  <2> QED  BY <1>2, <2>1, SumEmpty
<1> DEFINE p == Pick(T)
<1>4. p \in T /\ T \ {p} \in SUBSET T /\ T \ {p} # T /\ IsFiniteSet(T \ {p})
  BY <1>3, PickIn, FS_Subset
<1>5. Sum(f, T) = f[p] + Sum(f, T \ {p}) /\ Sum(g, T) = g[p] + Sum(g, T \ {p})
        /\ Sum(h, T) = h[p] + Sum(h, T \ {p})
  BY <1>3, SumStep
<1> HIDE DEF p
<1>6. Sum(f, T \ {p}) = Sum(g, T \ {p}) + Sum(h, T \ {p})  BY <1>2, <1>4
<1>7. Sum(g, T \ {p}) \in Nat /\ Sum(h, T \ {p}) \in Nat  BY <1>4, SumNat
<1>8. f[p] = g[p] + h[p] /\ g[p] \in Nat /\ h[p] \in Nat  BY <1>4
<1>9. \A a, b, c, d \in Nat : (a + b) + (c + d) = (a + c) + (b + d)  OBVIOUS
<1>10. Sum(f, T) = (g[p] + h[p]) + (Sum(g, T \ {p}) + Sum(h, T \ {p}))
  BY <1>5, <1>6, <1>8
<1>11. Sum(f, T) = Sum(g, T) + Sum(h, T)  BY <1>5, <1>7, <1>8, <1>9, <1>10
<1> QED  BY <1>2, <1>11

\* The same values under other names.
LEMMA SumRenamed ==
    ASSUME NEW S, IsFiniteSet(S), NEW b, \A x, y \in S : b[x] = b[y] => x = y,
           NEW f, NEW g, \A x \in S : f[x] \in Nat /\ g[b[x]] = f[x]
    PROVE  Sum(g, {b[x] : x \in S}) = Sum(f, S)
<1> DEFINE Image(T) == {b[x] : x \in T}
           B == {T \in SUBSET S : Sum(g, Image(T)) # Sum(f, T)}
<1>1. SUFFICES ASSUME B # {} PROVE FALSE  OBVIOUS
<1>2. PICK T \in B : \A U \in SUBSET T : U # T => U \notin B
  <2>1. B \in SUBSET (SUBSET S)  OBVIOUS
  <2> HIDE DEF B
  <2> QED  BY <1>1, <2>1, Smallest
<1>3. IsFiniteSet(T)  BY <1>2, FS_Subset
<1>4. T # {}
  <2>1. Image({}) = {}  OBVIOUS
  <2> QED  BY <1>2, <2>1, SumEmpty
<1>5. PICK x \in T : TRUE  BY <1>4
<1>6. Image(T) \ {b[x]} = Image(T \ {x}) /\ b[x] \in Image(T)  BY <1>2, <1>5
<1>7. Sum(g, Image(T \ {x})) = Sum(f, T \ {x})
  <2>1. T \ {x} \in SUBSET T /\ T \ {x} # T /\ T \ {x} \in SUBSET S  BY <1>2, <1>5
  <2> QED  BY <1>2, <2>1
<1>8. IsFiniteSet(Image(T))
  <2>1. [y \in T |-> b[y]] \in Surjection(T, Image(T))  BY DEF Surjection
  <2> QED  BY <1>3, <2>1, FS_Surjection
<1>9. \A y \in Image(T) : g[y] \in Nat  BY <1>2
<1>10. g[b[x]] = f[x]  BY <1>2, <1>5
<1>11. \A y \in T : f[y] \in Nat  BY <1>2
<1>12. Sum(f, T) = f[x] + Sum(f, T \ {x})  BY <1>3, <1>5, <1>11, SumTakes
<1> HIDE DEF Image
<1>13. Sum(g, Image(T)) = g[b[x]] + Sum(g, Image(T) \ {b[x]})
  BY <1>6, <1>8, <1>9, SumTakes
<1> QED  BY <1>2, <1>6, <1>7, <1>10, <1>12, <1>13

\* A sum of nothing but zeros.
LEMMA SumZero ==
    ASSUME NEW f, NEW S, IsFiniteSet(S), \A x \in S : f[x] = 0
    PROVE  Sum(f, S) = 0
<1>1. 0 \in Nat /\ 0 = 0 + 0  OBVIOUS
<1>2. \A x \in S : f[x] \in Nat /\ f[x] \in Nat /\ f[x] = f[x] + f[x]  BY <1>1
<1>3. Sum(f, S) = Sum(f, S) + Sum(f, S)  BY <1>2, SumOfTwo
<1>4. Sum(f, S) \in Nat  BY <1>2, SumNat
<1>5. \A z \in Nat : z = z + z => z = 0  OBVIOUS
<1> QED  BY <1>3, <1>4, <1>5

\* A sum over more items, when the number of each of the old ones is kept.
LEMMA SumExtended ==
    ASSUME NEW f, NEW g, NEW S, NEW N, IsFiniteSet(S), IsFiniteSet(N), S \cap N = {},
           \A x \in S : g[x] = f[x], \A x \in S \cup N : g[x] \in Nat
    PROVE  /\ Sum(g, S \cup N) = Sum(f, S) + Sum(g, N)
           /\ Sum(f, S) \in Nat /\ Sum(g, N) \in Nat
<1>1. Sum(g, S \cup N) = Sum(g, S) + Sum(g, N)  BY SumUnion
<1>2. Sum(g, S) = Sum(f, S)  BY SumAgree
<1>3. \A x \in S : f[x] \in Nat  OBVIOUS
<1> QED  BY <1>1, <1>2, <1>3, SumNat

-----------------------------------------------------------------------------
(***************************************************************************)
(* The file ids.                                                           *)
(***************************************************************************)
\* The ids taken by a batch are fresh, and issued afterwards.
LEMMA IdsFresh ==
    ASSUME NEW first \in 0..MaxId, NEW n \in Nat,
           n > 0 => first # 0 /\ n <= MaxId - first + 1
    PROVE  /\ IdAfter(first, n) \in 0..MaxId
           /\ IdsBefore(IdAfter(first, n)) = IdsBefore(first) \cup IdsFrom(first, n)
           /\ IdsBefore(first) \cap IdsFrom(first, n) = {}
           /\ \A i \in 1..n : first + i - 1 \in IdsFrom(first, n)
           /\ \A id \in IdsFrom(first, n) : id - first + 1 \in 1..n
<1>1. MaxId \in Nat \ {0} BY PlanAssumption
<1>2. CASE n = 0 BY <1>1, <1>2 DEF IdAfter, IdsFrom, IdsBefore
<1>3. CASE n > 0 /\ first + n - 1 = MaxId BY <1>1, <1>3 DEF IdAfter, IdsFrom, IdsBefore
<1>4. CASE n > 0 /\ first + n - 1 # MaxId BY <1>1, <1>4 DEF IdAfter, IdsFrom, IdsBefore
<1>5. n = 0 \/ (n > 0 /\ first + n - 1 = MaxId) \/ (n > 0 /\ first + n - 1 # MaxId)
    OBVIOUS
<1>6. QED BY <1>2, <1>3, <1>4, <1>5, Zenon
-----------------------------------------------------------------------------
(***************************************************************************)
(* The inductive invariant.  Partition alone is not inductive: that a file *)
(* moved back to the queue is not already queued needs the three disjoint  *)
(* containers, that an appended destination is new needs the reservations, *)
(* and that the ids of an append are fresh needs their type.               *)
(***************************************************************************)
IInv ==
    /\ ContainersTypeOK
    /\ Partition
    /\ ReservationsExact
    /\ HighWaterBounded
    /\ IncidentMatchesAttempts

Incidents == [action : RecoveryAction, attempts : 1..MaxAttempt]

\* A step that only moves items between the three containers.
LEMMA MoveKeeps ==
    ASSUME IInv,
           UNCHANGED <<file, next, reserved, fate>>,
           Live' = Live,
           pending' \in Seq(Issued), IsInjective(pending'),
           active' \in SUBSET Issued,
           DOMAIN parked' \in SUBSET Issued,
           parked' \in [DOMAIN parked' -> Incidents],
           Queued' \cap active' = {},
           Queued' \cap DOMAIN parked' = {},
           active' \cap DOMAIN parked' = {},
           DOMAIN attemptCount' \in SUBSET Live,
           attemptCount' \in [DOMAIN attemptCount' -> 1..MaxAttempt],
           DOMAIN highWater' \in SUBSET Live,
           highWater' \in [DOMAIN highWater' -> Nat],
           HighWaterBounded',
           IncidentMatchesAttempts'
    PROVE  IInv'
<1>1. Issued' = Issued BY DEF Issued, IdsBefore
<1>2. ContainersTypeOK' BY <1>1 DEF IInv, ContainersTypeOK, Incidents
<1>3. Partition' BY <1>1 DEF IInv, Partition
<1>4. ReservationsExact' BY <1>1 DEF IInv, ReservationsExact, Holders
<1>5. QED BY <1>2, <1>3, <1>4 DEF IInv

\* What every proof below uses of the invariant.
LEMMA IInvFacts ==
    ASSUME IInv
    PROVE  /\ pending \in Seq(Issued) /\ IsInjective(pending)
           /\ active \in SUBSET Issued
           /\ Queued \in SUBSET Issued
           /\ DOMAIN parked \in SUBSET Issued
           /\ parked \in [DOMAIN parked -> Incidents]
           /\ Queued \cap active = {}
           /\ Queued \cap DOMAIN parked = {}
           /\ active \cap DOMAIN parked = {}
           /\ DOMAIN attemptCount \in SUBSET Live
           /\ attemptCount \in [DOMAIN attemptCount -> 1..MaxAttempt]
           /\ DOMAIN highWater \in SUBSET Live
           /\ highWater \in [DOMAIN highWater -> Nat]
           /\ MaxAttempt \in Nat \ {0}
<1>1. pending \in Seq(Issued) BY DEF IInv, ContainersTypeOK
<1>2. Queued \in SUBSET Issued BY <1>1, RangeOfSeq DEF Queued
<1>3. QED
    BY <1>1, <1>2, PlanAssumption
    DEF IInv, ContainersTypeOK, Partition, Incidents

\* acquire_next() moves the front of the queue to the active files.
LEMMA AcquireNextKeeps == ASSUME IInv, AcquireNext PROVE IInv'
<1>1. /\ Head(pending) \in Queued
      /\ pending' \in Seq(Issued)
      /\ Queued' = Queued \ {Head(pending)}
      /\ IsInjective(pending')
    BY IInvFacts, TailKeeps DEF AcquireNext, Queued
<1>2. /\ active' = active \cup {Head(pending)}
      /\ UNCHANGED <<file, parked, reserved, next, highWater, attemptCount, fate>>
    BY DEF AcquireNext, resultVars
<1>3. Live' = Live BY <1>1, <1>2 DEF Live
<1>4. HighWaterBounded' /\ IncidentMatchesAttempts'
    BY <1>2 DEF IInv, HighWaterBounded, IncidentMatchesAttempts, AttemptOf
<1>5. QED BY <1>1, <1>2, <1>3, <1>4, IInvFacts, MoveKeeps

\* release_active() gives an active file back to the front of the queue.
LEMMA ReleaseActiveKeeps ==
    ASSUME IInv, NEW id \in active, ReleaseActive(id) PROVE IInv'
<1>1. id \in Issued /\ id \notin Queued BY IInvFacts
<1>2. /\ pending' \in Seq(Issued)
      /\ Queued' = {id} \cup Queued
      /\ IsInjective(pending')
    BY <1>1, IInvFacts, PrependKeeps DEF ReleaseActive, Queued
<1>3. /\ active' = active \ {id}
      /\ UNCHANGED <<file, parked, reserved, next, highWater, attemptCount, fate>>
    BY DEF ReleaseActive, resultVars, progressVars
<1>4. Live' = Live BY <1>2, <1>3 DEF Live
<1>5. HighWaterBounded' /\ IncidentMatchesAttempts'
    BY <1>3 DEF IInv, HighWaterBounded, IncidentMatchesAttempts, AttemptOf
<1>6. QED BY <1>2, <1>3, <1>4, <1>5, IInvFacts, MoveKeeps

\* No reordering of the queue changes which files are in it.
LEMMA ReorderPendingKeeps == ASSUME IInv, ReorderPending PROVE IInv'
<1>1. /\ pending' \in Seq(Issued)
      /\ Queued' = Queued
      /\ IsInjective(pending')
    BY IInvFacts, PermuteKeeps DEF ReorderPending, Queued
<1>2. UNCHANGED <<file, active, parked, reserved, next, highWater, attemptCount, fate>>
    BY DEF ReorderPending, resultVars, progressVars
<1>3. Live' = Live BY <1>1, <1>2 DEF Live
<1>4. HighWaterBounded' /\ IncidentMatchesAttempts'
    BY <1>2 DEF IInv, HighWaterBounded, IncidentMatchesAttempts, AttemptOf
<1>5. QED BY <1>1, <1>2, <1>3, <1>4, IInvFacts, MoveKeeps

\* attempt_of() always answers a number a uint32_t counts from one.
LEMMA AttemptOfType == ASSUME IInv, NEW id PROVE AttemptOf(id) \in 1..MaxAttempt
BY IInvFacts DEF AttemptOf

\* park_active() and park_active_source_removal() carry the attempt number
\* into the incident.
LEMMA ParkKeeps ==
    ASSUME IInv, NEW id \in active, NEW action \in RecoveryAction, Park(id, action)
    PROVE  IInv'
<1> DEFINE incident == [action |-> action, attempts |-> AttemptOf(id)]
<1>1. /\ parked' = Put(parked, id, incident)
      /\ active' = active \ {id}
      /\ UNCHANGED <<file, pending, reserved, next, highWater, attemptCount, fate>>
    BY DEF Park, resultVars, progressVars
<1>2. id \in Issued /\ id \notin Queued BY IInvFacts
<1>3. incident \in Incidents BY AttemptOfType DEF Incidents
<1> HIDE DEF incident
<1>4. /\ DOMAIN parked' = DOMAIN parked \cup {id}
      /\ parked' \in [DOMAIN parked' -> Incidents]
      /\ parked'[id] = incident
      /\ \A y \in DOMAIN parked : y # id => parked'[y] = parked[y]
    BY <1>1, <1>3, IInvFacts DEF Put
<1>5. Queued' = Queued BY <1>1 DEF Queued
<1>6. Live' = Live BY <1>1, <1>4, <1>5 DEF Live
<1>7. HighWaterBounded' BY <1>1 DEF IInv, HighWaterBounded
<1>8. IncidentMatchesAttempts'
    BY <1>1, <1>4 DEF IInv, IncidentMatchesAttempts, AttemptOf, incident
<1>9. QED
    BY <1>1, <1>2, <1>4, <1>5, <1>6, <1>7, <1>8, IInvFacts, MoveKeeps

\* unpark() puts a parked transfer back at the front of the queue.
LEMMA UnparkKeeps == ASSUME IInv, NEW id \in DOMAIN parked, Unpark(id) PROVE IInv'
<1>1. id \in Issued /\ id \notin Queued /\ id \notin active BY IInvFacts
<1>2. /\ pending' \in Seq(Issued)
      /\ Queued' = {id} \cup Queued
      /\ IsInjective(pending')
    BY <1>1, IInvFacts, PrependKeeps DEF Unpark, Queued
<1>3. /\ parked' = Drop(parked, {id})
      /\ attemptCount' = Put(attemptCount, id, NextAttempt(id))
      /\ UNCHANGED <<file, active, reserved, next, highWater, fate>>
    BY DEF Unpark, resultVars
<1>4. /\ DOMAIN parked' = DOMAIN parked \ {id}
      /\ parked' \in [DOMAIN parked' -> Incidents]
      /\ \A y \in DOMAIN parked' : parked'[y] = parked[y]
    BY <1>3, IInvFacts DEF Drop, Restrict
<1>5. NextAttempt(id) \in 1..MaxAttempt
    BY IInvFacts DEF NextAttempt, Lesser, Incidents
<1>6. /\ DOMAIN attemptCount' = DOMAIN attemptCount \cup {id}
      /\ attemptCount' \in [DOMAIN attemptCount' -> 1..MaxAttempt]
      /\ \A y \in DOMAIN attemptCount : y # id => attemptCount'[y] = attemptCount[y]
    BY <1>3, <1>5, IInvFacts DEF Put
<1>7. Live' = Live BY <1>2, <1>3, <1>4 DEF Live
<1>8. HighWaterBounded' BY <1>3 DEF IInv, HighWaterBounded
<1>9. IncidentMatchesAttempts'
    <2>1. SUFFICES ASSUME NEW y \in DOMAIN parked'
                   PROVE  parked'[y].attempts = AttemptOf(y)'
        BY DEF IncidentMatchesAttempts
    <2>2. y \in DOMAIN parked /\ y # id BY <1>4
    <2>3. AttemptOf(y)' = AttemptOf(y) BY <1>6, <2>2 DEF AttemptOf
    <2>4. QED BY <1>4, <2>2, <2>3 DEF IInv, IncidentMatchesAttempts
<1>10. id \in Live BY DEF Live
<1>11. QED
    BY <1>1, <1>2, <1>3, <1>4, <1>6, <1>7, <1>8, <1>9, <1>10, IInvFacts, MoveKeeps

\* begin_parked_retry() counts the retry in the incident and in the plan alike.
LEMMA BeginParkedRetryKeeps ==
    ASSUME IInv, NEW id \in DOMAIN parked, NEW action, BeginParkedRetry(id, action)
    PROVE  IInv'
<1>1. /\ parked' = [parked EXCEPT ![id].attempts = NextAttempt(id)]
      /\ attemptCount' = Put(attemptCount, id, NextAttempt(id))
      /\ UNCHANGED <<file, pending, active, reserved, next, highWater, fate>>
    BY DEF BeginParkedRetry, resultVars
<1>2. NextAttempt(id) \in 1..MaxAttempt
    BY IInvFacts DEF NextAttempt, Lesser, Incidents
<1>3. /\ DOMAIN parked' = DOMAIN parked
      /\ parked' \in [DOMAIN parked' -> Incidents]
      /\ parked'[id].attempts = NextAttempt(id)
      /\ \A y \in DOMAIN parked : y # id => parked'[y] = parked[y]
    BY <1>1, <1>2, IInvFacts DEF Incidents
<1>4. /\ DOMAIN attemptCount' = DOMAIN attemptCount \cup {id}
      /\ attemptCount' \in [DOMAIN attemptCount' -> 1..MaxAttempt]
      /\ attemptCount'[id] = NextAttempt(id)
      /\ \A y \in DOMAIN attemptCount : y # id => attemptCount'[y] = attemptCount[y]
    BY <1>1, <1>2, IInvFacts DEF Put
<1>5. Queued' = Queued BY <1>1 DEF Queued
<1>6. Live' = Live /\ id \in Live BY <1>1, <1>3, <1>5 DEF Live
<1>7. HighWaterBounded' BY <1>1 DEF IInv, HighWaterBounded
<1>8. IncidentMatchesAttempts'
    <2>1. SUFFICES ASSUME NEW y \in DOMAIN parked
                   PROVE  parked'[y].attempts = AttemptOf(y)'
        BY <1>3 DEF IncidentMatchesAttempts
    <2>2. CASE y = id BY <1>3, <1>4, <2>2 DEF AttemptOf
    <2>3. CASE y # id
        <3>1. AttemptOf(y)' = AttemptOf(y) BY <1>4, <2>3 DEF AttemptOf
        <3>2. QED BY <1>3, <2>3, <3>1 DEF IInv, IncidentMatchesAttempts
    <2>4. QED BY <2>2, <2>3
<1>9. QED BY <1>1, <1>3, <1>4, <1>5, <1>6, <1>7, <1>8, IInvFacts, MoveKeeps

\* An item never weighs less than one byte.
LEMMA WeightType == ASSUME NEW size \in Nat PROVE Weight(size) \in Nat \ {0}
BY DEF Weight, Greater

\* record_attempt_bytes() never lets the mark pass the weight of the item.
LEMMA RecordAttemptBytesKeeps ==
    ASSUME IInv, NEW id \in active, NEW bytes \in Chunk, RecordAttemptBytes(id, bytes)
    PROVE  IInv'
<1> DEFINE weight == Weight(file[id].size)
           mark == Greater(HighWaterOf(id), Lesser(bytes, weight))
<1>1. /\ highWater' = Put(highWater, id, mark)
      /\ UNCHANGED <<file, pending, active, parked, reserved, next, attemptCount, fate>>
    BY DEF RecordAttemptBytes, queueVars, resultVars
<1>2. weight \in Nat
    <2>1. id \in Issued BY IInvFacts
    <2>2. file[id].size \in Nat
        BY <2>1, PlanAssumption DEF IInv, ContainersTypeOK, FileRecord
    <2>3. QED BY <2>2, WeightType
<1>3. HighWaterOf(id) \in Nat /\ HighWaterOf(id) <= weight
    BY <1>2, IInvFacts DEF HighWaterOf, IInv, HighWaterBounded
<1>4. bytes \in Nat BY PlanAssumption
<1> HIDE DEF weight
<1>5. mark \in Nat /\ mark <= weight BY <1>2, <1>3, <1>4 DEF Greater, Lesser
<1> HIDE DEF mark
<1>6. /\ DOMAIN highWater' = DOMAIN highWater \cup {id}
      /\ highWater' \in [DOMAIN highWater' -> Nat]
      /\ highWater'[id] = mark
      /\ \A y \in DOMAIN highWater : y # id => highWater'[y] = highWater[y]
    BY <1>1, <1>5, IInvFacts DEF Put
<1>7. Queued' = Queued BY <1>1 DEF Queued
<1>8. Live' = Live /\ id \in Live BY <1>1, <1>7 DEF Live
<1>9. HighWaterBounded'
    BY <1>1, <1>5, <1>6 DEF IInv, HighWaterBounded, weight
<1>10. IncidentMatchesAttempts'
    BY <1>1 DEF IInv, IncidentMatchesAttempts, AttemptOf
<1>11. QED BY <1>1, <1>6, <1>7, <1>8, <1>9, <1>10, IInvFacts, MoveKeeps

\* The live items are among the holders of reservations.
LEMMA LiveHolds ==
    ASSUME IInv
    PROVE  /\ Live \in SUBSET Holders
           /\ Holders \in SUBSET Issued
           /\ \A id \in Issued : file[id].dest \in Key
BY DEF IInv, ContainersTypeOK, Partition, Holders, FileRecord

\* redirect_active_destination() swaps one reservation for another.
LEMMA RedirectActiveDestinationKeeps ==
    ASSUME IInv, NEW id \in active, RedirectActiveDestination(id) PROVE IInv'
<1>1. PICK alternate \in Key \ reserved :
         /\ reserved' = (reserved \cup {alternate}) \ {file[id].dest}
         /\ file' = [file EXCEPT ![id].dest = alternate]
    BY DEF RedirectActiveDestination
<1>2. UNCHANGED <<pending, active, parked, next, highWater, attemptCount, fate>>
    BY DEF RedirectActiveDestination, resultVars, progressVars
<1>3. Issued' = Issued /\ Queued' = Queued /\ Live' = Live /\ Holders' = Holders
    BY <1>2 DEF Issued, IdsBefore, Queued, Live, Holders
<1>4. id \in Issued /\ id \in Holders BY LiveHolds, IInvFacts DEF Live
<1>5. /\ file' \in [Issued -> FileRecord]
      /\ file'[id].dest = alternate
      /\ \A y \in Issued : file'[y].size = file[y].size
      /\ \A y \in Issued : y # id => file'[y].dest = file[y].dest
    BY <1>1, <1>4 DEF IInv, ContainersTypeOK, FileRecord
<1>6. ContainersTypeOK'
    BY <1>1, <1>2, <1>3, <1>5 DEF IInv, ContainersTypeOK
<1>7. Partition' BY <1>2, <1>3 DEF IInv, Partition
<1>8. ReservationsExact'
    <2>1. \A y \in Holders : y # id => file[y].dest # file[id].dest
        BY <1>4 DEF IInv, ReservationsExact
    <2>2. \A y \in Holders : file[y].dest # alternate
        BY <1>1 DEF IInv, ReservationsExact
    <2>3. Holders \in SUBSET Issued BY LiveHolds
    <2>4. reserved' = {file'[y].dest : y \in Holders}
        BY <1>1, <1>4, <1>5, <2>1, <2>2, <2>3 DEF IInv, ReservationsExact
    <2>5. \A a, b \in Holders : file'[a].dest = file'[b].dest => a = b
        BY <1>5, <2>2, <2>3 DEF IInv, ReservationsExact
    <2>6. QED BY <1>3, <2>4, <2>5 DEF ReservationsExact
<1>9. HighWaterBounded'
    BY <1>2, <1>5, IInvFacts, LiveHolds DEF IInv, HighWaterBounded
<1>10. IncidentMatchesAttempts'
    BY <1>2 DEF IInv, IncidentMatchesAttempts, AttemptOf
<1>11. QED BY <1>6, <1>7, <1>8, <1>9, <1>10 DEF IInv

\* A step that takes the items of S out of the plan, with the same fate.
LEMMA SettleKeeps ==
    ASSUME IInv,
           NEW S \in SUBSET Live, NEW o \in Fate \ {"Live"},
           UNCHANGED <<file, next>>,
           fate' = [id \in Issued |-> IF id \in S THEN o ELSE fate[id]],
           reserved' = IF o \in Transferred THEN reserved
                       ELSE reserved \ {file[id].dest : id \in S},
           pending' \in Seq(Issued), IsInjective(pending'),
           Queued' = Queued \ S, active' = active \ S, parked' = Drop(parked, S),
           highWater' = Drop(highWater, S), attemptCount' = Drop(attemptCount, S)
    PROVE  IInv'
<1>1. Issued' = Issued BY DEF Issued, IdsBefore
<1>2. /\ DOMAIN parked' = DOMAIN parked \ S
      /\ parked' \in [DOMAIN parked' -> Incidents]
      /\ \A y \in DOMAIN parked' : parked'[y] = parked[y]
    BY IInvFacts DEF Drop, Restrict
<1>3. /\ DOMAIN highWater' = DOMAIN highWater \ S
      /\ highWater' \in [DOMAIN highWater' -> Nat]
      /\ \A y \in DOMAIN highWater' : highWater'[y] = highWater[y]
    BY IInvFacts DEF Drop, Restrict
<1>4. /\ DOMAIN attemptCount' = DOMAIN attemptCount \ S
      /\ attemptCount' \in [DOMAIN attemptCount' -> 1..MaxAttempt]
      /\ \A y \in DOMAIN attemptCount' : attemptCount'[y] = attemptCount[y]
    BY IInvFacts DEF Drop, Restrict
<1>5. Live' = Live \ S BY <1>2 DEF Live
<1>6. ContainersTypeOK'
    <2>1. fate' \in [Issued -> Fate] BY DEF IInv, ContainersTypeOK
    <2>2. reserved' \in SUBSET Key BY DEF IInv, ContainersTypeOK
    <2>3. DOMAIN parked' \in SUBSET Issued BY <1>2, IInvFacts
    <2>4. active' \in SUBSET Issued BY IInvFacts
    <2>5. DOMAIN attemptCount' \in SUBSET Live' BY <1>4, <1>5, IInvFacts
    <2>6. DOMAIN highWater' \in SUBSET Live' BY <1>3, <1>5, IInvFacts
    <2>7. QED
        BY <1>1, <1>2, <1>3, <1>4, <2>1, <2>2, <2>3, <2>4, <2>5, <2>6
        DEF IInv, ContainersTypeOK, Incidents
<1>7. Partition'
    <2>1. Live' = {id \in Issued : fate'[id] = "Live"}
        BY <1>5 DEF IInv, Partition
    <2>2. QED BY <1>1, <1>2, <2>1, IInvFacts DEF Partition
<1>8. ReservationsExact'
    <2>1. S \in SUBSET Holders /\ Holders \in SUBSET Issued BY LiveHolds
    <2>2. CASE o \in Transferred
        <3>1. Holders' = Holders BY <1>1, <2>1, <2>2 DEF Holders
        <3>2. QED BY <2>2, <3>1 DEF IInv, ReservationsExact
    <2>3. CASE o \notin Transferred
        <3>1. Holders' = Holders \ S BY <1>1, <2>1, <2>3 DEF Holders
        <3>2. reserved' = {file[id].dest : id \in Holders \ S}
            BY <2>1, <2>3 DEF IInv, ReservationsExact
        <3>3. QED BY <3>1, <3>2 DEF IInv, ReservationsExact
    <2>4. QED BY <2>2, <2>3
<1>9. HighWaterBounded' BY <1>3 DEF IInv, HighWaterBounded
<1>10. IncidentMatchesAttempts'
    <2>1. SUFFICES ASSUME NEW y \in DOMAIN parked'
                   PROVE  parked'[y].attempts = AttemptOf(y)'
        BY DEF IncidentMatchesAttempts
    <2>2. y \in DOMAIN parked /\ y \notin S BY <1>2
    <2>3. AttemptOf(y)' = AttemptOf(y) BY <1>4, <2>2 DEF AttemptOf
    <2>4. QED BY <1>2, <2>2, <2>3 DEF IInv, IncidentMatchesAttempts
<1>11. QED BY <1>6, <1>7, <1>8, <1>9, <1>10 DEF IInv

\* remove_pending_files() releases the reservations of what it removes.
LEMMA RemovePendingFilesKeeps ==
    ASSUME IInv, NEW ids, RemovePendingFiles(ids) PROVE IInv'
<1> DEFINE gone == ids \cap Queued
<1>1. /\ DropFromPending(gone)
      /\ reserved' = reserved \ {file[id].dest : id \in gone}
      /\ highWater' = Drop(highWater, gone)
      /\ attemptCount' = Drop(attemptCount, gone)
      /\ fate' = [id \in Issued |-> IF id \in gone THEN "Removed" ELSE fate[id]]
      /\ UNCHANGED <<file, active, parked, next>>
    BY DEF RemovePendingFiles
<1>2. gone \in SUBSET Live BY DEF Live
<1>3. gone \in SUBSET Queued OBVIOUS
<1> HIDE DEF gone
<1>4. /\ pending' \in Seq(Issued)
      /\ Queued' = Queued \ gone
      /\ IsInjective(pending')
    BY <1>1, IInvFacts, DropKeeps DEF Queued
<1>5. active' = active \ gone BY <1>1, <1>3, IInvFacts
<1>6. parked' = Drop(parked, gone)
    <2>1. DOMAIN parked \ gone = DOMAIN parked BY <1>3, IInvFacts
    <2>2. QED BY <1>1, <2>1, IInvFacts DEF Drop, Restrict
<1>7. "Removed" \in Fate \ {"Live"} /\ "Removed" \notin Transferred
    BY DEF Fate, Transferred
<1>8. QED BY <1>1, <1>2, <1>4, <1>5, <1>6, <1>7, SettleKeeps

\* resolve_locked on the items of S that the caller has just taken out of their
\* container.
LEMMA ResolveLockedFacts ==
    ASSUME NEW S, NEW o \in Outcome, ResolveLocked(S, o)
    PROVE  /\ UNCHANGED <<file, next>>
           /\ fate' = [id \in Issued |-> IF id \in S THEN o ELSE fate[id]]
           /\ reserved' = IF o \in Transferred THEN reserved
                          ELSE reserved \ {file[id].dest : id \in S}
           /\ highWater' = Drop(highWater, S)
           /\ attemptCount' = Drop(attemptCount, S)
           /\ o \in Fate \ {"Live"}
BY DEF ResolveLocked, Outcome, Fate

\* Resolving queued files: resolve_pending and fail_pending_under.
LEMMA ResolveQueuedKeeps ==
    ASSUME IInv, NEW S \in SUBSET Queued, NEW o \in Outcome,
           ResolveLocked(S, o), DropFromPending(S), UNCHANGED <<active, parked>>
    PROVE  IInv'
<1>1. S \in SUBSET Live BY DEF Live
<1>2. /\ pending' \in Seq(Issued)
      /\ Queued' = Queued \ S
      /\ IsInjective(pending')
    BY IInvFacts, DropKeeps DEF Queued
<1>3. active' = active \ S BY IInvFacts
<1>4. parked' = Drop(parked, S)
    <2>1. DOMAIN parked \ S = DOMAIN parked BY IInvFacts
    <2>2. QED BY <2>1, IInvFacts DEF Drop, Restrict
<1>5. QED BY <1>1, <1>2, <1>3, <1>4, ResolveLockedFacts, SettleKeeps

\* resolve_active takes its item out of the active set only.
LEMMA ResolveActiveKeeps ==
    ASSUME IInv, NEW id \in active, NEW o \in Outcome, ResolveActive(id, o)
    PROVE  IInv'
<1> DEFINE S == {id}
<1>1. /\ ResolveLocked(S, o)
      /\ active' = active \ S
      /\ UNCHANGED <<pending, parked>>
    BY DEF ResolveActive
<1>2. S \in SUBSET Live BY DEF Live
<1>3. S \cap Queued = {} /\ S \cap DOMAIN parked = {} BY IInvFacts
<1> HIDE DEF S
<1>4. Queued' = Queued \ S BY <1>1, <1>3 DEF Queued
<1>5. parked' = Drop(parked, S)
    <2>1. DOMAIN parked \ S = DOMAIN parked BY <1>3
    <2>2. QED BY <1>1, <2>1, IInvFacts DEF Drop, Restrict
<1>6. QED BY ZenonT(30), <1>1, <1>2, <1>4, <1>5, IInvFacts, ResolveLockedFacts, SettleKeeps

\* resolve_parked takes its item out of the parked files only.
LEMMA ResolveParkedKeeps ==
    ASSUME IInv, NEW id \in DOMAIN parked, NEW o \in Outcome, ResolveParked(id, o)
    PROVE  IInv'
<1> DEFINE S == {id}
<1>1. /\ ResolveLocked(S, o)
      /\ parked' = Drop(parked, S)
      /\ UNCHANGED <<pending, active>>
    BY DEF ResolveParked
<1>2. S \in SUBSET Live BY DEF Live
<1>3. S \cap Queued = {} /\ S \cap active = {} BY IInvFacts
<1> HIDE DEF S
<1>4. Queued' = Queued \ S /\ active' = active \ S BY <1>1, <1>3 DEF Queued
<1>5. pending' \in Seq(Issued) /\ IsInjective(pending') BY <1>1, IInvFacts
<1>6. QED BY <1>1, <1>2, <1>4, <1>5, ResolveLockedFacts, SettleKeeps

\* Files that enter the plan under fresh ids, with destinations that nothing
\* reserves and no two of them share: append and restore_parked_source_removal.
LEMMA EnterKeeps ==
    ASSUME IInv, NEW new,
           next' \in 0..MaxId,
           Issued' = Issued \cup new, Issued \cap new = {},
           file' \in [Issued \cup new -> FileRecord],
           \A id \in Issued : file'[id] = file[id],
           \A id \in new : file'[id].dest \notin reserved,
           \A a, b \in new : file'[a].dest = file'[b].dest => a = b,
           reserved' = reserved \cup {file'[id].dest : id \in new},
           fate' = [id \in Issued \cup new |->
                      IF id \in new THEN "Live" ELSE fate[id]],
           pending' \in Seq(Issued \cup new), IsInjective(pending'),
           active' = active,
           Live' = Live \cup new,
           DOMAIN parked' \in SUBSET (Issued \cup new),
           parked' \in [DOMAIN parked' -> Incidents],
           Queued' \cap active' = {},
           Queued' \cap DOMAIN parked' = {},
           active' \cap DOMAIN parked' = {},
           DOMAIN attemptCount' \in SUBSET (Live \cup new),
           attemptCount' \in [DOMAIN attemptCount' -> 1..MaxAttempt],
           DOMAIN highWater' \in SUBSET (Live \cup new),
           highWater' \in [DOMAIN highWater' -> Nat],
           HighWaterBounded',
           IncidentMatchesAttempts'
    PROVE  IInv'
<1>1. Issued' = Issued \cup new OBVIOUS
<1>2. ContainersTypeOK'
    <2>1. fate' \in [Issued' -> Fate]
        BY <1>1 DEF IInv, ContainersTypeOK, Fate
    <2>2. \A id \in new : file'[id].dest \in Key BY DEF FileRecord
    <2>3. reserved' \in SUBSET Key BY <2>2 DEF IInv, ContainersTypeOK
    <2>4. active' \in SUBSET Issued' BY <1>1, IInvFacts
    <2>5. QED BY <1>1, <2>1, <2>3, <2>4 DEF ContainersTypeOK, Incidents
<1>3. Partition'
    <2>1. Live' = {id \in Issued' : fate'[id] = "Live"}
        BY <1>1 DEF IInv, Partition
    <2>2. QED BY <2>1 DEF Partition
<1>4. ReservationsExact'
    <2>1. Holders' = Holders \cup new BY <1>1 DEF Holders
    <2>2. Holders \in SUBSET Issued BY LiveHolds
    <2>3. \A id \in Holders : file'[id].dest = file[id].dest BY <2>2
    <2>4. \A id \in Holders : file'[id].dest \in reserved
        BY <2>3 DEF IInv, ReservationsExact
    <2>5. reserved' = {file'[id].dest : id \in Holders \cup new}
        BY <2>3 DEF IInv, ReservationsExact
    <2>6. \A a, b \in Holders : file'[a].dest = file'[b].dest => a = b
        BY <2>3 DEF IInv, ReservationsExact
    <2>7. \A a, b \in Holders \cup new : file'[a].dest = file'[b].dest => a = b
        BY <2>4, <2>6
    <2>8. QED BY <2>1, <2>5, <2>7 DEF ReservationsExact
<1>5. QED BY <1>2, <1>3, <1>4 DEF IInv

\* What is parked, queued and active when an archived source removal enters.
LEMMA RestoreParkedSourceRemovalKeeps ==
    ASSUME IInv, NEW dest \in Key, NEW size \in Size, NEW attempts \in 0..MaxAttempt,
           RestoreParkedSourceRemoval(dest, size, attempts)
    PROVE  IInv'
<1> DEFINE new == {next}
           count == Greater(attempts, 1)
           incident == [action |-> "RetrySourceRemoval", attempts |-> count]
<1>1. /\ next # 0
      /\ dest \notin reserved
      /\ parked' = Put(parked, next, incident)
      /\ attemptCount' = Put(attemptCount, next, count)
      /\ file' = Put(file, next, [dest |-> dest, size |-> size])
      /\ fate' = Put(fate, next, "Live")
      /\ reserved' = reserved \cup {dest}
      /\ highWater' = Put(highWater, next, Weight(size))
      /\ next' = IdAfter(next, 1)
      /\ pending' = pending
      /\ active' = active
    BY DEF RestoreParkedSourceRemoval
<1>2. /\ next' \in 0..MaxId
      /\ Issued' = Issued \cup new
      /\ Issued \cap new = {}
    <2>1. next \in 1..MaxId /\ MaxId \in Nat
        BY <1>1, PlanAssumption DEF IInv, ContainersTypeOK
    <2>2. IdsFrom(next, 1) = new BY <2>1 DEF IdsFrom
    <2>3. QED BY <1>1, <2>1, <2>2, IdsFresh DEF Issued
<1>3. count \in 1..MaxAttempt BY PlanAssumption DEF Greater
<1>4. incident \in Incidents BY <1>3 DEF Incidents, RecoveryAction
<1>5. Weight(size) \in Nat BY PlanAssumption, WeightType
<1>6. /\ file' \in [Issued \cup new -> FileRecord]
      /\ \A id \in Issued : file'[id] = file[id]
      /\ file'[next] = [dest |-> dest, size |-> size]
    BY <1>1, <1>2 DEF Put, IInv, ContainersTypeOK, FileRecord
<1>7. fate' = [id \in Issued \cup new |-> IF id \in new THEN "Live" ELSE fate[id]]
    BY <1>1, <1>2 DEF Put, IInv, ContainersTypeOK
<1> HIDE DEF incident, count
<1>8. /\ DOMAIN parked' = DOMAIN parked \cup new
      /\ parked' \in [DOMAIN parked' -> Incidents]
      /\ parked'[next] = incident
      /\ \A y \in DOMAIN parked : parked'[y] = parked[y]
    BY <1>1, <1>2, <1>4, IInvFacts DEF Put
<1>9. /\ DOMAIN attemptCount' = DOMAIN attemptCount \cup new
      /\ attemptCount' \in [DOMAIN attemptCount' -> 1..MaxAttempt]
      /\ attemptCount'[next] = count
      /\ \A y \in DOMAIN attemptCount : y # next => attemptCount'[y] = attemptCount[y]
    BY <1>1, <1>3, IInvFacts DEF Put
<1>10. /\ DOMAIN highWater' = DOMAIN highWater \cup new
       /\ highWater' \in [DOMAIN highWater' -> Nat]
       /\ highWater'[next] = Weight(size)
       /\ \A y \in DOMAIN highWater : y # next => highWater'[y] = highWater[y]
    BY <1>1, <1>5, IInvFacts DEF Put
<1>11. Queued' = Queued BY <1>1 DEF Queued
<1>12. Live' = Live \cup new BY <1>1, <1>8, <1>11 DEF Live
<1>13. next \notin Issued /\ next \notin DOMAIN parked
    BY <1>2, IInvFacts
<1>14. /\ pending' \in Seq(Issued \cup new)
       /\ IsInjective(pending')
    <2>1. \A i \in 1..Len(pending) : pending[i] \in Issued \cup new BY IInvFacts
    <2>2. QED BY <1>1, <2>1, IInvFacts
<1>15. HighWaterBounded'
    <2>1. SUFFICES ASSUME NEW y \in DOMAIN highWater'
                   PROVE  highWater'[y] <= Weight(file'[y].size)
        BY DEF HighWaterBounded
    <2>2. CASE y = next BY <1>5, <1>6, <1>10, <2>2
    <2>3. CASE y # next
        <3>1. y \in DOMAIN highWater /\ y \in Issued BY <1>10, <2>3, IInvFacts, LiveHolds
        <3>2. QED BY <1>6, <1>10, <2>3, <3>1 DEF IInv, HighWaterBounded
    <2>4. QED BY <2>2, <2>3
<1>16. IncidentMatchesAttempts'
    <2>1. SUFFICES ASSUME NEW y \in DOMAIN parked'
                   PROVE  parked'[y].attempts = AttemptOf(y)'
        BY DEF IncidentMatchesAttempts
    <2>2. CASE y = next BY <1>8, <1>9, <2>2 DEF AttemptOf, incident
    <2>3. CASE y # next
        <3>1. AttemptOf(y)' = AttemptOf(y) BY <1>9, <2>3 DEF AttemptOf
        <3>2. y \in DOMAIN parked BY <1>8, <2>3
        <3>3. QED BY <1>8, <3>1, <3>2 DEF IInv, IncidentMatchesAttempts
    <2>4. QED BY <2>2, <2>3
<1>17. reserved' = reserved \cup {file'[id].dest : id \in new}
    BY <1>1, <1>6
<1>18. \A id \in new : file'[id].dest \notin reserved BY <1>1, <1>6
<1>19. /\ DOMAIN parked' \in SUBSET (Issued \cup new)
       /\ DOMAIN attemptCount' \in SUBSET (Live \cup new)
       /\ DOMAIN highWater' \in SUBSET (Live \cup new)
       /\ Queued' \cap active' = {}
       /\ Queued' \cap DOMAIN parked' = {}
       /\ active' \cap DOMAIN parked' = {}
    BY <1>1, <1>8, <1>9, <1>10, <1>11, <1>13, IInvFacts
<1>20. \A a, b \in new : file'[a].dest = file'[b].dest => a = b OBVIOUS
<1> HIDE DEF new
<1>21. QED
    BY <1>1, <1>2, <1>6, <1>7, <1>8, <1>9, <1>10, <1>12, <1>14, <1>15, <1>16,
       <1>17, <1>18, <1>19, <1>20, EnterKeeps

\* The ids append() hands out, one per file of the batch, in order.
LEMMA NewIdsQueue ==
    ASSUME NEW first \in 0..MaxId, NEW n \in Nat,
           n > 0 => first # 0 /\ n <= MaxId - first + 1
    PROVE  LET t == [i \in 1..n |-> first + i - 1] IN
           /\ t \in Seq(IdsFrom(first, n))
           /\ Range(t) = IdsFrom(first, n)
           /\ IsInjective(t)
<1> DEFINE t == [i \in 1..n |-> first + i - 1]
<1>1. /\ \A i \in 1..n : first + i - 1 \in IdsFrom(first, n)
      /\ \A id \in IdsFrom(first, n) : id - first + 1 \in 1..n
      /\ IdsFrom(first, n) \in SUBSET Nat
    BY IdsFresh DEF IdsFrom
<1>2. t \in Seq(IdsFrom(first, n)) BY <1>1
<1>3. Range(t) = IdsFrom(first, n)
    <2>1. \A id \in IdsFrom(first, n) : t[id - first + 1] = id BY <1>1
    <2>2. QED BY <1>1, <2>1 DEF Range
<1>4. IsInjective(t) BY DEF IsInjective
<1>5. QED BY <1>2, <1>3, <1>4

\* An accepted append() takes fresh ids and destinations nobody had reserved.
LEMMA AppendPlanKeeps ==
    ASSUME IInv, NEW plan \in Batch, NEW allowDrained, AppendPlan(plan, allowDrained)
    PROVE  IInv'
<1> DEFINE n == Len(plan.files)
           new == IdsFrom(next, n)
           tail == [i \in 1..n |-> next + i - 1]
<1>1. /\ plan.files \in Seq([dest : Key, size : Size])
      /\ n \in Nat
      /\ DOMAIN plan.files = 1..n
      /\ \A i \in 1..n : plan.files[i] \in FileRecord
    BY ZenonT(30), PlanAssumption, LenProperties DEF FileRecord
<1>2. /\ n > 0 => next # 0 /\ n <= MaxId - next + 1
      /\ \A i, j \in 1..n : plan.files[i].dest = plan.files[j].dest => i = j
      /\ \A i \in 1..n : plan.files[i].dest \notin reserved
    <2>1. AppendResult(plan, allowDrained) = "Appended" BY DEF AppendPlan
    <2>2. n > 0 => ~(next = 0 \/ n > MaxId - next + 1)
        BY <2>1 DEF AppendResult
    <2>3. Distinct(plan) /\ \A i \in 1..n : plan.files[i].dest \notin reserved
        BY <2>1 DEF AppendResult, Positions
    <2>4. n > 0 => n <= MaxId - next + 1
        BY <1>1, <2>2, PlanAssumption DEF IInv, ContainersTypeOK
    <2>5. QED BY <2>2, <2>3, <2>4 DEF Distinct, Positions
<1>3. /\ file' = [id \in Issued \cup new |->
                    IF id \in new THEN plan.files[id - next + 1] ELSE file[id]]
      /\ pending' = pending \o tail
      /\ reserved' = reserved \cup {plan.files[i].dest : i \in 1..n}
      /\ next' = IdAfter(next, n)
      /\ fate' = [id \in Issued \cup new |-> IF id \in new THEN "Live" ELSE fate[id]]
      /\ UNCHANGED <<active, parked, highWater, attemptCount>>
    BY DEF AppendPlan, CommitAppend, Positions, progressVars
<1> HIDE DEF n
<1>4. next \in 0..MaxId BY DEF IInv, ContainersTypeOK
<1>5. /\ next' \in 0..MaxId
      /\ Issued' = Issued \cup new
      /\ Issued \cap new = {}
      /\ \A i \in 1..n : next + i - 1 \in new
      /\ \A id \in new : id - next + 1 \in 1..n
      /\ new \in SUBSET Nat
    <2>1. /\ IdAfter(next, n) \in 0..MaxId
          /\ IdsBefore(IdAfter(next, n)) = Issued \cup new
          /\ Issued \cap new = {}
          /\ \A i \in 1..n : next + i - 1 \in new
          /\ \A id \in new : id - next + 1 \in 1..n
        BY <1>1, <1>2, <1>4, IdsFresh DEF Issued
    <2>2. new \in SUBSET Nat BY <1>4 DEF IdsFrom
    <2>3. next' = IdAfter(next, n) BY <1>3
    <2> HIDE DEF new, tail
    <2>4. Issued' = IdsBefore(IdAfter(next, n)) BY <2>3 DEF Issued
    <2>5. QED BY <2>1, <2>2, <2>3, <2>4
<1>6. tail \in Seq(new) /\ Range(tail) = new /\ IsInjective(tail)
    BY <1>1, <1>2, <1>4, NewIdsQueue
<1> HIDE DEF new
<1>7. /\ pending' \in Seq(Issued \cup new)
      /\ Queued' = Queued \cup new
      /\ IsInjective(pending')
    <2>1. pending \in Seq(Issued \cup new) BY IInvFacts, <1>5
    <2>2. tail \in Seq(Issued \cup new) BY <1>6
    <2>3. IsInjective(pending) /\ IsInjective(tail) BY <1>6, IInvFacts
    <2>4. Range(pending) \cap Range(tail) = {} BY <1>5, <1>6, IInvFacts DEF Queued
    <2> HIDE DEF tail
    <2>5. QED BY <1>3, <1>6, <2>1, <2>2, <2>3, <2>4, ConcatKeeps DEF Queued
<1> HIDE DEF tail
<1>8. /\ file' \in [Issued \cup new -> FileRecord]
      /\ \A id \in Issued : file'[id] = file[id]
      /\ \A id \in new : file'[id] = plan.files[id - next + 1]
    BY <1>1, <1>3, <1>5 DEF IInv, ContainersTypeOK
<1>9. \A id \in new : file'[id].dest \notin reserved BY <1>2, <1>5, <1>8
<1>10. \A a, b \in new : file'[a].dest = file'[b].dest => a = b
    <2>1. SUFFICES ASSUME NEW a \in new, NEW b \in new,
                          file'[a].dest = file'[b].dest
                   PROVE  a = b
        OBVIOUS
    <2>2. a - next + 1 = b - next + 1 BY <1>2, <1>5, <1>8, <2>1
    <2>3. QED BY <1>4, <1>5, <2>2
<1>11. reserved' = reserved \cup {file'[id].dest : id \in new}
    <2>1. \A id \in new : file'[id].dest \in {plan.files[i].dest : i \in 1..n}
        BY <1>5, <1>8
    <2>2. ASSUME NEW i \in 1..n
          PROVE  plan.files[i].dest \in {file'[id].dest : id \in new}
        <3>1. next + i - 1 \in new /\ (next + i - 1) - next + 1 = i
            BY <1>4, <1>5
        <3>2. file'[next + i - 1] = plan.files[i] BY <1>8, <3>1
        <3>3. QED BY <3>1, <3>2
    <2>3. QED BY ZenonT(30), <1>3, <2>1, <2>2
<1>12. Live' = Live \cup new BY <1>3, <1>7 DEF Live
<1>13. /\ DOMAIN parked' \in SUBSET (Issued \cup new)
       /\ parked' \in [DOMAIN parked' -> Incidents]
       /\ DOMAIN attemptCount' \in SUBSET (Live \cup new)
       /\ attemptCount' \in [DOMAIN attemptCount' -> 1..MaxAttempt]
       /\ DOMAIN highWater' \in SUBSET (Live \cup new)
       /\ highWater' \in [DOMAIN highWater' -> Nat]
       /\ Queued' \cap active' = {}
       /\ Queued' \cap DOMAIN parked' = {}
       /\ active' \cap DOMAIN parked' = {}
    BY <1>3, <1>5, <1>7, IInvFacts
<1>14. HighWaterBounded'
    <2>1. \A y \in DOMAIN highWater : y \in Issued BY IInvFacts, LiveHolds
    <2>2. QED BY <1>3, <1>8, <2>1 DEF IInv, HighWaterBounded
<1>15. IncidentMatchesAttempts'
    BY <1>3 DEF IInv, IncidentMatchesAttempts, AttemptOf
<1>16. active' = active BY <1>3
<1>17. QED
    BY <1>3, <1>5, <1>7, <1>8, <1>9, <1>10, <1>11, <1>12, <1>13, <1>14, <1>15,
       <1>16, EnterKeeps
-----------------------------------------------------------------------------
(***************************************************************************)
(* The theorems.                                                           *)
(***************************************************************************)

\* A freshly built plan satisfies the inductive invariant.
LEMMA InitIInv == Init => IInv
<1> SUFFICES ASSUME Init PROVE IInv OBVIOUS
<1>1. PICK plan \in Batch :
        /\ Distinct(plan)
        /\ Len(plan.files) <= MaxId
        /\ file = plan.files
        /\ pending = [i \in Positions(plan) |-> i]
        /\ active = {}
        /\ parked = [id \in {} |-> {}]
        /\ reserved = {plan.files[i].dest : i \in Positions(plan)}
        /\ next = IdAfter(1, Len(plan.files))
        /\ highWater = [id \in {} |-> 0]
        /\ attemptCount = [id \in {} |-> 0]
        /\ fate = [id \in Positions(plan) |-> "Live"]
    BY DEF Init
<1> DEFINE n == Len(plan.files)
<1>2. /\ plan.files \in Seq([dest : Key, size : Size])
      /\ n \in Nat
      /\ DOMAIN plan.files = 1..n
      /\ plan.files \in [1..n -> FileRecord]
    BY PlanAssumption, LenProperties DEF FileRecord
<1>3. next \in 0..MaxId /\ Issued = 1..n
    <2>1. MaxId \in Nat \ {0} BY PlanAssumption
    <2>2. n <= MaxId BY <1>1
    <2> HIDE DEF n
    <2>3. CASE n = 0 BY <1>1, <2>1, <2>3 DEF IdAfter, Issued, IdsBefore, n
    <2>4. CASE n # 0
        <3>1. next = IF n = MaxId THEN 0 ELSE 1 + n
            BY <1>1, <1>2, <2>1, <2>4 DEF IdAfter, n
        <3>2. QED BY <1>2, <2>1, <2>2, <2>4, <3>1 DEF Issued, IdsBefore
    <2>5. QED BY <2>3, <2>4
<1> HIDE DEF n
<1>4. Positions(plan) = 1..n BY DEF Positions, n
<1>5. /\ pending \in Seq(Issued)
      /\ Queued = Issued
      /\ IsInjective(pending)
    BY <1>1, <1>2, <1>3, <1>4 DEF Queued, Range, IsInjective
<1>6. DOMAIN parked = {} /\ DOMAIN attemptCount = {} /\ DOMAIN highWater = {}
    BY <1>1
<1>7. Live = Issued BY <1>1, <1>5, <1>6 DEF Live
<1>8. /\ fate \in [Issued -> Fate]
      /\ \A id \in Issued : fate[id] = "Live"
    BY <1>1, <1>3, <1>4 DEF Fate
<1>9. ContainersTypeOK
    <2>1. reserved \in SUBSET Key BY <1>1, <1>2, <1>4 DEF FileRecord
    <2>2. file \in [Issued -> FileRecord] BY <1>1, <1>2, <1>3
    <2>3. QED BY <1>1, <1>3, <1>5, <1>6, <1>8, <2>1, <2>2 DEF ContainersTypeOK
<1>10. Partition BY <1>1, <1>5, <1>6, <1>7, <1>8 DEF Partition
<1>11. ReservationsExact
    <2>1. Holders = 1..n BY <1>3, <1>8 DEF Holders
    <2>2. QED BY <1>1, <1>4, <2>1 DEF ReservationsExact, Distinct
<1>12. HighWaterBounded /\ IncidentMatchesAttempts
    BY <1>6 DEF HighWaterBounded, IncidentMatchesAttempts
<1>13. QED BY <1>9, <1>10, <1>11, <1>12 DEF IInv

\* A step that changes nothing the invariant reads.
LEMMA UnchangedKeeps ==
    ASSUME IInv, UNCHANGED <<queueVars, highWater, attemptCount, fate>>
    PROVE  IInv'
<1>1. UNCHANGED <<file, pending, active, parked, reserved, next, highWater,
                  attemptCount, fate>>
    BY DEF queueVars
<1>2. /\ Issued' = Issued
      /\ Queued' = Queued
      /\ Live' = Live
      /\ Holders' = Holders
    BY <1>1 DEF Issued, IdsBefore, Queued, Live, Holders
<1>3. ContainersTypeOK' BY <1>1, <1>2 DEF IInv, ContainersTypeOK
<1>4. Partition' /\ ReservationsExact'
    BY <1>1, <1>2 DEF IInv, Partition, ReservationsExact
<1>5. HighWaterBounded' /\ IncidentMatchesAttempts'
    BY <1>1 DEF IInv, HighWaterBounded, IncidentMatchesAttempts, AttemptOf
<1>6. QED BY <1>3, <1>4, <1>5 DEF IInv

\* Every critical section keeps the inductive invariant.
LEMMA NextIInv == IInv /\ [Next]_vars => IInv'
<1> SUFFICES ASSUME IInv, [Next]_vars PROVE IInv' OBVIOUS
<1>1. CASE UNCHANGED vars
    BY <1>1, UnchangedKeeps DEF vars, progressVars, resultVars
<1>2. ASSUME NEW plan \in Batch, NEW allowDrained \in BOOLEAN,
             AppendPlan(plan, allowDrained)
      PROVE  IInv'
    BY <1>2, AppendPlanKeeps
<1>3. ASSUME NEW through \in 0..directories, MarkDirectoriesMaterialized(through)
      PROVE  IInv'
    BY <1>3, UnchangedKeeps
    DEF MarkDirectoriesMaterialized, progressVars, resultVars
<1>4. CASE ReorderPending BY <1>4, ReorderPendingKeeps
<1>5. ASSUME NEW ids \in SUBSET Queued, RemovePendingFiles(ids) PROVE IInv'
    BY <1>5, RemovePendingFilesKeeps
<1>6. CASE AcquireNext BY <1>6, AcquireNextKeeps
<1>7. ASSUME NEW id \in active,
             \/ ReleaseActive(id)
             \/ RedirectActiveDestination(id)
             \/ \E action \in RecoveryAction : Park(id, action)
             \/ \E bytes \in Chunk : RecordAttemptBytes(id, bytes)
             \/ \E o \in Outcome : ResolveActive(id, o)
      PROVE  IInv'
    BY <1>7, ReleaseActiveKeeps, RedirectActiveDestinationKeeps, ParkKeeps,
       RecordAttemptBytesKeeps, ResolveActiveKeeps
<1>8. ASSUME NEW id \in DOMAIN parked,
             \/ Unpark(id)
             \/ \E action \in RecoveryAction : BeginParkedRetry(id, action)
             \/ \E o \in Outcome : ResolveParked(id, o)
      PROVE  IInv'
    BY <1>8, UnparkKeeps, BeginParkedRetryKeeps, ResolveParkedKeeps
<1>9. ASSUME NEW dest \in Key, NEW size \in Size, NEW attempts \in 0..MaxAttempt,
             RestoreParkedSourceRemoval(dest, size, attempts)
      PROVE  IInv'
    BY <1>9, RestoreParkedSourceRemovalKeeps
<1>10. ASSUME NEW id \in Queued, NEW o \in Outcome, ResolvePending(id, o)
       PROVE  IInv'
    <2> DEFINE S == {id}
    <2>1. S \in SUBSET Queued OBVIOUS
    <2>2. ResolveLocked(S, o) /\ DropFromPending(S) /\ UNCHANGED <<active, parked>>
        BY <1>10 DEF ResolvePending
    <2> HIDE DEF S
    <2>3. QED BY <2>1, <2>2, ResolveQueuedKeeps
<1>11. ASSUME NEW folder \in Folder, FailPendingUnder(folder) PROVE IInv'
    <2> DEFINE S == {id \in Queued : file[id].dest \in folder}
    <2>1. S \in SUBSET Queued /\ "Failed" \in Outcome BY DEF Outcome
    <2>2. /\ ResolveLocked(S, "Failed")
          /\ DropFromPending(S)
          /\ UNCHANGED <<active, parked>>
        BY <1>11 DEF FailPendingUnder
    <2> HIDE DEF S
    <2>3. QED BY <2>1, <2>2, ResolveQueuedKeeps
<1>12. QED
    BY <1>1, <1>2, <1>3, <1>4, <1>5, <1>6, <1>7, <1>8, <1>9, <1>10, <1>11
    DEF Next

\* The invariant holds in every state the plan can reach, for any paths, sizes,
\* id widths and batches.
THEOREM Invariance == Spec => []IInv
BY InitIInv, NextIInv, PTL DEF Spec

\* The containers and the bookkeeping of every item keep their types.
THEOREM TypeCorrect == Spec => []ContainersTypeOK
<1>1. IInv => ContainersTypeOK BY DEF IInv
<1>2. QED BY <1>1, Invariance, PTL

\* No item is ever lost, duplicated or in two containers at once.
THEOREM NothingLost == Spec => []Partition
<1>1. IInv => Partition BY DEF IInv
<1>2. QED BY <1>1, Invariance, PTL

\* The attempt the decision dialog shows for a parked item is the plan's own.
THEOREM IncidentsAgree == Spec => []IncidentMatchesAttempts
<1>1. IInv => IncidentMatchesAttempts BY DEF IInv
<1>2. QED BY <1>1, Invariance, PTL

\* No two items ever own one destination, and a destination is reserved for
\* exactly as long as an item owns it.
THEOREM DestinationsExclusive == Spec => []ReservationsExact
<1>1. IInv => ReservationsExact BY DEF IInv
<1>2. QED BY <1>1, Invariance, PTL
-----------------------------------------------------------------------------
(***************************************************************************)
(* The ledgers.                                                            *)
(* The runs check that what the class keeps incrementally is what the      *)
(* items add up to.  The step from one sum to the next is the same for     *)
(* every operation: some items enter, leave or change the set summed       *)
(* over, and the counters move by exactly their part.  That no             *)
(* saturating subtraction bites and no total wraps is part of what is      *)
(* inductive (TotalsAccount), and rests on the planner refusing a plan     *)
(* whose bytes do not fit (BatchesFit).                                    *)
(***************************************************************************)

\* The three sums of the plan: of the sizes, of the weights and of the marks of
\* some items, each with the function of the subsets the fold computes it by.
SizeSum(fl, S) == MapThenSumSet(LAMBDA id : fl[id].size, S)
SizeSums(fl, S, g) ==
    g = [s \in SUBSET S |-> IF s = {} THEN 0 ELSE fl[Pick(s)].size + g[s \ {Pick(s)}]]
WeightSum(fl, S) == MapThenSumSet(LAMBDA id : Weight(fl[id].size), S)
WeightSums(fl, S, g) ==
    g = [s \in SUBSET S |-> IF s = {} THEN 0 ELSE Weight(fl[Pick(s)].size) + g[s \ {Pick(s)}]]
MarkOf(hw, id) == IF id \in DOMAIN hw THEN hw[id] ELSE 0
MarkSum(hw, S) == MapThenSumSet(LAMBDA id : MarkOf(hw, id), S)
MarkSums(hw, S, g) ==
    g = [s \in SUBSET S |-> IF s = {} THEN 0 ELSE MarkOf(hw, Pick(s)) + g[s \ {Pick(s)}]]

\* Each is the sum of the function that has the same values: the definition of
\* the library reads the two alike.
LEMMA SizesAdded ==
    ASSUME NEW fl, NEW S, IsFiniteSet(S), NEW f, \A x \in S : f[x] = fl[x].size
    PROVE  SizeSum(fl, S) = Sum(f, S)
<1> DEFINE h == CHOOSE k : SizeSums(fl, S, k)
<1>1. \A g : Sums(f, S, g) <=> SizeSums(fl, S, g)
  <2>1. \A s \in SUBSET S : s # {} => f[Pick(s)] = fl[Pick(s)].size  BY PickIn
  <2> QED  BY <2>1 DEF Sums, SizeSums
<1>2. SizeSums(fl, S, h)
  <2>1. \E g : SizeSums(fl, S, g)  BY <1>1, SumsExist
  <2> QED  BY <2>1
<1>3. SizeSum(fl, S) = h[S]  BY DEF SizeSum, MapThenSumSet, MapThenFoldSet, Pick, SizeSums
<1> HIDE DEF h
<1> QED  BY <1>1, <1>2, <1>3, SumIs

LEMMA WeightsAdded ==
    ASSUME NEW fl, NEW S, IsFiniteSet(S), NEW f, \A x \in S : f[x] = Weight(fl[x].size)
    PROVE  WeightSum(fl, S) = Sum(f, S)
<1> DEFINE h == CHOOSE k : WeightSums(fl, S, k)
<1>1. \A g : Sums(f, S, g) <=> WeightSums(fl, S, g)
  <2>1. \A s \in SUBSET S : s # {} => f[Pick(s)] = Weight(fl[Pick(s)].size)  BY PickIn
  <2> QED  BY <2>1 DEF Sums, WeightSums
<1>2. WeightSums(fl, S, h)
  <2>1. \E g : WeightSums(fl, S, g)  BY <1>1, SumsExist
  <2> QED  BY <2>1
<1>3. WeightSum(fl, S) = h[S]  BY DEF WeightSum, MapThenSumSet, MapThenFoldSet, Pick, WeightSums
<1> HIDE DEF h
<1> QED  BY <1>1, <1>2, <1>3, SumIs

LEMMA MarksAdded ==
    ASSUME NEW hw, NEW S, IsFiniteSet(S), NEW f, \A x \in S : f[x] = MarkOf(hw, x)
    PROVE  MarkSum(hw, S) = Sum(f, S)
<1> DEFINE h == CHOOSE k : MarkSums(hw, S, k)
<1>1. \A g : Sums(f, S, g) <=> MarkSums(hw, S, g)
  <2>1. \A s \in SUBSET S : s # {} => f[Pick(s)] = MarkOf(hw, Pick(s))  BY PickIn
  <2> QED  BY <2>1 DEF Sums, MarkSums
<1>2. MarkSums(hw, S, h)
  <2>1. \E g : MarkSums(hw, S, g)  BY <1>1, SumsExist
  <2> QED  BY <2>1
<1>3. MarkSum(hw, S) = h[S]  BY DEF MarkSum, MapThenSumSet, MapThenFoldSet, Pick, MarkSums
<1> HIDE DEF h
<1> QED  BY <1>1, <1>2, <1>3, SumIs

\* They are what the model adds up.
LEMMA BytesSum == \A S : BytesOf(S) = SizeSum(file, S)
BY DEF BytesOf, SizeSum, MapThenSumSet, MapThenFoldSet

LEMMA WeightsSum == \A S : WeightOf(S) = WeightSum(file, S)
BY DEF WeightOf, WeightSum, MapThenSumSet, MapThenFoldSet

\* Size, weight and high-water mark of every item, and the items transferred.
Sizes   == [id \in Issued |-> file[id].size]
Weights == [id \in Issued |-> Weight(file[id].size)]
Marks   == [id \in Issued |-> HighWaterOf(id)]
Done    == WithFate(Transferred)

\* The numbers kept per item.
ItemNumbers ==
    /\ IsFiniteSet(Issued)
    /\ \A id \in Issued : /\ Sizes[id] \in Nat /\ Weights[id] \in Nat
                          /\ Marks[id] \in Nat /\ Marks[id] <= Weights[id]
    /\ Live = {id \in Issued : fate[id] = "Live"}

\* They follow from the invariant of the containers.
LEMMA ItemNumbersHold == IInv => ItemNumbers
<1> SUFFICES ASSUME IInv PROVE ItemNumbers  OBVIOUS
<1>1. IsFiniteSet(Issued)
  <2>1. next \in 0..MaxId /\ MaxId \in Nat
    BY PlanAssumption DEF IInv, ContainersTypeOK
  <2>2. IsFiniteSet(1..MaxId) /\ IsFiniteSet(1..(next - 1))  BY <2>1, FS_Interval
  <2> QED  BY <2>2 DEF Issued, IdsBefore
<1>2. \A id \in Issued : file[id].size \in Nat
  BY PlanAssumption DEF IInv, ContainersTypeOK, FileRecord
<1>3. \A id \in Issued : HighWaterOf(id) \in Nat /\ HighWaterOf(id) <= Weight(file[id].size)
  <2> TAKE id \in Issued
  <2>1. Weight(file[id].size) \in Nat \ {0}  BY <1>2, WeightType
  <2> QED  BY <2>1 DEF IInv, ContainersTypeOK, HighWaterBounded, HighWaterOf
<1>4. \A id \in Issued : Weight(file[id].size) \in Nat  BY <1>2, WeightType
<1> QED  BY <1>1, <1>2, <1>3, <1>4 DEF ItemNumbers, Sizes, Weights, Marks, IInv, Partition

\* And so in the next state.
LEMMA ItemNumbersNext == IInv' => ItemNumbers'
BY ItemNumbersHold, PTL

\* The sums of the plan are sums of these functions.
LEMMA SumForms ==
    ASSUME IInv, NEW S \in SUBSET Issued
    PROVE  /\ IsFiniteSet(S)
           /\ BytesOf(S) = Sum(Sizes, S)
           /\ WeightOf(S) = Sum(Weights, S)
           /\ MapThenSumSet(HighWaterOf, S) = Sum(Marks, S)
<1>1. IsFiniteSet(S)  BY ItemNumbersHold, FS_Subset DEF ItemNumbers
<1>2. \A x \in S : Sizes[x] = file[x].size  BY DEF Sizes
<1>3. \A x \in S : Weights[x] = Weight(file[x].size)  BY DEF Weights
<1>4. \A x \in S : Marks[x] = MarkOf(highWater, x)  BY DEF Marks, MarkOf, HighWaterOf
<1>5. SizeSum(file, S) = Sum(Sizes, S)  BY <1>1, <1>2, SizesAdded
<1>6. WeightSum(file, S) = Sum(Weights, S)  BY <1>1, <1>3, WeightsAdded
<1>7. MarkSum(highWater, S) = Sum(Marks, S)  BY <1>1, <1>4, MarksAdded
<1>8. BytesOf(S) = Sum(Sizes, S)  BY <1>5, BytesSum
<1>9. WeightOf(S) = Sum(Weights, S)  BY <1>6, WeightsSum
<1>10. MapThenSumSet(HighWaterOf, S) = Sum(Marks, S) 
  BY <1>7 DEF HighWaterOf, MarkSum, MarkOf, MapThenSumSet, MapThenFoldSet
<1> QED  BY <1>1, <1>8, <1>9, <1>10

\* The items the totals count: all but the removed ones.
Kept == Live \cup Settled

\* The fields of the records the class keeps its numbers in.
Shape ==
    /\ DOMAIN counters = {"physical", "succeeded", "weight", "total"}
    /\ DOMAIN totals = {"bytes", "files", "doneBytes", "doneFiles", "largest"}
    /\ DOMAIN outcomes = Outcome
    /\ counters = [x \in DOMAIN counters |-> counters[x]]
    /\ totals = [x \in DOMAIN totals |-> totals[x]]
    /\ outcomes = [x \in DOMAIN outcomes |-> outcomes[x]]
    /\ unplanned \in Nat

\* The visible progress: settled items count whole, live ones up to their mark,
\* and what the planner could not plan counts one each.
ProgressAccount ==
    /\ counters.total = Sum(Weights, Kept) + unplanned
    /\ counters.weight = Sum(Weights, Settled) + Sum(Marks, Live) + unplanned

\* The totals, which never wrap, and what is transferred of them.
TotalsAccount ==
    /\ totals.bytes = Sum(Sizes, Kept)
    /\ totals.bytes <= MaxU64
    /\ totals.files = Cardinality(Kept)
    /\ totals.doneBytes = Sum(Sizes, Done)
    /\ totals.doneFiles = Cardinality(Done)
    /\ counters.succeeded = totals.doneBytes

\* The results: one count per outcome, and a record per item that did not succeed.
ResultsAccount ==
    /\ \A o \in Outcome :
          outcomes[o] = Cardinality(WithFate({o}))
                          + (IF o = "Failed" THEN unplanned ELSE 0)
    /\ retained = {[id |-> id, outcome |-> fate[id]] :
                       id \in Settled \ WithFate({"Succeeded"})}

\* What is inductive together with the invariant of the containers.
Accounts == Shape /\ ProgressAccount /\ TotalsAccount /\ ResultsAccount

\* The accounts are the two ledgers the runs check.
LEMMA AccountsLedgers ==
    ASSUME IInv, Accounts
    PROVE  ResolutionLedger /\ ResultLedger
<1>1. /\ Kept \in SUBSET Issued /\ Settled \in SUBSET Issued
      /\ Live \in SUBSET Issued /\ Done \in SUBSET Issued
  BY ItemNumbersHold DEF ItemNumbers, Kept, Settled, Done, WithFate
<1>2. /\ BytesOf(Kept) = Sum(Sizes, Kept) /\ WeightOf(Kept) = Sum(Weights, Kept)
      /\ WeightOf(Settled) = Sum(Weights, Settled)
      /\ BytesOf(Done) = Sum(Sizes, Done)
  BY <1>1, SumForms
<1>3. MapThenSumSet(HighWaterOf, Live) = Sum(Marks, Live)
  BY <1>1, SumForms
<1>4. ResultLedger
  BY <1>2 DEF Accounts, TotalsAccount, ResultsAccount, ResultLedger, Kept, Done
<1>5. ResolutionLedger
  BY <1>2, <1>3 DEF Accounts, ProgressAccount, ResolutionLedger, Kept
<1> QED  BY <1>4, <1>5

\* What resolve_locked() credits an item with, and the sum of it.
Credit(fl, hw, id) ==
    LET w == Weight(fl[id].size) IN w - Lesser(w, MarkOf(hw, id))
CreditSum(fl, hw, S) == MapThenSumSet(LAMBDA id : Credit(fl, hw, id), S)
CreditSums(fl, hw, S, g) ==
    g = [s \in SUBSET S |-> IF s = {} THEN 0 ELSE Credit(fl, hw, Pick(s)) + g[s \ {Pick(s)}]]

LEMMA CreditsAdded ==
    ASSUME NEW fl, NEW hw, NEW S, IsFiniteSet(S), NEW f, \A x \in S : f[x] = Credit(fl, hw, x)
    PROVE  CreditSum(fl, hw, S) = Sum(f, S)
<1> DEFINE h == CHOOSE k : CreditSums(fl, hw, S, k)
<1>1. \A g : Sums(f, S, g) <=> CreditSums(fl, hw, S, g)
  <2>1. \A s \in SUBSET S : s # {} => f[Pick(s)] = Credit(fl, hw, Pick(s))  BY PickIn
  <2> QED  BY <2>1 DEF Sums, CreditSums
<1>2. CreditSums(fl, hw, S, h)
  <2>1. \E g : CreditSums(fl, hw, S, g)  BY <1>1, SumsExist
  <2> QED  BY <2>1
<1>3. CreditSum(fl, hw, S) = h[S]  BY DEF CreditSum, MapThenSumSet, MapThenFoldSet, Pick, CreditSums
<1> HIDE DEF h
<1> QED  BY <1>1, <1>2, <1>3, SumIs

\* resolve_locked() adds that sum to the progress.
LEMMA LockedNumbers ==
    ASSUME NEW S, NEW o, ResolveLocked(S, o)
    PROVE  /\ counters' = [counters EXCEPT
                !.weight = @ + CreditSum(file, highWater, S),
                !.succeeded = IF o \in Transferred THEN Wrap(@ + BytesOf(S)) ELSE @]
<1>1. counters' = [counters EXCEPT
                !.weight = @ + MapThenSumSet(LAMBDA id : LET w == Weight(file[id].size)
                      IN  w - Lesser(w, HighWaterOf(id)), S),
                !.succeeded = IF o \in Transferred THEN Wrap(@ + BytesOf(S)) ELSE @]
   BY DEF ResolveLocked, MapThenSumSet, MapThenFoldSet
<1>2. MapThenSumSet(LAMBDA id : LET w == Weight(file[id].size)
                      IN  w - Lesser(w, HighWaterOf(id)), S) = CreditSum(file, highWater, S)
  BY DEF MapThenSumSet, MapThenFoldSet, CreditSum, Credit, HighWaterOf, MarkOf
<1> QED  BY <1>1, <1>2

\* The items are the same as long as none is issued.
LEMMA IssuedSame == next' = next => Issued' = Issued
BY DEF Issued, IdsBefore

\* What the accounts keep of the items, when neither their number nor their
\* fate changes.
LEMMA SameItems ==
    ASSUME IInv, IInv', UNCHANGED <<next, fate>>,
           \A id \in Issued : file'[id].size = file[id].size
    PROVE  /\ Sizes' = Sizes /\ Weights' = Weights
           /\ Live' = Live /\ Settled' = Settled /\ Done' = Done /\ Kept' = Kept
           /\ \A o : WithFate({o})' = WithFate({o})
<1>1. Issued' = Issued  BY DEF Issued, IdsBefore
<1>2. Sizes' = Sizes /\ Weights' = Weights  BY <1>1 DEF Sizes, Weights
<1>3. Live' = Live  BY <1>1, ItemNumbersHold, ItemNumbersNext DEF ItemNumbers
<1>4. Settled' = Settled /\ Done' = Done /\ \A o : WithFate({o})' = WithFate({o})
  BY <1>1 DEF Settled, Done, WithFate
<1> QED  BY <1>2, <1>3, <1>4 DEF Kept

\* A step that touches none of the numbers.
LEMMA SameAccounts ==
    ASSUME IInv, IInv', Accounts,
           UNCHANGED <<next, fate, highWater, counters, totals, outcomes, retained, unplanned>>,
           \A id \in Issued : file'[id].size = file[id].size
    PROVE  Accounts'
<1>1. /\ Sizes' = Sizes /\ Weights' = Weights
      /\ Live' = Live /\ Settled' = Settled /\ Done' = Done /\ Kept' = Kept
      /\ \A o : WithFate({o})' = WithFate({o})
  BY SameItems
<1>2. Marks' = Marks  BY DEF Marks, HighWaterOf, Issued, IdsBefore
<1>3. Shape'  BY DEF Accounts, Shape
<1>4. ProgressAccount'  BY <1>1, <1>2 DEF Accounts, ProgressAccount
<1>5. TotalsAccount'  BY <1>1 DEF Accounts, TotalsAccount
<1>6. ResultsAccount'
  BY <1>1, IssuedSame DEF Accounts, ResultsAccount, WithFate
<1> QED  BY <1>3, <1>4, <1>5, <1>6 DEF Accounts

\* What the sums need to know of the items.
LEMMA Numbers ==
    ASSUME IInv
    PROVE  /\ IsFiniteSet(Issued)
           /\ \A id \in Issued : /\ Sizes[id] \in Nat /\ Weights[id] \in Nat
                                 /\ Marks[id] \in Nat /\ Marks[id] <= Weights[id]
           /\ Live \in SUBSET Issued /\ Settled \in SUBSET Issued
           /\ Done \in SUBSET Settled /\ Kept \in SUBSET Issued
           /\ Live \cap Settled = {}
           /\ Live = {id \in Issued : fate[id] = "Live"}
           /\ IsFiniteSet(Live) /\ IsFiniteSet(Settled) /\ IsFiniteSet(Done) /\ IsFiniteSet(Kept)
<1>1. ItemNumbers  BY ItemNumbersHold
<1>2. /\ Live \in SUBSET Issued /\ Settled \in SUBSET Issued
      /\ Done \in SUBSET Settled /\ Kept \in SUBSET Issued
      /\ Live \cap Settled = {}
  BY <1>1 DEF ItemNumbers, Settled, Done, WithFate, Transferred, Outcome, Kept
<1>3. Done \in SUBSET Issued  BY <1>2
<1>4. IsFiniteSet(Live) /\ IsFiniteSet(Settled) /\ IsFiniteSet(Done) /\ IsFiniteSet(Kept)
  BY <1>1, <1>2, <1>3, FS_Subset DEF ItemNumbers
<1> QED  BY <1>1, <1>2, <1>4 DEF ItemNumbers

\* record_attempt_bytes() moves the mark of one item and the counter alike.
LEMMA RecordAccounts ==
    ASSUME IInv, IInv', Accounts, NEW id \in active, NEW bytes \in Chunk,
           RecordAttemptBytes(id, bytes)
    PROVE  Accounts' /\ counters'.weight >= counters.weight
<1> DEFINE mark == Greater(HighWaterOf(id), Lesser(bytes, Weight(file[id].size)))
<1>1. /\ highWater' = Put(highWater, id, mark)
      /\ counters'.weight = counters.weight + (mark - HighWaterOf(id))
      /\ counters'.total = counters.total /\ counters'.succeeded = counters.succeeded
      /\ Shape'
      /\ UNCHANGED <<next, file, fate, totals, outcomes, retained, unplanned>>
  <2>1. DOMAIN counters = {"physical", "succeeded", "weight", "total"}
    BY DEF Accounts, Shape
  <2>2. /\ counters'.weight = counters.weight + (mark - HighWaterOf(id))
        /\ counters'.total = counters.total /\ counters'.succeeded = counters.succeeded
        /\ DOMAIN counters' = DOMAIN counters
        /\ counters' = [x \in DOMAIN counters' |-> counters'[x]]
    BY <2>1 DEF RecordAttemptBytes
  <2>3. UNCHANGED <<next, file, fate, totals, outcomes, retained, unplanned>>
    BY DEF RecordAttemptBytes, queueVars, resultVars
  <2> QED  BY <2>1, <2>2, <2>3 DEF RecordAttemptBytes, Accounts, Shape
<1>2. /\ Sizes' = Sizes /\ Weights' = Weights
      /\ Live' = Live /\ Settled' = Settled /\ Done' = Done /\ Kept' = Kept
      /\ \A o : WithFate({o})' = WithFate({o})
  BY <1>1, SameItems
<1>3. id \in Live /\ id \in Issued  BY IInvFacts DEF Live
<1>4. HighWaterOf(id) = Marks[id] /\ Marks[id] \in Nat  BY <1>3, Numbers DEF Marks
<1>5. mark \in Nat /\ mark >= Marks[id]
  <2>1. bytes \in Nat /\ Weight(file[id].size) \in Nat
    BY <1>3, Numbers, PlanAssumption DEF Weights
  <2> QED  BY <1>4, <2>1 DEF Greater, Lesser
<1> HIDE DEF mark
<1>6. Marks' = [x \in Issued |-> IF x = id THEN mark ELSE Marks[x]]
  <2>1. Issued' = Issued  BY <1>1 DEF Issued, IdsBefore
  <2>2. \A x \in Issued : HighWaterOf(x)' = IF x = id THEN mark ELSE HighWaterOf(x)
    BY <1>1 DEF HighWaterOf, Put
  <2> QED  BY <2>1, <2>2 DEF Marks
<1>7. Sum(Marks', Live) = mark + Sum(Marks, Live \ {id})
  <2>1. \A x \in Live : Marks'[x] \in Nat  BY <1>5, <1>6, Numbers
  <2>2. Sum(Marks', Live) = Marks'[id] + Sum(Marks', Live \ {id})
    BY <1>3, <2>1, Numbers, SumTakes
  <2>3. IsFiniteSet(Live \ {id})  BY Numbers, FS_Subset
  <2>4. \A x \in Live \ {id} : Marks'[x] = Marks[x]  BY <1>6, Numbers
  <2>5. Sum(Marks', Live \ {id}) = Sum(Marks, Live \ {id})  BY <2>3, <2>4, SumAgree
  <2> QED  BY <1>3, <1>6, <2>2, <2>5
<1>8. Sum(Marks, Live) = Marks[id] + Sum(Marks, Live \ {id})
  <2>1. \A x \in Live : Marks[x] \in Nat  BY Numbers
  <2> QED  BY <1>3, <2>1, Numbers, SumTakes
<1>9. Sum(Marks, Live \ {id}) \in Nat /\ Sum(Weights, Settled) \in Nat
  <2>1. IsFiniteSet(Live \ {id})  BY Numbers, FS_Subset
  <2>2. \A x \in Live \ {id} : Marks[x] \in Nat  BY Numbers
  <2>3. \A x \in Settled : Weights[x] \in Nat  BY Numbers
  <2> QED  BY <2>1, <2>2, <2>3, Numbers, SumNat
<1>10. counters.weight = Sum(Weights, Settled) + Sum(Marks, Live) + unplanned
       /\ unplanned \in Nat
  BY DEF Accounts, ProgressAccount, Shape
<1>11. counters'.weight = Sum(Weights, Settled) + Sum(Marks', Live) + unplanned
       /\ counters'.weight >= counters.weight
  BY <1>1, <1>4, <1>5, <1>7, <1>8, <1>9, <1>10
<1>12. ProgressAccount'
  BY <1>1, <1>2, <1>11 DEF Accounts, ProgressAccount
<1>13. TotalsAccount'  BY <1>1, <1>2 DEF Accounts, TotalsAccount
<1>14. ResultsAccount'
  BY <1>1, <1>2, IssuedSame DEF Accounts, ResultsAccount, WithFate
<1> QED  BY <1>1, <1>11, <1>12, <1>13, <1>14 DEF Accounts

\* The counts of results are numbers.
LEMMA OutcomesNat ==
    ASSUME IInv, Accounts
    PROVE  \A x \in Outcome : outcomes[x] \in Nat
<1>1. \A x \in Outcome : IsFiniteSet(WithFate({x}))
  <2>1. \A x \in Outcome : WithFate({x}) \in SUBSET Issued  BY DEF WithFate
  <2> QED  BY <2>1, Numbers, FS_Subset
<1>2. \A x \in Outcome : Cardinality(WithFate({x})) \in Nat
  BY <1>1, FS_CardinalityType
<1>3. \A x \in Outcome :
         outcomes[x] = Cardinality(WithFate({x})) + (IF x = "Failed" THEN unplanned ELSE 0)
  BY DEF Accounts, ResultsAccount
<1>4. unplanned \in Nat  BY DEF Accounts, Shape
<1>5. \A x \in Outcome : (IF x = "Failed" THEN unplanned ELSE 0) \in Nat  BY <1>4
<1>6. \A a, b \in Nat : a + b \in Nat  OBVIOUS
<1> QED  BY <1>2, <1>3, <1>5, <1>6

\* So is the visible progress.
LEMMA WeightNat ==
    ASSUME IInv, Accounts
    PROVE  counters.weight \in Nat
<1>1. counters.weight = Sum(Weights, Settled) + Sum(Marks, Live) + unplanned
      /\ unplanned \in Nat
  BY DEF Accounts, ProgressAccount, Shape
<1>2. (\A x \in Settled : Weights[x] \in Nat) /\ (\A x \in Live : Marks[x] \in Nat)
  BY Numbers
<1>3. Sum(Weights, Settled) \in Nat /\ Sum(Marks, Live) \in Nat
  BY <1>2, Numbers, SumNat
<1> QED  BY <1>1, <1>3

\* What resolve_locked() adds to the progress and to the totals.
LEMMA SettledNumbers ==
    ASSUME IInv, NEW S, NEW o \in Outcome, Accounts, ResolveLocked(S, o)
    PROVE  /\ Shape'
           /\ counters'.total = counters.total
           /\ counters'.weight = counters.weight + CreditSum(file, highWater, S)
           /\ counters'.succeeded = IF o \in Transferred
                                    THEN Wrap(counters.succeeded + BytesOf(S))
                                    ELSE counters.succeeded
           /\ totals'.bytes = totals.bytes /\ totals'.files = totals.files
           /\ totals'.doneBytes =
                 IF o \in Transferred
                 THEN totals.doneBytes
                        + Lesser(BytesOf(S),
                                 totals.bytes - Lesser(totals.bytes, totals.doneBytes))
                 ELSE totals.doneBytes
           /\ totals'.doneFiles =
                 IF o \in Transferred
                 THEN Greater(totals.doneFiles,
                              Lesser(totals.files, totals.doneFiles + Cardinality(S)))
                 ELSE totals.doneFiles
           /\ outcomes' = [x \in Outcome |-> outcomes[x] + (IF x = o THEN Cardinality(S) ELSE 0)]
           /\ unplanned' = unplanned
<1> DEFINE credits == CreditSum(file, highWater, S)
           wrapped == Wrap(counters.succeeded + BytesOf(S))
<1>1. counters' = [counters EXCEPT !.weight = counters.weight + credits,
                      !.succeeded = IF o \in Transferred THEN wrapped
                                    ELSE counters.succeeded]
  <2>1. /\ counters' = [counters EXCEPT !.weight = @ + credits,
                !.succeeded = IF o \in Transferred THEN Wrap(@ + BytesOf(S)) ELSE @]
    BY LockedNumbers
  <2> QED  BY <2>1
<1> HIDE DEF credits, wrapped
<1>2. DOMAIN counters = {"physical", "succeeded", "weight", "total"}
      /\ DOMAIN totals = {"bytes", "files", "doneBytes", "doneFiles", "largest"}
      /\ DOMAIN outcomes = Outcome
      /\ outcomes = [x \in DOMAIN outcomes |-> outcomes[x]]
  BY DEF Accounts, Shape
<1>3. /\ counters'.total = counters.total
      /\ counters'.weight = counters.weight + credits
      /\ counters'.succeeded = IF o \in Transferred THEN wrapped ELSE counters.succeeded
      /\ DOMAIN counters' = DOMAIN counters
      /\ counters' = [x \in DOMAIN counters' |-> counters'[x]]
  BY <1>1, <1>2
<1> DEFINE bytes == Lesser(BytesOf(S), totals.bytes - Lesser(totals.bytes, totals.doneBytes))
           files == Greater(totals.doneFiles,
                            Lesser(totals.files, totals.doneFiles + Cardinality(S)))
<1>4. totals' = IF o \notin Transferred THEN totals
                ELSE [totals EXCEPT !.doneBytes = totals.doneBytes + bytes,
                                    !.doneFiles = files]
  BY DEF ResolveLocked
<1> HIDE DEF bytes, files
<1>5. /\ totals'.bytes = totals.bytes /\ totals'.files = totals.files
      /\ totals'.doneBytes = IF o \in Transferred THEN totals.doneBytes + bytes
                             ELSE totals.doneBytes
      /\ totals'.doneFiles = IF o \in Transferred THEN files ELSE totals.doneFiles
      /\ DOMAIN totals' = DOMAIN totals
      /\ totals' = [x \in DOMAIN totals' |-> totals'[x]]
  <2>1. CASE o \in Transferred  BY <1>2, <1>4, <2>1
  <2>2. CASE o \notin Transferred  BY <1>2, <1>4, <2>2 DEF Accounts, Shape
  <2> QED  BY <2>1, <2>2
<1>6. outcomes' = [outcomes EXCEPT ![o] = @ + Cardinality(S)] /\ unplanned' = unplanned
  BY DEF ResolveLocked
<1>7. \A x \in Outcome : outcomes[x] \in Nat  BY OutcomesNat
<1>8. outcomes' = [x \in Outcome |-> outcomes[x] + (IF x = o THEN Cardinality(S) ELSE 0)]
  <2>1. \A x \in Outcome : outcomes[x] = outcomes[x] + 0  BY <1>7
  <2> QED  BY <1>2, <1>6, <2>1
<1>9. Shape'
  <2>1. DOMAIN outcomes' = Outcome /\ outcomes' = [x \in DOMAIN outcomes' |-> outcomes'[x]]
    BY <1>8
  <2>2. unplanned' \in Nat  BY <1>6 DEF Accounts, Shape
  <2>3. DOMAIN counters' = DOMAIN counters /\ DOMAIN totals' = DOMAIN totals
    BY <1>3, <1>5
  <2> QED  BY <1>2, <1>3, <1>5, <2>1, <2>2, <2>3 DEF Shape
<1> QED  BY <1>3, <1>5, <1>6, <1>8, <1>9 DEF credits, wrapped, bytes, files

\* What the items lack to their weight.
Credits == [id \in Issued |-> Weights[id] - Marks[id]]

\* What is credited on resolution is exactly what the marks had left open.
LEMMA CreditsSum ==
    ASSUME IInv, NEW S \in SUBSET Issued
    PROVE  /\ CreditSum(file, highWater, S) = Sum(Credits, S)
           /\ Sum(Credits, S) \in Nat
           /\ Sum(Weights, S) = Sum(Credits, S) + Sum(Marks, S)
<1>1. IsFiniteSet(S)  BY Numbers, FS_Subset
<1>2. \A x \in S : /\ Credits[x] \in Nat /\ Marks[x] \in Nat
                   /\ Weights[x] = Credits[x] + Marks[x]
  BY Numbers DEF Credits
<1>3. \A x \in S : Credits[x] = Credit(file, highWater, x)
  <2> TAKE x \in S
  <2>1. Weights[x] = Weight(file[x].size) /\ Marks[x] = MarkOf(highWater, x)
    BY DEF Weights, Marks, HighWaterOf, MarkOf
  <2>2. Marks[x] <= Weights[x] /\ Marks[x] \in Nat /\ Weights[x] \in Nat  BY Numbers
  <2> QED  BY <2>1, <2>2 DEF Credits, Credit, Lesser
<1>4. CreditSum(file, highWater, S) = Sum(Credits, S)  BY <1>1, <1>3, CreditsAdded
<1>5. Sum(Credits, S) \in Nat  BY <1>1, <1>2, SumNat
<1>6. Sum(Weights, S) = Sum(Credits, S) + Sum(Marks, S)  BY <1>1, <1>2, SumOfTwo
<1> QED  BY <1>4, <1>5, <1>6

\* Where the items of S go when they all get the outcome o.
LEMMA SettledItems ==
    ASSUME IInv, IInv', NEW S \in SUBSET Live, NEW o \in Outcome, ResolveLocked(S, o)
    PROVE  /\ Sizes' = Sizes /\ Weights' = Weights
           /\ Marks' = [x \in Issued |-> IF x \in S THEN 0 ELSE Marks[x]]
           /\ Live' = Live \ S /\ Settled' = Settled \cup S /\ Kept' = Kept
           /\ Done' = IF o \in Transferred THEN Done \cup S ELSE Done
           /\ Issued' = Issued
           /\ fate' = [id \in Issued |-> IF id \in S THEN o ELSE fate[id]]
<1>1. /\ UNCHANGED <<file, next>>
      /\ fate' = [id \in Issued |-> IF id \in S THEN o ELSE fate[id]]
      /\ highWater' = Drop(highWater, S)
  BY ResolveLockedFacts
<1>2. Issued' = Issued  BY <1>1, IssuedSame
<1>3. Sizes' = Sizes /\ Weights' = Weights  BY <1>1, <1>2 DEF Sizes, Weights
<1>4. Marks' = [x \in Issued |-> IF x \in S THEN 0 ELSE Marks[x]]
  <2>1. \A x \in Issued : HighWaterOf(x)' = IF x \in S THEN 0 ELSE HighWaterOf(x)
    BY <1>1 DEF HighWaterOf, Drop, Restrict
  <2> QED  BY <1>2, <2>1 DEF Marks
<1>5. Live' = {id \in Issued : fate'[id] = "Live"} /\ Live = {id \in Issued : fate[id] = "Live"}
  BY <1>2, Numbers, ItemNumbersNext DEF ItemNumbers
<1>6. Live' = Live \ S  BY <1>1, <1>5 DEF Outcome
<1>7. Settled' = Settled \cup S  BY <1>1, <1>2, <1>5 DEF Settled
<1>8. Done' = IF o \in Transferred THEN Done \cup S ELSE Done
  <2>1. \A id \in S : fate[id] \notin Transferred  BY <1>5 DEF Transferred
  <2> QED  BY <1>1, <1>2, <1>5, <2>1 DEF Done, WithFate
<1> QED  BY <1>1, <1>2, <1>3, <1>4, <1>6, <1>7, <1>8 DEF Kept

\* Whole sums over the items S leaves and enters.
LEMMA SettleSums ==
    ASSUME IInv, NEW S \in SUBSET Live, NEW m,
           m = [x \in Issued |-> IF x \in S THEN 0 ELSE Marks[x]]
    PROVE  /\ Sum(Weights, Settled \cup S) + Sum(m, Live \ S)
                = Sum(Weights, Settled) + Sum(Marks, Live) + Sum(Credits, S)
           /\ Sum(Weights, Settled) + Sum(Marks, Live) \in Nat
           /\ Sum(Credits, S) \in Nat
<1>1. S \in SUBSET Issued /\ S \cap Settled = {}  BY Numbers
<1>2. IsFiniteSet(S) /\ IsFiniteSet(Live \ S)  BY <1>1, Numbers, FS_Subset
<1>3. Sum(Weights, Settled \cup S) = Sum(Weights, Settled) + Sum(Weights, S)
  <2>1. \A x \in Settled \cup S : Weights[x] \in Nat  BY <1>1, Numbers
  <2>2. Settled \cap S = {}  BY <1>1
  <2> QED  BY <1>2, <2>1, <2>2, Numbers, SumUnion
<1>4. Sum(m, Live \ S) = Sum(Marks, Live \ S)
  <2>1. \A x \in Live \ S : m[x] = Marks[x]  BY Numbers
  <2> QED  BY <1>2, <2>1, SumAgree
<1>5. /\ Sum(Marks, Live \ S) \in Nat /\ Sum(Marks, S) \in Nat
      /\ Sum(Marks, Live) = Sum(Marks, Live \ S) + Sum(Marks, S)
  <2>1. \A x \in Live : Marks[x] \in Nat  BY Numbers
  <2> QED  BY <2>1, Numbers, SumSplit
<1>6. Sum(Credits, S) \in Nat /\ Sum(Weights, S) = Sum(Credits, S) + Sum(Marks, S)
  BY <1>1, CreditsSum
<1>7. Sum(Weights, Settled) \in Nat
  <2>1. \A x \in Settled : Weights[x] \in Nat  BY Numbers
  <2> QED  BY <2>1, Numbers, SumNat
<1> QED  BY <1>3, <1>4, <1>5, <1>6, <1>7

\* Items that gain a transferred outcome never exceed what is left of the totals.
LEMMA DoneSums ==
    ASSUME IInv, TotalsAccount, NEW S \in SUBSET Live
    PROVE  /\ Sum(Sizes, Done \cup S) = Sum(Sizes, Done) + Sum(Sizes, S)
           /\ Cardinality(Done \cup S) = Cardinality(Done) + Cardinality(S)
           /\ Sum(Sizes, Done) + Sum(Sizes, S) <= totals.bytes
           /\ Cardinality(Done) + Cardinality(S) <= totals.files
           /\ Sum(Sizes, Done) \in Nat /\ Sum(Sizes, S) \in Nat /\ totals.bytes \in Nat
           /\ Cardinality(Done) \in Nat /\ Cardinality(S) \in Nat /\ totals.files \in Nat
           /\ totals.bytes <= MaxU64
<1>1. S \in SUBSET Issued /\ Done \cap S = {} /\ Done \cup S \in SUBSET Kept
  BY Numbers DEF Kept
<1>2. IsFiniteSet(S) /\ IsFiniteSet(Done \cup S)  BY <1>1, Numbers, FS_Subset
<1>3. \A x \in Kept : Sizes[x] \in Nat  BY Numbers
<1>4. Sum(Sizes, Done \cup S) = Sum(Sizes, Done) + Sum(Sizes, S)
  <2>1. \A x \in Done \cup S : Sizes[x] \in Nat  BY <1>1, <1>3
  <2> QED  BY <1>1, <1>2, <2>1, Numbers, SumUnion
<1>5. /\ Sum(Sizes, Kept \ (Done \cup S)) \in Nat /\ Sum(Sizes, Done \cup S) \in Nat
      /\ Sum(Sizes, Kept) = Sum(Sizes, Kept \ (Done \cup S)) + Sum(Sizes, Done \cup S)
  BY <1>1, <1>3, Numbers, SumSplit
<1>6. Sum(Sizes, Done) \in Nat /\ Sum(Sizes, S) \in Nat
  <2>1. \A x \in Done : Sizes[x] \in Nat  BY <1>1, <1>3
  <2>2. \A x \in S : Sizes[x] \in Nat  BY <1>1, <1>3
  <2> QED  BY <1>2, <2>1, <2>2, Numbers, SumNat
<1>7. /\ Cardinality(Done) \in Nat /\ Cardinality(S) \in Nat /\ Cardinality(Kept) \in Nat
      /\ Cardinality(Done \cup S) <= Cardinality(Kept)
  BY <1>1, <1>2, Numbers, FS_CardinalityType, FS_Subset
<1>8. Cardinality(Done \cup S) = Cardinality(Done) + Cardinality(S)
  <2>1. Cardinality(Done \cup S) =
          Cardinality(Done) + Cardinality(S) - Cardinality(Done \cap S)
    BY <1>2, Numbers, FS_Union
  <2>2. Cardinality(Done \cap S) = 0  BY <1>1, FS_EmptySet
  <2> QED  BY <1>7, <2>1, <2>2
<1>9. totals.bytes = Sum(Sizes, Kept) /\ totals.files = Cardinality(Kept) /\ totals.bytes <= MaxU64
  BY DEF TotalsAccount
<1> QED  BY <1>4, <1>5, <1>6, <1>7, <1>8, <1>9

\* resolve_locked() keeps the accounts: a mark is traded for the rest of the
\* weight, and none of the saturating subtractions bites.
LEMMA SettleAccounts ==
    ASSUME IInv, IInv', Accounts, NEW S \in SUBSET Live, NEW o \in Outcome,
           ResolveLocked(S, o)
    PROVE  Accounts' /\ counters'.weight >= counters.weight
<1>1. /\ Sizes' = Sizes /\ Weights' = Weights
      /\ Marks' = [x \in Issued |-> IF x \in S THEN 0 ELSE Marks[x]]
      /\ Live' = Live \ S /\ Settled' = Settled \cup S /\ Kept' = Kept
      /\ Done' = IF o \in Transferred THEN Done \cup S ELSE Done
      /\ Issued' = Issued
      /\ fate' = [id \in Issued |-> IF id \in S THEN o ELSE fate[id]]
  BY SettledItems
<1>2. Accounts => Shape /\ ProgressAccount /\ TotalsAccount /\ ResultsAccount
  BY DEF Accounts
<1>3. S \in SUBSET Issued  BY Numbers
<1>4. ProgressAccount' /\ counters'.weight >= counters.weight
  <2>1. /\ counters'.total = counters.total /\ unplanned' = unplanned
        /\ counters'.weight = counters.weight + Sum(Credits, S)
    BY <1>3, CreditsSum, SettledNumbers
  <2>2. /\ Sum(Weights, Settled') + Sum(Marks', Live')
             = Sum(Weights, Settled) + Sum(Marks, Live) + Sum(Credits, S)
        /\ Sum(Weights, Settled) + Sum(Marks, Live) \in Nat
        /\ Sum(Credits, S) \in Nat
    BY <1>1, SettleSums
  <2>3. /\ counters.weight = Sum(Weights, Settled) + Sum(Marks, Live) + unplanned
        /\ counters.total = Sum(Weights, Kept) + unplanned /\ unplanned \in Nat
    BY <1>2 DEF ProgressAccount, Shape
  <2>4. counters'.weight = Sum(Weights, Settled') + Sum(Marks', Live') + unplanned'
    BY <2>1, <2>2, <2>3
  <2>5. counters'.weight >= counters.weight  BY <2>1, <2>2, <2>3
  <2> QED  BY <1>1, <2>1, <2>3, <2>4, <2>5 DEF ProgressAccount
<1>5. TotalsAccount'
  <2>1. totals'.bytes = totals.bytes /\ totals'.files = totals.files
    BY SettledNumbers
  <2>2. CASE o \notin Transferred
    <3>1. /\ counters'.succeeded = counters.succeeded
          /\ totals'.doneBytes = totals.doneBytes /\ totals'.doneFiles = totals.doneFiles
      BY <2>2, SettledNumbers
    <3> QED  BY <1>1, <1>2, <2>1, <2>2, <3>1 DEF TotalsAccount
  <2>3. CASE o \in Transferred
    <3>1. /\ Sum(Sizes, Done \cup S) = Sum(Sizes, Done) + Sum(Sizes, S)
          /\ Cardinality(Done \cup S) = Cardinality(Done) + Cardinality(S)
          /\ Sum(Sizes, Done) + Sum(Sizes, S) <= totals.bytes
          /\ Cardinality(Done) + Cardinality(S) <= totals.files
          /\ Sum(Sizes, Done) \in Nat /\ Sum(Sizes, S) \in Nat /\ totals.bytes \in Nat
          /\ Cardinality(Done) \in Nat /\ Cardinality(S) \in Nat /\ totals.files \in Nat
          /\ totals.bytes <= MaxU64
      BY <1>2, DoneSums
    <3>2. BytesOf(S) = Sum(Sizes, S)  BY <1>3, SumForms
    <3>3. /\ totals.doneBytes = Sum(Sizes, Done) /\ totals.doneFiles = Cardinality(Done)
          /\ counters.succeeded = totals.doneBytes
      BY <1>2 DEF TotalsAccount
    <3>4. totals'.doneBytes = Sum(Sizes, Done) + Sum(Sizes, S)
      <4>1. Lesser(BytesOf(S), totals.bytes - Lesser(totals.bytes, totals.doneBytes))
              = Sum(Sizes, S)
        BY <3>1, <3>2, <3>3 DEF Lesser
      <4>2. totals'.doneBytes = totals.doneBytes
               + Lesser(BytesOf(S), totals.bytes - Lesser(totals.bytes, totals.doneBytes))
        BY <2>3, SettledNumbers
      <4> QED  BY <3>3, <4>1, <4>2
    <3>5. totals'.doneFiles = Cardinality(Done) + Cardinality(S)
      <4>1. Greater(totals.doneFiles, Lesser(totals.files, totals.doneFiles + Cardinality(S)))
              = Cardinality(Done) + Cardinality(S)
        BY <3>1, <3>3 DEF Greater, Lesser
      <4> QED  BY <2>3, <4>1, SettledNumbers
    <3>6. counters'.succeeded = Sum(Sizes, Done) + Sum(Sizes, S)
      <4>1. counters'.succeeded = Wrap(Sum(Sizes, Done) + Sum(Sizes, S))
        BY <2>3, <3>2, <3>3, SettledNumbers
      <4>2. MaxU64 \in Nat /\ Sum(Sizes, Done) + Sum(Sizes, S) \in 0..MaxU64
        BY <3>1, PlanAssumption
      <4>3. \A n \in 0..MaxU64 : n % (MaxU64 + 1) = n  BY <4>2
      <4> QED  BY <4>1, <4>2, <4>3 DEF Wrap
    <3> QED  BY <1>1, <1>2, <2>1, <2>3, <3>1, <3>4, <3>5, <3>6 DEF TotalsAccount
  <2> QED  BY <2>2, <2>3
<1>6. ResultsAccount'
  <2>1. ASSUME NEW x \in Outcome
        PROVE  outcomes'[x] = Cardinality({id \in Issued : fate'[id] \in {x}})
                                + (IF x = "Failed" THEN unplanned' ELSE 0)
    <3> DEFINE W == {id \in Issued : fate[id] \in {x}}
               V == {id \in Issued : fate'[id] \in {x}}
               f == IF x = "Failed" THEN unplanned ELSE 0
    <3>1. outcomes[x] = Cardinality(W) + f /\ f \in Nat /\ unplanned' = unplanned
      BY <1>2, SettledNumbers DEF ResultsAccount, WithFate, Shape
    <3>2. outcomes'[x] = outcomes[x] + (IF x = o THEN Cardinality(S) ELSE 0)
      BY SettledNumbers
    <3>3. W \in SUBSET Issued /\ IsFiniteSet(W) /\ IsFiniteSet(S)
      BY <1>3, Numbers, FS_Subset
    <3>4. W \cap S = {}  BY Numbers DEF Outcome
    <3>5. V = IF x = o THEN W \cup S ELSE W  BY <1>1, <1>3, <3>4
    <3>6. Cardinality(W \cup S) = Cardinality(W) + Cardinality(S)
      <4> HIDE DEF W
      <4>1. Cardinality(W \cup S) = Cardinality(W) + Cardinality(S) - Cardinality(W \cap S)
        BY <3>3, FS_Union
      <4>2. Cardinality(W \cap S) = 0  BY <3>4, FS_EmptySet
      <4>3. Cardinality(W) \in Nat /\ Cardinality(S) \in Nat  BY <3>3, FS_CardinalityType
      <4> QED  BY <4>1, <4>2, <4>3
    <3>7. Cardinality(W) \in Nat /\ Cardinality(S) \in Nat  BY <3>3, FS_CardinalityType
    <3> HIDE DEF W, V, f
    <3>8. outcomes'[x] = Cardinality(V) + f  BY <3>1, <3>2, <3>5, <3>6, <3>7
    <3> QED  BY <3>1, <3>8 DEF V, f
  <2>2. retained' = {[id |-> id, outcome |-> fate'[id]] :
                        id \in (Settled \cup S) \ {id \in Issued : fate'[id] \in {"Succeeded"}}}
    <3>1. retained = {[id |-> id, outcome |-> fate[id]] :
                        id \in Settled \ {id \in Issued : fate[id] \in {"Succeeded"}}}
      BY <1>2 DEF ResultsAccount, WithFate
    <3>2. \A id \in Settled : id \in Issued /\ fate'[id] = fate[id]  BY <1>1, Numbers
    <3>3. \A id \in S : id \in Issued /\ fate'[id] = o  BY <1>1, <1>3
    <3>4. retained' = IF o = "Succeeded" THEN retained
                      ELSE retained \cup {[id |-> id, outcome |-> o] : id \in S}
      BY DEF ResolveLocked
    <3> DEFINE A == Settled \ {id \in Issued : fate[id] \in {"Succeeded"}}
               B == (Settled \cup S) \ {id \in Issued : fate'[id] \in {"Succeeded"}}
    <3>5. B = IF o = "Succeeded" THEN A ELSE A \cup S  BY <3>2, <3>3
    <3>6. \A id \in A : fate'[id] = fate[id]  BY <3>2
    <3>7. retained = {[id |-> id, outcome |-> fate'[id]] : id \in A}  BY <3>1, <3>6
    <3>8. {[id |-> id, outcome |-> o] : id \in S}
             = {[id |-> id, outcome |-> fate'[id]] : id \in S}
      BY <3>3
    <3> HIDE DEF A, B
    <3>9. retained' = {[id |-> id, outcome |-> fate'[id]] : id \in B}
      BY <3>4, <3>5, <3>7, <3>8
    <3> QED  BY <3>9 DEF B
  <2> QED  BY <1>1, <2>1, <2>2 DEF ResultsAccount, WithFate
<1> QED  BY <1>4, <1>5, <1>6, SettledNumbers DEF Accounts

\* Where the removed items go.
LEMMA RemovedItems ==
    ASSUME IInv, IInv', NEW gone \in SUBSET Queued, UNCHANGED <<file, next>>,
           highWater' = Drop(highWater, gone),
           fate' = [id \in Issued |-> IF id \in gone THEN "Removed" ELSE fate[id]]
    PROVE  /\ gone \in SUBSET Live
           /\ Sizes' = Sizes /\ Weights' = Weights
           /\ Marks' = [x \in Issued |-> IF x \in gone THEN 0 ELSE Marks[x]]
           /\ Live' = Live \ gone /\ Settled' = Settled /\ Kept' = Kept \ gone
           /\ Done' = Done
           /\ Issued' = Issued
           /\ \A o \in Outcome : {id \in Issued : fate'[id] \in {o}} = WithFate({o})
           /\ \A id \in Settled : fate'[id] = fate[id]
<1>1. Issued' = Issued  BY IssuedSame
<1>2. Sizes' = Sizes /\ Weights' = Weights  BY <1>1 DEF Sizes, Weights
<1>3. Marks' = [x \in Issued |-> IF x \in gone THEN 0 ELSE Marks[x]]
  <2>1. \A x \in Issued : HighWaterOf(x)' = IF x \in gone THEN 0 ELSE HighWaterOf(x)
    BY DEF HighWaterOf, Drop, Restrict
  <2> QED  BY <1>1, <2>1 DEF Marks
<1>4. Live' = {id \in Issued : fate'[id] = "Live"} /\ Live = {id \in Issued : fate[id] = "Live"}
  BY <1>1, Numbers, ItemNumbersNext DEF ItemNumbers
<1>5. gone \in SUBSET Live  BY DEF Live
<1>6. Live' = Live \ gone  BY <1>4, <1>5
<1>7. Settled' = Settled /\ \A id \in Settled : fate'[id] = fate[id]
  BY <1>1, <1>4, <1>5 DEF Settled, Outcome
<1>8. Done' = Done  BY <1>1, <1>4, <1>5 DEF Done, WithFate, Transferred
<1>9. \A o \in Outcome : {id \in Issued : fate'[id] \in {o}} = WithFate({o})
  BY <1>4, <1>5 DEF WithFate, Outcome
<1>10. Kept' = Kept \ gone  BY <1>5, <1>6, <1>7, Numbers DEF Kept
<1> QED  BY <1>1, <1>2, <1>3, <1>5, <1>6, <1>7, <1>8, <1>9, <1>10

\* What remove_pending_files() takes off the progress and the totals.
LEMMA RemovedNumbers ==
    ASSUME Accounts, NEW w, NEW d, NEW b, NEW c, NEW l,
           counters' = [counters EXCEPT !.total = @ - Lesser(@, w),
                                        !.weight = @ - Lesser(@, d)],
           totals' = [totals EXCEPT !.bytes = @ - Lesser(@, b),
                                    !.files = @ - Lesser(@, c), !.largest = l]
    PROVE  /\ DOMAIN counters' = DOMAIN counters
           /\ counters' = [x \in DOMAIN counters' |-> counters'[x]]
           /\ counters'.total = counters.total - Lesser(counters.total, w)
           /\ counters'.weight = counters.weight - Lesser(counters.weight, d)
           /\ counters'.succeeded = counters.succeeded
           /\ DOMAIN totals' = DOMAIN totals
           /\ totals' = [x \in DOMAIN totals' |-> totals'[x]]
           /\ totals'.bytes = totals.bytes - Lesser(totals.bytes, b)
           /\ totals'.files = totals.files - Lesser(totals.files, c)
           /\ totals'.doneBytes = totals.doneBytes /\ totals'.doneFiles = totals.doneFiles
BY DEF Accounts, Shape

\* The sums over what is removed, and over what it leaves.
LEMMA RemovedSums ==
    ASSUME IInv, NEW S \in SUBSET Live, NEW m,
           m = [x \in Issued |-> IF x \in S THEN 0 ELSE Marks[x]]
    PROVE  /\ WeightOf(S) = Sum(Weights, S) /\ BytesOf(S) = Sum(Sizes, S)
           /\ MapThenSumSet(HighWaterOf, S) = Sum(Marks, S)
           /\ Sum(Weights, S) \in Nat /\ Sum(Marks, S) \in Nat
           /\ Sum(Sizes, S) \in Nat /\ Cardinality(S) \in Nat
           /\ Sum(Weights, Kept) = Sum(Weights, Kept \ S) + Sum(Weights, S)
           /\ Sum(Sizes, Kept) = Sum(Sizes, Kept \ S) + Sum(Sizes, S)
           /\ Sum(Marks, Live) = Sum(m, Live \ S) + Sum(Marks, S)
           /\ Cardinality(Kept) = Cardinality(Kept \ S) + Cardinality(S)
           /\ Sum(Weights, Kept \ S) \in Nat /\ Sum(Sizes, Kept \ S) \in Nat
           /\ Sum(m, Live \ S) \in Nat /\ Cardinality(Kept \ S) \in Nat
           /\ Sum(Weights, Settled) \in Nat
<1>1. S \in SUBSET Issued /\ S \in SUBSET Kept  BY Numbers DEF Kept
<1>2. IsFiniteSet(S) /\ IsFiniteSet(Live \ S) /\ IsFiniteSet(Kept \ S)
  BY <1>1, Numbers, FS_Subset
<1>3. /\ WeightOf(S) = Sum(Weights, S) /\ BytesOf(S) = Sum(Sizes, S)
      /\ MapThenSumSet(HighWaterOf, S) = Sum(Marks, S)
  BY <1>1, SumForms
<1>4. \A x \in Kept : Sizes[x] \in Nat /\ Weights[x] \in Nat  BY Numbers
<1>5. /\ Sum(Weights, S) \in Nat /\ Sum(Weights, Kept \ S) \in Nat
      /\ Sum(Weights, Kept) = Sum(Weights, Kept \ S) + Sum(Weights, S)
  BY <1>1, <1>4, Numbers, SumSplit
<1>6. /\ Sum(Sizes, S) \in Nat /\ Sum(Sizes, Kept \ S) \in Nat
      /\ Sum(Sizes, Kept) = Sum(Sizes, Kept \ S) + Sum(Sizes, S)
  BY <1>1, <1>4, Numbers, SumSplit
<1>7. Sum(m, Live \ S) = Sum(Marks, Live \ S)
  <2>1. \A x \in Live \ S : m[x] = Marks[x]  BY Numbers
  <2> QED  BY <1>2, <2>1, SumAgree
<1>8. /\ Sum(Marks, Live \ S) \in Nat /\ Sum(Marks, S) \in Nat
      /\ Sum(Marks, Live) = Sum(Marks, Live \ S) + Sum(Marks, S)
  <2>1. \A x \in Live : Marks[x] \in Nat  BY Numbers
  <2> QED  BY <2>1, Numbers, SumSplit
<1>9. /\ Cardinality(S) \in Nat /\ Cardinality(Kept \ S) \in Nat
      /\ Cardinality(Kept) = Cardinality(Kept \ S) + Cardinality(S)
  <2>1. Cardinality(Kept \ S) = Cardinality(Kept) - Cardinality(Kept \cap S)
    BY Numbers, FS_Difference
  <2>2. Kept \cap S = S  BY <1>1
  <2>3. Cardinality(S) \in Nat /\ Cardinality(Kept \ S) \in Nat /\ Cardinality(Kept) \in Nat
    BY <1>2, Numbers, FS_CardinalityType
  <2>4. Cardinality(Kept \ S) = Cardinality(Kept) - Cardinality(S)  BY <2>1, <2>2
  <2> QED  BY <2>3, <2>4
<1>10. Sum(Weights, Settled) \in Nat
  <2>1. \A x \in Settled : Weights[x] \in Nat  BY Numbers
  <2> QED  BY <2>1, Numbers, SumNat
<1> QED  BY <1>3, <1>5, <1>6, <1>7, <1>8, <1>9, <1>10

\* remove_pending_files() takes off exactly what the removed items had added.
LEMMA RemoveAccounts ==
    ASSUME IInv, IInv', Accounts, NEW ids, RemovePendingFiles(ids)
    PROVE  Accounts' /\ \E id \in Issued : fate'[id] = "Removed" /\ fate[id] # "Removed"
<1> DEFINE gone == ids \cap Queued
           dropped == MapThenSumSet(HighWaterOf, gone)
           largest == IF \E id \in gone : file[id].size = totals.largest
                      THEN LargestOf((Queued \ gone) \cup active) ELSE totals.largest
<1>1. /\ highWater' = Drop(highWater, gone)
      /\ fate' = [id \in Issued |-> IF id \in gone THEN "Removed" ELSE fate[id]]
      /\ gone # {} /\ gone \in SUBSET Queued
      /\ UNCHANGED <<file, next, outcomes, retained, unplanned>>
  BY DEF RemovePendingFiles
<1>2. counters' = [counters EXCEPT !.total = @ - Lesser(@, WeightOf(gone)),
                                   !.weight = @ - Lesser(@, dropped)]
  BY DEF RemovePendingFiles
<1>3. totals' = [totals EXCEPT !.bytes = @ - Lesser(@, BytesOf(gone)),
                               !.files = @ - Lesser(@, Cardinality(gone)),
                               !.largest = largest]
  BY DEF RemovePendingFiles
<1> HIDE DEF gone, largest
<1>4. /\ gone \in SUBSET Live
      /\ Sizes' = Sizes /\ Weights' = Weights
      /\ Marks' = [x \in Issued |-> IF x \in gone THEN 0 ELSE Marks[x]]
      /\ Live' = Live \ gone /\ Settled' = Settled /\ Kept' = Kept \ gone
      /\ Done' = Done
      /\ Issued' = Issued
      /\ \A o \in Outcome : {id \in Issued : fate'[id] \in {o}} = WithFate({o})
      /\ \A id \in Settled : fate'[id] = fate[id]
  BY <1>1, RemovedItems
<1>5. /\ WeightOf(gone) = Sum(Weights, gone) /\ BytesOf(gone) = Sum(Sizes, gone)
      /\ dropped = Sum(Marks, gone)
      /\ Sum(Weights, gone) \in Nat /\ Sum(Marks, gone) \in Nat
      /\ Sum(Sizes, gone) \in Nat /\ Cardinality(gone) \in Nat
      /\ Sum(Weights, Kept) = Sum(Weights, Kept') + Sum(Weights, gone)
      /\ Sum(Sizes, Kept) = Sum(Sizes, Kept') + Sum(Sizes, gone)
      /\ Sum(Marks, Live) = Sum(Marks', Live') + Sum(Marks, gone)
      /\ Cardinality(Kept) = Cardinality(Kept') + Cardinality(gone)
      /\ Sum(Weights, Kept') \in Nat /\ Sum(Sizes, Kept') \in Nat
      /\ Sum(Marks', Live') \in Nat /\ Cardinality(Kept') \in Nat
      /\ Sum(Weights, Settled) \in Nat
  BY <1>4, RemovedSums
<1>6. /\ Shape /\ ProgressAccount /\ TotalsAccount /\ ResultsAccount
  BY DEF Accounts
<1> HIDE DEF dropped
<1>7. /\ DOMAIN counters' = DOMAIN counters
      /\ counters' = [x \in DOMAIN counters' |-> counters'[x]]
      /\ counters'.total = counters.total - Lesser(counters.total, Sum(Weights, gone))
      /\ counters'.weight = counters.weight - Lesser(counters.weight, Sum(Marks, gone))
      /\ counters'.succeeded = counters.succeeded
      /\ DOMAIN totals' = DOMAIN totals
      /\ totals' = [x \in DOMAIN totals' |-> totals'[x]]
      /\ totals'.bytes = totals.bytes - Lesser(totals.bytes, Sum(Sizes, gone))
      /\ totals'.files = totals.files - Lesser(totals.files, Cardinality(gone))
      /\ totals'.doneBytes = totals.doneBytes /\ totals'.doneFiles = totals.doneFiles
  <2>1. /\ DOMAIN counters' = DOMAIN counters
        /\ counters' = [x \in DOMAIN counters' |-> counters'[x]]
        /\ counters'.total = counters.total - Lesser(counters.total, WeightOf(gone))
        /\ counters'.weight = counters.weight - Lesser(counters.weight, dropped)
        /\ counters'.succeeded = counters.succeeded
        /\ DOMAIN totals' = DOMAIN totals
        /\ totals' = [x \in DOMAIN totals' |-> totals'[x]]
        /\ totals'.bytes = totals.bytes - Lesser(totals.bytes, BytesOf(gone))
        /\ totals'.files = totals.files - Lesser(totals.files, Cardinality(gone))
        /\ totals'.doneBytes = totals.doneBytes /\ totals'.doneFiles = totals.doneFiles
    BY <1>2, <1>3, RemovedNumbers
  <2> QED  BY <1>5, <2>1
<1>8. \A a, b \in Nat : (a + b) - Lesser(a + b, b) = a  BY DEF Lesser
<1>9. ProgressAccount'
  <2>1. counters.total = (Sum(Weights, Kept') + unplanned) + Sum(Weights, gone)
        /\ unplanned \in Nat
    BY <1>5, <1>6 DEF ProgressAccount, Shape
  <2>2. counters'.total = Sum(Weights, Kept') + unplanned
    <3> DEFINE a == Sum(Weights, Kept') + unplanned
    <3>1. a \in Nat /\ counters.total = a + Sum(Weights, gone)  BY <1>5, <2>1
    <3> HIDE DEF a
    <3>2. counters'.total = a  BY <1>5, <1>7, <1>8, <3>1
    <3> QED  BY <3>2 DEF a
  <2>3. counters.weight = (Sum(Weights, Settled) + Sum(Marks', Live') + unplanned)
                             + Sum(Marks, gone)
    BY <1>5, <1>6, <2>1 DEF ProgressAccount
  <2>4. counters'.weight = Sum(Weights, Settled) + Sum(Marks', Live') + unplanned
    <3> DEFINE a == Sum(Weights, Settled) + Sum(Marks', Live') + unplanned
    <3>1. a \in Nat /\ counters.weight = a + Sum(Marks, gone)  BY <1>5, <2>1, <2>3
    <3> HIDE DEF a
    <3>2. counters'.weight = a  BY <1>5, <1>7, <1>8, <3>1
    <3> QED  BY <3>2 DEF a
  <2> QED  BY <1>1, <1>4, <2>2, <2>4 DEF ProgressAccount
<1>10. TotalsAccount'
  <2>1. /\ totals.bytes = Sum(Sizes, Kept') + Sum(Sizes, gone)
        /\ totals.files = Cardinality(Kept') + Cardinality(gone)
        /\ totals.bytes <= MaxU64
    BY <1>5, <1>6 DEF TotalsAccount
  <2>2. totals'.bytes = Sum(Sizes, Kept') /\ totals'.files = Cardinality(Kept')
    BY <1>5, <1>7, <1>8, <2>1
  <2>3. totals'.bytes <= MaxU64  BY <1>5, <2>1, <2>2, PlanAssumption
  <2> QED  BY <1>4, <1>6, <1>7, <2>2, <2>3 DEF TotalsAccount
<1>11. ResultsAccount'
  <2>1. \A o \in Outcome :
           outcomes'[o] = Cardinality({id \in Issued : fate'[id] \in {o}})
                             + (IF o = "Failed" THEN unplanned' ELSE 0)
    BY <1>1, <1>4, <1>6 DEF ResultsAccount
  <2>2. Settled \ {id \in Issued : fate'[id] \in {"Succeeded"}} = Settled \ WithFate({"Succeeded"})
    BY <1>4 DEF Outcome
  <2>3. retained' = {[id |-> id, outcome |-> fate'[id]] :
                        id \in Settled \ {id \in Issued : fate'[id] \in {"Succeeded"}}}
    <3> DEFINE A == Settled \ WithFate({"Succeeded"})
    <3>1. retained' = {[id |-> id, outcome |-> fate[id]] : id \in A}
      BY <1>1, <1>6 DEF ResultsAccount
    <3>2. \A id \in A : fate'[id] = fate[id]  BY <1>4
    <3> HIDE DEF A
    <3>3. retained' = {[id |-> id, outcome |-> fate'[id]] : id \in A}  BY <3>1, <3>2
    <3> QED  BY <2>2, <3>3 DEF A
  <2> QED  BY <1>4, <2>1, <2>3 DEF ResultsAccount, WithFate
<1>12. Shape'  BY <1>1, <1>6, <1>7 DEF Shape
<1>13. \E id \in Issued : fate'[id] = "Removed" /\ fate[id] # "Removed"
  <2>1. PICK id \in gone : TRUE  BY <1>1
  <2>2. id \in Issued /\ fate[id] = "Live"  BY <1>4, Numbers
  <2> QED  BY <1>1, <2>2
<1> QED  BY <1>9, <1>10, <1>11, <1>12, <1>13 DEF Accounts

\* Items that enter the plan add their sizes, weights and marks.
LEMMA EnterAccounts ==
    ASSUME IInv, IInv', Accounts, NEW N, NEW n \in Nat,
           Issued' = Issued \cup N, Issued \cap N = {},
           \A id \in Issued : file'[id] = file[id],
           \A id \in Issued : HighWaterOf(id)' = HighWaterOf(id),
           fate' = [id \in Issued \cup N |-> IF id \in N THEN "Live" ELSE fate[id]],
           counters'.total = counters.total + Sum(Weights', N) + n,
           counters'.weight = counters.weight + Sum(Marks', N) + n,
           counters'.succeeded = counters.succeeded,
           totals'.bytes = totals.bytes + Sum(Sizes', N), totals'.bytes <= MaxU64,
           totals'.files = totals.files + Cardinality(N),
           totals'.doneBytes = totals.doneBytes, totals'.doneFiles = totals.doneFiles,
           Shape', retained' = retained, unplanned' = unplanned + n,
           \A o \in Outcome : outcomes'[o] = outcomes[o] + (IF o = "Failed" THEN n ELSE 0)
    PROVE  Accounts' /\ counters'.weight >= counters.weight
<1>1. /\ IsFiniteSet(Issued')
      /\ \A id \in Issued' : /\ Sizes'[id] \in Nat /\ Weights'[id] \in Nat
                             /\ Marks'[id] \in Nat
      /\ Live' = {id \in Issued' : fate'[id] = "Live"}
  BY ItemNumbersNext DEF ItemNumbers
<1>2. IsFiniteSet(N) /\ N \in SUBSET Issued'  BY <1>1, FS_Subset
<1>3. /\ \A id \in Issued : Sizes'[id] = Sizes[id] /\ Weights'[id] = Weights[id]
      /\ \A id \in Issued : Marks'[id] = Marks[id]
  BY DEF Sizes, Weights, Marks
<1>4. /\ Live' = Live \cup N /\ Settled' = Settled /\ Done' = Done
      /\ Kept' = Kept \cup N /\ Kept \cap N = {} /\ Live \cap N = {}
  <2>1. Live' = Live \cup N  BY <1>1, Numbers
  <2>2. Settled' = Settled /\ Done' = Done
    BY DEF Settled, Done, WithFate, Outcome, Transferred
  <2> QED  BY <2>1, <2>2, Numbers DEF Kept
<1>5. Shape /\ ProgressAccount /\ TotalsAccount /\ ResultsAccount  BY DEF Accounts
<1>6. /\ Sum(Weights', Kept') = Sum(Weights, Kept) + Sum(Weights', N)
      /\ Sum(Weights, Kept) \in Nat /\ Sum(Weights', N) \in Nat
  <2>1. \A x \in Kept : Weights'[x] = Weights[x]  BY <1>3, Numbers
  <2>2. \A x \in Kept \cup N : Weights'[x] \in Nat  BY <1>1, <1>2, Numbers
  <2>3. IsFiniteSet(Kept) /\ Kept \cap N = {}  BY <1>4, Numbers
  <2>4. /\ Sum(Weights', Kept \cup N) = Sum(Weights, Kept) + Sum(Weights', N)
        /\ Sum(Weights, Kept) \in Nat /\ Sum(Weights', N) \in Nat
    BY <1>2, <2>1, <2>2, <2>3, SumExtended
  <2> QED  BY <1>4, <2>4
<1>7. /\ Sum(Sizes', Kept') = Sum(Sizes, Kept) + Sum(Sizes', N)
      /\ Sum(Sizes, Kept) \in Nat /\ Sum(Sizes', N) \in Nat
  <2>1. \A x \in Kept : Sizes'[x] = Sizes[x]  BY <1>3, Numbers
  <2>2. \A x \in Kept \cup N : Sizes'[x] \in Nat  BY <1>1, <1>2, Numbers
  <2>3. IsFiniteSet(Kept) /\ Kept \cap N = {}  BY <1>4, Numbers
  <2>4. /\ Sum(Sizes', Kept \cup N) = Sum(Sizes, Kept) + Sum(Sizes', N)
        /\ Sum(Sizes, Kept) \in Nat /\ Sum(Sizes', N) \in Nat
    BY <1>2, <2>1, <2>2, <2>3, SumExtended
  <2> QED  BY <1>4, <2>4
<1>8. /\ Sum(Marks', Live') = Sum(Marks, Live) + Sum(Marks', N)
      /\ Sum(Marks, Live) \in Nat /\ Sum(Marks', N) \in Nat
  <2>1. \A x \in Live : Marks'[x] = Marks[x]  BY <1>3, Numbers
  <2>2. \A x \in Live \cup N : Marks'[x] \in Nat  BY <1>1, <1>2, Numbers
  <2>3. IsFiniteSet(Live) /\ Live \cap N = {}  BY <1>4, Numbers
  <2>4. /\ Sum(Marks', Live \cup N) = Sum(Marks, Live) + Sum(Marks', N)
        /\ Sum(Marks, Live) \in Nat /\ Sum(Marks', N) \in Nat
    BY <1>2, <2>1, <2>2, <2>3, SumExtended
  <2> QED  BY <1>4, <2>4
<1>9. Sum(Weights', Settled) = Sum(Weights, Settled) /\ Sum(Weights, Settled) \in Nat
      /\ Sum(Sizes', Done) = Sum(Sizes, Done)
  <2>1. \A x \in Settled : Weights'[x] = Weights[x] /\ Weights[x] \in Nat  BY <1>3, Numbers
  <2>2. \A x \in Done : Sizes'[x] = Sizes[x]  BY <1>3, Numbers
  <2> QED  BY <2>1, <2>2, Numbers, SumAgree, SumNat
<1>10. Cardinality(Kept') = Cardinality(Kept) + Cardinality(N)
  <2>1. Cardinality(Kept \cup N) = Cardinality(Kept) + Cardinality(N) - Cardinality(Kept \cap N)
    BY <1>2, Numbers, FS_Union
  <2>2. Cardinality(Kept \cap N) = 0  BY <1>4, FS_EmptySet
  <2>3. Cardinality(Kept) \in Nat /\ Cardinality(N) \in Nat
    BY <1>2, Numbers, FS_CardinalityType
  <2>4. Cardinality(Kept \cup N) = Cardinality(Kept) + Cardinality(N) - 0  BY <2>1, <2>2
  <2> QED  BY <1>4, <2>3, <2>4
<1>11. ProgressAccount' /\ counters'.weight >= counters.weight
  <2>1. /\ counters.total = Sum(Weights, Kept) + unplanned
        /\ counters.weight = Sum(Weights, Settled) + Sum(Marks, Live) + unplanned
        /\ unplanned \in Nat
    BY <1>5 DEF ProgressAccount, Shape
  <2>2. counters'.total = Sum(Weights', Kept') + unplanned'  BY <1>6, <2>1
  <2>3. counters'.weight = Sum(Weights', Settled) + Sum(Marks', Live') + unplanned'
    BY <1>8, <1>9, <2>1
  <2>4. counters'.weight >= counters.weight  BY <1>8, <1>9, <2>1
  <2> QED  BY <1>4, <2>2, <2>3, <2>4 DEF ProgressAccount
<1>12. TotalsAccount'  BY <1>4, <1>5, <1>7, <1>9, <1>10 DEF TotalsAccount
<1>13. ResultsAccount'
  <2>1. \A id \in Issued : fate'[id] = fate[id]  OBVIOUS
  <2>2. \A o \in Outcome : {id \in Issued' : fate'[id] \in {o}} = WithFate({o})
    BY DEF WithFate, Outcome
  <2>3. ASSUME NEW o \in Outcome
        PROVE  outcomes'[o] = Cardinality({id \in Issued' : fate'[id] \in {o}})
                                + (IF o = "Failed" THEN unplanned' ELSE 0)
    <3> DEFINE W == WithFate({o})
    <3>1. W \in SUBSET Issued  BY DEF WithFate
    <3>2. Cardinality(W) \in Nat  BY <3>1, Numbers, FS_Subset, FS_CardinalityType
    <3>3. outcomes[o] = Cardinality(W) + (IF o = "Failed" THEN unplanned ELSE 0)
      BY <1>5 DEF ResultsAccount
    <3>4. unplanned \in Nat  BY <1>5 DEF Shape
    <3>5. {id \in Issued' : fate'[id] \in {o}} = W  BY <2>2
    <3>6. outcomes'[o] = outcomes[o] + (IF o = "Failed" THEN n ELSE 0)
      OBVIOUS
    <3> HIDE DEF W
    <3>7. outcomes'[o] = Cardinality(W) + (IF o = "Failed" THEN unplanned + n ELSE 0)
      BY <3>2, <3>3, <3>4, <3>6
    <3> QED  BY <3>5, <3>7
  <2>4. Settled \ {id \in Issued' : fate'[id] \in {"Succeeded"}} = Settled \ WithFate({"Succeeded"})
    BY <2>2 DEF Outcome
  <2>5. retained' = {[id |-> id, outcome |-> fate'[id]] :
                        id \in Settled \ {id \in Issued' : fate'[id] \in {"Succeeded"}}}
    <3> DEFINE A == Settled \ WithFate({"Succeeded"})
    <3>1. retained' = {[id |-> id, outcome |-> fate[id]] : id \in A}
      BY <1>5 DEF ResultsAccount
    <3>2. \A id \in A : fate'[id] = fate[id]  BY <2>1, Numbers
    <3> HIDE DEF A
    <3>3. retained' = {[id |-> id, outcome |-> fate'[id]] : id \in A}  BY <3>1, <3>2
    <3> QED  BY <2>4, <3>3 DEF A
  <2> QED  BY <1>4, <2>3, <2>5 DEF ResultsAccount, WithFate
<1> QED  BY <1>11, <1>12, <1>13 DEF Accounts

\* The ids of a batch of n files, the first of which gets `first`.
BatchIds(first, n) == {first + i - 1 : i \in 1..n}

\* The items from `first` on have the sizes and weights of the batch's files.
ReadsBatch(plan, first, sizes, weights) ==
    \A i \in 1..Len(plan.files) :
       /\ sizes[first + i - 1] = plan.files[i].size
       /\ weights[first + i - 1] = Weight(plan.files[i].size)

\* The sums of a batch, over the ids it is given.
LEMMA BatchSums ==
    ASSUME NEW plan \in Batch, NEW first \in Nat, NEW sizes, NEW weights,
           ReadsBatch(plan, first, sizes, weights)
    PROVE  /\ Sum(sizes, BatchIds(first, Len(plan.files))) = PlanBytes(plan)
           /\ Sum(weights, BatchIds(first, Len(plan.files))) = PlanWeight(plan)
           /\ Cardinality(BatchIds(first, Len(plan.files))) = Len(plan.files)
           /\ IsFiniteSet(BatchIds(first, Len(plan.files)))
           /\ PlanBytes(plan) \in Nat /\ PlanWeight(plan) \in Nat
<1> DEFINE n == Len(plan.files)
           P == 1..n
           b == [i \in P |-> first + i - 1]
           s == [i \in P |-> plan.files[i].size]
           w == [i \in P |-> Weight(plan.files[i].size)]
           N == {first + i - 1 : i \in P}
<1>1. plan.files \in Seq([dest : Key, size : Size])  BY PlanAssumption
<1>2. n \in Nat /\ \A i \in P : plan.files[i].size \in Nat
  <2>1. n \in Nat /\ DOMAIN plan.files = P  BY <1>1, LenProperties
  <2>2. \A i \in P : plan.files[i] \in [dest : Key, size : Size]
    BY <1>1, ElementOfSeq
  <2>3. \A i \in P : plan.files[i].size \in Size  BY <2>2
  <2>4. Size \subseteq Nat  BY PlanAssumption
  <2> QED  BY <2>1, <2>3, <2>4
<1>3. IsFiniteSet(P) /\ Cardinality(P) = n
  <2>1. n \in Nat  BY <1>2
  <2> HIDE DEF n
  <2>2. IsFiniteSet(1..n) /\ Cardinality(1..n) = IF 1 > n THEN 0 ELSE n - 1 + 1
    BY <2>1, FS_Interval
  <2> QED  BY <2>1, <2>2
<1>4. \A i \in P : s[i] \in Nat /\ w[i] \in Nat  BY <1>2, WeightType
<1>5. PlanBytes(plan) = Sum(s, P)
  <2>1. \A i \in P : s[i] = plan.files[i].size  OBVIOUS
  <2>2. SizeSum(plan.files, P) = Sum(s, P)  BY <1>3, <2>1, SizesAdded
  <2>3. PlanBytes(plan) = SizeSum(plan.files, P)
    BY DEF PlanBytes, Positions, SizeSum, MapThenSumSet, MapThenFoldSet
  <2> QED  BY <2>2, <2>3
<1>6. PlanWeight(plan) = Sum(w, P)
  <2>1. \A i \in P : w[i] = Weight(plan.files[i].size)  OBVIOUS
  <2>2. WeightSum(plan.files, P) = Sum(w, P)  BY <1>3, <2>1, WeightsAdded
  <2>3. PlanWeight(plan) = WeightSum(plan.files, P)
    BY DEF PlanWeight, Positions, WeightSum, MapThenSumSet, MapThenFoldSet
  <2> QED  BY <2>2, <2>3
<1>7. N = {b[i] : i \in P}  OBVIOUS
<1>8. \A i, j \in P : b[i] = b[j] => i = j  OBVIOUS
<1>9. \A i \in P : sizes[b[i]] = s[i] /\ weights[b[i]] = w[i]
  <2>1. \A i \in P : /\ sizes[first + i - 1] = plan.files[i].size
                     /\ weights[first + i - 1] = Weight(plan.files[i].size)
    BY DEF ReadsBatch
  <2> QED  BY <2>1
<1>10. Cardinality(N) = n /\ IsFiniteSet(N)
  <2>1. b \in Bijection(P, N)
    BY <1>7, <1>8 DEF Bijection, Injection, Surjection, IsInjective
  <2>2. ExistsBijection(P, N)  BY <2>1 DEF ExistsBijection
  <2> QED  BY <1>3, <2>2, FS_Bijection
<1>14. \A i \in P : s[i] \in Nat /\ sizes[b[i]] = s[i]  BY <1>4, <1>9
<1>15. \A i \in P : w[i] \in Nat /\ weights[b[i]] = w[i]  BY <1>4, <1>9
<1> HIDE DEF b, s, w, N, P
<1>11. Sum(sizes, N) = Sum(s, P)
  <2>1. Sum(sizes, {b[i] : i \in P}) = Sum(s, P)  BY <1>3, <1>8, <1>14, SumRenamed
  <2> QED  BY <1>7, <2>1
<1>12. Sum(weights, N) = Sum(w, P)
  <2>1. Sum(weights, {b[i] : i \in P}) = Sum(w, P)  BY <1>3, <1>8, <1>15, SumRenamed
  <2> QED  BY <1>7, <2>1
<1>13. Sum(s, P) \in Nat /\ Sum(w, P) \in Nat  BY <1>3, <1>4, SumNat
<1>16. BatchIds(first, n) = N  BY DEF BatchIds, N, P
<1> QED  BY <1>5, <1>6, <1>10, <1>11, <1>12, <1>13, <1>16

\* The items an accepted append() brings, one per file of the batch.
LEMMA AppendedItems ==
    ASSUME IInv, NEW plan \in Batch, NEW allowDrained, AppendPlan(plan, allowDrained)
    PROVE  LET N == {next + i - 1 : i \in 1..Len(plan.files)} IN
           /\ Issued' = Issued \cup N /\ Issued \cap N = {} /\ next \in Nat
           /\ file' = [id \in Issued \cup N |->
                         IF id \in N THEN plan.files[id - next + 1] ELSE file[id]]
           /\ fate' = [id \in Issued \cup N |-> IF id \in N THEN "Live" ELSE fate[id]]
           /\ highWater' = highWater
<1> DEFINE n == Len(plan.files)
           N == {next + i - 1 : i \in 1..n}
<1>1. n \in Nat  BY PlanAssumption, LenProperties
<1>2. next \in 0..MaxId /\ MaxId \in Nat
  BY PlanAssumption DEF IInv, ContainersTypeOK
<1>3. n > 0 => ~(next = 0 \/ n > MaxId - next + 1)
  BY DEF AppendPlan, AppendResult
<1>4. n > 0 => next # 0 /\ n <= MaxId - next + 1
  <2> HIDE DEF n
  <2> QED  BY <1>1, <1>2, <1>3
<1>5. /\ file' = [id \in Issued \cup IdsFrom(next, n) |->
                    IF id \in IdsFrom(next, n) THEN plan.files[id - next + 1] ELSE file[id]]
      /\ fate' = [id \in Issued \cup IdsFrom(next, n) |->
                    IF id \in IdsFrom(next, n) THEN "Live" ELSE fate[id]]
      /\ next' = IdAfter(next, n) /\ highWater' = highWater
  BY DEF AppendPlan, CommitAppend, progressVars
<1> HIDE DEF n
<1>6. IdsFrom(next, n) = N
  <2>1. CASE n = 0  BY <2>1 DEF IdsFrom
  <2>2. CASE n # 0
    <3>1. IdsFrom(next, n) = next..(next + n - 1)  BY <2>2 DEF IdsFrom
    <3>2. \A id \in next..(next + n - 1) : id - next + 1 \in 1..n /\ id = next + (id - next + 1) - 1
      BY <1>1, <1>2
    <3>3. \A i \in 1..n : next + i - 1 \in next..(next + n - 1)  BY <1>1, <1>2
    <3> QED  BY <3>1, <3>2, <3>3
  <2> QED  BY <2>1, <2>2
<1>7. /\ IdsBefore(IdAfter(next, n)) = Issued \cup IdsFrom(next, n)
      /\ Issued \cap IdsFrom(next, n) = {}
  BY <1>1, <1>2, <1>4, IdsFresh DEF Issued
<1>8. Issued' = IdsBefore(IdAfter(next, n))  BY <1>5 DEF Issued
<1> HIDE DEF N
<1>9. next \in Nat  BY <1>2
<1> QED  BY <1>5, <1>6, <1>7, <1>8, <1>9 DEF N, n

\* append() adds what the planner promised: the bytes it checked against the
\* width of the total are those of the items it adds.
LEMMA AppendAccounts ==
    ASSUME IInv, IInv', Accounts, NEW plan \in Batch, NEW allowDrained,
           AppendPlan(plan, allowDrained)
    PROVE  Accounts' /\ counters'.weight >= counters.weight
<1> DEFINE N == {next + i - 1 : i \in 1..Len(plan.files)}
           n == plan.failures
<1>1. /\ Issued' = Issued \cup N /\ Issued \cap N = {} /\ next \in Nat
      /\ file' = [id \in Issued \cup N |->
                    IF id \in N THEN plan.files[id - next + 1] ELSE file[id]]
      /\ fate' = [id \in Issued \cup N |-> IF id \in N THEN "Live" ELSE fate[id]]
      /\ highWater' = highWater
  BY AppendedItems
<1>2. n \in Nat /\ plan.files \in Seq([dest : Key, size : Size])  BY PlanAssumption
<1>3. Len(plan.files) \in Nat  BY <1>2, LenProperties
<1>4. \A i \in 1..Len(plan.files) :
         /\ next + i - 1 \in N /\ (next + i - 1) - next + 1 = i
         /\ next + i - 1 \in Issued'
  BY <1>1, <1>3
<1>5. \A i \in 1..Len(plan.files) : file'[next + i - 1] = plan.files[i]
  BY <1>1, <1>4
<1>6. \A i \in 1..Len(plan.files) :
         /\ Sizes'[next + i - 1] = plan.files[i].size
         /\ Weights'[next + i - 1] = Weight(plan.files[i].size)
  BY <1>4, <1>5 DEF Sizes, Weights
<1>7. /\ Sum(Sizes', N) = PlanBytes(plan) /\ Sum(Weights', N) = PlanWeight(plan)
      /\ Cardinality(N) = Len(plan.files) /\ IsFiniteSet(N)
      /\ PlanBytes(plan) \in Nat /\ PlanWeight(plan) \in Nat
  <2>1. next \in Nat  BY <1>1
  <2>2. PICK s : s = Sizes'  OBVIOUS
  <2>3. PICK w : w = Weights'  OBVIOUS
  <2>4. ReadsBatch(plan, next, s, w)  BY <1>6, <2>2, <2>3 DEF ReadsBatch
  <2>5. BatchIds(next, Len(plan.files)) = N  BY DEF BatchIds
  <2> HIDE DEF N
  <2>6. /\ Sum(s, BatchIds(next, Len(plan.files))) = PlanBytes(plan)
        /\ Sum(w, BatchIds(next, Len(plan.files))) = PlanWeight(plan)
        /\ Cardinality(BatchIds(next, Len(plan.files))) = Len(plan.files)
        /\ IsFiniteSet(BatchIds(next, Len(plan.files)))
        /\ PlanBytes(plan) \in Nat /\ PlanWeight(plan) \in Nat
    BY <2>1, <2>4, BatchSums
  <2> QED  BY <2>2, <2>3, <2>5, <2>6
<1> HIDE DEF N
<1>8. Sum(Marks', N) = 0
  <2>1. \A x \in N : x \notin DOMAIN highWater  BY <1>1, IInvFacts, Numbers
  <2>2. \A x \in N : Marks'[x] = 0  BY <1>1, <2>1 DEF Marks, HighWaterOf
  <2> QED  BY <1>7, <2>2, SumZero
<1>9. /\ \A id \in Issued : file'[id] = file[id]
      /\ \A id \in Issued : HighWaterOf(id)' = HighWaterOf(id)
  BY <1>1 DEF HighWaterOf
<1>10. /\ DOMAIN counters = {"physical", "succeeded", "weight", "total"}
       /\ DOMAIN totals = {"bytes", "files", "doneBytes", "doneFiles", "largest"}
       /\ DOMAIN outcomes = Outcome
       /\ outcomes = [x \in DOMAIN outcomes |-> outcomes[x]] /\ unplanned \in Nat
  BY DEF Accounts, Shape
<1>11. counters' = [counters EXCEPT !.total = @ + PlanWeight(plan) + n, !.weight = @ + n]
       /\ outcomes' = [outcomes EXCEPT !["Failed"] = @ + n] /\ unplanned' = unplanned + n
  BY DEF AppendPlan
<1>12. totals' = [totals EXCEPT !.bytes = @ + PlanBytes(plan), !.files = @ + Len(plan.files),
                                !.largest = Greater(@, PlanLargest(plan))]
       /\ retained' = retained
  BY DEF AppendPlan, CommitAppend
<1>13. totals.bytes + PlanBytes(plan) <= MaxU64
  <2>1. ~(PlanBytes(plan) > MaxU64 - totals.bytes)  BY DEF AppendPlan, AppendResult
  <2>2. totals.bytes \in Nat
    <3>1. totals.bytes = Sum(Sizes, Kept)  BY DEF Accounts, TotalsAccount
    <3>2. \A x \in Kept : Sizes[x] \in Nat  BY Numbers
    <3> QED  BY <3>1, <3>2, Numbers, SumNat
  <2> QED  BY <1>7, <2>1, <2>2, PlanAssumption
<1>14. /\ counters'.total = counters.total + PlanWeight(plan) + n
       /\ counters'.weight = counters.weight + n
       /\ counters'.succeeded = counters.succeeded
       /\ DOMAIN counters' = DOMAIN counters
       /\ counters' = [x \in DOMAIN counters' |-> counters'[x]]
  BY <1>10, <1>11
<1>15. /\ totals'.bytes = totals.bytes + PlanBytes(plan)
       /\ totals'.files = totals.files + Len(plan.files)
       /\ totals'.doneBytes = totals.doneBytes /\ totals'.doneFiles = totals.doneFiles
       /\ DOMAIN totals' = DOMAIN totals
       /\ totals' = [x \in DOMAIN totals' |-> totals'[x]]
  BY <1>10, <1>12
<1>16. \A o \in Outcome : outcomes[o] \in Nat
  BY OutcomesNat
<1>17. /\ \A o \in Outcome : outcomes'[o] = outcomes[o] + (IF o = "Failed" THEN n ELSE 0)
       /\ DOMAIN outcomes' = Outcome
       /\ outcomes' = [x \in DOMAIN outcomes' |-> outcomes'[x]]
  <2>1. outcomes' = [outcomes EXCEPT !["Failed"] = outcomes["Failed"] + n]  BY <1>11
  <2> HIDE DEF n
  <2>2. \A o \in Outcome : outcomes[o] = outcomes[o] + 0  BY <1>16
  <2>3. \A o \in Outcome : outcomes'[o] = IF o = "Failed" THEN outcomes[o] + n ELSE outcomes[o]
    BY <1>10, <2>1
  <2> QED  BY <1>10, <2>1, <2>2, <2>3
<1>18. Shape'
  <2>1. unplanned' \in Nat  BY <1>2, <1>10, <1>11
  <2> QED  BY <1>10, <1>14, <1>15, <1>17, <2>1 DEF Shape
<1>19. counters.weight + n = counters.weight + 0 + n
  <2>1. counters.weight \in Nat  BY WeightNat
  <2> QED  BY <1>2, <2>1
<1>20. /\ counters'.total = counters.total + Sum(Weights', N) + n
       /\ counters'.weight = counters.weight + Sum(Marks', N) + n
       /\ totals'.bytes = totals.bytes + Sum(Sizes', N) /\ totals'.bytes <= MaxU64
       /\ totals'.files = totals.files + Cardinality(N)
  BY <1>7, <1>8, <1>13, <1>14, <1>15, <1>19
<1> HIDE DEF n
<1> QED  BY <1>1, <1>2, <1>9, <1>11, <1>12, <1>14, <1>15, <1>17, <1>18, <1>20, EnterAccounts DEF n

\* An archived source removal comes back with its whole weight already counted.
LEMMA RestoreAccounts ==
    ASSUME IInv, IInv', Accounts, NEW dest \in Key, NEW size \in Size,
           NEW attempts \in 0..MaxAttempt,
           RestoreParkedSourceRemoval(dest, size, attempts)
    PROVE  Accounts' /\ counters'.weight >= counters.weight
<1> DEFINE N == {next}
<1>1. /\ next # 0 /\ size <= MaxU64 - totals.bytes
      /\ file' = Put(file, next, [dest |-> dest, size |-> size])
      /\ fate' = Put(fate, next, "Live")
      /\ highWater' = Put(highWater, next, Weight(size))
      /\ next' = IdAfter(next, 1)
      /\ counters' = [counters EXCEPT !.total = @ + Weight(size), !.weight = @ + Weight(size)]
      /\ totals' = [totals EXCEPT !.bytes = @ + size, !.files = @ + 1,
                                  !.largest = Greater(@, size)]
      /\ UNCHANGED <<outcomes, retained, unplanned>>
  BY DEF RestoreParkedSourceRemoval
<1>2. Issued' = Issued \cup N /\ Issued \cap N = {}
  <2>1. next \in 1..MaxId /\ MaxId \in Nat
    BY <1>1, PlanAssumption DEF IInv, ContainersTypeOK
  <2>2. IdsFrom(next, 1) = N  BY <2>1 DEF IdsFrom
  <2> QED  BY <1>1, <2>1, <2>2, IdsFresh DEF Issued
<1>3. size \in Nat /\ Weight(size) \in Nat  BY PlanAssumption, WeightType
<1>4. /\ file'[next] = [dest |-> dest, size |-> size]
      /\ \A id \in Issued : file'[id] = file[id]
      /\ \A id \in Issued : HighWaterOf(id)' = HighWaterOf(id)
      /\ highWater'[next] = Weight(size) /\ next \in DOMAIN highWater'
  <2>1. next \notin Issued /\ DOMAIN file = Issued
    BY <1>2 DEF IInv, ContainersTypeOK
  <2>2. file' = Put(file, next, [dest |-> dest, size |-> size])  BY <1>1
  <2>3. highWater' = Put(highWater, next, Weight(size))  BY <1>1
  <2>4. /\ file'[next] = [dest |-> dest, size |-> size]
        /\ \A id \in Issued : file'[id] = file[id]
    BY <2>1, <2>2 DEF Put
  <2>5. /\ \A id \in Issued : HighWaterOf(id)' = HighWaterOf(id)
        /\ highWater'[next] = Weight(size) /\ next \in DOMAIN highWater'
    BY <2>1, <2>3 DEF Put, HighWaterOf
  <2> QED  BY <2>4, <2>5
<1>5. fate' = [id \in Issued \cup N |-> IF id \in N THEN "Live" ELSE fate[id]]
  BY <1>1, <1>2 DEF Put, IInv, ContainersTypeOK
<1>6. Sizes'[next] = size /\ Weights'[next] = Weight(size) /\ Marks'[next] = Weight(size)
  <2>1. next \in Issued'  BY <1>2
  <2>2. file'[next].size = size  BY <1>4
  <2> QED  BY <1>4, <2>1, <2>2 DEF Sizes, Weights, Marks, HighWaterOf
<1>7. /\ Sum(Sizes', N) = size /\ Sum(Weights', N) = Weight(size)
      /\ Sum(Marks', N) = Weight(size) /\ Cardinality(N) = 1
  BY <1>3, <1>6, SumOne, FS_Singleton
<1> HIDE DEF N
<1>8. Shape /\ ProgressAccount /\ TotalsAccount /\ ResultsAccount  BY DEF Accounts
<1>9. /\ counters'.total = counters.total + Weight(size)
      /\ counters'.weight = counters.weight + Weight(size)
      /\ counters'.succeeded = counters.succeeded
      /\ DOMAIN counters' = DOMAIN counters
      /\ counters' = [x \in DOMAIN counters' |-> counters'[x]]
  BY <1>1, <1>8 DEF Shape
<1>10. /\ totals'.bytes = totals.bytes + size /\ totals'.files = totals.files + 1
       /\ totals'.doneBytes = totals.doneBytes /\ totals'.doneFiles = totals.doneFiles
       /\ DOMAIN totals' = DOMAIN totals
       /\ totals' = [x \in DOMAIN totals' |-> totals'[x]]
  BY <1>1, <1>8 DEF Shape
<1>11. Shape'  BY <1>1, <1>8, <1>9, <1>10 DEF Shape
<1>12. totals.bytes \in Nat /\ counters.total \in Nat
  <2>1. (\A x \in Kept : Sizes[x] \in Nat) /\ (\A x \in Kept : Weights[x] \in Nat)  BY Numbers
  <2>2. Sum(Sizes, Kept) \in Nat /\ Sum(Weights, Kept) \in Nat  BY <2>1, Numbers, SumNat
  <2> QED  BY <1>8, <2>2 DEF TotalsAccount, ProgressAccount, Shape
<1>13. totals'.bytes <= MaxU64  BY <1>1, <1>3, <1>10, <1>12, PlanAssumption
<1>14. counters.weight \in Nat  BY WeightNat
<1>15. \A o \in Outcome : outcomes'[o] = outcomes[o] + (IF o = "Failed" THEN 0 ELSE 0)
  <2>1. \A o \in Outcome : outcomes[o] \in Nat  BY OutcomesNat
  <2> QED  BY <1>1, <2>1
<1>16. unplanned' = unplanned + 0  BY <1>1, <1>8 DEF Shape
<1>17. /\ counters'.total = counters.total + Sum(Weights', N) + 0
       /\ counters'.weight = counters.weight + Sum(Marks', N) + 0
       /\ totals'.bytes = totals.bytes + Sum(Sizes', N)
       /\ totals'.files = totals.files + Cardinality(N)
  BY <1>3, <1>7, <1>9, <1>10, <1>12, <1>14
<1>18. 0 \in Nat /\ retained' = retained  BY <1>1
<1> QED  BY <1>2, <1>4, <1>5, <1>9, <1>10, <1>11, <1>13, <1>15, <1>16, <1>17, <1>18, EnterAccounts

\* The accounts of a new plan.
LEMMA InitAccounts == Init => Accounts
<1> SUFFICES ASSUME Init PROVE Accounts  OBVIOUS
<1>1. PICK plan \in Batch :
         /\ Len(plan.files) <= MaxId /\ file = plan.files
         /\ next = IdAfter(1, Len(plan.files))
         /\ highWater = [id \in {} |-> 0]
         /\ counters = [physical |-> 0, succeeded |-> 0, weight |-> plan.failures,
                        total |-> PlanWeight(plan) + plan.failures]
         /\ totals = [bytes |-> PlanBytes(plan), files |-> Len(plan.files), doneBytes |-> 0,
                      doneFiles |-> 0, largest |-> PlanLargest(plan)]
         /\ outcomes = [o \in Outcome |-> IF o = "Failed" THEN plan.failures ELSE 0]
         /\ retained = {} /\ unplanned = plan.failures
         /\ fate = [id \in Positions(plan) |-> "Live"]
  BY DEF Init
<1>2. IInv  BY InitIInv
<1> DEFINE n == Len(plan.files)
<1>3. n \in Nat /\ plan.failures \in Nat  BY PlanAssumption, LenProperties
<1>4. Issued = 1..n
  <2>1. MaxId \in Nat \ {0}  BY PlanAssumption
  <2>2. n <= MaxId /\ next = IdAfter(1, n)  BY <1>1
  <2> HIDE DEF n
  <2>3. next = IF n = 0 THEN 1 ELSE IF n = MaxId THEN 0 ELSE 1 + n
    BY <1>3, <2>1, <2>2 DEF IdAfter
  <2> QED  BY <1>3, <2>1, <2>2, <2>3 DEF Issued, IdsBefore
<1>5. BatchIds(1, n) = Issued
  <2> HIDE DEF n
  <2>1. \A i \in 1..n : 1 + i - 1 = i  BY <1>3
  <2> QED  BY <1>4, <2>1 DEF BatchIds
<1>6. ReadsBatch(plan, 1, Sizes, Weights)
  <2> SUFFICES ASSUME NEW i \in 1..n
               PROVE  /\ Sizes[1 + i - 1] = plan.files[i].size
                      /\ Weights[1 + i - 1] = Weight(plan.files[i].size)
    BY DEF ReadsBatch
  <2>1. 1 + i - 1 = i /\ i \in Issued  BY <1>3, <1>4
  <2> QED  BY <1>1, <2>1 DEF Sizes, Weights
<1>7. /\ Sum(Sizes, Issued) = PlanBytes(plan) /\ Sum(Weights, Issued) = PlanWeight(plan)
      /\ Cardinality(Issued) = n /\ PlanBytes(plan) \in Nat /\ PlanWeight(plan) \in Nat
  <2>1. 1 \in Nat  OBVIOUS
  <2>2. /\ Sum(Sizes, BatchIds(1, Len(plan.files))) = PlanBytes(plan)
        /\ Sum(Weights, BatchIds(1, Len(plan.files))) = PlanWeight(plan)
        /\ Cardinality(BatchIds(1, Len(plan.files))) = Len(plan.files)
        /\ PlanBytes(plan) \in Nat /\ PlanWeight(plan) \in Nat
    BY <1>6, <2>1, BatchSums
  <2> QED  BY <1>5, <2>2
<1>8. \A id \in Issued : fate[id] = "Live"  BY <1>1, <1>4 DEF Positions
<1>9. Live = Issued /\ Settled = {} /\ Done = {} /\ Kept = Issued
      /\ \A o \in Outcome : WithFate({o}) = {}
  <2>1. Live = Issued  BY <1>2, <1>8, Numbers
  <2>2. Settled = {} /\ Done = {} /\ \A o \in Outcome : WithFate({o}) = {}
    BY <1>8 DEF Settled, Done, WithFate, Outcome, Transferred
  <2> QED  BY <2>1, <2>2 DEF Kept
<1>10. Sum(Marks, Issued) = 0
  <2>1. \A x \in Issued : Marks[x] = 0  BY <1>1 DEF Marks, HighWaterOf
  <2> QED  BY <1>2, <2>1, Numbers, SumZero
<1>11. Sum(Weights, {}) = 0 /\ Sum(Sizes, {}) = 0 /\ Cardinality({}) = 0
  BY SumEmpty, FS_EmptySet
<1> HIDE DEF n
<1>12. Shape  BY <1>1, <1>3 DEF Shape
<1>13. ProgressAccount
  BY <1>1, <1>3, <1>7, <1>9, <1>10, <1>11 DEF ProgressAccount
<1>14. PlanBytes(plan) <= MaxU64  BY BatchesFit
<1>15. TotalsAccount
  BY <1>1, <1>7, <1>9, <1>11, <1>14 DEF TotalsAccount, n
<1>16. ResultsAccount
  <2>1. \A o \in Outcome : outcomes[o] = 0 + (IF o = "Failed" THEN unplanned ELSE 0)
    BY <1>1, <1>3
  <2>2. \A o \in Outcome : Cardinality(WithFate({o})) = 0  BY <1>9, <1>11
  <2>3. retained = {[id |-> id, outcome |-> fate[id]] :
                       id \in Settled \ WithFate({"Succeeded"})}
    BY <1>1, <1>9
  <2> QED  BY <2>1, <2>2, <2>3 DEF ResultsAccount
<1> QED  BY <1>12, <1>13, <1>15, <1>16 DEF Accounts

\* No critical section unbalances the accounts, and only a removal of queued
\* items moves the visible progress backwards.
Forward ==
    counters'.weight >= counters.weight
      \/ \E id \in Issued : fate'[id] = "Removed" /\ fate[id] # "Removed"

\* One case per operation.
LEMMA NextAccounts ==
    ASSUME IInv, IInv', Accounts, [Next]_vars PROVE Accounts' /\ Forward
<1>0. \A w \in Nat : w >= w  OBVIOUS
<1>1. ASSUME UNCHANGED <<next, fate, highWater, counters, totals, outcomes, retained, unplanned>>,
             \A id \in Issued : file'[id].size = file[id].size
      PROVE  Accounts' /\ Forward
  BY <1>0, <1>1, SameAccounts, WeightNat DEF Forward
<1>2. CASE UNCHANGED vars
  BY <1>1, <1>2 DEF vars, queueVars, progressVars, resultVars
<1>3. ASSUME NEW plan \in Batch, NEW allowDrained \in BOOLEAN, AppendPlan(plan, allowDrained)
      PROVE  Accounts' /\ Forward
  BY <1>3, AppendAccounts DEF Forward
<1>4. ASSUME NEW through \in 0..directories, MarkDirectoriesMaterialized(through)
      PROVE  Accounts' /\ Forward
  BY <1>1, <1>4 DEF MarkDirectoriesMaterialized, queueVars, progressVars, resultVars
<1>5. CASE ReorderPending
  BY <1>1, <1>5 DEF ReorderPending, progressVars, resultVars
<1>6. ASSUME NEW ids \in SUBSET Queued, RemovePendingFiles(ids) PROVE Accounts' /\ Forward
  BY <1>6, RemoveAccounts DEF Forward
<1>7. CASE AcquireNext
  BY <1>1, <1>7 DEF AcquireNext, resultVars
<1>8. ASSUME NEW id \in active PROVE
         /\ ReleaseActive(id) => Accounts' /\ Forward
         /\ RedirectActiveDestination(id) => Accounts' /\ Forward
         /\ \A action \in RecoveryAction : Park(id, action) => Accounts' /\ Forward
         /\ \A bytes \in Chunk : RecordAttemptBytes(id, bytes) => Accounts' /\ Forward
         /\ \A o \in Outcome : ResolveActive(id, o) => Accounts' /\ Forward
  <2>1. ReleaseActive(id) => Accounts' /\ Forward
    BY <1>1 DEF ReleaseActive, progressVars, resultVars
  <2>2. RedirectActiveDestination(id) => Accounts' /\ Forward
    <3> SUFFICES ASSUME RedirectActiveDestination(id) PROVE Accounts' /\ Forward  OBVIOUS
    <3>1. PICK alternate \in Key : file' = [file EXCEPT ![id].dest = alternate]
      BY DEF RedirectActiveDestination
    <3>2. \A y \in Issued : file'[y].size = file[y].size
      BY <3>1 DEF IInv, ContainersTypeOK, FileRecord
    <3>3. UNCHANGED <<next, fate, highWater, counters, totals, outcomes, retained, unplanned>>
      BY DEF RedirectActiveDestination, progressVars, resultVars
    <3> QED  BY <1>1, <3>2, <3>3
  <2>3. \A action \in RecoveryAction : Park(id, action) => Accounts' /\ Forward
    BY <1>1 DEF Park, progressVars, resultVars
  <2>4. \A bytes \in Chunk : RecordAttemptBytes(id, bytes) => Accounts' /\ Forward
    BY <1>8, RecordAccounts DEF Forward
  <2>5. ASSUME NEW o \in Outcome, ResolveActive(id, o) PROVE Accounts' /\ Forward
    <3>1. {id} \in SUBSET Live /\ ResolveLocked({id}, o)  BY <2>5 DEF ResolveActive, Live
    <3> QED  BY <3>1, SettleAccounts DEF Forward
  <2> QED  BY <2>1, <2>2, <2>3, <2>4, <2>5
<1>9. ASSUME NEW id \in DOMAIN parked PROVE
         /\ Unpark(id) => Accounts' /\ Forward
         /\ \A action \in RecoveryAction : BeginParkedRetry(id, action) => Accounts' /\ Forward
         /\ \A o \in Outcome : ResolveParked(id, o) => Accounts' /\ Forward
  <2>1. Unpark(id) => Accounts' /\ Forward  BY <1>1 DEF Unpark, resultVars
  <2>2. \A action \in RecoveryAction : BeginParkedRetry(id, action) => Accounts' /\ Forward
    BY <1>1 DEF BeginParkedRetry, resultVars
  <2>3. ASSUME NEW o \in Outcome, ResolveParked(id, o) PROVE Accounts' /\ Forward
    <3>1. {id} \in SUBSET Live /\ ResolveLocked({id}, o)  BY <2>3 DEF ResolveParked, Live
    <3> QED  BY <3>1, SettleAccounts DEF Forward
  <2> QED  BY <2>1, <2>2, <2>3
<1>10. ASSUME NEW dest \in Key, NEW size \in Size, NEW attempts \in 0..MaxAttempt,
              RestoreParkedSourceRemoval(dest, size, attempts)
       PROVE  Accounts' /\ Forward
  BY <1>10, RestoreAccounts DEF Forward
<1>11. ASSUME NEW id \in Queued, NEW o \in Outcome, ResolvePending(id, o)
       PROVE  Accounts' /\ Forward
  <2>1. {id} \in SUBSET Live /\ ResolveLocked({id}, o)  BY <1>11 DEF ResolvePending, Live
  <2> QED  BY <2>1, SettleAccounts DEF Forward
<1>12. ASSUME NEW folder \in Folder, FailPendingUnder(folder) PROVE Accounts' /\ Forward
  <2> DEFINE S == {id \in Queued : file[id].dest \in folder}
  <2>1. S \in SUBSET Live /\ "Failed" \in Outcome /\ ResolveLocked(S, "Failed")
    BY <1>12 DEF FailPendingUnder, Live, Outcome
  <2> HIDE DEF S
  <2> QED  BY <2>1, SettleAccounts DEF Forward
<1>13. QED
  BY <1>2, <1>3, <1>4, <1>5, <1>6, <1>7, <1>8, <1>9, <1>10, <1>11, <1>12 DEF Next

\* The accounts balance in every state.
LEMMA AccountsBalance == Spec => [](IInv /\ Accounts)
<1>1. Init => IInv /\ Accounts  BY InitIInv, InitAccounts
<1>2. IInv /\ Accounts /\ [Next]_vars => (IInv /\ Accounts)'
  BY NextIInv, NextAccounts
<1> QED  BY <1>1, <1>2, PTL DEF Spec

\* They are the ledgers.
LEMMA LedgersHold == IInv /\ Accounts => Ledgers
BY AccountsLedgers DEF Ledgers, IInv

\* Whatever mixture of restarts, retries, edits, failures and restored source
\* removals led there, the progress, the totals and the results the class keeps
\* are those of its items.
THEOREM LedgersBalance == Spec => []Ledgers
BY AccountsBalance, LedgersHold, PTL

\* Nothing but an edit of the queue moves the visible progress backwards.
THEOREM ProgressMovesForward == Spec => ProgressNeverRewinds
<1> DEFINE A == (\A id \in Issued : fate'[id] = "Removed" => fate[id] = "Removed")
                  => counters'.weight >= counters.weight
<1>1. IInv /\ Accounts /\ (IInv /\ Accounts)' /\ [Next]_vars => [A]_vars
  BY NextAccounts DEF Forward
<1>2. Spec => [][A]_vars
  <2> HIDE DEF A
  <2> QED  BY <1>1, AccountsBalance, PTL DEF Spec
<1> QED  BY <1>2 DEF ProgressNeverRewinds

-----------------------------------------------------------------------------
(***************************************************************************)
(* Attempts.                                                               *)
(***************************************************************************)

\* What AttemptsNeverReset says of one item.
AttemptKept(id) ==
    fate'[id] = "Live" => /\ AttemptOf(id)' >= AttemptOf(id)
                          /\ id \in DOMAIN parked /\ id \notin DOMAIN parked'
                                => AttemptOf(id)' = NextAttempt(id)

\* Counting a retry moves the attempt of the item forward, up to its limit.
LEMMA NextAttemptGrows ==
    ASSUME IInv, NEW id \in DOMAIN parked
    PROVE  NextAttempt(id) \in Nat /\ NextAttempt(id) >= AttemptOf(id)
<1>1. parked[id].attempts = AttemptOf(id) BY DEF IInv, IncidentMatchesAttempts
<1>2. AttemptOf(id) \in 1..MaxAttempt BY AttemptOfType
<1>3. QED BY <1>1, <1>2, IInvFacts DEF NextAttempt, Lesser

\* A step that erases, of the live items' attempts, none.
LEMMA DropKeepsAttempts ==
    ASSUME IInv, NEW S,
           attemptCount' = Drop(attemptCount, S),
           \A id \in S \cap Issued : fate'[id] # "Live",
           \A id \in DOMAIN parked \ S : id \in DOMAIN parked'
    PROVE  \A id \in Issued : AttemptKept(id)
<1>1. SUFFICES ASSUME NEW id \in Issued, fate'[id] = "Live" PROVE AttemptKept(id)
    BY DEF AttemptKept
<1>2. id \notin S BY <1>1
<1>3. AttemptOf(id)' = AttemptOf(id) BY <1>2, IInvFacts DEF AttemptOf, Drop, Restrict
<1>4. AttemptOf(id) \in Nat BY AttemptOfType, IInvFacts
<1>5. QED BY <1>2, <1>3, <1>4 DEF AttemptKept

\* Counting a retry of one parked item.
LEMMA RetryKeepsAttempts ==
    ASSUME IInv, NEW id \in DOMAIN parked,
           attemptCount' = Put(attemptCount, id, NextAttempt(id)),
           \A y \in DOMAIN parked : y # id => y \in DOMAIN parked'
    PROVE  \A y \in Issued : AttemptKept(y)
<1>1. TAKE y \in Issued
<1>2. AttemptOf(y) \in Nat BY AttemptOfType, IInvFacts
<1>3. CASE y = id
    <2>1. AttemptOf(y)' = NextAttempt(y) BY <1>3 DEF AttemptOf, Put
    <2>2. QED BY <1>3, <2>1, NextAttemptGrows DEF AttemptKept
<1>4. CASE y # id
    <2>1. AttemptOf(y)' = AttemptOf(y) BY <1>4, IInvFacts DEF AttemptOf, Put
    <2>2. QED BY <1>2, <1>4, <2>1 DEF AttemptKept
<1>5. QED BY <1>3, <1>4

\* A step that leaves the attempts and the parked items alone, or parks more.
LEMMA SameKeepsAttempts ==
    ASSUME IInv, attemptCount' = attemptCount,
           \A id \in DOMAIN parked : id \in DOMAIN parked'
    PROVE  \A id \in Issued : AttemptKept(id)
<1>1. TAKE id \in Issued
<1>2. AttemptOf(id)' = AttemptOf(id) /\ AttemptOf(id) \in Nat
    BY AttemptOfType, IInvFacts DEF AttemptOf
<1>3. QED BY <1>2 DEF AttemptKept

\* An unresolved item's attempt number never goes back, and taking it out of
\* the parked files counts a new attempt.
THEOREM AttemptsKept == Spec => AttemptsNeverReset
<1>1. ASSUME IInv, Next PROVE \A id \in Issued : AttemptKept(id)
    <2> USE <1>1
    <2>1. CASE \/ \E plan \in Batch, allowDrained \in BOOLEAN :
                    AppendPlan(plan, allowDrained)
               \/ \E through \in 0..directories : MarkDirectoriesMaterialized(through)
               \/ ReorderPending
               \/ AcquireNext
        <3>1. attemptCount' = attemptCount /\ parked' = parked
            BY <2>1 DEF AppendPlan, CommitAppend, MarkDirectoriesMaterialized,
               ReorderPending, AcquireNext, queueVars, progressVars
        <3>2. QED BY <3>1, SameKeepsAttempts
    <2>2. ASSUME NEW ids \in SUBSET Queued, RemovePendingFiles(ids)
          PROVE  \A id \in Issued : AttemptKept(id)
        <3>1. /\ attemptCount' = Drop(attemptCount, ids \cap Queued)
              /\ fate' = [id \in Issued |->
                            IF id \in ids \cap Queued THEN "Removed" ELSE fate[id]]
              /\ parked' = parked
            BY <2>2 DEF RemovePendingFiles
        <3>2. QED BY <3>1, DropKeepsAttempts
    <2>3. ASSUME NEW id \in active,
                 \/ ReleaseActive(id)
                 \/ RedirectActiveDestination(id)
                 \/ \E action \in RecoveryAction : Park(id, action)
                 \/ \E bytes \in Chunk : RecordAttemptBytes(id, bytes)
          PROVE  \A y \in Issued : AttemptKept(y)
        <3>1. attemptCount' = attemptCount
            BY <2>3 DEF ReleaseActive, RedirectActiveDestination, Park,
               RecordAttemptBytes, progressVars
        <3>2. \A y \in DOMAIN parked : y \in DOMAIN parked'
            BY <2>3 DEF ReleaseActive, RedirectActiveDestination, Park,
               RecordAttemptBytes, queueVars, Put
        <3>3. QED BY <3>1, <3>2, SameKeepsAttempts
    <2>4. ASSUME NEW id \in DOMAIN parked,
                 \/ Unpark(id)
                 \/ \E action \in RecoveryAction : BeginParkedRetry(id, action)
          PROVE  \A y \in Issued : AttemptKept(y)
        <3>1. attemptCount' = Put(attemptCount, id, NextAttempt(id))
            BY <2>4 DEF Unpark, BeginParkedRetry
        <3>2. \A y \in DOMAIN parked : y # id => y \in DOMAIN parked'
            BY <2>4, IInvFacts DEF Unpark, BeginParkedRetry, Drop, Restrict
        <3>3. QED BY <3>1, <3>2, RetryKeepsAttempts
    <2>5. ASSUME NEW dest \in Key, NEW size \in Size, NEW attempts \in 0..MaxAttempt,
                 RestoreParkedSourceRemoval(dest, size, attempts)
          PROVE  \A id \in Issued : AttemptKept(id)
        <3>1. \E v : attemptCount' = Put(attemptCount, next, v)
            BY <2>5 DEF RestoreParkedSourceRemoval
        <3>2. \A id \in DOMAIN parked : id \in DOMAIN parked'
            BY <2>5 DEF RestoreParkedSourceRemoval, Put
        <3>3. next \notin Issued
            BY <2>5, PlanAssumption
            DEF RestoreParkedSourceRemoval, Issued, IdsBefore, IInv, ContainersTypeOK
        <3>4. SUFFICES ASSUME NEW id \in Issued PROVE AttemptKept(id) OBVIOUS
        <3>5. AttemptOf(id)' = AttemptOf(id) /\ AttemptOf(id) \in Nat
            BY <3>1, <3>3, AttemptOfType, IInvFacts DEF AttemptOf, Put
        <3>6. QED BY <3>2, <3>5 DEF AttemptKept
    <2>6. ASSUME NEW S, NEW o \in Outcome, ResolveLocked(S, o),
                 \A y \in DOMAIN parked \ S : y \in DOMAIN parked'
          PROVE  \A id \in Issued : AttemptKept(id)
        <3>1. "Live" \notin Outcome BY DEF Outcome
        <3>2. \A id \in S \cap Issued : fate'[id] # "Live"
            BY <2>6, <3>1, ResolveLockedFacts
        <3>3. attemptCount' = Drop(attemptCount, S) BY <2>6, ResolveLockedFacts
        <3>4. QED BY <2>6, <3>2, <3>3, DropKeepsAttempts
    <2>7. ASSUME NEW id \in active, NEW o \in Outcome, ResolveActive(id, o)
          PROVE  \A y \in Issued : AttemptKept(y)
        <3> DEFINE S == {id}
        <3>1. ResolveLocked(S, o) /\ parked' = parked BY <2>7 DEF ResolveActive
        <3> HIDE DEF S
        <3>2. QED BY <2>6, <3>1
    <2>8. ASSUME NEW id \in DOMAIN parked, NEW o \in Outcome, ResolveParked(id, o)
          PROVE  \A y \in Issued : AttemptKept(y)
        <3> DEFINE S == {id}
        <3>1. ResolveLocked(S, o) /\ parked' = Drop(parked, S)
            BY <2>8 DEF ResolveParked
        <3> HIDE DEF S
        <3>2. \A y \in DOMAIN parked \ S : y \in DOMAIN parked'
            BY <3>1 DEF Drop, Restrict
        <3>3. QED BY <2>6, <3>1, <3>2
    <2>9. ASSUME NEW id \in Queued, NEW o \in Outcome, ResolvePending(id, o)
          PROVE  \A y \in Issued : AttemptKept(y)
        <3> DEFINE S == {id}
        <3>1. ResolveLocked(S, o) /\ parked' = parked BY <2>9 DEF ResolvePending
        <3> HIDE DEF S
        <3>2. QED BY <2>6, <3>1
    <2>10. ASSUME NEW folder \in Folder, FailPendingUnder(folder)
           PROVE  \A y \in Issued : AttemptKept(y)
        <3> DEFINE S == {id \in Queued : file[id].dest \in folder}
        <3>1. ResolveLocked(S, "Failed") /\ parked' = parked /\ "Failed" \in Outcome
            BY <2>10 DEF FailPendingUnder, Outcome
        <3> HIDE DEF S
        <3>2. QED BY <2>6, <3>1
    <2>11. QED
        BY <2>1, <2>2, <2>3, <2>4, <2>5, <2>7, <2>8, <2>9, <2>10 DEF Next
<1>2. ASSUME IInv, [Next]_vars
      PROVE  [\A id \in Issued : AttemptKept(id)]_vars
    BY <1>1, <1>2
<1>3. (\A id \in Issued : AttemptKept(id)) =>
        \A id \in Issued :
          fate'[id] = "Live" => /\ AttemptOf(id)' >= AttemptOf(id)
                                /\ id \in DOMAIN parked /\ id \notin DOMAIN parked'
                                      => AttemptOf(id)' = NextAttempt(id)
    BY DEF AttemptKept
<1>4. QED BY <1>2, <1>3, Invariance, PTL DEF Spec, AttemptsNeverReset
-----------------------------------------------------------------------------
(***************************************************************************)
(* The plan implements the lifecycle of its items.                         *)
(***************************************************************************)

\* StateOf without the queue: under Partition, what is live and neither active
\* nor parked is pending.
View(id) ==
    IF id \notin Issued THEN "Absent"
    ELSE IF id \in active THEN "Active"
    ELSE IF id \in DOMAIN parked
         THEN IF parked[id].action = "RetryTransfer" THEN "Parked" ELSE "Copied"
    ELSE IF fate[id] = "Live" THEN "Pending"
    ELSE fate[id]

ViewsAgree == \A id \in 1..MaxId : StateOf(id) = View(id)

\* The invariant makes the two readings of an item's state agree.
LEMMA IInvViews == IInv => ViewsAgree
<1> SUFFICES ASSUME IInv, NEW id \in 1..MaxId PROVE StateOf(id) = View(id)
    BY DEF ViewsAgree
<1>1. id \in Issued => (id \in Live <=> fate[id] = "Live")
    BY DEF IInv, Partition
<1>2. QED BY <1>1, IInvFacts DEF StateOf, View, Live

Moved(id) == View(id)' # View(id) => View(id)' \in Lifecycle!Successors(View(id))

\* An item whose containers, incident and fate are as before has not moved.
LEMMA Elsewhere ==
    ASSUME NEW id,
           id \in Issued' <=> id \in Issued,
           id \in active' <=> id \in active,
           id \in DOMAIN parked' <=> id \in DOMAIN parked,
           id \in DOMAIN parked => parked'[id].action = parked[id].action,
           fate'[id] = fate[id]
    PROVE  Moved(id)
BY DEF Moved, View

\* Where the items of the three containers are.
LEMMA ViewOf ==
    ASSUME IInv
    PROVE  /\ \A id \in Queued : View(id) = "Pending"
           /\ \A id \in active : View(id) = "Active"
           /\ \A id \in DOMAIN parked :
                View(id) = IF parked[id].action = "RetryTransfer"
                           THEN "Parked" ELSE "Copied"
           /\ \A id \in Live : fate[id] = "Live"
<1>1. \A id \in Live : fate[id] = "Live" BY DEF IInv, Partition
<1>2. QED BY <1>1, IInvFacts DEF View, Live

\* resolve_locked takes the items it is given to one of the final outcomes.
LEMMA SettleMoves ==
    ASSUME IInv, NEW S \in SUBSET Live, NEW o \in Outcome,
           next' = next,
           fate' = [id \in Issued |-> IF id \in S THEN o ELSE fate[id]],
           active' = active \ S, parked' = Drop(parked, S)
    PROVE  \A id \in 1..MaxId : Moved(id)
<1>1. TAKE id \in 1..MaxId
<1>2. Issued' = Issued BY DEF Issued
<1>3. DOMAIN parked' = DOMAIN parked \ S BY DEF Drop, Restrict
<1>4. CASE id \in S
    <2>1. id \in Issued BY <1>4, LiveHolds
    <2>2. View(id)' = o BY <1>2, <1>3, <1>4, <2>1 DEF View, Outcome
    <2>3. View(id) \in {"Pending", "Active", "Parked", "Copied"}
        BY <1>4, ViewOf DEF Live
    <2>4. QED
        BY <2>2, <2>3 DEF Moved, Lifecycle!Successors, Lifecycle!Terminal, Outcome
<1>5. CASE id \notin S
    <2>1. id \in DOMAIN parked => parked'[id] = parked[id]
        BY <1>5 DEF Drop, Restrict
    <2>2. id \in Issued => fate'[id] = fate[id] BY <1>5
    <2>3. QED BY <1>2, <1>3, <1>5, <2>1, <2>2 DEF Moved, View
<1>6. QED BY <1>4, <1>5

\* Resolving queued files: resolve_pending and fail_pending_under.
LEMMA ResolveQueuedMoves ==
    ASSUME IInv, NEW S \in SUBSET Queued, NEW o \in Outcome,
           ResolveLocked(S, o), UNCHANGED <<active, parked>>
    PROVE  \A id \in 1..MaxId : Moved(id)
<1>1. active' = active \ S BY IInvFacts
<1>2. parked' = Drop(parked, S)
    <2>1. DOMAIN parked \ S = DOMAIN parked BY IInvFacts
    <2>2. QED BY <2>1, IInvFacts DEF Drop, Restrict
<1>3. S \in SUBSET Live BY DEF Live
<1>4. QED BY <1>1, <1>2, <1>3, ResolveLockedFacts, SettleMoves

\* The ids an accepted append() takes were not issued before.
LEMMA AppendIdsFresh ==
    ASSUME IInv, NEW plan \in Batch, NEW allowDrained, AppendPlan(plan, allowDrained)
    PROVE  Issued \cap IdsFrom(next, Len(plan.files)) = {}
<1>1. Len(plan.files) \in Nat BY PlanAssumption, LenProperties
<1>2. next \in 0..MaxId /\ MaxId \in Nat
    BY PlanAssumption DEF IInv, ContainersTypeOK
<1>3. Len(plan.files) > 0 => ~(next = 0 \/ Len(plan.files) > MaxId - next + 1)
    BY DEF AppendPlan, AppendResult
<1>4. Len(plan.files) > 0 => next # 0 /\ Len(plan.files) <= MaxId - next + 1
    BY <1>1, <1>2, <1>3
<1>5. QED BY <1>1, <1>2, <1>4, IdsFresh DEF Issued

\* Every critical section moves every item along the contract, or not at all.
LEMMA NextMoves == ASSUME IInv, Next PROVE \A id \in 1..MaxId : Moved(id)
<1>1. ASSUME NEW plan \in Batch, NEW allowDrained \in BOOLEAN,
             AppendPlan(plan, allowDrained), IInv',
             NEW id \in 1..MaxId
      PROVE  Moved(id)
    <2> DEFINE new == IdsFrom(next, Len(plan.files))
    <2>1. /\ fate' = [y \in Issued \cup new |-> IF y \in new THEN "Live" ELSE fate[y]]
          /\ active' = active /\ parked' = parked
        BY <1>1 DEF AppendPlan, CommitAppend
    <2> HIDE DEF new
    <2>2. Issued' = Issued \cup new
        <3>1. DOMAIN fate' = Issued' BY <1>1 DEF IInv, ContainersTypeOK
        <3>2. QED BY <2>1, <3>1
    <2>3. CASE id \in Issued' /\ id \notin Issued
        <3>1. View(id) = "Absent" BY <2>3 DEF View
        <3>2. id \in new /\ id \notin active /\ id \notin DOMAIN parked
            BY <2>2, <2>3, IInvFacts
        <3>3. View(id)' = "Pending" BY <2>1, <2>3, <3>2 DEF View
        <3>4. QED BY <3>1, <3>3 DEF Moved, Lifecycle!Successors
    <2>4. CASE id \in Issued
        <3>1. id \notin new
            BY <1>1, <2>4, AppendIdsFresh DEF new
        <3>2. QED BY <2>1, <2>2, <2>4, <3>1, Elsewhere
    <2>5. CASE id \notin Issued' BY <2>2, <2>5 DEF Moved, View
    <2>6. QED BY <2>3, <2>4, <2>5
<1>2. ASSUME NEW through \in 0..directories, MarkDirectoriesMaterialized(through)
      PROVE  \A id \in 1..MaxId : Moved(id)
    <2>1. UNCHANGED <<next, active, parked, fate>>
        BY <1>2 DEF MarkDirectoriesMaterialized, queueVars, resultVars
    <2>2. QED BY <2>1 DEF Moved, View, Issued
<1>3. CASE ReorderPending
    <2>1. UNCHANGED <<next, active, parked, fate>>
        BY <1>3 DEF ReorderPending, resultVars
    <2>2. QED BY <2>1 DEF Moved, View, Issued
<1>4. ASSUME NEW ids \in SUBSET Queued, RemovePendingFiles(ids)
      PROVE  \A id \in 1..MaxId : Moved(id)
    <2>1. /\ fate' = [y \in Issued |->
                        IF y \in ids \cap Queued THEN "Removed" ELSE fate[y]]
          /\ UNCHANGED <<next, active, parked>>
        BY <1>4 DEF RemovePendingFiles
    <2>2. Issued' = Issued BY <2>1 DEF Issued
    <2>3. TAKE id \in 1..MaxId
    <2>4. CASE id \in ids \cap Queued
        <3>1. View(id) = "Pending" BY <2>4, ViewOf
        <3>2. View(id)' = "Removed" BY <2>1, <2>2, <2>4, IInvFacts DEF View
        <3>3. QED BY <3>1, <3>2 DEF Moved, Lifecycle!Successors
    <2>5. CASE id \notin ids \cap Queued
        <3>1. id \in Issued => fate'[id] = fate[id] BY <2>1, <2>5
        <3>2. QED BY <2>1, <2>2, <3>1 DEF Moved, View
    <2>6. QED BY <2>4, <2>5
<1>5. CASE AcquireNext
    <2>1. /\ active' = active \cup {Head(pending)}
          /\ UNCHANGED <<next, parked, fate>>
        BY <1>5 DEF AcquireNext, resultVars
    <2>2. Head(pending) \in Queued BY <1>5, IInvFacts, TailKeeps DEF AcquireNext, Queued
    <2>3. Issued' = Issued BY <2>1 DEF Issued
    <2>4. TAKE id \in 1..MaxId
    <2>5. CASE id = Head(pending)
        <3>1. View(id) = "Pending" BY <2>2, <2>5, ViewOf
        <3>2. View(id)' = "Active" BY <2>1, <2>2, <2>3, <2>5, IInvFacts DEF View
        <3>3. QED BY <3>1, <3>2 DEF Moved, Lifecycle!Successors
    <2>6. CASE id # Head(pending) BY <2>1, <2>3, <2>6 DEF Moved, View
    <2>7. QED BY <2>5, <2>6
<1>6. ASSUME NEW id \in active, ReleaseActive(id)
      PROVE  \A y \in 1..MaxId : Moved(y)
    <2>1. active' = active \ {id} /\ UNCHANGED <<next, parked, fate>>
        BY <1>6 DEF ReleaseActive, resultVars
    <2>2. Issued' = Issued BY <2>1 DEF Issued
    <2>3. TAKE y \in 1..MaxId
    <2>4. CASE y = id
        <3>1. View(y) = "Active" BY <2>4, ViewOf
        <3>2. fate[y] = "Live" BY <2>4, ViewOf DEF Live
        <3>3. View(y)' = "Pending" BY <2>1, <2>2, <2>4, <3>2, IInvFacts DEF View
        <3>4. QED BY <3>1, <3>3 DEF Moved, Lifecycle!Successors
    <2>5. CASE y # id BY <2>1, <2>2, <2>5 DEF Moved, View
    <2>6. QED BY <2>4, <2>5
<1>7. ASSUME NEW id \in active,
             \/ RedirectActiveDestination(id)
             \/ \E bytes \in Chunk : RecordAttemptBytes(id, bytes)
      PROVE  \A y \in 1..MaxId : Moved(y)
    <2>1. UNCHANGED <<next, active, parked, fate>>
        BY <1>7 DEF RedirectActiveDestination, RecordAttemptBytes, queueVars, resultVars
    <2>2. QED BY <2>1 DEF Moved, View, Issued
<1>8. ASSUME NEW id \in active, NEW action \in RecoveryAction, Park(id, action)
      PROVE  \A y \in 1..MaxId : Moved(y)
    <2>1. /\ active' = active \ {id}
          /\ parked' = Put(parked, id, [action |-> action, attempts |-> AttemptOf(id)])
          /\ UNCHANGED <<next, fate>>
        BY <1>8 DEF Park, resultVars
    <2>2. Issued' = Issued BY <2>1 DEF Issued
    <2>3. /\ DOMAIN parked' = DOMAIN parked \cup {id}
          /\ parked'[id].action = action
          /\ \A y \in DOMAIN parked : y # id => parked'[y] = parked[y]
        BY <2>1 DEF Put
    <2>4. TAKE y \in 1..MaxId
    <2>5. CASE y = id
        <3>1. View(y) = "Active" BY <2>5, ViewOf
        <3>2. View(y)' \in {"Parked", "Copied"}
            BY <2>1, <2>2, <2>3, <2>5, IInvFacts DEF View
        <3>3. QED BY <3>1, <3>2 DEF Moved, Lifecycle!Successors
    <2>6. CASE y # id BY <2>1, <2>2, <2>3, <2>6 DEF Moved, View
    <2>7. QED BY <2>5, <2>6
<1>9. ASSUME NEW id \in DOMAIN parked, Unpark(id)
      PROVE  \A y \in 1..MaxId : Moved(y)
    <2>1. /\ parked[id].action = "RetryTransfer"
          /\ parked' = Drop(parked, {id})
          /\ UNCHANGED <<next, active, fate>>
        BY <1>9 DEF Unpark, resultVars
    <2>2. Issued' = Issued BY <2>1 DEF Issued
    <2>3. /\ DOMAIN parked' = DOMAIN parked \ {id}
          /\ \A y \in DOMAIN parked' : parked'[y] = parked[y]
        BY <2>1 DEF Drop, Restrict
    <2>4. TAKE y \in 1..MaxId
    <2>5. CASE y = id
        <3>1. View(y) = "Parked" BY <2>1, <2>5, ViewOf
        <3>2. fate[y] = "Live" BY <2>5, ViewOf DEF Live
        <3>3. View(y)' = "Pending"
            BY <2>1, <2>2, <2>3, <2>5, <3>2, IInvFacts DEF View
        <3>4. QED BY <3>1, <3>3 DEF Moved, Lifecycle!Successors
    <2>6. CASE y # id BY <2>1, <2>2, <2>3, <2>6 DEF Moved, View
    <2>7. QED BY <2>5, <2>6
<1>10. ASSUME NEW id \in DOMAIN parked, NEW action \in RecoveryAction,
              BeginParkedRetry(id, action)
       PROVE  \A y \in 1..MaxId : Moved(y)
    <2>1. /\ parked' = [parked EXCEPT ![id].attempts = NextAttempt(id)]
          /\ UNCHANGED <<next, active, fate>>
        BY <1>10 DEF BeginParkedRetry, resultVars
    <2>2. /\ DOMAIN parked' = DOMAIN parked
          /\ \A y \in DOMAIN parked : parked'[y].action = parked[y].action
        BY <2>1, IInvFacts DEF Incidents
    <2>3. QED BY <2>1, <2>2 DEF Moved, View, Issued
<1>11. ASSUME NEW dest \in Key, NEW size \in Size, NEW attempts \in 0..MaxAttempt,
              RestoreParkedSourceRemoval(dest, size, attempts), IInv'
       PROVE  \A y \in 1..MaxId : Moved(y)
    <2>1. /\ fate' = Put(fate, next, "Live")
          /\ parked' = Put(parked, next, [action |-> "RetrySourceRemoval",
                                          attempts |-> Greater(attempts, 1)])
          /\ active' = active
          /\ next # 0
        BY <1>11 DEF RestoreParkedSourceRemoval
    <2>2. Issued' = Issued \cup {next}
        <3>1. DOMAIN fate' = Issued' /\ DOMAIN fate = Issued
            BY <1>11 DEF IInv, ContainersTypeOK
        <3>2. QED BY <2>1, <3>1 DEF Put
    <2>3. next \notin Issued
        BY <2>1, PlanAssumption DEF Issued, IdsBefore, IInv, ContainersTypeOK
    <2>4. /\ DOMAIN parked' = DOMAIN parked \cup {next}
          /\ parked'[next].action = "RetrySourceRemoval"
          /\ \A y \in DOMAIN parked : y # next => parked'[y] = parked[y]
          /\ \A y \in Issued : fate'[y] = fate[y]
        BY <2>1, <2>3 DEF Put, IInv, ContainersTypeOK
    <2>5. TAKE y \in 1..MaxId
    <2>6. CASE y = next
        <3>1. View(y) = "Absent" BY <2>3, <2>6 DEF View
        <3>2. View(y)' = "Copied" BY <2>1, <2>2, <2>3, <2>4, <2>6, IInvFacts DEF View
        <3>3. QED BY <3>1, <3>2 DEF Moved, Lifecycle!Successors
    <2>7. CASE y # next BY <2>1, <2>2, <2>4, <2>7 DEF Moved, View
    <2>8. QED BY <2>6, <2>7
<1>12. ASSUME NEW id \in active, NEW o \in Outcome, ResolveActive(id, o)
       PROVE  \A y \in 1..MaxId : Moved(y)
    <2> DEFINE S == {id}
    <2>1. ResolveLocked(S, o) /\ active' = active \ S /\ parked' = parked
        BY <1>12 DEF ResolveActive
    <2>2. S \in SUBSET Live /\ S \cap DOMAIN parked = {} BY IInvFacts DEF Live
    <2> HIDE DEF S
    <2>3. parked' = Drop(parked, S)
        <3>1. DOMAIN parked \ S = DOMAIN parked BY <2>2
        <3>2. QED BY <2>1, <3>1, IInvFacts DEF Drop, Restrict
    <2>4. QED BY <2>1, <2>2, <2>3, ResolveLockedFacts, SettleMoves
<1>13. ASSUME NEW id \in DOMAIN parked, NEW o \in Outcome, ResolveParked(id, o)
       PROVE  \A y \in 1..MaxId : Moved(y)
    <2> DEFINE S == {id}
    <2>1. ResolveLocked(S, o) /\ active' = active /\ parked' = Drop(parked, S)
        BY <1>13 DEF ResolveParked
    <2>2. S \in SUBSET Live /\ S \cap active = {} BY IInvFacts DEF Live
    <2> HIDE DEF S
    <2>3. active' = active \ S BY <2>1, <2>2
    <2>4. QED BY <2>1, <2>2, <2>3, ResolveLockedFacts, SettleMoves
<1>14. ASSUME NEW id \in Queued, NEW o \in Outcome, ResolvePending(id, o)
       PROVE  \A y \in 1..MaxId : Moved(y)
    <2> DEFINE S == {id}
    <2>1. ResolveLocked(S, o) /\ UNCHANGED <<active, parked>> /\ S \in SUBSET Queued
        BY <1>14 DEF ResolvePending
    <2> HIDE DEF S
    <2>2. QED BY <2>1, ResolveQueuedMoves
<1>15. ASSUME NEW folder \in Folder, FailPendingUnder(folder)
       PROVE  \A y \in 1..MaxId : Moved(y)
    <2> DEFINE S == {id \in Queued : file[id].dest \in folder}
    <2>1. /\ ResolveLocked(S, "Failed") /\ UNCHANGED <<active, parked>>
          /\ S \in SUBSET Queued /\ "Failed" \in Outcome
        BY <1>15 DEF FailPendingUnder, Outcome
    <2> HIDE DEF S
    <2>2. QED BY <2>1, ResolveQueuedMoves
<1>16. IInv' BY NextIInv
<1>17. QED
    BY <1>1, <1>2, <1>3, <1>4, <1>5, <1>6, <1>7, <1>8, <1>9, <1>10, <1>11,
       <1>12, <1>13, <1>14, <1>15, <1>16 DEF Next

\* Whatever workers, window and recovery do to the plan, each item only goes
\* through the transitions of is_valid_item_transition, and one that is already
\* copied is never transfer work again.
THEOREM PlanImplementsLifecycle == Spec => ImplementsLifecycle
<1>1. Init /\ IInv => Lifecycle!Init
    <2> SUFFICES ASSUME Init, IInv, NEW id \in 1..MaxId
                 PROVE  StateOf(id) \in {"Absent", "Pending"}
        BY DEF Lifecycle!Init
    <2>1. active = {} /\ DOMAIN parked = {} BY DEF Init
    <2>2. \A y \in Issued : fate[y] = "Live"
        <3>1. PICK plan \in Batch : fate = [y \in Positions(plan) |-> "Live"]
            BY DEF Init
        <3>2. DOMAIN fate = Issued BY DEF IInv, ContainersTypeOK
        <3>3. QED BY <3>1, <3>2
    <2>3. StateOf(id) = View(id) BY IInvViews DEF ViewsAgree
    <2>4. QED BY <2>1, <2>2, <2>3 DEF View
<1>2. IInv => ViewsAgree BY IInvViews
<1>3. ASSUME IInv, IInv', ViewsAgree, ViewsAgree', [Next]_vars
      PROVE  [Lifecycle!Step]_([id \in 1..MaxId |-> StateOf(id)])
    <2>1. CASE UNCHANGED vars
        <3>1. UNCHANGED <<next, pending, active, parked, fate>>
            BY <2>1 DEF vars, queueVars, resultVars
        <3>2. \A id \in 1..MaxId : StateOf(id)' = StateOf(id)
            BY <3>1 DEF StateOf, Issued, Queued
        <3>3. QED BY <3>2
    <2>2. CASE Next
        <3>1. \A id \in 1..MaxId :
                StateOf(id)' # StateOf(id)
                  => StateOf(id)' \in Lifecycle!Successors(StateOf(id))
            BY <1>3, <2>2, NextMoves DEF Moved, ViewsAgree
        <3>2. \A id \in 1..MaxId : StateOf(id)' \in Lifecycle!ItemState
            <4>1. \A id \in 1..MaxId : View(id)' \in Lifecycle!ItemState
                BY <1>3
                DEF View, IInv, ContainersTypeOK, Fate, Outcome,
                    Lifecycle!ItemState, Lifecycle!Terminal
            <4>2. QED BY <1>3, <4>1 DEF ViewsAgree
        <3>3. QED BY <3>1, <3>2 DEF Lifecycle!Step
    <2>3. QED BY <1>3, <2>1, <2>2
<1>4. QED BY <1>1, <1>2, <1>3, Invariance, PTL DEF Spec, ImplementsLifecycle, Lifecycle!Spec
=============================================================================
