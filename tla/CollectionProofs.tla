---------------------------- MODULE CollectionProofs ----------------------------
(***************************************************************************)
(* The collector, its identity links and the verified publication, for     *)
(* every center, every plan and every bound: no cycle breaks the contract, *)
(* what the gate approves is faithful, New UI stays apart, and staging     *)
(* gets the snapshot of the confirmed plan.                                *)
(*                                                                         *)
(* The pages are the hard part: while the list moves under them, what they *)
(* have passed and what lies beyond must be kept apart by position, until  *)
(* a device that leaves or a page full of new ones makes it impossible.    *)
(* The library's induction theorems are out of the provers' reach, so the  *)
(* recursion over a page is unrolled by a least counterexample (Least,     *)
(* UpTo).                                                                  *)
(***************************************************************************)
EXTENDS VerifiedStaging, SequenceTheorems, NaturalsInduction, WellFoundedInduction, TLAPS

(***************************************************************************)
(* Sequences.                                                              *)
(***************************************************************************)

\* What stands where in a sequence followed by another.
LEMMA JoinAt ==
    ASSUME NEW S, NEW left \in Seq(S), NEW right \in Seq(S)
    PROVE  /\ left \o right \in Seq(S) /\ Len(left \o right) = Len(left) + Len(right)
           /\ \A k \in 1..Len(left) : (left \o right)[k] = left[k]
           /\ \A k \in 1..Len(right) : (left \o right)[Len(left) + k] = right[k]
<1>1. \A k \in 1..Len(left) + Len(right) :
         (left \o right)[k] = IF k <= Len(left) THEN left[k] ELSE right[k - Len(left)]
  BY ConcatProperties
<1> QED BY <1>1, ConcatProperties, LenProperties

\* Where the elements are once one has been inserted.
LEMMA InsertedAt ==
    ASSUME NEW S, NEW s \in Seq(S), NEW i \in 1..Len(s) + 1, NEW d \in S
    PROVE  /\ InsertAt(s, i, d) \in Seq(S) /\ Len(InsertAt(s, i, d)) = Len(s) + 1
           /\ InsertAt(s, i, d)[i] = d
           /\ \A k \in 1..Len(s) : InsertAt(s, i, d)[IF k < i THEN k ELSE k + 1] = s[k]
<1> DEFINE a == SubSeq(s, 1, i - 1)
           b == SubSeq(s, i, Len(s))
           c == a \o <<d>>
<1>1. a \in Seq(S) /\ Len(a) = i - 1 /\ \A k \in 1..i - 1 : a[k] = s[k]
  OBVIOUS
<1>2. b \in Seq(S) /\ Len(b) = Len(s) + 1 - i /\ \A k \in 1..Len(s) + 1 - i : b[k] = s[i + k - 1]
  OBVIOUS
<1>3. <<d>> \in Seq(S) /\ Len(<<d>>) = 1 /\ <<d>>[1] = d
  OBVIOUS
<1>4. InsertAt(s, i, d) = c \o b
  BY DEF InsertAt
<1> HIDE DEF a, b
<1>5. /\ c \in Seq(S) /\ Len(c) = i
      /\ \A k \in 1..i - 1 : c[k] = s[k]
      /\ c[i] = d
  BY <1>1, <1>3, JoinAt
<1> HIDE DEF c
<1>6. /\ c \o b \in Seq(S) /\ Len(c \o b) = Len(s) + 1
      /\ \A k \in 1..i : (c \o b)[k] = c[k]
      /\ \A k \in 1..Len(s) + 1 - i : (c \o b)[i + k] = b[k]
  <2>1. /\ c \o b \in Seq(S) /\ Len(c \o b) = Len(c) + Len(b)
        /\ \A k \in 1..Len(c) : (c \o b)[k] = c[k]
        /\ \A k \in 1..Len(b) : (c \o b)[Len(c) + k] = b[k]
    BY <1>2, <1>5, JoinAt
  <2>2. Len(c) = i /\ Len(b) = Len(s) + 1 - i /\ Len(s) \in Nat
    BY <1>2, <1>5, LenProperties
  <2>3. Len(c) + Len(b) = Len(s) + 1
    BY <2>2
  <2> QED BY <2>1, <2>2, <2>3
<1>7. ASSUME NEW k \in 1..Len(s)
      PROVE  (c \o b)[IF k < i THEN k ELSE k + 1] = s[k]
  <2>1. CASE k < i
    BY <1>5, <1>6, <2>1
  <2>2. CASE k >= i
    <3>1. k + 1 - i \in 1..Len(s) + 1 - i /\ i + (k + 1 - i) = k + 1 /\ i + (k + 1 - i) - 1 = k
      BY <2>2
    <3> QED BY <1>2, <1>6, <2>2, <3>1
  <2>3. k < i \/ k >= i
    BY LenProperties
  <2> QED BY <2>1, <2>2, <2>3
<1> QED BY <1>4, <1>5, <1>6, <1>7

\* Where they are once one has been removed.
LEMMA RemovedAt ==
    ASSUME NEW S, NEW s \in Seq(S), NEW i \in 1..Len(s)
    PROVE  /\ RemoveAt(s, i) \in Seq(S) /\ Len(RemoveAt(s, i)) = Len(s) - 1
           /\ \A k \in 1..Len(s) - 1 : RemoveAt(s, i)[k] = s[IF k < i THEN k ELSE k + 1]
<1> DEFINE a == SubSeq(s, 1, i - 1)
           b == SubSeq(s, i + 1, Len(s))
<1>1. a \in Seq(S) /\ Len(a) = i - 1 /\ \A k \in 1..i - 1 : a[k] = s[k]
  OBVIOUS
<1>2. b \in Seq(S) /\ Len(b) = Len(s) - i /\ \A k \in 1..Len(s) - i : b[k] = s[i + k]
  OBVIOUS
<1>3. RemoveAt(s, i) = a \o b
  BY DEF RemoveAt
<1> HIDE DEF a, b
<1>4. /\ a \o b \in Seq(S) /\ Len(a \o b) = Len(s) - 1
      /\ \A k \in 1..i - 1 : (a \o b)[k] = a[k]
      /\ \A k \in 1..Len(s) - i : (a \o b)[i - 1 + k] = b[k]
  <2>1. /\ a \o b \in Seq(S) /\ Len(a \o b) = Len(a) + Len(b)
        /\ \A k \in 1..Len(a) : (a \o b)[k] = a[k]
        /\ \A k \in 1..Len(b) : (a \o b)[Len(a) + k] = b[k]
    <3>1. a \in Seq(S) /\ b \in Seq(S)
      BY <1>1, <1>2
    <3> QED BY <3>1, JoinAt
  <2>2. Len(s) \in Nat
    BY LenProperties
  <2> QED BY <1>1, <1>2, <2>1, <2>2
<1>5. ASSUME NEW k \in 1..Len(s) - 1
      PROVE  (a \o b)[k] = s[IF k < i THEN k ELSE k + 1]
  <2>1. CASE k < i
    BY <1>1, <1>4, <2>1
  <2>2. CASE k >= i
    <3> DEFINE m == k - i + 1
    <3>1. m \in 1..Len(s) - i /\ i - 1 + m = k /\ i + m = k + 1 /\ ~(k < i)
      BY <2>2
    <3>2. (a \o b)[i - 1 + m] = b[m] /\ b[m] = s[i + m]
      BY <1>2, <1>4, <3>1
    <3> QED BY <3>1, <3>2
  <2>3. k < i \/ k >= i
    BY LenProperties
  <2> QED BY <2>1, <2>2, <2>3
<1> QED BY <1>3, <1>4, <1>5

\* Both keep a list without repetitions.
LEMMA InsertedOnce ==
    ASSUME NEW S, NEW s \in Seq(S), NEW i \in 1..Len(s) + 1, NEW d \in S,
           IsInjective(s), d \notin Range(s)
    PROVE  /\ IsInjective(InsertAt(s, i, d))
           /\ Range(InsertAt(s, i, d)) = Range(s) \cup {d}
<1> DEFINE t == InsertAt(s, i, d)
<1>1. /\ t \in Seq(S) /\ Len(t) = Len(s) + 1 /\ t[i] = d
      /\ \A k \in 1..Len(s) : t[IF k < i THEN k ELSE k + 1] = s[k]
  BY InsertedAt
<1> HIDE DEF t
<1>2. \A k \in 1..Len(s) + 1 : k # i => t[k] = s[IF k < i THEN k ELSE k - 1]
  <2> TAKE k \in 1..Len(s) + 1
  <2> HAVE k # i
  <2>1. CASE k < i
    BY <1>1, <2>1
  <2>2. CASE k > i
    <3>1. k - 1 \in 1..Len(s) /\ ~(k - 1 < i) /\ k - 1 + 1 = k
      BY <2>2
    <3> QED BY <1>1, <2>2, <3>1
  <2> QED BY <2>1, <2>2
<1>3. \A k \in 1..Len(s) + 1 : k # i => t[k] \in Range(s)
  BY <1>2 DEF Range
<1>4. IsInjective(t)
  <2> SUFFICES ASSUME NEW j \in 1..Len(s) + 1, NEW k \in 1..Len(s) + 1, t[j] = t[k] PROVE j = k
    BY <1>1 DEF IsInjective
  <2>1. CASE j = i \/ k = i
    BY <1>1, <1>3, <2>1
  <2>2. CASE j # i /\ k # i
    BY <1>2, <2>2 DEF IsInjective
  <2> QED BY <2>1, <2>2
<1>5. \A x \in Range(s) : x \in Range(t)
  <2> TAKE x \in Range(s)
  <2>1. PICK k \in 1..Len(s) : x = s[k]
    BY DEF Range
  <2>2. (IF k < i THEN k ELSE k + 1) \in DOMAIN t
    BY <1>1
  <2> QED BY <1>1, <2>1, <2>2 DEF Range
<1>6. d \in Range(t) /\ \A x \in Range(t) : x \in Range(s) \cup {d}
  BY <1>1, <1>3 DEF Range
<1> QED BY <1>4, <1>5, <1>6 DEF t

\* A sequence without repetitions has none after a removal, which takes one
\* value out of it.
LEMMA RemovedOnce ==
    ASSUME NEW S, NEW s \in Seq(S), NEW i \in 1..Len(s), IsInjective(s)
    PROVE  /\ IsInjective(RemoveAt(s, i))
           /\ Range(RemoveAt(s, i)) = Range(s) \ {s[i]}
<1> DEFINE t == RemoveAt(s, i)
           at(k) == IF k < i THEN k ELSE k + 1
<1>1. /\ t \in Seq(S) /\ Len(t) = Len(s) - 1
      /\ \A k \in 1..Len(s) - 1 : t[k] = s[at(k)]
  BY RemovedAt
<1>2. \A k \in 1..Len(s) - 1 : at(k) \in 1..Len(s) /\ at(k) # i
  OBVIOUS
<1>3. \A j, k \in 1..Len(s) - 1 : at(j) = at(k) => j = k
  OBVIOUS
<1>4. \A j \in 1..Len(s) : j # i => \E k \in 1..Len(s) - 1 : at(k) = j
  <2> TAKE j \in 1..Len(s)
  <2> HAVE j # i
  <2>1. CASE j < i
    <3>1. j \in 1..Len(s) - 1 /\ at(j) = j
      BY <2>1
    <3> QED BY <3>1
  <2>2. CASE j > i
    <3>1. j - 1 \in 1..Len(s) - 1 /\ at(j - 1) = j
      BY <2>2
    <3> QED BY <3>1
  <2> QED BY <2>1, <2>2
<1> HIDE DEF t, at
<1>5. IsInjective(t)
  <2> SUFFICES ASSUME NEW j \in 1..Len(s) - 1, NEW k \in 1..Len(s) - 1, t[j] = t[k] PROVE j = k
    BY <1>1 DEF IsInjective
  <2>1. at(j) = at(k)
    BY <1>1, <1>2 DEF IsInjective
  <2> QED BY <1>3, <2>1
<1>6. \A x \in Range(t) : x \in Range(s) \ {s[i]}
  <2> TAKE x \in Range(t)
  <2>1. PICK k \in 1..Len(s) - 1 : x = t[k]
    BY <1>1 DEF Range
  <2>2. x = s[at(k)] /\ at(k) \in 1..Len(s) /\ at(k) # i
    BY <1>1, <1>2, <2>1
  <2> QED BY <2>2 DEF Range, IsInjective
<1>7. \A x \in Range(s) \ {s[i]} : x \in Range(t)
  <2> TAKE x \in Range(s) \ {s[i]}
  <2>1. PICK j \in 1..Len(s) : x = s[j] /\ j # i
    BY DEF Range
  <2>2. PICK k \in 1..Len(s) - 1 : at(k) = j
    BY <1>4, <2>1
  <2> QED BY <1>1, <2>1, <2>2 DEF Range
<1> QED BY <1>5, <1>6, <1>7 DEF t

\* The least of a set of numbers that is not empty.
LEMMA Least ==
    ASSUME NEW S \in SUBSET Nat, S # {}
    PROVE  \E n \in S : \A m \in S : n <= m
<1> DEFINE R == {p \in Nat \X Nat : p[1] < p[2]}
<1>1. IsWellFoundedOn(R, Nat)
  BY NatLessThanWellFounded DEF OpToRel
<1> HIDE DEF R
<1>2. PICK n \in S : \A m \in S : <<m, n>> \notin R
  BY <1>1, WFMin
<1>3. ASSUME NEW m \in S PROVE ~(m < n)
  <2>1. m \in Nat /\ n \in Nat /\ <<m, n>> \notin R
    BY <1>2
  <2> QED BY <2>1 DEF R
<1> QED BY <1>3

\* Induction, with the set of the numbers for which something holds.
LEMMA UpTo ==
    ASSUME NEW N \in Nat, NEW T, 0 \in T, \A n \in 0..N : n \in T /\ n < N => n + 1 \in T
    PROVE  0..N \subseteq T
<1> SUFFICES ASSUME (0..N) \ T # {} PROVE FALSE
  OBVIOUS
<1>1. PICK n \in (0..N) \ T : \A m \in (0..N) \ T : n <= m
  <2>1. (0..N) \ T \in SUBSET Nat
    OBVIOUS
  <2> QED BY <2>1, Least
<1>2. n - 1 \in 0..N /\ n - 1 < N /\ n - 1 + 1 = n /\ ~(n <= n - 1)
  BY <1>1
<1> QED BY <1>1, <1>2

(***************************************************************************)
(* The devices of a page that are new.                                     *)
(***************************************************************************)

\* One item more.
After(list, d, known) == IF d \in known \cup Range(list) THEN list ELSE Append(list, d)

\* One more value, unless it is known already.
LEMMA AfterOnce ==
    ASSUME NEW S, NEW list \in Seq(S), NEW d \in S, NEW known, IsInjective(list)
    PROVE  /\ After(list, d, known) \in Seq(S) /\ IsInjective(After(list, d, known))
           /\ Range(After(list, d, known)) = Range(list) \cup ({d} \ known)
<1>1. CASE d \in known \cup Range(list)
  BY <1>1 DEF After
<1>2. CASE d \notin known \cup Range(list)
  <2> DEFINE t == Append(list, d)
  <2>1. t \in Seq(S) /\ Len(t) = Len(list) + 1 /\ t[Len(list) + 1] = d
        /\ \A k \in 1..Len(list) : t[k] = list[k]
    BY AppendProperties
  <2>2. Len(list) \in Nat
    BY LenProperties
  <2> HIDE DEF t
  <2>3. \A k \in 1..Len(t) : k = Len(list) + 1 \/ k \in 1..Len(list)
    BY <2>1, <2>2
  <2>4. \A k \in 1..Len(list) : list[k] \in Range(list)
    BY DEF Range
  <2>5. IsInjective(t)
    <3> SUFFICES ASSUME NEW j \in 1..Len(t), NEW k \in 1..Len(t), t[j] = t[k] PROVE j = k
      BY <2>1 DEF IsInjective
    <3> QED BY <1>2, <2>1, <2>3, <2>4 DEF IsInjective
  <2>6. Range(t) = Range(list) \cup {d}
    <3>1. 1..Len(list) \subseteq 1..Len(t) /\ Len(list) + 1 \in 1..Len(t)
      BY <2>1, <2>2
    <3> QED BY <2>1, <2>3, <3>1 DEF Range
  <2> QED BY <1>2, <2>1, <2>5, <2>6 DEF After, t
<1> QED BY <1>1, <1>2

\* The new ones among the first m items, for every m up to n.
Picked(items, known, n, f) ==
    f = [m \in 0..n |-> IF m = 0 THEN <<>> ELSE After(f[m - 1], items[m], known)]

\* The recursion over a page has a solution.
LEMMA PickedExists ==
    ASSUME NEW known, NEW items, NEW N \in Nat
    PROVE  \E f : Picked(items, known, N, f)
<1> DEFINE T == {n \in 0..N : \E f : Picked(items, known, n, f)}
<1>1. 0 \in T
  <2> DEFINE f == [m \in 0..0 |-> <<>>]
  <2>1. \A m \in 0..0 : m = 0
    OBVIOUS
  <2>2. Picked(items, known, 0, f)
    BY <2>1 DEF Picked
  <2> QED BY <2>2
<1>2. ASSUME NEW n \in 0..N, n \in T, n < N PROVE n + 1 \in T
  <2>1. PICK f : Picked(items, known, n, f)
    BY <1>2
  <2> DEFINE g == [m \in 0..n + 1 |->
                     IF m = n + 1 THEN After(f[n], items[n + 1], known) ELSE f[m]]
  <2>2. g = [m \in 0..n + 1 |-> g[m]]
    OBVIOUS
  <2>3. \A m \in 0..n : g[m] = f[m]
    OBVIOUS
  <2>4. g[n + 1] = After(f[n], items[n + 1], known)
    OBVIOUS
  <2> HIDE DEF g
  <2>5. \A m \in 0..n + 1 :
          g[m] = IF m = 0 THEN <<>> ELSE After(g[m - 1], items[m], known)
    <3> TAKE m \in 0..n + 1
    <3>1. CASE m = n + 1
      <4>1. m - 1 = n /\ n \in 0..n /\ m # 0
        BY <3>1
      <4> QED BY <2>3, <2>4, <3>1, <4>1
    <3>2. CASE m # n + 1
      <4>1. m \in 0..n /\ (m # 0 => m - 1 \in 0..n)
        BY <3>2
      <4>2. f[m] = IF m = 0 THEN <<>> ELSE After(f[m - 1], items[m], known)
        BY <2>1, <4>1, Zenon DEF Picked
      <4> QED BY <2>3, <4>1, <4>2
    <3> QED BY <3>1, <3>2
  <2>6. Picked(items, known, n + 1, g)
    BY <2>2, <2>5, Zenon DEF Picked
  <2> QED BY <1>2, <2>6
<1> HIDE DEF T
<1>3. 0..N \subseteq T
  BY <1>1, <1>2, UpTo
<1>4. N \in T
  BY <1>3
<1> QED BY <1>4 DEF T

\* The bounds are numbers.
LEMMA Bounds ==
    /\ PageSize \in Nat \ {0} /\ MaxPages \in Nat \ {0} /\ MaxDetails \in Nat \ {0}
    /\ MaxFaults \in Nat /\ MaxChanges \in Nat /\ MaxCycles \in Nat
  BY CollectionAssumption

\* A page is a stretch of the list; a short one reaches its end.
LEMMA PageIs ==
    ASSUME center \in Seq(Devices), page \in Nat
    PROVE  /\ PageItems \in Seq(Devices)
           /\ Len(PageItems) \in 0..PageSize
           /\ \/ page * PageSize + Len(PageItems) <= Len(center)
              \/ Len(PageItems) = 0
           /\ Len(PageItems) < PageSize => page * PageSize + Len(PageItems) >= Len(center)
           /\ \A k \in 1..Len(PageItems) : /\ page * PageSize + k \in DOMAIN center
                                           /\ PageItems[k] = center[page * PageSize + k]
<1> DEFINE from == page * PageSize
           to == Min({Len(center), (page + 1) * PageSize})
<1>1. PageSize \in Nat /\ PageSize > 0
  BY CollectionAssumption
<1>2. from \in Nat /\ Len(center) \in Nat /\ (page + 1) * PageSize = from + PageSize
  BY <1>1, LenProperties
<1>3. to = IF Len(center) <= from + PageSize THEN Len(center) ELSE from + PageSize
  <2> DEFINE S == {Len(center), from + PageSize}
             m == IF Len(center) <= from + PageSize THEN Len(center) ELSE from + PageSize
  <2>1. m \in S /\ \A y \in S : m <= y
    BY <1>1, <1>2
  <2>2. \A x \in S : (\A y \in S : x <= y) => x = m
    BY <1>1, <1>2
  <2>3. Min(S) = m
    <3> HIDE DEF S, m
    <3> QED BY <2>1, <2>2, Zenon DEF Min
  <2> QED BY <1>2, <2>3
<1> HIDE DEF from, to
<1>4. PageItems = SubSeq(center, from + 1, to)
  BY DEF PageItems, from, to
<1>5. from + 1 \in Nat /\ to \in Nat /\ from + 1 > 0 /\ to <= Len(center)
  BY <1>1, <1>2, <1>3
<1>6. /\ PageItems \in Seq(Devices)
      /\ Len(PageItems) = IF from + 1 <= to THEN to - from ELSE 0
      /\ \A k \in 1..Len(PageItems) : PageItems[k] = center[from + k]
  <2>1. \A k \in from + 1..to : k \in 1..Len(center)
    BY <1>5, <1>2
  <2>2. PageItems \in Seq(Devices)
    BY <1>2, <1>4, <1>5, <2>1, SubSeqProperties
  <2>3. Len(PageItems) = IF from + 1 <= to THEN to - from ELSE 0
    BY <1>2, <1>4, <1>5, <2>1
  <2>4. \A k \in 1..Len(PageItems) : PageItems[k] = center[from + k]
    BY <1>2, <1>4, <1>5, <2>1, <2>3
  <2> QED BY <2>2, <2>3, <2>4
<1>7. /\ Len(PageItems) \in 0..PageSize
      /\ from + Len(PageItems) <= Len(center) \/ Len(PageItems) = 0
      /\ Len(PageItems) < PageSize => from + Len(PageItems) >= Len(center)
  BY <1>1, <1>2, <1>3, <1>6
<1>8. \A k \in 1..Len(PageItems) : from + k \in 1..Len(center)
  BY <1>2, <1>7
<1> QED BY <1>6, <1>7, <1>8 DEF from

\* What a page has that was not read before, once each.
LEMMA NewItemsAre ==
    ASSUME PageItems \in Seq(Devices)
    PROVE  /\ NewItems \in Seq(Devices) /\ IsInjective(NewItems)
           /\ Range(NewItems) = Range(PageItems) \ Range(results)
<1> DEFINE items == PageItems
           known == Range(results)
           N == Len(items)
           Is(g) == g = [n \in 0..Len(PageItems) |->
                           IF n = 0 THEN <<>>
                           ELSE IF PageItems[n] \in Range(results) \cup Range(g[n - 1]) THEN g[n - 1]
                           ELSE Append(g[n - 1], PageItems[n])]
           h == CHOOSE g : Is(g)
<1>1. NewItems = h[N]
  BY Zenon DEF NewItems
<1>2. N \in Nat
  BY LenProperties
<1>3. \A g : Is(g) <=> Picked(items, known, N, g)
  BY Zenon DEF Picked, After
<1>4. \E g : Is(g)
  BY <1>2, <1>3, PickedExists
<1> HIDE DEF Is
<1>5. Is(h)
  BY <1>4, Zenon
<1> HIDE DEF h
<1>6. Picked(items, known, N, h)
  BY <1>3, <1>5
<1> DEFINE T == {n \in 0..N : /\ h[n] \in Seq(Devices) /\ IsInjective(h[n])
                              /\ Range(h[n]) = {items[k] : k \in 1..n} \ known}
<1>7. 0 \in T
  <2>1. 0 \in 0..N
    BY <1>2
  <2>2. h[0] = <<>>
    BY <1>6, <2>1 DEF Picked
  <2>3. <<>> \in Seq(Devices) /\ DOMAIN <<>> = {}
    OBVIOUS
  <2>4. IsInjective(<<>>) /\ Range(<<>>) = {}
    BY <2>3 DEF IsInjective, Range
  <2>5. {items[k] : k \in 1..0} = {}
    OBVIOUS
  <2> QED BY <2>1, <2>2, <2>3, <2>4, <2>5
<1>8. ASSUME NEW n \in 0..N, n \in T, n < N PROVE n + 1 \in T
  <2>1. n + 1 \in 1..N /\ n + 1 - 1 = n
    BY <1>2, <1>8
  <2>2. h[n + 1] = After(h[n], items[n + 1], known)
    <3>1. n + 1 \in 0..N /\ n + 1 # 0
      BY <2>1
    <3> QED BY <1>6, <2>1, <3>1 DEF Picked
  <2>3. items[n + 1] \in Devices
    BY <2>1
  <2>4. /\ h[n + 1] \in Seq(Devices) /\ IsInjective(h[n + 1])
        /\ Range(h[n + 1]) = Range(h[n]) \cup ({items[n + 1]} \ known)
    BY <1>8, <2>2, <2>3, AfterOnce
  <2>5. {items[k] : k \in 1..n + 1} = {items[k] : k \in 1..n} \cup {items[n + 1]}
    <3> HIDE DEF items
    <3> QED BY <1>2, <1>8
  <2> QED BY <1>8, <2>1, <2>4, <2>5
<1>9. N \in T
  <2> HIDE DEF T
  <2>1. 0..N \subseteq T
    BY <1>2, <1>7, <1>8, UpTo
  <2> QED BY <1>2, <2>1
<1>10. {items[k] : k \in 1..N} = Range(items)
  BY DEF Range
<1> QED BY <1>1, <1>9, <1>10

(***************************************************************************)
(* The plan of a cycle.                                                    *)
(***************************************************************************)

\* A function on 1..n is a sequence.
LEMMA Listing ==
    ASSUME NEW S, NEW n \in Nat, NEW f \in [1..n -> S]
    PROVE  f \in Seq(S) /\ Len(f) = n /\ Range(f) = {f[i] : i \in 1..n}
<1>1. f \in Seq(S)
  BY SeqDef
<1> QED BY <1>1, LenProperties DEF Range

\* A pair is made of its two parts.
LEMMA Pairing ==
    ASSUME NEW S, NEW T, NEW z \in S \X T
    PROVE  z = <<z[1], z[2]>> /\ z[1] \in S /\ z[2] \in T
  OBVIOUS

\* The lists, in their order.
LEMMA ListsAre ==
    /\ Lists \in Seq(Range(Lists)) /\ Len(Lists) = 12
    /\ Lists[1] = "devices" /\ Lists[2] = "components" /\ Lists[3] = "activities"
    /\ Lists[4] = "flows" /\ Lists[5] = "event_categories" /\ Lists[6] = "event_severities"
    /\ Lists[7] = "risk_distribution" /\ Lists[8] = "protocol_distribution"
    /\ Lists[9] = "vulnerabilities" /\ Lists[10] = "baselines" /\ Lists[11] = "sensors"
    /\ Lists[12] = "reports_metadata"
<1>1. /\ Lists[1] = "devices" /\ Lists[2] = "components" /\ Lists[3] = "activities"
      /\ Lists[4] = "flows" /\ Lists[5] = "event_categories" /\ Lists[6] = "event_severities"
      /\ Lists[7] = "risk_distribution" /\ Lists[8] = "protocol_distribution"
      /\ Lists[9] = "vulnerabilities" /\ Lists[10] = "baselines" /\ Lists[11] = "sensors"
      /\ Lists[12] = "reports_metadata"
  BY DEF Lists
<1>2. Lists = [i \in 1..12 |-> Lists[i]]
  BY DEF Lists
<1>5. Lists \in [1..12 -> Range(Lists)]
  BY <1>2 DEF Range
<1>6. Lists \in Seq(Range(Lists)) /\ Len(Lists) = 12
  BY <1>5, Listing
<1> QED BY <1>1, <1>6

\* The lists of New UI.
LEMMA NewUiListsAre ==
    /\ NewUiLists \in Seq(Range(NewUiLists)) /\ Len(NewUiLists) = 4
    /\ NewUiLists[1] = "new_ui_assets" /\ NewUiLists[2] = "new_ui_vulnerability_assets"
    /\ NewUiLists[3] = "new_ui_networks" /\ NewUiLists[4] = "new_ui_org_hierarchy"
<1>1. /\ NewUiLists[1] = "new_ui_assets" /\ NewUiLists[2] = "new_ui_vulnerability_assets"
      /\ NewUiLists[3] = "new_ui_networks" /\ NewUiLists[4] = "new_ui_org_hierarchy"
  BY DEF NewUiLists
<1>2. NewUiLists = [i \in 1..4 |-> NewUiLists[i]]
  BY DEF NewUiLists
<1>4. NewUiLists \in [1..4 -> Range(NewUiLists)]
  BY <1>2 DEF Range
<1>5. NewUiLists \in Seq(Range(NewUiLists)) /\ Len(NewUiLists) = 4
  BY <1>4, Listing
<1> QED BY <1>1, <1>5

\* The same as sets.
LEMMA RangesAre ==
    /\ Range(Lists) = {"devices", "components", "activities", "flows", "event_categories",
         "event_severities", "risk_distribution", "protocol_distribution",
         "vulnerabilities", "baselines", "sensors", "reports_metadata"}
    /\ Range(NewUiLists) = {"new_ui_assets", "new_ui_vulnerability_assets",
         "new_ui_networks", "new_ui_org_hierarchy"}
    /\ Range(AlertStatuses) = {"Active", "Cleared", "Muted"}
<1>1. /\ DOMAIN Lists = {1, 2, 3, 4, 5, 6, 7, 8, 9, 10, 11, 12}
      /\ DOMAIN NewUiLists = {1, 2, 3, 4}
  BY ListsAre, NewUiListsAre
<1>2. /\ DOMAIN AlertStatuses = {1, 2, 3}
      /\ AlertStatuses[1] = "Active" /\ AlertStatuses[2] = "Cleared" /\ AlertStatuses[3] = "Muted"
  BY DEF AlertStatuses
<1>3. Range(Lists) = {Lists[1], Lists[2], Lists[3], Lists[4], Lists[5], Lists[6], Lists[7],
                      Lists[8], Lists[9], Lists[10], Lists[11], Lists[12]}
  BY <1>1 DEF Range
<1>4. Range(NewUiLists) = {NewUiLists[1], NewUiLists[2], NewUiLists[3], NewUiLists[4]}
  BY <1>1 DEF Range
<1>5. Range(AlertStatuses) = {AlertStatuses[1], AlertStatuses[2], AlertStatuses[3]}
  BY <1>2 DEF Range
<1> QED BY <1>2, <1>3, <1>4, <1>5, ListsAre, NewUiListsAre

\* The questions the collector can ask.
Records   == {"list"} \cup Devices \cup Range(Baselines) \cup Range(Sensors) \cup Range(AlertStatuses)
Names     == ClassicCapabilities \cup NewUiCapabilities
Questions == Names \X Records

\* The questions about whole lists.
LEMMA WholeIs ==
    ASSUME NEW names \in Seq(Names)
    PROVE  /\ Whole(names) \in Seq(Questions) /\ Len(Whole(names)) = Len(names)
           /\ \A i \in 1..Len(names) : Whole(names)[i] = <<names[i], "list">>
           /\ Range(Whole(names)) = Range(names) \X {"list"}
<1>1. /\ Whole(names) = [i \in 1..Len(names) |-> <<names[i], "list">>] /\ Len(names) \in Nat
      /\ \A i \in 1..Len(names) : names[i] \in Names
  BY DEF Whole
<1>2. \A i \in 1..Len(names) : <<names[i], "list">> \in Questions
  BY <1>1 DEF Questions, Records
<1>3. /\ Whole(names) \in Seq(Questions) /\ Len(Whole(names)) = Len(names)
      /\ \A i \in 1..Len(names) : Whole(names)[i] = <<names[i], "list">>
  BY <1>1, <1>2
<1>4. Range(Whole(names)) = Range(names) \X {"list"}
  <2>1. Range(Whole(names)) = {<<names[i], "list">> : i \in 1..Len(names)}
    BY <1>1 DEF Range
  <2>2. Range(names) = {names[i] : i \in 1..Len(names)}
    BY DEF Range
  <2>3. {<<names[i], "list">> : i \in 1..Len(names)} = {names[i] : i \in 1..Len(names)} \X {"list"}
    OBVIOUS
  <2> QED BY <2>1, <2>2, <2>3
<1> QED BY <1>3, <1>4

\* The questions about each record.
LEMMA EachIs ==
    ASSUME NEW S \in SUBSET Records, NEW records \in Seq(S), NEW name \in Names
    PROVE  /\ Each(name, records) \in Seq(Questions)
           /\ Range(Each(name, records)) = {name} \X Range(records)
<1>1. /\ Each(name, records) = [i \in 1..Len(records) |-> <<name, records[i]>>] /\ Len(records) \in Nat
      /\ \A i \in 1..Len(records) : records[i] \in S
  BY DEF Each
<1>2. \A i \in 1..Len(records) : <<name, records[i]>> \in Questions
  BY <1>1 DEF Questions
<1>3. Each(name, records) \in Seq(Questions)
  <2>1. Each(name, records) \in [1..Len(records) -> Questions]
    BY <1>1, <1>2
  <2> QED BY <1>1, <2>1, Listing
<1>4. Range(Each(name, records)) = {name} \X Range(records)
  <2>1. Range(Each(name, records)) = {<<name, records[i]>> : i \in 1..Len(records)}
    BY <1>1 DEF Range
  <2>2. Range(records) = {records[i] : i \in 1..Len(records)}
    BY DEF Range
  <2>3. {<<name, records[i]>> : i \in 1..Len(records)} = {name} \X {records[i] : i \in 1..Len(records)}
    <3>1. \A z \in {name} \X {records[i] : i \in 1..Len(records)} :
            z \in {<<name, records[i]>> : i \in 1..Len(records)}
      <4> TAKE z \in {name} \X {records[i] : i \in 1..Len(records)}
      <4>1. z = <<z[1], z[2]>> /\ z[1] = name /\ z[2] \in {records[i] : i \in 1..Len(records)}
        <5> DEFINE U == {records[i] : i \in 1..Len(records)}
        <5> HIDE DEF U
        <5>1. \A y \in {name} \X U : y = <<y[1], y[2]>> /\ y[1] = name /\ y[2] \in U
          BY Pairing
        <5> QED BY <5>1 DEF U
      <4>2. PICK i \in 1..Len(records) : z[2] = records[i]
        BY <4>1
      <4> QED BY <4>1, <4>2
    <3>2. \A z \in {<<name, records[i]>> : i \in 1..Len(records)} :
            z \in {name} \X {records[i] : i \in 1..Len(records)}
      OBVIOUS
    <3> QED BY <3>1, <3>2
  <2> QED BY <2>1, <2>2, <2>3
<1> QED BY <1>3, <1>4

\* Two questions about each record.
LEMMA EachTwiceIs ==
    ASSUME NEW S \in SUBSET Records, NEW records \in Seq(S), NEW first \in Names, NEW second \in Names
    PROVE  /\ EachTwice(first, second, records) \in Seq(Questions)
           /\ Range(EachTwice(first, second, records)) = {first, second} \X Range(records)
<1> DEFINE n == Len(records)
           t == EachTwice(first, second, records)
           q(i) == <<IF i % 2 = 1 THEN first ELSE second, records[(i + 1) \div 2]>>
<1>1. /\ t = [i \in 1..2 * n |-> q(i)] /\ n \in Nat
      /\ \A i \in 1..n : records[i] \in S
  BY DEF EachTwice
<1>2. \A i \in 1..2 * n : (i + 1) \div 2 \in 1..n
  BY <1>1
<1>3. \A i \in 1..2 * n : q(i) \in Questions /\ q(i) \in {first, second} \X Range(records)
  <2> TAKE i \in 1..2 * n
  <2> DEFINE x == IF i % 2 = 1 THEN first ELSE second
             y == records[(i + 1) \div 2]
  <2>1. x \in {first, second} /\ x \in Names
    OBVIOUS
  <2>2. y \in S /\ y \in Range(records)
    BY <1>1, <1>2 DEF Range
  <2> HIDE DEF x, y
  <2>3. <<x, y>> \in Questions /\ <<x, y>> \in {first, second} \X Range(records)
    BY <2>1, <2>2 DEF Questions
  <2> QED BY <2>3 DEF x, y
<1>4. \A k \in 1..n : q(2 * k) = <<second, records[k]>> /\ q(2 * k - 1) = <<first, records[k]>>
  <2> TAKE k \in 1..n
  <2>1. k \in Nat
    BY <1>1
  <2>2. /\ (2 * k) % 2 = 0 /\ (2 * k + 1) \div 2 = k
        /\ (2 * k - 1) % 2 = 1 /\ (2 * k - 1 + 1) \div 2 = k
    BY <2>1
  <2>3. q(2 * k) = <<second, records[k]>>
    <3>1. ~((2 * k) % 2 = 1)
      BY <2>2
    <3> QED BY <2>2, <3>1
  <2>4. q(2 * k - 1) = <<first, records[k]>>
    BY <2>2
  <2> QED BY <2>3, <2>4
<1>5. \A k \in 1..n : 2 * k \in 1..2 * n /\ 2 * k - 1 \in 1..2 * n
  BY <1>1
<1> HIDE DEF q, t, n
<1>6. t \in Seq(Questions)
  <2>1. 2 * n \in Nat
    BY <1>1
  <2>2. \A i \in 1..2 * n : q(i) \in Questions
    BY <1>3
  <2>3. t \in [1..2 * n -> Questions]
    BY <1>1, <2>2
  <2> QED BY <2>1, <2>3, Listing
<1>7. \A x \in Range(t) : x \in {first, second} \X Range(records)
  BY <1>1, <1>3 DEF Range
<1>8. \A x \in {first, second} \X Range(records) : x \in Range(t)
  <2> TAKE x \in {first, second} \X Range(records)
  <2>1. PICK k \in 1..n : x[2] = records[k]
    BY DEF Range, n
  <2>2. x = <<second, records[k]>> \/ x = <<first, records[k]>>
    <3>1. x = <<x[1], x[2]>> /\ (x[1] = first \/ x[1] = second)
      <4> DEFINE U == Range(records)
      <4> HIDE DEF U
      <4>1. \A y \in {first, second} \X U : y = <<y[1], y[2]>> /\ y[1] \in {first, second}
        BY Pairing
      <4> QED BY <4>1 DEF U
    <3> QED BY <2>1, <3>1
  <2>3. x = q(2 * k) \/ x = q(2 * k - 1)
    BY <1>4, <2>2
  <2> QED BY <1>1, <1>5, <2>3 DEF Range
<1> QED BY <1>6, <1>7, <1>8 DEF t

\* The values of a sequence followed by another.
LEMMA JoinSeq ==
    ASSUME NEW S, NEW left \in Seq(S), NEW right \in Seq(S)
    PROVE  left \o right \in Seq(S) /\ Range(left \o right) = Range(left) \cup Range(right)
  BY ConcatProperties, RangeConcatenation

\* The devices whose details are asked.
LEMMA DetailedAre ==
    ASSUME got \in Seq(Devices)
    PROVE  /\ DetailedDevices \in Seq(Devices)
           /\ Range(DetailedDevices) \subseteq Range(got)
           /\ ~Truncated => DetailedDevices = got
<1> DEFINE m == Min({MaxDetails, Len(got)})
<1>1. MaxDetails \in Nat /\ Len(got) \in Nat
  BY CollectionAssumption, LenProperties
<1>2. m = IF MaxDetails <= Len(got) THEN MaxDetails ELSE Len(got)
  <2> DEFINE S == {MaxDetails, Len(got)}
             n == IF MaxDetails <= Len(got) THEN MaxDetails ELSE Len(got)
  <2>1. n \in S /\ \A y \in S : n <= y
    BY <1>1
  <2>2. \A x \in S : (\A y \in S : x <= y) => x = n
    BY <1>1
  <2>3. Min(S) = n
    <3> HIDE DEF S, n
    <3> QED BY <2>1, <2>2, Zenon DEF Min
  <2> QED BY <2>3
<1> HIDE DEF m
<1>3. DetailedDevices = SubSeq(got, 1, m)
  BY DEF DetailedDevices, m
<1>4. m \in Nat /\ m <= Len(got) /\ \A k \in 1..m : k \in 1..Len(got)
  BY <1>1, <1>2
<1>5. /\ DetailedDevices \in Seq(Devices) /\ Len(DetailedDevices) = m
      /\ \A k \in 1..m : DetailedDevices[k] = got[k]
  BY <1>1, <1>3, <1>4
<1>6. \A x \in Range(DetailedDevices) : x \in Range(got)
  BY <1>4, <1>5 DEF Range
<1>7. ASSUME ~Truncated PROVE DetailedDevices = got
  <2>1. m = Len(got)
    BY <1>1, <1>2, <1>7 DEF Truncated
  <2> QED BY <1>5, <2>1, SeqEqual
<1> QED BY <1>5, <1>6, <1>7

\* The questions about each record, after those about the lists.
AboutDevices   == EachTwice("device_risk_scores", "device_vulnerabilities", DetailedDevices)
AboutBaselines == Each("baseline_differences", Listed("baselines", Baselines))
AboutSensors   == EachTwice("sensor_details", "sensor_stats", Listed("sensors", Sensors))
AboutNewUi     == IF newui = "on"
                  THEN Whole(NewUiLists) \o Each("new_ui_alerts", AlertStatuses) ELSE <<>>
About == AboutDevices \o (AboutBaselines \o (AboutSensors \o AboutNewUi))

AboutRecords ==
    UNION {{"device_risk_scores", "device_vulnerabilities"} \X Range(DetailedDevices),
           {"baseline_differences"} \X Range(Listed("baselines", Baselines)),
           {"sensor_details", "sensor_stats"} \X Range(Listed("sensors", Sensors)),
           IF newui = "on"
           THEN (Range(NewUiLists) \X {"list"}) \cup ({"new_ui_alerts"} \X Range(AlertStatuses))
           ELSE {}}

\* Every capability has a name of its own in the plan.
LEMMA NamesAre ==
    /\ {"version", "device_risk_scores", "device_vulnerabilities", "baseline_differences",
        "sensor_details", "sensor_stats", "new_ui_alerts"} \subseteq Names
    /\ Range(Lists) \subseteq Names /\ Range(NewUiLists) \subseteq Names
  BY DEF Names, ClassicCapabilities, DeviceDetails, NewUiCapabilities

\* What a failed list leaves is empty.
LEMMA ListedIs ==
    /\ Listed("baselines", Baselines) \in Seq(Range(Baselines))
    /\ Listed("sensors", Sensors) \in Seq(Range(Sensors))
    /\ Range(Listed("baselines", Baselines)) \subseteq Range(Baselines)
    /\ Range(Listed("sensors", Sensors)) \subseteq Range(Sensors)
<1>1. <<>> \in Seq(Range(Baselines)) /\ <<>> \in Seq(Range(Sensors)) /\ DOMAIN <<>> = {}
  OBVIOUS
<1>2. Range(<<>>) = {}
  BY <1>1 DEF Range
<1> QED BY <1>1, <1>2, CollectionAssumption DEF Listed

\* The parts of the plan that are about records.
LEMMA PartsAre ==
    ASSUME got \in Seq(Devices)
    PROVE  /\ AboutDevices \in Seq(Questions) /\ AboutBaselines \in Seq(Questions)
           /\ AboutSensors \in Seq(Questions) /\ AboutNewUi \in Seq(Questions)
           /\ Range(AboutDevices) = {"device_risk_scores", "device_vulnerabilities"} \X Range(DetailedDevices)
           /\ Range(AboutBaselines) = {"baseline_differences"} \X Range(Listed("baselines", Baselines))
           /\ Range(AboutSensors) = {"sensor_details", "sensor_stats"} \X Range(Listed("sensors", Sensors))
           /\ Range(AboutNewUi) = IF newui = "on"
                  THEN (Range(NewUiLists) \X {"list"})
                         \cup ({"new_ui_alerts"} \X Range(AlertStatuses))
                  ELSE {}
<1>1. /\ Devices \in SUBSET Records /\ Range(Baselines) \in SUBSET Records
      /\ Range(Sensors) \in SUBSET Records /\ Range(AlertStatuses) \in SUBSET Records
  BY DEF Records
<1>2. /\ AboutDevices \in Seq(Questions)
      /\ Range(AboutDevices) = {"device_risk_scores", "device_vulnerabilities"} \X Range(DetailedDevices)
  BY <1>1, NamesAre, DetailedAre, EachTwiceIs DEF AboutDevices
<1>3. /\ AboutBaselines \in Seq(Questions)
      /\ Range(AboutBaselines) = {"baseline_differences"} \X Range(Listed("baselines", Baselines))
  BY <1>1, NamesAre, ListedIs, EachIs DEF AboutBaselines
<1>4. /\ AboutSensors \in Seq(Questions)
      /\ Range(AboutSensors) = {"sensor_details", "sensor_stats"} \X Range(Listed("sensors", Sensors))
  BY <1>1, NamesAre, ListedIs, EachTwiceIs DEF AboutSensors
<1>5. /\ AboutNewUi \in Seq(Questions)
      /\ Range(AboutNewUi) = IF newui = "on"
                    THEN (Range(NewUiLists) \X {"list"})
                           \cup ({"new_ui_alerts"} \X Range(AlertStatuses))
                    ELSE {}
  <2>1. CASE newui = "on"
    <3>1. NewUiLists \in Seq(Names)
      BY NewUiListsAre, NamesAre, SeqMonotonic
    <3>2. AlertStatuses \in Seq(Range(AlertStatuses))
      <4>1. AlertStatuses = [i \in 1..3 |-> AlertStatuses[i]]
        BY DEF AlertStatuses
      <4>2. AlertStatuses \in [1..3 -> Range(AlertStatuses)]
        BY <4>1 DEF Range
      <4> QED BY <4>2, Listing
    <3>3. /\ Whole(NewUiLists) \in Seq(Questions)
          /\ Range(Whole(NewUiLists)) = Range(NewUiLists) \X {"list"}
      BY <3>1, WholeIs
    <3>4. /\ Each("new_ui_alerts", AlertStatuses) \in Seq(Questions)
          /\ Range(Each("new_ui_alerts", AlertStatuses)) = {"new_ui_alerts"} \X Range(AlertStatuses)
      BY <1>1, <3>2, NamesAre, EachIs
    <3> QED BY <2>1, <3>3, <3>4, JoinSeq DEF AboutNewUi
  <2>2. CASE newui # "on"
    <3>1. <<>> \in Seq(Questions) /\ DOMAIN <<>> = {}
      OBVIOUS
    <3> QED BY <2>2, <3>1 DEF Range, AboutNewUi
  <2> QED BY <2>1, <2>2
<1> QED BY <1>2, <1>3, <1>4, <1>5

\* Those parts together.
LEMMA AboutIs ==
    ASSUME got \in Seq(Devices)
    PROVE  About \in Seq(Questions) /\ Range(About) = AboutRecords
<1> DEFINE F == AboutSensors \o AboutNewUi
           G == AboutBaselines \o F
<1>1. /\ AboutDevices \in Seq(Questions) /\ AboutBaselines \in Seq(Questions)
      /\ AboutSensors \in Seq(Questions) /\ AboutNewUi \in Seq(Questions)
  BY PartsAre
<1>2. F \in Seq(Questions) /\ Range(F) = Range(AboutSensors) \cup Range(AboutNewUi)
  BY <1>1, JoinSeq
<1>3. About = AboutDevices \o (AboutBaselines \o F)
  BY DEF About
<1> HIDE DEF F
<1>4. G \in Seq(Questions) /\ Range(G) = Range(AboutBaselines) \cup Range(F)
  BY <1>1, <1>2, JoinSeq
<1>5. About = AboutDevices \o G
  BY <1>3
<1> HIDE DEF G
<1>6. About \in Seq(Questions) /\ Range(About) = Range(AboutDevices) \cup Range(G)
  BY <1>1, <1>4, <1>5, JoinSeq
<1>7. AboutRecords = UNION {Range(AboutDevices), Range(AboutBaselines), Range(AboutSensors),
                            Range(AboutNewUi)}
  BY PartsAre, Zenon DEF AboutRecords
<1> QED BY <1>2, <1>4, <1>6, <1>7

\* The plan as its lists followed by those parts.
LEMMA PlanParts ==
    ASSUME got \in Seq(Devices), Whole(Lists) \in Seq(Questions), <<<<"version", "list">>>> \in Seq(Questions)
    PROVE  Plan = (<<<<"version", "list">>>> \o Whole(Lists)) \o About
<1> DEFINE A == <<<<"version", "list">>>> \o Whole(Lists)
           F == AboutSensors \o AboutNewUi
           G == AboutBaselines \o F
<1>1. /\ AboutDevices \in Seq(Questions) /\ AboutBaselines \in Seq(Questions)
      /\ AboutSensors \in Seq(Questions) /\ AboutNewUi \in Seq(Questions)
  BY PartsAre
<1>2. A \in Seq(Questions)
  BY JoinSeq
<1>3. Plan = (((A \o AboutDevices) \o AboutBaselines) \o AboutSensors) \o AboutNewUi
  BY DEF Plan, AboutDevices, AboutBaselines, AboutSensors, AboutNewUi
<1> HIDE DEF A
<1> DEFINE B == A \o AboutDevices
           C == B \o AboutBaselines
<1>4. B \in Seq(Questions)
  BY <1>1, <1>2, JoinSeq
<1>5. Plan = ((B \o AboutBaselines) \o AboutSensors) \o AboutNewUi
  BY <1>3
<1>6. About = AboutDevices \o (AboutBaselines \o F)
  BY DEF About
<1> HIDE DEF B
<1>7. C \in Seq(Questions)
  BY <1>1, <1>4, JoinSeq
<1>8. Plan = (C \o AboutSensors) \o AboutNewUi
  BY <1>5
<1> HIDE DEF C
<1>9. Plan = C \o F
  <2>1. (C \o AboutSensors) \o AboutNewUi = C \o (AboutSensors \o AboutNewUi)
    <3>1. C \in Seq(Questions) /\ AboutSensors \in Seq(Questions) /\ AboutNewUi \in Seq(Questions)
      BY <1>1, <1>7
    <3> QED BY ONLY <3>1, ConcatAssociative
  <2> QED BY <1>8, <2>1
<1>10. F \in Seq(Questions)
  BY <1>1, JoinSeq
<1> HIDE DEF F
<1>11. C \o F = B \o G
  <2>1. (B \o AboutBaselines) \o F = B \o (AboutBaselines \o F)
    <3>1. B \in Seq(Questions) /\ AboutBaselines \in Seq(Questions) /\ F \in Seq(Questions)
      BY <1>1, <1>4, <1>10
    <3> QED BY ONLY <3>1, ConcatAssociative
  <2> QED BY <2>1 DEF C
<1>12. G \in Seq(Questions)
  BY <1>1, <1>10, JoinSeq
<1>13. About = AboutDevices \o G
  BY <1>6
<1> HIDE DEF G
<1>14. B \o G = A \o (AboutDevices \o G)
  <2>1. (A \o AboutDevices) \o G = A \o (AboutDevices \o G)
    <3>1. A \in Seq(Questions) /\ AboutDevices \in Seq(Questions) /\ G \in Seq(Questions)
      BY <1>1, <1>2, <1>12
    <3> QED BY ONLY <3>1, ConcatAssociative
  <2> QED BY <2>1 DEF B
<1> QED BY <1>9, <1>11, <1>13, <1>14 DEF A

\* The plan: the version, the lists, the questions about each record.
LEMMA PlanIs ==
    ASSUME got \in Seq(Devices)
    PROVE  /\ Plan \in Seq(Questions) /\ Len(Plan) \in Nat /\ Len(Plan) >= 13
           /\ Plan[1] = <<"version", "list">>
           /\ \A i \in 1..12 : Plan[i + 1] = <<Lists[i], "list">>
           /\ \A i \in 14..Len(Plan) : Plan[i] \in AboutRecords
           /\ Range(Plan) = {<<"version", "list">>} \cup (Range(Lists) \X {"list"}) \cup AboutRecords
<1> DEFINE V == <<<<"version", "list">>>>
           W == Whole(Lists)
           A == V \o W
<1>1. /\ V \in Seq(Questions) /\ Len(V) = 1 /\ V[1] = <<"version", "list">>
      /\ Range(V) = {<<"version", "list">>}
  <2>1. <<"version", "list">> \in Questions
    BY NamesAre DEF Questions, Records
  <2>2. V \in [1..1 -> Questions] /\ V[1] = <<"version", "list">>
    BY <2>1
  <2>3. V \in Seq(Questions) /\ Len(V) = 1 /\ Range(V) = {V[i] : i \in 1..1}
    BY <2>2, Listing
  <2>4. {V[i] : i \in 1..1} = {V[1]}
    OBVIOUS
  <2> QED BY <2>2, <2>3, <2>4
<1>2. /\ W \in Seq(Questions) /\ Len(W) = 12 /\ Range(W) = Range(Lists) \X {"list"}
      /\ \A i \in 1..12 : W[i] = <<Lists[i], "list">>
  <2>1. Lists \in Seq(Names) /\ Len(Lists) = 12
    BY ListsAre, NamesAre, SeqMonotonic
  <2> QED BY <2>1, WholeIs
<1>3. About \in Seq(Questions) /\ Range(About) = AboutRecords
  BY AboutIs
<1>4. A \o About = Plan
  BY <1>1, <1>2, PlanParts
<1> HIDE DEF V, W
<1>5. /\ A \in Seq(Questions) /\ Len(A) = 13 /\ A[1] = <<"version", "list">>
      /\ \A i \in 1..12 : A[i + 1] = <<Lists[i], "list">>
      /\ Range(A) = {<<"version", "list">>} \cup (Range(Lists) \X {"list"})
  <2>1. /\ A \in Seq(Questions) /\ Len(A) = Len(V) + Len(W)
        /\ \A k \in 1..Len(V) : A[k] = V[k]
        /\ \A k \in 1..Len(W) : A[Len(V) + k] = W[k]
    <3>1. V \in Seq(Questions) /\ W \in Seq(Questions)
      BY <1>1, <1>2
    <3> QED BY <3>1, JoinAt
  <2>2. Range(A) = Range(V) \cup Range(W)
    BY <1>1, <1>2, JoinSeq
  <2>3. A[1] = <<"version", "list">>
    BY <1>1, <2>1
  <2> HIDE DEF A
  <2>4. \A i \in 1..12 : A[i + 1] = <<Lists[i], "list">>
    <3> TAKE i \in 1..12
    <3>1. A[1 + i] = W[i] /\ 1 + i = i + 1
      BY <1>1, <1>2, <2>1
    <3> QED BY <1>2, <3>1
  <2>5. Len(A) = 13
    BY <1>1, <1>2, <2>1
  <2> QED BY <1>1, <1>2, <2>1, <2>2, <2>3, <2>4, <2>5
<1> HIDE DEF A
<1>6. /\ A \o About \in Seq(Questions) /\ Len(A \o About) = 13 + Len(About)
      /\ \A k \in 1..13 : (A \o About)[k] = A[k]
      /\ \A k \in 1..Len(About) : (A \o About)[13 + k] = About[k]
  <2>1. /\ A \o About \in Seq(Questions) /\ Len(A \o About) = Len(A) + Len(About)
        /\ \A k \in 1..Len(A) : (A \o About)[k] = A[k]
        /\ \A k \in 1..Len(About) : (A \o About)[Len(A) + k] = About[k]
    <3>1. A \in Seq(Questions) /\ About \in Seq(Questions)
      BY <1>3, <1>5
    <3> QED BY <3>1, JoinAt
  <2> QED BY <1>5, <2>1
<1>7. Range(A \o About) = Range(A) \cup Range(About)
  BY <1>3, <1>5, JoinSeq
<1>8. Len(About) \in Nat /\ \A k \in 1..Len(About) : About[k] \in AboutRecords
  BY <1>3, LenProperties DEF Range
<1>9. ASSUME NEW i \in 14..Len(Plan) PROVE Plan[i] \in AboutRecords
  <2>1. i - 13 \in 1..Len(About) /\ 13 + (i - 13) = i
    BY <1>4, <1>6, <1>8
  <2> QED BY <1>4, <1>6, <1>8, <2>1
<1>10. \A i \in 1..12 : i + 1 \in 1..13
  OBVIOUS
<1> QED BY <1>3, <1>4, <1>5, <1>6, <1>7, <1>8, <1>9, <1>10

\* Where a question stands in the plan.
LEMMA Placed ==
    ASSUME got \in Seq(Devices), asked \in Nat, asked < Len(Plan)
    PROVE  /\ Question \in Range(Plan) /\ Question \in Questions
           /\ asked = 0 => Question = <<"version", "list">>
           /\ asked \in 1..12 => Question = <<Lists[asked], "list">>
           /\ asked > 12 => Question \in AboutRecords
           /\ Question[1] = "devices" <=> asked = 1
           /\ Question[1] \in Paged <=> asked \in 1..4
           /\ Question[1] \in {"baselines", "sensors"} => asked \in 10..11
<1>1. /\ Plan \in Seq(Questions) /\ Len(Plan) \in Nat
      /\ Plan[1] = <<"version", "list">>
      /\ \A i \in 1..12 : Plan[i + 1] = <<Lists[i], "list">>
      /\ \A i \in 14..Len(Plan) : Plan[i] \in AboutRecords
  BY PlanIs
<1>2. asked + 1 \in 1..Len(Plan)
  BY <1>1
<1>3. Question \in Range(Plan) /\ Question \in Questions
  <2>1. Plan[asked + 1] \in Questions /\ asked + 1 \in DOMAIN Plan
    BY <1>1, <1>2
  <2> QED BY <2>1 DEF Question, Range
<1>4. asked = 0 => Question = <<"version", "list">>
  BY <1>1 DEF Question
<1>5. asked \in 1..12 => Question = <<Lists[asked], "list">>
  BY <1>1 DEF Question
<1>6. asked > 12 => Question \in AboutRecords
  BY <1>1, <1>2 DEF Question
<1>7. \A q \in AboutRecords : q[1] \notin {"baselines", "sensors"} \cup Paged
  <2>1. \A q \in AboutRecords :
          q[1] \in {"device_risk_scores", "device_vulnerabilities", "baseline_differences",
                    "sensor_details", "sensor_stats", "new_ui_alerts"} \cup Range(NewUiLists)
    BY DEF AboutRecords
  <2> QED BY <2>1, RangesAre DEF Paged
<1>8. asked = 0 \/ asked > 12 \/ asked = 1 \/ asked = 2 \/ asked = 3 \/ asked = 4 \/ asked = 5
        \/ asked = 6 \/ asked = 7 \/ asked = 8 \/ asked = 9 \/ asked = 10 \/ asked = 11 \/ asked = 12
  OBVIOUS
<1>9. asked \in 1..12 => Question[1] = Lists[asked]
  BY <1>5
<1>10. Question[1] = "devices" <=> asked = 1
  BY <1>4, <1>6, <1>7, <1>8, <1>9, ListsAre DEF Paged
<1>12. Question[1] \in Paged <=> asked \in 1..4
  BY <1>4, <1>6, <1>7, <1>8, <1>9, ListsAre DEF Paged
<1>11. Question[1] \in {"baselines", "sensors"} => asked \in 10..11
  BY <1>4, <1>6, <1>7, <1>8, <1>9, ListsAre
<1> QED BY <1>3, <1>4, <1>5, <1>6, <1>10, <1>11, <1>12

\* The lists are always asked, whatever was read.
LEMMA PlanLong == got \in Seq(Devices) => Plan \in Seq(Questions) /\ Len(Plan) \in Nat /\ Len(Plan) >= 13
  BY PlanIs

\* The same of the next state.
LEMMA NextPlanLong ==
    ASSUME got' \in Seq(Devices)
    PROVE  Plan' \in Seq(Questions) /\ Len(Plan') \in Nat /\ Len(Plan') >= 13
<1>1. (got \in Seq(Devices))' => (Plan \in Seq(Questions) /\ Len(Plan) \in Nat /\ Len(Plan) >= 13)'
  BY PlanLong, PTL
<1> QED BY <1>1

\* The plan changes only with the devices, the baselines or the sensors.
LEMMA SamePlan ==
    ASSUME got' = got, newui' = newui,
           <<"baselines", "list">> \in DOMAIN failed' <=> <<"baselines", "list">> \in DOMAIN failed,
           <<"sensors", "list">> \in DOMAIN failed' <=> <<"sensors", "list">> \in DOMAIN failed
    PROVE  Plan' = Plan
<1>1. DetailedDevices' = DetailedDevices
  BY DEF DetailedDevices
<1>2. Listed("baselines", Baselines)' = Listed("baselines", Baselines)
  BY DEF Listed
<1>3. Listed("sensors", Sensors)' = Listed("sensors", Sensors)
  BY DEF Listed
<1> QED BY <1>1, <1>2, <1>3 DEF Plan

\* Whatever is answered, the next question is still there.
LEMMA PlanGoesOn ==
    ASSUME got \in Seq(Devices), got' \in Seq(Devices), newui' = newui,
           asked \in Nat, asked < Len(Plan),
           asked # 1 => got' = got,
           failed' = failed \/ \E how : failed' = Noted(failed, Question, how)
    PROVE  asked + 1 <= Len(Plan')
<1>1. Len(Plan') \in Nat /\ Len(Plan') >= 13
  BY NextPlanLong
<1>2. CASE asked <= 12
  BY <1>1, <1>2
<1>3. CASE asked > 12
  <2>1. Question[1] \notin {"baselines", "sensors"}
    BY <1>3, Placed
  <2>2. \A x : x \in DOMAIN failed' => x \in DOMAIN failed \/ x = Question
    BY DEF Noted
  <2>3. \A x : x \in DOMAIN failed => x \in DOMAIN failed'
    BY DEF Noted
  <2>4. Question # <<"baselines", "list">> /\ Question # <<"sensors", "list">>
    BY <2>1
  <2>5. Plan' = Plan
    BY <1>3, <2>2, <2>3, <2>4, SamePlan
  <2> QED BY <1>1, <2>5
<1> QED BY <1>2, <1>3

(***************************************************************************)
(* The inductive invariant.                                                *)
(***************************************************************************)

\* The lists whose records are kept by the devices they name.
Recorded == {"components", "activities", "flows", "event_severities"}

\* Nothing of a cycle outlives it.
AtRest == pc \in {"idle", "dead"} =>
    /\ asked = 0 /\ page = 0 /\ results = <<>> /\ got = <<>>
    /\ failed = <<>> /\ seen = <<>> /\ shown = {}
    /\ stayed = {} /\ ~shaken /\ inserted = 0

\* A cycle asks the whole plan, unless it is aborted.
Course == /\ pc = "ask" => asked < Len(Plan)
          /\ pc = "assemble" => asked = Len(Plan) \/ Lost

Once == IsInjective(center) /\ IsInjective(results) /\ IsInjective(got)

\* Between two pages, as long as the list has not moved too much: what stayed
\* was read if it lies where the pages have been, and what lies beyond them, by
\* more than has been inserted since the last one, is new.
PagesRead ==
    /\ inserted < PageSize /\ Range(results) \subseteq Range(center)
    /\ \A i \in 1..Len(center) :
          /\ i <= page * PageSize /\ center[i] \in stayed => center[i] \in Range(results)
          /\ i > page * PageSize + inserted => center[i] \notin Range(results)

\* Only the first four lists are read page by page.
Pages == pc = "ask" =>
    /\ page < MaxPages
    /\ asked \notin 1..4 => page = 0
    /\ page = 0 => results = <<>> /\ inserted = 0
    /\ asked \in 1..4 /\ ~shaken => PagesRead

\* The answers to the lists asked so far have been recorded.
HeardOf(i) == \/ <<Lists[i], "list">> \in DOMAIN failed
              \/ Lists[i] \in Recorded => Lists[i] \in DOMAIN seen
Heard == \A i \in 1..12 : i < asked => HeardOf(i)

\* Every list that was recorded names the devices that stayed, unless its pages
\* moved too much.
Present == /\ stayed \subseteq Range(center)
           /\ ~shaken => \A l \in DOMAIN seen : stayed \subseteq seen[l]

\* The list of devices, once read, has them too.
Complete == asked >= 2 /\ ~shaken /\ <<"devices", "list">> \notin DOMAIN failed
              => stayed \subseteq Range(got)

IInv == TypeOK /\ AtRest /\ Course /\ Once /\ Pages /\ Heard /\ Present /\ Complete

\* The empty sequence.
LEMMA Empty == <<>> \in Seq(Devices) /\ IsInjective(<<>>) /\ Range(<<>>) = {} /\ DOMAIN <<>> = {}
<1>1. <<>> \in Seq(Devices) /\ DOMAIN <<>> = {}
  OBVIOUS
<1> QED BY <1>1 DEF IsInjective, Range

\* It holds at first.
LEMMA IInvInit == Init => IInv
<1> SUFFICES ASSUME Init PROVE IInv
  OBVIOUS
<1>1. Len(Plan) \in Nat /\ Len(Plan) >= 13
  BY Empty, PlanLong DEF Init
<1>2. "Active" \in Range(AlertStatuses)
  BY RangesAre
<1>3. TypeOK
  <2>1. {center, results, got} \subseteq Seq(Devices)
    BY Empty, CollectionAssumption DEF Init
  <2>2. alert \in Range(AlertStatuses) /\ shown \subseteq Range(AlertStatuses)
    BY <1>2 DEF Init
  <2>3. pc \in {"idle", "ask", "assemble", "dead"} /\ newui \in {"on", "off", "unsupported"}
    BY DEF Init
  <2>4. asked \in 0..Len(Plan) /\ page \in 0..MaxPages
    BY <1>1, Bounds DEF Init
  <2>5. /\ \A q \in DOMAIN failed : failed[q] \in Failures \cup {"malformed"}
        /\ \A l \in DOMAIN seen : seen[l] \subseteq Devices
    BY Empty DEF Init
  <2>6. /\ current.id \in 0..MaxCycles /\ current.approved \subseteq BOOLEAN
        /\ faults \in 0..MaxFaults /\ changes \in 0..MaxChanges /\ cycles \in 0..MaxCycles
    BY Bounds DEF Init
  <2>7. stayed \subseteq Devices /\ shaken \in BOOLEAN /\ inserted \in Nat
    BY DEF Init
  <2> QED BY <2>1, <2>2, <2>3, <2>4, <2>5, <2>6, <2>7 DEF TypeOK
<1> QED BY <1>3, Empty, CollectionAssumption
    DEF Init, IInv, AtRest, Course, Once, Pages, Heard, Present, Complete

(***************************************************************************)
(* Each action.                                                            *)
(***************************************************************************)

\* What every action leaves of the types, part by part.
Centered   == {center, results, got} \subseteq Seq(Devices) /\ stayed \subseteq Devices
Alerted    == alert \in Range(AlertStatuses) /\ shown \subseteq Range(AlertStatuses)
Moded      == pc \in {"idle", "ask", "assemble", "dead"} /\ newui \in {"on", "off", "unsupported"}
Placing    == asked \in 0..Len(Plan) /\ page \in 0..MaxPages
Failed     == \A q \in DOMAIN failed : failed[q] \in Failures \cup {"malformed"}
Seen       == \A l \in DOMAIN seen : seen[l] \subseteq Devices
Snapshotted == current.id \in 0..MaxCycles /\ current.approved \subseteq BOOLEAN
Counted    == faults \in 0..MaxFaults /\ changes \in 0..MaxChanges /\ cycles \in 0..MaxCycles
Auxiliary  == shaken \in BOOLEAN /\ inserted \in Nat

\* The type invariant is made of these parts.
LEMMA Types ==
    TypeOK <=> /\ Centered /\ Alerted /\ Moded /\ Placing /\ Failed /\ Seen
               /\ Snapshotted /\ Counted /\ Auxiliary
  BY DEF TypeOK, Centered, Alerted, Moded, Placing, Failed, Seen, Snapshotted, Counted, Auxiliary

\* So is the one of the next state.
LEMMA NextTypes ==
    ASSUME Centered', Alerted', Moded', Placing', Failed', Seen', Snapshotted', Counted', Auxiliary'
    PROVE  TypeOK'
<1>1. (TypeOK <=> /\ Centered /\ Alerted /\ Moded /\ Placing /\ Failed /\ Seen
                  /\ Snapshotted /\ Counted /\ Auxiliary)'
  BY Types, PTL
<1> QED BY <1>1

\* The cycle begins.
LEMMA StartStep ==
    ASSUME IInv, NEW mode \in {"on", "off", "unsupported"}, Start(mode)
    PROVE  IInv'
<1> USE DEF Start
<1>1. Len(Plan') \in Nat /\ Len(Plan') >= 13
  BY NextPlanLong DEF IInv, TypeOK
<1>2. /\ asked = 0 /\ page = 0 /\ results = <<>> /\ got = <<>> /\ failed = <<>> /\ seen = <<>>
      /\ inserted = 0
  BY DEF IInv, AtRest
<1>3. Range(center) \subseteq Devices
  BY DEF IInv, TypeOK, Range
<1>4. TypeOK'
  <2> USE Types DEF IInv
  <2>1. Centered' /\ Failed' /\ Seen' /\ Snapshotted' /\ Auxiliary' /\ Alerted'
    BY <1>3 DEF Centered, Failed, Seen, Snapshotted, Auxiliary, Alerted
  <2>2. Moded'
    BY DEF Moded
  <2>3. Placing'
    BY <1>1, <1>2, Bounds DEF Placing
  <2>4. Counted'
    BY Bounds DEF Counted
  <2> QED BY <2>1, <2>2, <2>3, <2>4, NextTypes
<1>5. Course'
  BY <1>1, <1>2 DEF Course
<1>6. Pages'
  BY <1>2, Bounds DEF Pages
<1> QED BY <1>2, <1>4, <1>5, <1>6, Empty DEF IInv, AtRest, Once, Heard, Present, Complete

\* The process ends before the cycle asks anything.
LEMMA RawEsxiFailsStep == ASSUME IInv, RawEsxiFails PROVE IInv'
<1>1. /\ UNCHANGED <<center, alert, newui, asked, page, results, got, failed, seen, shown, current, changes,
                     stayed, shaken, inserted>>
      /\ pc = "idle" /\ pc' = "dead" /\ cycles < MaxCycles /\ faults < MaxFaults
      /\ cycles' = cycles + 1 /\ faults' = faults + 1
  BY DEF RawEsxiFails, cycle, aux
<1>2. Plan' = Plan
  BY <1>1, SamePlan
<1>3. TypeOK'
  <2> USE Types DEF IInv
  <2>1. Centered' /\ Alerted' /\ Placing' /\ Failed' /\ Seen' /\ Snapshotted' /\ Auxiliary'
    BY <1>1, <1>2 DEF Centered, Alerted, Placing, Failed, Seen, Snapshotted, Auxiliary
  <2>2. Moded'
    BY <1>1 DEF Moded
  <2>3. Counted'
    BY <1>1, Bounds DEF Counted
  <2> QED BY <2>1, <2>2, <2>3, NextTypes
<1> QED BY <1>1, <1>3
    DEF IInv, AtRest, Course, Once, Pages, Heard, HeardOf, Present, Complete

\* The process is started again.
LEMMA RestartStep == ASSUME IInv, Restart PROVE IInv'
<1>1. /\ UNCHANGED <<center, alert, newui, asked, page, results, got, failed, seen, shown, current, changes,
                     faults, cycles, stayed, shaken, inserted>>
      /\ pc = "dead" /\ pc' = "idle"
  BY DEF Restart, cycle, aux, bounds
<1>2. Plan' = Plan
  BY <1>1, SamePlan
<1>3. TypeOK'
  BY <1>1, <1>2 DEF IInv, TypeOK
<1> QED BY <1>1, <1>3
    DEF IInv, AtRest, Course, Once, Pages, Heard, HeardOf, Present, Complete

\* The alert changes.
LEMMA AlertMovesStep ==
    ASSUME IInv, NEW status \in Range(AlertStatuses), AlertMoves(status)
    PROVE  IInv'
<1>1. /\ UNCHANGED <<center, pc, newui, asked, page, results, got, failed, seen, shown, current,
                     faults, cycles, stayed, shaken, inserted>>
      /\ alert' = status /\ changes < MaxChanges /\ changes' = changes + 1 /\ pc = "ask"
  BY DEF AlertMoves, cycle, aux
<1>2. Plan' = Plan
  BY <1>1, SamePlan
<1>3. TypeOK'
  <2> USE Types DEF IInv
  <2>1. Centered' /\ Moded' /\ Placing' /\ Failed' /\ Seen' /\ Snapshotted' /\ Auxiliary'
    BY <1>1, <1>2 DEF Centered, Moded, Placing, Failed, Seen, Snapshotted, Auxiliary
  <2>2. Alerted'
    BY <1>1 DEF Alerted
  <2>3. Counted'
    BY <1>1, Bounds DEF Counted
  <2> QED BY <2>1, <2>2, <2>3, NextTypes
<1> QED BY <1>1, <1>2, <1>3
    DEF IInv, AtRest, Course, Once, Pages, PagesRead, Heard, HeardOf, Present, Complete

\* Nothing of the cycle outlives the assembly.
LEMMA AssembleStep ==
    ASSUME IInv, NEW inventory \in Inventories, NEW back \in BOOLEAN, Assemble(inventory, back)
    PROVE  IInv'
<1>1. /\ UNCHANGED <<center, alert, changes, cycles>>
      /\ newui' = "off" /\ asked' = 0 /\ page' = 0 /\ results' = <<>> /\ got' = <<>>
      /\ failed' = <<>> /\ seen' = <<>> /\ shown' = {}
      /\ stayed' = {} /\ shaken' = FALSE /\ inserted' = 0
      /\ pc' \in {"idle", "dead"} /\ pc = "assemble"
      /\ faults' \in 0..MaxFaults
  <2>1. faults' \in 0..MaxFaults
    <3>1. faults \in 0..MaxFaults /\ MaxFaults \in Nat
      BY Bounds DEF IInv, TypeOK
    <3>2. faults' = faults \/ (faults < MaxFaults /\ faults' = faults + 1)
      BY DEF Assemble
    <3> QED BY <3>1, <3>2
  <2> QED BY <2>1 DEF Assemble, Forget
<1>2. current' = current \/ current' = Snapshot(inventory)
  BY DEF Assemble
<1>3. current'.id \in 0..MaxCycles /\ current'.approved \subseteq BOOLEAN
  BY <1>2 DEF Snapshot, IInv, TypeOK
<1>4. Len(Plan') \in Nat /\ Len(Plan') >= 13
  BY <1>1, Empty, NextPlanLong
<1>5. TypeOK'
  <2> USE Types DEF IInv
  <2>1. Centered' /\ Alerted' /\ Failed' /\ Seen' /\ Snapshotted' /\ Auxiliary' /\ Counted'
    BY <1>1, <1>3, Empty
    DEF Centered, Alerted, Failed, Seen, Snapshotted, Auxiliary, Counted
  <2>2. Moded'
    BY <1>1 DEF Moded
  <2>3. Placing'
    BY <1>1, <1>4, Bounds DEF Placing
  <2> QED BY <2>1, <2>2, <2>3, NextTypes
<1> QED BY <1>1, <1>5, Empty
    DEF IInv, AtRest, Course, Once, Pages, Heard, HeardOf, Present, Complete

\* An answer that cannot be kept makes the cycle lost.
LEMMA RawCybervisionFailsStep == ASSUME IInv, RawCybervisionFails PROVE IInv'
<1> DEFINE raw == <<"raw_store", "list">>
<1>1. /\ UNCHANGED <<center, alert, pc, newui, asked, page, results, got, seen, shown, current,
                     changes, cycles, stayed, shaken, inserted>>
      /\ pc = "assemble" /\ faults < MaxFaults /\ faults' = faults + 1
      /\ failed' = Noted(failed, raw, "other")
  BY DEF RawCybervisionFails, aux
<1>2. /\ DOMAIN failed' = DOMAIN failed \cup {raw}
      /\ \A q \in DOMAIN failed' :
            failed'[q] = "other" \/ (q \in DOMAIN failed /\ failed'[q] = failed[q])
  <2> HIDE DEF raw
  <2>1. failed' = Noted(failed, raw, "other")
    BY <1>1
  <2>2. DOMAIN failed' = DOMAIN failed \cup {raw}
    BY <2>1 DEF Noted
  <2>3. \A q \in DOMAIN failed' :
            failed'[q] = "other" \/ (q \in DOMAIN failed /\ failed'[q] = failed[q])
    BY <2>1 DEF Noted
  <2> QED BY <2>2, <2>3
<1>3. Plan' = Plan
  BY <1>1, <1>2, SamePlan
<1>4. TypeOK'
  <2> USE Types DEF IInv
  <2>1. Centered' /\ Alerted' /\ Moded' /\ Placing' /\ Seen' /\ Snapshotted' /\ Auxiliary'
    BY <1>1, <1>3 DEF Centered, Alerted, Moded, Placing, Seen, Snapshotted, Auxiliary
  <2>2. Failed'
    BY <1>2 DEF Failed, Failures
  <2>3. Counted'
    BY <1>1, Bounds DEF Counted
  <2> QED BY <2>1, <2>2, <2>3, NextTypes
<1>5. Lost'
  <2>1. raw \in DOMAIN failed' /\ raw[1] = "raw_store"
    BY <1>2
  <2> QED BY <2>1 DEF Lost
<1> QED BY <1>1, <1>2, <1>4, <1>5
    DEF IInv, AtRest, Course, Once, Pages, Heard, HeardOf, Present, Complete

\* No question about one source is about the other.
LEMMA Apart ==
    /\ ClassicCapabilities \cap NewUiCapabilities = {}
    /\ Range(Lists) \cap DeviceDetails = {} /\ "version" \notin DeviceDetails
    /\ Range(Lists) \cap NewUiCapabilities = {} /\ "version" \notin NewUiCapabilities
    /\ DeviceDetails \cap NewUiCapabilities = {}
  BY RangesAre DEF ClassicCapabilities, NewUiCapabilities, DeviceDetails

\* What is known while the collector asks.
LEMMA Asking ==
    ASSUME IInv, pc = "ask"
    PROVE  /\ got \in Seq(Devices) /\ asked \in Nat /\ page \in Nat
           /\ asked < Len(Plan) /\ Len(Plan) \in Nat
           /\ asked = 0 => Question = <<"version", "list">>
           /\ asked \in 1..12 => Question = <<Lists[asked], "list">>
           /\ asked > 12 => Question \in AboutRecords
           /\ Question \in Questions
           /\ Question[1] = "devices" <=> asked = 1
           /\ Question[1] \in Paged <=> asked \in 1..4
<1>1. /\ got \in Seq(Devices) /\ asked \in 0..Len(Plan) /\ page \in 0..MaxPages
      /\ asked < Len(Plan)
  BY DEF IInv, TypeOK, Course
<1>2. Len(Plan) \in Nat
  BY <1>1, PlanLong
<1>3. asked \in Nat /\ page \in Nat /\ asked < Len(Plan)
  BY <1>1, <1>2
<1> QED BY <1>1, <1>2, <1>3, Placed

\* Before the first page nothing has been read.
LEMMA NothingRead ==
    ASSUME page' = 0, results' = <<>>, inserted' = 0, center' \in Seq(Devices)
    PROVE  PagesRead'
<1>1. page' * PageSize = 0 /\ PageSize > 0 /\ Range(results') = {} /\ Len(center') \in Nat
  BY Empty, Bounds
<1> QED BY <1>1 DEF PagesRead

\* A question has been answered or has failed, and the next one follows.
LEMMA GoesOn ==
    ASSUME IInv, pc = "ask", Proceed,
           UNCHANGED <<center, alert, newui, current, stayed, shaken>>,
           got' \in Seq(Devices), IsInjective(got'), asked # 1 => got' = got,
           failed' = failed \/ \E how : failed' = Noted(failed, Question, how),
           seen' = seen \/ \E l, D :
                   seen' = Noted(seen, l, D) /\ D \subseteq Devices /\ (shaken \/ stayed \subseteq D),
           Alerted', Failed', Counted',
           \A i \in 1..12 : i = asked => HeardOf(i)',
           asked = 1 => \/ <<"devices", "list">> \in DOMAIN failed'
                        \/ shaken \/ stayed \subseteq Range(got')
    PROVE  IInv'
<1>1. /\ asked \in Nat /\ asked < Len(Plan) /\ got \in Seq(Devices) /\ page \in Nat
      /\ asked' = asked + 1 /\ page' = 0 /\ results' = <<>> /\ inserted' = 0
      /\ pc' = IF asked' = Len(Plan') THEN "assemble" ELSE "ask"
  BY Asking DEF Proceed
<1>2. Len(Plan') \in Nat /\ asked' <= Len(Plan')
  BY <1>1, NextPlanLong, PlanGoesOn
<1>3. \A x \in DOMAIN failed : x \in DOMAIN failed'
  BY DEF Noted
<1>4. /\ \A l \in DOMAIN seen : l \in DOMAIN seen'
      /\ \A l \in DOMAIN seen' :
            \/ seen'[l] \subseteq Devices /\ (shaken \/ stayed \subseteq seen'[l])
            \/ l \in DOMAIN seen /\ seen'[l] = seen[l]
  BY DEF Noted
<1>5. TypeOK'
  <2> USE Types DEF IInv
  <2>1. Centered' /\ Snapshotted'
    BY <1>1, Empty DEF Centered, Snapshotted
  <2>2. Moded'
    BY <1>1 DEF Moded
  <2>3. Placing'
    BY <1>1, <1>2, Bounds DEF Placing
  <2>4. Seen'
    BY <1>4 DEF Seen
  <2>5. Auxiliary'
    BY <1>1 DEF Auxiliary
  <2> QED BY <2>1, <2>2, <2>3, <2>4, <2>5, NextTypes
<1>6. AtRest'
  BY <1>1 DEF AtRest
<1>7. Course'
  BY <1>1, <1>2 DEF Course
<1>8. Once'
  BY <1>1, Empty DEF Once, IInv
<1>9. Pages'
  <2>1. 0 < MaxPages
    BY Bounds
  <2>2. PagesRead'
    <3>1. center' \in Seq(Devices)
      BY <1>5 DEF TypeOK
    <3> QED BY <1>1, <3>1, NothingRead
  <2> QED BY <1>1, <2>1, <2>2 DEF Pages
<1>10. Heard'
  <2> SUFFICES ASSUME NEW i \in 1..12, i < asked' PROVE HeardOf(i)'
    BY DEF Heard
  <2>1. CASE i = asked
    BY <2>1
  <2>2. CASE i # asked
    <3>1. HeardOf(i)
      BY <1>1, <2>2 DEF IInv, Heard
    <3> QED BY <1>3, <1>4, <3>1 DEF HeardOf
  <2> QED BY <2>1, <2>2
<1>11. Present'
  BY <1>4 DEF Present, IInv
<1>12. Complete'
  <2>1. asked' >= 2 /\ asked # 1 => asked >= 2
    BY <1>1
  <2> QED BY <1>1, <1>3, <2>1 DEF Complete, IInv
<1> QED BY <1>5, <1>6, <1>7, <1>8, <1>9, <1>10, <1>11, <1>12 DEF IInv

\* A list that is answered is recorded with the devices the center has.
LEMMA AnswerStep == ASSUME IInv, Answer PROVE IInv'
<1>1. /\ UNCHANGED <<center, alert, newui, got, failed, shown, current, faults, changes, cycles,
                     stayed, shaken>>
      /\ pc = "ask" /\ Proceed /\ Question[1] \notin Paged
      /\ seen' = IF Question[1] \in {"event_severities", "baseline_differences"}
                 THEN Noted(seen, Question[1], Range(center)) ELSE seen
  BY DEF Answer, bounds
<1>2. asked \in Nat /\ asked \notin 1..4 /\ (asked \in 1..12 => Question = <<Lists[asked], "list">>)
  BY <1>1, Asking
<1>3. got' \in Seq(Devices) /\ IsInjective(got') /\ Alerted' /\ Failed' /\ Counted'
  BY <1>1 DEF IInv, TypeOK, Once, Alerted, Failed, Counted
<1>4. \A i \in 1..12 : i = asked => HeardOf(i)'
  <2> SUFFICES ASSUME asked \in 1..12, Lists[asked] \in Recorded PROVE Lists[asked] \in DOMAIN seen'
    BY DEF HeardOf
  <2>1. Question[1] = Lists[asked]
    BY <1>2
  <2>2. seen' = Noted(seen, Question[1], Range(center))
    BY <1>1, <2>1 DEF Recorded, Paged
  <2> QED BY <2>1, <2>2 DEF Noted
<1>5. seen' = seen \/ \E l, D :
        seen' = Noted(seen, l, D) /\ D \subseteq Devices /\ (shaken \/ stayed \subseteq D)
  <2>1. Range(center) \subseteq Devices /\ stayed \subseteq Range(center)
    BY DEF IInv, TypeOK, Present, Range
  <2> QED BY <1>1, <2>1
<1> QED BY <1>1, <1>2, <1>3, <1>4, <1>5, GoesOn

\* An answer of New UI.
LEMMA NewUiAnswerStep == ASSUME IInv, NewUiAnswer PROVE IInv'
<1>1. /\ UNCHANGED <<center, alert, newui, got, failed, seen, current, faults, changes, cycles,
                     stayed, shaken>>
      /\ pc = "ask" /\ Proceed /\ Question[1] \in NewUiCapabilities
      /\ shown' = shown \/ shown' = shown \cup {alert}
  BY DEF NewUiAnswer, bounds
<1>2. asked \in Nat /\ (asked \in 1..12 => Question = <<Lists[asked], "list">>)
  BY <1>1, Asking
<1>3. asked \notin 1..12
  <2> SUFFICES ASSUME asked \in 1..12 PROVE FALSE
    OBVIOUS
  <2>1. Question[1] = Lists[asked] /\ Lists[asked] \in Range(Lists)
    BY <1>2, ListsAre DEF Range
  <2> QED BY <1>1, <2>1, Apart
<1>4. got' \in Seq(Devices) /\ IsInjective(got') /\ Failed' /\ Counted'
  BY <1>1 DEF IInv, TypeOK, Once, Failed, Counted
<1>5. Alerted'
  BY <1>1 DEF IInv, TypeOK, Alerted
<1> QED BY <1>1, <1>2, <1>3, <1>4, <1>5, GoesOn

\* The details of a device that left.
LEMMA NotFoundStep == ASSUME IInv, NotFound PROVE IInv'
<1>1. /\ UNCHANGED <<center, alert, newui, got, seen, shown, current, faults, changes, cycles,
                     stayed, shaken>>
      /\ pc = "ask" /\ Proceed /\ Question[1] \in DeviceDetails
      /\ failed' = Noted(failed, Question, "gone")
  BY DEF NotFound, Vanished, bounds
<1>2. asked \in Nat /\ (asked \in 1..12 => Question = <<Lists[asked], "list">>)
  BY <1>1, Asking
<1>3. asked \notin 1..12
  <2> SUFFICES ASSUME asked \in 1..12 PROVE FALSE
    OBVIOUS
  <2>1. Question[1] = Lists[asked] /\ Lists[asked] \in Range(Lists)
    BY <1>2, ListsAre DEF Range
  <2> QED BY <1>1, <2>1, Apart
<1>4. got' \in Seq(Devices) /\ IsInjective(got') /\ Alerted' /\ Counted'
  BY <1>1 DEF IInv, TypeOK, Once, Alerted, Counted
<1>5. Failed'
  BY <1>1 DEF IInv, TypeOK, Failed, Noted, Failures
<1>6. \E how : failed' = Noted(failed, Question, how)
  BY <1>1
<1> QED BY <1>1, <1>2, <1>3, <1>4, <1>5, <1>6, GoesOn

\* A question fails: the plan goes on, or the cycle is lost.
LEMMA FailStep ==
    ASSUME IInv, NEW how \in Failures \cup {"malformed"}, Fail(how)
    PROVE  IInv'
<1>1. /\ UNCHANGED <<center, alert, newui, got, seen, shown, current, changes, cycles,
                     stayed, shaken>>
      /\ pc = "ask" /\ faults < MaxFaults /\ faults' = faults + 1
      /\ failed' = Noted(failed, Question, how)
  BY DEF Fail
<1>2. asked \in Nat /\ (asked \in 1..12 => Question = <<Lists[asked], "list">>)
  BY <1>1, Asking
<1>3. got' \in Seq(Devices) /\ IsInjective(got')
  BY <1>1 DEF IInv, TypeOK, Once
<1>4. Alerted'
  BY <1>1 DEF IInv, TypeOK, Alerted
<1>5. Counted'
  <2>1. Counted
    BY Types DEF IInv
  <2> QED BY <1>1, <2>1, Bounds DEF Counted
<1>6. Failed'
  BY <1>1 DEF IInv, TypeOK, Failed, Noted
<1>7. /\ Question \in DOMAIN failed' /\ failed'[Question] = how
      /\ \A x \in DOMAIN failed : x \in DOMAIN failed'
  BY <1>1 DEF Noted
<1>8. CASE ~Aborts(Question, how)
  <2>1. Proceed
    BY <1>8 DEF Fail
  <2>2. \A i \in 1..12 : i = asked => HeardOf(i)'
    BY <1>2, <1>7 DEF HeardOf
  <2>3. asked = 1 => <<"devices", "list">> \in DOMAIN failed'
    <3>1. asked = 1 => Question = <<Lists[1], "list">>
      BY <1>2
    <3> QED BY <1>7, <3>1, ListsAre
  <2>4. \E h : failed' = Noted(failed, Question, h)
    BY <1>1
  <2> QED BY <1>1, <1>3, <1>4, <1>5, <1>6, <2>1, <2>2, <2>3, <2>4, GoesOn
<1>9. CASE Aborts(Question, how)
  <2>1. /\ pc' = "assemble" /\ asked' = asked /\ page' = page
        /\ results' = results /\ inserted' = inserted
    BY <1>9 DEF Fail
  <2>2. Lost'
    <3>1. Question \in DOMAIN failed' /\ Aborts(Question, failed'[Question])
      BY <1>7, <1>9
    <3>2. \E q \in DOMAIN failed' : Aborts(q, failed'[q])
      BY <3>1
    <3> QED BY <3>2 DEF Lost, Aborts
  <2>3. Len(Plan') \in Nat /\ asked + 1 <= Len(Plan')
    <3>1. got \in Seq(Devices) /\ asked < Len(Plan)
      BY <1>1, Asking
    <3>2. \E h : failed' = Noted(failed, Question, h)
      BY <1>1
    <3> QED BY <1>1, <1>2, <1>3, <3>1, <3>2, NextPlanLong, PlanGoesOn
  <2>4. TypeOK'
    <3> USE Types DEF IInv
    <3>1. Centered' /\ Snapshotted' /\ Seen' /\ Auxiliary'
      BY <1>1, <2>1 DEF Centered, Snapshotted, Seen, Auxiliary
    <3>2. Moded'
      BY <1>1, <2>1 DEF Moded
    <3>3. Placing'
      BY <1>2, <2>1, <2>3 DEF Placing
    <3> QED BY <1>4, <1>5, <1>6, <3>1, <3>2, <3>3, NextTypes
  <2>5. Heard'
    <3>1. \A i \in 1..12 : HeardOf(i) => HeardOf(i)'
      BY <1>1, <1>7 DEF HeardOf
    <3> QED BY <2>1, <3>1 DEF IInv, Heard
  <2>6. Complete'
    BY <1>1, <1>7, <2>1 DEF IInv, Complete
  <2>7. Once' /\ Present'
    BY <1>1, <2>1 DEF IInv, Once, Present
  <2>8. AtRest' /\ Course' /\ Pages'
    BY <2>1, <2>2 DEF AtRest, Course, Pages
  <2> QED BY <2>4, <2>5, <2>6, <2>7, <2>8 DEF IInv
<1> QED BY <1>8, <1>9

\* Two sequences without repetitions and without a common value.
LEMMA JoinedOnce ==
    ASSUME NEW S, NEW left \in Seq(S), NEW right \in Seq(S),
           IsInjective(left), IsInjective(right), Range(left) \cap Range(right) = {}
    PROVE  IsInjective(left \o right)
<1> DEFINE t == left \o right
<1>1. /\ t \in Seq(S) /\ Len(t) = Len(left) + Len(right)
      /\ \A k \in 1..Len(left) : t[k] = left[k]
      /\ \A k \in 1..Len(right) : t[Len(left) + k] = right[k]
  BY JoinAt
<1>2. Len(left) \in Nat /\ Len(right) \in Nat /\ DOMAIN t = 1..Len(left) + Len(right)
  BY <1>1
<1> HIDE DEF t
<1>3. \A k \in DOMAIN t :
         \/ k \in 1..Len(left) /\ t[k] = left[k] /\ t[k] \in Range(left)
         \/ k - Len(left) \in 1..Len(right) /\ t[k] = right[k - Len(left)] /\ t[k] \in Range(right)
  <2> TAKE k \in DOMAIN t
  <2>1. CASE k <= Len(left)
    BY <1>1, <1>2, <2>1 DEF Range
  <2>2. CASE k > Len(left)
    <3>1. k - Len(left) \in 1..Len(right) /\ Len(left) + (k - Len(left)) = k
      BY <1>2, <2>2
    <3> QED BY <1>1, <3>1 DEF Range
  <2> QED BY <1>2, <2>1, <2>2
<1>4. ASSUME NEW j \in DOMAIN t, NEW k \in DOMAIN t, t[j] = t[k] PROVE j = k
  <2>1. CASE t[j] \in Range(left)
    <3>1. j \in 1..Len(left) /\ k \in 1..Len(left) /\ left[j] = left[k]
      BY <1>3, <1>4, <2>1
    <3> QED BY <3>1 DEF IsInjective
  <2>2. CASE t[j] \notin Range(left)
    <3>1. /\ j - Len(left) \in 1..Len(right) /\ k - Len(left) \in 1..Len(right)
          /\ right[j - Len(left)] = right[k - Len(left)]
      BY <1>3, <1>4, <2>2
    <3>2. j - Len(left) = k - Len(left)
      BY <3>1 DEF IsInjective
    <3> QED BY <1>2, <3>2
  <2> QED BY <2>1, <2>2
<1> QED BY <1>4 DEF IsInjective, t

\* What a page adds to the records read.
LEMMA PageAdds ==
    ASSUME IInv, page \in Nat
    PROVE  /\ results \o NewItems \in Seq(Devices) /\ IsInjective(results \o NewItems)
           /\ Range(results \o NewItems) = Range(results) \cup Range(PageItems)
           /\ Range(PageItems) \subseteq Range(center)
<1>1. center \in Seq(Devices) /\ results \in Seq(Devices) /\ IsInjective(results)
  BY DEF IInv, TypeOK, Once
<1>2. /\ PageItems \in Seq(Devices)
      /\ \A k \in 1..Len(PageItems) : /\ page * PageSize + k \in DOMAIN center
                                      /\ PageItems[k] = center[page * PageSize + k]
  BY <1>1, PageIs
<1>3. /\ NewItems \in Seq(Devices) /\ IsInjective(NewItems)
      /\ Range(NewItems) = Range(PageItems) \ Range(results)
  BY <1>2, NewItemsAre
<1>4. /\ results \o NewItems \in Seq(Devices)
      /\ Range(results \o NewItems) = Range(results) \cup Range(NewItems)
  BY <1>1, <1>3, JoinSeq
<1>5. IsInjective(results \o NewItems)
  BY <1>1, <1>3, JoinedOnce
<1>6. Range(PageItems) \subseteq Range(center)
  BY <1>2 DEF Range
<1> QED BY <1>3, <1>4, <1>5, <1>6

\* The last page ends the list: what stayed has been read by then.
LEMMA LastPageEnds ==
    ASSUME IInv, pc = "ask", asked \in 1..4, ~shaken, LastPage
    PROVE  stayed \subseteq Range(results) \cup Range(PageItems)
<1> SUFFICES ASSUME NEW d \in stayed, d \notin Range(results) PROVE d \in Range(PageItems)
  OBVIOUS
<1> DEFINE off == page * PageSize
<1>1. page \in Nat /\ PageSize \in Nat \ {0} /\ center \in Seq(Devices) /\ inserted \in Nat
  BY Asking, Bounds DEF IInv, TypeOK
<1>2. off \in Nat
  BY <1>1
<1>3. PagesRead
  BY DEF IInv, Pages
<1>4. /\ PageItems \in Seq(Devices) /\ Len(PageItems) \in 0..PageSize
      /\ Len(PageItems) < PageSize => off + Len(PageItems) >= Len(center)
      /\ \A k \in 1..Len(PageItems) : /\ off + k \in DOMAIN center
                                      /\ PageItems[k] = center[off + k]
  BY <1>1, PageIs
<1>5. PICK i \in 1..Len(center) : center[i] = d
  BY <1>1 DEF IInv, Present, Range
<1> HIDE DEF off
<1>6. i > off
  <2>1. i <= off => d \in Range(results)
    BY <1>3, <1>5 DEF PagesRead, off
  <2> QED BY <1>2, <2>1
<1>7. CASE Len(PageItems) < PageSize
  <2>1. i - off \in 1..Len(PageItems) /\ off + (i - off) = i
    BY <1>1, <1>2, <1>4, <1>6, <1>7
  <2> QED BY <1>4, <1>5, <2>1 DEF Range
<1>8. CASE Len(PageItems) >= PageSize
  <2>1. NewItems = <<>>
    BY <1>1, <1>4, <1>8 DEF LastPage
  <2>2. Range(PageItems) \subseteq Range(results)
    BY <1>4, <2>1, NewItemsAre, Empty
  <2>3. PageSize \in 1..Len(PageItems)
    BY <1>1, <1>4, <1>8
  <2>4. center[off + PageSize] \in Range(results) /\ off + PageSize \in 1..Len(center)
    <3>1. off + PageSize \in DOMAIN center /\ PageItems[PageSize] = center[off + PageSize]
      BY <1>4, <2>3
    <3>2. PageItems[PageSize] \in Range(PageItems)
      BY <1>4, <2>3 DEF Range
    <3> QED BY <1>1, <2>2, <3>1, <3>2
  <2>5. off + PageSize > off + inserted
    BY <1>1, <1>2, <1>3 DEF PagesRead
  <2> QED BY <1>3, <2>4, <2>5 DEF PagesRead, off
<1> QED BY <1>1, <1>4, <1>7, <1>8

\* A full page goes before what has not been read.
LEMMA PageReads ==
    ASSUME IInv, pc = "ask", asked \in 1..4, ~shaken, ~LastPage, center' = center, stayed' = stayed,
           inserted' = 0, page' = page + 1, results' = results \o NewItems
    PROVE  PagesRead'
<1> DEFINE off == page * PageSize
<1>1. page \in Nat /\ PageSize \in Nat \ {0} /\ center \in Seq(Devices) /\ inserted \in Nat
  BY Asking, Bounds DEF IInv, TypeOK
<1>2. off \in Nat /\ page' * PageSize = off + PageSize
  BY <1>1
<1>3. PagesRead
  BY DEF IInv, Pages
<1>4. /\ Len(PageItems) = PageSize
      /\ \A k \in 1..PageSize : /\ off + k \in DOMAIN center
                                /\ PageItems[k] = center[off + k]
  <2>1. /\ Len(PageItems) \in 0..PageSize
        /\ \A k \in 1..Len(PageItems) : /\ off + k \in DOMAIN center
                                        /\ PageItems[k] = center[off + k]
    BY <1>1, PageIs
  <2>2. ~(Len(PageItems) < PageSize)
    BY DEF LastPage
  <2>3. Len(PageItems) = PageSize
    BY <1>1, <2>1, <2>2
  <2> QED BY <2>1, <2>3
<1>5. /\ Range(results') = Range(results) \cup Range(PageItems)
      /\ Range(PageItems) \subseteq Range(center)
  BY <1>1, PageAdds
<1> HIDE DEF off
<1>6. PageItems \in Seq(Devices)
  BY <1>1, PageIs
<1>7. inserted' < PageSize /\ Range(results') \subseteq Range(center')
  BY <1>1, <1>3, <1>5 DEF PagesRead
<1>8. ASSUME NEW i \in 1..Len(center), i <= off + PageSize, center[i] \in stayed
      PROVE  center[i] \in Range(results')
  <2>1. CASE i <= off
    BY <1>3, <1>5, <1>8, <2>1 DEF PagesRead, off
  <2>2. CASE i > off
    <3>1. i - off \in 1..PageSize /\ off + (i - off) = i
      BY <1>1, <1>2, <1>8, <2>2
    <3>2. PageItems[i - off] = center[i]
      BY <1>4, <3>1
    <3>3. PageItems[i - off] \in Range(PageItems)
      BY <1>4, <1>6, <3>1 DEF Range
    <3> QED BY <1>5, <3>2, <3>3
  <2> QED BY <1>2, <2>1, <2>2
<1>9. ASSUME NEW i \in 1..Len(center), i > off + PageSize
      PROVE  center[i] \notin Range(results')
  <2>1. center[i] \notin Range(results)
    <3>1. i > off + inserted
      BY <1>1, <1>2, <1>3, <1>9 DEF PagesRead
    <3> QED BY <1>3, <3>1 DEF PagesRead, off
  <2>2. ASSUME center[i] \in Range(PageItems) PROVE FALSE
    <3>1. PICK k \in 1..PageSize : center[i] = center[off + k]
      BY <1>4, <1>6, <2>2 DEF Range
    <3>2. i = off + k
      BY <1>1, <1>4, <3>1 DEF IInv, Once, IsInjective
    <3> QED BY <1>1, <1>2, <1>9, <3>2
  <2> QED BY <1>5, <2>1, <2>2
<1>10. ASSUME NEW i \in 1..Len(center')
       PROVE  /\ i <= page' * PageSize /\ center'[i] \in stayed' => center'[i] \in Range(results')
              /\ i > page' * PageSize + inserted' => center'[i] \notin Range(results')
  <2>1. i \in 1..Len(center)
    BY <1>10
  <2>2. i <= off + PageSize /\ center[i] \in stayed => center[i] \in Range(results')
    BY <1>8, <2>1
  <2>3. i > off + PageSize => center[i] \notin Range(results')
    BY <1>9, <2>1
  <2>4. page' * PageSize + inserted' = off + PageSize
    BY <1>1, <1>2
  <2> QED BY <1>2, <2>2, <2>3, <2>4
<1> QED BY <1>7, <1>10 DEF PagesRead

\* A page is read: the list goes on, or ends, or is given up.
LEMMA ReadPageStep == ASSUME IInv, ReadPage PROVE IInv'
<1> DEFINE all == results \o NewItems
<1>1. /\ UNCHANGED <<center, alert, newui, shown, current, faults, changes, cycles, stayed, shaken>>
      /\ pc = "ask"
  BY DEF ReadPage, bounds
<1>2. /\ asked \in 1..4 /\ Question = <<Lists[asked], "list">> /\ page \in Nat /\ got \in Seq(Devices)
      /\ Question[1] = "devices" <=> asked = 1
  <2>1. Question[1] \in Paged
    BY DEF ReadPage
  <2> QED BY <1>1, <2>1, Asking
<1>3. /\ all \in Seq(Devices) /\ IsInjective(all)
      /\ Range(all) = Range(results) \cup Range(PageItems)
      /\ Range(PageItems) \subseteq Range(center)
  BY <1>2, PageAdds
<1>4. Alerted' /\ Counted'
  BY <1>1 DEF IInv, TypeOK, Alerted, Counted
<1>5. got \in Seq(Devices) /\ IsInjective(got)
  BY <1>2 DEF IInv, Once
<1> HIDE DEF all
<1>6. ASSUME LastPage, failed' = failed, Proceed,
             IF Question[1] = "devices" THEN got' = all /\ seen' = seen
             ELSE seen' = Noted(seen, Question[1], Range(all)) /\ got' = got
      PROVE  IInv'
  <2>1. Failed'
    BY <1>6 DEF IInv, TypeOK, Failed
  <2>2. shaken \/ stayed \subseteq Range(all)
    BY <1>1, <1>2, <1>3, <1>6, LastPageEnds
  <2>3. Range(all) \subseteq Devices
    BY <1>3 DEF Range
  <2>4. CASE asked = 1
    <3>1. got' = all /\ seen' = seen
      BY <1>2, <1>6, <2>4
    <3>2. \A i \in 1..12 : i = asked => HeardOf(i)'
      BY <2>4, ListsAre DEF HeardOf, Recorded
    <3> QED BY <1>1, <1>3, <1>4, <1>6, <2>1, <2>2, <2>4, <3>1, <3>2, GoesOn
  <2>5. CASE asked # 1
    <3>1. got' = got /\ seen' = Noted(seen, Question[1], Range(all))
      BY <1>2, <1>6, <2>5
    <3>2. Question[1] = Lists[asked] /\ Question[1] \in DOMAIN seen'
      BY <1>2, <3>1 DEF Noted
    <3>3. \A i \in 1..12 : i = asked => HeardOf(i)'
      BY <3>2 DEF HeardOf
    <3>4. \E l, D :
            seen' = Noted(seen, l, D) /\ D \subseteq Devices /\ (shaken \/ stayed \subseteq D)
      BY <2>2, <2>3, <3>1
    <3> QED BY <1>1, <1>4, <1>5, <1>6, <2>1, <2>5, <3>1, <3>3, <3>4, GoesOn
  <2> QED BY <2>4, <2>5
<1>7. ASSUME ~LastPage, page + 1 < MaxPages, results' = all, page' = page + 1, inserted' = 0,
             UNCHANGED <<pc, asked, got, failed, seen>>
      PROVE  IInv'
  <2>1. Plan' = Plan
    BY <1>1, <1>7, SamePlan
  <2>2. TypeOK'
    <3> USE Types DEF IInv
    <3>1. Centered' /\ Snapshotted' /\ Seen' /\ Auxiliary' /\ Failed' /\ Moded'
      BY <1>1, <1>3, <1>7 DEF Centered, Snapshotted, Seen, Auxiliary, Failed, Moded
    <3>2. Placing'
      BY <1>2, <1>7, <2>1, Bounds DEF Placing
    <3> QED BY <1>4, <3>1, <3>2, NextTypes
  <2>3. ~shaken' => PagesRead'
    BY <1>1, <1>2, <1>7, PageReads DEF all
  <2>4. Pages'
    BY <1>2, <1>7, <2>3 DEF Pages
  <2>5. Course' /\ AtRest'
    BY <1>1, <1>7, <2>1 DEF IInv, Course, AtRest
  <2>6. Once' /\ Present'
    BY <1>1, <1>3, <1>7 DEF IInv, Once, Present
  <2>7. Heard' /\ Complete'
    BY <1>1, <1>7 DEF IInv, Heard, HeardOf, Complete
  <2> QED BY <2>2, <2>4, <2>5, <2>6, <2>7 DEF IInv
<1>8. ASSUME failed' = Noted(failed, Question, "other"), Proceed, UNCHANGED <<got, seen>>
      PROVE  IInv'
  <2>1. Failed'
    BY <1>8 DEF IInv, TypeOK, Failed, Noted, Failures
  <2>2. <<Lists[asked], "list">> \in DOMAIN failed'
    BY <1>2, <1>8 DEF Noted
  <2>3. \A i \in 1..12 : i = asked => HeardOf(i)'
    BY <2>2 DEF HeardOf
  <2>4. asked = 1 => <<"devices", "list">> \in DOMAIN failed'
    BY <2>2, ListsAre
  <2>5. \E how : failed' = Noted(failed, Question, how)
    BY <1>8
  <2> QED BY <1>1, <1>4, <1>5, <1>8, <2>1, <2>3, <2>4, <2>5, GoesOn
<1> QED BY <1>6, <1>7, <1>8 DEF ReadPage, all

\* A device appears: what lies behind it moves by one place.
LEMMA AppearStep ==
    ASSUME IInv, NEW d \in Devices, NEW i \in 1..Len(center) + 1, Appear(d, i)
    PROVE  IInv'
<1>1. /\ UNCHANGED <<alert, pc, newui, asked, page, results, got, failed, seen, shown, current, faults,
                     cycles, stayed>>
      /\ pc = "ask" /\ d \notin Range(center) /\ center' = InsertAt(center, i, d)
      /\ changes < MaxChanges /\ changes' = changes + 1
      /\ inserted' = IF Paging THEN inserted + 1 ELSE inserted
      /\ shaken' = (shaken \/ inserted' >= PageSize)
  BY DEF Appear, cycle
<1>2. /\ center \in Seq(Devices) /\ IsInjective(center) /\ page \in Nat /\ inserted \in Nat
  BY <1>1, Asking DEF IInv, TypeOK, Once
<1>3. /\ center' \in Seq(Devices) /\ Len(center') = Len(center) + 1 /\ center'[i] = d
      /\ \A k \in 1..Len(center) : center'[IF k < i THEN k ELSE k + 1] = center[k]
  BY <1>1, <1>2, InsertedAt
<1>4. IsInjective(center') /\ Range(center') = Range(center) \cup {d}
  BY <1>1, <1>2, InsertedOnce
<1>5. Plan' = Plan
  BY <1>1, SamePlan
<1>6. inserted' \in Nat
  BY <1>1, <1>2
<1>7. TypeOK'
  <2> USE Types DEF IInv
  <2>1. Alerted' /\ Moded' /\ Placing' /\ Failed' /\ Seen' /\ Snapshotted'
    BY <1>1, <1>5 DEF Alerted, Moded, Placing, Failed, Seen, Snapshotted
  <2>2. Centered'
    BY <1>1, <1>3 DEF Centered
  <2>3. Counted'
    BY <1>1, Bounds DEF Counted
  <2>4. Auxiliary'
    BY <1>1, <1>6 DEF Auxiliary
  <2> QED BY <2>1, <2>2, <2>3, <2>4, NextTypes
<1>8. ASSUME asked \in 1..4, ~shaken', page > 0 PROVE PagesRead'
  <2> DEFINE off == page * PageSize
  <2>1. off \in Nat /\ PageSize \in Nat /\ page' * PageSize = off
    BY <1>1, <1>2, Bounds
  <2>2. PagesRead
    BY <1>1, <1>8 DEF IInv, Pages
  <2>3. inserted' = inserted + 1 /\ ~(inserted' >= PageSize)
    BY <1>1, <1>2, <1>8 DEF Paging
  <2>4. Range(results') \subseteq Range(center) /\ inserted' < PageSize
    BY <1>1, <1>2, <2>1, <2>2, <2>3 DEF PagesRead
  <2>5. stayed' \subseteq Range(center)
    BY <1>1 DEF IInv, Present
  <2> HIDE DEF off
  <2>6. ASSUME NEW j \in 1..Len(center')
        PROVE  /\ j <= page' * PageSize /\ center'[j] \in stayed' => center'[j] \in Range(results')
               /\ j > page' * PageSize + inserted' => center'[j] \notin Range(results')
    <3>1. CASE j = i
      BY <1>1, <1>3, <2>4, <2>5, <3>1
    <3>2. CASE j # i
      <4> DEFINE k == IF j < i THEN j ELSE j - 1
      <4>1. k \in 1..Len(center) /\ j = (IF k < i THEN k ELSE k + 1) /\ k <= j /\ j <= k + 1
        BY <1>2, <1>3, <3>2
      <4> HIDE DEF k
      <4>2. center'[j] = center[k]
        BY <1>3, <4>1
      <4>3. j <= off => k <= off
        BY <2>1, <4>1
      <4>4. j > off + inserted' => k > off + inserted
        BY <1>2, <2>1, <2>3, <4>1
      <4>5. /\ k <= off /\ center[k] \in stayed => center[k] \in Range(results)
            /\ k > off + inserted => center[k] \notin Range(results)
        BY <2>2, <4>1 DEF PagesRead, off
      <4> QED BY <1>1, <2>1, <4>2, <4>3, <4>4, <4>5
    <3> QED BY <3>1, <3>2
  <2> QED BY <1>4, <2>4, <2>6 DEF PagesRead
<1>9. Pages'
  <2>1. page = 0 => inserted' = inserted
    BY <1>1 DEF Paging
  <2>2. asked \in 1..4 /\ ~shaken' /\ page = 0 => PagesRead'
    BY <1>1, <1>3, <2>1, NothingRead DEF IInv, Pages
  <2>3. asked \in 1..4 /\ ~shaken' => PagesRead'
    BY <1>2, <1>8, <2>2
  <2> QED BY <1>1, <2>1, <2>3 DEF IInv, Pages
<1>10. Once' /\ Present'
  BY <1>1, <1>4 DEF IInv, Once, Present
<1>11. AtRest' /\ Course' /\ Heard' /\ Complete'
  BY <1>1, <1>5 DEF IInv, AtRest, Course, Heard, HeardOf, Complete
<1> QED BY <1>7, <1>9, <1>10, <1>11 DEF IInv

\* A device disappears.
LEMMA DisappearStep == ASSUME IInv, NEW d \in Devices, Disappear(d) PROVE IInv'
<1>1. /\ UNCHANGED <<alert, pc, newui, asked, page, results, got, failed, seen, shown, current, faults,
                     cycles, inserted>>
      /\ pc = "ask" /\ changes < MaxChanges /\ changes' = changes + 1
      /\ stayed' = stayed \ {d} /\ shaken' = (shaken \/ Paging)
  BY DEF Disappear, cycle
<1>2. PICK i \in DOMAIN center : center[i] = d /\ center' = RemoveAt(center, i)
  BY DEF Disappear
<1>3. /\ center \in Seq(Devices) /\ IsInjective(center)
      /\ page \in Nat
  BY <1>1, Asking DEF IInv, TypeOK, Once
<1>4. center' \in Seq(Devices) /\ IsInjective(center') /\ Range(center') = Range(center) \ {d}
  <2>1. i \in 1..Len(center)
    BY <1>3
  <2> QED BY <1>2, <1>3, <2>1, RemovedAt, RemovedOnce
<1>5. Plan' = Plan
  BY <1>1, SamePlan
<1>6. TypeOK'
  <2> USE Types DEF IInv
  <2>1. Alerted' /\ Moded' /\ Placing' /\ Failed' /\ Seen' /\ Snapshotted'
    BY <1>1, <1>5 DEF Alerted, Moded, Placing, Failed, Seen, Snapshotted
  <2>2. Centered'
    BY <1>1, <1>4 DEF Centered
  <2>3. Counted'
    BY <1>1, Bounds DEF Counted
  <2>4. Auxiliary'
    BY <1>1 DEF Auxiliary
  <2> QED BY <2>1, <2>2, <2>3, <2>4, NextTypes
<1>7. Pages'
  <2>1. ~shaken' => page = 0
    <3>1. ~shaken' => ~Paging
      BY <1>1
    <3>2. ~Paging => page = 0
      BY <1>3 DEF Paging
    <3> QED BY <3>1, <3>2
  <2>2. asked \in 1..4 /\ ~shaken' => PagesRead'
    BY <1>1, <1>4, <2>1, NothingRead DEF IInv, Pages
  <2> QED BY <1>1, <2>2 DEF IInv, Pages
<1>8. Once' /\ Present'
  BY <1>1, <1>4 DEF IInv, Once, Present
<1>9. AtRest' /\ Course' /\ Heard' /\ Complete'
  BY <1>1, <1>5 DEF IInv, AtRest, Course, Heard, HeardOf, Complete
<1> QED BY <1>6, <1>7, <1>8, <1>9 DEF IInv

\* Every action keeps the invariant.
LEMMA IInvNext == ASSUME IInv, [Next]_vars PROVE IInv'
<1>1. CASE \E mode \in {"on", "off", "unsupported"} : Start(mode)
  BY <1>1, StartStep
<1>2. CASE RawEsxiFails
  BY <1>2, RawEsxiFailsStep
<1>3. CASE ReadPage
  BY <1>3, ReadPageStep
<1>4. CASE Answer
  BY <1>4, AnswerStep
<1>5. CASE NewUiAnswer
  BY <1>5, NewUiAnswerStep
<1>6. CASE NotFound
  BY <1>6, NotFoundStep
<1>7. CASE \E how \in Failures \cup {"malformed"} : Fail(how)
  BY <1>7, FailStep
<1>8. CASE RawCybervisionFails
  BY <1>8, RawCybervisionFailsStep
<1>9. CASE \E inventory \in Inventories, back \in BOOLEAN : Assemble(inventory, back)
  BY <1>9, AssembleStep
<1>10. CASE Restart
  BY <1>10, RestartStep
<1>11. CASE \E d \in Devices, i \in 1..Len(center) + 1 : Appear(d, i)
  BY <1>11, AppearStep
<1>12. CASE \E d \in Devices : Disappear(d)
  BY <1>12, DisappearStep
<1>13. CASE \E status \in Range(AlertStatuses) : AlertMoves(status)
  BY <1>13, AlertMovesStep
<1>14. CASE UNCHANGED vars
  <2>1. /\ UNCHANGED <<center, alert, pc, newui, asked, page, results, got, failed, seen, shown, current,
                       faults, changes, cycles, stayed, shaken, inserted>>
    BY <1>14 DEF vars, cycle, bounds, aux
  <2>2. Plan' = Plan
    BY <2>1, SamePlan
  <2>3. TypeOK'
    <3> USE Types DEF IInv
    <3>1. Centered' /\ Alerted' /\ Moded' /\ Placing' /\ Failed' /\ Seen' /\ Snapshotted' /\ Counted'
          /\ Auxiliary'
      BY <2>1, <2>2
      DEF Centered, Alerted, Moded, Placing, Failed, Seen, Snapshotted, Counted, Auxiliary
    <3> QED BY <3>1, NextTypes
  <2>4. AtRest' /\ Course' /\ Once' /\ Heard' /\ Present' /\ Complete'
    BY <2>1, <2>2 DEF IInv, AtRest, Course, Lost, Once, Heard, HeardOf, Present, Complete
  <2>5. Pages'
    BY <2>1 DEF IInv, Pages, PagesRead
  <2> QED BY <2>3, <2>4, <2>5 DEF IInv
<1> QED BY <1>1, <1>2, <1>3, <1>4, <1>5, <1>6, <1>7, <1>8, <1>9, <1>10, <1>11, <1>12, <1>13,
           <1>14 DEF Next

\* The inductive invariant of the collector: the order of the plan, what the
\* pages have read of a list that moves, and what every list recorded.
THEOREM Invariant == Spec => []IInv
<1>1. Init => IInv
  BY IInvInit
<1>2. IInv /\ [Next]_vars => IInv'
  BY IInvNext
<1> QED BY <1>1, <1>2, PTL DEF Spec

(***************************************************************************)
(* The identity links.                                                     *)
(***************************************************************************)

\* The confidences are numbers, whatever the pair.
LEMMA LevelType ==
    ASSUME NEW A, NEW a, NEW v
    PROVE  Level(a, v, A) \in {0, 65, 88, 97, 99}
<1> DEFINE mac == Shares(a, v, A, VmMac, DeviceMac)
           ip  == Shares(a, v, A, VmIp, DeviceIp)
<1>1. CASE mac /\ ip
  BY <1>1, Zenon DEF Level
<1>2. CASE mac /\ ~ip
  BY <1>2, Zenon DEF Level
<1>3. CASE ip /\ ~mac
  BY <1>3, Zenon DEF Level
<1>4. CASE ~mac /\ ~ip /\ <<a, v>> \in Alike
  BY <1>4, Zenon DEF Level
<1>5. CASE ~mac /\ ~ip /\ <<a, v>> \notin Alike
  BY <1>5, Zenon DEF Level
<1> QED BY <1>1, <1>2, <1>3, <1>4, <1>5, Zenon

\* A machine has one asset and an asset one machine, as the docstring
\* promises: every tie is dropped, never decided by the order of the lists.
THEOREM LinksOneToOne ==
    ASSUME NEW A \in SUBSET Devices, NEW l \in Links(A), NEW m \in Links(A)
    PROVE  (l.vm = m.vm) <=> (l.asset = m.asset)
<1>1. PICK p \in LinkedPairs(A) : l.asset = p[1] /\ l.vm = p[2]
      BY DEF Links
<1>2. PICK q \in LinkedPairs(A) : m.asset = q[1] /\ m.vm = q[2]
      BY DEF Links
<1>3. /\ p \in BestOfAsset(A) /\ q \in BestOfAsset(A)
      /\ p \in A \X Eligible /\ q \in A \X Eligible
      BY DEF LinkedPairs, BestOfAsset
<1>4. p = <<p[1], p[2]>> /\ q = <<q[1], q[2]>> BY <1>3
<1>5. /\ Level(p[1], p[2], A) \in Nat /\ Level(q[1], q[2], A) \in Nat
      BY LevelType
<1>6. ASSUME p[2] = q[2] PROVE p[1] = q[1]
  <2>1. SUFFICES ASSUME p # q PROVE FALSE BY <1>4, <1>6
  <2>2. Level(q[1], q[2], A) < Level(p[1], p[2], A) BY <2>1, <1>3, <1>6 DEF LinkedPairs
  <2>3. Level(p[1], p[2], A) < Level(q[1], q[2], A) BY <2>1, <1>3, <1>6 DEF LinkedPairs
  <2>4. QED BY <2>2, <2>3, <1>5
<1>7. ASSUME p[1] = q[1] PROVE p[2] = q[2]
  <2>1. SUFFICES ASSUME p[2] # q[2] PROVE FALSE OBVIOUS
  <2>2. Level(p[1], q[2], A) < Level(p[1], p[2], A) BY <2>1, <1>3 DEF BestOfAsset
  <2>3. Level(q[1], p[2], A) < Level(q[1], q[2], A) BY <2>1, <1>3 DEF BestOfAsset
  <2>4. QED BY <2>2, <2>3, <1>5, <1>7
<1>8. QED BY <1>1, <1>2, <1>6, <1>7

\* A confirmed link rests on an address that no other machine and no other
\* asset of the snapshot reports, besides the one the operator wrote down.
THEOREM ConfirmedByAddress ==
    ASSUME NEW A \in SUBSET Devices, NEW l \in Links(A), l.status = "confirmed"
    PROVE  /\ ConfirmedIp[l.vm] \in DeviceIp[l.asset]
           /\ \/ Shares(l.asset, l.vm, A, VmMac, DeviceMac)
              \/ Shares(l.asset, l.vm, A, VmIp, DeviceIp)
<1>1. PICK p \in LinkedPairs(A) :
        /\ l.asset = p[1] /\ l.vm = p[2]
        /\ l.status = IF Confirmed(p, A) THEN "confirmed" ELSE "proposed"
      BY DEF Links
<1>2. Confirmed(p, A) BY <1>1
<1>3. Level(p[1], p[2], A) > 0 BY DEF LinkedPairs, BestOfAsset
<1>4. Level(p[1], p[2], A) # 65 /\ Level(p[1], p[2], A) # 0
      BY <1>2, <1>3, LevelType DEF Confirmed
<1>5. \/ Shares(p[1], p[2], A, VmMac, DeviceMac)
      \/ Shares(p[1], p[2], A, VmIp, DeviceIp)
      BY <1>4 DEF Level
<1>6. QED BY <1>1, <1>2, <1>5 DEF Confirmed

\* Which records have a question of their own.
LEMMA InPlan ==
    ASSUME got \in Seq(Devices)
    PROVE  /\ \A l \in Range(Lists) : <<l, "list">> \in Range(Plan)
           /\ \A d : <<"device_vulnerabilities", d>> \in Range(Plan) <=> d \in Range(DetailedDevices)
           /\ \A b : <<"baseline_differences", b>> \in Range(Plan)
                       <=> b \in Range(Listed("baselines", Baselines))
           /\ \A x : <<"sensor_stats", x>> \in Range(Plan) <=> x \in Range(Listed("sensors", Sensors))
           /\ \A q \in Range(Plan) : q[1] \in ClassicCapabilities \cup NewUiCapabilities
<1>1. /\ Plan \in Seq(Questions)
      /\ Range(Plan) = {<<"version", "list">>} \cup (Range(Lists) \X {"list"}) \cup AboutRecords
  BY PlanIs
<1>2. \A c, x : c \notin {"version"} \cup Range(Lists) =>
         (<<c, x>> \in Range(Plan) <=> <<c, x>> \in AboutRecords)
  BY <1>1
<1>3. /\ {"device_vulnerabilities", "baseline_differences", "sensor_stats"}
            \cap ({"version"} \cup Range(Lists) \cup Range(NewUiLists)) = {}
  BY RangesAre
<1>4. \A d : <<"device_vulnerabilities", d>> \in AboutRecords <=> d \in Range(DetailedDevices)
  BY <1>3 DEF AboutRecords
<1>5. \A b : <<"baseline_differences", b>> \in AboutRecords
               <=> b \in Range(Listed("baselines", Baselines))
  BY <1>3 DEF AboutRecords
<1>6. \A x : <<"sensor_stats", x>> \in AboutRecords <=> x \in Range(Listed("sensors", Sensors))
  BY <1>3 DEF AboutRecords
<1>7. \A q \in Range(Plan) : q[1] \in ClassicCapabilities \cup NewUiCapabilities
  <2>1. \A q \in Questions : q[1] \in Names
    BY DEF Questions
  <2>2. \A q \in Range(Plan) : q \in Questions
    BY <1>1 DEF Range
  <2> QED BY <2>1, <2>2 DEF Names
<1>8. \A l \in Range(Lists) : <<l, "list">> \in Range(Plan)
  BY <1>1
<1> QED BY <1>2, <1>3, <1>4, <1>5, <1>6, <1>7, <1>8

(***************************************************************************)
(* The contract.                                                           *)
(***************************************************************************)

\* A link names an asset of the snapshot and a machine of the inventory.
LEMMA LinksRefer ==
    ASSUME NEW A, NEW link \in Links(A)
    PROVE  link.asset \in A /\ link.vm \in Vms
<1>1. PICK p \in LinkedPairs(A) : link.asset = p[1] /\ link.vm = p[2]
  BY DEF Links
<1>2. p \in A \X Eligible
  BY DEF LinkedPairs, BestOfAsset
<1> QED BY <1>1, <1>2 DEF Eligible

\* Whatever list moved while it was read and whatever failed, the records of a
\* cycle keep the contract: no device twice, no reference to what is not there.
THEOREM ContractTheorem == Spec => []ContractKept
<1>1. ASSUME IInv PROVE ContractKept
  <2>1. UniqueIds
    BY <1>1 DEF IInv, Once, UniqueIds
  <2>2. /\ Scores \subseteq Assets /\ ActivityRefs \subseteq Assets /\ FlowRefs \subseteq Assets
        /\ EventRefs \subseteq Assets /\ VulnerableAssets \subseteq Assets
        /\ DifferenceRefs \subseteq Assets
    BY DEF Scores, ActivityRefs, FlowRefs, EventRefs, VulnerableAssets, DifferenceRefs, Owners
  <2>3. UNION {Scores, ActivityRefs, FlowRefs, EventRefs, VulnerableAssets, DifferenceRefs}
          \subseteq Assets
    BY <2>2
  <2>4. DifferenceOf \subseteq BaselineIds
    BY <1>1, InPlan DEF IInv, TypeOK, DifferenceOf, BaselineIds, Answered
  <2>5. \A link \in Links(Assets) : link.asset \in Assets /\ link.vm \in Vms
    BY LinksRefer
  <2> QED BY <1>1, <2>1, <2>3, <2>4, <2>5 DEF IInv, ContractKept, References
<1> QED BY <1>1, Invariant, PTL

(***************************************************************************)
(* The status of a capability.                                             *)
(***************************************************************************)

\* Together the questions of a capability are available when none failed.
LEMMA TogetherIs ==
    ASSUME NEW attempts, NEW failing
    PROVE  Together(attempts, failing) = "available" <=> failing = {}
<1>1. CASE failing = {}
  BY <1>1 DEF Together
<1>2. CASE failing # {} /\ failing # attempts
  BY <1>2 DEF Together
<1>3. CASE failing # {} /\ failing = attempts
  BY <1>3 DEF Together
<1> QED BY <1>1, <1>2, <1>3

\* A capability is available when it was asked, in full, and nothing failed.
LEMMA StatusIs ==
    ASSUME NEW c
    PROVE  /\ Status(c) = "available" <=>
                 Attempts(c) # {} /\ ~(c \in DeviceDetails /\ Truncated) /\ Failing(c) = {}
           /\ Attempts(c) = {} => Status(c) = "not_applicable"
<1>1. CASE Attempts(c) = {}
  BY <1>1 DEF Status
<1>2. CASE Attempts(c) # {} /\ c \in DeviceDetails /\ Truncated
  BY <1>2 DEF Status
<1>3. CASE Attempts(c) # {} /\ ~(c \in DeviceDetails /\ Truncated)
  <2>1. Status(c) = Together(Attempts(c), Failing(c))
    BY <1>3 DEF Status
  <2> QED BY <1>3, <2>1, TogetherIs
<1> QED BY <1>1, <1>2, <1>3

\* Only the assembly makes a snapshot current.
LEMMA PublishedBy ==
    ASSUME [Next]_vars, Published
    PROVE  \E inventory \in Inventories, back \in BOOLEAN :
              Assemble(inventory, back) /\ current' = Snapshot(inventory)
<1>1. current' # current
  BY DEF Published
<1> SUFFICES ASSUME Next PROVE \E inventory \in Inventories, back \in BOOLEAN :
                                  Assemble(inventory, back) /\ current' = Snapshot(inventory)
  BY <1>1 DEF vars
<1>2. \E inventory \in Inventories, back \in BOOLEAN : Assemble(inventory, back)
  BY <1>1 DEF Next, Start, RawEsxiFails, ReadPage, Answer, NewUiAnswer, NotFound, Fail,
              RawCybervisionFails, Restart, Appear, Disappear, AlertMoves
<1>3. \A inventory, back : Assemble(inventory, back) => current' = Snapshot(inventory)
  BY <1>1 DEF Assemble
<1> QED BY <1>2, <1>3

(***************************************************************************)
(* New UI stays apart.                                                     *)
(***************************************************************************)

\* Failures of New UI are of no capability of the Classic source.
LEMMA OnlyNewUi ==
    ASSUME ~Truncated,
           \A q \in DOMAIN failed : q[1] \in NewUiCapabilities /\ failed[q] # "malformed"
    PROVE  ClassicSource = "connected"
<1>1. "raw_store" \notin NewUiCapabilities /\ "version" \notin NewUiCapabilities
  BY RangesAre DEF NewUiCapabilities
<1>2. ~Lost
  BY <1>1 DEF Lost, Aborts
<1>3. ASSUME NEW c \in ClassicCapabilities PROVE Status(c) \notin Problems
  <2>1. Failing(c) = {}
    BY <1>3, Apart DEF Failing, Attempts
  <2>2. Status(c) \in {"available", "not_applicable"}
    BY <2>1, StatusIs
  <2> QED BY <2>2 DEF Problems
<1> QED BY <1>2, <1>3 DEF ClassicSource

\* New UI stays apart: whatever its questions answer, short of a malformed
\* record, a snapshot made current says that the Classic source is connected.
THEOREM NewUiTheorem == Spec => NewUiApart
<1>1. ASSUME [Next]_vars
      PROVE  [Published /\ ~Truncated
                 /\ (\A q \in DOMAIN failed : q[1] \in NewUiCapabilities /\ failed[q] # "malformed")
              => current'.classic = "connected"]_vars
  <2> SUFFICES ASSUME Published, ~Truncated,
                      \A q \in DOMAIN failed : q[1] \in NewUiCapabilities /\ failed[q] # "malformed"
               PROVE  current'.classic = "connected"
    OBVIOUS
  <2>1. PICK inventory \in Inventories : current' = Snapshot(inventory)
    BY <1>1, PublishedBy
  <2>2. current'.classic = ClassicSource
    BY <2>1 DEF Snapshot
  <2> QED BY <2>2, OnlyNewUi
<1> QED BY <1>1, PTL DEF Spec, NewUiApart

\* What the gate has seen when it approves.
LEMMA ApprovedIs ==
    ASSUME IInv, NEW inventory, NEW allow \in BOOLEAN, Approved(inventory, allow)
    PROVE  /\ ~Lost
           /\ \A c \in ClassicCapabilities : c # "sensor_stats" => Status(c) = "available"
           /\ \A q \in Range(Plan) \cap DOMAIN failed :
                 allow = TRUE /\ q[1] = "sensor_stats" /\ failed[q] = "server"
<1>1. /\ ~Lost
      /\ \A c \in ClassicCapabilities : Status(c) = "available" \/ Accepted(c, allow)
      /\ \A c \in NewUiCapabilities : NewUiStatus(c) = "available"
  BY DEF Approved
<1>2. got \in Seq(Devices) /\ newui \in {"on", "off", "unsupported"}
  BY DEF IInv, TypeOK
<1>3. \A c \in ClassicCapabilities : c # "sensor_stats" => Status(c) = "available"
  BY <1>1 DEF Accepted
<1>4. ASSUME NEW q \in Range(Plan) \cap DOMAIN failed
      PROVE  allow = TRUE /\ q[1] = "sensor_stats" /\ failed[q] = "server"
  <2>1. failed[q] # "malformed"
    BY <1>1 DEF Lost
  <2>2. q \in Failing(q[1])
    BY <2>1 DEF Failing, Attempts
  <2>3. Status(q[1]) # "available"
    BY <2>2, StatusIs
  <2>4. q[1] \in ClassicCapabilities \cup NewUiCapabilities
    BY <1>2, InPlan
  <2>5. q[1] \notin NewUiCapabilities
    <3>1. NewUiStatus(q[1]) # "available"
      BY <1>2, <2>3 DEF NewUiStatus
    <3> QED BY <1>1, <3>1
  <2>6. Accepted(q[1], allow)
    BY <1>1, <2>3, <2>4, <2>5
  <2> QED BY <2>2, <2>6 DEF Accepted, StatsServerError
<1> QED BY <1>1, <1>3, <1>4

\* What the gate approves has every device, with all that is about it.
LEMMA Faithful ==
    ASSUME IInv, pc = "assemble", NEW inventory, NEW allow \in BOOLEAN, Approved(inventory, allow)
    PROVE  /\ VulnerableAssets = Assets /\ DifferenceOf = Range(Baselines)
           /\ allow = FALSE => MeasuredSensors = Range(Sensors)
           /\ ~shaken => stayed \subseteq Owners \cap ActivityRefs \cap FlowRefs \cap EventRefs
           /\ "Active" \in shown => ShownStatus = "Active"
<1>1. got \in Seq(Devices)
  BY DEF IInv, TypeOK
<1>2. /\ ~Lost
      /\ \A c \in ClassicCapabilities : c # "sensor_stats" => Status(c) = "available"
      /\ \A q \in Range(Plan) \cap DOMAIN failed :
            allow = TRUE /\ q[1] = "sensor_stats" /\ failed[q] = "server"
  BY ApprovedIs
<1>3. \A l \in Range(Lists) : <<l, "list">> \notin DOMAIN failed
  <2>1. "sensor_stats" \notin Range(Lists)
    BY RangesAre
  <2> TAKE l \in Range(Lists)
  <2>2. <<l, "list">> \in Range(Plan) /\ <<l, "list">>[1] # "sensor_stats"
    BY <1>1, <2>1, InPlan
  <2> QED BY <1>2, <2>2
<1>4. \A l \in {"devices", "components", "activities", "flows", "event_severities",
                "baselines", "sensors"} : <<l, "list">> \notin DOMAIN failed
  BY <1>3, RangesAre
<1>5. VulnerableAssets = Assets
  <2>1. Status("device_vulnerabilities") = "available"
    BY <1>2 DEF ClassicCapabilities, DeviceDetails
  <2>2. ~Truncated
    BY <2>1, StatusIs DEF DeviceDetails
  <2>3. Range(DetailedDevices) = Assets
    BY <1>1, <2>2, DetailedAre DEF Assets
  <2> QED BY <1>1, <1>2, <2>3, InPlan DEF VulnerableAssets, Answered
<1>6. DifferenceOf = Range(Baselines)
  <2>1. Listed("baselines", Baselines) = Baselines
    BY <1>4 DEF Listed
  <2> QED BY <1>1, <1>2, <2>1, InPlan DEF DifferenceOf, Answered
<1>7. ASSUME allow = FALSE PROVE MeasuredSensors = Range(Sensors)
  <2>1. Listed("sensors", Sensors) = Sensors
    BY <1>4 DEF Listed
  <2>2. Range(Plan) \cap DOMAIN failed = {}
    BY <1>2, <1>7
  <2> QED BY <1>1, <2>1, <2>2, InPlan DEF MeasuredSensors, Answered
<1>8. ASSUME ~shaken
      PROVE  stayed \subseteq Owners \cap ActivityRefs \cap FlowRefs \cap EventRefs
  <2>1. asked = Len(Plan)
    BY <1>2 DEF IInv, Course
  <2>2. asked \in Nat /\ asked >= 13
    BY <1>1, <2>1, PlanLong
  <2>3. stayed \subseteq Assets
    BY <1>4, <1>8, <2>2 DEF IInv, Complete, Assets
  <2>4. /\ HeardOf(2) /\ HeardOf(3) /\ HeardOf(4) /\ HeardOf(6)
    BY <2>2 DEF IInv, Heard
  <2>5. \A l \in Recorded : l \in DOMAIN seen
    BY <1>4, <2>4, ListsAre DEF HeardOf, Recorded
  <2>6. \A l \in Recorded : stayed \subseteq Named(l)
    BY <1>8, <2>5 DEF IInv, Present, Named
  <2> QED BY <2>3, <2>6 DEF Recorded, Owners, ActivityRefs, FlowRefs, EventRefs
<1>9. "Active" \in shown => ShownStatus = "Active"
  BY DEF ShownStatus
<1> QED BY <1>5, <1>6, <1>7, <1>8, <1>9

\* What the gate approves is faithful: every question was answered, except the
\* accepted server errors of sensor_stats; every device was asked about; no
\* device that was there all along is missing or has lost its component,
\* activities, flows or events, unless the pages moved by a page.
THEOREM ApprovedTheorem == Spec => ApprovedFaithful
<1>1. ASSUME IInv, [Next]_vars
      PROVE  [Published /\ current'.approved # {} =>
                /\ \A q \in Range(Plan) \cap DOMAIN failed :
                       q[1] = "sensor_stats" /\ failed[q] = "server" /\ current'.approved = {TRUE}
                /\ VulnerableAssets = Assets /\ DifferenceOf = Range(Baselines)
                /\ FALSE \in current'.approved => MeasuredSensors = Range(Sensors)
                /\ ~shaken => stayed \subseteq Owners \cap ActivityRefs \cap FlowRefs \cap EventRefs
                /\ "Active" \in shown => current'.alert = "Active"]_vars
  <2> SUFFICES ASSUME Published, current'.approved # {}
               PROVE
                /\ \A q \in Range(Plan) \cap DOMAIN failed :
                       q[1] = "sensor_stats" /\ failed[q] = "server" /\ current'.approved = {TRUE}
                /\ VulnerableAssets = Assets /\ DifferenceOf = Range(Baselines)
                /\ FALSE \in current'.approved => MeasuredSensors = Range(Sensors)
                /\ ~shaken => stayed \subseteq Owners \cap ActivityRefs \cap FlowRefs \cap EventRefs
                /\ "Active" \in shown => current'.alert = "Active"
    OBVIOUS
  <2>1. PICK inventory \in Inventories, back \in BOOLEAN :
          Assemble(inventory, back) /\ current' = Snapshot(inventory)
    BY <1>1, PublishedBy
  <2>2. pc = "assemble" /\ got \in Seq(Devices)
    BY <1>1, <2>1 DEF Assemble, IInv, TypeOK
  <2>3. /\ current'.approved = {allow \in BOOLEAN : Approved(inventory, allow)}
        /\ current'.alert = IF Lost THEN "none" ELSE ShownStatus
    BY <2>1 DEF Snapshot
  <2>4. PICK allow \in BOOLEAN : Approved(inventory, allow)
    BY <2>3
  <2>5. /\ ~Lost
        /\ \A q \in Range(Plan) \cap DOMAIN failed : q[1] = "sensor_stats" /\ failed[q] = "server"
    BY <1>1, <2>4, ApprovedIs
  <2>6. ASSUME NEW q \in Range(Plan) \cap DOMAIN failed PROVE current'.approved = {TRUE}
    <3>1. \A a \in BOOLEAN : Approved(inventory, a) => a = TRUE
      BY <1>1, ApprovedIs
    <3> QED BY <2>3, <2>4, <3>1
  <2>7. /\ VulnerableAssets = Assets /\ DifferenceOf = Range(Baselines)
        /\ ~shaken => stayed \subseteq Owners \cap ActivityRefs \cap FlowRefs \cap EventRefs
        /\ "Active" \in shown => ShownStatus = "Active"
    BY <1>1, <2>2, <2>4, Faithful
  <2>8. FALSE \in current'.approved => MeasuredSensors = Range(Sensors)
    <3>1. FALSE \in current'.approved => Approved(inventory, FALSE)
      BY <2>3
    <3> QED BY <1>1, <2>2, <3>1, Faithful
  <2> QED BY <2>3, <2>5, <2>6, <2>7, <2>8
<1> QED BY <1>1, Invariant, PTL DEF Spec, ApprovedFaithful

(***************************************************************************)
(* The operator.                                                           *)
(***************************************************************************)

\* With an operator who publishes, the collector is still the collector: the
\* theorems above hold of both together.
THEOREM CollectsTheorem == StagingSpec => Spec
<1>1. StagingInit => Init
  BY DEF StagingInit
<1>2. [StagingNext]_stagingVars => [Next]_vars
  <2> SUFFICES ASSUME [StagingNext]_stagingVars, vars' # vars PROVE Next
    OBVIOUS
  <2>1. StagingNext
    BY DEF stagingVars
  <2> QED BY <2>1 DEF StagingNext, Next, ShowPlan, Apply, Reread, PublisherReads, Commit,
                      Abandon, GrowOld
<1> QED BY <1>1, <1>2, PTL DEF StagingSpec, Spec

Plans == [id : Nat, allow : BOOLEAN]

\* The run that publishes sends the snapshot of its plan.
StagingInv ==
    /\ IInv /\ plan \in Plans
    /\ op \in [step : {"none", "confirmed", "publishing", "sending"}, plan : Plans, id : Nat]
    /\ op.step \in {"publishing", "sending"} => op.id = op.plan.id

\* Every action of the collector and of the operator keeps it.
LEMMA StagingInvNext == ASSUME StagingInv, IInv', [StagingNext]_stagingVars PROVE StagingInv'
<1>1. current.id \in Nat
  <2>1. current.id \in 0..MaxCycles
    BY DEF StagingInv, IInv, TypeOK
  <2> QED BY <2>1
<1>2. CASE UNCHANGED <<plan, op>>
  BY <1>2 DEF StagingInv
<1>3. ASSUME NEW allow \in BOOLEAN, ShowPlan(allow) PROVE StagingInv'
  BY <1>1, <1>3 DEF StagingInv, ShowPlan, Plans
<1>4. ASSUME NEW allow \in BOOLEAN, Apply(allow) PROVE StagingInv'
  BY <1>1, <1>4 DEF StagingInv, Apply
<1>5. CASE op' = Quiet /\ plan' = plan
  BY <1>5 DEF StagingInv, Quiet, NoPlan, Plans
<1>6. CASE op' = [op EXCEPT !.step = "publishing", !.id = current.id] /\ Unchanged /\ plan' = plan
  BY <1>1, <1>6 DEF StagingInv, Unchanged
<1>7. CASE op' = [op EXCEPT !.step = "sending"] /\ op.step = "publishing" /\ plan' = plan
  BY <1>7 DEF StagingInv
<1> QED BY <1>2, <1>3, <1>4, <1>5, <1>6, <1>7
    DEF StagingNext, stagingVars, staged, Reread, PublisherReads, Commit, Abandon, GrowOld

\* What reaches staging is the snapshot of the plan the operator confirmed,
\* approved again after the confirmation, however often current was replaced.
THEOREM StagedTheorem == StagingSpec => StagedAsPlanned
<1>1. StagingInit => op = Quiet /\ plan = NoPlan
  BY DEF StagingInit
<1>2. StagingInit /\ IInv => StagingInv
  <2>1. NoPlan \in Plans
    BY DEF NoPlan, Plans
  <2>2. /\ Quiet \in [step : {"none", "confirmed", "publishing", "sending"}, plan : Plans, id : Nat]
        /\ Quiet.step = "none"
    BY <2>1 DEF Quiet
  <2> QED BY <1>1, <2>1, <2>2 DEF StagingInv
<1>3. ASSUME StagingInv, [StagingNext]_stagingVars
      PROVE  [/\ staging' # staging => staging' = op.plan.id
              /\ op'.step = "publishing" /\ op.step # "publishing" =>
                     current.id = op.plan.id /\ Gate(op.plan.allow)]_stagingVars
  <2>1. /\ op.step = "sending" => op.id = op.plan.id
        /\ op = [step |-> op.step, plan |-> op.plan, id |-> op.id]
    BY <1>3 DEF StagingInv
  <2>2. CASE UNCHANGED <<op, staging>>
    BY <2>2
  <2>3. ASSUME NEW allow \in BOOLEAN, Apply(allow)
        PROVE  staging' = staging /\ op'.step = "confirmed"
    BY <2>3 DEF Apply
  <2>4. CASE Reread
    BY <2>4 DEF Reread, Unchanged, Quiet
  <2>5. CASE PublisherReads
    <3>1. staging' = staging /\ op.step = "publishing"
      BY <2>5 DEF PublisherReads
    <3> QED BY <3>1
  <2>6. CASE Commit
    BY <2>1, <2>6 DEF Commit, Quiet
  <2>7. CASE Abandon
    BY <2>7 DEF Abandon, Quiet
  <2> QED BY <1>3, <2>2, <2>3, <2>4, <2>5, <2>6, <2>7
      DEF StagingNext, stagingVars, staged, ShowPlan, GrowOld
<1> QED BY <1>2, <1>3, StagingInvNext, CollectsTheorem, Invariant, PTL
    DEF StagingSpec, StagedAsPlanned
=================================================================================
