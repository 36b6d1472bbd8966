------------------------- MODULE TreePagesProofs -------------------------
(***************************************************************************)
(* Lemmas about TreePages, for any capacity and any greatest key: what the *)
(* search for a child finds, what the halves of a full page hold, and that *)
(* a search tree is one again when a record is stored where it belongs,    *)
(* when a child is split under its parent and when an index root is split  *)
(* in place.                                                               *)
(***************************************************************************)
EXTENDS TreePages, SequenceTheorems, FiniteSetTheorems, WellFoundedInduction, TLAPS

-------------------------------------------------------------------------
(* Numbers, sets and sequences. *)

(* The constants are numbers, and so are the keys. *)
LEMMA Numbers ==
  /\ Keys \subseteq Nat /\ MinKey \in Keys /\ MaxKey \in Keys
  /\ MinKey = 0 /\ MaxKey \in Nat /\ FanOut \in Nat /\ NumRecords \in Nat
  /\ \A k \in Keys : MinKey <= k /\ k <= MaxKey
BY FanOutAssumption, NumRecordsAssumption, MaxKeyAssumption DEF Keys, MinKey

(* inc_key and dec_key. *)
LEMMA NextKeys ==
  ASSUME NEW k \in Keys
  PROVE  /\ Inc(k) \in Keys /\ k <= Inc(k) /\ (k # MaxKey => Inc(k) = k + 1)
         /\ Dec(k) \in Keys /\ Dec(k) <= k /\ (k # MinKey => Dec(k) = k - 1)
BY MaxKeyAssumption DEF Keys, MinKey, Inc, Dec

(* A set of numbers has a least element. *)
LEMMA Least ==
  ASSUME NEW S, S \subseteq Nat, S # {}
  PROVE  \E x \in S : \A y \in S : x <= y
<1> DEFINE Less == {p \in Nat \X Nat : p[1] < p[2]}
<1>1. IsWellFoundedOn(Less, Nat)
  BY NatLessThanWellFounded, Zenon DEF OpToRel
<1>2. PICK x \in S : \A y \in S : ~ (<<y, x>> \in Less)
  <2> HIDE DEF Less
  <2> QED
    BY <1>1, WFMin, Zenon
<1>3. \A y \in S : x <= y
  <2> SUFFICES ASSUME NEW y \in S, ~ (x <= y)  PROVE FALSE
    OBVIOUS
  <2>1. y < x /\ <<y, x>> \in Nat \X Nat
    OBVIOUS
  <2>2. <<y, x>>[1] < <<y, x>>[2]
    BY <2>1
  <2> QED
    BY <2>1, <2>2, <1>2
<1> QED
  BY <1>3

(* Smallest and Largest find the ends of a set of keys. *)
LEMMA EndsOf ==
  ASSUME NEW S, S \subseteq Keys, S # {}
  PROVE  /\ Smallest(S) \in S /\ \A j \in S : Smallest(S) <= j
         /\ Largest(S) \in S /\ \A j \in S : j <= Largest(S)
<1>1. S \subseteq Nat
  BY Numbers
<1>2. PICK x \in S : \A y \in S : x <= y
  BY <1>1, Least
<1>3. PICK z \in S : \A y \in S : y <= z
  <2> DEFINE Gaps == {MaxKey - y : y \in S}
  <2>1. Gaps \subseteq Nat /\ Gaps # {}
    <3>1. \A y \in S : y \in Nat /\ y <= MaxKey /\ MaxKey \in Nat
      BY <1>1, Numbers
    <3>2. \A y, z \in Nat : y <= z => z - y \in Nat
      OBVIOUS
    <3>3. \A y \in S : MaxKey - y \in Nat
      BY <3>1, <3>2
    <3> QED
      BY <3>3
  <2>2. PICK g \in Gaps : \A h \in Gaps : g <= h
    BY <2>1, Least
  <2>3. PICK z \in S : g = MaxKey - z
    OBVIOUS
  <2>4. \A y \in S : y <= z
    <3> TAKE y \in S
    <3>1. MaxKey - z <= MaxKey - y
      BY <2>2, <2>3
    <3>2. y \in Nat /\ z \in Nat /\ MaxKey \in Nat
      BY <1>1, Numbers
    <3> QED
      BY <3>1, <3>2
  <2> QED
    BY <2>4
<1>4. \A y \in S : z >= y
  BY <1>1, <1>3
<1>5. Largest(S) \in S /\ \A j \in S : Largest(S) >= j
  BY <1>4 DEF Largest
<1>6. Smallest(S) \in S /\ \A j \in S : Smallest(S) <= j
  BY <1>2 DEF Smallest
<1> QED
  BY <1>1, <1>5, <1>6

(* A set of keys is finite. *)
LEMMA KeySetsAreFinite ==
  ASSUME NEW S, S \subseteq Keys
  PROVE  IsFiniteSet(S) /\ Cardinality(S) \in Nat
<1>1. IsFiniteSet(0..MaxKey)
  BY FS_Interval, Numbers
<1> QED
  BY <1>1, FS_Subset, FS_CardinalityType DEF Keys, MinKey

(* A part of a sequence. *)
LEMMA Part ==
  ASSUME NEW S, NEW s \in Seq(S), NEW a \in 1..Len(s) + 1, NEW b \in (a - 1)..Len(s)
  PROVE  /\ SubSeq(s, a, b) \in Seq(S) /\ Len(SubSeq(s, a, b)) = b - a + 1
         /\ \A i \in 1..(b - a + 1) : SubSeq(s, a, b)[i] = s[a + i - 1]
<1>1. Len(s) \in Nat /\ a \in Int /\ b \in Int
  OBVIOUS
<1>2. \A i \in a..b : s[i] \in S
  BY <1>1
<1>3. /\ SubSeq(s, a, b) \in Seq(S)
      /\ Len(SubSeq(s, a, b)) = IF a <= b THEN b - a + 1 ELSE 0
      /\ \A i \in 1..(b - a + 1) : SubSeq(s, a, b)[i] = s[a + i - 1]
  BY <1>1, <1>2, SubSeqProperties
<1>4. (IF a <= b THEN b - a + 1 ELSE 0) = b - a + 1
  BY <1>1
<1> QED
  BY <1>3, <1>4

(* A sequence with one element more. *)
LEMMA Inserted ==
  ASSUME NEW S, NEW s \in Seq(S), NEW i \in 1..Len(s) + 1, NEW e \in S
  PROVE  /\ InsertAt(s, i, e) \in Seq(S) /\ Len(InsertAt(s, i, e)) = Len(s) + 1
         /\ \A j \in 1..Len(s) + 1 :
              InsertAt(s, i, e)[j] = IF j < i THEN s[j] ELSE IF j = i THEN e ELSE s[j - 1]
<1> DEFINE a == SubSeq(s, 1, i - 1)
           b == <<e>>
           c == SubSeq(s, i, Len(s))
<1>1. Len(s) \in Nat /\ i \in Nat
  OBVIOUS
<1>2. /\ a \in Seq(S) /\ Len(a) = i - 1
      /\ \A j \in 1..(i - 1) : a[j] = s[j]
  <2>1. 1 \in 1..Len(s) + 1 /\ i - 1 \in (1 - 1)..Len(s)
    BY <1>1
  <2>2. /\ a \in Seq(S) /\ Len(a) = (i - 1) - 1 + 1
        /\ \A j \in 1..((i - 1) - 1 + 1) : a[j] = s[1 + j - 1]
    BY <2>1, Part
  <2>3. (i - 1) - 1 + 1 = i - 1 /\ \A j \in 1..(i - 1) : 1 + j - 1 = j
    BY <1>1
  <2> QED
    BY <2>2, <2>3
<1>3. /\ c \in Seq(S) /\ Len(c) = Len(s) - i + 1
      /\ \A j \in 1..(Len(s) - i + 1) : c[j] = s[i + j - 1]
  <2>1. Len(s) \in (i - 1)..Len(s)
    BY <1>1
  <2> QED
    BY <2>1, Part
<1>4. b \in Seq(S) /\ Len(b) = 1 /\ b[1] = e
  OBVIOUS
<1> HIDE DEF a, b, c
<1>5. /\ a \o b \in Seq(S) /\ Len(a \o b) = i
      /\ \A j \in 1..i : (a \o b)[j] = IF j < i THEN s[j] ELSE e
  <2>1. /\ a \o b \in Seq(S) /\ Len(a \o b) = Len(a) + Len(b)
        /\ \A j \in 1..Len(a) + Len(b) : (a \o b)[j] = IF j <= Len(a) THEN a[j] ELSE b[j - Len(a)]
    BY <1>2, <1>4, ConcatProperties
  <2>2. Len(a) + Len(b) = i
    BY <1>1, <1>2, <1>4
  <2>3. ASSUME NEW j \in 1..i  PROVE (a \o b)[j] = IF j < i THEN s[j] ELSE e
    <3>1. (a \o b)[j] = IF j <= i - 1 THEN a[j] ELSE b[j - (i - 1)]
      BY <2>1, <2>2, <1>2
    <3>2. CASE j < i
      <4>1. j <= i - 1 /\ j \in 1..(i - 1)
        BY <3>2, <1>1
      <4> QED
        BY <4>1, <3>1, <3>2, <1>2
    <3>3. CASE j = i
      <4>1. ~ (j <= i - 1) /\ j - (i - 1) = 1 /\ ~ (j < i)
        BY <3>3, <1>1
      <4> QED
        BY <4>1, <3>1, <1>4
    <3>4. j < i \/ j = i
      BY <1>1
    <3> QED
      BY <3>2, <3>3, <3>4
  <2> QED
    BY <2>1, <2>2, <2>3
<1> DEFINE d == a \o b
<1>6. InsertAt(s, i, e) = d \o c
  BY Zenon DEF InsertAt, a, b, c, d
<1>7. /\ d \in Seq(S) /\ Len(d) = i
      /\ \A j \in 1..i : d[j] = IF j < i THEN s[j] ELSE e
  BY <1>5
<1> HIDE DEF d
<1>8. /\ d \o c \in Seq(S) /\ Len(d \o c) = Len(d) + Len(c)
      /\ \A j \in 1..Len(d) + Len(c) : (d \o c)[j] = IF j <= Len(d) THEN d[j] ELSE c[j - Len(d)]
  BY <1>3, <1>7, ConcatProperties
<1>9. Len(d) + Len(c) = Len(s) + 1
  BY <1>1, <1>3, <1>7
<1>10. ASSUME NEW j \in 1..Len(s) + 1
       PROVE  (d \o c)[j] = IF j < i THEN s[j] ELSE IF j = i THEN e ELSE s[j - 1]
  <2>1. (d \o c)[j] = IF j <= i THEN d[j] ELSE c[j - i]
    BY <1>7, <1>8, <1>9
  <2>2. CASE j <= i
    <3>1. j \in 1..i
      BY <2>2, <1>1
    <3>2. (d \o c)[j] = IF j < i THEN s[j] ELSE e
      BY <3>1, <2>1, <2>2, <1>7
    <3> QED
      BY <3>2, <2>2, <1>1
  <2>3. CASE j > i
    <3>1. j - i \in 1..(Len(s) - i + 1) /\ i + (j - i) - 1 = j - 1 /\ ~ (j <= i) /\ j # i /\ ~ (j < i)
      BY <2>3, <1>1
    <3> QED
      BY <3>1, <2>1, <1>3
  <2>4. j <= i \/ j > i
    BY <1>1
  <2> QED
    BY <2>2, <2>3, <2>4
<1> QED
  BY <1>6, <1>8, <1>9, <1>10

-------------------------------------------------------------------------
(* Pages, and what their children own. *)

(* The separators of a page are ascending keys within its fence. *)
LEMMA Separators ==
  ASSUME NEW page, NEW n, NEW f, Fitting(page, n, f)
  PROVE  /\ page.seps \in Seq(Keys) /\ Len(page.seps) \in Nat
         /\ DOMAIN page.seps = 1..Len(page.seps)
         /\ \A i \in 1..Len(page.seps) :
              page.seps[i] \in Nat /\ f.lo < page.seps[i] /\ page.seps[i] <= f.hi /\ page.seps[i] < MaxKey
         /\ \A i, j \in 1..Len(page.seps) : i < j => page.seps[i] < page.seps[j]
         /\ f.lo \in Nat /\ f.hi \in Nat /\ f.lo \in Keys /\ f.hi \in Keys
<1>1. page.seps \in Seq(Keys)
  BY DEF Fitting, IsPage, AnyPage
<1>2. \A i \in DOMAIN page.seps : page.seps[i] \in Keys
  BY <1>1
<1>3. /\ \A i, j \in DOMAIN page.seps : i < j => page.seps[i] < page.seps[j]
      /\ \A i \in DOMAIN page.seps : f.lo < page.seps[i] /\ page.seps[i] <= f.hi /\ page.seps[i] < MaxKey
  BY DEF Fitting, KeysFit, Within
<1>4. f.lo \in Keys /\ f.hi \in Keys
  BY DEF Fitting, Fences
<1>5. Len(page.seps) \in Nat /\ DOMAIN page.seps = 1..Len(page.seps)
  BY <1>1
<1> QED
  BY <1>1, <1>2, <1>3, <1>4, <1>5, Numbers

(* The search counts the separators that are not after the key. *)
LEMMA ChildPosIs ==
  ASSUME NEW page, NEW n, NEW f, Fitting(page, n, f), NEW k \in Keys
  PROVE  /\ ChildPos(page, k) \in 1..Len(page.seps) + 1
         /\ \A i \in 1..Len(page.seps) : page.seps[i] <= k <=> i < ChildPos(page, k)
<1> DEFINE s == page.seps
           l == Len(s)
           Bounds == {x \in Nat : \A i \in 1..l : s[i] <= k => i <= x}
<1>1. /\ l \in Nat /\ DOMAIN s = 1..l
      /\ \A i \in 1..l : s[i] \in Nat /\ s[i] < MaxKey
      /\ \A i, j \in 1..l : i < j => s[i] < s[j]
  BY Separators
<1>2. ChildPos(page, k) = Cardinality({i \in 1..l : s[i] < Inc(k)}) + 1
  BY <1>1 DEF ChildPos
<1> HIDE DEF s
<1> HIDE DEF l
<1>3. k \in Nat /\ Inc(k) \in Nat /\ (k # MaxKey => Inc(k) = k + 1) /\ (k = MaxKey => Inc(k) = MaxKey)
  BY NextKeys, Numbers DEF Inc
<1>4. \A i \in 1..l : s[i] < Inc(k) <=> s[i] <= k
  <2> TAKE i \in 1..l
  <2>1. s[i] \in Nat /\ s[i] < MaxKey /\ MaxKey \in Nat
    BY <1>1, Numbers
  <2> QED
    BY <2>1, <1>3
<1>5. l \in Bounds /\ Bounds \subseteq Nat
  BY <1>1
<1>6. PICK b \in Bounds : \A x \in Bounds : b <= x
  <2> HIDE DEF Bounds
  <2> QED
    BY <1>5, Least
<1>7. b \in 0..l /\ \A i \in 1..l : s[i] <= k => i <= b
  BY <1>1, <1>5, <1>6
<1>8. b > 0 => s[b] <= k
  <2> SUFFICES ASSUME b > 0  PROVE s[b] <= k
    OBVIOUS
  <2>1. b - 1 \notin Bounds /\ b - 1 \in Nat
    <3> HIDE DEF Bounds
    <3> QED
      BY <1>6, <1>7, <1>1
  <2>2. PICK i \in 1..l : s[i] <= k /\ ~ (i <= b - 1)
    BY <2>1
  <2>3. i <= b
    BY <2>2, <1>7
  <2>4. i = b
    BY <2>2, <2>3, <1>1, <1>7
  <2> QED
    BY <2>2, <2>4
<1>9. \A i \in 1..l : s[i] <= k <=> i <= b
  <2> SUFFICES ASSUME NEW i \in 1..l, i <= b  PROVE s[i] <= k
    BY <1>7
  <2>1. b \in 1..l /\ s[b] <= k /\ s[b] \in Nat /\ s[i] \in Nat
    BY <1>1, <1>7, <1>8
  <2>2. i = b \/ s[i] < s[b]
    BY <2>1, <1>1
  <2> QED
    BY <2>1, <2>2, <1>3
<1>10. {i \in 1..l : s[i] < Inc(k)} = 1..b
  BY <1>1, <1>4, <1>7, <1>9
<1>11. Cardinality(1..b) = b
  BY <1>7, FS_Interval
<1>12. ChildPos(page, k) = b + 1
  BY <1>2, <1>10, <1>11
<1>13. b + 1 \in 1..l + 1 /\ \A i \in 1..l : s[i] <= k <=> i < b + 1
  BY <1>1, <1>7, <1>9
<1> QED
  BY <1>12, <1>13 DEF l, s

(* The ends of a child's fence. *)
LEMMA ChildFenceIs ==
  ASSUME NEW page, NEW n, NEW f, Fitting(page, n, f), NEW i \in 1..Len(page.seps) + 1
  PROVE  /\ ChildFence(page, i, f) \in Fences
         /\ ChildFence(page, i, f).lo = IF i = 1 THEN f.lo ELSE page.seps[i - 1]
         /\ ChildFence(page, i, f).hi = IF i = Len(page.seps) + 1 THEN f.hi ELSE page.seps[i] - 1
         /\ ChildFence(page, i, f).lo <= ChildFence(page, i, f).hi
         /\ f.lo <= ChildFence(page, i, f).lo /\ ChildFence(page, i, f).hi <= f.hi
<1> DEFINE s == page.seps
           l == Len(s)
           lo == IF i = 1 THEN f.lo ELSE s[i - 1]
           hi == IF i > l THEN f.hi ELSE Dec(s[i])
<1>1. /\ l \in Nat
      /\ \A j \in 1..l : s[j] \in Keys /\ s[j] \in Nat /\ f.lo < s[j] /\ s[j] <= f.hi
      /\ \A j, m \in 1..l : j < m => s[j] < s[m]
      /\ f.lo \in Nat /\ f.hi \in Nat /\ f.lo \in Keys /\ f.hi \in Keys /\ f.lo <= f.hi
  BY Separators DEF Fitting
<1>2. ChildFence(page, i, f) = [lo |-> lo, hi |-> hi]
  BY DEF ChildFence
<1> HIDE DEF s
<1> HIDE DEF l
<1>3. \A j \in 1..l : Dec(s[j]) = s[j] - 1 /\ Dec(s[j]) \in Keys
  <2> TAKE j \in 1..l
  <2>1. s[j] \in Keys /\ s[j] \in Nat /\ f.lo < s[j] /\ f.lo \in Nat
    BY <1>1
  <2>2. s[j] # MinKey
    BY <2>1, Numbers
  <2> QED
    BY <2>1, <2>2, NextKeys
<1>4. i \in 1..l + 1
  BY DEF l, s
<1>5. lo = (IF i = 1 THEN f.lo ELSE s[i - 1]) /\ hi = IF i = l + 1 THEN f.hi ELSE s[i] - 1
  BY <1>1, <1>3, <1>4
<1>6. lo \in Keys /\ f.lo <= lo /\ lo \in Nat
  <2>1. i # 1 => i - 1 \in 1..l
    BY <1>1, <1>4
  <2> QED
    BY <2>1, <1>1
<1>7. hi \in Keys /\ hi <= f.hi /\ hi \in Nat
  <2>1. i # l + 1 => i \in 1..l
    BY <1>1, <1>4
  <2>2. CASE i = l + 1
    BY <2>2, <1>1, <1>5
  <2>3. CASE i # l + 1
    <3>1. i \in 1..l /\ hi = s[i] - 1 /\ s[i] - 1 \in Keys /\ s[i] <= f.hi /\ s[i] \in Nat /\ f.hi \in Nat
      BY <2>1, <2>3, <1>1, <1>3, <1>5
    <3>2. s[i] - 1 <= f.hi
      BY <3>1
    <3>3. s[i] - 1 \in Nat
      BY <3>1, Numbers
    <3> QED
      BY <3>1, <3>2, <3>3
  <2> QED
    BY <2>2, <2>3
<1>8. lo <= hi
  <2>1. CASE i = l + 1 /\ i = 1
    BY <2>1, <1>1, <1>5
  <2>2. CASE i = l + 1 /\ i # 1
    <3>1. i - 1 \in 1..l /\ lo = s[i - 1] /\ hi = f.hi
      BY <2>2, <1>1, <1>5
    <3> QED
      BY <3>1, <1>1
  <2>3. CASE i # l + 1 /\ i = 1
    <3>1. i \in 1..l /\ lo = f.lo /\ hi = s[i] - 1
      BY <2>3, <1>1, <1>4, <1>5
    <3>2. f.lo < s[i] /\ f.lo \in Nat /\ s[i] \in Nat
      BY <3>1, <1>1
    <3> QED
      BY <3>1, <3>2
  <2>4. CASE i # l + 1 /\ i # 1
    <3>1. i \in 1..l /\ i - 1 \in 1..l /\ i - 1 < i /\ lo = s[i - 1] /\ hi = s[i] - 1
      BY <2>4, <1>1, <1>4, <1>5
    <3>2. s[i - 1] < s[i] /\ s[i - 1] \in Nat /\ s[i] \in Nat
      BY <3>1, <1>1
    <3> QED
      BY <3>1, <3>2
  <2> QED
    BY <2>1, <2>2, <2>3, <2>4
<1> HIDE DEF lo, hi
<1>9. ChildFence(page, i, f).lo = lo /\ ChildFence(page, i, f).hi = hi
  BY <1>2
<1>10. ChildFence(page, i, f) \in Fences
  BY <1>2, <1>6, <1>7 DEF Fences
<1> QED
  BY <1>5, <1>6, <1>7, <1>8, <1>9, <1>10 DEF l, s

(* The child that the search finds may hold the key, and no other may. *)
LEMMA ChildOwns ==
  ASSUME NEW page, NEW n, NEW f, Fitting(page, n, f), NEW k \in Keys,
         NEW i \in 1..Len(page.seps) + 1
  PROVE  Within(k, ChildFence(page, i, f)) <=> Within(k, f) /\ i = ChildPos(page, k)
<1> DEFINE s == page.seps
           l == Len(s)
<1>1. /\ l \in Nat /\ f.lo \in Nat /\ f.hi \in Nat /\ k \in Nat
      /\ \A j \in 1..l : s[j] \in Nat /\ f.lo < s[j] /\ s[j] <= f.hi
      /\ \A j, m \in 1..l : j < m => s[j] < s[m]
  BY Separators, Numbers
<1>2. PICK m : m = ChildPos(page, k)
  OBVIOUS
<1>3. m \in 1..l + 1 /\ \A j \in 1..l : s[j] <= k <=> j < m
  BY <1>2, ChildPosIs
<1>4. PICK g : g = ChildFence(page, i, f)
  OBVIOUS
<1>5. g.lo = (IF i = 1 THEN f.lo ELSE s[i - 1]) /\ g.hi = (IF i = l + 1 THEN f.hi ELSE s[i] - 1)
  BY <1>4, ChildFenceIs
<1>6. f.lo <= g.lo /\ g.hi <= f.hi /\ g.lo \in Nat /\ g.hi \in Nat
  <2>1. f.lo <= g.lo /\ g.hi <= f.hi /\ g \in Fences
    BY <1>4, ChildFenceIs
  <2> QED
    BY <2>1, Numbers DEF Fences
<1>7. i \in 1..l + 1
  OBVIOUS
<1> HIDE DEF s
<1> HIDE DEF l
<1>8. ASSUME Within(k, g)  PROVE Within(k, f) /\ i = m
  <2>1. g.lo <= k /\ k <= g.hi
    BY <1>8 DEF Within
  <2>2. Within(k, f)
    BY <2>1, <1>1, <1>6 DEF Within
  <2>3. i <= m
    <3>1. CASE i = 1
      BY <3>1, <1>1, <1>3
    <3>2. CASE i # 1
      <4>1. i - 1 \in 1..l /\ s[i - 1] <= k
        BY <3>2, <2>1, <1>1, <1>5, <1>7
      <4> QED
        BY <4>1, <1>1, <1>3, <1>7
    <3> QED
      BY <3>1, <3>2
  <2>4. m <= i
    <3>1. CASE i = l + 1
      BY <3>1, <1>1, <1>3
    <3>2. CASE i # l + 1
      <4>1. i \in 1..l
        BY <3>2, <1>1, <1>7
      <4>2. ~ (s[i] <= k)
        BY <4>1, <3>2, <2>1, <1>1, <1>5
      <4> QED
        BY <4>1, <4>2, <1>1, <1>3
    <3> QED
      BY <3>1, <3>2
  <2>5. i = m
    BY <2>3, <2>4, <1>1, <1>3, <1>7
  <2> QED
    BY <2>2, <2>5
<1>9. ASSUME Within(k, f), i = m  PROVE Within(k, g)
  <2>1. f.lo <= k /\ k <= f.hi
    BY <1>9 DEF Within
  <2>2. g.lo <= k
    <3>1. CASE i = 1
      BY <3>1, <2>1, <1>5
    <3>2. CASE i # 1
      <4>1. i - 1 \in 1..l /\ i - 1 < m
        BY <3>2, <1>1, <1>7, <1>9
      <4> QED
        BY <4>1, <3>2, <1>3, <1>5
    <3> QED
      BY <3>1, <3>2
  <2>3. k <= g.hi
    <3>1. CASE i = l + 1
      BY <3>1, <2>1, <1>5
    <3>2. CASE i # l + 1
      <4>1. i \in 1..l /\ ~ (i < m)
        BY <3>2, <1>1, <1>7, <1>9
      <4>2. ~ (s[i] <= k) /\ g.hi = s[i] - 1 /\ s[i] \in Nat
        BY <4>1, <3>2, <1>1, <1>3, <1>5
      <4> QED
        BY <4>2, <1>1
    <3> QED
      BY <3>1, <3>2
  <2> QED
    BY <2>2, <2>3 DEF Within
<1> QED
  BY <1>2, <1>4, <1>8, <1>9

-------------------------------------------------------------------------
(* Keys by their rank. *)

Before(S, k) == {j \in S : j < k}

(* A smaller key has fewer keys before it. *)
LEMMA RanksAscend ==
  ASSUME NEW S, S \subseteq Keys, NEW j \in S, NEW k \in S
  PROVE  /\ Cardinality(Before(S, k)) \in Nat /\ Cardinality(Before(S, k)) < Cardinality(S)
         /\ j < k <=> Cardinality(Before(S, j)) < Cardinality(Before(S, k))
<1>1. S \subseteq Nat /\ IsFiniteSet(S) /\ Cardinality(S) \in Nat
  BY Numbers, KeySetsAreFinite
<1>2. ASSUME NEW x \in S
      PROVE  /\ IsFiniteSet(Before(S, x)) /\ Cardinality(Before(S, x)) \in Nat
             /\ Cardinality(Before(S, x)) < Cardinality(S)
  <2>1. Before(S, x) \in SUBSET S /\ Before(S, x) \subseteq Keys /\ x \notin Before(S, x)
    <3>1. x \in Nat /\ ~ (x < x)
      BY <1>1
    <3> QED
      BY <3>1 DEF Before
  <2>2. IsFiniteSet(Before(S, x)) /\ Cardinality(Before(S, x)) \in Nat
    BY <2>1, KeySetsAreFinite
  <2>3. /\ Cardinality(Before(S, x)) <= Cardinality(S)
        /\ Cardinality(S) = Cardinality(Before(S, x)) => S = Before(S, x)
    BY <2>1, <1>1, FS_Subset
  <2> QED
    BY <1>1, <2>1, <2>2, <2>3
<1>3. ASSUME NEW x \in S, NEW y \in S, x < y
      PROVE  Cardinality(Before(S, x)) < Cardinality(Before(S, y))
  <2>1. Before(S, x) \in SUBSET Before(S, y)
    <3>1. \A z \in S : z < x => z < y
      BY <1>1, <1>3
    <3> QED
      BY <3>1 DEF Before
  <2>2. x \in Before(S, y) /\ x \notin Before(S, x)
    BY <1>1, <1>3 DEF Before
  <2>3. /\ Cardinality(Before(S, x)) <= Cardinality(Before(S, y))
        /\ Cardinality(Before(S, y)) = Cardinality(Before(S, x)) => Before(S, y) = Before(S, x)
    BY <1>2, <2>1, FS_Subset
  <2> QED
    BY <1>2, <2>2, <2>3
<1>4. j < k \/ j = k \/ k < j
  BY <1>1
<1>5. Cardinality(Before(S, j)) \in Nat /\ Cardinality(Before(S, k)) \in Nat
  BY <1>2
<1>6. j < k => Cardinality(Before(S, j)) < Cardinality(Before(S, k))
  BY <1>3
<1>7. k < j => Cardinality(Before(S, k)) < Cardinality(Before(S, j))
  BY <1>3
<1> HIDE DEF Before
<1>8. j < k <=> Cardinality(Before(S, j)) < Cardinality(Before(S, k))
  <2>1. CASE j < k
    BY <2>1, <1>6
  <2>2. CASE j = k
    BY <2>2, <1>1, <1>5
  <2>3. CASE k < j
    BY <2>3, <1>1, <1>5, <1>7
  <2> QED
    BY <1>4, <2>1, <2>2, <2>3
<1> QED
  BY <1>2, <1>8

(* Every rank up to the size of the set is that of one of its keys. *)
LEMMA Ranks ==
  ASSUME NEW S, S \subseteq Keys, NEW n \in Nat, n < Cardinality(S)
  PROVE  \E k \in S : Cardinality(Before(S, k)) = n
<1> DEFINE c == Cardinality(S)
           rank == [k \in S |-> Cardinality(Before(S, k))]
           T == 0..(c - 1)
<1>1. S \subseteq Nat /\ IsFiniteSet(S) /\ c \in Nat
  BY Numbers, KeySetsAreFinite
<1>2. IsFiniteSet(T) /\ Cardinality(T) = c
  <2>1. 0 \in Int /\ c - 1 \in Int
    BY <1>1
  <2>2. IsFiniteSet(T) /\ Cardinality(T) = IF 0 > c - 1 THEN 0 ELSE (c - 1) - 0 + 1
    BY <2>1, FS_Interval
  <2>3. (IF 0 > c - 1 THEN 0 ELSE (c - 1) - 0 + 1) = c
    BY <1>1
  <2> QED
    BY <2>2, <2>3
<1>3. \A k \in S : Cardinality(Before(S, k)) \in T
  <2> TAKE k \in S
  <2>1. Cardinality(Before(S, k)) \in Nat /\ Cardinality(Before(S, k)) < c
    BY RanksAscend
  <2> QED
    BY <2>1, <1>1
<1>4. \A j, k \in S : Cardinality(Before(S, j)) = Cardinality(Before(S, k)) => j = k
  <2> TAKE j, k \in S
  <2>1. j < k <=> Cardinality(Before(S, j)) < Cardinality(Before(S, k))
    BY RanksAscend
  <2>2. k < j <=> Cardinality(Before(S, k)) < Cardinality(Before(S, j))
    BY RanksAscend
  <2>3. Cardinality(Before(S, j)) \in Nat /\ Cardinality(Before(S, k)) \in Nat
    BY RanksAscend
  <2>4. j < k \/ j = k \/ k < j
    BY <1>1
  <2> QED
    BY <2>1, <2>2, <2>3, <2>4
<1>5. rank \in Injection(S, T)
  BY <1>3, <1>4 DEF Injection, IsInjective
<1>6. rank \in Surjection(S, T)
  <2> HIDE DEF rank, T, c
  <2> QED
    BY <1>2, <1>5, FS_Injection DEF c
<1>7. n \in T
  BY <1>1
<1>8. \E k \in S : rank[k] = n
  <2> HIDE DEF rank, T
  <2> QED
    BY <1>6, <1>7 DEF Surjection
<1> QED
  BY <1>8

(* InOrder lists the keys of a set, ascending. *)
LEMMA InOrderIs ==
  ASSUME NEW S, S \subseteq Keys
  PROVE  /\ InOrder(S) \in Seq(Keys)
         /\ \A i \in DOMAIN InOrder(S) : InOrder(S)[i] \in S
         /\ \A i, j \in DOMAIN InOrder(S) : i < j => InOrder(S)[i] < InOrder(S)[j]
<1> DEFINE c == Cardinality(S)
<1>1. PICK s : s = InOrder(S)
  OBVIOUS
<1>2. c \in Nat
  BY KeySetsAreFinite
<1>3. s = [i \in 1..c |-> CHOOSE k \in S : Cardinality(Before(S, k)) = i - 1]
  BY <1>1 DEF InOrder, Before
<1>4. ASSUME NEW i \in 1..c  PROVE s[i] \in S /\ Cardinality(Before(S, s[i])) = i - 1
  <2>1. i - 1 \in Nat /\ i - 1 < c
    BY <1>2
  <2>2. \E k \in S : Cardinality(Before(S, k)) = i - 1
    BY <2>1, Ranks
  <2>3. s[i] = CHOOSE k \in S : Cardinality(Before(S, k)) = i - 1
    BY <1>3
  <2> QED
    BY <2>2, <2>3
<1>5. DOMAIN s = 1..c
  BY <1>3
<1> HIDE DEF c
<1>6. s \in Seq(Keys)
  <2>1. s \in [1..c -> Keys]
    <3>1. s = [i \in 1..c |-> s[i]] /\ \A i \in 1..c : s[i] \in Keys
      BY <1>3, <1>4
    <3> QED
      BY <3>1
  <2> QED
    BY <2>1, <1>2
<1>7. ASSUME NEW i \in 1..c, NEW j \in 1..c, i < j  PROVE s[i] < s[j]
  <2>1. Cardinality(Before(S, s[i])) < Cardinality(Before(S, s[j]))
    BY <1>4, <1>7
  <2> QED
    BY <2>1, <1>4, RanksAscend
<1> QED
  BY <1>1, <1>4, <1>5, <1>6, <1>7

-------------------------------------------------------------------------
(* What splitting a full page makes. *)

LowerPart(f, k) == [lo |-> f.lo, hi |-> Dec(k)]
UpperPart(f, k) == [lo |-> k, hi |-> f.hi]

(* The children of half are children of page, with the same fences. *)
SharesChildren(half, g, page, f) ==
  \A i \in DOMAIN half.kids : \E j \in DOMAIN page.kids :
    half.kids[i] = page.kids[j] /\ ChildFence(half, i, g) = ChildFence(page, j, f)

(* A half of a page that has fence f, which may hold what g says: it is    *)
(* neither full nor thin.                                                  *)
HalfOf(half, g, page, f, n) ==
  /\ Fitting(half, n, g)
  /\ IsLeafPage(half) <=> IsLeafPage(page)
  /\ SharesChildren(half, g, page, f)
  /\ Room(half) /\ ~HasOverflow(half) /\ ~HasUnderflow(half)

IsCut(h, page, f, n) ==
  /\ h.sep \in Keys /\ f.lo < h.sep /\ h.sep <= f.hi /\ h.sep < MaxKey
  /\ HalfOf(h.left, LowerPart(f, h.sep), page, f, n)
  /\ HalfOf(h.right, UpperPart(f, h.sep), page, f, n)

(* The parts of a fence. *)
LEMMA PartsOfFence ==
  ASSUME NEW f \in Fences, NEW k \in Keys, f.lo < k, k <= f.hi
  PROVE  /\ LowerPart(f, k) \in Fences /\ LowerPart(f, k).lo <= LowerPart(f, k).hi
         /\ UpperPart(f, k) \in Fences /\ UpperPart(f, k).lo <= UpperPart(f, k).hi
         /\ LowerPart(f, k).hi = k - 1
         /\ \A x \in Keys : Within(x, LowerPart(f, k)) <=> Within(x, f) /\ x < k
         /\ \A x \in Keys : Within(x, UpperPart(f, k)) <=> Within(x, f) /\ ~ (x < k)
<1>1. f.lo \in Keys /\ f.hi \in Keys /\ f.lo \in Nat /\ f.hi \in Nat /\ k \in Nat
  BY Numbers DEF Fences
<1>2. k # MinKey
  BY <1>1, Numbers
<1>3. Dec(k) = k - 1 /\ Dec(k) \in Keys
  BY <1>2, NextKeys
<1>4. LowerPart(f, k) \in Fences /\ UpperPart(f, k) \in Fences
  BY <1>1, <1>3 DEF LowerPart, UpperPart, Fences
<1>5. /\ LowerPart(f, k).lo = f.lo /\ LowerPart(f, k).hi = k - 1
      /\ UpperPart(f, k).lo = k /\ UpperPart(f, k).hi = f.hi
  BY <1>3 DEF LowerPart, UpperPart
<1>6. LowerPart(f, k).lo <= LowerPart(f, k).hi /\ UpperPart(f, k).lo <= UpperPart(f, k).hi
  BY <1>1, <1>5
<1>7. ASSUME NEW x \in Keys
      PROVE  /\ Within(x, LowerPart(f, k)) <=> Within(x, f) /\ x < k
             /\ Within(x, UpperPart(f, k)) <=> Within(x, f) /\ ~ (x < k)
  <2>1. x \in Nat
    BY Numbers
  <2>2. Within(x, LowerPart(f, k)) <=> f.lo <= x /\ x <= k - 1
    BY <1>5 DEF Within
  <2>3. Within(x, UpperPart(f, k)) <=> k <= x /\ x <= f.hi
    BY <1>5 DEF Within
  <2>4. Within(x, f) <=> f.lo <= x /\ x <= f.hi
    BY DEF Within
  <2>5. f.lo <= x /\ x <= k - 1 <=> f.lo <= x /\ x <= f.hi /\ x < k
    BY <2>1, <1>1
  <2>6. k <= x /\ x <= f.hi <=> f.lo <= x /\ x <= f.hi /\ ~ (x < k)
    BY <2>1, <1>1
  <2> QED
    BY <2>2, <2>3, <2>4, <2>5, <2>6
<1> QED
  BY <1>4, <1>5, <1>6, <1>7

(* A full leaf is cut at its middle record, which goes to the right. *)
LEMMA LeafIsCut ==
  ASSUME NEW page, NEW n, NEW f, Fitting(page, n, f), IsLeafPage(page),
         HasOverflow(page), Room(page)
  PROVE  IsCut(HalvesOfLeaf(page), page, f, n)
<1> DEFINE S == page.recs
           c == Cardinality(S)
<1>1. /\ S \subseteq Keys /\ IsFiniteSet(S) /\ c \in Nat
      /\ \A k \in S : Within(k, f) /\ k < MaxKey
      /\ f \in Fences /\ f.lo \in Nat /\ f.hi \in Nat
  <2>1. S \subseteq Keys
    BY DEF Fitting, IsPage, AnyPage
  <2>2. IsFiniteSet(S) /\ c \in Nat
    BY <2>1, KeySetsAreFinite
  <2> QED
    BY <2>1, <2>2, Separators DEF Fitting, KeysFit
<1>2. c = NumRecords /\ NumRecords \in Nat /\ NumRecords >= 2
  BY <1>1, NumRecordsAssumption DEF HasOverflow, PageLen, Room
<1> HIDE DEF c
<1>3. /\ c \div 2 \in Nat /\ c \div 2 < c /\ c \div 2 >= 1 /\ c - c \div 2 >= c \div 2
      /\ c - c \div 2 \in Nat /\ c - c \div 2 < c
  BY <1>1, <1>2
<1>4. PICK k : k = MiddleKey(S)
  OBVIOUS
<1>5. k \in S /\ Cardinality(Before(S, k)) = c \div 2
  <2>1. \E j \in S : Cardinality(Before(S, j)) = c \div 2
    BY <1>1, <1>3, Ranks DEF c
  <2>2. k = CHOOSE j \in S : Cardinality(Before(S, j)) = c \div 2
    BY <1>4 DEF MiddleKey, Before, c
  <2> QED
    BY <2>1, <2>2
<1> DEFINE L == {j \in S : j < k}
           R == {j \in S : j >= k}
           h == HalvesOfLeaf(page)
<1>6. h.left = LeafPage(L) /\ h.right = LeafPage(R) /\ h.sep = k
  BY <1>4 DEF HalvesOfLeaf
<1> HIDE DEF S
<1>7. Cardinality(L) = c \div 2
  BY <1>5 DEF Before
<1>8. Cardinality(R) = c - c \div 2
  <2>1. R = S \ L
    <3>1. \A j \in S : j >= k <=> ~ (j < k)
      BY <1>1, <1>5, Numbers
    <3> QED
      BY <3>1
  <2>2. Cardinality(S \ L) = Cardinality(S) - Cardinality(S \cap L)
    BY <1>1, FS_Difference
  <2>3. S \cap L = L
    OBVIOUS
  <2> QED
    BY <2>1, <2>2, <2>3, <1>7 DEF c
<1>9. k \in Keys /\ k \in Nat /\ k <= f.hi /\ k < MaxKey
  BY <1>1, <1>5, Numbers DEF Within
<1>10. f.lo < k
  <2>1. L # {}
    <3>1. Cardinality({}) = 0
      BY FS_EmptySet
    <3> HIDE DEF L
    <3>2. Cardinality(L) # 0
      BY <1>7, <1>3
    <3> QED
      BY <3>1, <3>2
  <2>2. PICK j \in L : TRUE
    BY <2>1
  <2>3. f.lo <= j /\ j < k /\ j \in Nat
    BY <2>2, <1>1, Numbers DEF Within
  <2> QED
    BY <2>3, <1>1, <1>9
<1>11. ASSUME NEW T, T \subseteq S, NEW g \in Fences, g.lo <= g.hi, \A j \in T : Within(j, g),
              Cardinality(T) \in {c \div 2, c - c \div 2}
       PROVE  HalfOf(LeafPage(T), g, page, f, n)
  <2>1. /\ IsLeafPage(LeafPage(T)) /\ LeafPage(T).recs = T
        /\ LeafPage(T).seps = <<>> /\ LeafPage(T).kids = <<>>
        /\ LeafPage(T) = [seps |-> <<>>, kids |-> <<>>, recs |-> T]
    BY DEF LeafPage, IsLeafPage
  <2>2. IsPage(LeafPage(T), n)
    <3>1. <<>> \in Seq(Keys) /\ <<>> \in Seq(1..n) /\ T \in SUBSET Keys
      BY <1>1, <1>11
    <3> QED
      BY <3>1, <2>1 DEF IsPage, AnyPage
  <2>3. KeysFit(LeafPage(T), g)
    BY <2>1, <1>1, <1>11 DEF KeysFit
  <2>4. Cardinality(T) \in Nat /\ Cardinality(T) < NumRecords /\ Cardinality(T) >= NumRecords \div 2
    BY <1>2, <1>3, <1>11
  <2>5. PageLen(LeafPage(T)) = Cardinality(T)
    BY <2>1 DEF PageLen
  <2>6. ~HasOverflow(LeafPage(T)) /\ ~HasUnderflow(LeafPage(T)) /\ Room(LeafPage(T))
    BY <2>1, <2>4, <2>5, <1>2 DEF HasOverflow, HasUnderflow, Room
  <2> QED
    BY <2>1, <2>2, <2>3, <2>6, <1>11 DEF SharesChildren, HalfOf, Fitting
<1> HIDE DEF h
<1>12. HalfOf(h.left, LowerPart(f, h.sep), page, f, n)
  <2>1. L \subseteq S /\ \A j \in L : Within(j, LowerPart(f, k))
    BY <1>1, <1>9, <1>10, PartsOfFence
  <2>2. LowerPart(f, k) \in Fences /\ LowerPart(f, k).lo <= LowerPart(f, k).hi
    BY <1>1, <1>9, <1>10, PartsOfFence
  <2> HIDE DEF L
  <2> QED
    BY <2>1, <2>2, <1>6, <1>7, <1>11
<1>13. HalfOf(h.right, UpperPart(f, h.sep), page, f, n)
  <2>1. R \subseteq S /\ \A j \in R : Within(j, UpperPart(f, k))
    <3>1. \A j \in R : j \in Keys /\ Within(j, f) /\ ~ (j < k)
      BY <1>1, <1>9, Numbers
    <3> QED
      BY <3>1, <1>1, <1>9, <1>10, PartsOfFence
  <2>2. UpperPart(f, k) \in Fences /\ UpperPart(f, k).lo <= UpperPart(f, k).hi
    BY <1>1, <1>9, <1>10, PartsOfFence
  <2> HIDE DEF R
  <2> QED
    BY <2>1, <2>2, <1>6, <1>8, <1>11
<1> QED
  BY <1>6, <1>9, <1>10, <1>12, <1>13 DEF IsCut, h

(* A fence is given by its ends. *)
LEMMA SameFence ==
  ASSUME NEW f \in Fences, NEW g \in Fences, f.lo = g.lo, f.hi = g.hi
  PROVE  f = g
BY DEF Fences

(* The children of an index page. *)
LEMMA KidsOf ==
  ASSUME NEW page, NEW n, IsPage(page, n), ~IsLeafPage(page)
  PROVE  /\ page.kids \in Seq(1..n) /\ Len(page.kids) = Len(page.seps) + 1
         /\ DOMAIN page.kids = 1..Len(page.seps) + 1 /\ Len(page.seps) \in Nat /\ Len(page.seps) >= 1
         /\ \A i \in 1..Len(page.seps) + 1 : page.kids[i] \in 1..n
         /\ page.seps \in Seq(Keys) /\ page.recs = {}
         /\ page = IndexPage(page.seps, page.kids)
<1>1. /\ page.kids \in Seq(1..n) /\ Len(page.kids) = Len(page.seps) + 1
      /\ page.seps \in Seq(Keys) /\ page.recs = {} /\ page.seps # <<>>
      /\ page = [seps |-> page.seps, kids |-> page.kids, recs |-> page.recs]
  BY DEF IsPage, AnyPage
<1>2. page = IndexPage(page.seps, page.kids)
  BY <1>1 DEF IndexPage
<1>3. Len(page.seps) \in Nat /\ Len(page.seps) # 0
  BY <1>1, EmptySeq
<1>4. DOMAIN page.kids = 1..Len(page.kids) /\ \A i \in 1..Len(page.kids) : page.kids[i] \in 1..n
  <2>1. page.kids \in Seq(1..n)
    BY <1>1
  <2> QED
    BY <2>1, LenProperties, ElementOfSeq
<1> QED
  BY <1>1, <1>2, <1>3, <1>4

(* A stretch of an index page, with the fence that the separators beside   *)
(* it give.                                                                *)
IsStretch(half, g, page, f, a, b) ==
  /\ a \in 1..Len(page.seps) /\ b \in a..Len(page.seps)
  /\ g \in Fences /\ g.lo <= g.hi
  /\ g.lo = (IF a = 1 THEN f.lo ELSE page.seps[a - 1])
  /\ g.hi = (IF b = Len(page.seps) THEN f.hi ELSE page.seps[b + 1] - 1)
  /\ half = IndexPage(SubSeq(page.seps, a, b), SubSeq(page.kids, a, b + 1))

(* Its children keep their fences. *)
LEMMA StretchOfIndex ==
  ASSUME NEW page, NEW n, NEW f, Fitting(page, n, f), ~IsLeafPage(page),
         NEW half, NEW g, NEW a, NEW b, IsStretch(half, g, page, f, a, b)
  PROVE  /\ Fitting(half, n, g) /\ ~IsLeafPage(half)
         /\ SharesChildren(half, g, page, f)
         /\ Len(half.seps) = b - a + 1
<1> DEFINE l == Len(page.seps)
           s == page.seps
           m == b - a + 1
<1>0. /\ a \in 1..l /\ b \in a..l /\ g \in Fences /\ g.lo <= g.hi
      /\ g.lo = (IF a = 1 THEN f.lo ELSE s[a - 1])
      /\ g.hi = (IF b = l THEN f.hi ELSE s[b + 1] - 1)
      /\ half = IndexPage(SubSeq(s, a, b), SubSeq(page.kids, a, b + 1))
  BY DEF IsStretch
<1>1. /\ l \in Nat /\ s \in Seq(Keys) /\ f.lo \in Nat /\ f.hi \in Nat /\ f \in Fences
      /\ \A i \in 1..l : s[i] \in Nat /\ f.lo < s[i] /\ s[i] <= f.hi /\ s[i] < MaxKey
      /\ \A i, j \in 1..l : i < j => s[i] < s[j]
  BY Separators DEF Fitting
<1>2. /\ page.kids \in Seq(1..n) /\ Len(page.kids) = l + 1 /\ DOMAIN page.kids = 1..l + 1
  BY KidsOf DEF Fitting
<1>3. a \in 1..l /\ b \in a..l /\ a \in Nat /\ b \in Nat /\ m \in Nat
  BY <1>0, <1>1
<1>4. /\ half.seps = SubSeq(s, a, b) /\ half.kids = SubSeq(page.kids, a, b + 1) /\ half.recs = {}
      /\ half = [seps |-> half.seps, kids |-> half.kids, recs |-> half.recs]
  BY <1>0 DEF IndexPage
<1> HIDE DEF s
<1> HIDE DEF l
<1>5. /\ half.seps \in Seq(Keys) /\ Len(half.seps) = m
      /\ \A i \in 1..m : half.seps[i] = s[a + i - 1]
  <2>1. a \in 1..Len(s) + 1 /\ b \in (a - 1)..Len(s)
    BY <1>1, <1>3 DEF l, s
  <2>2. /\ SubSeq(s, a, b) \in Seq(Keys) /\ Len(SubSeq(s, a, b)) = b - a + 1
        /\ \A i \in 1..(b - a + 1) : SubSeq(s, a, b)[i] = s[a + i - 1]
    BY <2>1, <1>1, Part
  <2> QED
    BY <2>2, <1>4
<1>6. /\ half.kids \in Seq(1..n) /\ Len(half.kids) = m + 1
      /\ \A i \in 1..m + 1 : half.kids[i] = page.kids[a + i - 1]
  <2>1. a \in 1..Len(page.kids) + 1 /\ b + 1 \in (a - 1)..Len(page.kids)
    BY <1>1, <1>2, <1>3
  <2>2. (b + 1) - a + 1 = m + 1
    BY <1>3
  <2>3. /\ SubSeq(page.kids, a, b + 1) \in Seq(1..n)
        /\ Len(SubSeq(page.kids, a, b + 1)) = (b + 1) - a + 1
        /\ \A i \in 1..((b + 1) - a + 1) : SubSeq(page.kids, a, b + 1)[i] = page.kids[a + i - 1]
    BY <1>2, <2>1, Part
  <2> QED
    BY <2>2, <2>3, <1>4
<1>7. DOMAIN half.seps = 1..m /\ DOMAIN half.kids = 1..m + 1
  BY <1>5, <1>6
<1>8. m >= 1 /\ \A i \in 1..m : a + i - 1 \in 1..l
  BY <1>1, <1>3
<1> HIDE DEF m
<1>9. ~IsLeafPage(half) /\ half.seps # <<>>
  BY <1>5, <1>6, <1>8, <1>3, EmptySeq DEF IsLeafPage
<1>10. IsPage(half, n)
  BY <1>4, <1>5, <1>6, <1>9, <1>3 DEF IsPage, AnyPage
<1>11. g.lo \in Nat /\ g.hi \in Nat
  BY <1>0, Numbers DEF Fences
<1>12. ASSUME NEW i \in 1..m
       PROVE  /\ half.seps[i] \in Nat /\ half.seps[i] < MaxKey
              /\ g.lo < half.seps[i] /\ half.seps[i] <= g.hi
  <2>1. PICK x : x = a + i - 1
    OBVIOUS
  <2>2. x \in 1..l /\ half.seps[i] = s[x] /\ a <= x /\ x <= b
    <3>1. x \in 1..l /\ half.seps[i] = s[x]
      BY <2>1, <1>5, <1>8
    <3>2. i \in 1..(b - a + 1)
      BY DEF m
    <3> QED
      BY <3>1, <3>2, <2>1, <1>3
  <2>3. s[x] \in Nat /\ s[x] < MaxKey /\ f.lo < s[x] /\ s[x] <= f.hi
    BY <2>2, <1>1
  <2>4. g.lo < s[x]
    <3>1. CASE a = 1
      BY <3>1, <2>3, <1>0
    <3>2. CASE a # 1
      <4>1. a - 1 \in 1..l /\ a - 1 < x /\ g.lo = s[a - 1]
        BY <3>2, <2>2, <1>0, <1>1, <1>3
      <4> QED
        BY <4>1, <2>2, <1>1
    <3> QED
      BY <3>1, <3>2
  <2>5. s[x] <= g.hi
    <3>1. CASE b = l
      BY <3>1, <2>3, <1>0
    <3>2. CASE b # l
      <4>1. b + 1 \in 1..l /\ x < b + 1
        BY <3>2, <2>2, <1>1, <1>3
      <4>2. s[x] < s[b + 1] /\ s[b + 1] \in Nat
        BY <4>1, <2>2, <1>1
      <4>3. g.hi = s[b + 1] - 1
        BY <3>2, <1>0
      <4> QED
        BY <4>2, <4>3, <2>3
    <3> QED
      BY <3>1, <3>2
  <2> QED
    BY <2>2, <2>3, <2>4, <2>5
<1>13. KeysFit(half, g)
  <2>1. ASSUME NEW i \in 1..m, NEW j \in 1..m, i < j  PROVE half.seps[i] < half.seps[j]
    <3>1. a + i - 1 \in 1..l /\ a + j - 1 \in 1..l /\ a + i - 1 < a + j - 1
      <4>1. i \in Nat /\ j \in Nat /\ a \in Nat
        BY <1>3
      <4>2. a + i - 1 < a + j - 1
        BY <4>1, <2>1
      <4> QED
        BY <4>2, <1>8
    <3> QED
      BY <3>1, <1>1, <1>5
  <2>2. \A k \in half.recs : FALSE
    BY <1>4
  <2> QED
    <3>1. \A i \in DOMAIN half.seps : g.lo < half.seps[i] /\ half.seps[i] <= g.hi /\ half.seps[i] < MaxKey
                                     /\ half.seps[i] \in Nat
      BY <1>7, <1>12
    <3>2. \A i \in DOMAIN half.seps : Within(half.seps[i], g)
      BY <3>1, <1>11 DEF Within
    <3>3. \A i, j \in DOMAIN half.seps : i < j => half.seps[i] < half.seps[j]
      BY <2>1, <1>7
    <3> QED
      BY <3>1, <3>2, <3>3, <2>2 DEF KeysFit
<1>14. Fitting(half, n, g)
  BY <1>0, <1>10, <1>13 DEF Fitting
<1>15. ASSUME NEW i \in 1..m + 1
       PROVE  /\ a + i - 1 \in 1..l + 1 /\ half.kids[i] = page.kids[a + i - 1]
              /\ ChildFence(half, i, g) = ChildFence(page, a + i - 1, f)
  <2>1. PICK x : x = a + i - 1
    OBVIOUS
  <2>2. x \in 1..l + 1 /\ m + 1 + a - 1 = b + 1 /\ i \in Nat /\ m \in Nat
    BY <2>1, <1>1, <1>3 DEF m
  <2>3. PICK y : y = ChildFence(half, i, g)
    OBVIOUS
  <2>4. PICK z : z = ChildFence(page, x, f)
    OBVIOUS
  <2>5. y \in Fences /\ y.lo = (IF i = 1 THEN g.lo ELSE half.seps[i - 1])
        /\ y.hi = IF i = m + 1 THEN g.hi ELSE half.seps[i] - 1
    BY <2>3, <1>5, <1>14, ChildFenceIs
  <2>6. z \in Fences /\ z.lo = (IF x = 1 THEN f.lo ELSE s[x - 1])
        /\ z.hi = IF x = l + 1 THEN f.hi ELSE s[x] - 1
    BY <2>4, <2>2, ChildFenceIs DEF s, l
  <2>7. y.lo = z.lo
    <3>1. CASE i = 1
      <4>1. x = a
        BY <3>1, <2>1, <1>3
      <4> QED
        BY <4>1, <3>1, <2>5, <2>6, <1>0
    <3>2. CASE i # 1
      <4>1. i - 1 \in 1..m /\ a + (i - 1) - 1 = x - 1 /\ x # 1
        BY <3>2, <2>1, <2>2, <1>3
      <4> QED
        BY <4>1, <3>2, <2>5, <2>6, <1>5
    <3> QED
      BY <3>1, <3>2
  <2>8. y.hi = z.hi
    <3>1. CASE i = m + 1
      <4>1. x = b + 1 /\ (x = l + 1 <=> b = l)
        BY <3>1, <2>1, <2>2, <1>1, <1>3
      <4> QED
        BY <4>1, <3>1, <2>5, <2>6, <1>0
    <3>2. CASE i # m + 1
      <4>1. i \in 1..m /\ x \in 1..l /\ x # l + 1
        <5>1. i \in 1..m
          BY <3>2, <2>2
        <5>2. x \in 1..l
          BY <5>1, <2>1, <1>8
        <5> QED
          BY <5>1, <5>2, <1>1
      <4> QED
        BY <4>1, <3>2, <2>1, <2>5, <2>6, <1>5
    <3> QED
      BY <3>1, <3>2
  <2>9. y = z
    BY <2>5, <2>6, <2>7, <2>8, SameFence
  <2> QED
    BY <2>1, <2>2, <2>3, <2>4, <2>9, <1>6
<1>16. SharesChildren(half, g, page, f)
  BY <1>2, <1>7, <1>15 DEF SharesChildren
<1> QED
  BY <1>5, <1>9, <1>14, <1>16 DEF m

(* A full index page is cut at a separator, which goes to its parent. *)
LEMMA IndexIsCut ==
  ASSUME NEW page, NEW n, NEW f, Fitting(page, n, f), ~IsLeafPage(page),
         HasOverflow(page), Room(page)
  PROVE  IsCut(HalvesOfIndex(page), page, f, n)
<1> DEFINE s == page.seps
           l == Len(s)
           mid == l \div 2
           h == HalvesOfIndex(page)
           k == s[mid + 1]
<1>1. /\ l \in Nat /\ s \in Seq(Keys) /\ f.lo \in Nat /\ f.hi \in Nat /\ f \in Fences
      /\ \A i \in 1..l : s[i] \in Nat /\ f.lo < s[i] /\ s[i] <= f.hi /\ s[i] < MaxKey
  BY Separators DEF Fitting
<1>2. FanOut \in Nat /\ FanOut >= 5 /\ l >= FanOut - 2 /\ l <= FanOut - 1
  BY FanOutAssumption DEF HasOverflow, PageLen, Room
<1>3. h = [left  |-> IndexPage(SubSeq(s, 1, mid), SubSeq(page.kids, 1, mid + 1)),
           right |-> IndexPage(SubSeq(s, mid + 2, l), SubSeq(page.kids, mid + 2, l + 1)),
           sep   |-> k]
  BY DEF HalvesOfIndex
<1> HIDE DEF s, h
<1> HIDE DEF l
<1>4. /\ mid \in Nat /\ mid >= 1 /\ mid + 2 <= l /\ mid + 1 \in 1..l
      /\ mid < FanOut - 2 /\ mid >= (FanOut - 1) \div 2 - 1 /\ mid <= FanOut - 1
      /\ l - (mid + 2) + 1 \in Nat /\ l - (mid + 2) + 1 < FanOut - 2
      /\ l - (mid + 2) + 1 >= (FanOut - 1) \div 2 - 1 /\ l - (mid + 2) + 1 <= FanOut - 1
  BY <1>1, <1>2
<1> HIDE DEF mid
<1>5. k \in Nat /\ f.lo < k /\ k <= f.hi /\ k < MaxKey
  BY <1>1, <1>4
<1>6. k \in Keys
  BY <1>1, <1>4, ElementOfSeq DEF l
<1> HIDE DEF k
<1>7. /\ LowerPart(f, k) \in Fences /\ LowerPart(f, k).lo <= LowerPart(f, k).hi
      /\ UpperPart(f, k) \in Fences /\ UpperPart(f, k).lo <= UpperPart(f, k).hi
      /\ LowerPart(f, k).lo = f.lo /\ LowerPart(f, k).hi = k - 1
      /\ UpperPart(f, k).lo = k /\ UpperPart(f, k).hi = f.hi
  BY <1>1, <1>5, <1>6, PartsOfFence DEF LowerPart, UpperPart
<1>8. ASSUME NEW half, NEW g, Fitting(half, n, g), ~IsLeafPage(half),
             Len(half.seps) \in {mid, l - (mid + 2) + 1},
             SharesChildren(half, g, page, f)
      PROVE  HalfOf(half, g, page, f, n)
  <2>1. PageLen(half) = Len(half.seps)
    BY <1>8 DEF PageLen
  <2>2. /\ Len(half.seps) \in Nat /\ Len(half.seps) < FanOut - 2
        /\ Len(half.seps) >= (FanOut - 1) \div 2 - 1 /\ Len(half.seps) <= FanOut - 1
    BY <1>4, <1>8
  <2>3. ~HasOverflow(half) /\ ~HasUnderflow(half) /\ Room(half)
    BY <2>1, <2>2, <1>2, <1>8 DEF HasOverflow, HasUnderflow, Room
  <2> QED
    BY <2>3, <1>8 DEF HalfOf
<1>9. HalfOf(h.left, LowerPart(f, k), page, f, n)
  <2>1. PICK half : half = IndexPage(SubSeq(s, 1, mid), SubSeq(page.kids, 1, mid + 1))
    OBVIOUS
  <2>2. 1 \in 1..l /\ mid \in 1..l /\ mid # l
    BY <1>1, <1>4
  <2>3. PICK g : g = LowerPart(f, k)
    OBVIOUS
  <2>4. /\ Fitting(half, n, g) /\ ~IsLeafPage(half)
        /\ SharesChildren(half, g, page, f)
        /\ Len(half.seps) = mid - 1 + 1
    <3>1. g \in Fences /\ g.lo <= g.hi /\ g.lo = f.lo /\ g.hi = s[mid + 1] - 1
      BY <2>3, <1>7 DEF k
    <3>2. PICK a : a = 1
      OBVIOUS
    <3>3. /\ a \in 1..Len(page.seps) /\ mid \in a..Len(page.seps)
          /\ g.lo = (IF a = 1 THEN f.lo ELSE page.seps[a - 1])
          /\ g.hi = (IF mid = Len(page.seps) THEN f.hi ELSE page.seps[mid + 1] - 1)
      BY <2>2, <3>1, <3>2 DEF s, l
    <3>4. half = IndexPage(SubSeq(page.seps, a, mid), SubSeq(page.kids, a, mid + 1))
      BY <2>1, <3>2 DEF s
    <3>5. IsStretch(half, g, page, f, a, mid)
      BY <3>1, <3>3, <3>4 DEF IsStretch
    <3>6. /\ Fitting(half, n, g) /\ ~IsLeafPage(half)
          /\ SharesChildren(half, g, page, f)
          /\ Len(half.seps) = mid - a + 1
      <4> HIDE DEF h
      <4>1. Fitting(half, n, g)
        BY <3>5, StretchOfIndex, Zenon
      <4>2. ~IsLeafPage(half)
        BY <3>5, StretchOfIndex, Zenon
      <4>3. SharesChildren(half, g, page, f)
        BY <3>5, StretchOfIndex, Zenon
      <4> QED
        BY <3>5, <4>1, <4>2, <4>3, StretchOfIndex
    <3> QED
      BY <3>2, <3>6
  <2>5. mid - 1 + 1 = mid
    BY <1>4
  <2> QED
    BY <2>1, <2>3, <2>4, <2>5, <1>3, <1>8
<1>10. HalfOf(h.right, UpperPart(f, k), page, f, n)
  <2>1. PICK half : half = IndexPage(SubSeq(s, mid + 2, l), SubSeq(page.kids, mid + 2, l + 1))
    OBVIOUS
  <2>2. mid + 2 \in 1..l /\ l \in mid + 2..l /\ mid + 2 # 1 /\ (mid + 2) - 1 = mid + 1
    BY <1>1, <1>4
  <2>3. PICK g : g = UpperPart(f, k)
    OBVIOUS
  <2>4. /\ Fitting(half, n, g) /\ ~IsLeafPage(half)
        /\ SharesChildren(half, g, page, f)
        /\ Len(half.seps) = l - (mid + 2) + 1
    <3>1. g \in Fences /\ g.lo <= g.hi /\ g.lo = s[mid + 1] /\ g.hi = f.hi
      BY <2>3, <1>7 DEF k
    <3>2. PICK a : a = mid + 2
      OBVIOUS
    <3>3. /\ a \in 1..Len(page.seps) /\ l \in a..Len(page.seps)
          /\ g.lo = (IF a = 1 THEN f.lo ELSE page.seps[a - 1])
          /\ g.hi = (IF l = Len(page.seps) THEN f.hi ELSE page.seps[l + 1] - 1)
      BY <2>2, <3>1, <3>2 DEF s, l
    <3>4. half = IndexPage(SubSeq(page.seps, a, l), SubSeq(page.kids, a, l + 1))
      BY <2>1, <3>2 DEF s
    <3>5. IsStretch(half, g, page, f, a, l)
      BY <3>1, <3>3, <3>4 DEF IsStretch
    <3>6. /\ Fitting(half, n, g) /\ ~IsLeafPage(half)
          /\ SharesChildren(half, g, page, f)
          /\ Len(half.seps) = l - a + 1
      <4> HIDE DEF h
      <4>1. Fitting(half, n, g)
        BY <3>5, StretchOfIndex, Zenon
      <4>2. ~IsLeafPage(half)
        BY <3>5, StretchOfIndex, Zenon
      <4>3. SharesChildren(half, g, page, f)
        BY <3>5, StretchOfIndex, Zenon
      <4> QED
        BY <3>5, <4>1, <4>2, <4>3, StretchOfIndex
    <3> QED
      BY <3>2, <3>6
  <2> QED
    BY <2>1, <2>3, <2>4, <1>3, <1>8
<1>11. h.sep = k
  BY <1>3
<1> QED
  BY <1>5, <1>6, <1>9, <1>10, <1>11 DEF IsCut, h

(* Any full page. *)
LEMMA PageIsCut ==
  ASSUME NEW page, NEW n, NEW f, Fitting(page, n, f), HasOverflow(page), Room(page)
  PROVE  IsCut(Halves(page), page, f, n)
BY LeafIsCut, IndexIsCut DEF Halves

-------------------------------------------------------------------------
(* Trees. *)

(* What a tree says of one of its pages. *)
LEMMA PageOf ==
  ASSUME NEW ps, NEW r, NEW fence, NEW height, IsTree(ps, r, fence, height), NEW p \in DOMAIN ps
  PROVE  /\ Fitting(ps[p], Len(ps), fence[p]) /\ IsPage(ps[p], Len(ps))
         /\ fence[p] \in Fences /\ fence[p].lo <= fence[p].hi
         /\ fence[p].lo \in Keys /\ fence[p].hi \in Keys
         /\ height[p] \in Nat /\ (IsLeafPage(ps[p]) <=> height[p] = 0)
         /\ p # r => height[p] < height[r]
         /\ OverItsChildren(ps, fence, height, p)
         /\ Within(fence[p].lo, fence[p])
<1>1. /\ Fitting(ps[p], Len(ps), fence[p])
      /\ height[p] \in Nat /\ (IsLeafPage(ps[p]) <=> height[p] = 0)
      /\ p # r => height[p] < height[r]
      /\ OverItsChildren(ps, fence, height, p)
  BY DEF IsTree
<1>2. IsPage(ps[p], Len(ps)) /\ fence[p] \in Fences /\ fence[p].lo <= fence[p].hi
  BY <1>1 DEF Fitting
<1>3. fence[p].lo \in Keys /\ fence[p].hi \in Keys
  BY <1>2 DEF Fences
<1>4. Within(fence[p].lo, fence[p])
  <2>1. fence[p].lo \in Nat
    BY <1>3, Numbers
  <2> QED
    BY <2>1, <1>2 DEF Within
<1> QED
  BY <1>1, <1>2, <1>3, <1>4

(* Page numbers, the root, and pages side by side. *)
LEMMA TreeOf ==
  ASSUME NEW ps, NEW r, NEW fence, NEW height, IsTree(ps, r, fence, height)
  PROVE  /\ ps \in Seq(AnyPage(Len(ps))) /\ Len(ps) \in Nat /\ DOMAIN ps = 1..Len(ps)
         /\ r \in DOMAIN ps /\ fence[r] = [lo |-> MinKey, hi |-> MaxKey]
         /\ \A k \in Keys : Within(k, fence[r])
<1>1. ps \in Seq(AnyPage(Len(ps))) /\ r \in DOMAIN ps /\ fence[r] = [lo |-> MinKey, hi |-> MaxKey]
  BY DEF IsTree
<1>2. Len(ps) \in Nat /\ DOMAIN ps = 1..Len(ps)
  BY <1>1, LenProperties
<1>3. \A k \in Keys : Within(k, fence[r])
  BY <1>1, Numbers DEF Within
<1> QED
  BY <1>1, <1>2, <1>3

(* Pages of the same height that may hold the same key are the same. *)
LEMMA SamePage ==
  ASSUME NEW ps, NEW r, NEW fence, NEW height, IsTree(ps, r, fence, height),
         NEW p \in DOMAIN ps, NEW q \in DOMAIN ps, height[p] = height[q],
         NEW k \in Keys, Within(k, fence[p]), Within(k, fence[q])
  PROVE  p = q
BY DEF IsTree

(* The children of an index page, and that nothing else is above them. *)
LEMMA ChildrenOf ==
  ASSUME NEW ps, NEW r, NEW fence, NEW height, IsTree(ps, r, fence, height),
         NEW p \in DOMAIN ps, NEW i \in DOMAIN ps[p].kids, NEW c, c = ps[p].kids[i]
  PROVE  /\ ~IsLeafPage(ps[p]) /\ i \in 1..Len(ps[p].seps) + 1
         /\ c \in DOMAIN ps /\ height[c] + 1 = height[p] /\ c # p /\ c # r
         /\ fence[c] = ChildFence(ps[p], i, fence[p])
         /\ \A k \in Keys : Within(k, fence[c]) <=> Within(k, fence[p]) /\ i = ChildPos(ps[p], k)
         /\ \A q \in DOMAIN ps : \A j \in DOMAIN ps[q].kids : ps[q].kids[j] = c => q = p /\ j = i
<1>1. ASSUME NEW q \in DOMAIN ps, NEW j \in DOMAIN ps[q].kids, NEW d, d = ps[q].kids[j]
      PROVE  /\ ~IsLeafPage(ps[q]) /\ j \in 1..Len(ps[q].seps) + 1
             /\ d \in DOMAIN ps /\ height[d] + 1 = height[q] /\ d # q /\ d # r
             /\ fence[d] = ChildFence(ps[q], j, fence[q])
             /\ \A k \in Keys : Within(k, fence[d]) <=> Within(k, fence[q]) /\ j = ChildPos(ps[q], k)
  <2>1. /\ Fitting(ps[q], Len(ps), fence[q]) /\ IsPage(ps[q], Len(ps))
        /\ height[q] \in Nat /\ (q # r => height[q] < height[r])
        /\ OverItsChildren(ps, fence, height, q)
    BY PageOf
  <2>2. ~IsLeafPage(ps[q])
    BY <1>1 DEF IsLeafPage
  <2>3. j \in 1..Len(ps[q].seps) + 1 /\ d \in 1..Len(ps)
    BY <1>1, <2>1, <2>2, KidsOf
  <2>4. d \in DOMAIN ps
    BY <2>3, TreeOf
  <2>5. height[d] + 1 = height[q] /\ fence[d] = ChildFence(ps[q], j, fence[q])
    BY <1>1, <2>1 DEF OverItsChildren
  <2>6. \A k \in Keys : Within(k, fence[d]) <=> Within(k, fence[q]) /\ j = ChildPos(ps[q], k)
    BY <2>1, <2>3, <2>5, ChildOwns
  <2>7. height[d] \in Nat /\ height[r] \in Nat
    BY <2>4, PageOf, TreeOf
  <2>8. d # q /\ d # r
    BY <2>1, <2>5, <2>7
  <2> QED
    BY <2>2, <2>3, <2>4, <2>5, <2>6, <2>8
<1>2. ASSUME NEW q \in DOMAIN ps, NEW j \in DOMAIN ps[q].kids, ps[q].kids[j] = c
      PROVE  q = p /\ j = i
  <2>1. PICK k : k = fence[c].lo
    OBVIOUS
  <2>2. c \in DOMAIN ps /\ k \in Keys /\ Within(k, fence[c])
    BY <1>1, <2>1, PageOf
  <2>3. Within(k, fence[p]) /\ i = ChildPos(ps[p], k) /\ height[c] + 1 = height[p]
    BY <1>1, <2>2
  <2>4. Within(k, fence[q]) /\ j = ChildPos(ps[q], k) /\ height[c] + 1 = height[q]
    BY <1>1, <1>2, <2>2
  <2>5. q = p
    BY <2>2, <2>3, <2>4, SamePage
  <2> QED
    BY <2>3, <2>4, <2>5
<1>3. \A q \in DOMAIN ps : \A j \in DOMAIN ps[q].kids : ps[q].kids[j] = c => q = p /\ j = i
  BY <1>2
<1> QED
  BY <1>1, <1>3

(* The search for a key finds a child. *)
LEMMA SearchFinds ==
  ASSUME NEW ps, NEW r, NEW fence, NEW height, IsTree(ps, r, fence, height),
         NEW p \in DOMAIN ps, ~IsLeafPage(ps[p]), NEW k \in Keys
  PROVE  ChildPos(ps[p], k) \in DOMAIN ps[p].kids
BY PageOf, ChildPosIs, KidsOf

(* An index page of a tree of n pages, with a child whose fence is g, and  *)
(* a key that cuts the fence.                                              *)
MayCut(page, n, f, pos, g, k) ==
  /\ n \in Nat /\ Fitting(page, n, f) /\ ~IsLeafPage(page)
  /\ pos \in 1..Len(page.seps) + 1 /\ g = ChildFence(page, pos, f)
  /\ k \in Keys /\ g.lo < k /\ k <= g.hi /\ k < MaxKey

(* Its other children stay what they were. *)
KeepsOthers(new, page, f, pos) ==
  \A i \in 1..Len(page.seps) + 2 \ {pos, pos + 1} : \E j \in 1..Len(page.seps) + 1 \ {pos} :
    new.kids[i] = page.kids[j] /\ ChildFence(new, i, f) = ChildFence(page, j, f)

(* The page that a split child leaves its parent. *)
LEMMA ChildAdded ==
  ASSUME NEW page, NEW n, NEW f, NEW pos, NEW g, NEW k, MayCut(page, n, f, pos, g, k),
         NEW new, new = AddChild(page, pos, k, n + 1)
  PROVE  /\ Fitting(new, n + 1, f) /\ ~IsLeafPage(new) /\ Len(new.seps) = Len(page.seps) + 1
         /\ DOMAIN new.kids = 1..Len(page.seps) + 2
         /\ new.kids[pos] = page.kids[pos] /\ ChildFence(new, pos, f) = LowerPart(g, k)
         /\ new.kids[pos + 1] = n + 1 /\ ChildFence(new, pos + 1, f) = UpperPart(g, k)
         /\ KeepsOthers(new, page, f, pos)
<1>0. /\ n \in Nat /\ Fitting(page, n, f) /\ ~IsLeafPage(page)
      /\ pos \in 1..Len(page.seps) + 1 /\ g = ChildFence(page, pos, f)
      /\ k \in Keys /\ g.lo < k /\ k <= g.hi /\ k < MaxKey
  BY DEF MayCut
<1> DEFINE s == page.seps
           l == Len(s)
<1>1. /\ l \in Nat /\ l >= 1 /\ s \in Seq(Keys) /\ f.lo \in Nat /\ f.hi \in Nat /\ f \in Fences /\ f.lo <= f.hi
      /\ \A i \in 1..l : s[i] \in Nat /\ f.lo < s[i] /\ s[i] <= f.hi /\ s[i] < MaxKey
      /\ \A i, j \in 1..l : i < j => s[i] < s[j]
  BY <1>0, Separators, KidsOf DEF Fitting
<1>2. /\ page.kids \in Seq(1..n) /\ Len(page.kids) = l + 1
  BY <1>0, KidsOf DEF Fitting
<1>3. /\ g \in Fences /\ g.lo = (IF pos = 1 THEN f.lo ELSE s[pos - 1])
      /\ g.hi = (IF pos = l + 1 THEN f.hi ELSE s[pos] - 1)
      /\ f.lo <= g.lo /\ g.hi <= f.hi
  BY <1>0, ChildFenceIs
<1>4. g.lo \in Nat /\ g.hi \in Nat /\ k \in Nat
  BY <1>0, <1>3, Numbers DEF Fences
<1>5. /\ new.seps = InsertAt(s, pos, k) /\ new.kids = InsertAt(page.kids, pos + 1, n + 1)
      /\ new.recs = {} /\ new = [seps |-> new.seps, kids |-> new.kids, recs |-> new.recs]
  BY DEF AddChild, IndexPage
<1>6. pos \in 1..l + 1 /\ pos \in Nat /\ n \in Nat
  BY <1>0, <1>1
<1> HIDE DEF s
<1> HIDE DEF l
<1>7. /\ new.seps \in Seq(Keys) /\ Len(new.seps) = l + 1
      /\ \A j \in 1..l + 1 : new.seps[j] = IF j < pos THEN s[j] ELSE IF j = pos THEN k ELSE s[j - 1]
  <2>1. pos \in 1..Len(s) + 1
    BY <1>6 DEF l, s
  <2>2. /\ InsertAt(s, pos, k) \in Seq(Keys) /\ Len(InsertAt(s, pos, k)) = Len(s) + 1
        /\ \A j \in 1..Len(s) + 1 :
             InsertAt(s, pos, k)[j] = IF j < pos THEN s[j] ELSE IF j = pos THEN k ELSE s[j - 1]
    BY <2>1, <1>0, <1>1, Inserted
  <2> QED
    BY <2>2, <1>5 DEF l
<1>8. /\ new.kids \in Seq(1..n + 1) /\ Len(new.kids) = l + 2
      /\ \A j \in 1..l + 2 : new.kids[j] = IF j < pos + 1 THEN page.kids[j]
                                           ELSE IF j = pos + 1 THEN n + 1 ELSE page.kids[j - 1]
  <2>1. PICK x : x = page.kids
    OBVIOUS
  <2>2. x \in Seq(1..n + 1) /\ Len(x) = l + 1
    <3>1. 1..n \subseteq 1..n + 1
      BY <1>6
    <3> QED
      BY <3>1, <2>1, <1>2, SeqMonotonic
  <2>3. pos + 1 \in 1..Len(x) + 1 /\ n + 1 \in 1..n + 1
    BY <2>2, <1>0, <1>1, <1>6
  <2>4. PICK y : y = pos + 1
    OBVIOUS
  <2>5. /\ InsertAt(x, y, n + 1) \in Seq(1..n + 1) /\ Len(InsertAt(x, y, n + 1)) = Len(x) + 1
        /\ \A j \in 1..Len(x) + 1 :
             InsertAt(x, y, n + 1)[j] = IF j < y THEN x[j] ELSE IF j = y THEN n + 1 ELSE x[j - 1]
    <3>1. PICK m : m = n + 1
      OBVIOUS
    <3>2. PICK T : T = 1..m
      OBVIOUS
    <3>3. x \in Seq(T) /\ y \in 1..Len(x) + 1 /\ m \in T
      BY <2>2, <2>3, <2>4, <3>1, <3>2
    <3>4. /\ InsertAt(x, y, m) \in Seq(T) /\ Len(InsertAt(x, y, m)) = Len(x) + 1
          /\ \A j \in 1..Len(x) + 1 :
               InsertAt(x, y, m)[j] = IF j < y THEN x[j] ELSE IF j = y THEN m ELSE x[j - 1]
      BY <3>3, Inserted
    <3> QED
      BY <3>1, <3>2, <3>4
  <2>6. Len(x) + 1 = l + 2
    BY <2>2, <1>1
  <2> QED
    BY <2>1, <2>4, <2>5, <2>6, <1>5
<1>9. DOMAIN new.seps = 1..l + 1 /\ DOMAIN new.kids = 1..l + 2
  BY <1>7, <1>8
<1>10. ~IsLeafPage(new) /\ new.seps # <<>>
  BY <1>1, <1>7, <1>8, EmptySeq DEF IsLeafPage
<1>11. IsPage(new, n + 1)
  <2>1. PICK a : a = new.seps
    OBVIOUS
  <2>2. PICK b : b = new.kids
    OBVIOUS
  <2>3. new = [seps |-> a, kids |-> b, recs |-> {}] /\ a \in Seq(Keys) /\ b \in Seq(1..n + 1)
    BY <2>1, <2>2, <1>5, <1>7, <1>8
  <2>4. new \in AnyPage(n + 1)
    BY <2>3 DEF AnyPage
  <2>5. Len(new.kids) = Len(new.seps) + 1
    BY <1>1, <1>7, <1>8
  <2> QED
    BY <2>4, <2>5, <1>5, <1>10 DEF IsPage
<1>12. ASSUME NEW i \in 1..l + 1
       PROVE  /\ new.seps[i] \in Nat /\ new.seps[i] < MaxKey /\ f.lo < new.seps[i] /\ new.seps[i] <= f.hi
              /\ i < pos => new.seps[i] < k
              /\ i > pos => k < new.seps[i]
  <2>1. CASE i < pos
    <3>1. i \in 1..l /\ new.seps[i] = s[i] /\ ~ (i > pos)
      BY <2>1, <1>1, <1>6, <1>7
    <3>2. s[i] \in Nat /\ s[i] < MaxKey /\ f.lo < s[i] /\ s[i] <= f.hi
      BY <3>1, <1>1
    <3>3. pos # 1 /\ pos - 1 \in 1..l /\ g.lo = s[pos - 1] /\ s[pos - 1] \in Nat
      BY <2>1, <1>1, <1>3, <1>6
    <3>4. i = pos - 1 \/ s[i] < s[pos - 1]
      <4>1. i = pos - 1 \/ i < pos - 1
        BY <2>1, <1>6
      <4> QED
        BY <4>1, <3>1, <3>3, <1>1
    <3>5. s[i] < k
      BY <3>2, <3>3, <3>4, <1>0, <1>4
    <3> QED
      BY <3>1, <3>2, <3>5
  <2>2. CASE i = pos
    <3>1. new.seps[i] = k /\ ~ (i < pos) /\ ~ (i > pos)
      BY <2>2, <1>6, <1>7
    <3>2. f.lo < k /\ k <= f.hi
      BY <1>0, <1>1, <1>3, <1>4
    <3> QED
      BY <3>1, <3>2, <1>0, <1>4
  <2>3. CASE i > pos
    <3>1. PICK x : x = i - 1
      OBVIOUS
    <3>2. x \in 1..l /\ new.seps[i] = s[x] /\ ~ (i < pos) /\ pos \in 1..l /\ (x = pos \/ pos < x)
      BY <3>1, <2>3, <1>1, <1>6, <1>7
    <3>3. s[x] \in Nat /\ s[x] < MaxKey /\ f.lo < s[x] /\ s[x] <= f.hi
      BY <3>2, <1>1
    <3>4. g.hi = s[pos] - 1 /\ s[pos] \in Nat
      BY <3>2, <1>1, <1>3
    <3>5. x = pos \/ s[pos] < s[x]
      BY <3>2, <1>1
    <3>6. k < s[x]
      BY <3>3, <3>4, <3>5, <1>0, <1>4
    <3> QED
      BY <3>2, <3>3, <3>6
  <2>4. i < pos \/ i = pos \/ i > pos
    BY <1>6
  <2> QED
    BY <2>1, <2>2, <2>3, <2>4
<1>13. ASSUME NEW i \in 1..l + 1, NEW j \in 1..l + 1, i < j  PROVE new.seps[i] < new.seps[j]
  <2>1. CASE j < pos
    <3>1. i \in 1..l /\ j \in 1..l /\ new.seps[i] = s[i] /\ new.seps[j] = s[j]
      BY <2>1, <1>1, <1>6, <1>7, <1>13
    <3> QED
      BY <3>1, <1>1, <1>13
  <2>2. CASE i > pos
    <3>1. /\ i - 1 \in 1..l /\ j - 1 \in 1..l /\ i - 1 < j - 1
          /\ ~ (i < pos) /\ i # pos /\ ~ (j < pos) /\ j # pos
      BY <2>2, <1>1, <1>6, <1>13
    <3>2. new.seps[i] = s[i - 1] /\ new.seps[j] = s[j - 1]
      BY <3>1, <1>7
    <3> QED
      BY <3>1, <3>2, <1>1
  <2>3. CASE i <= pos /\ pos <= j
    <3>1. i = pos => new.seps[i] = k
      BY <1>6, <1>7
    <3>2. j = pos => new.seps[j] = k
      BY <1>6, <1>7
    <3>3. (i < pos \/ i = pos) /\ (j > pos \/ j = pos)
      BY <2>3, <1>6
    <3>4. new.seps[i] \in Nat /\ new.seps[j] \in Nat
      BY <1>12
    <3>5. (i < pos => new.seps[i] < k) /\ (j > pos => k < new.seps[j])
      BY <1>12
    <3> QED
      BY <3>1, <3>2, <3>3, <3>4, <3>5, <1>4, <1>6, <1>13
  <2>4. j < pos \/ i > pos \/ (i <= pos /\ pos <= j)
    BY <1>6
  <2> QED
    BY <2>1, <2>2, <2>3, <2>4
<1>14. KeysFit(new, f)
  <2>1. \A i \in DOMAIN new.seps : f.lo < new.seps[i] /\ Within(new.seps[i], f) /\ new.seps[i] < MaxKey
    <3> TAKE i \in DOMAIN new.seps
    <3>1. /\ new.seps[i] \in Nat /\ new.seps[i] < MaxKey /\ f.lo < new.seps[i] /\ new.seps[i] <= f.hi
      BY <1>9, <1>12
    <3> QED
      BY <3>1, <1>1 DEF Within
  <2>2. \A i, j \in DOMAIN new.seps : i < j => new.seps[i] < new.seps[j]
    BY <1>9, <1>13
  <2>3. \A j \in new.recs : FALSE
    BY <1>5
  <2> QED
    BY <2>1, <2>2, <2>3 DEF KeysFit
<1>15. Fitting(new, n + 1, f)
  BY <1>1, <1>11, <1>14 DEF Fitting
<1>16. ASSUME NEW i \in 1..l + 2
       PROVE  /\ ChildFence(new, i, f) \in Fences
              /\ ChildFence(new, i, f).lo = IF i = 1 THEN f.lo ELSE new.seps[i - 1]
              /\ ChildFence(new, i, f).hi = IF i = l + 2 THEN f.hi ELSE new.seps[i] - 1
  <2>1. i \in 1..Len(new.seps) + 1 /\ Len(new.seps) + 1 = l + 2
    BY <1>1, <1>7
  <2> QED
    BY <2>1, <1>15, ChildFenceIs
<1>17. ASSUME NEW j \in 1..l + 1
       PROVE  /\ ChildFence(page, j, f) \in Fences
              /\ ChildFence(page, j, f).lo = IF j = 1 THEN f.lo ELSE s[j - 1]
              /\ ChildFence(page, j, f).hi = IF j = l + 1 THEN f.hi ELSE s[j] - 1
  BY <1>0, ChildFenceIs DEF l, s
<1>18. /\ LowerPart(g, k) \in Fences /\ LowerPart(g, k).lo = g.lo /\ LowerPart(g, k).hi = k - 1
       /\ UpperPart(g, k) \in Fences /\ UpperPart(g, k).lo = k /\ UpperPart(g, k).hi = g.hi
  BY <1>0, <1>3, PartsOfFence DEF LowerPart, UpperPart
<1>19. new.kids[pos] = page.kids[pos] /\ ChildFence(new, pos, f) = LowerPart(g, k)
  <2>1. pos \in 1..l + 2 /\ pos < pos + 1 /\ pos # l + 2
    BY <1>1, <1>6
  <2>2. new.kids[pos] = page.kids[pos]
    BY <2>1, <1>8
  <2>3. PICK x : x = ChildFence(new, pos, f)
    OBVIOUS
  <2>4. x \in Fences /\ x.lo = (IF pos = 1 THEN f.lo ELSE new.seps[pos - 1]) /\ x.hi = new.seps[pos] - 1
    BY <2>1, <2>3, <1>16
  <2>5. new.seps[pos] = k /\ (pos # 1 => new.seps[pos - 1] = s[pos - 1])
    BY <1>6, <1>7
  <2>6. x.lo = g.lo /\ x.hi = k - 1
    BY <2>4, <2>5, <1>3
  <2> QED
    BY <2>2, <2>3, <2>4, <2>6, <1>18, SameFence
<1>20. new.kids[pos + 1] = n + 1 /\ ChildFence(new, pos + 1, f) = UpperPart(g, k)
  <2>1. PICK y : y = pos + 1
    OBVIOUS
  <2>2. y \in 1..l + 2 /\ y # 1 /\ y - 1 = pos /\ (y = l + 2 <=> pos = l + 1) /\ ~ (y < y) /\ ~ (y < pos) /\ y # pos
    BY <2>1, <1>1, <1>6
  <2>3. new.kids[y] = n + 1
    BY <2>1, <2>2, <1>8
  <2>4. PICK x : x = ChildFence(new, y, f)
    OBVIOUS
  <2>5. x \in Fences /\ x.lo = new.seps[pos] /\ x.hi = (IF pos = l + 1 THEN f.hi ELSE new.seps[y] - 1)
    BY <2>2, <2>4, <1>16
  <2>6. new.seps[pos] = k
    BY <1>6, <1>7
  <2>7. pos # l + 1 => new.seps[y] = s[pos]
    BY <2>1, <2>2, <1>1, <1>6, <1>7
  <2>8. x.lo = k /\ x.hi = g.hi
    BY <2>5, <2>6, <2>7, <1>3
  <2> QED
    BY <2>1, <2>3, <2>4, <2>5, <2>8, <1>18, SameFence
<1>21. ASSUME NEW i \in 1..l + 2, i # pos, i # pos + 1
       PROVE  \E j \in 1..l + 1 \ {pos} :
                new.kids[i] = page.kids[j] /\ ChildFence(new, i, f) = ChildFence(page, j, f)
  <2>1. PICK j : j = IF i < pos THEN i ELSE i - 1
    OBVIOUS
  <2>2. j \in 1..l + 1 /\ j # pos /\ (j = 1 <=> i = 1) /\ (j = l + 1 <=> i = l + 2)
    BY <2>1, <1>1, <1>6, <1>21
  <2>3. new.kids[i] = page.kids[j]
    <3>1. i < pos => i < pos + 1
      BY <1>6
    <3>2. ~ (i < pos) => ~ (i < pos + 1)
      BY <1>6, <1>21
    <3> QED
      BY <3>1, <3>2, <2>1, <1>8, <1>21
  <2>4. PICK x : x = ChildFence(new, i, f)
    OBVIOUS
  <2>5. PICK z : z = ChildFence(page, j, f)
    OBVIOUS
  <2>6. x \in Fences /\ x.lo = (IF i = 1 THEN f.lo ELSE new.seps[i - 1])
        /\ x.hi = (IF i = l + 2 THEN f.hi ELSE new.seps[i] - 1)
    BY <2>4, <1>16
  <2>7. z \in Fences /\ z.lo = (IF j = 1 THEN f.lo ELSE s[j - 1])
        /\ z.hi = (IF j = l + 1 THEN f.hi ELSE s[j] - 1)
    BY <2>2, <2>5, <1>17
  <2>8. i # 1 => new.seps[i - 1] = s[j - 1]
    <3> SUFFICES ASSUME i # 1  PROVE new.seps[i - 1] = s[j - 1]
      OBVIOUS
    <3>1. i - 1 \in 1..l + 1
      BY <1>1
    <3>2. CASE i < pos
      BY <3>1, <3>2, <2>1, <1>6, <1>7
    <3>3. CASE ~ (i < pos)
      <4>1. ~ (i - 1 < pos) /\ i - 1 # pos
        BY <3>3, <1>6, <1>21
      <4> QED
        BY <4>1, <3>1, <3>3, <2>1, <1>7
    <3> QED
      BY <3>2, <3>3
  <2>9. i # l + 2 => new.seps[i] = s[j]
    <3> SUFFICES ASSUME i # l + 2  PROVE new.seps[i] = s[j]
      OBVIOUS
    <3>1. i \in 1..l + 1
      BY <1>1
    <3> QED
      BY <3>1, <2>1, <1>7, <1>21
  <2>10. x.lo = z.lo /\ x.hi = z.hi
    BY <2>2, <2>6, <2>7, <2>8, <2>9
  <2>11. x = z
    BY <2>6, <2>7, <2>10, SameFence
  <2> QED
    BY <2>2, <2>3, <2>4, <2>5, <2>11
<1>22. Len(new.seps) = Len(page.seps) + 1 /\ DOMAIN new.kids = 1..Len(page.seps) + 2
  BY <1>7, <1>9 DEF l, s
<1>23. KeepsOthers(new, page, f, pos)
  BY <1>21 DEF l, s, KeepsOthers
<1> QED
  BY <1>10, <1>15, <1>19, <1>20, <1>22, <1>23

-------------------------------------------------------------------------
(* Trees that grow. *)

(* A page may stand in a tree with more pages. *)
LEMMA Grown ==
  ASSUME NEW n \in Nat, NEW m \in Nat, n <= m
  PROVE  /\ AnyPage(n) \subseteq AnyPage(m)
         /\ \A page, f : Fitting(page, n, f) => Fitting(page, m, f)
<1>1. 1..n \subseteq 1..m
  OBVIOUS
<1>2. ASSUME NEW page \in AnyPage(n)  PROVE page \in AnyPage(m)
  <2>1. PICK s : s = page.kids
    OBVIOUS
  <2>2. s \in Seq(1..n)
    BY <2>1, <1>2 DEF AnyPage
  <2>3. s \in Seq(1..m)
    BY <2>2, <1>1, SeqMonotonic
  <2>4. /\ page = [seps |-> page.seps, kids |-> page.kids, recs |-> page.recs]
        /\ page.seps \in Seq(Keys) /\ page.recs \in SUBSET Keys
    BY <1>2 DEF AnyPage
  <2> QED
    BY <2>1, <2>3, <2>4 DEF AnyPage
<1> QED
  BY <1>2 DEF Fitting, IsPage

(* The pages with a record more on p. *)
StorePages(ps, p, k) == [ps EXCEPT ![p].recs = @ \cup {k}]

(* A record is stored on the leaf that may hold its key. *)
LEMMA RecordIsStored ==
  ASSUME NEW ps, NEW r, NEW fence, NEW height, IsTree(ps, r, fence, height),
         NEW p \in DOMAIN ps, IsLeafPage(ps[p]),
         NEW k \in Keys, k < MaxKey, Within(k, fence[p]),
         NEW qs, qs = StorePages(ps, p, k)
  PROVE  /\ IsTree(qs, r, fence, height)
         /\ \A q \in DOMAIN ps : IsLeafPage(qs[q]) <=> IsLeafPage(ps[q])
         /\ qs[p] = LeafPage(ps[p].recs \cup {k})
         /\ DOMAIN qs = DOMAIN ps /\ \A q \in DOMAIN ps \ {p} : qs[q] = ps[q]
<1> DEFINE n == Len(ps)
<1>1. /\ ps \in Seq(AnyPage(n)) /\ n \in Nat /\ DOMAIN ps = 1..n /\ p \in 1..n
      /\ Fitting(ps[p], n, fence[p]) /\ IsPage(ps[p], n)
  BY TreeOf, PageOf
<1>2. ps[p] \in AnyPage(n) /\ ps[p].kids = <<>> /\ ps[p].seps = <<>>
  BY <1>1 DEF IsPage, IsLeafPage
<1>3. PICK new : new = LeafPage(ps[p].recs \cup {k})
  OBVIOUS
<1>4. ps[p] = [seps |-> <<>>, kids |-> <<>>, recs |-> ps[p].recs] /\ ps[p].recs \subseteq Keys
  BY <1>2 DEF AnyPage
<1>5. [ps[p] EXCEPT !.recs = @ \cup {k}] = new
  <2>1. PICK x : x = ps[p]
    OBVIOUS
  <2>2. PICK T : T = x.recs
    OBVIOUS
  <2>3. x = [seps |-> <<>>, kids |-> <<>>, recs |-> T]
    BY <2>1, <2>2, <1>4
  <2>4. PICK U : U = T \cup {k}
    OBVIOUS
  <2>5. [x EXCEPT !.recs = U] = [seps |-> <<>>, kids |-> <<>>, recs |-> U]
    BY <2>3
  <2>6. x.recs \cup {k} = U
    BY <2>2, <2>4
  <2>7. [x EXCEPT !.recs = @ \cup {k}] = [x EXCEPT !.recs = U]
    BY <2>6
  <2> QED
    BY <2>1, <2>2, <2>4, <2>5, <2>7, <1>3 DEF LeafPage
<1> HIDE DEF n
<1>6. qs = [ps EXCEPT ![p] = new]
  BY <1>5 DEF StorePages
<1>7. /\ new.seps = <<>> /\ new.kids = <<>> /\ new.recs = ps[p].recs \cup {k} /\ IsLeafPage(new)
      /\ new = [seps |-> <<>>, kids |-> <<>>, recs |-> new.recs]
  BY <1>3 DEF LeafPage, IsLeafPage
<1>8. new \in AnyPage(n)
  <2>1. <<>> \in Seq(Keys) /\ <<>> \in Seq(1..n)
    OBVIOUS
  <2> QED
    BY <2>1, <1>4, <1>7 DEF AnyPage
<1>9. /\ qs \in Seq(AnyPage(n)) /\ Len(qs) = n /\ DOMAIN qs = 1..n
      /\ qs[p] = new /\ \A q \in 1..n : q # p => qs[q] = ps[q]
  <2>1. p \in 1..Len(ps) /\ ps \in Seq(AnyPage(n))
    BY <1>1 DEF n
  <2>2. PICK S : S = AnyPage(n)
    OBVIOUS
  <2>3. ps \in Seq(S) /\ new \in S
    BY <2>1, <2>2, <1>8
  <2> HIDE DEF n
  <2>4. /\ [ps EXCEPT ![p] = new] \in Seq(S) /\ Len([ps EXCEPT ![p] = new]) = Len(ps)
        /\ \A q \in 1..Len(ps) : [ps EXCEPT ![p] = new][q] = IF q = p THEN new ELSE ps[q]
    BY <2>1, <2>3, ExceptSeq
  <2>5. qs \in Seq(S) /\ Len(qs) = Len(ps) /\ \A q \in 1..Len(ps) : qs[q] = IF q = p THEN new ELSE ps[q]
    BY <2>4, <1>6, Zenon
  <2> QED
    BY <2>1, <2>2, <2>5, <1>1, LenProperties DEF n
<1>10. IsPage(new, n)
  BY <1>7, <1>8 DEF IsPage
<1>11. KeysFit(new, fence[p])
  <2>1. \A x \in ps[p].recs : Within(x, fence[p]) /\ x < MaxKey
    BY <1>1 DEF Fitting, KeysFit
  <2> QED
    BY <2>1, <1>7 DEF KeysFit
<1>12. \A q \in 1..n : Fitting(qs[q], n, fence[q])
  <2> TAKE q \in 1..n
  <2>1. Fitting(ps[q], n, fence[q]) /\ (q = p => Fitting(new, n, fence[q]))
    BY <1>1, <1>10, <1>11, PageOf DEF Fitting, n
  <2> QED
    BY <2>1, <1>9
<1>13. \A q \in 1..n : /\ IsLeafPage(qs[q]) <=> IsLeafPage(ps[q])
                       /\ OverItsChildren(qs, fence, height, q)
  <2> TAKE q \in 1..n
  <2>1. CASE q = p
    <3>1. qs[q] = new /\ DOMAIN qs[q].kids = {}
      BY <2>1, <1>7, <1>9
    <3>2. IsLeafPage(qs[q]) /\ IsLeafPage(ps[q])
      BY <2>1, <3>1, <1>7
    <3>3. OverItsChildren(qs, fence, height, q)
      BY <3>1, Zenon DEF OverItsChildren
    <3> QED
      BY <3>2, <3>3
  <2>2. CASE q # p
    <3>1. qs[q] = ps[q] /\ OverItsChildren(ps, fence, height, q)
      BY <2>2, <1>1, <1>9, PageOf
    <3> QED
      BY <3>1 DEF OverItsChildren
  <2> QED
    BY <2>1, <2>2
<1>14. IsTree(qs, r, fence, height)
  <2>1. \A q \in 1..n : /\ height[q] \in Nat /\ (IsLeafPage(qs[q]) <=> height[q] = 0)
                        /\ q # r => height[q] < height[r]
    <3> TAKE q \in 1..n
    <3>1. /\ height[q] \in Nat /\ (IsLeafPage(ps[q]) <=> height[q] = 0)
          /\ q # r => height[q] < height[r]
      BY <1>1, PageOf, Zenon
    <3> QED
      BY <3>1, <1>13, Zenon
  <2>2. r \in DOMAIN ps /\ fence[r] = [lo |-> MinKey, hi |-> MaxKey]
    BY TreeOf
  <2>3. \A q, m \in 1..n : height[q] = height[m] /\ q # m =>
          \A x \in Keys : ~ (Within(x, fence[q]) /\ Within(x, fence[m]))
    BY <1>1, SamePage
  <2> QED
    BY <2>1, <2>2, <2>3, <1>1, <1>9, <1>12, <1>13 DEF IsTree
<1> QED
  BY <1>1, <1>3, <1>9, <1>13, <1>14

(* Fences and heights once a child of p, at pos, is cut in two. *)
SplitFence(fence, c, n, k) ==
  [q \in 1..n + 1 |-> IF q = n + 1 THEN UpperPart(fence[c], k)
                      ELSE IF q = c THEN LowerPart(fence[c], k) ELSE fence[q]]
SplitHeight(height, c, n) ==
  [q \in 1..n + 1 |-> IF q = n + 1 THEN height[c] ELSE height[q]]

SplitPages(ps, p, pos, c, h) ==
  Append([ps EXCEPT ![p] = AddChild(@, pos, h.sep, Len(ps) + 1), ![c] = h.left], h.right)

(* The child c of p in a tree of n pages is full, and has halves h. *)
Splits(ps, r, fence, height, p, pos, c, h, n) ==
  /\ IsTree(ps, r, fence, height)
  /\ p \in DOMAIN ps /\ pos \in DOMAIN ps[p].kids /\ c = ps[p].kids[pos]
  /\ HasOverflow(ps[c]) /\ Room(ps[c]) /\ h = Halves(ps[c]) /\ n = Len(ps)

(* What is where after the split. *)
AfterSplit(ps, fence, p, pos, c, h, n, qs) ==
  /\ n \in Nat /\ DOMAIN ps = 1..n /\ c \in 1..n /\ c # p /\ p \in 1..n
  /\ IsCut(h, ps[c], fence[c], n)
  /\ Fitting(AddChild(ps[p], pos, h.sep, n + 1), n + 1, fence[p])
  /\ qs \in Seq(AnyPage(n + 1)) /\ Len(qs) = n + 1 /\ DOMAIN qs = 1..n + 1
  /\ qs[p] = AddChild(ps[p], pos, h.sep, n + 1) /\ qs[c] = h.left /\ qs[n + 1] = h.right
  /\ \A q \in 1..n : q \notin {p, c} => qs[q] = ps[q]

(* The split makes that of the tree. *)
LEMMA PagesOfSplit ==
  ASSUME NEW ps, NEW r, NEW fence, NEW height, NEW p, NEW pos, NEW c, NEW h, NEW n,
         Splits(ps, r, fence, height, p, pos, c, h, n),
         NEW qs, qs = SplitPages(ps, p, pos, c, h)
  PROVE  AfterSplit(ps, fence, p, pos, c, h, n, qs)
<1>0. /\ IsTree(ps, r, fence, height)
      /\ p \in DOMAIN ps /\ pos \in DOMAIN ps[p].kids /\ c = ps[p].kids[pos]
      /\ HasOverflow(ps[c]) /\ Room(ps[c]) /\ h = Halves(ps[c]) /\ n = Len(ps)
  BY DEF Splits
<1>1. /\ n \in Nat /\ DOMAIN ps = 1..n /\ ps \in Seq(AnyPage(n))
  BY <1>0, TreeOf
<1>2. /\ ~IsLeafPage(ps[p]) /\ pos \in 1..Len(ps[p].seps) + 1
      /\ c \in DOMAIN ps /\ c # p /\ fence[c] = ChildFence(ps[p], pos, fence[p])
  BY <1>0, ChildrenOf
<1>3. Fitting(ps[p], n, fence[p]) /\ Fitting(ps[c], n, fence[c])
  BY <1>0, <1>2, PageOf
<1>4. IsCut(h, ps[c], fence[c], n)
  BY <1>0, <1>3, PageIsCut
<1>5. PICK k : k = h.sep
  OBVIOUS
<1>6. /\ k \in Keys /\ fence[c].lo < k /\ k <= fence[c].hi /\ k < MaxKey
      /\ h.left \in AnyPage(n) /\ h.right \in AnyPage(n)
  BY <1>4, <1>5 DEF IsCut, HalfOf, Fitting, IsPage
<1>7. PICK new : new = AddChild(ps[p], pos, k, n + 1)
  OBVIOUS
<1>8. Fitting(new, n + 1, fence[p])
  <2>1. MayCut(ps[p], n, fence[p], pos, fence[c], k)
    BY <1>1, <1>2, <1>3, <1>6 DEF MayCut
  <2> QED
    BY <2>1, <1>7, ChildAdded
<1>9. new \in AnyPage(n + 1)
  BY <1>8 DEF Fitting, IsPage
<1>10. AnyPage(n) \subseteq AnyPage(n + 1)
  <2>1. n + 1 \in Nat /\ n <= n + 1
    BY <1>1
  <2> QED
    BY <2>1, <1>1, Grown
<1> DEFINE a == [ps EXCEPT ![p] = new]
           b == [a EXCEPT ![c] = h.left]
<1>11. qs = Append(b, h.right)
  <2>1. [ps EXCEPT ![p] = AddChild(@, pos, h.sep, Len(ps) + 1), ![c] = h.left] = b
    BY <1>0, <1>5, <1>7
  <2> QED
    BY <2>1 DEF SplitPages
<1>12. ps \in Seq(AnyPage(n + 1)) /\ p \in 1..Len(ps) /\ c \in 1..Len(ps)
  BY <1>0, <1>1, <1>2, <1>10, SeqMonotonic
<1>13. PICK S : S = AnyPage(n + 1)
  OBVIOUS
<1>14. /\ a \in Seq(S) /\ Len(a) = Len(ps)
       /\ \A q \in 1..Len(ps) : a[q] = IF q = p THEN new ELSE ps[q]
  BY <1>9, <1>12, <1>13, ExceptSeq
<1> HIDE DEF a
<1>15. /\ b \in Seq(S) /\ Len(b) = Len(a)
       /\ \A q \in 1..Len(a) : b[q] = IF q = c THEN h.left ELSE a[q]
  <2>1. a \in Seq(S) /\ c \in 1..Len(a) /\ h.left \in S
    BY <1>6, <1>10, <1>12, <1>13, <1>14
  <2>2. PICK x : x = h.left
    OBVIOUS
  <2>3. [a EXCEPT ![c] = x] \in Seq(S) /\ Len([a EXCEPT ![c] = x]) = Len(a)
    BY <2>1, <2>2, ExceptSeq
  <2>4. \A q \in 1..Len(a) : [a EXCEPT ![c] = x][q] = IF q = c THEN x ELSE a[q]
    BY <2>1, <2>2, ExceptSeq
  <2> QED
    BY <2>2, <2>3, <2>4
<1> HIDE DEF b
<1>16. /\ qs \in Seq(S) /\ Len(qs) = Len(b) + 1
       /\ \A q \in 1..Len(b) : qs[q] = b[q]
       /\ qs[Len(b) + 1] = h.right
  <2>1. b \in Seq(S) /\ h.right \in S
    BY <1>6, <1>10, <1>13, <1>15
  <2> QED
    BY <2>1, <1>11, AppendProperties
<1>17. Len(a) = n /\ Len(b) = n
  BY <1>0, <1>14, <1>15
<1>18. /\ qs \in Seq(AnyPage(n + 1)) /\ Len(qs) = n + 1 /\ DOMAIN qs = 1..n + 1
  BY <1>13, <1>16, <1>17, LenProperties
<1>19. /\ qs[p] = new /\ qs[c] = h.left /\ qs[n + 1] = h.right
       /\ \A q \in 1..n : q \notin {p, c} => qs[q] = ps[q]
  BY <1>2, <1>12, <1>14, <1>15, <1>16, <1>17
<1> QED
  BY <1>0, <1>1, <1>2, <1>4, <1>5, <1>7, <1>8, <1>12, <1>18, <1>19 DEF AfterSplit

(* The tree after the split. *)
THEOREM ChildIsSplit ==
  ASSUME NEW ps, NEW r, NEW fence, NEW height, NEW p, NEW pos, NEW c, NEW h, NEW n,
         Splits(ps, r, fence, height, p, pos, c, h, n),
         NEW qs, qs = SplitPages(ps, p, pos, c, h),
         NEW f2, f2 = SplitFence(fence, c, n, h.sep), NEW h2, h2 = SplitHeight(height, c, n)
  PROVE  IsTree(qs, r, f2, h2)
<1>0. /\ IsTree(ps, r, fence, height)
      /\ p \in DOMAIN ps /\ pos \in DOMAIN ps[p].kids /\ c = ps[p].kids[pos] /\ n = Len(ps)
  BY DEF Splits
<1>1. /\ n \in Nat /\ DOMAIN ps = 1..n /\ c \in 1..n /\ c # p /\ p \in 1..n
      /\ IsCut(h, ps[c], fence[c], n)
      /\ Fitting(AddChild(ps[p], pos, h.sep, n + 1), n + 1, fence[p])
      /\ qs \in Seq(AnyPage(n + 1)) /\ Len(qs) = n + 1 /\ DOMAIN qs = 1..n + 1
      /\ qs[p] = AddChild(ps[p], pos, h.sep, n + 1) /\ qs[c] = h.left /\ qs[n + 1] = h.right
      /\ \A q \in 1..n : q \notin {p, c} => qs[q] = ps[q]
  <2>1. AfterSplit(ps, fence, p, pos, c, h, n, qs)
    BY PagesOfSplit, Zenon
  <2> QED
    BY <2>1, Zenon DEF AfterSplit
<1>2. /\ ~IsLeafPage(ps[p]) /\ pos \in 1..Len(ps[p].seps) + 1
      /\ c # r /\ height[c] + 1 = height[p] /\ fence[c] = ChildFence(ps[p], pos, fence[p])
      /\ \A q \in DOMAIN ps : \A j \in DOMAIN ps[q].kids : ps[q].kids[j] = c => q = p /\ j = pos
  BY <1>0, ChildrenOf
<1>3. PICK k : k = h.sep
  OBVIOUS
<1>4. /\ k \in Keys /\ fence[c].lo < k /\ k <= fence[c].hi /\ k < MaxKey
      /\ HalfOf(h.left, LowerPart(fence[c], k), ps[c], fence[c], n)
      /\ HalfOf(h.right, UpperPart(fence[c], k), ps[c], fence[c], n)
  BY <1>1, <1>3 DEF IsCut
<1>5. /\ \A q \in 1..n : n + 1 # q
      /\ n + 1 \in 1..n + 1 /\ \A q \in 1..n : q \in 1..n + 1
      /\ \A q \in 1..n + 1 : q = n + 1 \/ q \in 1..n
  <2>1. n \in Nat
    BY <1>1
  <2> QED
    BY <2>1
<1>6. /\ f2[n + 1] = UpperPart(fence[c], k) /\ f2[c] = LowerPart(fence[c], k)
      /\ \A q \in 1..n : q # c => f2[q] = fence[q]
  BY <1>1, <1>3, <1>5 DEF SplitFence
<1>7. h2[n + 1] = height[c] /\ \A q \in 1..n : h2[q] = height[q]
  BY <1>1, <1>5 DEF SplitHeight
<1>8. /\ \A q \in 1..n : Fitting(ps[q], n, fence[q]) /\ height[q] \in Nat
      /\ \A q \in 1..n : IsLeafPage(ps[q]) <=> height[q] = 0
      /\ \A q \in 1..n : q # r => height[q] < height[r]
      /\ \A q \in 1..n : OverItsChildren(ps, fence, height, q)
      /\ r \in 1..n /\ fence[r] = [lo |-> MinKey, hi |-> MaxKey]
  <2>1. \A q \in 1..n : /\ Fitting(ps[q], n, fence[q]) /\ height[q] \in Nat
                        /\ IsLeafPage(ps[q]) <=> height[q] = 0
                        /\ q # r => height[q] < height[r]
                        /\ OverItsChildren(ps, fence, height, q)
    <3> TAKE q \in 1..n
    <3>1. q \in DOMAIN ps
      BY <1>1
    <3> QED
      BY <3>1, <1>0, PageOf
  <2>2. r \in 1..n /\ fence[r] = [lo |-> MinKey, hi |-> MaxKey]
    BY <1>0, <1>1, TreeOf
  <2> QED
    BY <2>1, <2>2, Zenon
<1>9. \A page, f : Fitting(page, n, f) => Fitting(page, n + 1, f)
  <2>1. PICK m : m = n + 1
    OBVIOUS
  <2>2. m \in Nat /\ n <= m /\ n \in Nat
    BY <2>1, <1>1
  <2>3. \A page, f : Fitting(page, n, f) => Fitting(page, m, f)
    BY <2>2, Grown, Zenon
  <2> QED
    BY <2>1, <2>3
<1>10. Fitting(h.left, n, f2[c]) /\ Fitting(h.right, n, f2[n + 1])
  BY <1>4, <1>6 DEF HalfOf
<1>11. \A q \in 1..n + 1 : Fitting(qs[q], n + 1, f2[q])
  <2> TAKE q \in 1..n + 1
  <2>1. CASE q \in {c, n + 1}
    BY <2>1, <1>1, <1>9, <1>10
  <2>2. CASE q = p
    BY <2>2, <1>1, <1>6
  <2>3. CASE q \notin {c, p, n + 1}
    BY <2>3, <1>1, <1>5, <1>6, <1>8, <1>9
  <2> QED
    BY <2>1, <2>2, <2>3
<1>12. (IsLeafPage(h.left) <=> IsLeafPage(ps[c])) /\ (IsLeafPage(h.right) <=> IsLeafPage(ps[c]))
  BY <1>4 DEF HalfOf
<1>13. PICK new : new = AddChild(ps[p], pos, k, n + 1)
  OBVIOUS
<1>14. /\ ~IsLeafPage(new) /\ DOMAIN new.kids = 1..Len(ps[p].seps) + 2
       /\ new.kids[pos] = c /\ ChildFence(new, pos, fence[p]) = LowerPart(fence[c], k)
       /\ new.kids[pos + 1] = n + 1 /\ ChildFence(new, pos + 1, fence[p]) = UpperPart(fence[c], k)
       /\ \A i \in 1..Len(ps[p].seps) + 2 \ {pos, pos + 1} : \E j \in 1..Len(ps[p].seps) + 1 \ {pos} :
            new.kids[i] = ps[p].kids[j] /\ ChildFence(new, i, fence[p]) = ChildFence(ps[p], j, fence[p])
  <2>1. MayCut(ps[p], n, fence[p], pos, fence[c], k)
    BY <1>0, <1>1, <1>2, <1>4, <1>8 DEF MayCut
  <2>2. /\ ~IsLeafPage(new) /\ DOMAIN new.kids = 1..Len(ps[p].seps) + 2
        /\ new.kids[pos] = ps[p].kids[pos] /\ ChildFence(new, pos, fence[p]) = LowerPart(fence[c], k)
        /\ new.kids[pos + 1] = n + 1 /\ ChildFence(new, pos + 1, fence[p]) = UpperPart(fence[c], k)
        /\ KeepsOthers(new, ps[p], fence[p], pos)
    BY <2>1, <1>13, ChildAdded
  <2> QED
    BY <2>2, <1>0 DEF KeepsOthers
<1>15. \A q \in 1..n + 1 : /\ h2[q] \in Nat /\ (IsLeafPage(qs[q]) <=> h2[q] = 0)
                           /\ q # r => h2[q] < h2[r]
  <2> TAKE q \in 1..n + 1
  <2>1. height[c] < height[r]
    BY <1>1, <1>2, <1>8
  <2>2. CASE q \in {c, n + 1}
    BY <2>1, <2>2, <1>1, <1>7, <1>8, <1>12
  <2>3. CASE q = p
    BY <2>3, <1>1, <1>2, <1>3, <1>7, <1>8, <1>13, <1>14
  <2>4. CASE q \notin {c, p, n + 1}
    BY <2>4, <1>1, <1>5, <1>7, <1>8
  <2> QED
    BY <2>2, <2>3, <2>4
<1>16. ASSUME NEW q \in 1..n, NEW j \in DOMAIN ps[q].kids, ps[q].kids[j] # c
       PROVE  /\ h2[ps[q].kids[j]] + 1 = h2[q]
              /\ f2[ps[q].kids[j]] = ChildFence(ps[q], j, fence[q])
  <2>1. PICK d : d = ps[q].kids[j]
    OBVIOUS
  <2>2. d \in DOMAIN ps /\ height[d] + 1 = height[q] /\ fence[d] = ChildFence(ps[q], j, fence[q])
    BY <2>1, <1>0, <1>1, ChildrenOf
  <2> QED
    BY <2>1, <2>2, <1>1, <1>6, <1>7, <1>16
<1>17. ASSUME NEW q, NEW g, q \in {c, n + 1}, g = f2[q], SharesChildren(qs[q], g, ps[c], fence[c])
       PROVE  OverItsChildren(qs, f2, h2, q)
  <2> SUFFICES ASSUME NEW i \in DOMAIN qs[q].kids
               PROVE  /\ h2[qs[q].kids[i]] + 1 = h2[q]
                      /\ f2[qs[q].kids[i]] = ChildFence(qs[q], i, f2[q])
    BY DEF OverItsChildren
  <2>1. PICK j \in DOMAIN ps[c].kids :
          qs[q].kids[i] = ps[c].kids[j] /\ ChildFence(qs[q], i, g) = ChildFence(ps[c], j, fence[c])
    BY <1>17 DEF SharesChildren
  <2>2. ps[c].kids[j] # c
    BY <1>1, <1>2
  <2>3. h2[q] = h2[c]
    BY <1>1, <1>7, <1>17
  <2> QED
    BY <2>1, <2>2, <2>3, <1>1, <1>16, <1>17
<1>18. OverItsChildren(qs, f2, h2, c) /\ OverItsChildren(qs, f2, h2, n + 1)
  <2>1. SharesChildren(qs[c], f2[c], ps[c], fence[c])
    BY <1>1, <1>4, <1>6 DEF HalfOf
  <2>2. SharesChildren(qs[n + 1], f2[n + 1], ps[c], fence[c])
    BY <1>1, <1>4, <1>6 DEF HalfOf
  <2> QED
    BY <2>1, <2>2, <1>17
<1>19. OverItsChildren(qs, f2, h2, p)
  <2> SUFFICES ASSUME NEW i \in 1..Len(ps[p].seps) + 2
               PROVE  /\ h2[new.kids[i]] + 1 = h2[p]
                      /\ f2[new.kids[i]] = ChildFence(new, i, fence[p])
    <3>1. qs[p] = new /\ f2[p] = fence[p] /\ DOMAIN new.kids = 1..Len(ps[p].seps) + 2
      BY <1>1, <1>3, <1>6, <1>13, <1>14
    <3> QED
      BY <3>1 DEF OverItsChildren
  <2>1. CASE i = pos
    BY <2>1, <1>1, <1>2, <1>6, <1>7, <1>14
  <2>2. CASE i = pos + 1
    BY <2>2, <1>1, <1>2, <1>6, <1>7, <1>14
  <2>3. CASE i \notin {pos, pos + 1}
    <3>1. PICK j \in 1..Len(ps[p].seps) + 1 \ {pos} :
            new.kids[i] = ps[p].kids[j] /\ ChildFence(new, i, fence[p]) = ChildFence(ps[p], j, fence[p])
      BY <2>3, <1>14
    <3>2. j \in DOMAIN ps[p].kids /\ j # pos
      BY <3>1, <1>0, <1>1, <1>2, KidsOf, PageOf
    <3>3. ps[p].kids[j] # c
      BY <3>2, <1>1, <1>2
    <3> QED
      BY <3>1, <3>2, <3>3, <1>1, <1>16
  <2> QED
    BY <2>1, <2>2, <2>3
<1>20. \A q \in 1..n + 1 : OverItsChildren(qs, f2, h2, q)
  <2> TAKE q \in 1..n + 1
  <2>1. CASE q \notin {c, p, n + 1}
    <3>1. q \in 1..n /\ qs[q] = ps[q] /\ f2[q] = fence[q]
      BY <2>1, <1>1, <1>5, <1>6
    <3>2. \A j \in DOMAIN ps[q].kids : ps[q].kids[j] # c
      BY <2>1, <3>1, <1>1, <1>2
    <3> QED
      BY <3>1, <3>2, <1>16 DEF OverItsChildren
  <2> QED
    BY <2>1, <1>18, <1>19
<1>21. ASSUME NEW q \in 1..n + 1, NEW m \in 1..n + 1, h2[q] = h2[m], NEW x \in Keys,
              Within(x, f2[q]), Within(x, f2[m])
       PROVE  q = m
  <2>1. fence[c] \in Fences /\ \A y \in Keys :
          /\ Within(y, LowerPart(fence[c], k)) <=> Within(y, fence[c]) /\ y < k
          /\ Within(y, UpperPart(fence[c], k)) <=> Within(y, fence[c]) /\ ~ (y < k)
    <3>1. fence[c] \in Fences
      BY <1>0, <1>1, PageOf
    <3> QED
      BY <3>1, <1>4, PartsOfFence
  <2> DEFINE Old(y) == IF y = n + 1 THEN c ELSE y
  <2>2. \A y \in 1..n + 1 : /\ Old(y) \in 1..n /\ h2[y] = height[Old(y)]
                            /\ Within(x, f2[y]) => Within(x, fence[Old(y)])
    <3> TAKE y \in 1..n + 1
    <3>1. CASE y = n + 1
      BY <3>1, <2>1, <1>1, <1>6, <1>7
    <3>2. CASE y = c
      BY <3>2, <2>1, <1>1, <1>5, <1>6, <1>7
    <3>3. CASE y \notin {c, n + 1}
      BY <3>3, <1>1, <1>5, <1>6, <1>7
    <3> QED
      BY <3>1, <3>2, <3>3
  <2>3. Old(q) = Old(m)
    <3>1. Old(q) \in DOMAIN ps /\ Old(m) \in DOMAIN ps /\ height[Old(q)] = height[Old(m)]
          /\ Within(x, fence[Old(q)]) /\ Within(x, fence[Old(m)])
      BY <2>2, <1>1, <1>21
    <3> HIDE DEF Old
    <3> QED
      BY <3>1, <1>0, SamePage
  <2>4. q = m \/ (q = c /\ m = n + 1) \/ (q = n + 1 /\ m = c)
    BY <2>3
  <2>5. ~ (Within(x, f2[c]) /\ Within(x, f2[n + 1]))
    BY <2>1, <1>6
  <2> QED
    BY <2>4, <2>5, <1>21
<1>22. f2[r] = [lo |-> MinKey, hi |-> MaxKey] /\ r \in DOMAIN qs
  BY <1>1, <1>2, <1>5, <1>6, <1>8
<1>23. \A q, m \in 1..n + 1 : h2[q] = h2[m] /\ q # m =>
         \A x \in Keys : ~ (Within(x, f2[q]) /\ Within(x, f2[m]))
  BY <1>21
<1> QED
  BY <1>1, <1>11, <1>15, <1>20, <1>22, <1>23 DEF IsTree

-------------------------------------------------------------------------
(* The root, split in place: it becomes the parent of its two halves.      *)

RootFence(fence, r, n, k) ==
  [q \in 1..n + 2 |-> IF q = n + 1 THEN LowerPart(fence[r], k)
                      ELSE IF q = n + 2 THEN UpperPart(fence[r], k) ELSE fence[q]]

RootHeight(height, r, n) ==
  [q \in 1..n + 2 |-> IF q = r THEN height[r] + 1
                      ELSE IF q \in {n + 1, n + 2} THEN height[r] ELSE height[q]]

RootPages(ps, r, h) ==
  [ps EXCEPT ![r] = IndexPage(<<h.sep>>, <<Len(ps) + 1, Len(ps) + 2>>)] \o <<h.left, h.right>>

(* The root r of a tree of n pages is an index page that must be cut. *)
RootSplits(ps, r, fence, height, h, n) ==
  /\ IsTree(ps, r, fence, height)
  /\ ~IsLeafPage(ps[r]) /\ HasOverflow(ps[r]) /\ Room(ps[r])
  /\ h = Halves(ps[r]) /\ n = Len(ps)

(* A sequence with an element is not empty. *)
LEMMA NotEmpty ==
  ASSUME NEW S, NEW s \in Seq(S), Len(s) # 0
  PROVE  s # <<>>
OBVIOUS

(* An index page over two pages that share its fence at a key. *)
LEMMA NewRoot ==
  ASSUME NEW n \in Nat, NEW f \in Fences, NEW k \in Keys, f.lo < k, k <= f.hi, k < MaxKey,
         NEW new, new = IndexPage(<<k>>, <<n + 1, n + 2>>)
  PROVE  /\ Fitting(new, n + 2, f) /\ ~IsLeafPage(new) /\ Len(new.seps) = 1
         /\ DOMAIN new.kids = {1, 2} /\ new.kids[1] = n + 1 /\ new.kids[2] = n + 2
         /\ ChildFence(new, 1, f) = LowerPart(f, k)
         /\ ChildFence(new, 2, f) = UpperPart(f, k)
<1>1. PICK m : m = n + 2
  OBVIOUS
<1>2. m \in Nat /\ n + 1 \in 1..m /\ n + 2 \in 1..m
  BY <1>1
<1>3. /\ <<k>> \in Seq(Keys) /\ Len(<<k>>) = 1 /\ <<k>>[1] = k /\ DOMAIN <<k>> = {1}
  OBVIOUS
<1>4. <<n + 1, n + 2>> \in Seq(1..m) /\ Len(<<n + 1, n + 2>>) = 2 /\ DOMAIN <<n + 1, n + 2>> = {1, 2}
  <2>1. PICK S : S = 1..m
    OBVIOUS
  <2>2. n + 1 \in S /\ n + 2 \in S
    BY <2>1, <1>2
  <2>3. <<n + 1, n + 2>> \in Seq(S)
    BY <2>2
  <2> QED
    BY <2>1, <2>3
<1>5. /\ new.seps = <<k>> /\ new.kids = <<n + 1, n + 2>> /\ new.recs = {}
  BY DEF IndexPage
<1>6. /\ new.seps \in Seq(Keys) /\ Len(new.seps) = 1
      /\ new.kids \in Seq(1..m) /\ Len(new.kids) = 2
  BY <1>3, <1>4, <1>5, Zenon
<1>7. IsPage(new, m) /\ ~IsLeafPage(new)
  <2>1. new \in AnyPage(m)
    BY <1>3, <1>4 DEF IndexPage, AnyPage
  <2>2. PICK a, b : a = new.seps /\ b = new.kids
    OBVIOUS
  <2>3. a \in Seq(Keys) /\ Len(a) = 1 /\ b \in Seq(1..m) /\ Len(b) = 2
    BY <2>2, <1>6, Zenon
  <2>4. Len(a) # 0 /\ Len(b) # 0 /\ Len(b) = Len(a) + 1
    BY <2>3
  <2>5. a # <<>> /\ b # <<>>
    BY <2>3, <2>4, NotEmpty, Zenon
  <2> QED
    BY <2>1, <2>2, <2>4, <2>5, <1>5 DEF IsPage, IsLeafPage
<1>8. f.lo \in Keys /\ f.hi \in Keys /\ f.lo \in Nat /\ f.hi \in Nat /\ k \in Nat
      /\ Dec(k) \in Keys /\ MinKey = 0
  BY Numbers, NextKeys DEF Fences
<1>9. KeysFit(new, f)
  BY <1>3, <1>5, <1>8 DEF KeysFit, Within
<1>10. Fitting(new, m, f)
  BY <1>7, <1>8, <1>9 DEF Fitting
<1>11. ChildFence(new, 1, f) = LowerPart(f, k) /\ ChildFence(new, 2, f) = UpperPart(f, k)
  <2>1. PICK s : s = new.seps
    OBVIOUS
  <2>2. Len(s) = 1 /\ s[1] = k
    BY <2>1, <1>3, <1>5
  <2>3. ChildFence(new, 1, f) = [lo |-> f.lo, hi |-> Dec(k)]
    BY <2>1, <2>2 DEF ChildFence
  <2>4. ChildFence(new, 2, f) = [lo |-> k, hi |-> f.hi]
    BY <2>1, <2>2 DEF ChildFence
  <2> QED
    BY <2>3, <2>4 DEF LowerPart, UpperPart
<1>12. DOMAIN new.kids = {1, 2}
  BY <1>4, <1>5, Zenon
<1>13. new.kids[1] = n + 1 /\ new.kids[2] = n + 2
  BY <1>5
<1>14. Fitting(new, n + 2, f)
  BY <1>1, <1>10, Zenon
<1> QED
  BY <1>6, <1>7, <1>11, <1>12, <1>13, <1>14, Zenon

AfterRootSplit(ps, r, fence, h, n, qs) ==
  /\ n \in Nat /\ DOMAIN ps = 1..n /\ r \in 1..n
  /\ IsCut(h, ps[r], fence[r], n)
  /\ qs \in Seq(AnyPage(n + 2)) /\ Len(qs) = n + 2 /\ DOMAIN qs = 1..n + 2
  /\ qs[r] = IndexPage(<<h.sep>>, <<n + 1, n + 2>>) /\ qs[n + 1] = h.left /\ qs[n + 2] = h.right
  /\ \A q \in 1..n : q # r => qs[q] = ps[q]

(* The split makes that of the tree. *)
LEMMA PagesOfRootSplit ==
  ASSUME NEW ps, NEW r, NEW fence, NEW height, NEW h, NEW n,
         RootSplits(ps, r, fence, height, h, n),
         NEW qs, qs = RootPages(ps, r, h)
  PROVE  AfterRootSplit(ps, r, fence, h, n, qs)
<1>0. /\ IsTree(ps, r, fence, height) /\ HasOverflow(ps[r]) /\ Room(ps[r])
      /\ h = Halves(ps[r]) /\ n = Len(ps)
  BY DEF RootSplits
<1>1. /\ n \in Nat /\ DOMAIN ps = 1..n /\ ps \in Seq(AnyPage(n)) /\ r \in DOMAIN ps
  BY <1>0, TreeOf
<1>2. Fitting(ps[r], n, fence[r]) /\ fence[r] \in Fences
  BY <1>0, <1>1, PageOf
<1>3. IsCut(h, ps[r], fence[r], n)
  BY <1>0, <1>2, PageIsCut
<1>4. PICK k : k = h.sep
  OBVIOUS
<1>5. /\ k \in Keys /\ fence[r].lo < k /\ k <= fence[r].hi /\ k < MaxKey
      /\ h.left \in AnyPage(n) /\ h.right \in AnyPage(n)
  BY <1>3, <1>4 DEF IsCut, HalfOf, Fitting, IsPage
<1>6. PICK new : new = IndexPage(<<k>>, <<n + 1, n + 2>>)
  OBVIOUS
<1>7. Fitting(new, n + 2, fence[r])
  BY <1>1, <1>2, <1>5, <1>6, NewRoot
<1>8. PICK S : S = AnyPage(n + 2)
  OBVIOUS
<1>9. new \in S /\ AnyPage(n) \subseteq S
  <2>1. new \in S
    BY <1>7, <1>8 DEF Fitting, IsPage
  <2>2. PICK m : m = n + 2
    OBVIOUS
  <2>3. m \in Nat /\ n <= m
    BY <2>2, <1>1
  <2>4. AnyPage(n) \subseteq AnyPage(m)
    BY <2>3, <1>1, Grown
  <2> QED
    BY <2>1, <2>2, <2>4, <1>8
<1>10. ps \in Seq(S) /\ r \in 1..Len(ps)
  BY <1>0, <1>1, <1>9, SeqMonotonic
<1> DEFINE a == [ps EXCEPT ![r] = new]
           b == <<h.left, h.right>>
<1>11. qs = a \o b
  BY <1>0, <1>4, <1>6 DEF RootPages
<1>12. /\ a \in Seq(S) /\ Len(a) = Len(ps)
       /\ \A q \in 1..Len(ps) : a[q] = IF q = r THEN new ELSE ps[q]
  BY <1>9, <1>10, ExceptSeq
<1>13. b \in Seq(S) /\ Len(b) = 2 /\ b[1] = h.left /\ b[2] = h.right
  BY <1>5, <1>9
<1> HIDE DEF a, b
<1>14. /\ qs \in Seq(S) /\ Len(qs) = Len(a) + Len(b)
       /\ \A q \in 1..Len(a) + Len(b) : qs[q] = IF q <= Len(a) THEN a[q] ELSE b[q - Len(a)]
  <2>1. a \in Seq(S) /\ b \in Seq(S)
    BY <1>12, <1>13
  <2>2. /\ a \o b \in Seq(S) /\ Len(a \o b) = Len(a) + Len(b)
        /\ \A q \in 1..Len(a) + Len(b) : (a \o b)[q] = IF q <= Len(a) THEN a[q] ELSE b[q - Len(a)]
    BY <2>1, ConcatProperties, Zenon
  <2> QED
    BY <2>2, <1>11, Zenon
<1>15. Len(a) = n /\ Len(b) = 2
  BY <1>0, <1>12, <1>13
<1>16. qs \in Seq(AnyPage(n + 2)) /\ Len(qs) = n + 2 /\ DOMAIN qs = 1..n + 2
  BY <1>8, <1>14, <1>15, LenProperties
<1>17. /\ n + 1 \in 1..n + 2 /\ n + 2 \in 1..n + 2 /\ ~ (n + 1 <= n) /\ ~ (n + 2 <= n)
       /\ n + 1 - n = 1 /\ n + 2 - n = 2
       /\ \A q \in 1..n : q \in 1..n + 2 /\ q <= n
  BY <1>1
<1>18. qs[n + 1] = h.left /\ qs[n + 2] = h.right
  BY <1>13, <1>14, <1>15, <1>17
<1>19. \A q \in 1..n : qs[q] = IF q = r THEN new ELSE ps[q]
  BY <1>0, <1>12, <1>14, <1>15, <1>17
<1> QED
  BY <1>1, <1>3, <1>4, <1>6, <1>16, <1>18, <1>19 DEF AfterRootSplit

(* The tree after the split, one level higher. *)
THEOREM RootIsSplit ==
  ASSUME NEW ps, NEW r, NEW fence, NEW height, NEW h, NEW n,
         RootSplits(ps, r, fence, height, h, n),
         NEW qs, qs = RootPages(ps, r, h),
         NEW f2, f2 = RootFence(fence, r, n, h.sep), NEW h2, h2 = RootHeight(height, r, n)
  PROVE  IsTree(qs, r, f2, h2)
<1>0. IsTree(ps, r, fence, height) /\ n = Len(ps) /\ ~IsLeafPage(ps[r])
  BY DEF RootSplits
<1>1. /\ n \in Nat /\ DOMAIN ps = 1..n /\ r \in 1..n
      /\ IsCut(h, ps[r], fence[r], n)
      /\ qs \in Seq(AnyPage(n + 2)) /\ Len(qs) = n + 2 /\ DOMAIN qs = 1..n + 2
      /\ qs[r] = IndexPage(<<h.sep>>, <<n + 1, n + 2>>) /\ qs[n + 1] = h.left /\ qs[n + 2] = h.right
      /\ \A q \in 1..n : q # r => qs[q] = ps[q]
  <2>1. AfterRootSplit(ps, r, fence, h, n, qs)
    BY PagesOfRootSplit, Zenon
  <2> QED
    BY <2>1, Zenon DEF AfterRootSplit
<1>2. PICK k : k = h.sep
  OBVIOUS
<1>3. /\ k \in Keys /\ fence[r].lo < k /\ k <= fence[r].hi /\ k < MaxKey
      /\ HalfOf(h.left, LowerPart(fence[r], k), ps[r], fence[r], n)
      /\ HalfOf(h.right, UpperPart(fence[r], k), ps[r], fence[r], n)
  BY <1>1, <1>2 DEF IsCut
<1>4. /\ \A q \in 1..n : n + 1 # q /\ n + 2 # q /\ q \in 1..n + 2
      /\ n + 1 # n + 2 /\ n + 1 \in 1..n + 2 /\ n + 2 \in 1..n + 2
      /\ \A q \in 1..n + 2 : q \in {n + 1, n + 2} \/ q \in 1..n
  <2>1. n \in Nat
    BY <1>1
  <2> QED
    BY <2>1
<1>5. /\ f2[n + 1] = LowerPart(fence[r], k) /\ f2[n + 2] = UpperPart(fence[r], k)
      /\ \A q \in 1..n : f2[q] = fence[q]
  BY <1>1, <1>2, <1>4 DEF RootFence
<1>6. /\ h2[r] = height[r] + 1 /\ h2[n + 1] = height[r] /\ h2[n + 2] = height[r]
      /\ \A q \in 1..n : q # r => h2[q] = height[q]
  BY <1>1, <1>4 DEF RootHeight
<1>7. /\ \A q \in 1..n : Fitting(ps[q], n, fence[q]) /\ height[q] \in Nat
      /\ \A q \in 1..n : IsLeafPage(ps[q]) <=> height[q] = 0
      /\ \A q \in 1..n : q # r => height[q] < height[r]
      /\ fence[r] = [lo |-> MinKey, hi |-> MaxKey] /\ fence[r] \in Fences
  <2>1. \A q \in 1..n : /\ Fitting(ps[q], n, fence[q]) /\ height[q] \in Nat
                        /\ IsLeafPage(ps[q]) <=> height[q] = 0
                        /\ q # r => height[q] < height[r]
    <3> TAKE q \in 1..n
    <3>1. q \in DOMAIN ps
      BY <1>1
    <3> QED
      BY <3>1, <1>0, PageOf
  <2>2. r \in 1..n /\ fence[r] = [lo |-> MinKey, hi |-> MaxKey] /\ fence[r] \in Fences
    BY <1>0, <1>1, TreeOf, PageOf
  <2> QED
    BY <2>1, <2>2, Zenon
<1>8. \A page, f : Fitting(page, n, f) => Fitting(page, n + 2, f)
  <2>1. PICK m : m = n + 2
    OBVIOUS
  <2>2. m \in Nat /\ n <= m /\ n \in Nat
    BY <2>1, <1>1
  <2>3. \A page, f : Fitting(page, n, f) => Fitting(page, m, f)
    BY <2>2, Grown, Zenon
  <2> QED
    BY <2>1, <2>3
<1>9. Fitting(h.left, n, f2[n + 1]) /\ Fitting(h.right, n, f2[n + 2])
      /\ ~IsLeafPage(h.left) /\ ~IsLeafPage(h.right)
  BY <1>0, <1>3, <1>5 DEF HalfOf
<1>10. PICK new : new = IndexPage(<<k>>, <<n + 1, n + 2>>)
  OBVIOUS
<1>11. /\ Fitting(new, n + 2, fence[r]) /\ ~IsLeafPage(new)
       /\ DOMAIN new.kids = {1, 2} /\ new.kids[1] = n + 1 /\ new.kids[2] = n + 2
       /\ ChildFence(new, 1, fence[r]) = LowerPart(fence[r], k)
       /\ ChildFence(new, 2, fence[r]) = UpperPart(fence[r], k)
  BY <1>1, <1>3, <1>7, <1>10, NewRoot
<1>12. qs[r] = new /\ f2[r] = fence[r]
  BY <1>1, <1>2, <1>5, <1>10
<1>13. \A q \in 1..n + 2 : Fitting(qs[q], n + 2, f2[q])
  <2> TAKE q \in 1..n + 2
  <2>1. CASE q \in {n + 1, n + 2}
    BY <2>1, <1>1, <1>8, <1>9
  <2>2. CASE q = r
    BY <2>2, <1>11, <1>12
  <2>3. CASE q \notin {r, n + 1, n + 2}
    BY <2>3, <1>1, <1>4, <1>5, <1>7, <1>8
  <2> QED
    BY <2>1, <2>2, <2>3
<1>14. \A q \in 1..n + 2 : /\ h2[q] \in Nat /\ (IsLeafPage(qs[q]) <=> h2[q] = 0)
                           /\ q # r => h2[q] < h2[r]
  <2>1. height[r] \in Nat /\ height[r] # 0
    BY <1>0, <1>1, <1>7
  <2> TAKE q \in 1..n + 2
  <2>2. CASE q \in {n + 1, n + 2}
    BY <2>1, <2>2, <1>1, <1>6, <1>9
  <2>3. CASE q = r
    BY <2>1, <2>3, <1>6, <1>11, <1>12
  <2>4. CASE q \notin {r, n + 1, n + 2}
    <3>1. q \in 1..n /\ q # r
      BY <2>4, <1>4
    <3>2. h2[q] = height[q] /\ h2[r] = height[r] + 1 /\ qs[q] = ps[q]
      BY <3>1, <1>1, <1>6
    <3>3. height[q] \in Nat /\ height[q] < height[r] /\ (IsLeafPage(ps[q]) <=> height[q] = 0)
      BY <3>1, <1>7
    <3> QED
      BY <2>1, <3>2, <3>3
  <2> QED
    BY <2>2, <2>3, <2>4
<1>15. ASSUME NEW q \in 1..n, NEW j \in DOMAIN ps[q].kids
       PROVE  /\ h2[ps[q].kids[j]] + 1 = height[q]
              /\ f2[ps[q].kids[j]] = ChildFence(ps[q], j, fence[q])
  <2>1. PICK d : d = ps[q].kids[j]
    OBVIOUS
  <2>2. /\ d \in DOMAIN ps /\ d # r /\ height[d] + 1 = height[q]
        /\ fence[d] = ChildFence(ps[q], j, fence[q])
    BY <2>1, <1>0, <1>1, ChildrenOf
  <2> QED
    BY <2>1, <2>2, <1>1, <1>5, <1>6
<1>16. ASSUME NEW q, NEW g, q \in {n + 1, n + 2}, g = f2[q], SharesChildren(qs[q], g, ps[r], fence[r])
       PROVE  OverItsChildren(qs, f2, h2, q)
  <2> SUFFICES ASSUME NEW i \in DOMAIN qs[q].kids
               PROVE  /\ h2[qs[q].kids[i]] + 1 = h2[q]
                      /\ f2[qs[q].kids[i]] = ChildFence(qs[q], i, f2[q])
    BY DEF OverItsChildren
  <2>1. PICK j \in DOMAIN ps[r].kids :
          qs[q].kids[i] = ps[r].kids[j] /\ ChildFence(qs[q], i, g) = ChildFence(ps[r], j, fence[r])
    BY <1>16 DEF SharesChildren
  <2>2. h2[q] = height[r]
    BY <1>6, <1>16
  <2> QED
    BY <2>1, <2>2, <1>1, <1>15, <1>16
<1>17. OverItsChildren(qs, f2, h2, n + 1) /\ OverItsChildren(qs, f2, h2, n + 2)
  <2>1. SharesChildren(qs[n + 1], f2[n + 1], ps[r], fence[r])
    BY <1>1, <1>3, <1>5 DEF HalfOf
  <2>2. SharesChildren(qs[n + 2], f2[n + 2], ps[r], fence[r])
    BY <1>1, <1>3, <1>5 DEF HalfOf
  <2> QED
    BY <2>1, <2>2, <1>16
<1>18. OverItsChildren(qs, f2, h2, r)
  <2>1. \A i \in DOMAIN new.kids : /\ h2[new.kids[i]] + 1 = h2[r]
                                   /\ f2[new.kids[i]] = ChildFence(new, i, fence[r])
    BY <1>5, <1>6, <1>11
  <2> QED
    BY <2>1, <1>12 DEF OverItsChildren
<1>19. \A q \in 1..n + 2 : OverItsChildren(qs, f2, h2, q)
  <2> TAKE q \in 1..n + 2
  <2>1. CASE q \notin {r, n + 1, n + 2}
    <3>1. q \in 1..n /\ qs[q] = ps[q] /\ f2[q] = fence[q] /\ h2[q] = height[q]
      BY <2>1, <1>1, <1>4, <1>5, <1>6
    <3> QED
      BY <3>1, <1>15 DEF OverItsChildren
  <2> QED
    BY <2>1, <1>17, <1>18
<1>20. \A q, m \in 1..n + 2 : h2[q] = h2[m] /\ q # m =>
         \A x \in Keys : ~ (Within(x, f2[q]) /\ Within(x, f2[m]))
  <2>1. \A x \in Keys : ~ (Within(x, f2[n + 1]) /\ Within(x, f2[n + 2]))
    BY <1>1, <1>3, <1>5, <1>7, PartsOfFence
  <2>2. height[r] \in Nat /\ height[r] + 1 # height[r]
        /\ \A q \in 1..n : q # r => height[q] # height[r] /\ height[q] # height[r] + 1
    BY <1>1, <1>7
  <2> TAKE q, m \in 1..n + 2
  <2> SUFFICES ASSUME h2[q] = h2[m], q # m, NEW x \in Keys, Within(x, f2[q]), Within(x, f2[m])
               PROVE  FALSE
    OBVIOUS
  <2>3. CASE q \in {n + 1, n + 2} /\ m \in {n + 1, n + 2}
    BY <2>1, <2>3
  <2>4. CASE q \in {n + 1, n + 2} /\ m \notin {n + 1, n + 2}
    BY <2>2, <2>4, <1>4, <1>6
  <2>5. CASE q \notin {n + 1, n + 2} /\ m \in {n + 1, n + 2}
    BY <2>2, <2>5, <1>4, <1>6
  <2>6. CASE q \notin {n + 1, n + 2} /\ m \notin {n + 1, n + 2}
    <3>1. q \in 1..n /\ m \in 1..n
      BY <2>6, <1>4
    <3>2. q # r /\ m # r
      BY <3>1, <2>2, <1>6
    <3>3. height[q] = height[m] /\ Within(x, fence[q]) /\ Within(x, fence[m])
      BY <3>1, <3>2, <1>5, <1>6
    <3> QED
      BY <3>1, <3>3, <1>0, <1>1, SamePage
  <2> QED
    BY <2>3, <2>4, <2>5, <2>6
<1>21. f2[r] = [lo |-> MinKey, hi |-> MaxKey] /\ r \in DOMAIN qs
  BY <1>1, <1>4, <1>5, <1>7
<1> QED
  BY <1>1, <1>13, <1>14, <1>19, <1>20, <1>21 DEF IsTree

-------------------------------------------------------------------------
(* The descent for a key.                                                  *)

(* Where a search for k ends up among the pages of a fence. *)
Nearest(k, f) == IF k < f.lo THEN f.lo ELSE IF f.hi < k THEN f.hi ELSE k

(* The child that a search goes on with owns that key as well. *)
LEMMA SearchStays ==
  ASSUME NEW ps, NEW r, NEW fence, NEW height, IsTree(ps, r, fence, height),
         NEW p \in DOMAIN ps, ~IsLeafPage(ps[p]), NEW k \in Keys,
         NEW c, c = ps[p].kids[ChildPos(ps[p], k)]
  PROVE  /\ c \in DOMAIN ps /\ height[c] < height[p]
         /\ Nearest(k, fence[c]) = Nearest(k, fence[p])
         /\ Within(k, fence[p]) => Within(k, fence[c])
<1>1. Fitting(ps[p], Len(ps), fence[p])
  BY PageOf
<1>2. PICK i : i = ChildPos(ps[p], k)
  OBVIOUS
<1>3. i \in DOMAIN ps[p].kids
  BY <1>2, SearchFinds
<1>4. /\ c \in DOMAIN ps /\ height[c] + 1 = height[p] /\ i \in 1..Len(ps[p].seps) + 1
      /\ fence[c] = ChildFence(ps[p], i, fence[p])
      /\ Within(k, fence[c]) <=> Within(k, fence[p])
  BY <1>2, <1>3, ChildrenOf
<1>5. height[c] < height[p]
  BY <1>4, PageOf
<1>6. /\ Len(ps[p].seps) \in Nat /\ fence[p].lo \in Nat /\ fence[p].hi \in Nat
      /\ \A j \in 1..Len(ps[p].seps) : /\ ps[p].seps[j] \in Nat /\ fence[p].lo < ps[p].seps[j]
                                       /\ ps[p].seps[j] <= fence[p].hi
  BY <1>1, Separators
<1>7. \A j \in 1..Len(ps[p].seps) : ps[p].seps[j] <= k <=> j < i
  BY <1>1, <1>2, ChildPosIs
<1>8. /\ fence[c].lo = IF i = 1 THEN fence[p].lo ELSE ps[p].seps[i - 1]
      /\ fence[c].hi = IF i = Len(ps[p].seps) + 1 THEN fence[p].hi ELSE ps[p].seps[i] - 1
      /\ fence[p].lo <= fence[c].lo /\ fence[c].hi <= fence[p].hi
      /\ fence[c].lo <= fence[c].hi
  BY <1>1, <1>4, ChildFenceIs
<1>9. k \in Nat
  BY Numbers
<1>10. CASE k < fence[p].lo
  <2>1. i = 1
    <3>1. SUFFICES ASSUME i # 1 PROVE FALSE
      OBVIOUS
    <3>2. i - 1 \in 1..Len(ps[p].seps) /\ i - 1 < i
      BY <3>1, <1>4, <1>6
    <3>3. ps[p].seps[i - 1] <= k
      BY <3>2, <1>7
    <3>4. fence[p].lo < ps[p].seps[i - 1] /\ ps[p].seps[i - 1] \in Nat
      BY <3>2, <1>6
    <3> QED
      BY <3>3, <3>4, <1>6, <1>9, <1>10
  <2> QED
    BY <2>1, <1>4, <1>5, <1>8, <1>10 DEF Nearest
<1>11. CASE fence[p].hi < k
  <2>1. i = Len(ps[p].seps) + 1
    <3>1. SUFFICES ASSUME i # Len(ps[p].seps) + 1 PROVE FALSE
      OBVIOUS
    <3>2. i \in 1..Len(ps[p].seps) /\ ~ (i < i)
      BY <3>1, <1>4, <1>6
    <3>3. ~ (ps[p].seps[i] <= k)
      BY <3>2, <1>7
    <3>4. ps[p].seps[i] <= fence[p].hi /\ ps[p].seps[i] \in Nat
      BY <3>2, <1>6
    <3> QED
      BY <3>3, <3>4, <1>6, <1>9, <1>11
  <2>2. fence[c].hi = fence[p].hi /\ fence[c].lo <= fence[p].hi
    BY <2>1, <1>8
  <2>3. fence[c].lo \in Nat
    BY <1>4, PageOf, Numbers
  <2>4. ~ (k < fence[c].lo) /\ ~ (k < fence[p].lo)
    <3>1. fence[p].lo <= fence[p].hi
      BY PageOf
    <3> QED
      BY <3>1, <2>2, <2>3, <1>6, <1>9, <1>11
  <2> QED
    BY <2>2, <2>4, <1>4, <1>5, <1>11 DEF Nearest
<1>12. CASE ~ (k < fence[p].lo) /\ ~ (fence[p].hi < k)
  <2>1. Within(k, fence[p])
    BY <1>6, <1>9, <1>12 DEF Within
  <2>2. fence[c].lo <= k /\ k <= fence[c].hi /\ fence[c].lo \in Nat /\ fence[c].hi \in Nat
    BY <2>1, <1>4, PageOf, Numbers DEF Within
  <2>3. ~ (k < fence[c].lo) /\ ~ (fence[c].hi < k)
    BY <2>2, <1>9
  <2> QED
    BY <2>3, <1>4, <1>5, <1>12 DEF Nearest
<1> QED
  BY <1>10, <1>11, <1>12

(* Every key has a leaf. *)
LEMMA KeyHasLeaf ==
  ASSUME NEW ps, NEW r, NEW fence, NEW height, IsTree(ps, r, fence, height), NEW k \in Keys
  PROVE  \E q \in DOMAIN ps : IsLeafPage(ps[q]) /\ Within(k, fence[q])
<1> DEFINE H == {height[p] : p \in {q \in DOMAIN ps : Within(k, fence[q])}}
<1>1. \A p \in DOMAIN ps : height[p] \in Nat
  BY PageOf
<1>2. r \in DOMAIN ps /\ Within(k, fence[r])
  BY TreeOf
<1>3. H \subseteq Nat /\ H # {}
  BY <1>1, <1>2
<1> HIDE DEF H
<1>4. PICK x \in H : \A y \in H : x <= y
  BY <1>3, Least
<1>5. PICK p \in DOMAIN ps : Within(k, fence[p]) /\ height[p] = x
  BY <1>4 DEF H
<1>6. ASSUME ~IsLeafPage(ps[p]) PROVE FALSE
  <2>1. PICK c : c = ps[p].kids[ChildPos(ps[p], k)]
    OBVIOUS
  <2>2. c \in DOMAIN ps /\ height[c] < height[p] /\ Within(k, fence[c])
    BY <2>1, <1>5, <1>6, SearchStays
  <2>3. height[c] \in H
    BY <2>2 DEF H
  <2>4. height[p] \in Nat /\ height[c] \in Nat
    BY <2>2, <1>1
  <2> QED
    BY <2>2, <2>3, <2>4, <1>4, <1>5
<1> QED
  BY <1>5, <1>6

(* A function that goes down the tree one child at a time. *)
GoesDown(below, ps, k) ==
  below = [p \in DOMAIN ps |->
             IF IsLeafPage(ps[p]) THEN p ELSE below[ps[p].kids[ChildPos(ps[p], k)]]]

(* There is one: from any page it comes to the leaf of the nearest key. *)
LEMMA DescentExists ==
  ASSUME NEW ps, NEW r, NEW fence, NEW height, IsTree(ps, r, fence, height), NEW k \in Keys
  PROVE  \E below : GoesDown(below, ps, k)
<1> DEFINE leaf(x) == CHOOSE q \in DOMAIN ps : IsLeafPage(ps[q]) /\ Within(x, fence[q])
           near(p) == Nearest(k, fence[p])
           below == [p \in DOMAIN ps |-> leaf(near(p))]
<1>1. ASSUME NEW p \in DOMAIN ps
      PROVE  near(p) \in Keys /\ Within(near(p), fence[p])
  <2>1. fence[p].lo \in Keys /\ fence[p].hi \in Keys /\ fence[p].lo <= fence[p].hi
    BY PageOf
  <2>2. fence[p].lo \in Nat /\ fence[p].hi \in Nat /\ k \in Nat
    BY <2>1, Numbers
  <2> QED
    BY <2>1, <2>2 DEF Nearest, Within
<1>2. ASSUME NEW p \in DOMAIN ps, IsLeafPage(ps[p])
      PROVE  leaf(near(p)) = p
  <2>1. PICK x : x = near(p)
    OBVIOUS
  <2>2. x \in Keys /\ Within(x, fence[p])
    BY <2>1, <1>1
  <2>3. leaf(x) \in DOMAIN ps /\ IsLeafPage(ps[leaf(x)]) /\ Within(x, fence[leaf(x)])
    BY <2>2, <1>2
  <2>4. PICK q : q = leaf(x)
    OBVIOUS
  <2>5. q \in DOMAIN ps /\ height[p] = height[q] /\ Within(x, fence[q])
    BY <2>3, <2>4, <1>2, PageOf
  <2>6. p = q
    BY <2>2, <2>5, SamePage
  <2> QED
    BY <2>1, <2>4, <2>6
<1>3. ASSUME NEW p \in DOMAIN ps, ~IsLeafPage(ps[p]), NEW c, c = ps[p].kids[ChildPos(ps[p], k)]
      PROVE  c \in DOMAIN ps /\ near(c) = near(p)
  BY <1>3, SearchStays
<1>4. \A p \in DOMAIN ps : below[p] = IF IsLeafPage(ps[p]) THEN p ELSE below[ps[p].kids[ChildPos(ps[p], k)]]
  <2> HIDE DEF leaf, near
  <2> TAKE p \in DOMAIN ps
  <2>1. CASE IsLeafPage(ps[p])
    BY <2>1, <1>2
  <2>2. CASE ~IsLeafPage(ps[p])
    <3>1. PICK c : c = ps[p].kids[ChildPos(ps[p], k)]
      OBVIOUS
    <3> QED
      BY <3>1, <2>2, <1>3
  <2> QED
    BY <2>1, <2>2
<1>5. below = [p \in DOMAIN ps |-> below[p]]
  OBVIOUS
<1> HIDE DEF below
<1> QED
  BY <1>4, <1>5 DEF GoesDown

(* However one goes down from the root, one comes to the leaf of the key,  *)
(* which is the only one that may hold it (LeafOf and Has of the trees).   *)
THEOREM DescentEnds ==
  ASSUME NEW ps, NEW r, NEW fence, NEW height, IsTree(ps, r, fence, height), NEW k \in Keys,
         NEW below, GoesDown(below, ps, k)
  PROVE  /\ below[r] \in DOMAIN ps /\ IsLeafPage(ps[below[r]]) /\ Within(k, fence[below[r]])
         /\ \A q \in DOMAIN ps : IsLeafPage(ps[q]) /\ Within(k, fence[q]) => q = below[r]
<1> DEFINE Good(q) == q \in DOMAIN ps /\ IsLeafPage(ps[q]) /\ Within(k, fence[q])
           H == {height[p] : p \in {q \in DOMAIN ps : Within(k, fence[q]) /\ ~Good(below[q])}}
<1>1. \A p \in DOMAIN ps : height[p] \in Nat
  BY PageOf
<1>2. \A p \in DOMAIN ps : below[p] = IF IsLeafPage(ps[p]) THEN p ELSE below[ps[p].kids[ChildPos(ps[p], k)]]
  BY DEF GoesDown
<1>3. H \subseteq Nat
  BY <1>1
<1>4. H = {}
  <2>1. SUFFICES ASSUME H # {} PROVE FALSE
    OBVIOUS
  <2> HIDE DEF H
  <2>2. PICK x \in H : \A y \in H : x <= y
    BY <2>1, <1>3, Least
  <2> HIDE DEF Good
  <2>3. PICK p \in DOMAIN ps : Within(k, fence[p]) /\ ~Good(below[p]) /\ height[p] = x
    BY <2>2 DEF H
  <2>4. CASE IsLeafPage(ps[p])
    BY <2>3, <2>4, <1>2 DEF Good
  <2>5. CASE ~IsLeafPage(ps[p])
    <3>1. PICK c : c = ps[p].kids[ChildPos(ps[p], k)]
      OBVIOUS
    <3>2. c \in DOMAIN ps /\ height[c] < height[p] /\ Within(k, fence[c])
      BY <3>1, <2>3, <2>5, SearchStays
    <3>3. ~Good(below[c])
      BY <3>1, <2>3, <2>5, <1>2
    <3>4. height[c] \in H
      BY <3>2, <3>3 DEF H
    <3>5. height[p] \in Nat /\ height[c] \in Nat
      BY <3>2, <1>1
    <3> QED
      BY <3>2, <3>4, <3>5, <2>2, <2>3
  <2> QED
    BY <2>4, <2>5
<1>5. r \in DOMAIN ps /\ Within(k, fence[r])
  BY TreeOf
<1>6. Good(below[r])
  BY <1>4, <1>5
<1>7. ASSUME NEW q \in DOMAIN ps, IsLeafPage(ps[q]), Within(k, fence[q])
      PROVE  q = below[r]
  <2>1. PICK b : b = below[r]
    OBVIOUS
  <2>2. b \in DOMAIN ps /\ height[q] = height[b] /\ Within(k, fence[b])
    BY <2>1, <1>6, <1>7, PageOf
  <2>3. q = b
    BY <2>2, <1>7, SamePage
  <2> QED
    BY <2>1, <2>3
<1> QED
  BY <1>6, <1>7

-------------------------------------------------------------------------
(* What a split leaves to those who look at the tree.                      *)

(* The new root has one separator, and the old pages their fences. *)
LEMMA RootOverHalves ==
  ASSUME NEW ps, NEW r, NEW fence, NEW height, NEW h, NEW n,
         RootSplits(ps, r, fence, height, h, n),
         NEW qs, qs = RootPages(ps, r, h), NEW f2, f2 = RootFence(fence, r, n, h.sep)
  PROVE  /\ DOMAIN ps \subseteq DOMAIN qs
         /\ ~IsLeafPage(qs[r]) /\ Room(qs[r]) /\ ~HasOverflow(qs[r])
         /\ \A q \in DOMAIN ps : f2[q] = fence[q] /\ (q # r => qs[q] = ps[q])
         /\ \A q \in DOMAIN qs \ DOMAIN ps : Room(qs[q]) /\ ~HasUnderflow(qs[q])
<1>1. IsTree(ps, r, fence, height) /\ n = Len(ps)
  BY DEF RootSplits
<1>2. AfterRootSplit(ps, r, fence, h, n, qs)
  BY PagesOfRootSplit
<1>3. /\ n \in Nat /\ DOMAIN ps = 1..n /\ r \in 1..n
      /\ IsCut(h, ps[r], fence[r], n) /\ DOMAIN qs = 1..n + 2
      /\ qs[r] = IndexPage(<<h.sep>>, <<n + 1, n + 2>>) /\ qs[n + 1] = h.left /\ qs[n + 2] = h.right
      /\ \A q \in 1..n : q # r => qs[q] = ps[q]
  BY <1>2 DEF AfterRootSplit
<1>4. PICK k, f, new : k = h.sep /\ f = fence[r] /\ new = IndexPage(<<k>>, <<n + 1, n + 2>>)
  OBVIOUS
<1>5. /\ k \in Keys /\ f.lo < k /\ k <= f.hi /\ k < MaxKey
      /\ Room(h.left) /\ ~HasUnderflow(h.left) /\ Room(h.right) /\ ~HasUnderflow(h.right)
  BY <1>3, <1>4 DEF IsCut, HalfOf
<1>6. f \in Fences
  BY <1>1, <1>3, <1>4, PageOf
<1>7. ~IsLeafPage(new) /\ Len(new.seps) = 1
  BY <1>3, <1>4, <1>5, <1>6, NewRoot
<1>8. FanOut \in Nat /\ FanOut >= 5
  BY FanOutAssumption
<1>9. Room(new) /\ ~HasOverflow(new)
  BY <1>7, <1>8 DEF Room, HasOverflow, PageLen
<1>10. /\ \A q \in 1..n : q \in 1..n + 2 /\ q # n + 1 /\ q # n + 2
       /\ \A q \in 1..n + 2 : q \in 1..n \/ q = n + 1 \/ q = n + 2
  BY <1>3
<1>11. \A q \in 1..n : f2[q] = fence[q]
  BY <1>10 DEF RootFence
<1> QED
  BY <1>3, <1>4, <1>5, <1>7, <1>9, <1>10, <1>11

(* A parent that is not full has room for one child more. *)
LEMMA RoomForChild ==
  ASSUME NEW page, NEW new, ~IsLeafPage(page), ~IsLeafPage(new), Len(page.seps) \in Nat,
         Len(new.seps) = Len(page.seps) + 1, ~HasOverflow(page)
  PROVE  Room(new) /\ (~HasUnderflow(page) => ~HasUnderflow(new))
<1>1. FanOut \in Nat /\ FanOut >= 5
  BY FanOutAssumption
<1>2. PageLen(page) = Len(page.seps) /\ PageLen(new) = Len(page.seps) + 1
  BY DEF PageLen
<1>3. PICK m : m = (FanOut - 1) \div 2 - 1
  OBVIOUS
<1>4. m \in Int
  BY <1>1, <1>3
<1>5. (HasUnderflow(page) <=> Len(page.seps) < m) /\ (HasUnderflow(new) <=> Len(page.seps) + 1 < m)
  BY <1>2, <1>3 DEF HasUnderflow
<1>6. Room(new)
  BY <1>1, <1>2 DEF HasOverflow, Room
<1> QED
  BY <1>4, <1>5, <1>6

(* The two halves of a child take over its keys, and nobody else's. *)
LEMMA ChildOverHalves ==
  ASSUME NEW ps, NEW r, NEW fence, NEW height, NEW p, NEW pos, NEW c, NEW h, NEW n,
         Splits(ps, r, fence, height, p, pos, c, h, n), ~HasOverflow(ps[p]),
         \A q \in DOMAIN ps : Room(ps[q]) /\ (q # r => ~HasUnderflow(ps[q])),
         NEW qs, qs = SplitPages(ps, p, pos, c, h),
         NEW f2, f2 = SplitFence(fence, c, n, h.sep)
  PROVE  /\ DOMAIN ps \subseteq DOMAIN qs /\ n + 1 \notin DOMAIN ps
         /\ \A q \in DOMAIN ps : /\ IsLeafPage(qs[q]) <=> IsLeafPage(ps[q])
                                 /\ q # c => f2[q] = fence[q]
                                 /\ q \notin {p, c} => qs[q] = ps[q]
                                 /\ f2[q].hi \in Nat /\ f2[q].hi <= fence[q].hi
         /\ \A q \in DOMAIN qs : Room(qs[q]) /\ (q # r => ~HasUnderflow(qs[q]))
         /\ ~HasOverflow(qs[c]) /\ ~HasOverflow(qs[n + 1])
         /\ \A x \in Keys : Within(x, fence[c]) => qs[p].kids[ChildPos(qs[p], x)] \in {c, n + 1}
<1>1. /\ IsTree(ps, r, fence, height) /\ n = Len(ps)
      /\ p \in DOMAIN ps /\ pos \in DOMAIN ps[p].kids /\ c = ps[p].kids[pos]
  BY DEF Splits
<1>2. AfterSplit(ps, fence, p, pos, c, h, n, qs)
  BY PagesOfSplit
<1>3. /\ n \in Nat /\ DOMAIN ps = 1..n /\ c \in 1..n /\ c # p /\ p \in 1..n
      /\ IsCut(h, ps[c], fence[c], n) /\ DOMAIN qs = 1..n + 1
      /\ qs[p] = AddChild(ps[p], pos, h.sep, n + 1) /\ qs[c] = h.left /\ qs[n + 1] = h.right
      /\ \A q \in 1..n : q \notin {p, c} => qs[q] = ps[q]
  BY <1>2 DEF AfterSplit
<1>4. PICK k, g, new : k = h.sep /\ g = fence[c] /\ new = qs[p]
  OBVIOUS
<1>5. /\ k \in Keys /\ g.lo < k /\ k <= g.hi /\ k < MaxKey
      /\ Room(h.left) /\ ~HasUnderflow(h.left) /\ Room(h.right) /\ ~HasUnderflow(h.right)
      /\ ~HasOverflow(h.left) /\ ~HasOverflow(h.right)
      /\ IsLeafPage(h.left) <=> IsLeafPage(ps[c])
  BY <1>3, <1>4 DEF IsCut, HalfOf
<1>6. /\ ~IsLeafPage(ps[p]) /\ pos \in 1..Len(ps[p].seps) + 1
      /\ g = ChildFence(ps[p], pos, fence[p]) /\ height[c] + 1 = height[p]
  BY <1>1, <1>4, ChildrenOf
<1>7. Fitting(ps[p], n, fence[p]) /\ IsPage(ps[p], n) /\ g \in Fences
  BY <1>1, <1>3, <1>4, PageOf
<1>8. MayCut(ps[p], n, fence[p], pos, g, k)
  BY <1>3, <1>5, <1>6, <1>7 DEF MayCut
<1>9. /\ ~IsLeafPage(new) /\ Len(new.seps) = Len(ps[p].seps) + 1
      /\ DOMAIN new.kids = 1..Len(ps[p].seps) + 2
  BY <1>3, <1>4, <1>8, ChildAdded
<1>10. Len(ps[p].seps) \in Nat
  BY <1>6, <1>7, KidsOf
<1>11. Room(new) /\ (~HasUnderflow(ps[p]) => ~HasUnderflow(new))
  BY <1>6, <1>9, <1>10, RoomForChild
<1>12. /\ \A q \in 1..n : q \in 1..n + 1 /\ q # n + 1
       /\ \A q \in 1..n + 1 : q \in 1..n \/ q = n + 1
       /\ n + 1 \notin 1..n /\ n + 1 \in 1..n + 1
  BY <1>3
<1>13. /\ f2[n + 1] = UpperPart(g, k) /\ f2[c] = LowerPart(g, k)
       /\ \A q \in 1..n : q # c => f2[q] = fence[q]
  BY <1>3, <1>4, <1>12 DEF SplitFence
<1>14. ASSUME NEW q \in 1..n PROVE f2[q].hi \in Nat /\ f2[q].hi <= fence[q].hi
  <2>1. fence[q].hi \in Nat
    BY <1>1, <1>3, PageOf, Numbers
  <2>2. CASE q # c
    BY <2>1, <2>2, <1>13
  <2>3. CASE q = c
    <3>1. k \in Nat /\ g.hi \in Nat /\ MinKey = 0 /\ g.lo \in Nat
      BY <1>5, <1>7, Numbers DEF Fences
    <3>2. LowerPart(g, k).hi = k - 1
      BY <1>5, <1>7, PartsOfFence
    <3>3. k - 1 \in Nat /\ k - 1 <= g.hi
      BY <3>1, <1>5
    <3> QED
      BY <2>3, <3>2, <3>3, <1>4, <1>13
  <2> QED
    BY <2>2, <2>3
<1>15. ASSUME NEW q \in 1..n + 1 PROVE Room(qs[q]) /\ (q # r => ~HasUnderflow(qs[q]))
  <2>1. CASE q = p
    BY <2>1, <1>1, <1>4, <1>11
  <2>2. CASE q = c \/ q = n + 1
    BY <2>2, <1>3, <1>5
  <2>3. CASE q \notin {p, c, n + 1}
    BY <2>3, <1>3, <1>12
  <2> QED
    BY <2>1, <2>2, <2>3
<1>16. ASSUME NEW x \in Keys, Within(x, g) PROVE new.kids[ChildPos(new, x)] \in {c, n + 1}
  <2>1. PICK h2, i, d : h2 = SplitHeight(height, c, n) /\ i = ChildPos(new, x) /\ d = new.kids[i]
    OBVIOUS
  <2>2. IsTree(qs, r, f2, h2)
    BY <2>1, ChildIsSplit
  <2>3. p \in DOMAIN qs /\ ~IsLeafPage(qs[p]) /\ c \in DOMAIN qs /\ n + 1 \in DOMAIN qs
    BY <1>3, <1>4, <1>9, <1>12
  <2>4. i \in DOMAIN qs[p].kids
    BY <2>1, <2>2, <2>3, <1>4, SearchFinds
  <2>5. /\ d \in DOMAIN qs /\ h2[d] + 1 = h2[p]
        /\ Within(x, f2[d]) <=> Within(x, f2[p]) /\ i = ChildPos(qs[p], x)
    BY <2>1, <2>2, <2>3, <2>4, <1>4, ChildrenOf
  <2>6. Within(x, fence[p])
    <3>1. \A y \in Keys : Within(y, fence[c]) => Within(y, fence[p])
      BY <1>1, ChildrenOf
    <3> QED
      BY <3>1, <1>4, <1>16
  <2>7. Within(x, f2[d])
    BY <2>1, <2>5, <2>6, <1>3, <1>4, <1>13
  <2>8. h2[n + 1] = height[c] /\ h2[c] = height[c] /\ h2[p] = height[p]
    BY <2>1, <1>3, <1>12 DEF SplitHeight
  <2>9. height[c] \in Nat /\ h2[d] \in Nat
    BY <2>2, <2>5, <1>1, <1>3, PageOf
  <2>10. h2[d] = height[c]
    BY <2>5, <2>8, <2>9, <1>6
  <2>11. Within(x, f2[c]) \/ Within(x, f2[n + 1])
    BY <1>5, <1>7, <1>13, <1>16, PartsOfFence
  <2>12. CASE Within(x, f2[c])
    <3>1. d = c
      BY <2>2, <2>3, <2>5, <2>7, <2>8, <2>10, <2>12, SamePage
    <3> QED
      BY <3>1, <2>1
  <2>13. CASE Within(x, f2[n + 1])
    <3>1. d = n + 1
      BY <2>2, <2>3, <2>5, <2>7, <2>8, <2>10, <2>13, SamePage
    <3> QED
      BY <3>1, <2>1
  <2> QED
    BY <2>11, <2>12, <2>13
<1>17. \A q \in 1..n : IsLeafPage(qs[q]) <=> IsLeafPage(ps[q])
  BY <1>3, <1>4, <1>5, <1>6, <1>9
<1> QED
  BY <1>3, <1>4, <1>5, <1>12, <1>13, <1>14, <1>15, <1>16, <1>17

-------------------------------------------------------------------------
(* What threads keep in sequences: paths and guards.                       *)

(* The first elements of a sequence. *)
LEMMA FirstOf ==
  ASSUME NEW R, NEW s \in Seq(R), NEW m \in Nat, m <= Len(s), NEW q, q = SubSeq(s, 1, m)
  PROVE  /\ q \in Seq(R) /\ Len(q) = m /\ DOMAIN q = 1..m /\ DOMAIN s = 1..Len(s)
         /\ \A i \in 1..m : q[i] = s[i] /\ i \in 1..Len(s)
         /\ m # 0 => q # <<>>
         /\ m = 0 => q = <<>>
<1>1. Len(s) \in Nat /\ DOMAIN s = 1..Len(s)
  BY LenProperties
<1>2. 1 \in 1..Len(s) + 1 /\ m \in (1 - 1)..Len(s)
  BY <1>1
<1>3. /\ q \in Seq(R) /\ Len(q) = m - 1 + 1
      /\ \A i \in 1..(m - 1 + 1) : q[i] = s[1 + i - 1]
  BY <1>2, Part, Zenon
<1>4. m - 1 + 1 = m
  OBVIOUS
<1>5. \A i \in 1..m : 1 + i - 1 = i /\ i \in 1..Len(s)
  BY <1>1
<1>6. q \in Seq(R) /\ Len(q) = m
  BY <1>3, <1>4
<1>7. DOMAIN q = 1..m
  BY <1>6, LenProperties
<1>8. m # 0 => q # <<>>
  BY <1>6, NotEmpty
<1>9. m = 0 => q = <<>>
  BY <1>6, EmptySeq
<1> QED
  BY <1>1, <1>3, <1>4, <1>5, <1>6, <1>7, <1>8, <1>9

(* The last of some positions. *)
LEMMA LastOf ==
  ASSUME NEW n \in Nat, NEW S, S \subseteq 1..n, S # {}
  PROVE  Largest(S) \in S
<1> DEFINE Gaps == {n - y : y \in S}
<1>1. \A y \in S : y \in Nat /\ y <= n /\ n - y \in Nat
  OBVIOUS
<1>2. Gaps \subseteq Nat /\ Gaps # {}
  BY <1>1
<1>3. PICK g \in Gaps : \A x \in Gaps : g <= x
  BY <1>2, Least
<1>4. PICK z \in S : g = n - z
  OBVIOUS
<1>5. ASSUME NEW y \in S PROVE z >= y
  <2>1. n - z <= n - y
    BY <1>3, <1>4
  <2>2. y \in Nat /\ z \in Nat
    BY <1>1
  <2> HIDE DEF Gaps
  <2> QED
    BY <2>1, <2>2
<1> QED
  BY <1>5 DEF Largest

(* One record more on a leaf: it fits, and the leaf grows no thinner.      *)
LEMMA OneMore ==
  ASSUME NEW S, S \subseteq Keys, NEW k \in Keys, Cardinality(S) < NumRecords
  PROVE  /\ Room(LeafPage(S \cup {k}))
         /\ ~HasUnderflow(LeafPage(S)) => ~HasUnderflow(LeafPage(S \cup {k}))
<1>1. IsFiniteSet(S) /\ Cardinality(S) \in Nat
  BY KeySetsAreFinite
<1>2. Cardinality(S \cup {k}) = Cardinality(S) \/ Cardinality(S \cup {k}) = Cardinality(S) + 1
  BY <1>1, FS_AddElement
<1>3. NumRecords \in Nat
  BY Numbers
<1>4. \A T : IsLeafPage(LeafPage(T)) /\ LeafPage(T).recs = T
  BY DEF IsLeafPage, LeafPage
<1>5. Cardinality(S \cup {k}) <= NumRecords
  BY <1>1, <1>2, <1>3
<1>6. Room(LeafPage(S \cup {k}))
  BY <1>4, <1>5 DEF Room
<1>7. \A T : HasUnderflow(LeafPage(T)) <=> Cardinality(T) < (NumRecords \div 2) - 1
  BY <1>4, Zenon DEF HasUnderflow, PageLen
<1>8. PICK m : m = (NumRecords \div 2) - 1
  OBVIOUS
<1>9. m \in Int
  BY <1>3, <1>8
<1>10. ~ (Cardinality(S) < m) => ~ (Cardinality(S \cup {k}) < m)
  BY <1>1, <1>2, <1>9
<1> QED
  BY <1>6, <1>7, <1>8, <1>10

=========================================================================
