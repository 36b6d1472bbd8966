---------------------------- MODULE TreePages ----------------------------
(***************************************************************************)
(* The pages of the B+-tree as values, and what the tree does to them:     *)
(* InternalPage and LeafPage with the arrays behind ShadowVec, the search  *)
(* for a child, the cut of a full page and the union of two thin ones.     *)
(* Separators and children are sequences, the records of a leaf the set of *)
(* their keys; page numbers stand for the shared pointers to cells.        *)
(***************************************************************************)
EXTENDS Naturals, FiniteSets, Sequences, SequencesExt

CONSTANTS
  FanOut,      \* children that fit in an index page
  NumRecords,  \* records that fit in a leaf
  MaxKey       \* the greatest key, kept free as the bound of every search

ASSUME FanOutAssumption     == FanOut \in Nat /\ FanOut >= 5
ASSUME NumRecordsAssumption == NumRecords \in Nat /\ NumRecords >= 2
ASSUME MaxKeyAssumption     == MaxKey \in Nat /\ MaxKey > 0

MinKey == 0

Keys == MinKey..MaxKey

(* inc_key and dec_key stop at the ends of the key type. *)
Inc(k) == IF k = MaxKey THEN k ELSE k + 1
Dec(k) == IF k = MinKey THEN k ELSE k - 1

LeafPage(S)       == [seps |-> <<>>, kids |-> <<>>, recs |-> S]
IndexPage(ks, ps) == [seps |-> ks, kids |-> ps, recs |-> {}]

IsLeafPage(page) == page.kids = <<>>

PageLen(page) ==
  IF IsLeafPage(page) THEN Cardinality(page.recs) ELSE Len(page.seps)

(* Fault: a full leaf is not split yet. *)
HasOverflow_FullLeaf(page) ==
  PageLen(page) >= IF IsLeafPage(page) THEN NumRecords + 1 ELSE FanOut - 2

(* An index page is split one key early. *)
HasOverflow(page) ==
  PageLen(page) >= IF IsLeafPage(page) THEN NumRecords ELSE FanOut - 2

HasUnderflow(page) ==
  PageLen(page) < (IF IsLeafPage(page) THEN NumRecords ELSE FanOut - 1) \div 2 - 1

(* The binary search for the key's successor: a separator belongs to the   *)
(* child on its right.                                                     *)
ChildPos(page, k) == Cardinality({i \in DOMAIN page.seps : page.seps[i] < Inc(k)}) + 1

(* What the child at a position may hold, given what its page may hold. *)
ChildFence(page, pos, fence) ==
  [lo |-> IF pos = 1 THEN fence.lo ELSE page.seps[pos - 1],
   hi |-> IF pos > Len(page.seps) THEN fence.hi ELSE Dec(page.seps[pos])]

Smallest(S) == CHOOSE k \in S : \A j \in S : k <= j
Largest(S)  == CHOOSE k \in S : \A j \in S : k >= j

(* The keys of a set as records stand in a leaf. *)
InOrder(S) ==
  [i \in 1..Cardinality(S) |-> CHOOSE k \in S : Cardinality({j \in S : j < k}) = i - 1]

-------------------------------------------------------------------------
(* A page cut in two: the left half, the right half and the key between. *)

MiddleKey(S) == CHOOSE k \in S :
                  Cardinality({j \in S : j < k}) = Cardinality(S) \div 2

(* Faults: the middle record stays on the left, or a child is dropped. *)
HalvesOfLeaf_KeepsMiddle(page) ==
  LET k == MiddleKey(page.recs) IN
  [left  |-> LeafPage({j \in page.recs : j <= k}),
   right |-> LeafPage({j \in page.recs : j > k}),
   sep   |-> k]

HalvesOfLeaf(page) ==
  LET k == MiddleKey(page.recs) IN
  [left  |-> LeafPage({j \in page.recs : j < k}),
   right |-> LeafPage({j \in page.recs : j >= k}),
   sep   |-> k]

HalvesOfIndex_DropsChild(page) ==
  LET mid == Len(page.seps) \div 2
      n   == Len(page.seps) IN
  [left  |-> IndexPage(SubSeq(page.seps, 1, mid), SubSeq(page.kids, 1, mid + 1)),
   right |-> IndexPage(SubSeq(page.seps, mid + 1, n), SubSeq(page.kids, mid + 2, n + 1)),
   sep   |-> page.seps[mid + 1]]

HalvesOfIndex(page) ==
  LET mid == Len(page.seps) \div 2
      n   == Len(page.seps) IN
  [left  |-> IndexPage(SubSeq(page.seps, 1, mid), SubSeq(page.kids, 1, mid + 1)),
   right |-> IndexPage(SubSeq(page.seps, mid + 2, n), SubSeq(page.kids, mid + 2, n + 1)),
   sep   |-> page.seps[mid + 1]]

Halves(page) == IF IsLeafPage(page) THEN HalvesOfLeaf(page) ELSE HalvesOfIndex(page)

(* set_key_len: what lies beyond is forgotten. *)
KeepFirst(page, n) ==
  IF IsLeafPage(page)
    THEN LeafPage({k \in page.recs : Cardinality({j \in page.recs : j < k}) < n})
    ELSE IndexPage(SubSeq(page.seps, 1, n), SubSeq(page.kids, 1, n + 1))

(* The parent of a page that was cut: the new page right of the old one. *)
AddChild(page, pos, sep, kid) ==
  IndexPage(InsertAt(page.seps, pos, sep), InsertAt(page.kids, pos + 1, kid))

-------------------------------------------------------------------------
(* Two neighbours made one, or cut anew: do_underflow_correction and merge.*)

(* The child at a position, and the separator before it, are taken out. *)
DropChild(page, pos) ==
  IndexPage(RemoveAt(page.seps, pos - 1), RemoveAt(page.kids, pos))

Joined(left, sep, right) ==
  IF IsLeafPage(left)
    THEN LeafPage(left.recs \cup right.recs)
    ELSE IndexPage(left.seps \o <<sep>> \o right.seps, left.kids \o right.kids)

(* What two neighbours hold fits in one page. *)
FitTogether(left, right) ==
  PageLen(left) + PageLen(right) < IF IsLeafPage(left) THEN NumRecords ELSE FanOut - 1

(* Collecting: a leaf with few deleted records loses them before it is cut;*)
(* 0.4 of the capacity, rounded up.                                        *)
FewDead(page, dead) ==
  /\ IsLeafPage(page)
  /\ Cardinality(page.recs \cap dead) < (4 * NumRecords + 9) \div 10
-------------------------------------------------------------------------
(* What makes pages a search tree: every page has a height, and a fence    *)
(* which its parent gives it, and fences on the same height are disjoint.  *)

Within(k, f) == f.lo <= k /\ k <= f.hi

AnyPage(n) == [seps : Seq(Keys), kids : Seq(1..n), recs : SUBSET Keys]

IsPage(page, n) ==
  /\ page \in AnyPage(n)
  /\ IF IsLeafPage(page)
       THEN page.seps = <<>>
       ELSE page.recs = {} /\ page.seps # <<>> /\ Len(page.kids) = Len(page.seps) + 1

(* Separators ascend within the fence.  The greatest key stays free.       *)
KeysFit(page, f) ==
  /\ \A i, j \in DOMAIN page.seps : i < j => page.seps[i] < page.seps[j]
  /\ \A i \in DOMAIN page.seps : f.lo < page.seps[i] /\ Within(page.seps[i], f) /\ page.seps[i] < MaxKey
  /\ \A k \in page.recs : Within(k, f) /\ k < MaxKey

Fences == [lo : Keys, hi : Keys]

(* A page that may stand in a tree of n pages, with what it may hold. *)
Fitting(page, n, f) ==
  IsPage(page, n) /\ KeysFit(page, f) /\ f \in Fences /\ f.lo <= f.hi

(* It fits in its block. *)
Room(page) ==
  IF IsLeafPage(page) THEN Cardinality(page.recs) <= NumRecords ELSE Len(page.seps) <= FanOut - 1

(* Its children are one level below it, with the fences that it gives.     *)
OverItsChildren(ps, fence, height, p) ==
  \A i \in DOMAIN ps[p].kids :
    /\ height[ps[p].kids[i]] + 1 = height[p]
    /\ fence[ps[p].kids[i]] = ChildFence(ps[p], i, fence[p])

IsTree(ps, r, fence, height) ==
  /\ ps \in Seq(AnyPage(Len(ps)))
  /\ r \in DOMAIN ps /\ fence[r] = [lo |-> MinKey, hi |-> MaxKey]
  /\ \A p \in DOMAIN ps :
       /\ Fitting(ps[p], Len(ps), fence[p])
       /\ height[p] \in Nat /\ (IsLeafPage(ps[p]) <=> height[p] = 0)
       /\ p # r => height[p] < height[r]
       /\ OverItsChildren(ps, fence, height, p)
  /\ \A p, q \in DOMAIN ps : height[p] = height[q] /\ p # q =>
       \A k \in Keys : ~ (Within(k, fence[p]) /\ Within(k, fence[q]))

HeightsOf(ps) ==
  LET at[p \in DOMAIN ps] == IF IsLeafPage(ps[p]) THEN 0 ELSE at[ps[p].kids[1]] + 1
  IN  at

FencesOf(ps, r) ==
  LET above(p) == CHOOSE q \in DOMAIN ps : p \in ToSet(ps[q].kids)
      pos(p)   == CHOOSE i \in DOMAIN ps[above(p)].kids : ps[above(p)].kids[i] = p
      at[p \in DOMAIN ps] ==
        IF p = r THEN [lo |-> MinKey, hi |-> MaxKey]
                 ELSE ChildFence(ps[above(p)], pos(p), at[above(p)])
  IN  at
=====
