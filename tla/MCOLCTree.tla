---------------------------- MODULE MCOLCTree ----------------------------
(* Small trees that are about to change shape: a leaf to split, an index   *)
(* root to split in place, an inner index page to split under its root.    *)
EXTENDS OLCTree

CONSTANTS t1, t2, t3

On(op, ks)  == {[op |-> op, key |-> k, upto |-> k] : k \in ks}
Ins(ks)     == On("Insert", ks)
Rng(lo, hi) == {[op |-> "Range", key |-> lo, upto |-> hi]}
AtMin(op)   == On(op, {MinKey})
AtMax(op)   == On(op, {MaxKey})

(* What t1, t2 and t3 may be asked to do. *)
Work(a, b, c) ==
  {f \in [Threads -> a \cup b \cup c] :
     /\ f[t1] \in a /\ f[t2] \in b
     /\ t3 \in Threads => f[t3] \in c}

(* A root with room, above a full leaf and one with a single record. *)
TwoLevels(flavour_) ==
  [root |-> 1,
   pages |-> << IndexPage(<<6>>, <<2, 3>>), LeafPage({2, 4}), LeafPage({6}) >>,
   dead |-> {},
   calls |-> Work(Ins({1, 7}), Ins({3}), On("Update", {4}) \cup On("Point", {4})),
   flavour |-> flavour_]

(* The same with a full leaf on the right: what stands at the ends changes. *)
Ends ==
  [root |-> 1,
   pages |-> << IndexPage(<<6>>, <<2, 3>>), LeafPage({2, 4}), LeafPage({6, 8}) >>,
   dead |-> {8},
   calls |-> Work(Ins({1, 9}), AtMin("PopMin") \cup AtMax("PopMax"),
                  AtMin("PopMin") \cup AtMin("PeekMin") \cup AtMax("PeekMax")),
   flavour |-> OLC]

(* Ranges over leaves that split while they are read. *)
Ranges ==
  [root |-> 1,
   pages |-> << IndexPage(<<6>>, <<2, 3>>), LeafPage({2, 4}), LeafPage({6, 8}) >>,
   dead |-> {},
   calls |-> Work(Ins({3, 7}), Ins({5}) \cup On("Delete", {6}), Rng(2, 8)),
   flavour |-> OLC]

(* A root that the next insert splits in place. *)
FullRoot ==
  [root |-> 1,
   pages |-> << IndexPage(<<3, 5, 7>>, <<2, 3, 4, 5>>),
                LeafPage({1}), LeafPage({3, 4}), LeafPage({5}), LeafPage({7, 8}) >>,
   dead |-> {},
   calls |-> Work(Ins({9}), Ins({2}), On("Update", {8}) \cup On("Point", {4}) \cup Rng(4, 8)),
   flavour |-> OLC]

(* A full index page under the root. *)
ThreeLevels ==
  [root |-> 1,
   pages |-> << IndexPage(<<9>>, <<2, 3>>),
                IndexPage(<<3, 5, 7>>, <<4, 5, 6, 7>>), IndexPage(<<11>>, <<8, 9>>),
                LeafPage({1}), LeafPage({3}), LeafPage({5}), LeafPage({7, 8}),
                LeafPage({9}), LeafPage({11}) >>,
   dead |-> {},
   calls |-> Work(Ins({2}), Ins({6}), On("Point", {8}) \cup Rng(5, 9)),
   flavour |-> OLC]

(* The only page is a full leaf: one writer, that stays on the left. *)
LeafRootReads ==
  [root |-> 1,
   pages |-> << LeafPage({2, 4}) >>,
   dead |-> {},
   calls |-> Work(Ins({1}) \cup On("Update", {2}), On("Point", {2}), On("Point", {4})),
   flavour |-> OLC]

(* The same, and anything goes. *)
LeafRoot ==
  [LeafRootReads EXCEPT !.calls = Work(Ins({1, 3, 5}), Ins({1, 5}), On("Point", {2}))]

Lightweight ==
  [TwoLevels(LHL) EXCEPT !.calls = Work(Ins({1}), Ins({3}), On("Update", {4}))]

Trees == {TwoLevels(OLC), Lightweight, Ends, Ranges, FullRoot, ThreeLevels, LeafRootReads}
LeafRoots == {LeafRoot}
=========================================================================
