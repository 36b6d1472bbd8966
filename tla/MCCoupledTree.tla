-------------------------- MODULE MCCoupledTree --------------------------
(* Small trees about to change shape, and, with collection on, trees with  *)
(* leaves that lose deleted records or that have become thin by that.      *)
EXTENDS CoupledTree

CONSTANTS t1, t2, t3

On(op, ks)  == {[op |-> op, key |-> k, upto |-> k] : k \in ks}
Ins(ks)     == On("Insert", ks)
Rng(lo, hi) == {[op |-> "Range", key |-> lo, upto |-> hi]}
AtMin(op)   == On(op, {MinKey})
AtMax(op)   == On(op, {MaxKey})

(* What t1, t2 and t3 are asked to do. *)
Work(a, b, c) == {f \in [Threads -> a \cup b \cup c] : f[t1] \in a /\ f[t2] \in b /\ f[t3] \in c}

Start(strategy_, gc_, pages_, dead_, calls_) ==
  [strategy |-> strategy_, gc |-> gc_, root |-> 1, pages |-> pages_, dead |-> dead_, calls |-> calls_]

L(lo, n) == LeafPage(lo..(lo + n - 1))

Waiting == {LC, ORWC}

(* A full leaf between two others, and a range over all of them. *)
TwoLevels(s) ==
  Start(s, FALSE, << IndexPage(<<10, 20>>, <<2, 3, 4>>), L(2, 3), L(10, 8), L(22, 3) >>, {24},
        Work(Ins({18}) \cup On("Delete", {11}), Ins({20}) \cup AtMax("PopMax") \cup AtMin("PopMin"),
             Rng(3, 23) \cup On("Point", {16}) \cup On("Update", {6}) \cup AtMin("PeekMin") \cup AtMax("PeekMax")))

(* Two ranges and a writer; no claim that they end. *)
TwoRanges(s) ==
  Start(s, FALSE, << IndexPage(<<10>>, <<2, 3>>), L(2, 3), L(10, 8) >>, {},
        Work(Ins({9, 18}), Rng(2, 12), Rng(4, 17)))

(* A full root over a full leaf. *)
FullRoot(s) ==
  Start(s, FALSE, << IndexPage(<<5, 10, 15, 20, 25>>, <<2, 3, 4, 5, 6, 7>>),
                     L(0, 3), L(5, 3), L(10, 3), L(15, 3), L(20, 3), LeafPage(25..32) >>, {},
        Work(Ins({33}), Ins({9}), Rng(16, 30) \cup On("Update", {26})))

(* A full inner page over a full leaf. *)
ThreeLevels(s) ==
  Start(s, FALSE, << IndexPage(<<35>>, <<2, 3>>),
                     IndexPage(<<5, 10, 15, 20, 25>>, <<4, 5, 6, 7, 8, 9>>),
                     IndexPage(<<40, 45>>, <<10, 11, 12>>),
                     L(0, 3), L(5, 3), L(10, 3), L(15, 3), L(20, 3), LeafPage(25..32),
                     L(35, 3), L(40, 3), L(45, 3) >>, {},
        Work(Ins({33}), Ins({4}), Rng(22, 41)))

(* A split that collects, and then merges with what it left. *)
Collecting(s) ==
  Start(s, TRUE, << IndexPage(<<20>>, <<2, 3>>), L(10, 8), L(22, 7) >>, {11, 13, 22},
        Work(Ins({19}), Ins({9}) \cup On("Delete", {12}), Rng(10, 23) \cup AtMax("PopMax")))

(* Thin leaves: of three, of which the last two deal; of two, merged into  *)
(* the root; and the last of all.                                          *)
Thin(s) ==
  Start(s, TRUE, << IndexPage(<<10, 20>>, <<2, 3, 4>>), L(2, 2), L(10, 2), L(20, 7) >>, {},
        Work(Ins({4}) \cup On("Update", {10}), On("Update", {11}) \cup On("Delete", {3}), Rng(2, 12)))

ThinPair(s) ==
  Start(s, TRUE, << IndexPage(<<10>>, <<2, 3>>), L(2, 2), L(10, 3) >>, {3},
        Work(Ins({4}), On("Update", {11}) \cup Ins({1}), On("Point", {12}) \cup Rng(2, 11)))

ThinLast(s) ==
  Start(s, TRUE, << IndexPage(<<10>>, <<2, 3>>), L(2, 3), L(10, 2) >>, {},
        Work(Ins({3}), On("Update", {11}), On("Point", {10})))

(* Thin inner pages: merged under a root with room, or into the root. *)
ThinInner(s) ==
  Start(s, TRUE, << IndexPage(<<10, 20>>, <<2, 3, 4>>),
                    IndexPage(<<5>>, <<5, 6>>), IndexPage(<<15>>, <<7, 8>>), IndexPage(<<25, 30>>, <<9, 10, 11>>),
                    L(0, 3), L(5, 3), L(10, 3), L(15, 3), L(20, 3), L(25, 3), L(30, 3) >>, {},
        Work(On("Update", {6}), Ins({4}) \cup On("Update", {16}), Rng(6, 16)))

ThinInnerPair(s) ==
  Start(s, TRUE, << IndexPage(<<10>>, <<2, 3>>), IndexPage(<<5>>, <<4, 5>>), IndexPage(<<15, 20>>, <<6, 7, 8>>),
                    L(0, 3), L(5, 3), L(10, 3), L(15, 3), L(20, 3) >>, {},
        Work(On("Update", {6}), Ins({4}), On("Point", {16}) \cup Rng(6, 16)))

(* The only page is a full leaf: one writer, and calls that stay with the *)
(* half that the guards of the old root keep.                             *)
LeafRoot(s) ==
  Start(s, FALSE, << L(2, 8) >>, {}, Work(Ins({1}), On("Point", {3}), AtMin("PeekMin")))

(* A single thread makes one call after the other. *)
Alone == {TwoLevels(Mono), Collecting(Mono), ThinPair(Mono)}

Trees ==
  Alone \cup UNION {{TwoLevels(s), TwoRanges(s), FullRoot(s), ThreeLevels(s), Collecting(s), Thin(s),
                    ThinPair(s), ThinLast(s), ThinInner(s), ThinInnerPair(s), LeafRoot(s)} : s \in Waiting}

ThinTrees == {Collecting(LC), ThinLast(LC)}
=========================================================================
