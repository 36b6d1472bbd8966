------------------------ MODULE CoupledTreeProofs ------------------------
(***************************************************************************)
(* Theorems about CoupledTree: a tree that does not collect, under any of  *)
(* the strategies that wait, for any number of threads, any keys and any   *)
(* tree whose root is an index page.  Pages are only split then: the tree  *)
(* stays a search tree with room and without thin pages, a writer has the  *)
(* page that owns its key, the fences on the path of a range query are     *)
(* those of its pages, and all that callers see is a directory of keys.    *)
(* (A root that is a leaf splits wrongly, and trees that collect can panic *)
(* and fill a page beyond its arrays: no theorem claims more of them than  *)
(* the runs show.)                                                         *)
(***************************************************************************)
EXTENDS CoupledTree, TreePagesProofs

(* What the theorems ask of the first state.                               *)
IndexRoot == ~IsLeaf(root)

-------------------------------------------------------------------------
(* The inductive invariant. *)

(* The pages are a tree, and none is too full or too thin. *)
Grows(fence, height) ==
  /\ ~gc
  /\ IsTree(pages, root, fence, height)
  /\ ~IsLeaf(root)
  /\ \A p \in DOMAIN pages : Room(pages[p]) /\ (p # root => ~HasUnderflow(pages[p]))

(* Guards of two threads on one page are compatible.                       *)
Exclusive ==
  \A t, u \in Threads : t # u =>
    \A i \in DOMAIN held[t], j \in DOMAIN held[u] :
      held[t][i].page = held[u][j].page => Compatible(held[t][i].mode, held[u][j].mode)

(* Without latches there is one caller at a time. *)
Solo == strategy = Mono => \A t, u \in Threads : t # u => ~Open(t) \/ ~Open(u)

InsertsStayBelow == \A t \in Threads : call[t].op = "Insert" => Key(t) < MaxKey

Early == {"start", "root", "lockroot", "done"}
Late  == {"upgrade", "trywrite", "collect"}

(* Which guards a thread has at each point of its call. *)
Placed(t) ==
  /\ pc[t] \in Early \cup {"checkroot", "visit", "scan"} \cup Late
  /\ pc[t] \in Early => held[t] = <<>>
  /\ pc[t] = "lockroot" => target[t] = root
  /\ pc[t] \in {"checkroot", "visit"} => Len(held[t]) = 1 /\ call[t].op # "Range"
  /\ pc[t] = "checkroot" => Writer(t) /\ Page(t) = root
  /\ pc[t] \in {"scan"} \cup Late => call[t].op = "Range" /\ at[t] >= 1
  /\ pc[t] \in Late => at[t] = Len(held[t])
  /\ pc[t] = "trywrite" => ModeOf(t) = "shared"
  /\ \A i \in DOMAIN held[t] :
       \/ held[t][i].mode = ModeOf(t)
       \/ /\ i = Len(held[t]) /\ ModeOf(t) = "shared"
          /\ \/ pc[t] = "trywrite" /\ held[t][i].mode = "lost"
             \/ pc[t] = "collect" /\ held[t][i].mode = "excl"

(* The page of a call that is not a range owns its key. *)
Aimed(t, fence) == pc[t] \in {"checkroot", "visit"} => Within(Key(t), fence[Page(t)])

(* A page that t has just cut: it is not full, and no other writer has it. *)
Quiet(t, c) ==
  /\ ~HasOverflow(pages[c])
  /\ \A u \in Threads \ {t} : Writer(u) /\ pc[u] \in {"checkroot", "visit"} => Page(u) # c

(* A writer comes to a page only when there is room for one more.          *)
Counted(t) ==
  pc[t] = "visit" /\ Writer(t) =>
    \/ ~HasOverflow(pages[Page(t)])
    \/ ~IsLeaf(Page(t)) /\ Quiet(t, NextPage(t))

(* The first n guards follow the tree down, each with the fence of its     *)
(* page.                                                                   *)
Trail(gs, n, fence) ==
  \A i \in 1..n :
    /\ gs[i].lo = fence[gs[i].page].lo /\ gs[i].hi = fence[gs[i].page].hi
    /\ i = 1 => gs[i].page = root
    /\ i > 1 => gs[i].page \in ToSet(pages[gs[i - 1].page].kids)

(* The guards of a range query that are in use.                            *)
Ranged(t, fence) ==
  /\ Trail(held[t], at[t], fence)
  /\ pc[t] \in Late => IsLeaf(Page(t))

Right(t, fence) ==
  Placed(t) /\ Aimed(t, fence) /\ Counted(t) /\ (call[t].op = "Range" => Ranged(t, fence))

Holds(fence, height) ==
  /\ TypeOK
  /\ Grows(fence, height)
  /\ Exclusive /\ Solo
  /\ InsertsStayBelow
  /\ \A t \in Threads : Right(t, fence)

CoupledInv == \E fence, height : Holds(fence, height)

-------------------------------------------------------------------------
(* What the invariant says of the descents, and the properties it yields.  *)

(* A descent for a key comes to the leaf whose fence has it. *)
LEMMA LeafOfKey ==
  ASSUME NEW fence, NEW height, IsTree(pages, root, fence, height), NEW k \in Keys
  PROVE  /\ LeafOf(k) \in DOMAIN pages /\ IsLeaf(LeafOf(k)) /\ Within(k, fence[LeafOf(k)])
         /\ \A q \in DOMAIN pages : IsLeaf(q) /\ Within(k, fence[q]) => q = LeafOf(k)
<1>1. PICK ps : ps = pages
  OBVIOUS
<1>2. PICK r : r = root
  OBVIOUS
<1>3. IsTree(ps, r, fence, height)
  BY <1>1, <1>2
<1> DEFINE below == CHOOSE f : GoesDown(f, ps, k)
<1>4. GoesDown(below, ps, k)
  BY <1>3, DescentExists
<1>5. LeafOf(k) = below[r]
  BY <1>1, <1>2 DEF LeafOf, GoesDown, IsLeaf, Child
<1> HIDE DEF below
<1>6. /\ below[r] \in DOMAIN ps /\ IsLeafPage(ps[below[r]]) /\ Within(k, fence[below[r]])
      /\ \A q \in DOMAIN ps : IsLeafPage(ps[q]) /\ Within(k, fence[q]) => q = below[r]
  BY <1>3, <1>4, DescentEnds
<1> QED
  BY <1>1, <1>5, <1>6 DEF IsLeaf

(* The pages under a page, itself included. *)
Reaches(under, ps) ==
  under = [p \in DOMAIN ps |-> {p} \cup UNION {under[c] : c \in ToSet(ps[p].kids)}]

(* There is such a function: the pages of a chain of children.             *)
LEMMA ReachExists ==
  ASSUME NEW ps, NEW r, NEW fence, NEW height, IsTree(ps, r, fence, height)
  PROVE  \E under : Reaches(under, ps)
<1> DEFINE Closed(S) == \A q \in S : q \in DOMAIN ps => ToSet(ps[q].kids) \subseteq S
           under == [p \in DOMAIN ps |-> {q \in DOMAIN ps : \A S \in SUBSET DOMAIN ps :
                                            p \in S /\ Closed(S) => q \in S}]
<1>1. ASSUME NEW p \in DOMAIN ps  PROVE ToSet(ps[p].kids) \subseteq DOMAIN ps
  <2>1. \A i \in DOMAIN ps[p].kids : ps[p].kids[i] \in DOMAIN ps
    BY ChildrenOf
  <2> QED
    BY <2>1 DEF ToSet
<1>2. ASSUME NEW p \in DOMAIN ps
      PROVE  p \in under[p] /\ \A c \in ToSet(ps[p].kids) : under[c] \subseteq under[p]
  <2>1. p \in under[p]
    OBVIOUS
  <2>2. ASSUME NEW c \in ToSet(ps[p].kids), NEW q \in under[c]
        PROVE  q \in under[p]
    <3>1. c \in DOMAIN ps
      BY <1>1
    <3>2. q \in DOMAIN ps /\ \A S \in SUBSET DOMAIN ps : c \in S /\ Closed(S) => q \in S
      BY <3>1, <2>2
    <3>3. ASSUME NEW S \in SUBSET DOMAIN ps, p \in S, Closed(S)  PROVE q \in S
      <4>1. c \in S
        BY <3>3
      <4> QED
        BY <3>2, <3>3, <4>1
    <3> HIDE DEF Closed
    <3> QED
      BY <3>2, <3>3
  <2> QED
    BY <2>1, <2>2
<1>3. ASSUME NEW p \in DOMAIN ps, NEW q \in under[p]
      PROVE  q = p \/ \E c \in ToSet(ps[p].kids) : q \in under[c]
  <2> DEFINE S == {p} \cup UNION {under[c] : c \in ToSet(ps[p].kids)}
  <2>1. \A c \in ToSet(ps[p].kids) : c \in DOMAIN ps /\ under[c] \subseteq DOMAIN ps
    BY <1>1
  <2>2. S \in SUBSET DOMAIN ps /\ p \in S
    BY <2>1
  <2>3. Closed(S)
    <3> SUFFICES ASSUME NEW x \in S, x \in DOMAIN ps, NEW d \in ToSet(ps[x].kids)  PROVE d \in S
      OBVIOUS
    <3>1. d \in DOMAIN ps
      BY <1>1
    <3>2. d \in under[d]
      BY <3>1, <1>2
    <3>3. CASE x = p
      BY <3>2, <3>3
    <3>4. CASE x # p
      <4>1. PICK c \in ToSet(ps[p].kids) : x \in under[c]
        BY <3>4
      <4>2. c \in DOMAIN ps
        BY <1>1
      <4>3. d \in under[c]
        <5>1. \A T \in SUBSET DOMAIN ps : c \in T /\ Closed(T) => x \in T
          BY <4>1, <4>2
        <5>2. ASSUME NEW T \in SUBSET DOMAIN ps, c \in T, Closed(T)  PROVE d \in T
          <6>1. x \in T
            BY <5>1, <5>2
          <6> QED
            BY <6>1, <5>2
        <5> HIDE DEF Closed
        <5> QED
          BY <5>2, <4>2, <3>1
      <4> QED
        BY <4>3
    <3> QED
      BY <3>3, <3>4
  <2>4. q \in S
    <3>1. \A T \in SUBSET DOMAIN ps : p \in T /\ Closed(T) => q \in T
      BY <1>3
    <3> HIDE DEF S, Closed
    <3> QED
      BY <3>1, <2>2, <2>3
  <2> QED
    BY <2>4
<1>4. \A p \in DOMAIN ps : under[p] = {p} \cup UNION {under[c] : c \in ToSet(ps[p].kids)}
  <2> HIDE DEF under
  <2> QED
    BY <1>2, <1>3
<1>5. under = [p \in DOMAIN ps |-> under[p]]
  OBVIOUS
<1> HIDE DEF under
<1>6. Reaches(under, ps)
  BY <1>4, <1>5 DEF Reaches
<1> QED
  BY <1>6

(* What is under a page is a page. *)
LEMMA ReachesPages ==
  ASSUME NEW ps, NEW r, NEW fence, NEW height, IsTree(ps, r, fence, height),
         NEW under, Reaches(under, ps), NEW p \in DOMAIN ps
  PROVE  under[p] \subseteq DOMAIN ps
<1> DEFINE H == {height[q] : q \in {x \in DOMAIN ps : ~ (under[x] \subseteq DOMAIN ps)}}
<1>1. \A q \in DOMAIN ps : height[q] \in Nat
  BY PageOf
<1>2. \A q \in DOMAIN ps : under[q] = {q} \cup UNION {under[c] : c \in ToSet(ps[q].kids)}
  BY DEF Reaches
<1>3. H \subseteq Nat
  BY <1>1
<1>4. H = {}
  <2>1. SUFFICES ASSUME H # {} PROVE FALSE
    OBVIOUS
  <2> HIDE DEF H
  <2>2. PICK x \in H : \A y \in H : x <= y
    BY <2>1, <1>3, Least
  <2>3. PICK q \in DOMAIN ps : ~ (under[q] \subseteq DOMAIN ps) /\ height[q] = x
    BY <2>2 DEF H
  <2>4. PICK c \in ToSet(ps[q].kids) : ~ (under[c] \subseteq DOMAIN ps)
    BY <2>3, <1>2
  <2>5. PICK i \in DOMAIN ps[q].kids : c = ps[q].kids[i]
    BY <2>4 DEF ToSet
  <2>6. c \in DOMAIN ps /\ height[c] + 1 = height[q]
    BY <2>5, ChildrenOf
  <2>7. height[c] \in H
    BY <2>4, <2>6 DEF H
  <2>8. height[c] \in Nat /\ height[q] \in Nat
    BY <2>6, <1>1
  <2> QED
    BY <2>2, <2>3, <2>6, <2>7, <2>8
<1> QED
  BY <1>4

(* The pages that can be reached from the root. *)
LEMMA TreeIsPages ==
  ASSUME NEW fence, NEW height, IsTree(pages, root, fence, height)
  PROVE  InTree \subseteq DOMAIN pages
<1>1. PICK ps : ps = pages
  OBVIOUS
<1>2. PICK r : r = root
  OBVIOUS
<1>3. IsTree(ps, r, fence, height)
  BY <1>1, <1>2
<1> DEFINE under == CHOOSE f : Reaches(f, ps)
<1>4. Reaches(under, ps)
  BY <1>3, ReachExists
<1>5. InTree = under[r]
  BY <1>1, <1>2 DEF InTree, Reaches
<1> HIDE DEF under
<1>6. under[r] \subseteq DOMAIN ps
  BY <1>3, <1>4, TreeOf, ReachesPages
<1> QED
  BY <1>1, <1>5, <1>6

(* Records are below the fences of their leaves. *)
LEMMA RecordsAtHome ==
  ASSUME NEW fence, NEW height, IsTree(pages, root, fence, height)
  PROVE  RecordsAreHome
<1>1. ASSUME NEW p \in DOMAIN pages, NEW k \in pages[p].recs
      PROVE  LeafOf(k) = p
  <2>1. IsPage(pages[p], Len(pages)) /\ KeysFit(pages[p], fence[p])
    BY PageOf DEF Fitting
  <2>2. IsLeaf(p) /\ k \in Keys /\ Within(k, fence[p])
    BY <2>1 DEF IsPage, AnyPage, KeysFit, IsLeaf
  <2> QED
    BY <2>2, LeafOfKey
<1>2. ASSUME NEW p \in DOMAIN pages
      PROVE  \A i, j \in DOMAIN pages[p].seps : i < j => pages[p].seps[i] < pages[p].seps[j]
  BY PageOf DEF Fitting, KeysFit
<1>3. \A p \in InTree : p \in DOMAIN pages
  BY TreeIsPages
<1> QED
  BY <1>1, <1>2, <1>3 DEF RecordsAreHome

(* Pages have room for what they hold. *)
LEMMA RoomOfPages ==
  ASSUME NEW fence, NEW height, Holds(fence, height)
  PROVE  PagesFit
<1>1. IsTree(pages, root, fence, height) /\ \A p \in DOMAIN pages : Room(pages[p])
  BY DEF Holds, Grows
<1>2. \A p \in InTree : p \in DOMAIN pages
  BY <1>1, TreeIsPages
<1>3. ASSUME NEW p \in DOMAIN pages
      PROVE  Cardinality(pages[p].recs) <= NumRecords /\ Len(pages[p].seps) <= FanOut - 1
  <2>1. PICK page, n : page = pages[p] /\ n = Len(pages)
    OBVIOUS
  <2>2. IsPage(page, n) /\ Room(page)
    BY <1>1, <2>1, PageOf
  <2>3. FanOut \in Nat /\ FanOut >= 5 /\ NumRecords \in Nat
    BY FanOutAssumption, NumRecordsAssumption
  <2>4. CASE IsLeafPage(page)
    <3>1. page.seps = <<>> /\ Cardinality(page.recs) <= NumRecords
      BY <2>2, <2>4 DEF IsPage, Room
    <3>2. Len(page.seps) = 0
      BY <3>1
    <3> QED
      BY <2>1, <2>3, <3>1, <3>2
  <2>5. CASE ~IsLeafPage(page)
    <3>1. page.recs = {} /\ Len(page.seps) <= FanOut - 1
      BY <2>2, <2>5, KidsOf DEF Room
    <3>2. Cardinality(page.recs) = 0
      BY <3>1, FS_EmptySet
    <3> QED
      BY <2>1, <2>3, <3>1, <3>2
  <2> QED
    BY <2>4, <2>5
<1> QED
  BY <1>2, <1>3 DEF PagesFit

(* A guard in use of a range query that has come to a leaf has the fence   *)
(* of the leaf.                                                            *)
LEMMA FencesOfGuards ==
  ASSUME NEW fence, NEW height, Holds(fence, height)
  PROVE  FencesAreTrue
<1> SUFFICES ASSUME NEW t \in Threads, call[t].op = "Range", NEW i \in 1..at[t],
                    IsLeaf(held[t][i].page), NEW k \in Keys
             PROVE  LeafOf(k) = held[t][i].page <=> Covers(held[t][i], k)
  BY DEF FencesAreTrue
<1>1. PICK g : g = held[t][i]
  OBVIOUS
<1>2. g.lo = fence[g.page].lo /\ g.hi = fence[g.page].hi
  BY <1>1 DEF Holds, Right, Ranged, Trail
<1>3. g.page \in DOMAIN pages
  <2>1. held[t] \in Seq(Guards) /\ at[t] \in 0..Len(held[t])
    BY DEF Holds, TypeOK
  <2>2. PICK s, a : s = held[t] /\ a = at[t]
    OBVIOUS
  <2>3. i \in 1..Len(s)
    BY <2>1, <2>2
  <2>4. s[i] \in Guards
    BY <2>1, <2>2, <2>3, ElementOfSeq
  <2> QED
    BY <1>1, <2>2, <2>4 DEF Guards
<1>4. IsTree(pages, root, fence, height)
  BY DEF Holds, Grows
<1>5. Within(k, fence[g.page]) <=> Covers(g, k)
  BY <1>2 DEF Within, Covers
<1>6. /\ LeafOf(k) = g.page => Within(k, fence[g.page])
      /\ Within(k, fence[g.page]) => g.page = LeafOf(k)
  BY <1>1, <1>3, <1>4, LeafOfKey
<1> QED
  BY <1>1, <1>5, <1>6

(* Nobody comes to a thin page, let alone to an undefined correction. *)
LEMMA NobodyIsThin ==
  ASSUME NEW fence, NEW height, Holds(fence, height)
  PROVE  NobodyPanics
BY DEF Holds, Right, Placed, Early, Late, NobodyPanics

-------------------------------------------------------------------------
(* The first state. *)

(* What the pages of a tree are like, as the type invariant says it. *)
LEMMA PagesTyped ==
  ASSUME NEW fence, NEW height, IsTree(pages, root, fence, height)
  PROVE  /\ root \in DOMAIN pages
         /\ \A p \in DOMAIN pages :
              /\ pages[p] \in Pages
              /\ ~IsLeaf(p) => Len(pages[p].kids) = Len(pages[p].seps) + 1
<1>1. root \in DOMAIN pages /\ DOMAIN pages = 1..Len(pages)
  BY TreeOf
<1>2. ASSUME NEW p \in DOMAIN pages
      PROVE  /\ pages[p] \in Pages
             /\ ~IsLeaf(p) => Len(pages[p].kids) = Len(pages[p].seps) + 1
  <2>1. IsPage(pages[p], Len(pages))
    BY PageOf
  <2> QED
    BY <2>1, <1>1 DEF IsPage, AnyPage, Pages, IsLeaf
<1> QED
  BY <1>1, <1>2

(* A call begins without guards. *)
LEMMA Starting ==
  ASSUME Init, IndexRoot, ~gc
  PROVE  CoupledInv
<1>1. PICK s \in Starts :
        /\ strategy = s.strategy /\ gc = s.gc
        /\ root = s.root /\ pages = s.pages /\ dead = s.dead
        /\ call \in s.calls
  BY DEF Init
<1>2. /\ s.strategy \in {Mono, LC, ORWC} /\ s.gc \in BOOLEAN /\ s.dead \subseteq Keys
      /\ IsTree(s.pages, s.root, FencesOf(s.pages, s.root), HeightsOf(s.pages))
      /\ \A p \in DOMAIN s.pages : Room(s.pages[p]) /\ (p # s.root /\ HasUnderflow(s.pages[p]) => s.gc)
      /\ \A calls \in s.calls :
           /\ calls \in [Threads -> Calls]
           /\ \A t \in Threads : Usual(calls[t])
      /\ ~IsLeafPage(s.pages[s.root])
  BY <1>1, StartsAssumption DEF IndexRoot, IsLeaf
<1>3. PICK fence, height : fence = FencesOf(s.pages, s.root) /\ height = HeightsOf(s.pages)
  OBVIOUS
<1>4. Grows(fence, height)
  BY <1>1, <1>2, <1>3 DEF Grows, IsLeaf
<1>5. /\ pc = [t \in Threads |-> "start"] /\ target = [t \in Threads |-> NoPage]
      /\ held = [t \in Threads |-> <<>>] /\ at = [t \in Threads |-> 0]
      /\ low = [t \in Threads |-> call[t].key] /\ got = [t \in Threads |-> <<>>]
      /\ reply = [t \in Threads |-> "none"] /\ owed = [t \in Threads |-> {}] /\ swept = {}
  BY DEF Init
<1>6. call \in [Threads -> Calls]
  BY <1>1, <1>2
<1>7. TypeOK
  <2>1. /\ root \in DOMAIN pages
        /\ \A p \in DOMAIN pages :
             /\ pages[p] \in Pages
             /\ ~IsLeaf(p) => Len(pages[p].kids) = Len(pages[p].seps) + 1
    BY <1>4, PagesTyped DEF Grows
  <2>2. held \in [Threads -> Seq(Guards)] /\ got \in [Threads -> Seq(Keys)]
    <3>1. <<>> \in Seq(Guards) /\ <<>> \in Seq(Keys)
      OBVIOUS
    <3> QED
      BY <3>1, <1>5, Zenon
  <2>3. at \in [Threads -> Nat] /\ \A t \in Threads : at[t] \in 0..Len(held[t])
    <3>1. ASSUME NEW t \in Threads  PROVE at[t] \in 0..Len(held[t])
      <4>1. at[t] = 0 /\ held[t] = <<>>
        BY <1>5
      <4> QED
        BY <4>1
    <3> QED
      BY <3>1, <1>5
  <2>4. low \in [Threads -> Keys]
    BY <1>5, <1>6 DEF Calls
  <2>5. /\ strategy \in {Mono, LC, ORWC} /\ gc \in BOOLEAN /\ dead \subseteq Keys /\ swept \subseteq Keys
        /\ pc \in [Threads -> PCs] /\ target \in [Threads -> DOMAIN pages \cup {NoPage}]
        /\ reply \in [Threads -> {"none", "stored", "found", "missing", "matched", "nothing", "error"}]
        /\ owed \in [Threads -> SUBSET Keys]
    BY <1>1, <1>2, <1>5 DEF PCs
  <2> QED
    BY <2>1, <2>2, <2>3, <2>4, <2>5, <1>6 DEF TypeOK
<1>8. \A t \in Threads : DOMAIN held[t] = {}
  BY <1>5
<1>9. Exclusive /\ Solo
  BY <1>5, <1>8 DEF Exclusive, Solo, Open
<1>10. InsertsStayBelow
  BY <1>1, <1>2 DEF InsertsStayBelow, Key, Usual
<1>11. ASSUME NEW t \in Threads PROVE Right(t, fence)
  <2>1. pc[t] = "start" /\ held[t] = <<>> /\ at[t] = 0
    BY <1>5
  <2>2. Placed(t)
    BY <2>1, <1>8 DEF Placed, Early, Late
  <2>3. Aimed(t, fence) /\ Counted(t)
    BY <2>1 DEF Aimed, Counted
  <2>4. Ranged(t, fence)
    BY <2>1 DEF Ranged, Trail, Late
  <2> QED
    BY <2>2, <2>3, <2>4 DEF Right
<1>12. Holds(fence, height)
  BY <1>4, <1>7, <1>9, <1>10, <1>11 DEF Holds
<1> QED
  BY <1>12 DEF CoupledInv

-------------------------------------------------------------------------
(* Threads and their guards. *)

(* What is known of one thread. *)
LEMMA ThreadIs ==
  ASSUME NEW f, NEW h, Holds(f, h), NEW t \in Threads
  PROVE  /\ Placed(t) /\ Aimed(t, f) /\ Counted(t) /\ (call[t].op = "Range" => Ranged(t, f))
         /\ Key(t) \in Keys /\ call[t] \in Calls /\ low[t] \in Keys /\ got[t] \in Seq(Keys)
         /\ held[t] \in Seq(Guards) /\ Len(held[t]) \in Nat /\ at[t] \in 0..Len(held[t])
         /\ DOMAIN held[t] = 1..Len(held[t])
         /\ pc[t] \in PCs /\ strategy \in {Mono, LC, ORWC}
<1>1. /\ call \in [Threads -> Calls] /\ low \in [Threads -> Keys] /\ got \in [Threads -> Seq(Keys)]
      /\ held \in [Threads -> Seq(Guards)] /\ at[t] \in 0..Len(held[t]) /\ pc \in [Threads -> PCs]
      /\ strategy \in {Mono, LC, ORWC}
  BY DEF Holds, TypeOK
<1>2. Placed(t) /\ Aimed(t, f) /\ Counted(t) /\ (call[t].op = "Range" => Ranged(t, f))
  BY DEF Holds, Right
<1>3. held[t] \in Seq(Guards) /\ call[t] \in Calls /\ low[t] \in Keys /\ got[t] \in Seq(Keys)
  BY <1>1
<1>4. Len(held[t]) \in Nat /\ DOMAIN held[t] = 1..Len(held[t])
  BY <1>3, LenProperties
<1>5. Key(t) \in Keys
  BY <1>3 DEF Calls, Key
<1>6. pc[t] \in PCs
  BY <1>1
<1> QED
  BY <1>1, <1>2, <1>3, <1>4, <1>5, <1>6

(* A guard is on a page. *)
LEMMA GuardIs ==
  ASSUME NEW f, NEW h, Holds(f, h), NEW t \in Threads, NEW i \in 1..Len(held[t])
  PROVE  /\ held[t][i] \in Guards /\ held[t][i].page \in DOMAIN pages
         /\ held[t][i].mode \in {"free", "shared", "excl", "lost"}
         /\ held[t][i].lo \in Keys /\ held[t][i].hi \in Keys
<1>1. PICK s : s = held[t]
  OBVIOUS
<1>2. s \in Seq(Guards) /\ i \in 1..Len(s)
  BY <1>1, ThreadIs
<1>3. s[i] \in Guards
  BY <1>2, ElementOfSeq
<1> QED
  BY <1>1, <1>3 DEF Guards

(* The one guard of a thread that is not a range. *)
LEMMA PageIs ==
  ASSUME NEW f, NEW h, Holds(f, h), NEW t \in Threads, pc[t] \in {"checkroot", "visit"}
  PROVE  /\ Len(held[t]) = 1 /\ 1 \in DOMAIN held[t] /\ Page(t) = held[t][1].page
         /\ Page(t) \in DOMAIN pages /\ held[t][1].mode = ModeOf(t) /\ call[t].op # "Range"
         /\ held[t][1] \in Guards /\ held[t] = <<held[t][1]>>
<1>1. Placed(t) /\ held[t] \in Seq(Guards) /\ DOMAIN held[t] = 1..Len(held[t])
  BY ThreadIs
<1>2. Len(held[t]) = 1 /\ call[t].op # "Range"
  BY <1>1 DEF Placed
<1>3. 1 \in DOMAIN held[t] /\ 1 \in 1..Len(held[t])
  BY <1>1, <1>2
<1>4. held[t][1].page \in DOMAIN pages /\ held[t][1] \in Guards
  BY <1>3, GuardIs
<1>5. held[t][1].mode = ModeOf(t)
  BY <1>1, <1>3 DEF Placed
<1>6. Page(t) = held[t][1].page
  BY <1>2 DEF Page, Last
<1>7. held[t] = <<held[t][1]>>
  BY <1>1, <1>2
<1> QED
  BY <1>2, <1>3, <1>4, <1>5, <1>6, <1>7

(* The mode of a thread's guards. *)
LEMMA ModeIs ==
  ASSUME NEW f, NEW h, Holds(f, h), NEW t \in Threads
  PROVE  /\ ModeOf(t) \in {"free", "shared", "excl"}
         /\ ModeOf(t) = "free" <=> strategy = Mono
         /\ Writer(t) => ModeOf(t) \in {"free", "excl"}
         /\ ModeOf(t) = "shared" => strategy = ORWC
<1>1. strategy \in {Mono, LC, ORWC} /\ Mono # LC /\ Mono # ORWC /\ LC # ORWC
  BY ThreadIs DEF Mono, LC, ORWC
<1>2. CASE strategy = Mono
  BY <1>1, <1>2 DEF ModeOf
<1>3. CASE strategy = LC
  BY <1>1, <1>3 DEF ModeOf
<1>4. CASE strategy = ORWC
  BY <1>1, <1>4 DEF ModeOf
<1> QED
  BY <1>1, <1>2, <1>3, <1>4

(* With an exclusive latch, or alone, one meets nobody on a page but a     *)
(* range query that has just given up its shared latch on a leaf.          *)
LEMMA OthersAreLost ==
  ASSUME NEW f, NEW h, Holds(f, h), NEW t \in Threads, Open(t), Writer(t),
         NEW u \in Threads \ {t}, NEW j \in 1..Len(held[u]),
         Compatible(held[u][j].mode, ModeOf(t))
  PROVE  /\ held[u][j].mode = "lost" /\ pc[u] = "trywrite" /\ j = Len(held[u])
         /\ ModeOf(u) = "shared" /\ call[u].op = "Range" /\ strategy # Mono
<1>1. /\ Placed(u) /\ DOMAIN held[u] = 1..Len(held[u])
  BY ThreadIs
<1>2. ModeOf(t) \in {"free", "excl"} /\ (ModeOf(t) = "free" <=> strategy = Mono)
  BY ModeIs
<1>3. ModeOf(u) \in {"free", "shared", "excl"} /\ (ModeOf(u) = "free" <=> strategy = Mono)
  BY ModeIs
<1>4. strategy # Mono
  <2>1. SUFFICES ASSUME strategy = Mono PROVE FALSE
    OBVIOUS
  <2>2. ~Open(u)
    BY <2>1 DEF Holds, Solo
  <2>3. pc[u] \in Early
    BY <2>2 DEF Open, Early
  <2>4. held[u] = <<>>
    BY <2>3, <1>1 DEF Placed
  <2> QED
    BY <2>4
<1>5. ModeOf(t) = "excl" /\ ModeOf(u) \in {"shared", "excl"}
  BY <1>2, <1>3, <1>4
<1>6. held[u][j].mode \in {"free", "lost"}
  BY <1>5 DEF Compatible
<1>7. held[u][j].mode # ModeOf(u)
  BY <1>5, <1>6
<1>8. /\ j = Len(held[u]) /\ ModeOf(u) = "shared"
      /\ \/ pc[u] = "trywrite" /\ held[u][j].mode = "lost"
         \/ pc[u] = "collect" /\ held[u][j].mode = "excl"
  BY <1>1, <1>7 DEF Placed
<1>9. pc[u] = "trywrite" /\ held[u][j].mode = "lost"
  BY <1>6, <1>8
<1>10. call[u].op = "Range"
  BY <1>1, <1>9 DEF Placed, Late
<1> QED
  BY <1>4, <1>8, <1>9, <1>10

-------------------------------------------------------------------------
(* A step of t that changes no page. *)

(* What calls answer, and what is remembered of them. *)
Answering ==
  /\ dead \subseteq Keys /\ swept \subseteq Keys
  /\ low \in [Threads -> Keys] /\ got \in [Threads -> Seq(Keys)]
  /\ reply \in [Threads -> {"none", "stored", "found", "missing", "matched", "nothing", "error"}]
  /\ owed \in [Threads -> SUBSET Keys]

(* The others go on as before. *)
OthersStay(t) ==
  /\ strategy' = strategy /\ gc' = gc /\ call' = call /\ root' = root
  /\ \A u \in Threads \ {t} : /\ pc'[u] = pc[u] /\ target'[u] = target[u]
                              /\ held'[u] = held[u] /\ at'[u] = at[u]

(* t goes on at l with guards gs, of which a are in use, and pointer x.    *)
Goes(t, l, gs, a, x) ==
  /\ pc' = [pc EXCEPT ![t] = l] /\ held' = [held EXCEPT ![t] = gs]
  /\ at' = [at EXCEPT ![t] = a] /\ target' = [target EXCEPT ![t] = x]

(* The guards that t gets are compatible with everyone else's. *)
Peaceful(t) ==
  \A u \in Threads \ {t} : \A i \in DOMAIN held'[t], j \in DOMAIN held[u] :
    held'[t][i].page = held[u][j].page => Compatible(held'[t][i].mode, held[u][j].mode)

(* A writer comes to the root, or from the parent. *)
Follows(t) ==
  Writer(t) /\ pc'[t] \in {"checkroot", "visit"} =>
    \/ Page(t)' = root
    \/ pc[t] \in {"checkroot", "visit"} /\ Page(t)' = Page(t)
    \/ pc[t] = "visit" /\ Page(t)' \in ToSet(pages[Page(t)].kids)

(* Without latches t opens its call only when nobody else is in one. *)
Enters(t) == Open(t)' => Open(t) \/ (strategy = Mono => \A u \in Threads \ {t} : ~Open(u))

(* Where threads are, as the type invariant says it. *)
Places ==
  /\ pc \in [Threads -> PCs] /\ target \in [Threads -> DOMAIN pages \cup {NoPage}]
  /\ held \in [Threads -> Seq(Guards)]
  /\ at \in [Threads -> Nat] /\ \A u \in Threads : at[u] \in 0..Len(held[u])

(* They are still there when one of them goes on. *)
LEMMA GoesTyped ==
  ASSUME TypeOK, NEW t \in Threads, NEW l \in PCs, NEW gs \in Seq(Guards),
         NEW a \in 0..Len(gs), NEW x \in DOMAIN pages \cup {NoPage},
         Goes(t, l, gs, a, x), DOMAIN pages \subseteq DOMAIN pages'
  PROVE  /\ Places'
         /\ pc'[t] = l /\ held'[t] = gs /\ at'[t] = a /\ target'[t] = x
         /\ \A u \in Threads \ {t} : /\ pc'[u] = pc[u] /\ target'[u] = target[u]
                                     /\ held'[u] = held[u] /\ at'[u] = at[u]
<1>1. /\ pc \in [Threads -> PCs] /\ target \in [Threads -> DOMAIN pages \cup {NoPage}]
      /\ held \in [Threads -> Seq(Guards)]
      /\ at \in [Threads -> Nat] /\ \A u \in Threads : at[u] \in 0..Len(held[u])
  BY DEF TypeOK
<1>2. pc' \in [Threads -> PCs] /\ pc'[t] = l /\ \A u \in Threads \ {t} : pc'[u] = pc[u]
  BY <1>1 DEF Goes
<1>3. /\ target' \in [Threads -> DOMAIN pages \cup {NoPage}] /\ target'[t] = x
      /\ \A u \in Threads \ {t} : target'[u] = target[u]
      /\ target' \in [Threads -> DOMAIN pages' \cup {NoPage}]
  BY <1>1 DEF Goes
<1>4. PICK S : S = Seq(Guards)
  OBVIOUS
<1>5. held' \in [Threads -> S] /\ held'[t] = gs /\ \A u \in Threads \ {t} : held'[u] = held[u]
  BY <1>1, <1>4 DEF Goes
<1>6. held' \in [Threads -> Seq(Guards')]
  <2>1. PICK R, G : R = Guards /\ G = Guards'
    OBVIOUS
  <2>2. R \subseteq G
    BY <2>1 DEF Guards
  <2>3. Seq(R) \subseteq Seq(G)
    BY <2>2, SeqMonotonic
  <2>4. held' \in [Threads -> Seq(R)]
    BY <2>1, <1>4, <1>5
  <2>5. held' \in [Threads -> Seq(G)]
    BY <2>3, <2>4
  <2> QED
    BY <2>1, <2>5
<1>7. a \in Nat
  OBVIOUS
<1>8. at' \in [Threads -> Nat] /\ at'[t] = a /\ \A u \in Threads \ {t} : at'[u] = at[u]
  BY <1>1, <1>7 DEF Goes
<1>9. \A u \in Threads : at'[u] \in 0..Len(held'[u])
  BY <1>1, <1>5, <1>8
<1>10. Places'
  BY <1>2, <1>3, <1>6, <1>8, <1>9 DEF Places
<1> QED
  BY <1>2, <1>3, <1>5, <1>8, <1>10

(* Two writers are not on the same page. *)
LEMMA WritersApart ==
  ASSUME NEW f, NEW h, Holds(f, h), NEW t \in Threads, NEW u \in Threads \ {t},
         Writer(t), pc[t] \in {"checkroot", "visit"}, pc[u] \in {"checkroot", "visit"}
  PROVE  Page(t) # Page(u)
<1> SUFFICES ASSUME Page(t) = Page(u) PROVE FALSE
  OBVIOUS
<1>1. /\ 1 \in DOMAIN held[t] /\ Page(t) = held[t][1].page /\ held[t][1].mode = ModeOf(t)
      /\ 1 \in DOMAIN held[u] /\ Page(u) = held[u][1].page /\ Len(held[u]) = 1
  BY PageIs
<1>2. Compatible(held[u][1].mode, held[t][1].mode)
  BY <1>1 DEF Holds, Exclusive
<1>3. Open(t) /\ 1 \in 1..Len(held[u])
  BY <1>1 DEF Open
<1>4. pc[u] = "trywrite"
  BY <1>1, <1>2, <1>3, OthersAreLost
<1> QED
  BY <1>4

(* What is known of the others stays true when no page changes. *)
LEMMA OthersRight ==
  ASSUME NEW f, NEW h, Holds(f, h), NEW t \in Threads, OthersStay(t), pages' = pages,
         Follows(t), NEW u \in Threads \ {t}
  PROVE  Right(u, f)'
<1>1. /\ Placed(u) /\ Aimed(u, f) /\ Counted(u) /\ (call[u].op = "Range" => Ranged(u, f))
      /\ Key(u) \in Keys
  BY ThreadIs
<1>2. /\ pc'[u] = pc[u] /\ target'[u] = target[u] /\ held'[u] = held[u] /\ at'[u] = at[u]
      /\ strategy' = strategy /\ call' = call /\ root' = root
  BY DEF OthersStay
<1>3. Page(u)' = Page(u) /\ Key(u)' = Key(u) /\ (Writer(u)' <=> Writer(u)) /\ ModeOf(u)' = ModeOf(u)
  BY <1>2 DEF Page, Key, Writer, ModeOf
<1>4. Placed(u)'
  <2>1. PICK P, K, W, M : P = Page(u) /\ K = Key(u) /\ W = Writer(u) /\ M = ModeOf(u)
    OBVIOUS
  <2> QED
    BY <1>1, <1>2, <1>3 DEF Placed
<1>5. Aimed(u, f)'
  BY <1>1, <1>2, <1>3 DEF Aimed
<1>6. call'[u].op = "Range" => Ranged(u, f)'
  BY <1>1, <1>2, <1>3 DEF Ranged, Trail, IsLeaf
<1>7. Counted(u)'
  <2>1. SUFFICES ASSUME pc[u] = "visit", Writer(u), HasOverflow(pages[Page(u)])
                 PROVE  ~IsLeaf(Page(u)) /\ Quiet(u, NextPage(u))'
    BY <1>2, <1>3 DEF Counted, IsLeaf
  <2>2. ~IsLeaf(Page(u)) /\ Quiet(u, NextPage(u))
    BY <2>1, <1>1 DEF Counted
  <2>3. PICK c, p : c = NextPage(u) /\ p = Page(u)
    OBVIOUS
  <2>4. NextPage(u)' = c
    BY <2>3, <1>2, <1>3 DEF NextPage, Child
  <2>5. /\ ~HasOverflow(pages[c])
        /\ \A v \in Threads \ {u} : Writer(v) /\ pc[v] \in {"checkroot", "visit"} => Page(v) # c
    BY <2>2, <2>3 DEF Quiet
  <2>6. p \in DOMAIN pages /\ IsTree(pages, root, f, h) /\ ~IsLeafPage(pages[p])
    BY <2>1, <2>2, <2>3, PageIs DEF Holds, Grows, IsLeaf
  <2>7. PICK i : i = ChildPos(pages[p], Key(u))
    OBVIOUS
  <2>8. i \in DOMAIN pages[p].kids /\ c = pages[p].kids[i]
    BY <2>3, <2>6, <2>7, <1>1, SearchFinds DEF NextPage, Child
  <2>9. /\ c # root
        /\ \A q \in DOMAIN pages : \A j \in DOMAIN pages[q].kids : pages[q].kids[j] = c => q = p
    BY <2>6, <2>8, ChildrenOf
  <2>10. ASSUME Writer(t), pc'[t] \in {"checkroot", "visit"}, Page(t)' = c
         PROVE  FALSE
    <3>1. ~ (pc[t] \in {"checkroot", "visit"} /\ Page(t)' = Page(t))
      BY <2>5, <2>10
    <3>2. pc[t] = "visit" /\ c \in ToSet(pages[Page(t)].kids)
      BY <3>1, <2>9, <2>10 DEF Follows
    <3>3. Page(t) \in DOMAIN pages
      BY <3>2, PageIs
    <3>4. PICK j \in DOMAIN pages[Page(t)].kids : pages[Page(t)].kids[j] = c
      BY <3>2 DEF ToSet
    <3>5. Page(t) = p
      BY <3>3, <3>4, <2>9
    <3> QED
      BY <3>2, <3>5, <2>1, <2>3, <2>10, WritersApart
  <2>11. ASSUME NEW v \in Threads \ {u}, Writer(v)', pc'[v] \in {"checkroot", "visit"}
         PROVE  Page(v)' # c
    <3>1. Writer(v)
      BY <2>11, <1>2 DEF Writer
    <3>2. CASE v = t
      BY <3>1, <3>2, <2>10, <2>11
    <3>3. CASE v # t
      <4>1. pc'[v] = pc[v] /\ Page(v)' = Page(v)
        BY <3>3 DEF OthersStay, Page
      <4> QED
        BY <4>1, <3>1, <2>5, <2>11
    <3> QED
      BY <3>2, <3>3
  <2> QED
    BY <2>2, <2>4, <2>5, <2>11 DEF Quiet
<1> QED
  BY <1>4, <1>5, <1>6, <1>7 DEF Right

(* Guards stay compatible when those that t gets are.                      *)
LEMMA LatchesHold ==
  ASSUME NEW f, NEW h, Holds(f, h), NEW t \in Threads, OthersStay(t), Peaceful(t), Enters(t)
  PROVE  Exclusive' /\ Solo' /\ InsertsStayBelow'
<1>1. /\ strategy' = strategy /\ call' = call
      /\ \A u \in Threads \ {t} : pc'[u] = pc[u] /\ held'[u] = held[u]
  BY DEF OthersStay
<1>2. InsertsStayBelow'
  BY <1>1 DEF Holds, InsertsStayBelow, Key
<1>3. Exclusive'
  <2>1. ASSUME NEW u \in Threads, NEW v \in Threads, u # v,
               NEW i \in DOMAIN held'[u], NEW j \in DOMAIN held'[v],
               held'[u][i].page = held'[v][j].page
        PROVE  Compatible(held'[u][i].mode, held'[v][j].mode)
    <3>1. CASE u = t
      <4>1. held'[v] = held[v]
        BY <3>1, <2>1, <1>1
      <4> QED
        BY <4>1, <3>1, <2>1 DEF Peaceful
    <3>2. CASE v = t
      <4>1. held'[u] = held[u]
        BY <3>2, <2>1, <1>1
      <4>2. Compatible(held'[v][j].mode, held'[u][i].mode)
        BY <4>1, <3>2, <2>1 DEF Peaceful
      <4> QED
        BY <4>2 DEF Compatible
    <3>3. CASE u # t /\ v # t
      <4>1. held'[u] = held[u] /\ held'[v] = held[v]
        BY <3>3, <1>1
      <4> QED
        BY <4>1, <2>1 DEF Holds, Exclusive
    <3> QED
      BY <3>1, <3>2, <3>3
  <2> QED
    BY <2>1 DEF Exclusive
<1>4. Solo'
  <2>1. ASSUME strategy = Mono, NEW u \in Threads, NEW v \in Threads, u # v, Open(u)', Open(v)'
        PROVE  FALSE
    <3>1. \A w \in Threads \ {t} : Open(w)' <=> Open(w)
      BY <1>1 DEF Open
    <3>2. ASSUME NEW w \in Threads \ {t}, Open(w), Open(t)'  PROVE FALSE
      BY <2>1, <3>2 DEF Enters, Holds, Solo
    <3> QED
      BY <2>1, <3>1, <3>2 DEF Holds, Solo
  <2> QED
    BY <2>1, <1>1 DEF Solo
<1> QED
  BY <1>2, <1>3, <1>4

(* The invariant after a step of t that changes no page, from what the     *)
(* step does to t.                                                         *)
LEMMA Moving ==
  ASSUME NEW f, NEW h, Holds(f, h), NEW t \in Threads,
         UNCHANGED <<strategy, gc, root, pages, call>>, Answering',
         NEW l \in PCs, NEW gs \in Seq(Guards), NEW a \in 0..Len(gs),
         NEW x \in DOMAIN pages \cup {NoPage}, Goes(t, l, gs, a, x),
         Peaceful(t), Follows(t), Enters(t), Right(t, f)'
  PROVE  Holds(f, h)'
<1>1. TypeOK /\ pages' = pages
  BY DEF Holds
<1>2. Places'
  BY <1>1, GoesTyped
<1>3. \A u \in Threads \ {t} : /\ pc'[u] = pc[u] /\ target'[u] = target[u]
                               /\ held'[u] = held[u] /\ at'[u] = at[u]
  BY <1>1, GoesTyped
<1>4. OthersStay(t) /\ pages' = pages
  BY <1>3 DEF OthersStay
<1>5. TypeOK'
  <2>1. /\ root' \in DOMAIN pages'
        /\ \A p \in DOMAIN pages' :
             /\ pages'[p] \in Pages'
             /\ ~IsLeaf(p)' => Len(pages'[p].kids) = Len(pages'[p].seps) + 1
        /\ strategy' \in {Mono, LC, ORWC} /\ gc' \in BOOLEAN /\ call' \in [Threads -> Calls]
    BY <1>1 DEF TypeOK, IsLeaf, Pages
  <2>2. /\ dead' \subseteq Keys /\ swept' \subseteq Keys
        /\ low' \in [Threads -> Keys] /\ got' \in [Threads -> Seq(Keys)]
        /\ reply' \in [Threads -> {"none", "stored", "found", "missing", "matched", "nothing", "error"}]
        /\ owed' \in [Threads -> SUBSET Keys]
    BY DEF Answering
  <2> QED
    BY <2>1, <2>2, <1>2 DEF TypeOK, Places
<1>6. Grows(f, h)'
  BY DEF Holds, Grows, IsLeaf
<1>7. Exclusive' /\ Solo' /\ InsertsStayBelow'
  BY <1>4, LatchesHold
<1>8. \A u \in Threads \ {t} : Right(u, f)'
  BY <1>4, OthersRight
<1> QED
  BY <1>5, <1>6, <1>7, <1>8 DEF Holds

(* A thread whose guards stay where they are, at most given up, is         *)
(* peaceful.                                                               *)
LEMMA StaysPeaceful ==
  ASSUME NEW f, NEW h, Holds(f, h), NEW t \in Threads,
         \A i \in DOMAIN held'[t] : \/ held'[t][i].mode \in {"free", "lost"}
                                    \/ \E j \in DOMAIN held[t] : /\ held'[t][i].page = held[t][j].page
                                                                 /\ held'[t][i].mode = held[t][j].mode
  PROVE  Peaceful(t)
<1> SUFFICES ASSUME NEW u \in Threads \ {t}, NEW i \in DOMAIN held'[t], NEW j \in DOMAIN held[u],
                    held'[t][i].page = held[u][j].page
             PROVE  Compatible(held'[t][i].mode, held[u][j].mode)
  BY DEF Peaceful
<1>1. CASE held'[t][i].mode \in {"free", "lost"}
  BY <1>1 DEF Compatible
<1>2. CASE \E m \in DOMAIN held[t] : /\ held'[t][i].page = held[t][m].page
                                     /\ held'[t][i].mode = held[t][m].mode
  BY <1>2 DEF Holds, Exclusive
<1> QED
  BY <1>1, <1>2

(* A latch that was available is taken. *)
LEMMA TakesPeaceful ==
  ASSUME NEW f, NEW h, Holds(f, h), NEW t \in Threads, NEW c, NEW m, Available(c, m),
         \A i \in DOMAIN held'[t] : \/ held'[t][i].page = c /\ held'[t][i].mode = m
                                    \/ \E j \in DOMAIN held[t] : /\ held'[t][i].page = held[t][j].page
                                                                 /\ held'[t][i].mode = held[t][j].mode
  PROVE  Peaceful(t)
<1> SUFFICES ASSUME NEW u \in Threads \ {t}, NEW i \in DOMAIN held'[t], NEW j \in DOMAIN held[u],
                    held'[t][i].page = held[u][j].page
             PROVE  Compatible(held'[t][i].mode, held[u][j].mode)
  BY DEF Peaceful
<1>1. CASE held'[t][i].page = c /\ held'[t][i].mode = m
  <2>1. Compatible(held[u][j].mode, m)
    BY <1>1 DEF Available
  <2> QED
    BY <2>1, <1>1 DEF Compatible
<1>2. CASE \E k \in DOMAIN held[t] : /\ held'[t][i].page = held[t][k].page
                                     /\ held'[t][i].mode = held[t][k].mode
  BY <1>2 DEF Holds, Exclusive
<1> QED
  BY <1>1, <1>2

(* A thread without guards knows nothing that could become wrong. *)
LEMMA EarlyRight ==
  ASSUME NEW f, NEW t \in Threads, pc'[t] \in Early, held'[t] = <<>>, at'[t] = 0,
         pc'[t] = "lockroot" => target'[t] = root'
  PROVE  Right(t, f)'
<1>1. DOMAIN held'[t] = {}
  OBVIOUS
<1>2. /\ pc'[t] \notin {"checkroot", "visit", "scan", "trywrite"} /\ pc'[t] \notin Late
  BY DEF Early, Late
<1>3. Placed(t)'
  BY <1>1, <1>2 DEF Placed
<1>4. Aimed(t, f)' /\ Counted(t)'
  BY <1>2 DEF Aimed, Counted
<1>5. Ranged(t, f)'
  BY <1>2 DEF Ranged, Trail
<1> QED
  BY <1>3, <1>4, <1>5 DEF Right

(* A thread with one guard, on a page that owns its key and has room.      *)
LEMMA OneRight ==
  ASSUME NEW f, NEW t \in Threads, UNCHANGED <<strategy, root, pages, call>>,
         pc'[t] \in {"checkroot", "visit"}, NEW g, held'[t] = <<g>>, g.mode = ModeOf(t),
         call[t].op # "Range", pc'[t] = "checkroot" => Writer(t) /\ g.page = root,
         Within(Key(t), f[g.page]),
         pc'[t] = "visit" /\ Writer(t) =>
           ~HasOverflow(pages[g.page]) \/ (~IsLeaf(g.page) /\ Quiet(t, Child(g.page, Key(t)))')
  PROVE  Right(t, f)'
<1>1. Len(held'[t]) = 1 /\ DOMAIN held'[t] = {1} /\ held'[t][1] = g
  OBVIOUS
<1>2. Page(t)' = g.page
  BY <1>1 DEF Page, Last
<1>3. Key(t)' = Key(t) /\ (Writer(t)' <=> Writer(t)) /\ ModeOf(t)' = ModeOf(t)
  BY DEF Key, Writer, ModeOf
<1>4. pc'[t] \notin Early /\ pc'[t] \notin Late /\ pc'[t] \notin {"scan", "trywrite"}
  BY DEF Early, Late
<1>5. Placed(t)'
  <2>1. PICK M : M = ModeOf(t)
    OBVIOUS
  <2>2. \A i \in DOMAIN held'[t] : held'[t][i].mode = M
    BY <2>1, <1>1
  <2> QED
    BY <2>1, <2>2, <1>1, <1>2, <1>3, <1>4 DEF Placed
<1>6. Aimed(t, f)'
  BY <1>2, <1>3 DEF Aimed
<1>7. Counted(t)'
  BY <1>2, <1>3 DEF Counted, IsLeaf, NextPage, Child
<1> QED
  BY <1>5, <1>6, <1>7 DEF Right

(* What was answered so far. *)
LEMMA AnswersStay ==
  ASSUME TypeOK, UNCHANGED <<dead, low, got, reply, owed, swept>>
  PROVE  Answering'
BY DEF TypeOK, Answering

(* The root pointer is read: nobody takes any other page for the root. *)
LEMMA LoadRootKeeps ==
  ASSUME NEW f, NEW h, Holds(f, h), NEW t \in Threads, LoadRoot(t)
  PROVE  Holds(f, h)'
<1>1. /\ pc[t] \in {"start", "root"} /\ (strategy = Mono => \A u \in Threads \ {t} : ~Open(u))
      /\ target' = [target EXCEPT ![t] = root] /\ pc' = [pc EXCEPT ![t] = "lockroot"]
      /\ UNCHANGED <<strategy, gc, root, pages, dead, call, held, at, low, got, reply, swept>>
      /\ owed' = IF pc[t] = "start" THEN [owed EXCEPT ![t] = Wanted(call[t]) \cap Stored] ELSE owed
  BY DEF LoadRoot, Goto, kind, tree, scan
<1>2. Placed(t) /\ at[t] \in 0..Len(held[t]) /\ call[t] \in Calls
  BY ThreadIs
<1>3. held[t] = <<>>
  BY <1>1, <1>2 DEF Placed, Early
<1>4. at[t] = 0
  BY <1>2, <1>3
<1>5. TypeOK /\ root \in DOMAIN pages
  BY DEF Holds, TypeOK
<1>6. Answering'
  <2>1. Wanted(call[t]) \subseteq Keys
    BY <1>2, MaxKeyAssumption DEF Wanted, Calls, Keys, MinKey
  <2>2. owed \in [Threads -> SUBSET Keys]
    BY <1>5 DEF TypeOK
  <2>3. PICK W : W = Wanted(call[t]) \cap Stored
    OBVIOUS
  <2>4. W \in SUBSET Keys
    BY <2>1, <2>3
  <2>5. owed' \in [Threads -> SUBSET Keys]
    BY <2>2, <2>3, <2>4, <1>1
  <2> QED
    BY <2>5, <1>1, <1>5 DEF TypeOK, Answering
<1>7. PICK s, a : s = held[t] /\ a = at[t]
  OBVIOUS
<1>8. s = <<>> /\ s \in Seq(Guards) /\ a = 0 /\ a \in 0..Len(s)
  BY <1>3, <1>4, <1>7
<1>9. Goes(t, "lockroot", s, a, root)
  BY <1>1, <1>5, <1>7 DEF Goes, TypeOK
<1>10. pc'[t] = "lockroot" /\ held'[t] = <<>> /\ at'[t] = 0 /\ target'[t] = root
  BY <1>1, <1>3, <1>4, <1>5 DEF TypeOK
<1>11. Right(t, f)'
  BY <1>1, <1>10, EarlyRight DEF Early
<1>12. Peaceful(t) /\ Follows(t) /\ Enters(t)
  <2>1. DOMAIN held'[t] = {}
    BY <1>10
  <2> QED
    BY <2>1, <1>1, <1>10 DEF Peaceful, Follows, Enters
<1>13. UNCHANGED <<strategy, gc, root, pages, call>> /\ "lockroot" \in PCs
  BY <1>1 DEF PCs
<1> QED
  BY <1>5, <1>6, <1>8, <1>9, <1>11, <1>12, <1>13, Moving

(* Full is the fence of the root. *)
LEMMA FenceOfRoot ==
  ASSUME NEW f, NEW h, Holds(f, h)
  PROVE  /\ root \in DOMAIN pages /\ f[root].lo = MinKey /\ f[root].hi = MaxKey
         /\ ~IsLeaf(root) /\ IsTree(pages, root, f, h)
         /\ \A k \in Keys : Within(k, f[root])
<1>1. IsTree(pages, root, f, h) /\ ~IsLeaf(root)
  BY DEF Holds, Grows
<1>2. PICK ps, r : ps = pages /\ r = root
  OBVIOUS
<1>3. /\ r \in DOMAIN ps /\ f[r] = [lo |-> MinKey, hi |-> MaxKey]
      /\ \A k \in Keys : Within(k, f[r])
  BY <1>1, <1>2, TreeOf
<1> QED
  BY <1>1, <1>2, <1>3

(* The mode that the i-th of n guards may have at l. *)
MayHave(t, l, i, n, m) ==
  \/ m = ModeOf(t)
  \/ /\ i = n /\ ModeOf(t) = "shared"
     /\ (l = "trywrite" /\ m = "lost") \/ (l = "collect" /\ m = "excl")

(* A range query whose guards follow the tree. *)
LEMMA RangeRight ==
  ASSUME NEW f, NEW t \in Threads, UNCHANGED <<strategy, root, pages, call>>,
         pc'[t] \in {"scan"} \cup Late, call[t].op = "Range",
         NEW gs, gs = held'[t], NEW a, a = at'[t], a \in 1..Len(gs), DOMAIN gs = 1..Len(gs),
         pc'[t] \in Late => a = Len(gs) /\ IsLeaf(gs[a].page),
         pc'[t] = "trywrite" => ModeOf(t) = "shared",
         \A i \in 1..Len(gs) : MayHave(t, pc'[t], i, Len(gs), gs[i].mode),
         Trail(gs, a, f)
  PROVE  Right(t, f)'
<1>1. pc'[t] \notin Early /\ pc'[t] \notin {"checkroot", "visit", "lockroot"}
  BY DEF Early, Late
<1>2. ModeOf(t)' = ModeOf(t) /\ call'[t].op = "Range"
  BY DEF ModeOf, Writer
<1>3. PICK M : M = ModeOf(t)
  OBVIOUS
<1>4. \A i \in DOMAIN held'[t] :
        \/ held'[t][i].mode = M
        \/ /\ i = Len(held'[t]) /\ M = "shared"
           /\ \/ pc'[t] = "trywrite" /\ held'[t][i].mode = "lost"
              \/ pc'[t] = "collect" /\ held'[t][i].mode = "excl"
  BY <1>3 DEF MayHave
<1>5. a >= 1
  OBVIOUS
<1>6. Placed(t)'
  BY <1>1, <1>2, <1>3, <1>4, <1>5 DEF Placed
<1>7. Aimed(t, f)' /\ Counted(t)'
  BY <1>1 DEF Aimed, Counted
<1>8. Trail(held[t], at[t], f)'
  BY DEF Trail
<1>9. pc'[t] \in Late => IsLeaf(Page(t))'
  <2>1. SUFFICES ASSUME pc'[t] \in Late PROVE IsLeaf(Page(t))'
    OBVIOUS
  <2>2. Page(t)' = gs[a].page
    BY <2>1 DEF Page, Last
  <2> QED
    BY <2>1, <2>2 DEF IsLeaf
<1>10. Ranged(t, f)'
  BY <1>8, <1>9 DEF Ranged
<1> QED
  BY <1>6, <1>7, <1>10 DEF Right

(* The root is latched with the fence that it has. *)
LEMMA LockRootKeeps ==
  ASSUME NEW f, NEW h, Holds(f, h), NEW t \in Threads, LockRoot(t)
  PROVE  Holds(f, h)'
<1>1. /\ pc[t] = "lockroot" /\ Available(target[t], ModeOf(t))
      /\ held' = [held EXCEPT ![t] = <<Guard(target[t], ModeOf(t), Full)>>]
      /\ at' = [at EXCEPT ![t] = 1]
      /\ pc' = [pc EXCEPT ![t] = CASE Writer(t) -> "checkroot"
                                   [] call[t].op = "Range" -> "scan"
                                   [] call[t].op \in ReadOps \ {"Range"} -> "visit"]
      /\ UNCHANGED <<strategy, gc, root, pages, dead, call, target, low, got, reply, owed, swept>>
  BY DEF LockRoot, Goto, Hold, kind, tree
<1>2. Placed(t) /\ Key(t) \in Keys /\ call[t] \in Calls
  BY ThreadIs
<1>3. target[t] = root
  BY <1>1, <1>2 DEF Placed
<1>4. TypeOK
  BY DEF Holds
<1>5. PICK g, m : g = Guard(root, m, Full) /\ m = ModeOf(t)
  OBVIOUS
<1>6. g.page = root /\ g.mode = m /\ g.lo = MinKey /\ g.hi = MaxKey
  BY <1>5 DEF Guard, Full
<1>7. /\ root \in DOMAIN pages /\ f[root].lo = MinKey /\ f[root].hi = MaxKey /\ ~IsLeaf(root)
      /\ Within(Key(t), f[root])
  BY <1>2, FenceOfRoot
<1>8. m \in {"free", "shared", "excl"}
  BY <1>5, ModeIs
<1>9. g \in Guards
  BY <1>5, <1>7, <1>8, Numbers DEF Guard, Full, Guards
<1>10. PICK s : s = <<g>>
  OBVIOUS
<1>11. s \in Seq(Guards) /\ Len(s) = 1 /\ DOMAIN s = {1} /\ s[1] = g /\ 1 \in 0..Len(s)
  BY <1>9, <1>10
<1>12. PICK l : l = CASE Writer(t) -> "checkroot"
                      [] call[t].op = "Range" -> "scan"
                      [] call[t].op \in ReadOps \ {"Range"} -> "visit"
  OBVIOUS
<1>13. \/ l = "checkroot" /\ Writer(t) /\ call[t].op # "Range"
       \/ l = "scan" /\ call[t].op = "Range"
       \/ l = "visit" /\ ~Writer(t) /\ call[t].op # "Range"
  <2>1. CASE Writer(t)
    BY <2>1, <1>12 DEF Writer, ReadOps
  <2>2. CASE ~Writer(t) /\ call[t].op = "Range"
    BY <2>2, <1>12
  <2>3. CASE ~Writer(t) /\ call[t].op # "Range"
    BY <2>3, <1>12 DEF Writer
  <2> QED
    BY <2>1, <2>2, <2>3
<1>14. held' = [held EXCEPT ![t] = s] /\ pc' = [pc EXCEPT ![t] = l] /\ target' = [target EXCEPT ![t] = root]
  BY <1>1, <1>3, <1>4, <1>5, <1>10, <1>12 DEF TypeOK
<1>15. Goes(t, l, s, 1, root)
  BY <1>1, <1>14 DEF Goes
<1>16. pc'[t] = l /\ held'[t] = s /\ at'[t] = 1
  BY <1>1, <1>4, <1>14 DEF TypeOK
<1>17. Answering'
  BY <1>1, <1>4, AnswersStay
<1>18. Right(t, f)'
  <2>1. CASE l = "scan"
    <3>1. \A i \in 1..Len(s) : MayHave(t, pc'[t], i, Len(s), s[i].mode)
      BY <1>5, <1>6, <1>11 DEF MayHave
    <3>2. Trail(s, 1, f)
      BY <1>6, <1>7, <1>11 DEF Trail
    <3>3. pc'[t] \in {"scan"} \cup Late /\ pc'[t] \notin Late /\ pc'[t] # "trywrite"
      BY <2>1, <1>16 DEF Late
    <3>4. call[t].op = "Range" /\ 1 \in 1..Len(s) /\ DOMAIN s = 1..Len(s)
      BY <2>1, <1>11, <1>13
    <3> QED
      BY <3>1, <3>2, <3>3, <3>4, <1>1, <1>16, RangeRight
  <2>2. CASE l # "scan"
    <3>1. /\ pc'[t] \in {"checkroot", "visit"} /\ held'[t] = <<g>> /\ g.mode = ModeOf(t)
          /\ call[t].op # "Range" /\ (pc'[t] = "checkroot" => Writer(t) /\ g.page = root)
          /\ Within(Key(t), f[g.page]) /\ ~ (pc'[t] = "visit" /\ Writer(t))
      BY <2>2, <1>5, <1>6, <1>7, <1>10, <1>13, <1>16
    <3> QED
      BY <3>1, <1>1, OneRight
  <2> QED
    BY <2>1, <2>2
<1>19. Peaceful(t)
  BY <1>1, <1>3, <1>5, <1>6, <1>11, <1>16, TakesPeaceful
<1>20. Follows(t) /\ Enters(t)
  <2>1. Page(t)' = root
    BY <1>6, <1>11, <1>16 DEF Page, Last
  <2>2. Open(t)
    BY <1>1 DEF Open
  <2> QED
    BY <2>1, <2>2 DEF Follows, Enters
<1>21. UNCHANGED <<strategy, gc, root, pages, call>> /\ l \in PCs
  BY <1>1, <1>13 DEF PCs
<1> QED
  BY <1>7, <1>11, <1>15, <1>17, <1>18, <1>19, <1>20, <1>21, Moving

(* The guard of the root stays, and is about a page with room. *)
LEMMA KeepRootKeeps ==
  ASSUME NEW f, NEW h, Holds(f, h), NEW t \in Threads, KeepRoot(t)
  PROVE  Holds(f, h)'
<1>1. /\ pc[t] = "checkroot" /\ ~HasOverflow(pages[Page(t)]) /\ pc' = [pc EXCEPT ![t] = "visit"]
      /\ UNCHANGED <<strategy, gc, root, pages, dead, call, target, held, at, low, got, reply, owed, swept>>
  BY DEF KeepRoot, Goto, kind, tree, scan
<1>2. /\ 1 \in DOMAIN held[t] /\ Page(t) = held[t][1].page /\ held[t][1].mode = ModeOf(t)
      /\ call[t].op # "Range" /\ held[t] = <<held[t][1]>>
  BY <1>1, PageIs
<1>3. /\ Aimed(t, f) /\ held[t] \in Seq(Guards) /\ at[t] \in 0..Len(held[t]) /\ TypeOK
  BY ThreadIs DEF Holds
<1>4. PICK s, a, x : s = held[t] /\ a = at[t] /\ x = target[t]
  OBVIOUS
<1>5. x \in DOMAIN pages \cup {NoPage} /\ s \in Seq(Guards) /\ a \in 0..Len(s)
  BY <1>3, <1>4 DEF TypeOK
<1>6. Goes(t, "visit", s, a, x)
  BY <1>1, <1>3, <1>4 DEF Goes, TypeOK
<1>7. pc'[t] = "visit" /\ held'[t] = held[t]
  BY <1>1, <1>3 DEF TypeOK
<1>8. PICK g : g = held[t][1]
  OBVIOUS
<1>9. /\ held'[t] = <<g>> /\ g.mode = ModeOf(t) /\ Within(Key(t), f[g.page]) /\ ~HasOverflow(pages[g.page])
  BY <1>1, <1>2, <1>3, <1>7, <1>8 DEF Aimed
<1>10. Right(t, f)'
  BY <1>1, <1>2, <1>7, <1>9, OneRight
<1>11. Peaceful(t)
  BY <1>7, StaysPeaceful
<1>12. Follows(t) /\ Enters(t)
  <2>1. Page(t)' = Page(t)
    BY <1>7 DEF Page
  <2> QED
    BY <2>1, <1>1 DEF Follows, Enters, Open
<1>13. UNCHANGED <<strategy, gc, root, pages, call>> /\ "visit" \in PCs /\ Answering'
  BY <1>1, <1>3, AnswersStay DEF PCs
<1> QED
  BY <1>5, <1>6, <1>10, <1>11, <1>12, <1>13, Moving

(* The child that a descent goes on to. *)
LEMMA ChildIs ==
  ASSUME NEW f, NEW h, Holds(f, h), NEW t \in Threads, Visits(t),
         NEW p, p = Page(t), NEW pos, pos = ChildPos(pages[p], Key(t)), NEW c, c = NextPage(t)
  PROVE  /\ p \in DOMAIN pages /\ ~IsLeafPage(pages[p]) /\ IsTree(pages, root, f, h)
         /\ pos \in DOMAIN pages[p].kids /\ c = pages[p].kids[pos]
         /\ c \in DOMAIN pages /\ c # root /\ c # p /\ c \in ToSet(pages[p].kids)
         /\ Within(Key(t), f[p]) /\ Within(Key(t), f[c]) /\ Key(t) \in Keys
         /\ \A q \in DOMAIN pages : \A j \in DOMAIN pages[q].kids : pages[q].kids[j] = c => q = p
<1>1. pc[t] = "visit" /\ ~IsLeafPage(pages[p])
  BY DEF Visits, IsLeaf
<1>2. p \in DOMAIN pages
  BY <1>1, PageIs
<1>3. Aimed(t, f) /\ Key(t) \in Keys
  BY ThreadIs
<1>4. Within(Key(t), f[p])
  BY <1>1, <1>3 DEF Aimed
<1>5. IsTree(pages, root, f, h)
  BY DEF Holds, Grows
<1>6. pos \in DOMAIN pages[p].kids
  BY <1>1, <1>2, <1>3, <1>5, SearchFinds
<1>7. c = pages[p].kids[pos]
  BY DEF NextPage, Child
<1>8. PICK ps, r, k : ps = pages /\ r = root /\ k = Key(t)
  OBVIOUS
<1>9. /\ c \in DOMAIN ps /\ c # r /\ c # p
      /\ \A x \in Keys : Within(x, f[c]) <=> Within(x, f[p]) /\ pos = ChildPos(ps[p], x)
      /\ \A q \in DOMAIN ps : \A j \in DOMAIN ps[q].kids : ps[q].kids[j] = c => q = p /\ j = pos
  BY <1>2, <1>5, <1>6, <1>7, <1>8, ChildrenOf
<1>10. Within(k, f[c])
  BY <1>3, <1>4, <1>8, <1>9
<1>11. c \in ToSet(pages[p].kids)
  BY <1>6, <1>7 DEF ToSet
<1> QED
  BY <1>1, <1>2, <1>3, <1>4, <1>5, <1>6, <1>7, <1>8, <1>9, <1>10, <1>11

(* The child owns the key too, and a writer has seen its room. *)
LEMMA PassChildKeeps ==
  ASSUME NEW f, NEW h, Holds(f, h), NEW t \in Threads, PassChild(t)
  PROVE  Holds(f, h)'
<1>1. PICK p, pos, c : p = Page(t) /\ pos = ChildPos(pages[p], Key(t)) /\ c = NextPage(t)
  OBVIOUS
<1>2. /\ Visits(t) /\ Available(c, ModeOf(t)) /\ (Writer(t) => ~HasOverflow(pages[c]))
      /\ held' = [held EXCEPT ![t] = <<Guard(c, ModeOf(t), Full)>>]
      /\ UNCHANGED <<strategy, gc, root, pages, dead, call, pc, target, at, low, got, reply, owed, swept>>
  BY <1>1 DEF PassChild, Hold, kind, tree, scan
<1>3. /\ c \in DOMAIN pages /\ c \in ToSet(pages[p].kids) /\ Within(Key(t), f[c])
  BY <1>1, <1>2, ChildIs
<1>4. pc[t] = "visit" /\ TypeOK /\ at[t] \in 0..Len(held[t])
  BY <1>2, ThreadIs DEF Visits, Holds
<1>5. Len(held[t]) = 1 /\ call[t].op # "Range"
  BY <1>4, PageIs
<1>6. PICK g, m : g = Guard(c, m, Full) /\ m = ModeOf(t)
  OBVIOUS
<1>7. m \in {"free", "shared", "excl"}
  BY <1>6, ModeIs
<1>8. g \in Guards /\ g.page = c /\ g.mode = m
  BY <1>3, <1>6, <1>7, Numbers DEF Guard, Full, Guards
<1>9. PICK s, a, x : s = <<g>> /\ a = at[t] /\ x = target[t]
  OBVIOUS
<1>10. s \in Seq(Guards) /\ Len(s) = 1 /\ DOMAIN s = {1} /\ s[1] = g
  BY <1>8, <1>9
<1>11. a \in 0..Len(s) /\ x \in DOMAIN pages \cup {NoPage}
  BY <1>4, <1>5, <1>9, <1>10 DEF TypeOK
<1>12. Goes(t, "visit", s, a, x)
  BY <1>2, <1>4, <1>6, <1>9 DEF Goes, TypeOK
<1>13. pc'[t] = "visit" /\ held'[t] = s
  BY <1>2, <1>4, <1>6, <1>9 DEF TypeOK
<1>14. held'[t] = <<g>> /\ Within(Key(t), f[g.page]) /\ (Writer(t) => ~HasOverflow(pages[g.page]))
  BY <1>2, <1>3, <1>8, <1>9, <1>13
<1>15. Right(t, f)'
  BY <1>2, <1>5, <1>6, <1>8, <1>13, <1>14, OneRight
<1>16. Peaceful(t)
  BY <1>2, <1>6, <1>8, <1>10, <1>13, TakesPeaceful
<1>17. Follows(t) /\ Enters(t)
  <2>1. Page(t)' = c
    BY <1>8, <1>10, <1>13 DEF Page, Last
  <2> QED
    BY <2>1, <1>1, <1>3, <1>4 DEF Follows, Enters, Open
<1>18. UNCHANGED <<strategy, gc, root, pages, call>> /\ "visit" \in PCs /\ Answering'
  BY <1>2, <1>4, AnswersStay DEF PCs
<1> QED
  BY <1>10, <1>11, <1>12, <1>15, <1>16, <1>17, <1>18, Moving

(* No child is thin: the corrections of thin pages are not reached. *)
LEMMA NoThinChild ==
  ASSUME NEW f, NEW h, Holds(f, h), NEW t \in Threads
  PROVE  ~TakeThinChild(t) /\ ~CorrectThin(t) /\ ~Panic(t)
<1>1. Placed(t)
  BY ThreadIs
<1>2. pc[t] # "thin"
  BY <1>1 DEF Placed, Early, Late
<1>3. ASSUME TakeThinChild(t) PROVE FALSE
  <2>1. PICK p, pos, c : p = Page(t) /\ pos = ChildPos(pages[p], Key(t)) /\ c = NextPage(t)
    OBVIOUS
  <2>2. Visits(t) /\ HasUnderflow(pages[c])
    BY <1>3, <2>1 DEF TakeThinChild
  <2>3. c \in DOMAIN pages /\ c # root
    BY <2>1, <2>2, ChildIs
  <2> QED
    BY <2>2, <2>3 DEF Holds, Grows
<1> QED
  BY <1>2, <1>3 DEF CorrectThin, Panic

-------------------------------------------------------------------------
(* Answers. *)

Replies == {"stored", "found", "missing", "matched", "nothing", "error"}

(* What is remembered of a call that ends. *)
LEMMA FinishTyped ==
  ASSUME TypeOK, NEW t \in Threads, NEW r \in Replies, NEW ks \in Seq(Keys), Finish(t, r, ks),
         dead' \subseteq Keys
  PROVE  Answering'
<1>1. /\ reply' = [reply EXCEPT ![t] = r] /\ got' = [got EXCEPT ![t] = @ \o ks]
      /\ owed' = [owed EXCEPT ![t] = {}] /\ low' = low /\ swept' = swept
  BY DEF Finish
<1>2. /\ swept \subseteq Keys /\ low \in [Threads -> Keys] /\ got \in [Threads -> Seq(Keys)]
      /\ reply \in [Threads -> {"none", "stored", "found", "missing", "matched", "nothing", "error"}]
      /\ owed \in [Threads -> SUBSET Keys]
  BY DEF TypeOK
<1>3. PICK s : s = got[t] \o ks
  OBVIOUS
<1>4. got[t] \in Seq(Keys)
  BY <1>2
<1>5. s \in Seq(Keys)
  BY <1>3, <1>4, ConcatProperties
<1>6. got' \in [Threads -> Seq(Keys)]
  BY <1>1, <1>2, <1>3, <1>5
<1>7. reply' \in [Threads -> {"none", "stored", "found", "missing", "matched", "nothing", "error"}]
  BY <1>1, <1>2 DEF Replies
<1>8. owed' \in [Threads -> SUBSET Keys]
  BY <1>1, <1>2
<1> QED
  BY <1>1, <1>2, <1>6, <1>7, <1>8 DEF Answering

(* A call ends and drops its guards. *)
LEMMA Finishing ==
  ASSUME NEW f, NEW h, Holds(f, h), NEW t \in Threads, NEW r \in Replies, NEW ks \in Seq(Keys),
         Finish(t, r, ks), dead' \subseteq Keys, pages' = pages
  PROVE  Holds(f, h)'
<1>1. /\ held' = [held EXCEPT ![t] = <<>>] /\ at' = [at EXCEPT ![t] = 0]
      /\ pc' = [pc EXCEPT ![t] = "done"]
      /\ UNCHANGED <<strategy, gc, root, call, target>>
  BY DEF Finish, Goto, Hold, kind
<1>2. TypeOK
  BY DEF Holds
<1>3. PICK s, x : s = <<>> /\ x = target[t]
  OBVIOUS
<1>4. s \in Seq(Guards) /\ 0 \in 0..Len(s) /\ x \in DOMAIN pages \cup {NoPage}
  BY <1>2, <1>3 DEF TypeOK
<1>5. Goes(t, "done", s, 0, x)
  BY <1>1, <1>2, <1>3 DEF Goes, TypeOK
<1>6. pc'[t] = "done" /\ held'[t] = <<>> /\ at'[t] = 0
  BY <1>1, <1>2 DEF TypeOK
<1>7. Right(t, f)'
  BY <1>6, EarlyRight DEF Early
<1>8. Peaceful(t) /\ Follows(t) /\ Enters(t)
  <2>1. DOMAIN held'[t] = {}
    BY <1>6
  <2> QED
    BY <2>1, <1>6 DEF Peaceful, Follows, Enters, Open
<1>9. Answering'
  BY <1>2, FinishTyped
<1>10. UNCHANGED <<strategy, gc, root, pages, call>> /\ "done" \in PCs
  BY <1>1 DEF PCs
<1> QED
  BY <1>4, <1>5, <1>7, <1>8, <1>9, <1>10, Moving

(* What a leaf has is keys. *)
LEMMA RecsAreKeys ==
  ASSUME NEW f, NEW h, Holds(f, h), NEW t \in Threads, pc[t] = "visit"
  PROVE  Recs(t) \subseteq Keys /\ <<>> \in Seq(Keys) /\ Key(t) \in Keys /\ dead \subseteq Keys
<1>1. Page(t) \in DOMAIN pages
  BY PageIs
<1>2. pages[Page(t)] \in Pages /\ dead \subseteq Keys
  BY <1>1 DEF Holds, TypeOK
<1>3. Recs(t) \subseteq Keys
  BY <1>2 DEF Recs, Pages
<1> QED
  BY <1>2, <1>3, ThreadIs

(* The version of a record is appended, or there is none. *)
LEMMA ChangeKeeps ==
  ASSUME NEW f, NEW h, Holds(f, h), NEW t \in Threads, Change(t)
  PROVE  Holds(f, h)'
<1>1. pc[t] = "visit" /\ pages' = pages
  BY DEF Change, OnLeaf
<1>2. <<>> \in Seq(Keys) /\ Key(t) \in Keys /\ dead \subseteq Keys
  BY <1>1, RecsAreKeys
<1>3. PICK r \in {"found", "missing"} : Finish(t, r, <<>>) /\ dead' \subseteq Keys
  <2>1. CASE Key(t) \in Recs(t)
    BY <2>1, <1>2 DEF Change
  <2>2. CASE Key(t) \notin Recs(t)
    BY <2>2, <1>2 DEF Change
  <2> QED
    BY <2>1, <2>2
<1>4. r \in Replies
  BY DEF Replies
<1> QED
  BY <1>1, <1>2, <1>3, <1>4, Finishing

(* A point read answers. *)
LEMMA PointKeeps ==
  ASSUME NEW f, NEW h, Holds(f, h), NEW t \in Threads, Point(t)
  PROVE  Holds(f, h)'
<1>1. pc[t] = "visit" /\ pages' = pages /\ dead' = dead
  BY DEF Point, OnLeaf
<1>2. <<>> \in Seq(Keys) /\ dead \subseteq Keys
  BY <1>1, RecsAreKeys
<1>3. PICK r : r = IF Key(t) \in Recs(t) THEN "found" ELSE "missing"
  OBVIOUS
<1>4. r \in Replies /\ Finish(t, r, <<>>)
  BY <1>3 DEF Point, Replies
<1> QED
  BY <1>1, <1>2, <1>4, Finishing

(* The key at an end of a leaf is one. *)
LEMMA EndIsKey ==
  ASSUME NEW f, NEW h, Holds(f, h), NEW t \in Threads, pc[t] = "visit",
         NEW k, k \in {Smallest(Recs(t)), Largest(Recs(t))}, Recs(t) # {}
  PROVE  k \in Keys /\ <<k>> \in Seq(Keys)
<1>1. PICK R : R = Recs(t)
  OBVIOUS
<1>2. R \subseteq Keys /\ R # {}
  BY <1>1, RecsAreKeys
<1>3. Smallest(R) \in R /\ Largest(R) \in R
  BY <1>2, EndsOf
<1>4. k \in Keys
  BY <1>1, <1>2, <1>3
<1> QED
  BY <1>4

(* An end of the tree is deleted, or nothing is. *)
LEMMA PopKeeps ==
  ASSUME NEW f, NEW h, Holds(f, h), NEW t \in Threads, pc[t] = "visit",
         NEW k, k \in {Smallest(Recs(t)), Largest(Recs(t))}, Pop(t, k)
  PROVE  Holds(f, h)'
<1>1. pages' = pages /\ "error" \in Replies /\ "matched" \in Replies
  BY DEF Pop, Replies
<1>2. <<>> \in Seq(Keys) /\ dead \subseteq Keys
  BY RecsAreKeys
<1>3. CASE Recs(t) = {} \/ k \in dead
  <2>1. Finish(t, "error", <<>>) /\ dead' \subseteq Keys
    BY <1>2, <1>3 DEF Pop
  <2> QED
    BY <2>1, <1>1, <1>2, Finishing
<1>4. CASE ~ (Recs(t) = {} \/ k \in dead)
  <2>1. k \in Keys /\ <<k>> \in Seq(Keys)
    BY <1>4, EndIsKey
  <2>2. Finish(t, "matched", <<k>>) /\ dead' \subseteq Keys
    BY <2>1, <1>2, <1>4 DEF Pop
  <2> QED
    BY <2>1, <2>2, <1>1, Finishing
<1> QED
  BY <1>3, <1>4

(* An end of the tree is looked at. *)
LEMMA PeekKeeps ==
  ASSUME NEW f, NEW h, Holds(f, h), NEW t \in Threads, pc[t] = "visit",
         NEW k, k \in {Smallest(Recs(t)), Largest(Recs(t))}, Peek(t, k)
  PROVE  Holds(f, h)'
<1>1. pages' = pages /\ dead' = dead /\ "nothing" \in Replies /\ "matched" \in Replies
  BY DEF Peek, Replies
<1>2. <<>> \in Seq(Keys) /\ dead \subseteq Keys
  BY RecsAreKeys
<1>3. CASE Recs(t) = {} \/ k \in dead
  <2>1. Finish(t, "nothing", <<>>)
    BY <1>3 DEF Peek
  <2> QED
    BY <2>1, <1>1, <1>2, Finishing
<1>4. CASE ~ (Recs(t) = {} \/ k \in dead)
  <2>1. k \in Keys /\ <<k>> \in Seq(Keys)
    BY <1>4, EndIsKey
  <2>2. Finish(t, "matched", <<k>>)
    BY <1>4 DEF Peek
  <2> QED
    BY <2>1, <2>2, <1>1, <1>2, Finishing
<1> QED
  BY <1>3, <1>4

(* Pops and peeks at both ends. *)
LEMMA EndsKeep ==
  ASSUME NEW f, NEW h, Holds(f, h), NEW t \in Threads,
         PopMin(t) \/ PopMax(t) \/ PeekMin(t) \/ PeekMax(t)
  PROVE  Holds(f, h)'
<1>1. PICK a, b : a = Smallest(Recs(t)) /\ b = Largest(Recs(t))
  OBVIOUS
<1>2. pc[t] = "visit"
  BY DEF PopMin, PopMax, PeekMin, PeekMax, OnLeaf
<1>3. Pop(t, a) \/ Pop(t, b) \/ Peek(t, a) \/ Peek(t, b)
  BY <1>1 DEF PopMin, PopMax, PeekMin, PeekMax
<1> QED
  BY <1>1, <1>2, <1>3, PopKeeps, PeekKeeps

-------------------------------------------------------------------------
(* Range queries. *)

(* The guard that a range query looks under is in use and has its key.     *)
LEMMA BranchIs ==
  ASSUME NEW f, NEW h, Holds(f, h), NEW t \in Threads, pc[t] = "scan", NEW b, b = Branch(t)
  PROVE  /\ b \in 1..at[t] /\ at[t] \in 1..Len(held[t]) /\ b \in 1..Len(held[t])
         /\ Covers(held[t][b], low[t]) /\ held[t][b].page \in DOMAIN pages
         /\ call[t].op = "Range" /\ Trail(held[t], at[t], f)
<1>1. Placed(t) /\ (call[t].op = "Range" => Ranged(t, f)) /\ low[t] \in Keys
      /\ at[t] \in 0..Len(held[t]) /\ Len(held[t]) \in Nat
  BY ThreadIs
<1>2. at[t] >= 1 /\ call[t].op = "Range"
  BY <1>1 DEF Placed
<1>3. Trail(held[t], at[t], f)
  BY <1>1, <1>2 DEF Ranged
<1>4. PICK n, s : n = at[t] /\ s = held[t]
  OBVIOUS
<1>5. n \in Nat /\ n >= 1 /\ n \in 1..Len(s)
  BY <1>1, <1>2, <1>4
<1>6. PICK S : S = {i \in 1..n : Covers(s[i], low[t])}
  OBVIOUS
<1>7. 1 \in S
  <2>1. 1 \in 1..n
    BY <1>5
  <2>2. s[1].page = root /\ s[1].lo = f[s[1].page].lo /\ s[1].hi = f[s[1].page].hi
    BY <2>1, <1>3, <1>4 DEF Trail
  <2>3. s[1].lo = MinKey /\ s[1].hi = MaxKey
    BY <2>2, FenceOfRoot
  <2>4. Covers(s[1], low[t])
    BY <2>3, <1>1, Numbers DEF Covers
  <2> QED
    BY <2>1, <2>4, <1>6
<1>8. Largest(S) \in S
  <2>1. S \subseteq 1..n /\ S # {}
    BY <1>6, <1>7
  <2> QED
    BY <2>1, <1>5, LastOf
<1>9. b = Largest(S)
  BY <1>4, <1>6 DEF Branch
<1>10. b \in 1..n /\ Covers(s[b], low[t])
  BY <1>6, <1>8, <1>9
<1>11. b \in 1..Len(s)
  BY <1>5, <1>10, <1>1, <1>4
<1>12. s[b].page \in DOMAIN pages
  BY <1>4, <1>11, GuardIs
<1> QED
  BY <1>2, <1>3, <1>4, <1>5, <1>10, <1>11, <1>12

(* The modes of a range query that goes down. *)
LEMMA ModesIs ==
  ASSUME NEW f, NEW h, Holds(f, h), NEW t \in Threads, pc[t] \notin {"trywrite", "collect"},
         NEW i \in 1..Len(held[t])
  PROVE  held[t][i].mode = ModeOf(t)
<1>1. Placed(t) /\ DOMAIN held[t] = 1..Len(held[t])
  BY ThreadIs
<1> QED
  BY <1>1 DEF Placed

(* The child's guard gets the fence that the page gives the child.         *)
LEMMA ScanIndexKeeps ==
  ASSUME NEW f, NEW h, Holds(f, h), NEW t \in Threads, ScanIndex(t)
  PROVE  Holds(f, h)'
<1>1. PICK b, page, pos, c : /\ b = Branch(t) /\ page = pages[held[t][b].page]
                             /\ pos = ChildPos(page, low[t]) /\ c = page.kids[pos]
  OBVIOUS
<1>2. PICK m, e : m = ModeOf(t) /\ e = ChildFence(page, pos, held[t][b])
  OBVIOUS
<1>3. PICK g, s : g = Guard(c, m, e) /\ s = InsertAt(held[t], b + 1, g)
  OBVIOUS
<1>4. /\ pc[t] = "scan" /\ ~IsLeafPage(page) /\ Available(c, m)
      /\ held' = [held EXCEPT ![t] = s] /\ at' = [at EXCEPT ![t] = b + 1]
      /\ UNCHANGED <<strategy, gc, root, pages, dead, call, pc, target, low, got, reply, owed, swept>>
  BY <1>1, <1>2, <1>3 DEF ScanIndex, Hold, kind, tree
<1>5. /\ b \in 1..at[t] /\ at[t] \in 1..Len(held[t]) /\ b \in 1..Len(held[t])
      /\ Covers(held[t][b], low[t]) /\ held[t][b].page \in DOMAIN pages
      /\ call[t].op = "Range" /\ Trail(held[t], at[t], f)
  BY <1>1, <1>4, BranchIs
<1>6. /\ held[t] \in Seq(Guards) /\ Len(held[t]) \in Nat /\ low[t] \in Keys /\ TypeOK
  BY ThreadIs DEF Holds
<1>7. PICK o, p, n : o = held[t] /\ p = o[b].page /\ n = Len(o)
  OBVIOUS
<1>8. /\ o \in Seq(Guards) /\ n \in Nat /\ b \in 1..n /\ p \in DOMAIN pages /\ page = pages[p]
  BY <1>1, <1>5, <1>6, <1>7
<1>9. IsTree(pages, root, f, h)
  BY DEF Holds, Grows
<1>10. pos \in DOMAIN page.kids
  BY <1>1, <1>4, <1>6, <1>8, <1>9, SearchFinds
<1>11. c \in DOMAIN pages /\ f[c] = ChildFence(page, pos, f[p]) /\ c \in ToSet(page.kids)
  <2>1. c \in DOMAIN pages /\ f[c] = ChildFence(page, pos, f[p])
    BY <1>1, <1>8, <1>9, <1>10, ChildrenOf
  <2> QED
    BY <2>1, <1>1, <1>10 DEF ToSet
<1>12. e.lo = f[c].lo /\ e.hi = f[c].hi
  <2>1. o[b].lo = f[p].lo /\ o[b].hi = f[p].hi
    BY <1>5, <1>7 DEF Trail
  <2> QED
    BY <2>1, <1>2, <1>7, <1>11 DEF ChildFence
<1>13. f[c].lo \in Keys /\ f[c].hi \in Keys
  BY <1>9, <1>11, PageOf
<1>14. /\ g \in Guards /\ g.page = c /\ g.mode = m /\ g.lo = f[c].lo /\ g.hi = f[c].hi
  <2>1. m \in {"free", "shared", "excl"}
    BY <1>2, ModeIs
  <2> QED
    BY <2>1, <1>3, <1>11, <1>12, <1>13 DEF Guard, Guards
<1>15. /\ s \in Seq(Guards) /\ Len(s) = n + 1 /\ b + 1 \in 1..n + 1
       /\ \A j \in 1..n + 1 : s[j] = IF j < b + 1 THEN o[j] ELSE IF j = b + 1 THEN g ELSE o[j - 1]
  <2>1. b + 1 \in 1..Len(o) + 1
    BY <1>7, <1>8
  <2>2. s = InsertAt(o, b + 1, g)
    BY <1>3, <1>7
  <2>3. PICK i : i = b + 1
    OBVIOUS
  <2>4. PICK R : R = Guards
    OBVIOUS
  <2>5. o \in Seq(R) /\ i \in 1..Len(o) + 1 /\ g \in R
    BY <2>1, <2>3, <2>4, <1>8, <1>14
  <2>6. /\ InsertAt(o, i, g) \in Seq(R) /\ Len(InsertAt(o, i, g)) = Len(o) + 1
        /\ \A j \in 1..Len(o) + 1 :
             InsertAt(o, i, g)[j] = IF j < i THEN o[j] ELSE IF j = i THEN g ELSE o[j - 1]
    BY <2>5, Inserted
  <2>7. s = InsertAt(o, i, g) /\ Len(o) = n
    BY <2>2, <2>3, <1>7
  <2>8. s \in Seq(R) /\ Len(s) = n + 1
    BY <2>6, <2>7
  <2>9. \A j \in 1..n + 1 : s[j] = IF j < i THEN o[j] ELSE IF j = i THEN g ELSE o[j - 1]
    BY <2>6, <2>7
  <2>10. s \in Seq(Guards)
    BY <2>4, <2>8
  <2> QED
    BY <2>3, <2>5, <2>7, <2>8, <2>9, <2>10
<1>16. DOMAIN s = 1..n + 1
  BY <1>15, LenProperties
<1>17. \A j \in 1..n + 1 : s[j] = g \/ \E i \in 1..n : s[j] = o[i]
  <2> TAKE j \in 1..n + 1
  <2>1. CASE j < b + 1
    <3>1. j \in 1..n /\ s[j] = o[j]
      BY <2>1, <1>8, <1>15
    <3> QED
      BY <3>1
  <2>2. CASE j = b + 1
    BY <2>2, <1>15
  <2>3. CASE j > b + 1
    <3>1. j - 1 \in 1..n /\ s[j] = o[j - 1]
      BY <2>3, <1>8, <1>15
    <3> QED
      BY <3>1
  <2> QED
    BY <2>1, <2>2, <2>3, <1>8
<1>18. \A i \in 1..n : o[i].mode = m
  BY <1>2, <1>4, <1>7, ModesIs
<1>19. pc'[t] = "scan" /\ held'[t] = s /\ at'[t] = b + 1
  BY <1>4, <1>6 DEF TypeOK
<1>20. Trail(s, b + 1, f)
  <2>1. \A i \in 1..b : s[i] = o[i] /\ i \in 1..at[t]
    BY <1>5, <1>8, <1>15
  <2>2. s[b + 1] = g /\ b + 1 > 1 /\ b + 1 - 1 = b
    BY <1>8, <1>15
  <2> SUFFICES ASSUME NEW i \in 1..b + 1
               PROVE  /\ s[i].lo = f[s[i].page].lo /\ s[i].hi = f[s[i].page].hi
                      /\ i = 1 => s[i].page = root
                      /\ i > 1 => s[i].page \in ToSet(pages[s[i - 1].page].kids)
    BY DEF Trail
  <2>3. CASE i = b + 1
    <3>1. s[i] = g /\ i # 1 /\ i - 1 = b /\ b \in 1..b
      BY <2>2, <2>3, <1>8
    <3>2. s[i - 1] = o[b]
      BY <3>1, <2>1
    <3> QED
      BY <3>1, <3>2, <1>7, <1>8, <1>11, <1>14
  <2>4. CASE i # b + 1
    <3>1. i \in 1..b /\ (i > 1 => i - 1 \in 1..b)
      BY <2>4, <1>8
    <3>2. s[i] = o[i] /\ i \in 1..at[t] /\ (i > 1 => s[i - 1] = o[i - 1])
      BY <3>1, <2>1
    <3> QED
      BY <3>2, <1>5, <1>7 DEF Trail
  <2> QED
    BY <2>3, <2>4
<1>21. Right(t, f)'
  <2>1. pc'[t] \in {"scan"} \cup Late /\ pc'[t] \notin Late /\ pc'[t] # "trywrite"
    BY <1>19 DEF Late
  <2>2. \A i \in 1..Len(s) : MayHave(t, pc'[t], i, Len(s), s[i].mode)
    BY <1>2, <1>14, <1>15, <1>17, <1>18 DEF MayHave
  <2>3. b + 1 \in 1..Len(s) /\ DOMAIN s = 1..Len(s)
    BY <1>15, <1>16
  <2> QED
    BY <2>1, <2>2, <2>3, <1>4, <1>5, <1>19, <1>20, RangeRight
<1>22. Peaceful(t)
  <2>1. DOMAIN o = 1..n
    BY <1>7, <1>8, LenProperties
  <2>2. \A i \in DOMAIN held'[t] : \/ held'[t][i].page = c /\ held'[t][i].mode = m
                                   \/ \E j \in DOMAIN held[t] : /\ held'[t][i].page = held[t][j].page
                                                                /\ held'[t][i].mode = held[t][j].mode
    <3> SUFFICES ASSUME NEW i \in 1..n + 1
                 PROVE  \/ s[i].page = c /\ s[i].mode = m
                        \/ \E j \in 1..n : s[i].page = o[j].page /\ s[i].mode = o[j].mode
      BY <2>1, <1>7, <1>16, <1>19
    <3>1. CASE s[i] = g
      BY <3>1, <1>14
    <3>2. CASE \E j \in 1..n : s[i] = o[j]
      BY <3>2
    <3> QED
      BY <3>1, <3>2, <1>17
  <2> QED
    BY <2>2, <1>4, TakesPeaceful
<1>23. Follows(t) /\ Enters(t)
  BY <1>4, <1>19 DEF Follows, Enters, Open
<1>24. PICK x : x = target[t]
  OBVIOUS
<1>25. x \in DOMAIN pages \cup {NoPage} /\ b + 1 \in 0..Len(s)
  BY <1>6, <1>15, <1>24 DEF TypeOK
<1>26. Goes(t, "scan", s, b + 1, x)
  BY <1>4, <1>6, <1>24 DEF Goes, TypeOK
<1>27. UNCHANGED <<strategy, gc, root, pages, call>> /\ "scan" \in PCs /\ Answering'
  BY <1>4, <1>6, AnswersStay DEF PCs
<1> QED
  BY <1>15, <1>21, <1>22, <1>23, <1>25, <1>26, <1>27, Moving

(* A range query that has come to a leaf is below the root. *)
LEMMA LateIs ==
  ASSUME NEW f, NEW h, Holds(f, h), NEW t \in Threads, pc[t] \in Late,
         NEW n, n = Len(held[t])
  PROVE  /\ n \in Nat /\ n >= 2 /\ at[t] = n /\ DOMAIN held[t] = 1..n
         /\ held[t] \in Seq(Guards) /\ held[t] # <<>>
         /\ Last(held[t]) = held[t][n] /\ Page(t) = held[t][n].page
         /\ held[t][n] \in Guards /\ held[t][n].page \in DOMAIN pages /\ IsLeaf(held[t][n].page)
         /\ call[t].op = "Range" /\ Trail(held[t], n, f) /\ Placed(t)
         /\ \A i \in 1..(n - 1) : held[t][i].mode = ModeOf(t)
<1>1. /\ Placed(t) /\ held[t] \in Seq(Guards) /\ n \in Nat /\ DOMAIN held[t] = 1..n
      /\ (call[t].op = "Range" => Ranged(t, f))
  BY ThreadIs
<1>2. at[t] = n /\ n >= 1 /\ call[t].op = "Range"
  BY <1>1 DEF Placed
<1>3. Trail(held[t], n, f) /\ IsLeaf(Page(t))
  BY <1>1, <1>2 DEF Ranged
<1>4. Last(held[t]) = held[t][n] /\ Page(t) = held[t][n].page
  BY DEF Last, Page
<1>5. n \in 1..n /\ 1 \in 1..n
  BY <1>1, <1>2
<1>6. held[t][n] \in Guards /\ held[t][n].page \in DOMAIN pages
  BY <1>5, GuardIs
<1>7. n >= 2
  <2>1. held[t][1].page = root
    BY <1>3, <1>5 DEF Trail
  <2>2. n # 1
    BY <2>1, <1>3, <1>4, FenceOfRoot
  <2>3. PICK k : k = n
    OBVIOUS
  <2>4. k \in Nat /\ k >= 1 /\ k # 1
    BY <1>1, <1>2, <2>2, <2>3
  <2>5. k >= 2
    BY <2>4
  <2> QED
    BY <2>3, <2>5
<1>8. held[t] # <<>>
  <2>1. PICK s : s = held[t]
    OBVIOUS
  <2>2. Len(s) = n /\ s \in Seq(Guards)
    BY <2>1, <1>1
  <2>3. n # 0
    BY <1>7
  <2>4. PICK R : R = Guards
    OBVIOUS
  <2>5. s \in Seq(R) /\ Len(s) # 0
    BY <2>2, <2>3, <2>4
  <2>6. s # <<>>
    BY <2>5, NotEmpty
  <2> QED
    BY <2>1, <2>6
<1>9. ASSUME NEW i \in 1..(n - 1)  PROVE held[t][i].mode = ModeOf(t)
  <2>1. i \in DOMAIN held[t] /\ i # Len(held[t])
    BY <1>1
  <2> QED
    BY <2>1, <1>1 DEF Placed
<1> QED
  BY <1>1, <1>2, <1>3, <1>4, <1>6, <1>7, <1>8, <1>9

(* A range query goes back to its first m guards. *)
LEMMA BackTo ==
  ASSUME NEW f, NEW h, Holds(f, h), NEW t \in Threads, call[t].op = "Range",
         pc[t] \in {"scan"} \cup Late, NEW m \in Nat, m >= 1, m <= at[t],
         NEW s, s = held[t], NEW q, q = SubSeq(s, 1, m),
         NEW l \in {"scan", "upgrade"}, l = "upgrade" => IsLeaf(s[m].page),
         \A i \in 1..m : s[i].mode = ModeOf(t),
         NEW x \in DOMAIN pages \cup {NoPage}, Goes(t, l, q, m, x),
         UNCHANGED <<strategy, gc, root, pages, call>>, Answering'
  PROVE  Holds(f, h)'
<1>1. /\ s \in Seq(Guards) /\ Len(s) \in Nat /\ at[t] \in 0..Len(s) /\ TypeOK
      /\ Trail(s, at[t], f)
  BY ThreadIs DEF Holds, Ranged
<1>2. m <= Len(s)
  BY <1>1
<1>3. PICK R : R = Guards
  OBVIOUS
<1>4. s \in Seq(R)
  BY <1>1, <1>3
<1>5. /\ q \in Seq(R) /\ Len(q) = m /\ DOMAIN q = 1..m /\ DOMAIN s = 1..Len(s)
      /\ \A i \in 1..m : q[i] = s[i] /\ i \in 1..Len(s)
  BY <1>2, <1>4, FirstOf
<1>6. pc'[t] = l /\ held'[t] = q /\ at'[t] = m
  BY <1>1 DEF TypeOK, Goes
<1>7. Trail(q, m, f)
  <2> SUFFICES ASSUME NEW i \in 1..m
               PROVE  /\ q[i].lo = f[q[i].page].lo /\ q[i].hi = f[q[i].page].hi
                      /\ i = 1 => q[i].page = root
                      /\ i > 1 => q[i].page \in ToSet(pages[q[i - 1].page].kids)
    BY DEF Trail
  <2>1. i \in 1..at[t] /\ (i > 1 => i - 1 \in 1..m)
    BY <1>1
  <2>2. q[i] = s[i] /\ (i > 1 => q[i - 1] = s[i - 1])
    BY <2>1, <1>5
  <2> QED
    BY <2>1, <2>2, <1>1 DEF Trail
<1>8. Right(t, f)'
  <2>1. pc'[t] \in {"scan"} \cup Late /\ pc'[t] # "trywrite"
    BY <1>6 DEF Late
  <2>2. \A i \in 1..Len(q) : MayHave(t, pc'[t], i, Len(q), q[i].mode)
    BY <1>5 DEF MayHave
  <2>3. m \in 1..Len(q) /\ DOMAIN q = 1..Len(q)
    BY <1>5
  <2>4. pc'[t] \in Late => m = Len(q) /\ IsLeaf(q[m].page)
    BY <1>5, <1>6, <2>3 DEF Late
  <2> QED
    BY <2>1, <2>2, <2>3, <2>4, <1>6, <1>7, RangeRight
<1>9. Peaceful(t)
  <2>1. \A i \in DOMAIN held'[t] : i \in DOMAIN held[t] /\ held'[t][i] = held[t][i]
    BY <1>5, <1>6
  <2> QED
    BY <2>1, StaysPeaceful
<1>10. Follows(t) /\ Enters(t)
  BY <1>6 DEF Follows, Enters, Open, Late
<1>11. m \in 0..Len(q) /\ q \in Seq(Guards) /\ l \in PCs
  BY <1>3, <1>5 DEF PCs
<1> QED
  BY <1>8, <1>9, <1>10, <1>11, Moving

(* A leaf is reached: the guards beyond it are let go. *)
LEMMA ScanLeafKeeps ==
  ASSUME NEW f, NEW h, Holds(f, h), NEW t \in Threads, ScanLeaf(t)
  PROVE  Holds(f, h)'
<1>1. PICK b, s, q : b = Branch(t) /\ s = held[t] /\ q = SubSeq(s, 1, b)
  OBVIOUS
<1>2. /\ pc[t] = "scan" /\ IsLeaf(s[b].page)
      /\ held' = [held EXCEPT ![t] = q] /\ at' = [at EXCEPT ![t] = b]
      /\ pc' = [pc EXCEPT ![t] = "upgrade"]
      /\ UNCHANGED <<strategy, gc, root, pages, dead, call, target, low, got, reply, owed, swept>>
  BY <1>1 DEF ScanLeaf, Goto, Hold, kind, tree
<1>3. /\ b \in 1..at[t] /\ at[t] \in 1..Len(s) /\ call[t].op = "Range"
  BY <1>1, <1>2, BranchIs
<1>4. Len(s) \in Nat /\ TypeOK
  BY <1>1, ThreadIs DEF Holds
<1>5. b \in Nat /\ b >= 1 /\ b <= at[t] /\ \A i \in 1..b : i \in 1..Len(s)
  BY <1>3, <1>4
<1>6. \A i \in 1..b : s[i].mode = ModeOf(t)
  BY <1>1, <1>2, <1>5, ModesIs
<1>7. Answering'
  BY <1>2, <1>4, AnswersStay
<1>8. PICK x, l : x = target[t] /\ l = "upgrade"
  OBVIOUS
<1>9. x \in DOMAIN pages \cup {NoPage} /\ Goes(t, l, q, b, x)
  BY <1>2, <1>4, <1>8 DEF TypeOK, Goes
<1>10. /\ pc[t] \in {"scan"} \cup Late /\ l \in {"scan", "upgrade"}
       /\ (l = "upgrade" => IsLeaf(s[b].page))
  BY <1>2, <1>8
<1> QED
  BY <1>1, <1>2, <1>3, <1>5, <1>6, <1>7, <1>9, <1>10, BackTo

(* The last guard is let go. *)
GoesUp(t) ==
  /\ held' = [held EXCEPT ![t] = Front(held[t])]
  /\ at' = [at EXCEPT ![t] = Len(held[t]) - 1]
  /\ pc' = [pc EXCEPT ![t] = IF Len(held[t]) = 1 THEN "root" ELSE "scan"]
  /\ UNCHANGED target

(* The search goes on above it. *)
LEMMA UpOne ==
  ASSUME NEW f, NEW h, Holds(f, h), NEW t \in Threads, pc[t] \in Late, GoesUp(t),
         UNCHANGED <<strategy, gc, root, pages, call>>, Answering'
  PROVE  Holds(f, h)'
<1>1. PICK n, s, m, q : n = Len(held[t]) /\ s = held[t] /\ m = n - 1 /\ q = SubSeq(s, 1, m)
  OBVIOUS
<1>2. /\ n \in Nat /\ n >= 2 /\ at[t] = n /\ call[t].op = "Range"
      /\ \A i \in 1..(n - 1) : held[t][i].mode = ModeOf(t)
  BY <1>1, LateIs
<1>3. m \in Nat /\ m >= 1 /\ m <= at[t]
  BY <1>1, <1>2
<1>4. held' = [held EXCEPT ![t] = q]
  <2>1. Front(held[t]) = q
    BY <1>1 DEF Front
  <2> QED
    BY <2>1 DEF GoesUp
<1>5. at' = [at EXCEPT ![t] = m]
  BY <1>1 DEF GoesUp
<1>6. PICK l : l = "scan"
  OBVIOUS
<1>7. pc' = [pc EXCEPT ![t] = l]
  <2>1. n # 1
    BY <1>2
  <2>2. n = Len(held[t])
    BY <1>1
  <2> QED
    BY <2>1, <2>2, <1>6 DEF GoesUp
<1>8. PICK x : x = target[t]
  OBVIOUS
<1>9. x \in DOMAIN pages \cup {NoPage} /\ target' = [target EXCEPT ![t] = x]
  BY <1>8 DEF Holds, TypeOK, GoesUp
<1>10. Goes(t, l, q, m, x)
  BY <1>4, <1>5, <1>7, <1>9 DEF Goes
<1>11. \A i \in 1..m : s[i].mode = ModeOf(t)
  BY <1>1, <1>2
<1>12. /\ pc[t] \in {"scan"} \cup Late /\ l \in {"scan", "upgrade"}
       /\ (l = "upgrade" => IsLeaf(s[m].page))
  BY <1>6
<1>13. s = held[t] /\ q = SubSeq(s, 1, m) /\ call[t].op = "Range"
  BY <1>1, <1>2
<1>14. UNCHANGED <<strategy, gc, root, pages, call>>
  OBVIOUS
<1> QED
  BY <1>3, <1>9, <1>10, <1>11, <1>12, <1>13, <1>14, BackTo

(* The last guard in another mode. *)
LEMMA Remoded ==
  ASSUME NEW s \in Seq(Guards), NEW n \in Nat, n = Len(s), n >= 1,
         NEW m \in {"free", "shared", "excl", "lost"}, NEW q, q = [s EXCEPT ![n].mode = m]
  PROVE  /\ q \in Seq(Guards) /\ Len(q) = n /\ DOMAIN q = 1..n
         /\ \A i \in 1..n : i # n => q[i] = s[i]
         /\ q[n].page = s[n].page /\ q[n].lo = s[n].lo /\ q[n].hi = s[n].hi /\ q[n].mode = m
<1>1. n \in 1..n /\ DOMAIN s = 1..n
  BY LenProperties
<1>2. s[n] \in Guards
  BY <1>1, ElementOfSeq
<1>3. PICK g : g = [s[n] EXCEPT !.mode = m]
  OBVIOUS
<1>4. g \in Guards /\ g.page = s[n].page /\ g.lo = s[n].lo /\ g.hi = s[n].hi /\ g.mode = m
  BY <1>2, <1>3 DEF Guards
<1>5. PICK R : R = Guards
  OBVIOUS
<1>6. s \in Seq(R) /\ g \in R /\ q = [s EXCEPT ![n] = g]
  BY <1>3, <1>4, <1>5
<1>7. q \in Seq(R) /\ Len(q) = Len(s)
  BY <1>1, <1>6, ExceptSeq
<1>8. DOMAIN q = 1..n /\ q[n] = g /\ \A i \in 1..n : i # n => q[i] = s[i]
  BY <1>1, <1>6
<1> QED
  BY <1>4, <1>5, <1>7, <1>8

(* A range query at a leaf changes the modes of its guards. *)
LEMMA Relatched ==
  ASSUME NEW f, NEW h, Holds(f, h), NEW t \in Threads, pc[t] \in Late,
         NEW s, s = held[t], NEW n, n = Len(s), NEW q \in Seq(Guards), Len(q) = n, DOMAIN q = 1..n,
         \A i \in 1..n : q[i].page = s[i].page /\ q[i].lo = s[i].lo /\ q[i].hi = s[i].hi,
         NEW l \in Late, l = "trywrite" => ModeOf(t) = "shared",
         \A i \in 1..n : MayHave(t, l, i, n, q[i].mode),
         NEW x \in DOMAIN pages \cup {NoPage}, Goes(t, l, q, n, x), Peaceful(t),
         UNCHANGED <<strategy, gc, root, pages, call>>, Answering'
  PROVE  Holds(f, h)'
<1>1. /\ n \in Nat /\ n >= 2 /\ IsLeaf(s[n].page) /\ call[t].op = "Range" /\ Trail(s, n, f) /\ TypeOK
  BY LateIs DEF Holds
<1>2. pc'[t] = l /\ held'[t] = q /\ at'[t] = n
  BY <1>1 DEF TypeOK, Goes
<1>3. Trail(q, n, f)
  <2> SUFFICES ASSUME NEW i \in 1..n
               PROVE  /\ q[i].lo = f[q[i].page].lo /\ q[i].hi = f[q[i].page].hi
                      /\ i = 1 => q[i].page = root
                      /\ i > 1 => q[i].page \in ToSet(pages[q[i - 1].page].kids)
    BY DEF Trail
  <2>1. q[i].page = s[i].page /\ q[i].lo = s[i].lo /\ q[i].hi = s[i].hi
    OBVIOUS
  <2>2. i > 1 => q[i - 1].page = s[i - 1].page
    BY <1>1
  <2> QED
    BY <2>1, <2>2, <1>1 DEF Trail
<1>4. n \in 1..n /\ n \in 0..Len(q) /\ n \in 1..Len(q)
  BY <1>1
<1>5. IsLeaf(q[n].page)
  BY <1>1, <1>4
<1>6. Right(t, f)'
  <2>1. \A i \in 1..Len(q) : MayHave(t, pc'[t], i, Len(q), q[i].mode)
    BY <1>2
  <2>2. /\ pc'[t] \in {"scan"} \cup Late /\ DOMAIN q = 1..Len(q)
        /\ (pc'[t] \in Late => n = Len(q) /\ IsLeaf(q[n].page))
        /\ (pc'[t] = "trywrite" => ModeOf(t) = "shared")
    BY <1>2, <1>5
  <2> QED
    BY <2>1, <2>2, <1>1, <1>2, <1>3, <1>4, RangeRight
<1>7. Follows(t) /\ Enters(t)
  BY <1>2 DEF Follows, Enters, Open, Late
<1>8. l \in PCs
  BY DEF Late, PCs
<1> QED
  BY <1>4, <1>6, <1>7, <1>8, Moving

(* The shared latch of the leaf is given up, or the guard is as it should  *)
(* be.                                                                     *)
LEMMA UpgradeKeeps ==
  ASSUME NEW f, NEW h, Holds(f, h), NEW t \in Threads, Upgrade(t)
  PROVE  Holds(f, h)'
<1>1. /\ pc[t] = "upgrade"
      /\ UNCHANGED <<strategy, gc, root, pages, dead, call, target, at, low, got, reply, owed, swept>>
  BY DEF Upgrade, kind, tree, scan
<1>2. PICK s, n, x : s = held[t] /\ n = Len(s) /\ x = target[t]
  OBVIOUS
<1>3. pc[t] \in Late
  BY <1>1 DEF Late
<1>4. /\ n \in Nat /\ n >= 2 /\ at[t] = n /\ DOMAIN s = 1..n /\ s \in Seq(Guards)
      /\ Last(held[t]) = s[n] /\ TypeOK
  BY <1>2, <1>3, LateIs DEF Holds
<1>5. \A i \in 1..n : s[i].mode = ModeOf(t)
  BY <1>1, <1>2, ModesIs
<1>6. n \in 1..n
  BY <1>4
<1>7. /\ UNCHANGED <<strategy, gc, root, pages, call>> /\ Answering'
      /\ x \in DOMAIN pages \cup {NoPage}
  BY <1>1, <1>2, <1>4, AnswersStay DEF TypeOK
<1>8. CASE s[n].mode = "shared"
  <2>1. PICK q, l : q = [s EXCEPT ![n].mode = "lost"] /\ l = "trywrite"
    OBVIOUS
  <2>2. held' = [held EXCEPT ![t] = q] /\ pc' = [pc EXCEPT ![t] = l]
    BY <2>1, <1>2, <1>4, <1>8 DEF Upgrade, Hold, Goto
  <2>3. Goes(t, l, q, n, x)
    BY <2>2, <1>1, <1>2, <1>4 DEF Goes, TypeOK
  <2>4. /\ q \in Seq(Guards) /\ Len(q) = n /\ DOMAIN q = 1..n
        /\ \A i \in 1..n : i # n => q[i] = s[i]
        /\ q[n].page = s[n].page /\ q[n].lo = s[n].lo /\ q[n].hi = s[n].hi /\ q[n].mode = "lost"
    BY <2>1, <1>2, <1>4, Remoded
  <2>5. ModeOf(t) = "shared"
    BY <1>5, <1>6, <1>8
  <2>6. \A i \in 1..n : MayHave(t, l, i, n, q[i].mode)
    BY <2>1, <2>4, <2>5, <1>5 DEF MayHave
  <2>7. \A i \in 1..n : q[i].page = s[i].page /\ q[i].lo = s[i].lo /\ q[i].hi = s[i].hi
    BY <2>4
  <2>8. held'[t] = q
    BY <2>2, <1>4 DEF TypeOK
  <2>9. Peaceful(t)
    <3>1. \A i \in DOMAIN held'[t] : \/ held'[t][i].mode \in {"free", "lost"}
                                     \/ \E j \in DOMAIN held[t] : /\ held'[t][i].page = held[t][j].page
                                                                  /\ held'[t][i].mode = held[t][j].mode
      BY <2>4, <2>8, <1>2, <1>4
    <3> QED
      BY <3>1, StaysPeaceful
  <2>10. l \in Late
    BY <2>1 DEF Late
  <2> QED
    BY <1>2, <1>3, <1>7, <2>3, <2>4, <2>5, <2>6, <2>7, <2>9, <2>10, Relatched
<1>9. CASE s[n].mode # "shared"
  <2>1. PICK l : l = "collect"
    OBVIOUS
  <2>2. held' = held /\ pc' = [pc EXCEPT ![t] = l]
    BY <2>1, <1>2, <1>4, <1>9 DEF Upgrade, Goto
  <2>3. Goes(t, l, s, n, x)
    BY <2>2, <1>1, <1>2, <1>4 DEF Goes, TypeOK
  <2>4. \A i \in 1..n : MayHave(t, l, i, n, s[i].mode)
    BY <1>5 DEF MayHave
  <2>5. held'[t] = held[t]
    BY <2>2
  <2>6. Peaceful(t)
    BY <2>5, StaysPeaceful
  <2>7. l \in Late /\ l # "trywrite" /\ Len(s) = n
    BY <2>1, <1>2 DEF Late
  <2> QED
    BY <1>2, <1>3, <1>4, <1>7, <2>3, <2>4, <2>6, <2>7, Relatched
<1> QED
  BY <1>8, <1>9

(* The leaf is latched to the exclusion of all others, or looked for again.*)
LEMMA TryWriteKeeps ==
  ASSUME NEW f, NEW h, Holds(f, h), NEW t \in Threads, TryWrite(t)
  PROVE  Holds(f, h)'
<1>1. /\ pc[t] = "trywrite"
      /\ UNCHANGED <<strategy, gc, root, pages, dead, call, target, low, got, reply, owed, swept>>
  BY DEF TryWrite, kind, tree
<1>2. PICK s, n, x : s = held[t] /\ n = Len(s) /\ x = target[t]
  OBVIOUS
<1>3. pc[t] \in Late
  BY <1>1 DEF Late
<1>4. /\ n \in Nat /\ n >= 2 /\ at[t] = n /\ DOMAIN s = 1..n /\ s \in Seq(Guards)
      /\ Page(t) = s[n].page /\ TypeOK /\ Placed(t) /\ \A i \in 1..(n - 1) : s[i].mode = ModeOf(t)
  BY <1>2, <1>3, LateIs DEF Holds
<1>5. /\ UNCHANGED <<strategy, gc, root, pages, call>> /\ Answering'
      /\ x \in DOMAIN pages \cup {NoPage}
  BY <1>1, <1>2, <1>4, AnswersStay DEF TypeOK
<1>6. CASE Available(Page(t), "excl")
  <2>1. PICK q, l : q = [s EXCEPT ![n].mode = "excl"] /\ l = "collect"
    OBVIOUS
  <2>2. held' = [held EXCEPT ![t] = q] /\ pc' = [pc EXCEPT ![t] = l] /\ at' = at
    BY <2>1, <1>2, <1>4, <1>6 DEF TryWrite, Hold, Goto
  <2>3. Goes(t, l, q, n, x)
    BY <2>2, <1>1, <1>2, <1>4 DEF Goes, TypeOK
  <2>4. /\ q \in Seq(Guards) /\ Len(q) = n /\ DOMAIN q = 1..n
        /\ \A i \in 1..n : i # n => q[i] = s[i]
        /\ q[n].page = s[n].page /\ q[n].lo = s[n].lo /\ q[n].hi = s[n].hi /\ q[n].mode = "excl"
    BY <2>1, <1>2, <1>4, Remoded
  <2>5. ModeOf(t) = "shared"
    BY <1>1, <1>4 DEF Placed
  <2>6. ASSUME NEW i \in 1..n  PROVE MayHave(t, l, i, n, q[i].mode)
    <3>1. CASE i = n
      BY <3>1, <2>1, <2>4, <2>5 DEF MayHave
    <3>2. CASE i # n
      <4>1. i \in 1..(n - 1)
        BY <3>2, <1>4
      <4> QED
        BY <4>1, <3>2, <2>4, <1>4 DEF MayHave
    <3> QED
      BY <3>1, <3>2
  <2>7. \A i \in 1..n : q[i].page = s[i].page /\ q[i].lo = s[i].lo /\ q[i].hi = s[i].hi
    BY <2>4
  <2>8. held'[t] = q
    BY <2>2, <1>4 DEF TypeOK
  <2>9. Peaceful(t)
    <3>1. PICK c : c = Page(t)
      OBVIOUS
    <3>2. Available(c, "excl")
      BY <3>1, <1>6
    <3>3. \A i \in DOMAIN held'[t] : \/ held'[t][i].page = c /\ held'[t][i].mode = "excl"
                                     \/ \E j \in DOMAIN held[t] : /\ held'[t][i].page = held[t][j].page
                                                                  /\ held'[t][i].mode = held[t][j].mode
      BY <3>1, <2>4, <2>8, <1>2, <1>4
    <3> QED
      BY <3>2, <3>3, TakesPeaceful
  <2>10. l \in Late /\ l # "trywrite"
    BY <2>1 DEF Late
  <2> QED
    BY <1>2, <1>3, <1>5, <2>3, <2>4, <2>6, <2>7, <2>9, <2>10, Relatched
<1>7. CASE ~Available(Page(t), "excl")
  <2>1. GoesUp(t)
    BY <1>1, <1>7 DEF TryWrite, Hold, Goto, GoesUp
  <2> QED
    BY <2>1, <1>3, <1>5, UpOne
<1> QED
  BY <1>6, <1>7

(* The keys of a leaf that are in range. *)
LEMMA CollectKeeps ==
  ASSUME NEW f, NEW h, Holds(f, h), NEW t \in Threads, Collect(t)
  PROVE  Holds(f, h)'
<1>1. PICK hi, part, ks : /\ hi = Last(held[t]).hi
                          /\ part = {k \in Recs(t) : low[t] <= k /\ k <= call[t].upto}
                          /\ ks = InOrder(part)
  OBVIOUS
<1>2. pc[t] = "collect" /\ pages' = pages /\ dead' = dead
  BY DEF Collect
<1>3. pc[t] \in Late /\ TypeOK
  BY <1>2 DEF Late, Holds
<1>4. /\ Last(held[t]) \in Guards /\ Page(t) \in DOMAIN pages
  <2>1. PICK n : n = Len(held[t])
    OBVIOUS
  <2> QED
    BY <2>1, <1>3, LateIs
<1>5. hi \in Keys
  BY <1>1, <1>4 DEF Guards
<1>6. part \subseteq Keys
  <2>1. pages[Page(t)] \in Pages
    BY <1>3, <1>4 DEF TypeOK
  <2> QED
    BY <2>1, <1>1 DEF Recs, Pages
<1>7. ks \in Seq(Keys)
  BY <1>1, <1>6, InOrderIs
<1>8. CASE hi = MaxKey \/ Inc(hi) > call[t].upto
  <2>1. Finish(t, "matched", ks)
    BY <1>1, <1>8 DEF Collect
  <2>2. "matched" \in Replies /\ dead' \subseteq Keys
    BY <1>2, <1>3 DEF TypeOK, Replies
  <2> QED
    BY <2>1, <2>2, <1>2, <1>7, Finishing
<1>9. CASE ~ (hi = MaxKey \/ Inc(hi) > call[t].upto)
  <2>1. /\ held' = [held EXCEPT ![t] = Front(held[t])]
        /\ at' = [at EXCEPT ![t] = Len(held[t]) - 1]
        /\ low' = [low EXCEPT ![t] = Inc(hi)]
        /\ got' = [got EXCEPT ![t] = @ \o ks]
        /\ pc' = [pc EXCEPT ![t] = IF Len(held[t]) = 1 THEN "root" ELSE "scan"]
        /\ UNCHANGED <<strategy, gc, root, call, target, reply, owed, swept>>
    BY <1>1, <1>9 DEF Collect, Hold, Goto, kind
  <2>2. GoesUp(t)
    BY <2>1 DEF GoesUp
  <2>3. Inc(hi) \in Keys
    BY <1>5, <1>9, NextKeys
  <2>4. Answering'
    <3>1. PICK i, s : i = Inc(hi) /\ s = got[t] \o ks
      OBVIOUS
    <3>2. got[t] \in Seq(Keys)
      BY ThreadIs
    <3>3. s \in Seq(Keys) /\ i \in Keys
      BY <3>1, <3>2, <2>3, <1>7, ConcatProperties
    <3>4. low' = [low EXCEPT ![t] = i] /\ got' = [got EXCEPT ![t] = s]
      BY <2>1, <3>1
    <3>5. low' \in [Threads -> Keys] /\ got' \in [Threads -> Seq(Keys)]
      BY <3>3, <3>4, <1>3 DEF TypeOK
    <3> QED
      BY <3>5, <2>1, <1>2, <1>3 DEF TypeOK, Answering
  <2>5. UNCHANGED <<strategy, gc, root, pages, call>>
    BY <2>1, <1>2
  <2> QED
    BY <2>2, <2>4, <2>5, <1>3, UpOne
<1> QED
  BY <1>8, <1>9

-------------------------------------------------------------------------
(* Steps that change pages: a writer on its page. *)

(* A writer shares only leaves. *)
LEMMA NobodyElse ==
  ASSUME NEW f, NEW h, Holds(f, h), NEW t \in Threads, Writer(t), pc[t] \in {"checkroot", "visit"},
         NEW u \in Threads \ {t}, NEW i \in 1..Len(held[u]), held[u][i].page = Page(t)
  PROVE  IsLeaf(Page(t))
<1>1. 1 \in DOMAIN held[t] /\ Page(t) = held[t][1].page /\ held[t][1].mode = ModeOf(t)
  BY PageIs
<1>2. i \in DOMAIN held[u]
  BY ThreadIs
<1>3. Compatible(held[u][i].mode, ModeOf(t))
  BY <1>1, <1>2 DEF Holds, Exclusive
<1>4. Open(t)
  BY DEF Open
<1>5. pc[u] = "trywrite" /\ i = Len(held[u])
  BY <1>3, <1>4, OthersAreLost
<1>6. PICK n : n = Len(held[u])
  OBVIOUS
<1>7. pc[u] \in Late
  BY <1>5 DEF Late
<1>8. IsLeaf(held[u][n].page)
  BY <1>6, <1>7, LateIs
<1> QED
  BY <1>5, <1>6, <1>8

(* Nor has anybody a guard on the child that it could latch. *)
LEMMA NobodyBelow ==
  ASSUME NEW f, NEW h, Holds(f, h), NEW t \in Threads, Writer(t), Visits(t),
         NEW c, c = NextPage(t), Available(c, ModeOf(t)),
         NEW u \in Threads \ {t}, NEW i \in 1..Len(held[u])
  PROVE  held[u][i].page # c
<1> SUFFICES ASSUME held[u][i].page = c PROVE FALSE
  OBVIOUS
<1>1. pc[t] = "visit" /\ Open(t) /\ ~IsLeaf(Page(t))
  BY DEF Visits, Open
<1>2. i \in DOMAIN held[u]
  BY ThreadIs
<1>3. Compatible(held[u][i].mode, ModeOf(t))
  BY <1>2 DEF Available
<1>4. pc[u] = "trywrite" /\ i = Len(held[u])
  BY <1>1, <1>3, OthersAreLost
<1>5. PICK n : n = Len(held[u])
  OBVIOUS
<1>6. pc[u] \in Late
  BY <1>4 DEF Late
<1>7. n \in Nat /\ n >= 2 /\ Trail(held[u], n, f)
  BY <1>5, <1>6, LateIs
<1>8. n - 1 \in 1..Len(held[u]) /\ n \in 1..n /\ n > 1
  BY <1>5, <1>7
<1>9. PICK q : q = held[u][n - 1].page
  OBVIOUS
<1>10. c \in ToSet(pages[q].kids)
  BY <1>4, <1>5, <1>7, <1>8, <1>9 DEF Trail
<1>11. q \in DOMAIN pages
  BY <1>8, <1>9, GuardIs
<1>12. PICK p, pos : p = Page(t) /\ pos = ChildPos(pages[p], Key(t))
  OBVIOUS
<1>13. \A x \in DOMAIN pages : \A j \in DOMAIN pages[x].kids : pages[x].kids[j] = c => x = p
  BY <1>12, ChildIs
<1>14. q = Page(t)
  BY <1>10, <1>11, <1>12, <1>13 DEF ToSet
<1> QED
  BY <1>1, <1>8, <1>9, <1>14, NobodyElse

(* t changes the pages C, among them its own; of all pages but those in D  *)
(* the fences and the children stay.                                       *)
Changes(t, C, D, f, f2) ==
  /\ C \subseteq D \cup {Page(t)}
  /\ \A c \in C : c = Page(t) \/ c \in ToSet(pages[Page(t)].kids)
  /\ \A q \in DOMAIN pages :
       /\ q \in DOMAIN pages' /\ (IsLeafPage(pages'[q]) <=> IsLeafPage(pages[q]))
       /\ q \notin C => pages'[q] = pages[q]
       /\ q \notin D => f2[q] = f[q] /\ pages'[q].kids = pages[q].kids

(* Nobody else has a guard on D. *)
Unseen(t, D) == \A u \in Threads \ {t} : \A i \in 1..Len(held[u]) : held[u][i].page \notin D

(* t stays on its page, or leaves the tree. *)
Remains(t) == pc'[t] \in {"checkroot", "visit"} => Page(t)' = Page(t)

(* What is known of the others stays true. *)
LEMMA OthersGrow ==
  ASSUME NEW f, NEW h, Holds(f, h), NEW t \in Threads, OthersStay(t),
         Writer(t), pc[t] \in {"checkroot", "visit"}, Remains(t),
         NEW C, NEW D, NEW f2, Changes(t, C, D, f, f2), Unseen(t, D), NEW u \in Threads \ {t}
  PROVE  Right(u, f2)'
<1>1. /\ Placed(u) /\ Aimed(u, f) /\ Counted(u) /\ (call[u].op = "Range" => Ranged(u, f))
      /\ Key(u) \in Keys /\ Len(held[u]) \in Nat /\ at[u] \in 0..Len(held[u])
  BY ThreadIs
<1>2. /\ pc'[u] = pc[u] /\ target'[u] = target[u] /\ held'[u] = held[u] /\ at'[u] = at[u]
      /\ strategy' = strategy /\ call' = call /\ root' = root
  BY DEF OthersStay
<1>3. Page(u)' = Page(u) /\ Key(u)' = Key(u) /\ (Writer(u)' <=> Writer(u)) /\ ModeOf(u)' = ModeOf(u)
  BY <1>2 DEF Page, Key, Writer, ModeOf
<1>4. Placed(u)'
  <2>1. PICK P, K, W, M : P = Page(u) /\ K = Key(u) /\ W = Writer(u) /\ M = ModeOf(u)
    OBVIOUS
  <2> QED
    BY <1>1, <1>2, <1>3 DEF Placed
<1>5. ASSUME NEW i \in 1..Len(held[u])
      PROVE  /\ held[u][i].page \in DOMAIN pages /\ held[u][i].page \notin D
             /\ f2[held[u][i].page] = f[held[u][i].page]
             /\ pages'[held[u][i].page].kids = pages[held[u][i].page].kids
             /\ IsLeafPage(pages'[held[u][i].page]) <=> IsLeafPage(pages[held[u][i].page])
  <2>1. held[u][i].page \in DOMAIN pages /\ held[u][i].page \notin D
    BY GuardIs DEF Unseen
  <2> QED
    BY <2>1 DEF Changes
<1>6. ASSUME pc[u] \in {"checkroot", "visit"}
      PROVE  Page(u) \in DOMAIN pages /\ Page(u) \notin D /\ f2[Page(u)] = f[Page(u)]
  <2>1. Page(u) = held[u][1].page /\ 1 \in 1..Len(held[u])
    BY <1>6, PageIs
  <2> QED
    BY <2>1, <1>5
<1>7. Aimed(u, f2)'
  BY <1>1, <1>2, <1>3, <1>6 DEF Aimed
<1>8. call'[u].op = "Range" => Ranged(u, f2)'
  <2>1. SUFFICES ASSUME call[u].op = "Range" PROVE Ranged(u, f2)'
    BY <1>2
  <2>2. Trail(held[u], at[u], f) /\ (pc[u] \in Late => IsLeaf(Page(u)))
    BY <2>1, <1>1 DEF Ranged
  <2>3. Trail(held[u], at[u], f2)'
    <3> SUFFICES ASSUME NEW i \in 1..at[u]
                 PROVE  /\ held[u][i].lo = f2[held[u][i].page].lo /\ held[u][i].hi = f2[held[u][i].page].hi
                        /\ i = 1 => held[u][i].page = root
                        /\ i > 1 => held[u][i].page \in ToSet(pages'[held[u][i - 1].page].kids)
      BY <1>2 DEF Trail
    <3>1. i \in 1..Len(held[u]) /\ (i > 1 => i - 1 \in 1..Len(held[u]))
      BY <1>1
    <3>2. f2[held[u][i].page] = f[held[u][i].page]
      BY <3>1, <1>5
    <3>3. i > 1 => pages'[held[u][i - 1].page].kids = pages[held[u][i - 1].page].kids
      BY <3>1, <1>5
    <3> QED
      BY <3>2, <3>3, <2>2 DEF Trail
  <2>4. pc[u] \in Late => IsLeaf(Page(u))'
    <3>1. SUFFICES ASSUME pc[u] \in Late PROVE IsLeaf(Page(u))'
      OBVIOUS
    <3>2. PICK n : n = Len(held[u])
      OBVIOUS
    <3>3. n \in Nat /\ n >= 2 /\ Page(u) = held[u][n].page
      BY <3>1, <3>2, LateIs
    <3>4. n \in 1..Len(held[u])
      BY <3>2, <3>3
    <3>5. IsLeafPage(pages'[Page(u)])
      BY <3>1, <3>3, <3>4, <2>2, <1>5 DEF IsLeaf
    <3> QED
      BY <3>5, <1>3 DEF IsLeaf
  <2> QED
    BY <2>3, <2>4, <1>2 DEF Ranged
<1>9. Counted(u)'
  <2>1. SUFFICES ASSUME pc[u] = "visit", Writer(u), HasOverflow(pages'[Page(u)])
                 PROVE  ~IsLeaf(Page(u))' /\ Quiet(u, NextPage(u))'
    BY <1>2, <1>3, Zenon DEF Counted
  <2>2. PICK p, pos, c : p = Page(u) /\ pos = ChildPos(pages[p], Key(u)) /\ c = NextPage(u)
    OBVIOUS
  <2>3. p \in DOMAIN pages /\ p \notin D
    BY <2>1, <2>2, <1>6
  <2>4. p # Page(t)
    BY <2>1, <2>2, WritersApart
  <2>5. pages'[p] = pages[p]
    BY <2>3, <2>4 DEF Changes
  <2>6. ~IsLeaf(p) /\ Quiet(u, c)
    BY <2>1, <2>2, <2>5, <1>1 DEF Counted
  <2>7. /\ ~HasOverflow(pages[c])
        /\ \A v \in Threads \ {u} : Writer(v) /\ pc[v] \in {"checkroot", "visit"} => Page(v) # c
    BY <2>6 DEF Quiet
  <2>8. Visits(u)
    BY <2>1, <2>2, <2>6 DEF Visits
  <2>9. /\ c \in DOMAIN pages
        /\ \A q \in DOMAIN pages : \A j \in DOMAIN pages[q].kids : pages[q].kids[j] = c => q = p
    BY <2>2, <2>8, ChildIs
  <2>10. c \notin C
    <3>1. SUFFICES ASSUME c \in C PROVE FALSE
      OBVIOUS
    <3>2. c # Page(t)
      BY <2>7
    <3>3. c \in ToSet(pages[Page(t)].kids)
      BY <3>1, <3>2 DEF Changes
    <3>4. Page(t) \in DOMAIN pages
      BY PageIs
    <3> QED
      BY <3>3, <3>4, <2>4, <2>9 DEF ToSet
  <2>11. pages'[c] = pages[c]
    BY <2>9, <2>10 DEF Changes
  <2>12. NextPage(u)' = c
    BY <2>2, <2>5, <1>3 DEF NextPage, Child
  <2>13. ASSUME NEW v \in Threads \ {u}, Writer(v)', pc'[v] \in {"checkroot", "visit"}
         PROVE  Page(v)' # c
    <3>1. Writer(v)
      BY <2>13, <1>2 DEF Writer
    <3>2. CASE v = t
      BY <3>2, <2>7, <2>13 DEF Remains
    <3>3. CASE v # t
      <4>1. pc'[v] = pc[v] /\ Page(v)' = Page(v)
        BY <3>3 DEF OthersStay, Page
      <4> QED
        BY <4>1, <3>1, <2>7, <2>13
    <3> QED
      BY <3>2, <3>3
  <2>14. Quiet(u, c)'
    BY <2>7, <2>11, <2>13 DEF Quiet
  <2>15. ~IsLeaf(Page(u))'
    BY <2>2, <2>5, <2>6, <1>3 DEF IsLeaf
  <2>16. Quiet(u, NextPage(u))'
    BY <2>12, <2>14 DEF Quiet
  <2> QED
    BY <2>15, <2>16
<1> QED
  BY <1>4, <1>7, <1>8, <1>9 DEF Right

(* The invariant after a step of t that changes pages, from what the step  *)
(* does to them and to t.                                                  *)
LEMMA Growing ==
  ASSUME NEW f, NEW h, Holds(f, h), NEW t \in Threads, Writer(t), pc[t] \in {"checkroot", "visit"},
         UNCHANGED <<strategy, gc, root, call>>, Answering',
         NEW l \in PCs, NEW gs \in Seq(Guards), NEW a \in 0..Len(gs),
         NEW x \in DOMAIN pages \cup {NoPage}, Goes(t, l, gs, a, x),
         Peaceful(t), Remains(t),
         NEW f2, NEW h2, Grows(f2, h2)', NEW C, NEW D, Changes(t, C, D, f, f2), Unseen(t, D),
         Right(t, f2)'
  PROVE  Holds(f2, h2)'
<1>1. TypeOK /\ DOMAIN pages \subseteq DOMAIN pages'
  BY DEF Holds, Changes
<1>2. Places'
  BY <1>1, GoesTyped
<1>3. \A u \in Threads \ {t} : /\ pc'[u] = pc[u] /\ target'[u] = target[u]
                               /\ held'[u] = held[u] /\ at'[u] = at[u]
  BY <1>1, GoesTyped
<1>4. OthersStay(t) /\ Enters(t)
  BY <1>3 DEF OthersStay, Enters, Open
<1>5. PICK ps, r, n : ps = pages' /\ r = root' /\ n = Len(pages')
  OBVIOUS
<1>6. IsTree(ps, r, f2, h2)
  BY <1>5 DEF Grows
<1>7. DOMAIN ps = 1..n /\ r \in DOMAIN ps
  BY <1>5, <1>6, TreeOf
<1>8. ASSUME NEW p \in DOMAIN ps
      PROVE  /\ ps[p] \in [seps : Seq(Keys), kids : Seq(DOMAIN ps), recs : SUBSET Keys]
             /\ ~IsLeafPage(ps[p]) => Len(ps[p].kids) = Len(ps[p].seps) + 1
  <2>1. IsPage(ps[p], n)
    BY <1>5, <1>6, PageOf
  <2> QED
    BY <2>1, <1>7 DEF IsPage, AnyPage
<1>9. TypeOK'
  <2>1. \A p \in DOMAIN pages' :
          /\ pages'[p] \in Pages'
          /\ ~IsLeaf(p)' => Len(pages'[p].kids) = Len(pages'[p].seps) + 1
    BY <1>5, <1>8 DEF Pages, IsLeaf
  <2>2. root' \in DOMAIN pages'
    BY <1>5, <1>7
  <2>3. strategy' \in {Mono, LC, ORWC} /\ gc' \in BOOLEAN /\ call' \in [Threads -> Calls]
    BY <1>1 DEF TypeOK
  <2>4. /\ dead' \subseteq Keys /\ swept' \subseteq Keys
        /\ low' \in [Threads -> Keys] /\ got' \in [Threads -> Seq(Keys)]
        /\ reply' \in [Threads -> {"none", "stored", "found", "missing", "matched", "nothing", "error"}]
        /\ owed' \in [Threads -> SUBSET Keys]
    BY DEF Answering
  <2> QED
    BY <2>1, <2>2, <2>3, <2>4, <1>2 DEF TypeOK, Places
<1>10. Exclusive' /\ Solo' /\ InsertsStayBelow'
  BY <1>4, LatchesHold
<1>11. \A u \in Threads \ {t} : Right(u, f2)'
  BY <1>4, OthersGrow
<1> QED
  BY <1>9, <1>10, <1>11 DEF Holds

(* The leaf of an insert has room for one record more. *)
LEMMA InsertKeeps ==
  ASSUME NEW f, NEW h, Holds(f, h), NEW t \in Threads, Insert(t)
  PROVE  Holds(f, h)'
<1>1. /\ pc[t] = "visit" /\ IsLeaf(Page(t)) /\ call[t].op = "Insert"
      /\ pages' = [pages EXCEPT ![Page(t)].recs = @ \cup {Key(t)}]
      /\ dead' = dead \ {Key(t)} /\ Finish(t, "stored", <<>>)
  BY DEF Insert, OnLeaf
<1>2. /\ held' = [held EXCEPT ![t] = <<>>] /\ at' = [at EXCEPT ![t] = 0]
      /\ pc' = [pc EXCEPT ![t] = "done"]
      /\ UNCHANGED <<strategy, gc, root, call, target>>
  BY <1>1 DEF Finish, Goto, Hold, kind
<1>3. /\ Aimed(t, f) /\ Counted(t) /\ Key(t) \in Keys /\ TypeOK /\ Page(t) \in DOMAIN pages
  BY <1>1, ThreadIs, PageIs DEF Holds
<1>4. Writer(t)
  BY <1>1 DEF Writer, ReadOps
<1>5. PICK ps, qs, r, p, k : ps = pages /\ qs = pages' /\ r = root /\ p = Page(t) /\ k = Key(t)
  OBVIOUS
<1>6. /\ Within(k, f[p]) /\ k < MaxKey /\ k \in Keys /\ ~HasOverflow(ps[p])
  BY <1>1, <1>3, <1>4, <1>5 DEF Aimed, Counted, Holds, InsertsStayBelow
<1>7. /\ IsTree(ps, r, f, h) /\ p \in DOMAIN ps /\ IsLeafPage(ps[p]) /\ ~IsLeafPage(ps[r]) /\ p # r
      /\ \A q \in DOMAIN ps : Room(ps[q]) /\ (q # r => ~HasUnderflow(ps[q]))
  BY <1>1, <1>3, <1>5 DEF Holds, Grows, IsLeaf
<1>8. qs = StorePages(ps, p, k)
  BY <1>1, <1>5 DEF StorePages
<1>9. /\ IsTree(qs, r, f, h)
      /\ \A q \in DOMAIN ps : IsLeafPage(qs[q]) <=> IsLeafPage(ps[q])
      /\ qs[p] = LeafPage(ps[p].recs \cup {k})
      /\ DOMAIN qs = DOMAIN ps /\ \A q \in DOMAIN ps \ {p} : qs[q] = ps[q]
  BY <1>6, <1>7, <1>8, RecordIsStored
<1>10. Room(qs[p]) /\ ~HasUnderflow(qs[p])
  <2>1. PICK S : S = ps[p].recs
    OBVIOUS
  <2>2. S \subseteq Keys /\ ps[p] = LeafPage(S)
    <3>1. IsPage(ps[p], Len(ps))
      BY <1>7, PageOf
    <3> QED
      BY <3>1, <2>1, <1>7 DEF IsPage, AnyPage, LeafPage, IsLeafPage
  <2>3. Cardinality(S) < NumRecords
    <3>1. PageLen(ps[p]) = Cardinality(S) /\ Cardinality(S) \in Nat /\ NumRecords \in Nat
      BY <2>1, <2>2, <1>7, KeySetsAreFinite, NumRecordsAssumption DEF PageLen
    <3> QED
      BY <3>1, <1>6, <1>7 DEF HasOverflow
  <2>4. Room(LeafPage(S \cup {k})) /\ (~HasUnderflow(LeafPage(S)) => ~HasUnderflow(LeafPage(S \cup {k})))
    BY <2>2, <2>3, <1>6, OneMore
  <2>5. ~HasUnderflow(ps[p])
    BY <1>7
  <2> QED
    BY <2>1, <2>2, <2>4, <2>5, <1>9
<1>11. Grows(f, h)'
  <2>1. \A q \in DOMAIN qs : Room(qs[q]) /\ (q # r => ~HasUnderflow(qs[q]))
    BY <1>7, <1>9, <1>10
  <2>2. ~IsLeafPage(qs[r])
    BY <1>7, <1>9, TreeOf
  <2>3. ~gc
    BY DEF Holds, Grows
  <2> QED
    BY <2>1, <2>2, <2>3, <1>2, <1>5, <1>9 DEF Grows, IsLeaf
<1>12. PICK C, D : C = {Page(t)} /\ D = {}
  OBVIOUS
<1>13. Changes(t, C, D, f, f)
  <2>1. \A q \in DOMAIN ps : qs[q].kids = ps[q].kids
    <3>1. qs[p].kids = <<>> /\ ps[p].kids = <<>>
      BY <1>7, <1>9 DEF LeafPage, IsLeafPage
    <3> QED
      BY <3>1, <1>9
  <2> QED
    BY <2>1, <1>5, <1>9, <1>12 DEF Changes
<1>14. Unseen(t, D)
  BY <1>12 DEF Unseen
<1>15. pc'[t] = "done" /\ held'[t] = <<>> /\ at'[t] = 0
  BY <1>2, <1>3 DEF TypeOK
<1>16. Right(t, f)'
  BY <1>15, EarlyRight DEF Early
<1>17. Peaceful(t) /\ Remains(t)
  <2>1. DOMAIN held'[t] = {}
    BY <1>15
  <2> QED
    BY <2>1, <1>15 DEF Peaceful, Remains
<1>18. PICK s, x : s = <<>> /\ x = target[t]
  OBVIOUS
<1>19. s \in Seq(Guards) /\ 0 \in 0..Len(s) /\ x \in DOMAIN pages \cup {NoPage}
  BY <1>3, <1>18 DEF TypeOK
<1>20. PICK l : l = "done"
  OBVIOUS
<1>21. Goes(t, l, s, 0, x) /\ l \in PCs
  BY <1>2, <1>3, <1>18, <1>20 DEF Goes, TypeOK, PCs
<1>22. Answering'
  <2>1. "stored" \in Replies /\ <<>> \in Seq(Keys)
    BY DEF Replies
  <2>2. dead' \subseteq Keys
    BY <1>1, <1>3 DEF TypeOK
  <2> QED
    BY <2>1, <2>2, <1>1, <1>3, FinishTyped
<1>23. pc[t] \in {"checkroot", "visit"} /\ UNCHANGED <<strategy, gc, root, call>>
  BY <1>1, <1>2
<1> QED
  BY <1>4, <1>11, <1>13, <1>14, <1>16, <1>17, <1>19, <1>21, <1>22, <1>23, Growing

(* Without collection no record is dropped. *)
LEMMA NoGarbage ==
  ASSUME NEW f, NEW h, Holds(f, h), NEW p \in DOMAIN pages
  PROVE  Garbage(pages[p]) = {} /\ Without(pages[p], {}) = pages[p]
<1>1. PICK page : page = pages[p]
  OBVIOUS
<1>2. ~gc /\ page \in Pages
  BY <1>1 DEF Holds, Grows, TypeOK
<1>3. Garbage(page) = {}
  BY <1>2 DEF Garbage
<1>4. page.recs \ {} = page.recs
  OBVIOUS
<1>5. Without(page, {}) = page
  BY <1>2, <1>4 DEF Without, Pages
<1> QED
  BY <1>1, <1>3, <1>5

(* Nor is any forgotten. *)
LEMMA SweepsNothing ==
  ASSUME TypeOK, Sweep({}), UNCHANGED <<low, got, reply>>
  PROVE  Answering'
<1>1. dead' = dead \ {} /\ swept' = swept \cup {} /\ owed' = [u \in Threads |-> owed[u] \ {}]
  BY DEF Sweep
<1>2. \A u \in Threads : owed[u] \ {} \in SUBSET Keys
  BY DEF TypeOK
<1>3. owed' \in [Threads -> SUBSET Keys]
  BY <1>1, <1>2
<1> QED
  BY <1>1, <1>3 DEF TypeOK, Answering

(* A writer that stays on its page, which has room now, or whose child has.*)
LEMMA OneStays ==
  ASSUME NEW f, NEW h, Holds(f, h), NEW t \in Threads, pc[t] \in {"checkroot", "visit"},
         UNCHANGED <<strategy, root, call>>, held'[t] = held[t], pc'[t] = "visit",
         NEW f2, f2[Page(t)] = f[Page(t)],
         ~HasOverflow(pages'[Page(t)]) \/ (~IsLeafPage(pages'[Page(t)]) /\ Quiet(t, NextPage(t))')
  PROVE  Right(t, f2)'
<1>1. Placed(t) /\ Aimed(t, f)
  BY ThreadIs
<1>2. Page(t)' = Page(t) /\ Key(t)' = Key(t) /\ (Writer(t)' <=> Writer(t)) /\ ModeOf(t)' = ModeOf(t)
  BY DEF Page, Key, Writer, ModeOf
<1>3. Len(held[t]) = 1 /\ call[t].op # "Range"
  BY PageIs
<1>4. PICK M : M = ModeOf(t)
  OBVIOUS
<1>5. \A i \in DOMAIN held[t] : held[t][i].mode = M
  BY <1>1, <1>4 DEF Placed
<1>6. pc'[t] \notin Early /\ pc'[t] \notin {"checkroot", "scan", "lockroot", "trywrite"} /\ pc'[t] \notin Late
  BY DEF Early, Late
<1>7. Placed(t)'
  BY <1>2, <1>3, <1>4, <1>5, <1>6 DEF Placed
<1>8. Aimed(t, f2)'
  BY <1>1, <1>2 DEF Aimed
<1>9. Counted(t)'
  BY <1>2, Zenon DEF Counted, IsLeaf
<1> QED
  BY <1>3, <1>7, <1>8, <1>9 DEF Right

(* The root is split in place; nobody else has a guard on it. *)
LEMMA SplitRootKeeps ==
  ASSUME NEW f, NEW h, Holds(f, h), NEW t \in Threads, SplitRoot(t)
  PROVE  \E f2, h2 : Holds(f2, h2)'
<1>1. pc[t] = "checkroot" /\ HasOverflow(pages[Page(t)])
  BY DEF SplitRoot
<1>2. /\ Placed(t) /\ held[t] \in Seq(Guards) /\ at[t] \in 0..Len(held[t]) /\ TypeOK
  BY ThreadIs DEF Holds
<1>3. Writer(t) /\ Page(t) = root
  BY <1>1, <1>2 DEF Placed
<1>4. root \in DOMAIN pages /\ ~IsLeaf(root) /\ IsTree(pages, root, f, h)
  BY FenceOfRoot
<1>5. Garbage(pages[root]) = {} /\ Without(pages[root], {}) = pages[root]
  BY <1>4, NoGarbage
<1>6. PICK ps, qs, r, n, hh : ps = pages /\ qs = pages' /\ r = root /\ n = Len(pages) /\ hh = Halves(pages[root])
  OBVIOUS
<1>7. /\ qs = RootPages(ps, r, hh) /\ root' = root /\ Sweep({})
      /\ pc' = [pc EXCEPT ![t] = "visit"]
      /\ UNCHANGED <<strategy, gc, call, target, held, at, low, got, reply>>
  BY <1>3, <1>4, <1>5, <1>6 DEF SplitRoot, RootPages, Goto, kind, scan
<1>8. /\ IsTree(ps, r, f, h) /\ ~IsLeafPage(ps[r]) /\ r \in DOMAIN ps
      /\ \A p \in DOMAIN ps : Room(ps[p]) /\ (p # r => ~HasUnderflow(ps[p]))
  BY <1>4, <1>6 DEF Holds, Grows, IsLeaf
<1>9. RootSplits(ps, r, f, h, hh, n)
  BY <1>1, <1>3, <1>6, <1>8 DEF RootSplits
<1>10. PICK g, k : g = RootFence(f, r, n, hh.sep) /\ k = RootHeight(h, r, n)
  OBVIOUS
<1>11. IsTree(qs, r, g, k)
  BY <1>7, <1>9, <1>10, RootIsSplit
<1>12. /\ DOMAIN ps \subseteq DOMAIN qs
       /\ ~IsLeafPage(qs[r]) /\ Room(qs[r]) /\ ~HasOverflow(qs[r])
       /\ \A q \in DOMAIN ps : g[q] = f[q] /\ (q # r => qs[q] = ps[q])
       /\ \A q \in DOMAIN qs \ DOMAIN ps : Room(qs[q]) /\ ~HasUnderflow(qs[q])
  BY <1>7, <1>9, <1>10, RootOverHalves
<1>13. Grows(g, k)'
  <2>1. \A q \in DOMAIN qs : Room(qs[q]) /\ (q # r => ~HasUnderflow(qs[q]))
    BY <1>8, <1>12
  <2>2. ~gc
    BY DEF Holds, Grows
  <2> QED
    BY <2>1, <2>2, <1>6, <1>7, <1>11, <1>12 DEF Grows, IsLeaf
<1>14. PICK C : C = {root}
  OBVIOUS
<1>15. Changes(t, C, C, f, g)
  BY <1>3, <1>6, <1>8, <1>12, <1>14 DEF Changes
<1>16. Unseen(t, C)
  <2>1. ASSUME NEW u \in Threads \ {t}, NEW i \in 1..Len(held[u]), held[u][i].page = root
        PROVE  FALSE
    BY <2>1, <1>1, <1>3, <1>4, NobodyElse
  <2> QED
    BY <2>1, <1>14 DEF Unseen
<1>17. pc'[t] = "visit" /\ held'[t] = held[t]
  BY <1>2, <1>7 DEF TypeOK
<1>18. Right(t, g)'
  <2>1. g[Page(t)] = f[Page(t)] /\ ~HasOverflow(pages'[Page(t)])
    BY <1>3, <1>6, <1>8, <1>12
  <2>2. pc[t] \in {"checkroot", "visit"} /\ UNCHANGED <<strategy, root, call>>
    BY <1>1, <1>7
  <2> QED
    BY <2>1, <2>2, <1>17, OneStays
<1>19. Peaceful(t) /\ Remains(t)
  <2>1. Peaceful(t)
    BY <1>17, StaysPeaceful
  <2> QED
    BY <2>1, <1>17 DEF Remains, Page
<1>20. PICK s, a, x, l : s = held[t] /\ a = at[t] /\ x = target[t] /\ l = "visit"
  OBVIOUS
<1>21. s \in Seq(Guards) /\ a \in 0..Len(s) /\ x \in DOMAIN pages \cup {NoPage} /\ l \in PCs
  BY <1>2, <1>20 DEF TypeOK, PCs
<1>22. Goes(t, l, s, a, x)
  BY <1>2, <1>7, <1>20 DEF Goes, TypeOK
<1>23. Answering'
  BY <1>2, <1>7, SweepsNothing
<1>24. pc[t] \in {"checkroot", "visit"} /\ UNCHANGED <<strategy, gc, root, call>>
  BY <1>1, <1>7
<1>25. Holds(g, k)'
  BY <1>3, <1>13, <1>15, <1>16, <1>18, <1>19, <1>21, <1>22, <1>23, <1>24, Growing
<1> QED
  BY <1>25

(* What t knows of the child that it cuts. *)
LEMMA ChildMayBeCut ==
  ASSUME NEW f, NEW h, Holds(f, h), NEW t \in Threads, Visits(t), Writer(t),
         NEW p, p = Page(t), NEW pos, pos = ChildPos(pages[p], Key(t)), NEW c, c = NextPage(t),
         HasOverflow(pages[c])
  PROVE  /\ Splits(pages, root, f, h, p, pos, c, Halves(pages[c]), Len(pages))
         /\ ~HasOverflow(pages[p])
<1>1. /\ p \in DOMAIN pages /\ ~IsLeafPage(pages[p]) /\ IsTree(pages, root, f, h)
      /\ pos \in DOMAIN pages[p].kids /\ c = pages[p].kids[pos] /\ c \in DOMAIN pages
  BY ChildIs
<1>2. Room(pages[c])
  BY <1>1 DEF Holds, Grows
<1>3. Counted(t) /\ pc[t] = "visit"
  BY ThreadIs DEF Visits
<1>4. ~HasOverflow(pages[p])
  BY <1>3 DEF Counted, Quiet
<1>5. PICK hh, n : hh = Halves(pages[c]) /\ n = Len(pages)
  OBVIOUS
<1>6. Splits(pages, root, f, h, p, pos, c, hh, n)
  BY <1>1, <1>2, <1>5 DEF Splits
<1> QED
  BY <1>4, <1>5, <1>6

(* A full child is cut; nobody else has a guard on it or on its parent.    *)
LEMMA SplitChildKeeps ==
  ASSUME NEW f, NEW h, Holds(f, h), NEW t \in Threads, SplitChild(t)
  PROVE  \E f2, h2 : Holds(f2, h2)'
<1>1. PICK p, pos, c, hh, m : /\ p = Page(t) /\ pos = ChildPos(pages[p], Key(t)) /\ c = NextPage(t)
                              /\ hh = Halves(pages[c]) /\ m = Len(pages)
  OBVIOUS
<1>2. Visits(t) /\ Writer(t) /\ Available(c, ModeOf(t)) /\ HasOverflow(pages[c])
  BY <1>1 DEF SplitChild
<1>3. /\ p \in DOMAIN pages /\ ~IsLeafPage(pages[p]) /\ c \in DOMAIN pages /\ c # p
      /\ c \in ToSet(pages[p].kids) /\ Within(Key(t), f[p]) /\ Within(Key(t), f[c]) /\ Key(t) \in Keys
  BY <1>1, <1>2, ChildIs
<1>4. Garbage(pages[c]) = {} /\ Without(pages[c], {}) = pages[c]
  BY <1>3, NoGarbage
<1>5. PICK ps, qs, r : ps = pages /\ qs = pages' /\ r = root
  OBVIOUS
<1>6. /\ qs = SplitPages(ps, p, pos, c, hh) /\ Sweep({})
      /\ UNCHANGED <<strategy, gc, root, call, pc, target, held, at, low, got, reply>>
  BY <1>1, <1>4, <1>5 DEF SplitChild, SplitPages, kind, scan
<1>7. Splits(ps, r, f, h, p, pos, c, hh, m) /\ ~HasOverflow(ps[p])
  BY <1>1, <1>2, <1>5, ChildMayBeCut
<1>8. /\ IsTree(ps, r, f, h) /\ ~IsLeafPage(ps[r])
      /\ \A q \in DOMAIN ps : Room(ps[q]) /\ (q # r => ~HasUnderflow(ps[q]))
  BY <1>5 DEF Holds, Grows, IsLeaf
<1>9. PICK g, k : g = SplitFence(f, c, m, hh.sep) /\ k = SplitHeight(h, c, m)
  OBVIOUS
<1>10. IsTree(qs, r, g, k)
  BY <1>6, <1>7, <1>9, ChildIsSplit
<1>11. /\ DOMAIN ps \subseteq DOMAIN qs /\ m + 1 \notin DOMAIN ps
       /\ \A q \in DOMAIN ps : /\ IsLeafPage(qs[q]) <=> IsLeafPage(ps[q])
                               /\ q # c => g[q] = f[q]
                               /\ q \notin {p, c} => qs[q] = ps[q]
                               /\ g[q].hi \in Nat /\ g[q].hi <= f[q].hi
       /\ \A q \in DOMAIN qs : Room(qs[q]) /\ (q # r => ~HasUnderflow(qs[q]))
       /\ ~HasOverflow(qs[c]) /\ ~HasOverflow(qs[m + 1])
       /\ \A x \in Keys : Within(x, f[c]) => qs[p].kids[ChildPos(qs[p], x)] \in {c, m + 1}
  BY <1>6, <1>7, <1>8, <1>9, ChildOverHalves
<1>12. Grows(g, k)'
  <2>1. ~IsLeafPage(qs[r])
    BY <1>8, <1>11, TreeOf
  <2>2. ~gc
    BY DEF Holds, Grows
  <2> QED
    BY <2>1, <2>2, <1>5, <1>6, <1>10, <1>11 DEF Grows, IsLeaf
<1>13. pc[t] = "visit" /\ pc'[t] = pc[t] /\ held'[t] = held[t]
  BY <1>2, <1>6 DEF Visits
<1>14. PICK C : C = {p, c}
  OBVIOUS
<1>15. Changes(t, C, C, f, g)
  BY <1>1, <1>3, <1>5, <1>11, <1>14 DEF Changes
<1>16. Unseen(t, C)
  <2>1. ASSUME NEW u \in Threads \ {t}, NEW i \in 1..Len(held[u]), held[u][i].page = p
        PROVE  FALSE
    BY <2>1, <1>1, <1>2, <1>3, <1>13, NobodyElse DEF IsLeaf
  <2>2. ASSUME NEW u \in Threads \ {t}, NEW i \in 1..Len(held[u]), held[u][i].page = c
        PROVE  FALSE
    BY <2>2, <1>1, <1>2, NobodyBelow
  <2> QED
    BY <2>1, <2>2, <1>14 DEF Unseen
<1>17. Quiet(t, NextPage(t))'
  <2>1. PICK x : x = NextPage(t)'
    OBVIOUS
  <2>2. x = qs[p].kids[ChildPos(qs[p], Key(t))]
    BY <2>1, <1>1, <1>5, <1>6, <1>13 DEF NextPage, Child, Page, Key
  <2>3. x \in {c, m + 1}
    BY <2>2, <1>3, <1>11
  <2>4. ~HasOverflow(pages'[x])
    BY <2>3, <1>5, <1>11
  <2>5. ASSUME NEW u \in Threads \ {t}, Writer(u)', pc'[u] \in {"checkroot", "visit"}
        PROVE  Page(u)' # x
    <3>1. pc[u] \in {"checkroot", "visit"} /\ Page(u)' = Page(u)
      BY <2>5, <1>6 DEF Page
    <3>2. Page(u) = held[u][1].page /\ 1 \in 1..Len(held[u]) /\ Page(u) \in DOMAIN pages
      BY <3>1, PageIs
    <3>3. Page(u) # c
      BY <3>2, <1>14, <1>16 DEF Unseen
    <3>4. Page(u) # m + 1
      BY <3>2, <1>5, <1>11
    <3> QED
      BY <3>1, <3>3, <3>4, <2>3
  <2>6. Quiet(t, x)'
    BY <2>4, <2>5 DEF Quiet
  <2> QED
    BY <2>1, <2>6 DEF Quiet
<1>18. Right(t, g)'
  <2>1. g[Page(t)] = f[Page(t)] /\ ~IsLeafPage(pages'[Page(t)])
    BY <1>1, <1>3, <1>5, <1>11
  <2>2. pc[t] \in {"checkroot", "visit"} /\ pc'[t] = "visit" /\ UNCHANGED <<strategy, root, call>>
    BY <1>6, <1>13
  <2> QED
    BY <2>1, <2>2, <1>13, <1>17, OneStays
<1>19. Peaceful(t) /\ Remains(t)
  <2>1. Peaceful(t)
    BY <1>13, StaysPeaceful
  <2> QED
    BY <2>1, <1>13 DEF Remains, Page
<1>20. PICK s, a, x, l : s = held[t] /\ a = at[t] /\ x = target[t] /\ l = "visit"
  OBVIOUS
<1>21. TypeOK /\ held[t] \in Seq(Guards) /\ at[t] \in 0..Len(held[t])
  BY ThreadIs DEF Holds
<1>22. s \in Seq(Guards) /\ a \in 0..Len(s) /\ x \in DOMAIN pages \cup {NoPage} /\ l \in PCs
  BY <1>20, <1>21 DEF TypeOK, PCs
<1>23. Goes(t, l, s, a, x)
  BY <1>6, <1>13, <1>20, <1>21 DEF Goes, TypeOK
<1>24. Answering'
  BY <1>6, <1>21, SweepsNothing
<1>25. pc[t] \in {"checkroot", "visit"} /\ UNCHANGED <<strategy, gc, root, call>>
  BY <1>6, <1>13
<1>26. Holds(g, k)'
  BY <1>2, <1>12, <1>15, <1>16, <1>18, <1>19, <1>22, <1>23, <1>24, <1>25, Growing
<1> QED
  BY <1>26

-------------------------------------------------------------------------
(* Every step. *)

LEMMA StepKeeps ==
  ASSUME NEW f, NEW h, Holds(f, h), NEW t \in Threads, Step(t)
  PROVE  CoupledInv'
<1>1. CASE LoadRoot(t)
  BY <1>1, LoadRootKeeps, Zenon DEF CoupledInv
<1>2. CASE LockRoot(t)
  BY <1>2, LockRootKeeps, Zenon DEF CoupledInv
<1>3. CASE KeepRoot(t)
  BY <1>3, KeepRootKeeps, Zenon DEF CoupledInv
<1>4. CASE SplitRoot(t)
  BY <1>4, SplitRootKeeps, Zenon DEF CoupledInv
<1>5. CASE PassChild(t)
  BY <1>5, PassChildKeeps, Zenon DEF CoupledInv
<1>6. CASE SplitChild(t)
  BY <1>6, SplitChildKeeps, Zenon DEF CoupledInv
<1>7. CASE TakeThinChild(t) \/ CorrectThin(t) \/ Panic(t)
  BY <1>7, NoThinChild, Zenon
<1>8. CASE Insert(t)
  BY <1>8, InsertKeeps, Zenon DEF CoupledInv
<1>9. CASE Change(t)
  BY <1>9, ChangeKeeps, Zenon DEF CoupledInv
<1>10. CASE Point(t)
  BY <1>10, PointKeeps, Zenon DEF CoupledInv
<1>11. CASE PopMin(t) \/ PopMax(t) \/ PeekMin(t) \/ PeekMax(t)
  BY <1>11, EndsKeep, Zenon DEF CoupledInv
<1>12. CASE ScanIndex(t)
  BY <1>12, ScanIndexKeeps, Zenon DEF CoupledInv
<1>13. CASE ScanLeaf(t)
  BY <1>13, ScanLeafKeeps, Zenon DEF CoupledInv
<1>14. CASE Upgrade(t)
  BY <1>14, UpgradeKeeps, Zenon DEF CoupledInv
<1>15. CASE TryWrite(t)
  BY <1>15, TryWriteKeeps, Zenon DEF CoupledInv
<1>16. CASE Collect(t)
  BY <1>16, CollectKeeps, Zenon DEF CoupledInv
<1> QED
  BY <1>1, <1>2, <1>3, <1>4, <1>5, <1>6, <1>7, <1>8, <1>9, <1>10, <1>11, <1>12, <1>13, <1>14,
     <1>15, <1>16, Zenon DEF Step

(* Nothing happens. *)
LEMMA StutterKeeps ==
  ASSUME NEW f, NEW h, Holds(f, h), UNCHANGED vars
  PROVE  CoupledInv'
<1>1. /\ strategy' = strategy /\ gc' = gc /\ root' = root /\ pages' = pages /\ dead' = dead
      /\ call' = call /\ pc' = pc /\ target' = target /\ held' = held
      /\ at' = at /\ low' = low /\ got' = got /\ reply' = reply /\ owed' = owed /\ swept' = swept
  BY DEF vars, kind, tree, scan
<1>2. TypeOK'
  <2>1. Pages' = Pages /\ Guards' = Guards
    BY <1>1 DEF Pages, Guards
  <2> QED
    BY <2>1, <1>1 DEF Holds, TypeOK, IsLeaf
<1>3. Grows(f, h)'
  BY <1>1 DEF Holds, Grows, IsLeaf
<1>4. Exclusive' /\ Solo' /\ InsertsStayBelow'
  BY <1>1 DEF Holds, Exclusive, Solo, Open, InsertsStayBelow, Key
<1>5. ASSUME NEW t \in Threads PROVE Right(t, f)'
  <2>1. Placed(t) /\ Aimed(t, f) /\ Counted(t) /\ (call[t].op = "Range" => Ranged(t, f))
    BY ThreadIs
  <2>2. \A u \in Threads : Page(u)' = Page(u) /\ Key(u)' = Key(u) /\ (Writer(u)' <=> Writer(u))
    BY <1>1 DEF Page, Key, Writer
  <2>3. ModeOf(t)' = ModeOf(t)
    BY <1>1, <2>2 DEF ModeOf, Mono, LC, ORWC
  <2>4. Placed(t)'
    BY <2>1, <2>2, <2>3, <1>1 DEF Placed
  <2>5. Aimed(t, f)'
    BY <2>1, <2>2, <1>1 DEF Aimed
  <2>6. NextPage(t)' = NextPage(t)
    BY <1>1, <2>2 DEF NextPage, Child
  <2>7. Counted(t)'
    <3>1. \A c : Quiet(t, c)' <=> Quiet(t, c)
      BY <2>2, <1>1 DEF Quiet
    <3> QED
      BY <2>1, <2>2, <2>6, <3>1, <1>1 DEF Counted, IsLeaf
  <2>8. Ranged(t, f)' <=> Ranged(t, f)
    BY <2>2, <1>1 DEF Ranged, Trail, IsLeaf
  <2> QED
    BY <2>1, <2>4, <2>5, <2>7, <2>8, <1>1, Zenon DEF Right
<1>6. Holds(f, h)'
  BY <1>2, <1>3, <1>4, <1>5, Zenon DEF Holds
<1> QED
  BY <1>6, Zenon DEF CoupledInv

-------------------------------------------------------------------------
(* The theorems.  They are about behaviours in which the root is an index  *)
(* page in the beginning and deleted records are not collected.            *)

(* The inductive invariant: the pages are a search tree with room, and the *)
(* guards of a call follow it down, in every reachable state.              *)
THEOREM Invariance ==
  Spec /\ IndexRoot /\ ~gc => []CoupledInv
<1>1. Init /\ IndexRoot /\ ~gc => CoupledInv
  BY Starting
<1>2. CoupledInv /\ [Next]_vars => CoupledInv'
  <2> SUFFICES ASSUME CoupledInv, [Next]_vars PROVE CoupledInv'
    OBVIOUS
  <2>1. PICK f, h : Holds(f, h)
    BY DEF CoupledInv
  <2>2. CASE \E t \in Threads : Step(t)
    BY <2>1, <2>2, StepKeeps
  <2>3. CASE UNCHANGED vars
    BY <2>1, <2>3, StutterKeeps
  <2> QED
    BY <2>2, <2>3 DEF Next
<1> QED
  BY <1>1, <1>2, PTL DEF Spec

(* Every variable keeps its type: latched pages exist, a page has one      *)
(* child more than separators, and the guard that a range query stands at  *)
(* is one that it holds.                                                   *)
THEOREM TypeCorrect ==
  Spec /\ IndexRoot /\ ~gc => []TypeOK
<1>1. CoupledInv => TypeOK
  BY DEF CoupledInv, Holds
<1> QED
  BY <1>1, Invariance, PTL

(* No split leaves a record where descents do not look, although a writer  *)
(* that has let the parent go may still be on its way below.               *)
THEOREM Homes ==
  Spec /\ IndexRoot /\ ~gc => []RecordsAreHome
<1>1. CoupledInv => RecordsAreHome
  BY RecordsAtHome DEF CoupledInv, Holds, Grows
<1> QED
  BY <1>1, Invariance, PTL

(* No array of a page overflows: a writer that comes to a page, or cuts    *)
(* one beneath it, finds room there, and nobody takes that room before.    *)
THEOREM Fits ==
  Spec /\ IndexRoot /\ ~gc => []PagesFit
<1>1. CoupledInv => PagesFit
  BY RoomOfPages DEF CoupledInv
<1> QED
  BY <1>1, Invariance, PTL

(* A range query that goes from leaf to leaf has the true fence of each,   *)
(* although writers pass and split pages beside its path meanwhile.        *)
THEOREM TrueFences ==
  Spec /\ IndexRoot /\ ~gc => []FencesAreTrue
<1>1. CoupledInv => FencesAreTrue
  BY FencesOfGuards DEF CoupledInv
<1> QED
  BY <1>1, Invariance, PTL

(* Without collection no page gets thin, and the corrections that can      *)
(* panic, as the run coupled_thin shows, are never reached.                *)
THEOREM NoPanic ==
  Spec /\ IndexRoot /\ ~gc => []NobodyPanics
<1>1. CoupledInv => NobodyPanics
  BY NobodyIsThin DEF CoupledInv
<1> QED
  BY <1>1, Invariance, PTL

-------------------------------------------------------------------------
(* The directory: what the records are, and what the calls know of them.   *)

Records == UNION {pages[p].recs : p \in DOMAIN pages}

(* The leaf at the end of a descent is under the page it began on. *)
LEMMA DescentStaysUnder ==
  ASSUME NEW ps, NEW r, NEW fence, NEW height, IsTree(ps, r, fence, height),
         NEW under, Reaches(under, ps), NEW k \in Keys, NEW below, GoesDown(below, ps, k),
         NEW p \in DOMAIN ps
  PROVE  below[p] \in under[p]
<1> DEFINE H == {height[q] : q \in {x \in DOMAIN ps : below[x] \notin under[x]}}
<1>1. \A q \in DOMAIN ps : height[q] \in Nat
  BY PageOf
<1>2. \A q \in DOMAIN ps : under[q] = {q} \cup UNION {under[c] : c \in ToSet(ps[q].kids)}
  BY DEF Reaches
<1>3. H \subseteq Nat
  BY <1>1
<1>4. H = {}
  <2>1. SUFFICES ASSUME H # {} PROVE FALSE
    OBVIOUS
  <2> HIDE DEF H
  <2>2. PICK x \in H : \A y \in H : x <= y
    BY <2>1, <1>3, Least
  <2>3. PICK q \in DOMAIN ps : below[q] \notin under[q] /\ height[q] = x
    BY <2>2 DEF H
  <2>4. ~IsLeafPage(ps[q])
    BY <2>3, <1>2 DEF GoesDown
  <2>5. PICK c : c = ps[q].kids[ChildPos(ps[q], k)]
    OBVIOUS
  <2>6. below[q] = below[c]
    BY <2>4, <2>5 DEF GoesDown
  <2>7. c \in ToSet(ps[q].kids)
    BY <2>4, <2>5, SearchFinds DEF ToSet
  <2>8. c \in DOMAIN ps /\ height[c] < height[q]
    BY <2>4, <2>5, SearchStays
  <2>9. under[c] \subseteq under[q]
    BY <2>7, <1>2
  <2>10. height[c] \in H
    BY <2>3, <2>6, <2>8, <2>9 DEF H
  <2>11. height[c] \in Nat /\ height[q] \in Nat
    BY <2>8, <1>1
  <2> QED
    BY <2>2, <2>3, <2>8, <2>10, <2>11
<1> QED
  BY <1>4

(* Descents end in the tree. *)
LEMMA LeavesAreInTree ==
  ASSUME NEW fence, NEW height, IsTree(pages, root, fence, height), NEW k \in Keys
  PROVE  LeafOf(k) \in InTree
<1>1. PICK ps : ps = pages
  OBVIOUS
<1>2. PICK r : r = root
  OBVIOUS
<1>3. IsTree(ps, r, fence, height)
  BY <1>1, <1>2
<1> DEFINE below == CHOOSE f : GoesDown(f, ps, k)
           under == CHOOSE f : Reaches(f, ps)
<1>4. GoesDown(below, ps, k)
  BY <1>3, DescentExists
<1>5. LeafOf(k) = below[r]
  BY <1>1, <1>2 DEF LeafOf, GoesDown, IsLeaf, Child
<1>6. Reaches(under, ps)
  BY <1>3, ReachExists
<1>7. InTree = under[r]
  BY <1>1, <1>2 DEF InTree, Reaches
<1> HIDE DEF below, under
<1>8. r \in DOMAIN ps
  BY <1>3, TreeOf
<1>9. below[r] \in under[r]
  BY <1>3, <1>4, <1>6, <1>8, DescentStaysUnder
<1> QED
  BY <1>5, <1>7, <1>9

(* What is stored anywhere is found from the root. *)
LEMMA StoredIsRecords ==
  CoupledInv => Stored = Records
<1> SUFFICES ASSUME NEW fence, NEW height, IsTree(pages, root, fence, height)
             PROVE  Stored = Records
  BY DEF CoupledInv, Holds, Grows
<1>1. \A p \in InTree : p \in DOMAIN pages
  BY TreeIsPages
<1>2. ASSUME NEW p \in DOMAIN pages, NEW k \in pages[p].recs
      PROVE  p \in InTree /\ Has(k)
  <2>1. IsPage(pages[p], Len(pages)) /\ KeysFit(pages[p], fence[p])
    BY PageOf DEF Fitting
  <2>2. IsLeaf(p) /\ k \in Keys /\ Within(k, fence[p])
    BY <2>1 DEF IsPage, AnyPage, KeysFit, IsLeaf
  <2>3. LeafOf(k) = p
    BY <2>2, LeafOfKey
  <2> QED
    BY <2>2, <2>3, LeavesAreInTree DEF Has
<1>3. Stored \subseteq Records
  BY <1>1 DEF Stored, Records
<1>4. Records \subseteq Stored
  BY <1>2 DEF Stored, Records
<1> QED
  BY <1>3, <1>4

(* A record is on the one leaf whose fence has its key. *)
LEMMA RecordsOn ==
  ASSUME NEW fence, NEW height, IsTree(pages, root, fence, height),
         NEW p \in DOMAIN pages, IsLeaf(p)
  PROVE  \A k \in Keys : k \in pages[p].recs <=> k \in Records /\ Within(k, fence[p])
<1>1. ASSUME NEW q \in DOMAIN pages, NEW k \in pages[q].recs
      PROVE  IsLeaf(q) /\ k \in Keys /\ Within(k, fence[q])
  <2>1. IsPage(pages[q], Len(pages)) /\ KeysFit(pages[q], fence[q])
    BY PageOf DEF Fitting
  <2> QED
    BY <2>1 DEF IsPage, AnyPage, KeysFit, IsLeaf
<1>2. ASSUME NEW k \in Keys, k \in Records, Within(k, fence[p])
      PROVE  k \in pages[p].recs
  <2>1. PICK q \in DOMAIN pages : k \in pages[q].recs
    BY <1>2 DEF Records
  <2>2. q = p
    BY <2>1, <1>1, <1>2, LeafOfKey
  <2> QED
    BY <2>1, <2>2
<1> QED
  BY <1>1, <1>2 DEF Records

(* InOrder lists every key of the set. *)
LEMMA InOrderHasAll ==
  ASSUME NEW S, S \subseteq Keys, NEW k \in S
  PROVE  k \in ToSet(InOrder(S))
<1>1. PICK n, r : n = Cardinality(S) /\ r = Cardinality(Before(S, k))
  OBVIOUS
<1>2. r \in Nat /\ r < n /\ n \in Nat
  BY <1>1, RanksAscend, KeySetsAreFinite
<1>3. ASSUME NEW j \in S, Cardinality(Before(S, j)) = r
      PROVE  j = k
  <2>1. ~ (j < k) /\ ~ (k < j)
    BY <1>1, <1>2, <1>3, RanksAscend
  <2>2. j \in Nat /\ k \in Nat
    BY Numbers
  <2> QED
    BY <2>1, <2>2
<1>4. PICK i : i = r + 1
  OBVIOUS
<1>5. i \in 1..n /\ i - 1 = r
  BY <1>2, <1>4
<1>6. InOrder(S) = [x \in 1..n |-> CHOOSE j \in S : Cardinality(Before(S, j)) = x - 1]
  BY <1>1 DEF InOrder, Before
<1>7. (CHOOSE j \in S : Cardinality(Before(S, j)) = i - 1) = k
  BY <1>1, <1>3, <1>5
<1>8. i \in DOMAIN InOrder(S) /\ InOrder(S)[i] = k
  BY <1>5, <1>6, <1>7
<1> QED
  BY <1>8 DEF ToSet

-------------------------------------------------------------------------
(* What calls know of the records. *)

(* What a call may not miss is still there, and among what it asks for.    *)
Owes(t) ==
  /\ pc[t] = "start" => got[t] = <<>> /\ low[t] = Key(t)
  /\ Open(t) => owed[t] \subseteq Records \cap Wanted(call[t])
  /\ Open(t) /\ call[t].op # "Range" => got[t] = <<>>

(* A range query has, in order, all that it owes below the key from which  *)
(* it goes on, and that key lies within the fence of the leaf it is on.    *)
Gathered(t) ==
  /\ \A i, j \in DOMAIN got[t] : i < j => got[t][i] < got[t][j]
  /\ \A i \in DOMAIN got[t] : got[t][i] < low[t] /\ got[t][i] \in Records \cap Wanted(call[t])
  /\ \A k \in owed[t] : k < low[t] => k \in ToSet(got[t])
  /\ Key(t) <= low[t]
  /\ pc[t] \in Late => Covers(Last(held[t]), low[t])

Knows(t) == Owes(t) /\ (Open(t) /\ call[t].op = "Range" => Gathered(t))

Answerable == \A t \in Threads : Usual(call[t]) /\ Knows(t)

(* A step of the directory, or none. *)
Serves ==
  [Directory!Sweep \/ Directory!Revive \/ \E t \in Threads : Directory!Serve(t)]_(Directory!vars)

(* A call that nothing happens to knows what it knew. *)
LEMMA KnowsStill ==
  ASSUME NEW u, Knows(u), call' = call, pc'[u] = pc[u], held'[u] = held[u],
         got'[u] = got[u], low'[u] = low[u], owed'[u] = owed[u], Records \subseteq Records'
  PROVE  Knows(u)'
<1>1. Key(u)' = Key(u) /\ Wanted(call[u])' = Wanted(call[u]) /\ (Open(u)' <=> Open(u))
  BY DEF Key, Open, Wanted
<1>2. Owes(u)'
  BY <1>1 DEF Knows, Owes
<1>3. Gathered(u) => Gathered(u)'
  BY <1>1 DEF Gathered, Covers
<1> QED
  BY <1>1, <1>2, <1>3 DEF Knows

(* A step of t that its caller does not see.                               *)
Quietly(t) ==
  /\ call' = call /\ dead' = dead /\ got' = got /\ low' = low /\ owed' = owed
  /\ reply' = reply /\ swept' = swept /\ Records' = Records
  /\ \A u \in Threads \ {t} : pc'[u] = pc[u] /\ held'[u] = held[u]
  /\ Open(t) /\ Open(t)'
  /\ call[t].op = "Range" /\ pc'[t] \in Late => Covers(Last(held'[t]), low[t])

LEMMA QuietServes ==
  ASSUME Answerable, Stored = Records, Stored' = Records', NEW t \in Threads, Quietly(t)
  PROVE  Answerable' /\ Serves
<1>1. /\ call' = call /\ dead' = dead /\ got' = got /\ low' = low /\ owed' = owed
      /\ reply' = reply /\ swept' = swept /\ Records' = Records /\ Stored' = Stored
  BY DEF Quietly
<1>2. \A u \in Threads \ {t} : pc'[u] = pc[u] /\ held'[u] = held[u]
  BY DEF Quietly
<1>3. Open(t) /\ Open(t)'
  BY DEF Quietly
<1>4. ASSUME NEW u \in Threads PROVE Usual(call[u])' /\ Knows(u)'
  <2>1. Knows(u) /\ Usual(call[u]) /\ Usual(call[u])'
    BY <1>1 DEF Answerable, Usual
  <2>2. CASE u # t
    <3>1. Records \subseteq Records' /\ pc'[u] = pc[u] /\ held'[u] = held[u]
      BY <1>1, <1>2, <2>2
    <3> QED
      BY <2>1, <3>1, <1>1, KnowsStill
  <2>3. CASE u = t
    <3>1. Key(t)' = Key(t) /\ Wanted(call[t])' = Wanted(call[t])
      BY <1>1 DEF Key, Wanted
    <3>2. pc'[t] # "start"
      BY <1>3 DEF Open
    <3>3. Owes(t)'
      BY <2>1, <2>3, <3>1, <3>2, <1>1, <1>3 DEF Knows, Owes
    <3>4. call[t].op = "Range" => Gathered(t)'
      <4>1. call[t].op = "Range" /\ pc'[t] \in Late => Covers(Last(held'[t]), low[t])
        BY DEF Quietly
      <4> QED
        BY <2>1, <2>3, <3>1, <4>1, <1>1, <1>3 DEF Knows, Gathered, Covers
    <3> QED
      BY <2>1, <2>3, <3>3, <3>4, <1>1 DEF Knows
  <2> QED
    BY <2>2, <2>3
<1>5. Phase' = Phase
  <2>1. ASSUME NEW u \in Threads
        PROVE  (IF Open(u)' THEN "open" ELSE pc'[u]) = (IF Open(u) THEN "open" ELSE pc[u])
    BY <1>2, <1>3 DEF Open
  <2> QED
    BY <2>1 DEF Phase, Open
<1>6. Answer' = Answer
  <2>1. ASSUME NEW u \in Threads
        PROVE  (IF Open(u)' THEN <<>> ELSE got'[u]) = (IF Open(u) THEN <<>> ELSE got[u])
    BY <1>1, <1>2, <1>3 DEF Open
  <2> QED
    BY <2>1 DEF Answer, Open
<1>7. UNCHANGED Directory!vars
  BY <1>1, <1>5, <1>6 DEF Directory!vars
<1> QED
  BY <1>4, <1>7 DEF Answerable, Serves

(* The end of a call, as its caller sees it. *)
LEMMA FinishServes ==
  ASSUME TypeOK, Answerable, NEW t \in Threads, Open(t), NEW r, NEW ks, Finish(t, r, ks),
         NEW a, a = got[t] \o ks, Records \subseteq Records'
  PROVE  Answerable' /\ Directory!Finish(t, r, a)
<1>1. /\ held' = [held EXCEPT ![t] = <<>>] /\ got' = [got EXCEPT ![t] = a]
      /\ reply' = [reply EXCEPT ![t] = r] /\ pc' = [pc EXCEPT ![t] = "done"]
      /\ owed' = [owed EXCEPT ![t] = {}] /\ call' = call /\ low' = low /\ swept' = swept
  BY DEF Finish, Hold, Goto
<1>2. /\ pc \in [Threads -> PCs] /\ got \in [Threads -> Seq(Keys)] /\ held \in [Threads -> Seq(Guards)]
      /\ owed \in [Threads -> SUBSET Keys]
  BY DEF TypeOK
<1>3. /\ pc'[t] = "done" /\ got'[t] = a
      /\ \A u \in Threads \ {t} : /\ pc'[u] = pc[u] /\ held'[u] = held[u] /\ got'[u] = got[u]
                                  /\ owed'[u] = owed[u] /\ low'[u] = low[u]
  BY <1>1, <1>2
<1>4. ASSUME NEW u \in Threads PROVE Usual(call[u])' /\ Knows(u)'
  <2>1. Knows(u) /\ Usual(call[u])'
    BY <1>1 DEF Answerable, Usual
  <2>2. CASE u # t
    BY <2>1, <2>2, <1>1, <1>3, KnowsStill
  <2>3. CASE u = t
    <3>1. pc'[u] = "done"
      BY <2>3, <1>3
    <3>2. pc'[u] # "start" /\ ~Open(u)'
      BY <3>1 DEF Open
    <3>3. Owes(u)'
      BY <3>2 DEF Owes
    <3> QED
      BY <2>1, <3>2, <3>3 DEF Knows
  <2> QED
    BY <2>1, <2>2, <2>3
<1>5. Phase[t] = "open" /\ Phase' = [Phase EXCEPT ![t] = "done"]
  <2>1. ASSUME NEW u \in Threads
        PROVE  (IF Open(u)' THEN "open" ELSE pc'[u])
                 = IF u = t THEN "done" ELSE IF Open(u) THEN "open" ELSE pc[u]
    BY <1>3 DEF Open
  <2> QED
    BY <2>1 DEF Phase, Open
<1>6. Answer' = [Answer EXCEPT ![t] = a]
  <2>1. ASSUME NEW u \in Threads
        PROVE  (IF Open(u)' THEN <<>> ELSE got'[u])
                 = IF u = t THEN a ELSE IF Open(u) THEN <<>> ELSE got[u]
    BY <1>3 DEF Open
  <2> QED
    BY <2>1 DEF Answer, Open
<1> QED
  BY <1>1, <1>4, <1>5, <1>6 DEF Answerable, Directory!Finish

(* A directory serves whoever finishes with the right answer. *)
LEMMA ServedBy ==
  ASSUME NEW t \in Threads,
         \/ Directory!Begin(t) \/ Directory!Store(t) \/ Directory!Find(t) \/ Directory!Miss(t)
         \/ Directory!Collect(t) \/ Directory!Pop(t) \/ Directory!Peek(t) \/ Directory!Nothing(t)
  PROVE  Serves
BY DEF Serves, Directory!Serve

-------------------------------------------------------------------------
(* The steps as the directory sees them. *)

(* A call begins. *)
LEMMA BeginServes ==
  ASSUME TypeOK, Answerable, Stored = Records, Stored' = Records', NEW t \in Threads,
         LoadRoot(t), pc[t] = "start"
  PROVE  Answerable' /\ Serves
<1>1. /\ pc' = [pc EXCEPT ![t] = "lockroot"] /\ owed' = [owed EXCEPT ![t] = Wanted(call[t]) \cap Stored]
      /\ UNCHANGED <<pages, dead, call, held, low, got, reply, swept>>
  BY DEF LoadRoot, Goto, tree, scan
<1>2. pc \in [Threads -> PCs] /\ owed \in [Threads -> SUBSET Keys]
  BY DEF TypeOK
<1>3. /\ pc'[t] = "lockroot" /\ owed'[t] = Wanted(call[t]) \cap Records
      /\ \A u \in Threads \ {t} : pc'[u] = pc[u] /\ owed'[u] = owed[u]
  BY <1>1, <1>2
<1>4. Records' = Records
  BY <1>1 DEF Records
<1>5. ASSUME NEW u \in Threads PROVE Usual(call[u])' /\ Knows(u)'
  <2>1. Knows(u) /\ Usual(call[u])'
    BY <1>1 DEF Answerable, Usual
  <2>2. CASE u # t
    <3>1. pc'[u] = pc[u] /\ owed'[u] = owed[u] /\ Records \subseteq Records'
      BY <1>3, <1>4, <2>2
    <3> QED
      BY <2>1, <3>1, <1>1, KnowsStill
  <2>3. CASE u = t
    <3>1. Key(t)' = Key(t) /\ Wanted(call[t])' = Wanted(call[t])
      BY <1>1 DEF Key, Wanted
    <3>2. got[t] = <<>> /\ low[t] = Key(t)
      BY <2>1, <2>3 DEF Knows, Owes
    <3>3. Owes(t)'
      BY <3>1, <3>2, <1>1, <1>3, <1>4 DEF Owes
    <3>4. ASSUME call[t].op = "Range" PROVE Gathered(t)'
      <4>1. call[t] \in Calls
        BY DEF TypeOK
      <4>2. Key(t) \in Nat /\ call[t].upto \in Nat
        BY <4>1, Numbers DEF Key, Calls
      <4>3. \A k \in owed'[t] : ~ (k < low[t])
        <5>1. Wanted(call[t]) = Key(t)..call[t].upto
          BY <3>4 DEF Wanted, Key
        <5> QED
          BY <5>1, <4>2, <3>2, <1>3
      <4>4. DOMAIN got'[t] = {} /\ pc'[t] \notin Late
        BY <3>2, <1>1, <1>3 DEF Late
      <4>5. Key(t)' <= low'[t]
        BY <3>1, <3>2, <4>2, <1>1
      <4>6. \A k \in owed'[t] : ~ (k < low'[t])
        BY <4>3, <1>1
      <4> QED
        BY <4>4, <4>5, <4>6 DEF Gathered
    <3> QED
      BY <2>1, <2>3, <3>3, <3>4, <1>1 DEF Knows
  <2> QED
    BY <2>2, <2>3
<1>6. Phase[t] = "start" /\ Phase' = [Phase EXCEPT ![t] = "open"]
  <2>1. ASSUME NEW u \in Threads
        PROVE  (IF Open(u)' THEN "open" ELSE pc'[u])
                 = IF u = t THEN "open" ELSE IF Open(u) THEN "open" ELSE pc[u]
    BY <1>3 DEF Open
  <2> QED
    BY <2>1 DEF Phase, Open
<1>7. Answer' = Answer
  <2>1. Knows(t)
    BY DEF Answerable
  <2>2. got[t] = <<>>
    BY <2>1 DEF Knows, Owes
  <2>3. ASSUME NEW u \in Threads
        PROVE  (IF Open(u)' THEN <<>> ELSE got'[u]) = (IF Open(u) THEN <<>> ELSE got[u])
    BY <2>2, <1>1, <1>3 DEF Open
  <2> QED
    BY <2>3 DEF Answer, Open
<1>8. Directory!Wanted(call[t]) = Wanted(call[t])
  BY DEF Directory!Wanted, Directory!Ends, Directory!Peeks, Wanted, Keys
<1>9. owed' = [owed EXCEPT ![t] = Stored \cap Directory!Wanted(call[t])]
  BY <1>1, <1>8
<1>10. Directory!Begin(t)
  BY <1>1, <1>4, <1>6, <1>7, <1>9 DEF Directory!Begin
<1> QED
  BY <1>5, <1>10, ServedBy DEF Answerable

(* Latches are taken and let go, and pages chosen. *)
LEMMA GoingDownServes ==
  ASSUME NEW f, NEW h, Holds(f, h), Answerable, Stored = Records, Stored' = Records',
         NEW t \in Threads,
         (LoadRoot(t) /\ pc[t] # "start") \/ LockRoot(t) \/ KeepRoot(t) \/ PassChild(t)
  PROVE  Answerable' /\ Serves
<1>1. TypeOK
  BY DEF Holds
<1>2. pc \in [Threads -> PCs] /\ held \in [Threads -> Seq(Guards)] /\ owed \in [Threads -> SUBSET Keys]
  BY <1>1 DEF TypeOK
<1>3. /\ UNCHANGED <<pages, dead, call, low, got, reply, owed, swept>>
      /\ \A u \in Threads \ {t} : pc'[u] = pc[u] /\ held'[u] = held[u]
      /\ pc[t] \notin {"start", "done"} /\ pc'[t] \in {"lockroot", "checkroot", "scan", "visit"}
  <2>1. CASE LoadRoot(t) /\ pc[t] # "start"
    BY <2>1, <1>2 DEF LoadRoot, Goto, tree, scan
  <2>2. CASE LockRoot(t)
    <3>1. PICK l : l = CASE Writer(t) -> "checkroot"
                         [] call[t].op = "Range" -> "scan"
                         [] call[t].op \in ReadOps \ {"Range"} -> "visit"
      OBVIOUS
    <3>2. l \in {"checkroot", "scan", "visit"}
      BY <3>1 DEF Writer, ReadOps
    <3>3. pc[t] = "lockroot" /\ pc' = [pc EXCEPT ![t] = l]
      BY <2>2, <3>1 DEF LockRoot, Goto
    <3> QED
      BY <2>2, <3>2, <3>3, <1>2 DEF LockRoot, Hold, tree
  <2>3. CASE KeepRoot(t)
    BY <2>3, <1>2 DEF KeepRoot, Goto, tree, scan
  <2>4. CASE PassChild(t)
    BY <2>4, <1>2 DEF PassChild, Visits, Hold, tree, scan
  <2> QED
    BY <2>1, <2>2, <2>3, <2>4
<1>4. Quietly(t)
  <2>1. Records' = Records
    BY <1>3 DEF Records
  <2>2. pc'[t] \notin Late /\ Open(t) /\ Open(t)'
    BY <1>3 DEF Late, Open
  <2> QED
    BY <2>1, <2>2, <1>3 DEF Quietly
<1> QED
  BY <1>4, QuietServes

(* A range query goes down and upgrades its leaf, whose fence has the key  *)
(* from which it goes on.                                                  *)
LEMMA ScanningServes ==
  ASSUME NEW f, NEW h, Holds(f, h), Answerable, Stored = Records, Stored' = Records',
         NEW t \in Threads, ScanIndex(t) \/ ScanLeaf(t) \/ Upgrade(t) \/ TryWrite(t)
  PROVE  Answerable' /\ Serves
<1>1. TypeOK
  BY DEF Holds
<1>2. /\ pc \in [Threads -> PCs] /\ held \in [Threads -> Seq(Guards)]
      /\ low \in [Threads -> Keys] /\ call \in [Threads -> Calls]
  BY <1>1 DEF TypeOK
<1>3. /\ UNCHANGED <<pages, dead, call, low, got, reply, owed, swept>>
      /\ \A u \in Threads \ {t} : pc'[u] = pc[u] /\ held'[u] = held[u]
  <2>1. CASE ScanIndex(t)
    BY <2>1, <1>2 DEF ScanIndex, Hold, tree
  <2>2. CASE ScanLeaf(t)
    BY <2>2, <1>2 DEF ScanLeaf, Hold, Goto, tree
  <2>3. CASE Upgrade(t)
    BY <2>3, <1>2 DEF Upgrade, Hold, Goto, tree, scan
  <2>4. CASE TryWrite(t)
    BY <2>4, <1>2 DEF TryWrite, Hold, Goto, tree
  <2> QED
    BY <2>1, <2>2, <2>3, <2>4
<1>4. pc[t] \in {"scan", "upgrade", "trywrite"}
  BY DEF ScanIndex, ScanLeaf, Upgrade, TryWrite
<1>5. Knows(t) /\ Open(t)
  BY <1>4 DEF Answerable, Open
<1>6. /\ pc'[t] \in {"scan", "root"} \cup Late
      /\ pc'[t] \in Late => Covers(Last(held'[t]), low[t])
  <2>1. CASE ScanIndex(t)
    BY <2>1 DEF ScanIndex, Late
  <2>2. CASE ScanLeaf(t)
    <3>1. PICK b, s, q : b = Branch(t) /\ s = held[t] /\ q = SubSeq(s, 1, b)
      OBVIOUS
    <3>2. pc[t] = "scan" /\ pc'[t] = "upgrade" /\ held'[t] = q
      BY <2>2, <3>1, <1>2 DEF ScanLeaf, Hold, Goto
    <3>3. b \in 1..Len(s) /\ Covers(s[b], low[t])
      BY <3>1, <3>2, BranchIs
    <3>4. PICK R : R = Guards
      OBVIOUS
    <3>5. s \in Seq(R) /\ Len(s) \in Nat
      BY <3>1, <3>4, <1>2, LenProperties
    <3>6. b \in Nat /\ b <= Len(s) /\ b \in 1..b
      BY <3>3, <3>5
    <3>7. Len(q) = b /\ q[b] = s[b]
      BY <3>1, <3>5, <3>6, FirstOf
    <3>8. Last(q) = s[b]
      BY <3>7 DEF Last
    <3> QED
      BY <3>2, <3>3, <3>8 DEF Late
  <2>3. ASSUME pc[t] \in {"upgrade", "trywrite"}
        PROVE  /\ Covers(Last(held[t]), low[t]) /\ held[t] # <<>>
               /\ Last(held[t]) = held[t][Len(held[t])] /\ Len(held[t]) \in DOMAIN held[t]
    <3>1. PICK n : n = Len(held[t])
      OBVIOUS
    <3>2. pc[t] \in Late
      BY <2>3 DEF Late
    <3>3. /\ n \in Nat /\ n >= 2 /\ DOMAIN held[t] = 1..n /\ held[t] # <<>>
          /\ Last(held[t]) = held[t][n] /\ call[t].op = "Range"
      BY <3>1, <3>2, LateIs
    <3>4. n \in DOMAIN held[t]
      BY <3>3
    <3>5. Covers(Last(held[t]), low[t])
      BY <3>2, <3>3, <1>5 DEF Knows, Gathered
    <3> QED
      BY <3>1, <3>3, <3>4, <3>5
  <2>4. ASSUME NEW s \in Seq(Guards), s = held[t], NEW n, n = Len(s), NEW m,
               NEW q, q = [s EXCEPT ![n].mode = m], Last(s) = s[n], n \in DOMAIN s,
               Covers(Last(s), low[t])
        PROVE  Covers(Last(q), low[t])
    <3>1. s[n] \in Guards /\ Len(q) = n
      BY <2>4
    <3>2. q[n].lo = s[n].lo /\ q[n].hi = s[n].hi
      BY <2>4, <3>1 DEF Guards
    <3>3. Last(q) = q[n]
      BY <3>1 DEF Last
    <3> QED
      BY <2>4, <3>2, <3>3 DEF Covers
  <2>5. CASE Upgrade(t)
    <3>1. pc[t] = "upgrade"
      BY <2>5 DEF Upgrade
    <3>2. CASE Last(held[t]).mode = "shared"
      <4>1. PICK s, n, q : s = held[t] /\ n = Len(s) /\ q = [s EXCEPT ![n].mode = "lost"]
        OBVIOUS
      <4>2. pc'[t] = "trywrite" /\ held'[t] = q
        BY <2>5, <3>2, <4>1, <1>2 DEF Upgrade, Hold, Goto
      <4>3. Covers(Last(s), low[t]) /\ Last(s) = s[n] /\ n \in DOMAIN s /\ s \in Seq(Guards)
        BY <3>1, <4>1, <2>3, <1>2
      <4>4. Covers(Last(q), low[t])
        BY <4>1, <4>3, <2>4
      <4> QED
        BY <4>2, <4>4 DEF Late
    <3>3. CASE Last(held[t]).mode # "shared"
      <4>1. pc'[t] = "collect" /\ held'[t] = held[t]
        BY <2>5, <3>3, <1>2 DEF Upgrade, Goto
      <4> QED
        BY <3>1, <4>1, <2>3 DEF Late
    <3> QED
      BY <3>2, <3>3
  <2>6. CASE TryWrite(t)
    <3>1. pc[t] = "trywrite"
      BY <2>6 DEF TryWrite
    <3>2. CASE Available(Page(t), "excl")
      <4>1. PICK s, n, q : s = held[t] /\ n = Len(s) /\ q = [s EXCEPT ![n].mode = "excl"]
        OBVIOUS
      <4>2. pc'[t] = "collect" /\ held'[t] = q
        BY <2>6, <3>2, <4>1, <1>2 DEF TryWrite, Hold, Goto
      <4>3. Covers(Last(s), low[t]) /\ Last(s) = s[n] /\ n \in DOMAIN s /\ s \in Seq(Guards)
        BY <3>1, <4>1, <2>3, <1>2
      <4>4. Covers(Last(q), low[t])
        BY <4>1, <4>3, <2>4
      <4> QED
        BY <4>2, <4>4 DEF Late
    <3>3. CASE ~Available(Page(t), "excl")
      <4>1. pc'[t] \in {"root", "scan"}
        BY <2>6, <3>3, <1>2 DEF TryWrite, Goto
      <4> QED
        BY <4>1 DEF Late
    <3> QED
      BY <3>2, <3>3
  <2> QED
    BY <2>1, <2>2, <2>5, <2>6, <1>2, <1>4 DEF ScanIndex
<1>7. Quietly(t)
  <2>1. Records' = Records
    BY <1>3 DEF Records
  <2>2. pc'[t] \notin {"start", "done"}
    BY <1>6 DEF Late
  <2>3. Open(t)'
    BY <2>2 DEF Open
  <2> QED
    BY <2>1, <2>3, <1>3, <1>5, <1>6 DEF Quietly
<1> QED
  BY <1>7, QuietServes

(* The halves of a page hold what it held. *)
LEMMA HalvesShare ==
  ASSUME NEW page, NEW n, NEW fence, Fitting(page, n, fence), HasOverflow(page), Room(page),
         NEW h, h = Halves(page)
  PROVE  h.left.recs \cup h.right.recs = page.recs /\ (~IsLeafPage(page) => page.recs = {})
<1>1. h.sep \in Keys /\ page.recs \subseteq Keys /\ (~IsLeafPage(page) => page.recs = {})
  BY PageIsCut DEF IsCut, Fitting, IsPage, AnyPage
<1>2. CASE IsLeafPage(page)
  <2>1. PICK k : k = h.sep
    OBVIOUS
  <2>2. h.left.recs = {j \in page.recs : j < k} /\ h.right.recs = {j \in page.recs : j >= k}
    BY <1>2, <2>1 DEF Halves, HalvesOfLeaf, LeafPage
  <2>3. \A j \in page.recs : j \in Nat /\ k \in Nat
    BY <1>1, <2>1, Numbers
  <2> QED
    BY <1>2, <2>2, <2>3
<1>3. CASE ~IsLeafPage(page)
  BY <1>1, <1>3 DEF Halves, HalvesOfIndex, IndexPage
<1> QED
  BY <1>2, <1>3

(* A split moves records, and loses none. *)
LEMMA SplittingServes ==
  ASSUME NEW f, NEW h, Holds(f, h), Answerable, Stored = Records, Stored' = Records',
         NEW t \in Threads, SplitRoot(t) \/ SplitChild(t)
  PROVE  Answerable' /\ Serves
<1>1. TypeOK /\ Placed(t)
  BY ThreadIs DEF Holds
<1>2. pc \in [Threads -> PCs] /\ owed \in [Threads -> SUBSET Keys] /\ dead \subseteq Keys /\ swept \subseteq Keys
  BY <1>1 DEF TypeOK
<1>3. ASSUME Sweep({}) PROVE dead' = dead /\ swept' = swept /\ owed' = owed
  <2>1. dead' = dead \ {} /\ swept' = swept \cup {} /\ owed' = [u \in Threads |-> owed[u] \ {}]
    BY <1>3 DEF Sweep
  <2>2. \A u \in Threads : owed[u] \ {} = owed[u]
    OBVIOUS
  <2>3. owed = [u \in Threads |-> owed[u]]
    BY <1>2
  <2> QED
    BY <2>1, <2>2, <2>3
<1>4. /\ Writer(t) /\ pc'[t] = "visit" /\ pc[t] \in {"checkroot", "visit"}
      /\ UNCHANGED <<call, held, low, got, reply, dead, swept, owed>> /\ Records' = Records
      /\ \A u \in Threads \ {t} : pc'[u] = pc[u]
  <2>1. CASE SplitRoot(t)
    <3>1. pc[t] = "checkroot" /\ HasOverflow(pages[Page(t)])
      BY <2>1 DEF SplitRoot
    <3>2. Writer(t) /\ Page(t) = root
      BY <3>1, <1>1 DEF Placed
    <3>3. root \in DOMAIN pages /\ ~IsLeaf(root) /\ IsTree(pages, root, f, h)
      BY FenceOfRoot
    <3>4. Garbage(pages[root]) = {} /\ Without(pages[root], {}) = pages[root]
      BY <3>3, NoGarbage
    <3>5. PICK ps, qs, r, n, hh : ps = pages /\ qs = pages' /\ r = root /\ n = Len(pages) /\ hh = Halves(pages[root])
      OBVIOUS
    <3>6. /\ qs = RootPages(ps, r, hh) /\ Sweep({}) /\ pc' = [pc EXCEPT ![t] = "visit"]
          /\ UNCHANGED <<call, held, low, got, reply>>
      BY <2>1, <3>2, <3>3, <3>4, <3>5 DEF SplitRoot, RootPages, Goto, scan
    <3>7. Room(ps[r])
      BY <3>3, <3>5 DEF Holds, Grows
    <3>8. RootSplits(ps, r, f, h, hh, n)
      BY <3>1, <3>2, <3>3, <3>5, <3>7 DEF RootSplits, IsLeaf
    <3>9. AfterRootSplit(ps, r, f, hh, n, qs)
      BY <3>6, <3>8, PagesOfRootSplit
    <3>10. hh.left.recs \cup hh.right.recs = ps[r].recs /\ ps[r].recs = {}
      <4>1. Fitting(ps[r], Len(ps), f[r])
        BY <3>3, <3>5, PageOf
      <4> QED
        BY <4>1, <3>8, HalvesShare DEF RootSplits
    <3>11. UNION {qs[q].recs : q \in DOMAIN qs} = UNION {ps[q].recs : q \in DOMAIN ps}
      <4>1. n \in Nat /\ DOMAIN ps = 1..n /\ r \in 1..n
        BY <3>3, <3>5, TreeOf
      <4>2. \A q \in 1..n + 2 : q \in 1..n \/ q = n + 1 \/ q = n + 2
        BY <4>1
      <4>3. qs[r].recs = {} /\ qs[n + 1].recs = {} /\ qs[n + 2].recs = {}
        BY <3>9, <3>10 DEF AfterRootSplit, IndexPage
      <4>4. DOMAIN qs = 1..n + 2 /\ \A q \in 1..n : q \in DOMAIN qs /\ (q # r => qs[q] = ps[q])
        BY <4>1, <3>9 DEF AfterRootSplit
      <4>5. \A q \in DOMAIN qs : \A x \in qs[q].recs : q \in 1..n /\ x \in ps[q].recs
        BY <4>2, <4>3, <4>4
      <4>6. \A q \in 1..n : \A x \in ps[q].recs : x \in qs[q].recs
        BY <4>4, <3>10
      <4> QED
        BY <4>1, <4>4, <4>5, <4>6
    <3>12. Records' = Records
      BY <3>5, <3>11 DEF Records
    <3> QED
      BY <3>1, <3>2, <3>6, <3>12, <1>2, <1>3
  <2>2. CASE SplitChild(t)
    <3>1. PICK p, pos, c, hh, m : /\ p = Page(t) /\ pos = ChildPos(pages[p], Key(t)) /\ c = NextPage(t)
                                  /\ hh = Halves(pages[c]) /\ m = Len(pages)
      OBVIOUS
    <3>2. Visits(t) /\ Writer(t) /\ HasOverflow(pages[c])
      BY <2>2, <3>1 DEF SplitChild
    <3>3. p \in DOMAIN pages /\ ~IsLeafPage(pages[p]) /\ c \in DOMAIN pages /\ c # p
      BY <3>1, <3>2, ChildIs
    <3>4. Garbage(pages[c]) = {} /\ Without(pages[c], {}) = pages[c]
      BY <3>3, NoGarbage
    <3>5. PICK ps, qs, r : ps = pages /\ qs = pages' /\ r = root
      OBVIOUS
    <3>6. /\ qs = SplitPages(ps, p, pos, c, hh) /\ Sweep({})
          /\ UNCHANGED <<call, pc, held, low, got, reply>>
      BY <2>2, <3>1, <3>4, <3>5 DEF SplitChild, SplitPages, scan
    <3>7. Splits(ps, r, f, h, p, pos, c, hh, m)
      BY <3>1, <3>2, <3>5, ChildMayBeCut
    <3>8. AfterSplit(ps, f, p, pos, c, hh, m, qs)
      BY <3>6, <3>7, PagesOfSplit
    <3>9. hh.left.recs \cup hh.right.recs = ps[c].recs
      <4>1. Fitting(ps[c], Len(ps), f[c])
        BY <3>3, <3>5, <3>7, PageOf DEF Splits
      <4> QED
        BY <4>1, <3>7, HalvesShare DEF Splits
    <3>10. ps[p].recs = {}
      <4>1. IsPage(ps[p], Len(ps))
        BY <3>3, <3>5, <3>7, PageOf DEF Splits
      <4> QED
        BY <4>1, <3>3, <3>5 DEF IsPage
    <3>11. UNION {qs[q].recs : q \in DOMAIN qs} = UNION {ps[q].recs : q \in DOMAIN ps}
      <4>1. /\ m \in Nat /\ DOMAIN ps = 1..m /\ c \in 1..m /\ p \in 1..m /\ c # p
            /\ DOMAIN qs = 1..m + 1 /\ m + 1 \in DOMAIN qs
            /\ qs[c].recs = hh.left.recs /\ qs[m + 1].recs = hh.right.recs /\ qs[p].recs = {}
            /\ \A q \in 1..m : q \in 1..m + 1 /\ (q \notin {p, c} => qs[q] = ps[q])
        BY <3>8 DEF AfterSplit, AddChild, IndexPage
      <4>2. \A q \in 1..m + 1 : q \in 1..m \/ q = m + 1
        BY <4>1
      <4>3. ASSUME NEW q \in DOMAIN qs, NEW x \in qs[q].recs
            PROVE  \E y \in DOMAIN ps : x \in ps[y].recs
        <5>1. CASE q = p
          BY <5>1, <4>1, <4>3
        <5>2. CASE q = c \/ q = m + 1
          BY <5>2, <4>1, <4>3, <3>9
        <5>3. CASE q \in 1..m /\ q \notin {p, c}
          BY <5>3, <4>1, <4>3
        <5> QED
          BY <5>1, <5>2, <5>3, <4>1, <4>2
      <4>4. ASSUME NEW q \in DOMAIN ps, NEW x \in ps[q].recs
            PROVE  \E y \in DOMAIN qs : x \in qs[y].recs
        <5>1. CASE q = p
          BY <5>1, <3>10, <4>4
        <5>2. CASE q = c
          BY <5>2, <4>1, <4>4, <3>9
        <5>3. CASE q \notin {p, c}
          BY <5>3, <4>1, <4>4
        <5> QED
          BY <5>1, <5>2, <5>3
      <4> QED
        BY <4>3, <4>4
    <3>12. Records' = Records
      BY <3>5, <3>11 DEF Records
    <3> QED
      BY <3>2, <3>6, <3>12, <1>2, <1>3 DEF Visits
  <2> QED
    BY <2>1, <2>2
<1>5. call[t].op # "Range" /\ Open(t) /\ Open(t)'
  BY <1>4 DEF Writer, ReadOps, Open
<1>6. Quietly(t)
  BY <1>4, <1>5 DEF Quietly
<1> QED
  BY <1>6, QuietServes

(* What a call finds on the leaf that it has come to. *)
LEMMA LeafReached ==
  ASSUME NEW f, NEW h, Holds(f, h), Answerable, NEW t \in Threads, NEW ops, OnLeaf(t, ops),
         NEW p, p = Page(t)
  PROVE  /\ TypeOK /\ Open(t) /\ call[t].op # "Range" /\ call[t].op \in ops /\ got[t] = <<>>
         /\ Key(t) \in Keys /\ p \in DOMAIN pages /\ IsLeaf(p) /\ Within(Key(t), f[p])
         /\ owed[t] \subseteq Records \cap Wanted(call[t])
         /\ \A k \in Keys : k \in Recs(t) <=> k \in Records /\ Within(k, f[p])
<1>1. pc[t] = "visit" /\ IsLeaf(p) /\ call[t].op \in ops
  BY DEF OnLeaf
<1>2. Placed(t) /\ Aimed(t, f) /\ Key(t) \in Keys /\ p \in DOMAIN pages /\ TypeOK
  BY <1>1, ThreadIs, PageIs DEF Holds
<1>3. call[t].op # "Range" /\ Within(Key(t), f[p]) /\ Open(t)
  BY <1>1, <1>2 DEF Placed, Aimed, Open
<1>4. Knows(t)
  BY DEF Answerable
<1>5. got[t] = <<>> /\ owed[t] \subseteq Records \cap Wanted(call[t])
  BY <1>3, <1>4 DEF Knows, Owes
<1>6. IsTree(pages, root, f, h)
  BY DEF Holds, Grows
<1>7. \A k \in Keys : k \in Recs(t) <=> k \in Records /\ Within(k, f[p])
  BY <1>1, <1>2, <1>6, RecordsOn DEF Recs
<1> QED
  BY <1>1, <1>2, <1>3, <1>5, <1>7

(* A record is stored. *)
LEMMA InsertServes ==
  ASSUME NEW f, NEW h, Holds(f, h), Answerable, Stored = Records, Stored' = Records',
         NEW t \in Threads, Insert(t)
  PROVE  Answerable' /\ Serves
<1>1. /\ OnLeaf(t, {"Insert"}) /\ pages' = [pages EXCEPT ![Page(t)].recs = @ \cup {Key(t)}]
      /\ dead' = dead \ {Key(t)} /\ Finish(t, "stored", <<>>)
  BY DEF Insert
<1>2. PICK p : p = Page(t)
  OBVIOUS
<1>3. TypeOK /\ Open(t) /\ call[t].op = "Insert" /\ got[t] = <<>> /\ p \in DOMAIN pages
  BY <1>1, <1>2, LeafReached
<1>4. pages[p] \in Pages
  BY <1>3 DEF TypeOK
<1>5. /\ DOMAIN pages' = DOMAIN pages /\ pages'[p].recs = pages[p].recs \cup {Key(t)}
      /\ \A q \in DOMAIN pages \ {p} : pages'[q] = pages[q]
  BY <1>1, <1>2, <1>3, <1>4 DEF Pages
<1>6. Records' = Records \cup {Key(t)}
  BY <1>3, <1>5 DEF Records
<1>7. PICK a : a = <<>>
  OBVIOUS
<1>8. a = got[t] \o <<>>
  BY <1>3, <1>7
<1>9. Records \subseteq Records'
  BY <1>6
<1>10. Answerable' /\ Directory!Finish(t, "stored", a)
  BY <1>1, <1>3, <1>8, <1>9, FinishServes
<1>11. Directory!Store(t)
  BY <1>1, <1>3, <1>6, <1>7, <1>10 DEF Directory!Store, Key
<1> QED
  BY <1>10, <1>11, ServedBy

(* A call about one key is told whether there is a record. *)
LEMMA OneKeyServes ==
  ASSUME NEW f, NEW h, Holds(f, h), Answerable, Stored = Records, Stored' = Records',
         NEW t \in Threads, Change(t) \/ Point(t)
  PROVE  Answerable' /\ Serves
<1>1. PICK p : p = Page(t)
  OBVIOUS
<1>2. OnLeaf(t, {"Point", "Update", "Delete"}) /\ pages' = pages
  BY DEF Change, Point, OnLeaf
<1>3. /\ TypeOK /\ Open(t) /\ got[t] = <<>> /\ Key(t) \in Keys /\ Within(Key(t), f[p])
      /\ call[t].op \in {"Point", "Update", "Delete"}
      /\ owed[t] \subseteq Records \cap Wanted(call[t])
      /\ \A k \in Keys : k \in Recs(t) <=> k \in Records /\ Within(k, f[p])
  BY <1>1, <1>2, LeafReached
<1>4. Records' = Records
  BY <1>2 DEF Records
<1>5. PICK a : a = <<>>
  OBVIOUS
<1>6. a = got[t] \o <<>> /\ Records \subseteq Records'
  BY <1>3, <1>4, <1>5
<1>7. Key(t) \in Recs(t) <=> Key(t) \in Records
  BY <1>3
<1>8. CASE Key(t) \in Recs(t)
  <2>1. /\ Finish(t, "found", <<>>)
        /\ dead' = CASE call[t].op = "Update" -> dead \ {Key(t)}
                     [] call[t].op = "Delete" -> dead \cup {Key(t)}
                     [] call[t].op = "Point"  -> dead
    BY <1>8 DEF Change, Point, OnLeaf
  <2>2. Answerable' /\ Directory!Finish(t, "found", a)
    BY <2>1, <1>3, <1>6, FinishServes
  <2>3. Directory!Find(t)
    BY <2>1, <2>2, <1>3, <1>4, <1>5, <1>7, <1>8 DEF Directory!Find, Key
  <2> QED
    BY <2>2, <2>3, ServedBy
<1>9. CASE Key(t) \notin Recs(t)
  <2>1. Finish(t, "missing", <<>>) /\ dead' = dead
    BY <1>9 DEF Change, Point
  <2>2. Answerable' /\ Directory!Finish(t, "missing", a)
    BY <2>1, <1>3, <1>6, FinishServes
  <2>3. owed[t] = {}
    <3>1. Usual(call[t])
      BY DEF Answerable
    <3>2. call[t].upto = Key(t) /\ Wanted(call[t]) = Key(t)..call[t].upto
      BY <3>1, <1>3 DEF Usual, Wanted, Key
    <3>3. PICK k : k = Key(t)
      OBVIOUS
    <3>4. k \in Nat
      BY <3>3, <1>3, Numbers
    <3>5. k..k = {k}
      BY <3>4
    <3> QED
      BY <3>2, <3>3, <3>5, <1>3, <1>7, <1>9
  <2>4. Directory!Miss(t)
    BY <2>1, <2>2, <2>3, <1>3, <1>4, <1>5 DEF Directory!Miss
  <2> QED
    BY <2>2, <2>4, ServedBy
<1> QED
  BY <1>8, <1>9

-------------------------------------------------------------------------
(* Calls for an end of the tree. *)

MinOps == {"PopMin", "PeekMin"}
MaxOps == {"PopMax", "PeekMax"}

(* Keys that have a record are keys. *)
LEMMA RecordsAreKeys ==
  ASSUME TypeOK
  PROVE  Records \subseteq Keys
<1>1. \A p \in DOMAIN pages : pages[p] \in Pages
  BY DEF TypeOK
<1>2. \A p \in DOMAIN pages : pages[p].recs \subseteq Keys
  BY <1>1 DEF Pages
<1> QED
  BY <1>2 DEF Records

(* A leaf that is not thin has a record, unless it is for less than four.  *)
LEMMA LeafHasRecords ==
  ASSUME NEW f, NEW h, Holds(f, h), NumRecords >= 4, NEW p \in DOMAIN pages, IsLeaf(p)
  PROVE  pages[p].recs # {}
<1>1. ~HasUnderflow(pages[p])
  BY DEF Holds, Grows
<1>2. PICK n : n = Cardinality(pages[p].recs)
  OBVIOUS
<1>3. ~ (n < NumRecords \div 2 - 1)
  BY <1>1, <1>2 DEF HasUnderflow, PageLen, IsLeaf
<1>4. n # 0
  BY <1>3, Numbers
<1>5. Cardinality({}) = 0
  BY FS_EmptySet
<1> QED
  BY <1>2, <1>4, <1>5

(* The smallest key of the leaf that owns the least of all keys is the     *)
(* first of the tree, and the largest of the leaf at the other end the     *)
(* last.                                                                   *)
LEMMA EndOfTree ==
  ASSUME NEW f, NEW h, Holds(f, h), Answerable, NumRecords >= 4, NEW t \in Threads,
         OnLeaf(t, MinOps \cup MaxOps)
  PROVE  /\ Recs(t) # {}
         /\ call[t].op \in MinOps => /\ Smallest(Recs(t)) \in Records
                                     /\ \A j \in Records : Smallest(Recs(t)) <= j
         /\ call[t].op \in MaxOps => /\ Largest(Recs(t)) \in Records
                                     /\ \A j \in Records : j <= Largest(Recs(t))
<1>1. PICK p : p = Page(t)
  OBVIOUS
<1>2. /\ TypeOK /\ Key(t) \in Keys /\ p \in DOMAIN pages /\ IsLeaf(p) /\ Within(Key(t), f[p])
      /\ \A k \in Keys : k \in Recs(t) <=> k \in Records /\ Within(k, f[p])
  BY <1>1, LeafReached
<1>3. PICK R : R = Recs(t)
  OBVIOUS
<1>4. R # {}
  BY <1>1, <1>2, <1>3, LeafHasRecords DEF Recs
<1>5. R \subseteq Keys
  BY <1>3, RecsAreKeys DEF OnLeaf
<1>6. /\ Smallest(R) \in R /\ \A j \in R : Smallest(R) <= j
      /\ Largest(R) \in R /\ \A j \in R : j <= Largest(R)
  BY <1>4, <1>5, EndsOf
<1>7. Usual(call[t])
  BY DEF Answerable
<1>8. IsTree(pages, root, f, h)
  BY DEF Holds, Grows
<1>9. PICK lo, hi : lo = f[p].lo /\ hi = f[p].hi
  OBVIOUS
<1>10. lo \in Nat /\ hi \in Nat
  BY <1>2, <1>8, <1>9, PageOf, Numbers
<1>11. /\ \A k \in Keys : k \in R <=> k \in Records /\ lo <= k /\ k <= hi
       /\ lo <= Key(t) /\ Key(t) <= hi
  BY <1>2, <1>3, <1>9 DEF Within
<1>12. \A k \in Keys : k \in Nat /\ MinKey <= k /\ k <= MaxKey
  BY Numbers
<1>13. Records \subseteq Keys
  BY <1>2, RecordsAreKeys
<1>14. ASSUME call[t].op \in MinOps
       PROVE  Smallest(R) \in Records /\ \A j \in Records : Smallest(R) <= j
  <2>1. Key(t) = MinKey
    BY <1>7, <1>14 DEF Usual, MinOps, Key
  <2>2. PICK k : k = Smallest(R)
    OBVIOUS
  <2>3. k \in R /\ \A j \in R : k <= j
    BY <1>6, <2>2
  <2>4. k \in Keys /\ k \in Records /\ k <= hi
    BY <1>5, <1>11, <2>3
  <2>5. ASSUME NEW j \in Records PROVE k <= j
    <3>1. j \in Keys /\ j \in Nat /\ k \in Nat /\ MinKey <= j /\ MinKey \in Nat
      BY <1>12, <1>13, <2>4, Numbers
    <3>2. lo <= j
      BY <3>1, <2>1, <1>10, <1>11
    <3>3. CASE j <= hi
      BY <3>1, <3>2, <3>3, <1>11, <2>3
    <3>4. CASE ~ (j <= hi)
      BY <3>1, <3>4, <2>4, <1>10
    <3> QED
      BY <3>3, <3>4
  <2> QED
    BY <2>2, <2>4, <2>5
<1>15. ASSUME call[t].op \in MaxOps
       PROVE  Largest(R) \in Records /\ \A j \in Records : j <= Largest(R)
  <2>1. Key(t) = MaxKey
    BY <1>7, <1>15 DEF Usual, MaxOps, Key
  <2>2. PICK k : k = Largest(R)
    OBVIOUS
  <2>3. k \in R /\ \A j \in R : j <= k
    BY <1>6, <2>2
  <2>4. k \in Keys /\ k \in Records /\ lo <= k
    BY <1>5, <1>11, <2>3
  <2>5. ASSUME NEW j \in Records PROVE j <= k
    <3>1. j \in Keys /\ j \in Nat /\ k \in Nat /\ j <= MaxKey /\ MaxKey \in Nat
      BY <1>12, <1>13, <2>4, Numbers
    <3>2. j <= hi
      BY <3>1, <2>1, <1>10, <1>11
    <3>3. CASE lo <= j
      BY <3>1, <3>2, <3>3, <1>11, <2>3
    <3>4. CASE ~ (lo <= j)
      BY <3>1, <3>4, <2>4, <1>10
    <3> QED
      BY <3>3, <3>4
  <2> QED
    BY <2>2, <2>4, <2>5
<1> QED
  BY <1>3, <1>4, <1>14, <1>15

(* What a call for an end is told: the record there, unless it is deleted. *)
LEMMA EndsServe ==
  ASSUME NEW f, NEW h, Holds(f, h), Answerable, NumRecords >= 4,
         Stored = Records, Stored' = Records',
         NEW t \in Threads, PopMin(t) \/ PopMax(t) \/ PeekMin(t) \/ PeekMax(t)
  PROVE  Answerable' /\ Serves
<1>1. /\ OnLeaf(t, MinOps \cup MaxOps) /\ pages' = pages
      /\ call[t].op \in MinOps \cup MaxOps
  BY DEF PopMin, PopMax, PeekMin, PeekMax, Pop, Peek, OnLeaf, MinOps, MaxOps
<1>2. /\ TypeOK /\ Open(t) /\ got[t] = <<>> /\ owed[t] \subseteq Records
  <2>1. PICK p : p = Page(t)
    OBVIOUS
  <2> QED
    BY <1>1, <2>1, LeafReached
<1>3. PICK k : k = IF call[t].op \in MinOps THEN Smallest(Recs(t)) ELSE Largest(Recs(t))
  OBVIOUS
<1>4. /\ Recs(t) # {} /\ k \in Records
      /\ call[t].op \in MinOps => \A j \in Records : k <= j
      /\ call[t].op \notin MinOps => \A j \in Records : j <= k
  BY <1>1, <1>3, EndOfTree
<1>5. Records' = Records
  BY <1>1 DEF Records
<1>6. Directory!IsEnd(t, k)
  BY <1>2, <1>4 DEF Directory!IsEnd, MinOps
<1>7. \/ call[t].op \in {"PopMin", "PopMax"} /\ Pop(t, k)
      \/ call[t].op \in {"PeekMin", "PeekMax"} /\ Peek(t, k)
  BY <1>3 DEF PopMin, PopMax, PeekMin, PeekMax, OnLeaf, MinOps
<1>8. PICK a, b : a = <<>> /\ b = <<k>>
  OBVIOUS
<1>9. a = got[t] \o <<>> /\ b = got[t] \o <<k>> /\ Records \subseteq Records'
  BY <1>2, <1>5, <1>8
<1>10. CASE k \in dead
  <2>1. PICK r : r = IF call[t].op \in {"PopMin", "PopMax"} THEN "error" ELSE "nothing"
    OBVIOUS
  <2>2. Finish(t, r, <<>>) /\ dead' = dead
    BY <1>7, <1>10, <2>1 DEF Pop, Peek
  <2>3. Answerable' /\ Directory!Finish(t, r, a)
    BY <2>2, <1>2, <1>9, FinishServes
  <2>4. Directory!Nothing(t)
    BY <2>1, <2>2, <2>3, <1>1, <1>5, <1>6, <1>8, <1>10
    DEF Directory!Nothing, Directory!Ends, Directory!Peeks, MinOps, MaxOps
  <2> QED
    BY <2>3, <2>4, ServedBy
<1>11. CASE k \notin dead
  <2>1. Finish(t, "matched", <<k>>)
    BY <1>4, <1>7, <1>11 DEF Pop, Peek
  <2>2. Answerable' /\ Directory!Finish(t, "matched", b)
    BY <2>1, <1>2, <1>9, FinishServes
  <2>3. k \in Stored \ dead
    BY <1>4, <1>11
  <2>4. CASE call[t].op \in {"PopMin", "PopMax"} /\ Pop(t, k)
    <3>1. dead' = dead \cup {k}
      BY <2>4, <1>4, <1>11 DEF Pop
    <3>2. call[t].op = "PopMin" => \A j \in Stored : k <= j
      BY <1>4 DEF MinOps
    <3>3. Directory!Pop(t)
      BY <2>2, <2>3, <2>4, <3>1, <3>2, <1>5, <1>6, <1>8 DEF Directory!Pop
    <3> QED
      BY <2>2, <3>3, ServedBy
  <2>5. CASE call[t].op \in {"PeekMin", "PeekMax"} /\ Peek(t, k)
    <3>1. dead' = dead
      BY <2>5 DEF Peek
    <3>2. Directory!Peek(t)
      BY <2>2, <2>3, <2>5, <3>1, <1>5, <1>6, <1>8 DEF Directory!Peek, Directory!Peeks
    <3> QED
      BY <2>2, <3>2, ServedBy
  <2> QED
    BY <1>7, <2>4, <2>5
<1> QED
  BY <1>10, <1>11

-------------------------------------------------------------------------
(* The leaves that a range query collects. *)

(* Ascending keys, and then ascending keys from low on. *)
LEMMA KeysAppended ==
  ASSUME NEW s \in Seq(Keys), NEW z \in Seq(Keys), NEW m \in Keys, NEW a, a = s \o z,
         \A i, j \in DOMAIN s : i < j => s[i] < s[j], \A i \in DOMAIN s : s[i] < m,
         \A i, j \in DOMAIN z : i < j => z[i] < z[j], \A i \in DOMAIN z : m <= z[i]
  PROVE  /\ \A i, j \in DOMAIN a : i < j => a[i] < a[j]
         /\ ToSet(a) = ToSet(s) \cup ToSet(z)
<1>1. PICK p, q : p = Len(s) /\ q = Len(z)
  OBVIOUS
<1>2. p \in Nat /\ q \in Nat /\ DOMAIN s = 1..p /\ DOMAIN z = 1..q
  BY <1>1, LenProperties
<1>3. /\ a \in Seq(Keys) /\ Len(a) = p + q
      /\ \A i \in 1..(p + q) : a[i] = IF i <= p THEN s[i] ELSE z[i - p]
  BY <1>1, ConcatProperties
<1>4. DOMAIN a = 1..(p + q)
  BY <1>3, LenProperties
<1>5. \A i \in 1..(p + q) : i <= p => i \in 1..p
  BY <1>2
<1>6. \A i \in 1..(p + q) : ~ (i <= p) => i - p \in 1..q
  BY <1>2
<1>7. /\ \A i \in DOMAIN s : s[i] \in Keys /\ s[i] \in Nat
      /\ \A i \in DOMAIN z : z[i] \in Keys /\ z[i] \in Nat
      /\ m \in Nat
  BY <1>1, <1>2, ElementOfSeq, Numbers
<1>8. ASSUME NEW i \in 1..(p + q), NEW j \in 1..(p + q), i < j
      PROVE  a[i] < a[j]
  <2>1. i \in Nat /\ j \in Nat
    BY <1>2
  <2>2. CASE j <= p
    <3>1. i <= p
      BY <2>1, <2>2, <1>2, <1>8
    <3> QED
      BY <2>2, <3>1, <1>2, <1>3, <1>5, <1>8
  <2>3. CASE i <= p /\ ~ (j <= p)
    <3>1. i \in DOMAIN s /\ j - p \in DOMAIN z /\ a[i] = s[i] /\ a[j] = z[j - p]
      BY <2>3, <1>2, <1>3, <1>5, <1>6
    <3>2. s[i] < m /\ m <= z[j - p] /\ s[i] \in Nat /\ z[j - p] \in Nat
      BY <3>1, <1>7
    <3> QED
      BY <3>1, <3>2, <1>7
  <2>4. CASE ~ (i <= p)
    <3>1. ~ (j <= p) /\ i - p < j - p
      BY <2>1, <2>4, <1>2, <1>8
    <3> QED
      BY <2>4, <3>1, <1>2, <1>3, <1>6
  <2> QED
    BY <2>2, <2>3, <2>4
<1>9. ToSet(a) \subseteq ToSet(s) \cup ToSet(z)
  BY <1>2, <1>3, <1>4, <1>5, <1>6 DEF ToSet
<1>10. \A i \in 1..p : i \in 1..(p + q) /\ i <= p
  BY <1>2
<1>11. \A i \in 1..q : i + p \in 1..(p + q) /\ ~ (i + p <= p) /\ (i + p) - p = i
  BY <1>2
<1>12. ToSet(s) \subseteq ToSet(a)
  BY <1>2, <1>3, <1>4, <1>10 DEF ToSet
<1>13. ToSet(z) \subseteq ToSet(a)
  <2>1. \A i \in 1..q : a[i + p] = z[i]
    BY <1>3, <1>11
  <2> QED
    BY <2>1, <1>2, <1>4, <1>11 DEF ToSet
<1> QED
  BY <1>4, <1>8, <1>9, <1>12, <1>13

(* The keys that a range query copies from its leaf. *)
InRange(t) == {k \in Recs(t) : low[t] <= k /\ k <= call[t].upto}

(* The answer a of a range query, when it has appended the keys ks of the  *)
(* leaf whose fence ends at hi.                                            *)
Collected(t, hi, ks, a) ==
  /\ call[t].op = "Range" /\ Owes(t) /\ hi \in Keys /\ Key(t) <= low[t] /\ low[t] <= hi
  /\ ks \in Seq(Keys)
  /\ \A i, j \in DOMAIN a : i < j => a[i] < a[j]
  /\ \A k \in ToSet(a) : k \in Records \cap Wanted(call[t]) /\ k \in Keys /\ k <= hi
  /\ \A k \in owed[t] : k \in Keys /\ k <= call[t].upto /\ (k <= hi => k \in ToSet(a))

(* With the keys of its leaf a range query has, in order, all that it owes *)
(* up to the end of the leaf's fence.                                      *)
LEMMA LeafCollected ==
  ASSUME NEW f, NEW h, Holds(f, h), Answerable, NEW t \in Threads, pc[t] = "collect",
         NEW hi, hi = Last(held[t]).hi,
         NEW ks, ks = InOrder(InRange(t)),
         NEW a, a = got[t] \o ks
  PROVE  Collected(t, hi, ks, a)
<1>1. PICK n, p : n = Len(held[t]) /\ p = Page(t)
  OBVIOUS
<1>2. /\ n \in Nat /\ n >= 2 /\ Last(held[t]) = held[t][n] /\ p = held[t][n].page
      /\ held[t][n] \in Guards /\ p \in DOMAIN pages /\ IsLeaf(p)
      /\ call[t].op = "Range" /\ Trail(held[t], n, f)
  BY <1>1, LateIs DEF Late
<1>3. n \in 1..n
  BY <1>2
<1>4. PICK lo : lo = f[p].lo
  OBVIOUS
<1>5. Last(held[t]).lo = lo /\ f[p].hi = hi
  BY <1>2, <1>3, <1>4 DEF Trail
<1>6. lo \in Keys /\ hi \in Keys
  BY <1>2, <1>5 DEF Guards
<1>7. IsTree(pages, root, f, h) /\ TypeOK
  BY DEF Holds, Grows
<1>8. PICK R : R = Recs(t)
  OBVIOUS
<1>9. \A k \in Keys : k \in R <=> k \in Records /\ lo <= k /\ k <= hi
  <2>1. \A k \in Keys : k \in pages[p].recs <=> k \in Records /\ Within(k, f[p])
    BY <1>2, <1>7, RecordsOn
  <2> QED
    BY <2>1, <1>1, <1>4, <1>5, <1>8 DEF Within, Recs
<1>10. R \subseteq Keys
  <2>1. pages[p] \in Pages
    BY <1>2, <1>7 DEF TypeOK
  <2> QED
    BY <2>1, <1>1, <1>8 DEF Recs, Pages
<1>11. Open(t) /\ Knows(t)
  BY DEF Answerable, Open
<1>12. Owes(t) /\ Gathered(t)
  BY <1>2, <1>11 DEF Knows
<1>13. PICK m, u, y : m = low[t] /\ u = call[t].upto /\ y = Key(t)
  OBVIOUS
<1>14. m \in Keys /\ u \in Keys /\ y \in Keys
  <2>1. low[t] \in Keys /\ call[t] \in Calls /\ Key(t) \in Keys
    BY ThreadIs
  <2> QED
    BY <2>1, <1>13 DEF Calls
<1>15. Wanted(call[t]) = y..u
  BY <1>2, <1>13 DEF Wanted, Key
<1>16. PICK s : s = got[t]
  OBVIOUS
<1>17. /\ s \in Seq(Keys)
       /\ \A i, j \in DOMAIN s : i < j => s[i] < s[j]
       /\ \A i \in DOMAIN s : s[i] < m /\ s[i] \in Records \cap (y..u)
       /\ \A k \in owed[t] : k < m => k \in ToSet(s)
       /\ y <= m /\ lo <= m /\ m <= hi
       /\ owed[t] \subseteq Records \cap (y..u)
  <2>1. pc[t] \in Late
    BY DEF Late
  <2>2. /\ \A i, j \in DOMAIN s : i < j => s[i] < s[j]
        /\ \A i \in DOMAIN s : s[i] < m /\ s[i] \in Records \cap (y..u)
        /\ \A k \in owed[t] : k < m => k \in ToSet(s)
        /\ y <= m
    BY <1>12, <1>13, <1>15, <1>16 DEF Gathered
  <2>3. Covers(Last(held[t]), m)
    BY <2>1, <1>12, <1>13 DEF Gathered
  <2>4. owed[t] \subseteq Records \cap (y..u)
    BY <1>11, <1>12, <1>15 DEF Owes
  <2>5. s \in Seq(Keys)
    BY <1>16, ThreadIs
  <2> QED
    BY <2>2, <2>3, <2>4, <2>5, <1>5 DEF Covers
<1>18. PICK S : S = {k \in R : m <= k /\ k <= u}
  OBVIOUS
<1>19. ks = InOrder(S) /\ S \subseteq Keys
  BY <1>8, <1>10, <1>13, <1>18 DEF InRange
<1>20. /\ ks \in Seq(Keys) /\ \A i \in DOMAIN ks : ks[i] \in S
       /\ \A i, j \in DOMAIN ks : i < j => ks[i] < ks[j]
  BY <1>19, InOrderIs
<1>21. \A i \in DOMAIN ks : m <= ks[i]
  BY <1>18, <1>20
<1>22. /\ \A i, j \in DOMAIN a : i < j => a[i] < a[j]
       /\ ToSet(a) = ToSet(s) \cup ToSet(ks)
  <2>1. s \in Seq(Keys) /\ ks \in Seq(Keys) /\ m \in Keys /\ a = s \o ks
    BY <1>14, <1>16, <1>17, <1>20
  <2>2. \A i \in DOMAIN s : s[i] < m
    BY <1>17
  <2>3. \A i, j \in DOMAIN s : i < j => s[i] < s[j]
    BY <1>17
  <2>4. \A i, j \in DOMAIN ks : i < j => ks[i] < ks[j]
    BY <1>20
  <2> QED
    BY <2>1, <2>2, <2>3, <2>4, <1>21, KeysAppended
<1>23. /\ \A k \in Keys : k \in Nat
       /\ m \in Nat /\ u \in Nat /\ y \in Nat /\ hi \in Nat /\ lo \in Nat
  BY <1>6, <1>14, Numbers
<1>24. Records \subseteq Keys
  BY <1>7, RecordsAreKeys
<1>25. ASSUME NEW k \in ToSet(a) PROVE k \in Records \cap (y..u) /\ k \in Keys /\ k <= hi
  <2>1. CASE k \in ToSet(s)
    <3>1. k < m /\ k \in Records \cap (y..u)
      BY <2>1, <1>17 DEF ToSet
    <3>2. k \in Keys /\ k \in Nat
      BY <3>1, <1>23, <1>24
    <3>3. k <= hi
      BY <3>1, <3>2, <1>17, <1>23
    <3> QED
      BY <3>1, <3>2, <3>3
  <2>2. CASE k \in ToSet(ks)
    <3>1. k \in S
      BY <2>2, <1>20 DEF ToSet
    <3>2. k \in R /\ m <= k /\ k <= u /\ k \in Keys /\ k \in Nat
      BY <3>1, <1>18, <1>19, <1>23
    <3>3. k \in Records /\ k <= hi
      BY <3>2, <1>9
    <3>4. k \in y..u
      BY <3>2, <1>17, <1>23
    <3> QED
      BY <3>2, <3>3, <3>4
  <2> QED
    BY <2>1, <2>2, <1>22
<1>26. ASSUME NEW k \in owed[t] PROVE k \in Keys /\ k <= u /\ (k <= hi => k \in ToSet(a))
  <2>1. k \in Records /\ k \in y..u /\ k \in Keys /\ k \in Nat
    BY <1>17, <1>23, <1>24
  <2>2. k <= u
    BY <2>1, <1>23
  <2>3. ASSUME k <= hi PROVE k \in ToSet(a)
    <3>1. CASE k < m
      BY <3>1, <1>17, <1>22
    <3>2. CASE ~ (k < m)
      <4>1. m <= k /\ lo <= k
        BY <3>2, <2>1, <1>17, <1>23
      <4>2. k \in S
        BY <4>1, <2>1, <2>2, <2>3, <1>9, <1>18
      <4>3. k \in ToSet(ks)
        BY <4>2, <1>19, InOrderHasAll
      <4> QED
        BY <4>3, <1>22
    <3> QED
      BY <3>1, <3>2
  <2> QED
    BY <2>1, <2>2, <2>3
<1> QED
  BY <1>2, <1>6, <1>12, <1>13, <1>15, <1>17, <1>20, <1>22, <1>25, <1>26 DEF Collected

(* The last leaf of a range: the answer is what the directory asks for. *)
LEMMA LastLeafServes ==
  ASSUME NEW f, NEW h, Holds(f, h), Answerable, Stored = Records, Stored' = Records',
         NEW t \in Threads, Collect(t), NEW hi, hi = Last(held[t]).hi,
         hi = MaxKey \/ Inc(hi) > call[t].upto
  PROVE  Answerable' /\ Serves
<1>1. PICK ks, a : /\ ks = InOrder(InRange(t))
                   /\ a = got[t] \o ks
  OBVIOUS
<1>2. pc[t] = "collect" /\ Finish(t, "matched", ks) /\ pages' = pages /\ dead' = dead
  BY <1>1 DEF Collect, InRange
<1>3. /\ call[t].op = "Range" /\ hi \in Keys
      /\ \A i, j \in DOMAIN a : i < j => a[i] < a[j]
      /\ \A k \in ToSet(a) : k \in Records \cap Wanted(call[t])
      /\ \A k \in owed[t] : k \in Keys /\ k <= call[t].upto /\ (k <= hi => k \in ToSet(a))
  <2>1. Collected(t, hi, ks, a)
    BY <1>1, <1>2, LeafCollected
  <2> QED
    BY <2>1 DEF Collected
<1>4. TypeOK /\ Open(t) /\ Records' = Records
  BY <1>2 DEF Holds, Open, Records
<1>5. Records \subseteq Records'
  BY <1>4
<1>6. Answerable' /\ Directory!Finish(t, "matched", a)
  BY <1>1, <1>2, <1>4, <1>5, FinishServes
<1>7. Answer'[t] = a
  <2>1. Answer' = [Answer EXCEPT ![t] = a]
    BY <1>6 DEF Directory!Finish
  <2>2. t \in DOMAIN Answer
    BY DEF Answer, Open
  <2> QED
    BY <2>1, <2>2
<1>8. owed[t] \subseteq ToSet(a)
  <2> SUFFICES ASSUME NEW k \in owed[t] PROVE k <= hi
    BY <1>3
  <2>1. PICK u : u = call[t].upto
    OBVIOUS
  <2>2. k \in Nat /\ hi \in Nat /\ MaxKey \in Nat /\ k <= MaxKey /\ k <= u
    BY <2>1, <1>3, Numbers
  <2>3. u \in Nat
    <3>1. call[t] \in Calls
      BY ThreadIs
    <3> QED
      BY <2>1, <3>1, Numbers DEF Calls
  <2>4. CASE hi = MaxKey
    BY <2>2, <2>4
  <2>5. CASE hi # MaxKey
    <3>1. hi + 1 > u
      BY <2>1, <2>5, <1>3, NextKeys
    <3> QED
      BY <2>2, <2>3, <3>1
  <2> QED
    BY <2>4, <2>5
<1>9. Directory!Wanted(call[t]) = Wanted(call[t])
  BY DEF Directory!Wanted, Directory!Ends, Directory!Peeks, Wanted, Keys
<1>10. ToSet(a) \subseteq (Stored \cup swept) \cap Directory!Wanted(call[t])
  BY <1>3, <1>9
<1>11. Directory!Collect(t)
  <2>1. /\ \A i, j \in DOMAIN Answer'[t] : i < j => Answer'[t][i] < Answer'[t][j]
        /\ owed[t] \subseteq ToSet(Answer'[t])
        /\ ToSet(Answer'[t]) \subseteq (Stored \cup swept) \cap Directory!Wanted(call[t])
        /\ Directory!Finish(t, "matched", Answer'[t])
    BY <1>3, <1>6, <1>7, <1>8, <1>10
  <2>2. Stored' = Stored /\ dead' = dead
    BY <1>2, <1>4
  <2>3. \A x : Directory!ToSet(x) = ToSet(x)
    BY DEF Directory!ToSet, ToSet
  <2> QED
    BY <2>1, <2>2, <2>3, <1>3 DEF Directory!Collect
<1> QED
  BY <1>6, <1>11, ServedBy

(* Any other leaf: the query goes on from the key behind its fence. *)
LEMMA NextLeafServes ==
  ASSUME NEW f, NEW h, Holds(f, h), Answerable, Stored = Records, Stored' = Records',
         NEW t \in Threads, Collect(t), NEW hi, hi = Last(held[t]).hi,
         ~ (hi = MaxKey \/ Inc(hi) > call[t].upto)
  PROVE  Answerable' /\ Serves
<1>1. PICK ks, a : /\ ks = InOrder(InRange(t))
                   /\ a = got[t] \o ks
  OBVIOUS
<1>2. PICK l : l = IF Len(held[t]) = 1 THEN "root" ELSE "scan"
  OBVIOUS
<1>3. /\ pc[t] = "collect" /\ held' = [held EXCEPT ![t] = Front(held[t])]
      /\ low' = [low EXCEPT ![t] = Inc(hi)] /\ got' = [got EXCEPT ![t] = a]
      /\ pc' = [pc EXCEPT ![t] = l]
      /\ pages' = pages /\ dead' = dead /\ call' = call /\ reply' = reply /\ owed' = owed
      /\ swept' = swept
  BY <1>1, <1>2 DEF Collect, Hold, Goto, InRange
<1>4. /\ call[t].op = "Range" /\ Owes(t) /\ hi \in Keys /\ Key(t) <= low[t] /\ low[t] <= hi
      /\ \A i, j \in DOMAIN a : i < j => a[i] < a[j]
      /\ \A k \in ToSet(a) : k \in Records \cap Wanted(call[t]) /\ k \in Keys /\ k <= hi
      /\ \A k \in owed[t] : k \in Keys /\ k <= call[t].upto /\ (k <= hi => k \in ToSet(a))
  <2>1. Collected(t, hi, ks, a)
    BY <1>1, <1>3, LeafCollected
  <2> QED
    BY <2>1 DEF Collected
<1>5. /\ pc \in [Threads -> PCs] /\ got \in [Threads -> Seq(Keys)] /\ held \in [Threads -> Seq(Guards)]
      /\ low \in [Threads -> Keys]
  BY DEF Holds, TypeOK
<1>6. /\ pc'[t] = l /\ got'[t] = a /\ low'[t] = hi + 1
      /\ \A u \in Threads \ {t} : /\ pc'[u] = pc[u] /\ held'[u] = held[u]
                                  /\ got'[u] = got[u] /\ low'[u] = low[u]
  BY <1>3, <1>4, <1>5, NextKeys
<1>7. Records' = Records /\ Stored' = Stored
  <2>1. Records' = Records
    BY <1>3 DEF Records
  <2> QED
    BY <2>1
<1>8. l \notin Late /\ Open(t) /\ Open(t)' /\ l # "start"
  BY <1>2, <1>3, <1>6 DEF Late, Open
<1>9. Gathered(t)'
  <2>1. Key(t)' = Key(t) /\ Wanted(call[t])' = Wanted(call[t])
    BY <1>3 DEF Key, Wanted
  <2>2. hi \in Nat /\ low[t] \in Nat /\ Key(t) \in Nat
    BY <1>4, ThreadIs, Numbers
  <2>3. \A k \in Keys : k \in Nat /\ (k <= hi <=> k < hi + 1)
    BY <2>2, Numbers
  <2>4. \A i \in DOMAIN a : a[i] < hi + 1 /\ a[i] \in Records \cap Wanted(call[t])
    BY <2>3, <1>4 DEF ToSet
  <2>5. \A k \in owed[t] : k < hi + 1 => k \in ToSet(a)
    BY <2>3, <1>4
  <2>6. Key(t) <= hi + 1
    BY <2>2, <1>4
  <2>7. pc'[t] \notin Late
    BY <1>6, <1>8
  <2> QED
    BY <2>1, <2>4, <2>5, <2>6, <2>7, <1>3, <1>4, <1>6, <1>7 DEF Gathered
<1>10. ASSUME NEW u \in Threads PROVE Usual(call[u])' /\ Knows(u)'
  <2>1. Knows(u) /\ Usual(call[u])'
    BY <1>3 DEF Answerable, Usual
  <2>2. CASE u # t
    <3>1. /\ pc'[u] = pc[u] /\ held'[u] = held[u] /\ got'[u] = got[u] /\ low'[u] = low[u]
          /\ owed'[u] = owed[u] /\ Records \subseteq Records'
      BY <1>3, <1>6, <1>7, <2>2
    <3> QED
      BY <2>1, <3>1, <1>3, KnowsStill
  <2>3. CASE u = t
    <3>1. Wanted(call[t])' = Wanted(call[t]) /\ pc'[t] # "start"
      BY <1>3, <1>6, <1>8 DEF Wanted
    <3>2. Owes(t)'
      BY <3>1, <1>3, <1>4, <1>7, <1>8 DEF Owes
    <3> QED
      BY <2>1, <2>3, <3>2, <1>9 DEF Knows
  <2> QED
    BY <2>2, <2>3
<1>11. Phase' = Phase
  <2>1. ASSUME NEW u \in Threads
        PROVE  (IF Open(u)' THEN "open" ELSE pc'[u]) = (IF Open(u) THEN "open" ELSE pc[u])
    BY <1>6, <1>8 DEF Open
  <2> QED
    BY <2>1 DEF Phase, Open
<1>12. Answer' = Answer
  <2>1. ASSUME NEW u \in Threads
        PROVE  (IF Open(u)' THEN <<>> ELSE got'[u]) = (IF Open(u) THEN <<>> ELSE got[u])
    BY <1>6, <1>8 DEF Open
  <2> QED
    BY <2>1 DEF Answer, Open
<1>13. UNCHANGED Directory!vars
  BY <1>3, <1>7, <1>11, <1>12 DEF Directory!vars
<1> QED
  BY <1>10, <1>13 DEF Answerable, Serves

-------------------------------------------------------------------------
(* Every step, and the first state. *)

LEMMA StepServes ==
  ASSUME NEW f, NEW h, Holds(f, h), Answerable, NumRecords >= 4,
         Stored = Records, Stored' = Records', NEW t \in Threads, Step(t)
  PROVE  Answerable' /\ Serves
<1>1. CASE LoadRoot(t)
  <2>1. TypeOK
    BY DEF Holds
  <2>2. CASE pc[t] = "start"
    BY <1>1, <2>1, <2>2, BeginServes
  <2>3. CASE pc[t] # "start"
    BY <1>1, <2>3, GoingDownServes
  <2> QED
    BY <2>2, <2>3
<1>2. CASE LockRoot(t) \/ KeepRoot(t) \/ PassChild(t)
  BY <1>2, GoingDownServes
<1>3. CASE SplitRoot(t) \/ SplitChild(t)
  BY <1>3, SplittingServes
<1>4. CASE TakeThinChild(t) \/ CorrectThin(t) \/ Panic(t)
  BY <1>4, NoThinChild, Zenon
<1>5. CASE Insert(t)
  BY <1>5, InsertServes
<1>6. CASE Change(t) \/ Point(t)
  BY <1>6, OneKeyServes
<1>7. CASE PopMin(t) \/ PopMax(t) \/ PeekMin(t) \/ PeekMax(t)
  BY <1>7, EndsServe
<1>8. CASE ScanIndex(t) \/ ScanLeaf(t) \/ Upgrade(t) \/ TryWrite(t)
  BY <1>8, ScanningServes
<1>9. CASE Collect(t)
  <2>1. PICK hi : hi = Last(held[t]).hi
    OBVIOUS
  <2> QED
    BY <1>9, <2>1, LastLeafServes, NextLeafServes
<1> QED
  BY <1>1, <1>2, <1>3, <1>4, <1>5, <1>6, <1>7, <1>8, <1>9, Zenon DEF Step

(* Nothing happens. *)
LEMMA StutterServes ==
  ASSUME Answerable, UNCHANGED vars, Stored = Records, Stored' = Records'
  PROVE  Answerable' /\ Serves
<1>1. /\ pages' = pages /\ dead' = dead /\ call' = call /\ pc' = pc /\ held' = held
      /\ low' = low /\ got' = got /\ reply' = reply /\ owed' = owed /\ swept' = swept
  BY DEF vars, kind, tree, scan
<1>2. Records' = Records
  BY <1>1 DEF Records
<1>3. ASSUME NEW u \in Threads PROVE Usual(call[u])' /\ Knows(u)'
  <2>1. Knows(u) /\ Usual(call[u])'
    BY <1>1 DEF Answerable, Usual
  <2>2. Records \subseteq Records'
    BY <1>2
  <2> QED
    BY <2>1, <2>2, <1>1, KnowsStill
<1>4. Phase' = Phase /\ Answer' = Answer
  BY <1>1 DEF Phase, Answer, Open
<1>5. UNCHANGED Directory!vars
  BY <1>1, <1>2, <1>4 DEF Directory!vars
<1> QED
  BY <1>3, <1>5 DEF Answerable, Serves

(* In the beginning no call owes anything. *)
LEMMA StartServes ==
  ASSUME Init
  PROVE  Answerable /\ Directory!Init
<1>1. /\ pc = [t \in Threads |-> "start"] /\ low = [t \in Threads |-> call[t].key]
      /\ got = [t \in Threads |-> <<>>] /\ reply = [t \in Threads |-> "none"]
      /\ owed = [t \in Threads |-> {}]
  BY DEF Init
<1>2. \A t \in Threads : Usual(call[t])
  BY StartsAssumption DEF Init
<1>3. ASSUME NEW t \in Threads PROVE Knows(t) /\ ~Open(t)
  <2>1. pc[t] = "start" /\ got[t] = <<>> /\ low[t] = Key(t)
    BY <1>1 DEF Key
  <2> QED
    BY <2>1 DEF Open, Knows, Owes
<1>4. Phase = [t \in Threads |-> "start"]
  <2>1. \A t \in Threads : (IF Open(t) THEN "open" ELSE pc[t]) = "start"
    BY <1>1, <1>3
  <2> QED
    BY <2>1 DEF Phase, Open
<1>5. Answer = [t \in Threads |-> <<>>]
  <2>1. \A t \in Threads : (IF Open(t) THEN <<>> ELSE got[t]) = <<>>
    BY <1>1, <1>3
  <2> QED
    BY <2>1 DEF Answer, Open
<1> QED
  BY <1>1, <1>2, <1>3, <1>4, <1>5 DEF Answerable, Directory!Init

(* The tree is the directory that callers see: every answer is right for   *)
(* some moment of its call, whatever is split and whoever passes while the *)
(* call is on its way, and no step of the tree shows more than that.  A    *)
(* leaf for less than four records may be empty without being thin, and    *)
(* then not have the end of the tree that a pop or a peek looks for there; *)
(* NUM_RECORDS is 170.                                                     *)
THEOREM Implements ==
  Spec /\ IndexRoot /\ ~gc /\ NumRecords >= 4 => ImplementsDirectory
<1>1. Init => Answerable /\ Directory!Init
  BY StartServes
<1>2. CoupledInv => Stored = Records
  BY StoredIsRecords
<1>3. ASSUME NumRecords >= 4, CoupledInv, CoupledInv', Stored = Records, (Stored = Records)',
             Answerable, [Next]_vars
      PROVE  Answerable' /\ Serves
  <2>1. PICK f, h : Holds(f, h)
    BY <1>3 DEF CoupledInv
  <2>2. Stored = Records /\ Stored' = Records'
    BY <1>3
  <2>3. CASE \E t \in Threads : Step(t)
    BY <2>1, <2>2, <2>3, <1>3, StepServes
  <2>4. CASE UNCHANGED vars
    BY <2>2, <2>4, <1>3, StutterServes
  <2> QED
    BY <2>3, <2>4, <1>3 DEF Next
<1>4. ASSUME NumRecords >= 4 PROVE Spec /\ IndexRoot /\ ~gc => ImplementsDirectory
  <2>1. /\ CoupledInv /\ CoupledInv' /\ (Stored = Records) /\ (Stored = Records)' /\ Answerable /\ [Next]_vars
        => Answerable' /\ Serves
    BY <1>3, <1>4
  <2>2. Spec /\ IndexRoot /\ ~gc => []CoupledInv
    BY Invariance
  <2>3. Serves => [Directory!Sweep \/ Directory!Revive \/ \E t \in Threads : Directory!Serve(t)]_(Directory!vars)
    BY DEF Serves
  <2> QED
    BY <1>1, <1>2, <2>1, <2>2, <2>3, PTL DEF Spec, ImplementsDirectory, Directory!StillSpec
<1> QED
  BY <1>4

=========================================================================
