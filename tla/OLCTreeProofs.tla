-------------------------- MODULE OLCTreeProofs --------------------------
(***************************************************************************)
(* Theorems about OLCTree: what threads that insert, change, read and      *)
(* range over the tree find there, for any number of threads, any keys and *)
(* any tree whose root is an index page.  (A root that is a leaf splits    *)
(* otherwise, and wrongly: the run tree_leaf_root shows what becomes of    *)
(* it.)  The pages stay a search tree with room; a thread that inserts     *)
(* knows the fence and the number of records of every page whose latch it  *)
(* has validated; and a range query never steps behind a fence it trusts.  *)
(***************************************************************************)
EXTENDS OLCTree, TreePagesProofs

(* The root is an index page: what the theorems ask of the first state.    *)
IndexRoot == ~IsLeaf(root)

Still == {"start", "root", "latchroot", "scan", "pin", "done"}
Pair  == {"checkchild", "lockparent", "split"}
Down  == {"visit", "child"} \cup Pair

-------------------------------------------------------------------------
(* The inductive invariant. *)

(* The pages are a tree, and none is too full or too thin. *)
Grows(fence, height) ==
  /\ IsTree(pages, root, fence, height)
  /\ ~IsLeaf(root)
  /\ \A p \in DOMAIN pages : Room(pages[p]) /\ (p # root => ~HasUnderflow(pages[p]))

(* A page is locked for one thread. *)
Exclusive ==
  \A t, u \in Threads : t # u /\ cur[t].page = cur[u].page =>
    ~ (cur[t].mode \in {"write", "pin"} /\ cur[u].mode \in {"write", "pin"})

InsertsStayBelow == \A t \in Threads : call[t].op = "Insert" => Key(t) < MaxKey

(* Which guards a thread has, and on what, at each point of its call. *)
Placed(t) ==
  /\ cur[t].mode = "none" <=> cur[t].page = NoPage
  /\ nxt[t].mode = "none" <=> nxt[t].page = NoPage
  /\ cur[t].mode = "none" => ~cur[t].fresh
  /\ pc[t] \in Still => cur[t].mode = "none"
  /\ IF pc[t] \in Pair THEN nxt[t].mode = "read" /\ nxt[t].page = target[t] /\ Writer(t)
                       ELSE nxt[t].mode = "none"
  /\ pc[t] \in {"scan", "pin", "collect"} => call[t].op = "Range"
  /\ pc[t] \in Down \cup {"latchroot", "checkroot"} => call[t].op # "Range"
  /\ pc[t] = "latchroot" => target[t] = root
  /\ pc[t] = "checkroot" => cur[t].mode = "read" /\ cur[t].page = root /\ Writer(t)
  /\ pc[t] \in Down => /\ cur[t].mode \in {"read", "write"}
                       /\ pc[t] # "visit" \/ cur[t].mode = "write" => ~IsLeaf(cur[t].page)
                       /\ pc[t] # "visit" => target[t] # NoPage
                       /\ call[t].op \in ReadOps => cur[t].mode = "read"
  /\ pc[t] \in {"lockparent", "split"} => call[t].op = "Insert"
  /\ pc[t] = "split" => cur[t].mode = "write"
  /\ pc[t] = "append" => call[t].op \in AppendOps /\ cur[t].mode = "read"
  /\ pc[t] \in {"search", "give"} => call[t].op \in ReadOps /\ cur[t].mode = "read"
  /\ pc[t] = "apply" =>
       \/ call[t].op = "Insert" /\ cur[t].mode = "write" /\ IsLeaf(cur[t].page)
       \/ call[t].op \in AppendOps /\ cur[t].mode = "pin"
  /\ pc[t] = "collect" => cur[t].mode = "pin"

(* The page of an insert whose guard is valid owns the key.                *)
Aimed(t, fence) ==
  call[t].op = "Insert" /\ IsValid(cur[t]) /\ pc[t] \in Down \cup {"checkroot", "apply"} =>
    /\ Within(Key(t), fence[cur[t].page])
    /\ pc[t] \in Down \ {"visit"} => target[t] = Child(cur[t].page, Key(t))

(* A page that t has just cut: it is not full, and no insert that could    *)
(* fill it has a valid guard on it or above it.                            *)
Quiet(t, c) ==
  /\ ~HasOverflow(pages[c])
  /\ \A u \in Threads \ {t} :
       call[u].op = "Insert" /\ c \in {cur[u].page, nxt[u].page} => ~IsValid(cur[u])

(* A read guard under which nobody has written since. *)
Clear(g) == g.fresh /\ Readable(g.page)

(* What an insert has found out about the length of its pages holds.       *)
Counted(t) ==
  call[t].op = "Insert" =>
    /\ pc[t] \in Down /\ cur[t].mode = "read" /\ IsValid(cur[t]) => ~HasOverflow(pages[cur[t].page])
    /\ pc[t] \in Down /\ cur[t].mode = "write" =>
         ~HasOverflow(pages[cur[t].page]) \/ Quiet(t, Child(cur[t].page, Key(t)))
    /\ pc[t] \in {"lockparent", "split"} /\ Clear(nxt[t]) => HasOverflow(pages[nxt[t].page])
    /\ pc[t] = "apply" => Cardinality(pages[cur[t].page].recs) < NumRecords

(* A range query has its keys in order, below where it goes on, and its    *)
(* path holds fences that the pages have not outgrown.                     *)
Ranged(t, fence) ==
  /\ \A i, j \in DOMAIN got[t] : i < j => got[t][i] < got[t][j]
  /\ pc[t] # "done" => IF call[t].op = "Range" THEN \A i \in DOMAIN got[t] : got[t][i] < low[t]
                                               ELSE got[t] = <<>>
  /\ pc[t] \in {"scan", "pin", "collect"} =>
       /\ path[t] # <<>> /\ path[t][1] = [lo |-> MinKey, hi |-> MaxKey, page |-> root]
       /\ \A i \in DOMAIN path[t] : fence[path[t][i].page].hi <= path[t][i].hi
  /\ pc[t] \in {"pin", "collect"} =>
       Within(low[t], path[t][Len(path[t])]) /\ IsLeaf(path[t][Len(path[t])].page)
  /\ pc[t] = "collect" => cur[t].page = path[t][Len(path[t])].page

Right(t, fence) == Placed(t) /\ Aimed(t, fence) /\ Counted(t) /\ Ranged(t, fence)

Holds(fence, height) ==
  /\ TypeOK
  /\ Grows(fence, height)
  /\ Exclusive
  /\ InsertsStayBelow
  /\ \A t \in Threads : Right(t, fence)

TreeInv == \E fence, height : Holds(fence, height)

-------------------------------------------------------------------------
(* What the invariant says of the descents, and the properties it yields.  *)

(* A descent for a key comes to the leaf whose fence has it. *)
LEMMA LeafOfKey ==
  ASSUME NEW fence, NEW height, IsTree(pages, root, fence, height), NEW k \in Keys
  PROVE  /\ LeafOf(k) \in DOMAIN pages /\ IsLeaf(LeafOf(k)) /\ Within(k, fence[LeafOf(k)])
         /\ \A q \in DOMAIN pages : IsLeaf(q) /\ Within(k, fence[q]) => q = LeafOf(k)
<1>1. PICK ps : ps = pages
  OBVIOUS
<1>2. PICK r : r = root
  OBVIOUS
<1>3. IsTree(ps, r, fence, height)
  BY <1>1, <1>2
<1> DEFINE below == CHOOSE f : GoesDown(f, ps, k)
<1>4. GoesDown(below, ps, k)
  BY <1>3, DescentExists
<1>5. LeafOf(k) = below[r]
  BY <1>1, <1>2 DEF LeafOf, GoesDown, IsLeaf, Child
<1> HIDE DEF below
<1>6. /\ below[r] \in DOMAIN ps /\ IsLeafPage(ps[below[r]]) /\ Within(k, fence[below[r]])
      /\ \A q \in DOMAIN ps : IsLeafPage(ps[q]) /\ Within(k, fence[q]) => q = below[r]
  BY <1>3, <1>4, DescentEnds
<1> QED
  BY <1>1, <1>5, <1>6 DEF IsLeaf

(* Records are below the fences of their leaves. *)
LEMMA RecordsAtHome ==
  ASSUME NEW fence, NEW height, IsTree(pages, root, fence, height)
  PROVE  RecordsAreHome
<1>1. ASSUME NEW p \in DOMAIN pages, NEW k \in pages[p].recs
      PROVE  LeafOf(k) = p
  <2>1. IsPage(pages[p], Len(pages)) /\ KeysFit(pages[p], fence[p])
    BY PageOf DEF Fitting
  <2>2. IsLeaf(p) /\ k \in Keys /\ Within(k, fence[p])
    BY <2>1 DEF IsPage, AnyPage, KeysFit, IsLeaf
  <2> QED
    BY <2>2, LeafOfKey
<1>2. ASSUME NEW p \in DOMAIN pages
      PROVE  \A i, j \in DOMAIN pages[p].seps : i < j => pages[p].seps[i] < pages[p].seps[j]
  BY PageOf DEF Fitting, KeysFit
<1> QED
  BY <1>1, <1>2 DEF RecordsAreHome

(* There is room for every insert. *)
LEMMA RoomForInserts ==
  ASSUME NEW fence, NEW height, Holds(fence, height)
  PROVE  InsertsFindRoom
<1>1. ASSUME NEW p \in DOMAIN pages
      PROVE  /\ Cardinality(pages[p].recs) <= NumRecords
             /\ Len(pages[p].kids) <= FanOut /\ Len(pages[p].seps) <= FanOut - 1
             /\ p # root => ~HasUnderflow(pages[p])
  <2>1. PICK page, n : page = pages[p] /\ n = Len(pages)
    OBVIOUS
  <2>2. IsPage(page, n) /\ Room(page) /\ (p # root => ~HasUnderflow(page))
    BY <2>1, PageOf DEF Holds, Grows
  <2>3. FanOut \in Nat /\ FanOut >= 5 /\ NumRecords \in Nat
    BY FanOutAssumption, NumRecordsAssumption
  <2>4. CASE IsLeafPage(page)
    <3>1. page.seps = <<>> /\ page.kids = <<>> /\ Cardinality(page.recs) <= NumRecords
      BY <2>2, <2>4 DEF IsPage, IsLeafPage, Room
    <3>2. Len(page.seps) = 0 /\ Len(page.kids) = 0
      BY <3>1
    <3> QED
      BY <2>1, <2>2, <2>3, <3>1, <3>2
  <2>5. CASE ~IsLeafPage(page)
    <3>1. /\ page.recs = {} /\ Len(page.seps) <= FanOut - 1
          /\ Len(page.seps) \in Nat /\ Len(page.kids) = Len(page.seps) + 1
      BY <2>2, <2>5, KidsOf DEF Room
    <3>2. Cardinality(page.recs) = 0
      BY <3>1, FS_EmptySet
    <3>3. Len(page.kids) <= FanOut /\ 0 <= NumRecords
      BY <3>1, <2>3
    <3> QED
      BY <2>1, <2>2, <3>1, <3>2, <3>3
  <2> QED
    BY <2>4, <2>5
<1>2. ASSUME NEW t \in Threads, pc[t] = "apply", call[t].op = "Insert"
      PROVE  Cardinality(pages[cur[t].page].recs) < NumRecords
  BY <1>2 DEF Holds, Right, Counted
<1> QED
  BY <1>1, <1>2 DEF InsertsFindRoom

(* Inserts are on the leaf of their key, and alone there. *)
LEMMA LeafOfInserts ==
  ASSUME NEW fence, NEW height, Holds(fence, height)
  PROVE  InsertsOwnTheirLeaf
<1> SUFFICES ASSUME NEW t \in Threads, pc[t] \in {"apply", "collect"}
             PROVE  /\ \A u \in Threads \ {t} : cur[u].page = cur[t].page => cur[u].mode = "read"
                    /\ call[t].op = "Insert" => LeafOf(Key(t)) = cur[t].page
  BY DEF InsertsOwnTheirLeaf
<1>1. cur \in [Threads -> Guards] /\ call \in [Threads -> Calls] /\ Exclusive
  BY DEF Holds, TypeOK
<1>2. \A u \in Threads : Placed(u) /\ Aimed(u, fence)
  BY DEF Holds, Right
<1>3. cur[t].mode \in {"write", "pin"}
  BY <1>2 DEF Placed
<1>4. ASSUME NEW u \in Threads \ {t}, cur[u].page = cur[t].page PROVE cur[u].mode = "read"
  <2>1. cur[u].mode \in {"none", "read", "write", "pin"}
    BY <1>1 DEF Guards
  <2>2. cur[u].mode \notin {"write", "pin"}
    BY <1>1, <1>3, <1>4 DEF Exclusive
  <2>3. cur[u].mode # "none"
    BY <1>2, <1>3, <1>4 DEF Placed
  <2> QED
    BY <2>1, <2>2, <2>3
<1>5. ASSUME call[t].op = "Insert" PROVE LeafOf(Key(t)) = cur[t].page
  <2>1. pc[t] = "apply" /\ cur[t].mode = "write" /\ IsLeaf(cur[t].page)
    BY <1>2, <1>5 DEF Placed, AppendOps
  <2>2. Within(Key(t), fence[cur[t].page])
    BY <1>2, <1>5, <2>1 DEF Aimed, IsValid
  <2>3. Key(t) \in Keys
    BY <1>1 DEF Calls, Key
  <2>4. cur[t].page \in DOMAIN pages
    <3>1. cur[t].page \in DOMAIN pages \cup {NoPage} /\ cur[t].page # NoPage
      BY <1>1, <1>2, <2>1 DEF Guards, Placed
    <3> QED
      BY <3>1
  <2>5. IsTree(pages, root, fence, height)
    BY DEF Holds, Grows
  <2> QED
    BY <2>1, <2>2, <2>3, <2>4, <2>5, LeafOfKey
<1> QED
  BY <1>4, <1>5

(* The answers of range queries ascend. *)
LEMMA AnswersAscend ==
  ASSUME NEW fence, NEW height, Holds(fence, height)
  PROVE  RangesAscend
BY DEF Holds, Right, Ranged, RangesAscend

-------------------------------------------------------------------------
(* The first state. *)

(* What the pages of a tree are like, as the type invariant says it. *)
LEMMA PagesTyped ==
  ASSUME NEW fence, NEW height, IsTree(pages, root, fence, height)
  PROVE  /\ root \in DOMAIN pages
         /\ \A p \in DOMAIN pages :
              /\ pages[p] \in Pages
              /\ ~IsLeaf(p) => Len(pages[p].kids) = Len(pages[p].seps) + 1
<1>1. root \in DOMAIN pages /\ DOMAIN pages = 1..Len(pages)
  BY TreeOf
<1>2. ASSUME NEW p \in DOMAIN pages
      PROVE  /\ pages[p] \in Pages
             /\ ~IsLeaf(p) => Len(pages[p].kids) = Len(pages[p].seps) + 1
  <2>1. IsPage(pages[p], Len(pages))
    BY PageOf
  <2> QED
    BY <2>1, <1>1 DEF IsPage, AnyPage, Pages, IsLeaf
<1> QED
  BY <1>1, <1>2

(* A call begins without guards, and with nothing to its answer. *)
LEMMA Starting ==
  ASSUME Init, IndexRoot
  PROVE  TreeInv
<1>1. PICK s \in Starts :
        /\ root = s.root /\ pages = s.pages /\ dead = s.dead
        /\ call \in s.calls /\ flavour = s.flavour
  BY DEF Init
<1>2. /\ s.flavour \in {OLC, LHL} /\ s.dead \subseteq Keys
      /\ IsTree(s.pages, s.root, FencesOf(s.pages, s.root), HeightsOf(s.pages))
      /\ \A p \in DOMAIN s.pages : Room(s.pages[p]) /\ (p # s.root => ~HasUnderflow(s.pages[p]))
      /\ \A calls \in s.calls :
           /\ calls \in [Threads -> Calls]
           /\ \A t \in Threads : calls[t].op = "Insert" => calls[t].key < MaxKey
      /\ ~IsLeafPage(s.pages[s.root])
  BY <1>1, StartsAssumption DEF IndexRoot, IsLeaf
<1>3. PICK fence, height : fence = FencesOf(s.pages, s.root) /\ height = HeightsOf(s.pages)
  OBVIOUS
<1>4. Grows(fence, height)
  BY <1>1, <1>2, <1>3 DEF Grows, IsLeaf
<1>5. /\ retired = {} /\ pc = [t \in Threads |-> "start"]
      /\ target = [t \in Threads |-> NoPage]
      /\ cur = [t \in Threads |-> NoGuard] /\ nxt = [t \in Threads |-> NoGuard]
      /\ path = [t \in Threads |-> <<>>] /\ low = [t \in Threads |-> call[t].key]
      /\ got = [t \in Threads |-> <<>>] /\ reply = [t \in Threads |-> "none"]
      /\ owed = [t \in Threads |-> {}]
  BY DEF Init
<1>6. call \in [Threads -> Calls]
  BY <1>1, <1>2
<1>7. TypeOK
  <2>1. /\ root \in DOMAIN pages
        /\ \A p \in DOMAIN pages :
             /\ pages[p] \in Pages
             /\ ~IsLeaf(p) => Len(pages[p].kids) = Len(pages[p].seps) + 1
    BY <1>4, PagesTyped DEF Grows
  <2>2. NoGuard \in Guards /\ NoPage \in DOMAIN pages \cup {NoPage}
    BY DEF NoGuard, Guards
  <2>3. cur \in [Threads -> Guards] /\ nxt \in [Threads -> Guards]
    BY <2>2, <1>5
  <2>4. path \in [Threads -> Seq([lo : Keys, hi : Keys, page : DOMAIN pages])]
        /\ got \in [Threads -> Seq(Keys)]
    <3>1. <<>> \in Seq([lo : Keys, hi : Keys, page : DOMAIN pages]) /\ <<>> \in Seq(Keys)
      OBVIOUS
    <3> QED
      BY <3>1, <1>5, Zenon
  <2>5. low \in [Threads -> Keys]
    BY <1>5, <1>6 DEF Calls
  <2>6. /\ flavour \in {OLC, LHL} /\ dead \subseteq Keys /\ retired \subseteq DOMAIN pages
        /\ pc \in [Threads -> PCs] /\ target \in [Threads -> DOMAIN pages \cup {NoPage}]
        /\ reply \in [Threads -> {"none", "stored", "found", "missing", "matched", "other", "nothing", "error"}]
        /\ owed \in [Threads -> SUBSET Keys]
    BY <1>1, <1>2, <1>5 DEF PCs
  <2> QED
    BY <2>1, <2>3, <2>4, <2>5, <2>6, <1>6 DEF TypeOK
<1>8. Exclusive /\ InsertsStayBelow
  <2>1. Exclusive
    BY <1>5 DEF Exclusive, NoGuard
  <2>2. InsertsStayBelow
    BY <1>1, <1>2 DEF InsertsStayBelow, Key
  <2> QED
    BY <2>1, <2>2
<1>9. ASSUME NEW t \in Threads PROVE Right(t, fence)
  <2>1. /\ pc[t] = "start" /\ cur[t] = NoGuard /\ nxt[t] = NoGuard /\ got[t] = <<>>
    BY <1>5
  <2>2. Placed(t)
    BY <2>1 DEF Placed, NoGuard, NoPage, Still, Pair, Down
  <2>3. Aimed(t, fence) /\ Counted(t)
    BY <2>1 DEF Aimed, Counted, Down, Pair
  <2>4. Ranged(t, fence)
    BY <2>1 DEF Ranged
  <2> QED
    BY <2>2, <2>3, <2>4 DEF Right
<1> QED
  BY <1>4, <1>7, <1>8, <1>9 DEF Holds, TreeInv

-------------------------------------------------------------------------
(* What a step of t does to the others: their guards stay where they are,  *)
(* at most stale, and what they know of valid guards stays true.           *)

OthersKept(t) ==
  /\ call' = call /\ root' = root /\ retired \subseteq retired'
  /\ \A u \in Threads \ {t} :
       /\ pc'[u] = pc[u] /\ target'[u] = target[u]
       /\ path'[u] = path[u] /\ low'[u] = low[u] /\ got'[u] = got[u]
       /\ cur'[u].page = cur[u].page /\ cur'[u].mode = cur[u].mode
       /\ nxt'[u].page = nxt[u].page /\ nxt'[u].mode = nxt[u].mode
       /\ cur'[u].fresh => cur[u].fresh
       /\ IsValid(cur[u])' => IsValid(cur[u])
       /\ Clear(nxt[u])' => Clear(nxt[u])

(* Pages that t may change. *)
InReach(t, p) ==
  p = root \/ (call[t].op = "Insert" /\ IsValid(cur[t]) /\ p \in {cur[t].page, nxt[t].page})

(* Nobody else's guard on a page is valid after the step. *)
Hidden(t, p) ==
  \A u \in Threads \ {t} : /\ cur[u].page = p => ~IsValid(cur[u])'
                           /\ nxt[u].page = p => ~Clear(nxt[u])'

PagesKept(t, f, g) ==
  /\ DOMAIN pages \subseteq DOMAIN pages'
  /\ \A p \in DOMAIN pages :
       /\ IsLeafPage(pages'[p]) <=> IsLeafPage(pages[p])
       /\ g[p].hi \in Nat /\ g[p].hi <= f[p].hi
       /\ (pages'[p] = pages[p] /\ g[p] = f[p]) \/ (InReach(t, p) /\ Hidden(t, p))

(* An insert comes to a page with a valid guard above it, or at the root.  *)
Approaches(t) ==
  call[t].op = "Insert" /\ IsValid(cur[t])' =>
    \A x \in {cur'[t].page, nxt'[t].page} \ {NoPage} :
      \/ x = root
      \/ IsValid(cur[t]) /\ (x \in {cur[t].page, nxt[t].page} \/ (pc[t] = "child" /\ x = target[t]))

Kept(t, f, g) == OthersKept(t) /\ PagesKept(t, f, g) /\ Approaches(t)

(* Guards are on pages. *)
LEMMA GuardedPages ==
  ASSUME NEW fence, NEW height, Holds(fence, height), NEW u \in Threads
  PROVE  /\ cur[u].mode # "none" => cur[u].page \in DOMAIN pages
         /\ nxt[u].mode # "none" => nxt[u].page \in DOMAIN pages
         /\ cur[u].page \in DOMAIN pages \cup {NoPage} /\ nxt[u].page \in DOMAIN pages \cup {NoPage}
         /\ cur[u].mode \in {"none", "read", "write", "pin"} /\ nxt[u].mode \in {"none", "read"}
         /\ NoPage \notin DOMAIN pages
<1>1. cur[u] \in Guards /\ nxt[u] \in Guards
  BY DEF Holds, TypeOK
<1>2. Placed(u)
  BY DEF Holds, Right
<1>3. DOMAIN pages = 1..Len(pages)
  BY TreeOf DEF Holds, Grows
<1>4. nxt[u].mode \in {"none", "read"}
  BY <1>2 DEF Placed
<1> QED
  BY <1>1, <1>2, <1>3, <1>4 DEF Guards, Placed, NoPage

(* The child that an insert under a valid guard goes on with. *)
LEMMA ChildOfInsert ==
  ASSUME NEW fence, NEW height, Holds(fence, height), NEW u \in Threads,
         cur[u].page \in DOMAIN pages, ~IsLeaf(cur[u].page),
         NEW c, c = Child(cur[u].page, Key(u))
  PROVE  /\ c \in DOMAIN pages /\ c # root /\ c # cur[u].page
         /\ Within(Key(u), fence[cur[u].page]) => Within(Key(u), fence[c])
         /\ \A q \in DOMAIN pages, k \in Keys : ~IsLeaf(q) /\ c = Child(q, k) => q = cur[u].page
<1>1. PICK ps, r, p, k : ps = pages /\ r = root /\ p = cur[u].page /\ k = Key(u)
  OBVIOUS
<1>2. IsTree(ps, r, fence, height) /\ p \in DOMAIN ps /\ ~IsLeafPage(ps[p])
  BY <1>1 DEF Holds, Grows, IsLeaf
<1>3. k \in Keys
  BY <1>1 DEF Holds, TypeOK, Calls, Key
<1>4. PICK i : i = ChildPos(ps[p], k)
  OBVIOUS
<1>5. i \in DOMAIN ps[p].kids
  BY <1>2, <1>3, <1>4, SearchFinds
<1>6. c = ps[p].kids[i]
  BY <1>1, <1>4 DEF Child
<1>7. /\ c \in DOMAIN ps /\ c # p /\ c # r
      /\ Within(k, fence[c]) <=> Within(k, fence[p]) /\ i = ChildPos(ps[p], k)
      /\ \A q \in DOMAIN ps : \A j \in DOMAIN ps[q].kids : ps[q].kids[j] = c => q = p /\ j = i
  BY <1>2, <1>3, <1>5, <1>6, ChildrenOf
<1>8. ASSUME NEW q \in DOMAIN ps, NEW x \in Keys, ~IsLeafPage(ps[q]),
             c = ps[q].kids[ChildPos(ps[q], x)]
      PROVE  q = p
  <2>1. ChildPos(ps[q], x) \in DOMAIN ps[q].kids
    BY <1>2, <1>8, SearchFinds
  <2> QED
    BY <2>1, <1>7, <1>8
<1> QED
  BY <1>1, <1>4, <1>7, <1>8 DEF IsLeaf, Child

(* The others are placed as they were. *)
LEMMA OthersPlaced ==
  ASSUME NEW f, NEW h, NEW g, Holds(f, h), NEW t \in Threads, Kept(t, f, g), NEW u \in Threads \ {t}
  PROVE  Placed(u)'
<1>1. Placed(u)
  BY DEF Holds, Right
<1>2. /\ call' = call /\ root' = root /\ pc'[u] = pc[u] /\ target'[u] = target[u]
      /\ cur'[u].page = cur[u].page /\ cur'[u].mode = cur[u].mode
      /\ nxt'[u].page = nxt[u].page /\ nxt'[u].mode = nxt[u].mode
      /\ cur'[u].fresh => cur[u].fresh
  BY DEF Kept, OthersKept
<1>3. cur[u].mode # "none" => (IsLeafPage(pages'[cur[u].page]) <=> IsLeafPage(pages[cur[u].page]))
  BY GuardedPages DEF Kept, PagesKept
<1> QED
  BY <1>1, <1>2, <1>3 DEF Placed, Writer, IsLeaf, Down, Pair, Still

(* What a valid guard of another thread is on has not changed. *)
LEMMA OthersSeeTheSame ==
  ASSUME NEW f, NEW h, NEW g, Holds(f, h), NEW t \in Threads, Kept(t, f, g), NEW u \in Threads \ {t}
  PROVE  /\ IsValid(cur[u])' /\ cur[u].page # NoPage =>
              pages'[cur[u].page] = pages[cur[u].page] /\ g[cur[u].page] = f[cur[u].page]
         /\ Clear(nxt[u])' /\ nxt[u].page # NoPage => pages'[nxt[u].page] = pages[nxt[u].page]
<1>1. ASSUME NEW p \in DOMAIN pages
      PROVE  (pages'[p] = pages[p] /\ g[p] = f[p]) \/ Hidden(t, p)
  BY DEF Kept, PagesKept
<1>2. ASSUME IsValid(cur[u])', cur[u].page # NoPage
      PROVE  pages'[cur[u].page] = pages[cur[u].page] /\ g[cur[u].page] = f[cur[u].page]
  <2>1. cur[u].page \in DOMAIN pages
    BY <1>2, GuardedPages
  <2>2. ~Hidden(t, cur[u].page)
    BY <1>2, Zenon DEF Hidden
  <2> QED
    BY <2>1, <2>2, <1>1
<1>3. ASSUME Clear(nxt[u])', nxt[u].page # NoPage
      PROVE  pages'[nxt[u].page] = pages[nxt[u].page]
  <2>1. nxt[u].page \in DOMAIN pages
    BY <1>3, GuardedPages
  <2>2. ~Hidden(t, nxt[u].page)
    BY <1>3, Zenon DEF Hidden
  <2> QED
    BY <2>1, <2>2, <1>1
<1> QED
  BY <1>2, <1>3, Zenon

(* The others aim as they did. *)
LEMMA OthersAimed ==
  ASSUME NEW f, NEW h, NEW g, Holds(f, h), NEW t \in Threads, Kept(t, f, g), NEW u \in Threads \ {t}
  PROVE  Aimed(u, g)'
<1>1. Placed(u) /\ Aimed(u, f)
  BY DEF Holds, Right
<1>2. /\ call' = call /\ pc'[u] = pc[u] /\ target'[u] = target[u] /\ cur'[u].page = cur[u].page
      /\ IsValid(cur[u])' => IsValid(cur[u])
  BY DEF Kept, OthersKept
<1>3. SUFFICES ASSUME call[u].op = "Insert", IsValid(cur[u])', pc[u] \in Down \cup {"checkroot", "apply"}
               PROVE  /\ Within(Key(u), g[cur[u].page])
                      /\ pc[u] \in Down \ {"visit"} => target[u] = Child(cur[u].page, Key(u))'
  BY <1>2 DEF Aimed, Key
<1>4. cur[u].page # NoPage
  BY <1>1, <1>3 DEF Placed, Down, Pair
<1>5. pages'[cur[u].page] = pages[cur[u].page] /\ g[cur[u].page] = f[cur[u].page]
  BY <1>3, <1>4, OthersSeeTheSame
<1>6. /\ Within(Key(u), f[cur[u].page])
      /\ pc[u] \in Down \ {"visit"} => target[u] = Child(cur[u].page, Key(u))
  BY <1>1, <1>2, <1>3 DEF Aimed
<1> QED
  BY <1>2, <1>5, <1>6 DEF Child, Key

(* Nobody comes to a page that was cut under a locked parent. *)
LEMMA OthersQuiet ==
  ASSUME NEW f, NEW h, NEW g, Holds(f, h), NEW t \in Threads, Kept(t, f, g), NEW u \in Threads \ {t},
         cur[u].mode = "write", ~IsLeaf(cur[u].page),
         NEW c, c = Child(cur[u].page, Key(u)), Quiet(u, c)
  PROVE  Quiet(u, c)'
<1>1. /\ cur[u].page \in DOMAIN pages /\ NoPage \notin DOMAIN pages
  BY GuardedPages
<1>2. /\ c \in DOMAIN pages /\ c # root
      /\ \A q \in DOMAIN pages, k \in Keys : ~IsLeaf(q) /\ c = Child(q, k) => q = cur[u].page
  BY <1>1, ChildOfInsert
<1>3. call' = call
  BY DEF Kept, OthersKept
<1>4. ~HasOverflow(pages[c])
  BY DEF Quiet
<1>5. \A w \in Threads \ {u} :
        call[w].op = "Insert" /\ c \in {cur[w].page, nxt[w].page} => ~IsValid(cur[w])
  BY DEF Quiet
<1>6. ~InReach(t, c)
  BY <1>2, <1>5 DEF InReach
<1>7. pages'[c] = pages[c]
  BY <1>2, <1>6 DEF Kept, PagesKept
<1>8. ~HasOverflow(pages'[c])
  BY <1>4, <1>7
<1>9. ASSUME NEW w \in Threads \ {u}, call'[w].op = "Insert", c \in {cur'[w].page, nxt'[w].page}
      PROVE  ~IsValid(cur[w])'
  <2>1. CASE w # t
    <3>1. /\ cur'[w].page = cur[w].page /\ nxt'[w].page = nxt[w].page
          /\ IsValid(cur[w])' => IsValid(cur[w])
      BY <2>1 DEF Kept, OthersKept
    <3>2. ~IsValid(cur[w])
      BY <3>1, <1>3, <1>5, <1>9
    <3> QED
      BY <3>1, <3>2, Zenon
  <2>2. CASE w = t
    <3>1. SUFFICES ASSUME IsValid(cur[t])' PROVE FALSE
      BY <2>2
    <3>2. c \in {cur'[t].page, nxt'[t].page} \ {NoPage} /\ call[t].op = "Insert"
      BY <2>2, <1>1, <1>2, <1>3, <1>9
    <3>3. \/ c = root
          \/ IsValid(cur[t]) /\ (c \in {cur[t].page, nxt[t].page} \/ (pc[t] = "child" /\ c = target[t]))
      BY <3>1, <3>2 DEF Kept, Approaches
    <3>4. IsValid(cur[t]) /\ pc[t] = "child" /\ c = target[t]
      BY <3>2, <3>3, <2>2, <1>2, <1>5
    <3>5. Placed(t) /\ Aimed(t, f)
      BY DEF Holds, Right
    <3>6. ~IsLeaf(cur[t].page) /\ cur[t].mode \in {"read", "write"} /\ c = Child(cur[t].page, Key(t))
      BY <3>2, <3>4, <3>5 DEF Placed, Aimed, Down, Pair
    <3>7. cur[t].page \in DOMAIN pages /\ Key(t) \in Keys
      BY <3>6, GuardedPages DEF Holds, TypeOK, Calls, Key
    <3>8. cur[t].page = cur[u].page
      BY <3>6, <3>7, <1>2
    <3>9. cur[t].mode # "write"
      BY <3>8 DEF Holds, Exclusive
    <3>10. Readable(cur[t].page)
      BY <3>4, <3>6, <3>9 DEF IsValid
    <3> QED
      BY <3>8, <3>10 DEF Readable, HeldFor
  <2> QED
    BY <2>1, <2>2
<1> QED
  BY <1>8, <1>9 DEF Quiet

(* What the others have counted is so. *)
LEMMA OthersCounted ==
  ASSUME NEW f, NEW h, NEW g, Holds(f, h), NEW t \in Threads, Kept(t, f, g), NEW u \in Threads \ {t}
  PROVE  Counted(u)'
<1>1. Placed(u) /\ Counted(u)
  BY DEF Holds, Right
<1>2. /\ call' = call /\ pc'[u] = pc[u]
      /\ cur'[u].page = cur[u].page /\ cur'[u].mode = cur[u].mode /\ nxt'[u].page = nxt[u].page
      /\ IsValid(cur[u])' => IsValid(cur[u])
      /\ Clear(nxt[u])' => Clear(nxt[u])
  BY DEF Kept, OthersKept
<1>3. /\ IsValid(cur[u])' /\ cur[u].page # NoPage =>
           pages'[cur[u].page] = pages[cur[u].page] /\ g[cur[u].page] = f[cur[u].page]
      /\ Clear(nxt[u])' /\ nxt[u].page # NoPage => pages'[nxt[u].page] = pages[nxt[u].page]
  BY OthersSeeTheSame
<1>4. SUFFICES ASSUME call[u].op = "Insert" PROVE Counted(u)'
  BY <1>2 DEF Counted
<1>5. ASSUME pc[u] \in Down, cur[u].mode = "read", IsValid(cur[u])'
      PROVE  ~HasOverflow(pages'[cur[u].page])
  <2>1. cur[u].page # NoPage
    BY <1>1, <1>5 DEF Placed
  <2>2. pages'[cur[u].page] = pages[cur[u].page]
    BY <2>1, <1>5, <1>3, Zenon
  <2>3. ~HasOverflow(pages[cur[u].page])
    BY <1>1, <1>2, <1>4, <1>5 DEF Counted
  <2> QED
    BY <2>2, <2>3
<1>6. ASSUME cur[u].mode = "write"
      PROVE  /\ cur[u].page \in DOMAIN pages /\ pages'[cur[u].page] = pages[cur[u].page]
  <2>1. cur[u].page \in DOMAIN pages /\ cur[u].page # NoPage
    BY <1>6, GuardedPages
  <2>2. IsValid(cur[u])'
    BY <1>2, <1>6 DEF IsValid
  <2> QED
    BY <2>1, <2>2, <1>3, Zenon
<1>7. ASSUME pc[u] \in Down, cur[u].mode = "write"
      PROVE  ~HasOverflow(pages'[cur[u].page]) \/ Quiet(u, Child(cur[u].page, Key(u)))'
  <2>1. CASE ~HasOverflow(pages[cur[u].page])
    BY <2>1, <1>6, <1>7
  <2>2. CASE Quiet(u, Child(cur[u].page, Key(u)))
    <3>1. PICK c : c = Child(cur[u].page, Key(u))
      OBVIOUS
    <3>2. ~IsLeaf(cur[u].page)
      BY <1>1, <1>7 DEF Placed
    <3>3. Quiet(u, c)
      BY <2>2, <3>1
    <3>4. Quiet(u, c)'
      BY <3>1, <3>2, <3>3, <1>7, OthersQuiet
    <3>5. c = Child(cur[u].page, Key(u))'
      BY <3>1, <1>2, <1>6, <1>7 DEF Child, Key
    <3> QED
      BY <3>4, <3>5 DEF Quiet
  <2> QED
    BY <2>1, <2>2, <1>1, <1>4, <1>7 DEF Counted
<1>8. ASSUME pc[u] \in {"lockparent", "split"}, Clear(nxt[u])'
      PROVE  HasOverflow(pages'[nxt[u].page])
  <2>1. nxt[u].page # NoPage
    BY <1>1, <1>8 DEF Placed, Pair
  <2>2. pages'[nxt[u].page] = pages[nxt[u].page]
    BY <2>1, <1>8, <1>3, Zenon
  <2>3. HasOverflow(pages[nxt[u].page])
    BY <1>1, <1>2, <1>4, <1>8 DEF Counted
  <2> QED
    BY <2>2, <2>3
<1>9. ASSUME pc[u] = "apply" PROVE Cardinality(pages'[cur[u].page].recs) < NumRecords
  <2>1. cur[u].mode = "write"
    BY <1>1, <1>4, <1>9 DEF Placed, AppendOps
  <2> QED
    BY <2>1, <1>1, <1>4, <1>6, <1>9 DEF Counted
<1>10. /\ pc'[u] \in Down /\ cur'[u].mode = "read" /\ IsValid(cur[u])' => ~HasOverflow(pages'[cur'[u].page])
       /\ pc'[u] \in Down /\ cur'[u].mode = "write" =>
            ~HasOverflow(pages'[cur'[u].page]) \/ Quiet(u, Child(cur[u].page, Key(u)))'
       /\ pc'[u] \in {"lockparent", "split"} /\ Clear(nxt[u])' => HasOverflow(pages'[nxt'[u].page])
       /\ pc'[u] = "apply" => Cardinality(pages'[cur'[u].page].recs) < NumRecords
  BY <1>2, <1>5, <1>7, <1>8, <1>9, Zenon
<1> QED
  BY <1>10, Zenon DEF Counted

(* The paths of the others are as good as they were. *)
LEMMA OthersRanged ==
  ASSUME NEW f, NEW h, NEW g, Holds(f, h), NEW t \in Threads, Kept(t, f, g), NEW u \in Threads \ {t}
  PROVE  Ranged(u, g)'
<1>1. Ranged(u, f)
  BY DEF Holds, Right
<1>2. /\ call' = call /\ root' = root /\ pc'[u] = pc[u] /\ path'[u] = path[u] /\ low'[u] = low[u]
      /\ got'[u] = got[u] /\ cur'[u].page = cur[u].page
  BY DEF Kept, OthersKept
<1>3. path[u] \in Seq([lo : Keys, hi : Keys, page : DOMAIN pages]) /\ Keys \subseteq Nat
  BY Numbers DEF Holds, TypeOK
<1>4. ASSUME NEW i \in DOMAIN path[u]
      PROVE  path[u][i].page \in DOMAIN pages /\ path[u][i].hi \in Nat
  <2>1. PICK R : R = [lo : Keys, hi : Keys, page : DOMAIN pages]
    OBVIOUS
  <2>2. path[u][i] \in R
    <3>1. PICK s : s = path[u]
      OBVIOUS
    <3>2. s \in Seq(R) /\ i \in 1..Len(s)
      BY <3>1, <2>1, <1>3
    <3>3. s[i] \in R
      BY <3>2, ElementOfSeq
    <3> QED
      BY <3>1, <3>3
  <2> QED
    BY <2>1, <2>2, <1>3
<1>5. ASSUME NEW i \in DOMAIN path[u], f[path[u][i].page].hi <= path[u][i].hi
      PROVE  g[path[u][i].page].hi <= path[u][i].hi
  <2>1. PICK p : p = path[u][i].page
    OBVIOUS
  <2>2. p \in DOMAIN pages
    BY <2>1, <1>4
  <2>3. g[p].hi \in Nat /\ g[p].hi <= f[p].hi
    BY <2>2 DEF Kept, PagesKept
  <2>4. f[p].hi \in Nat
    BY <2>2, PageOf, Numbers DEF Holds, Grows
  <2> QED
    BY <2>1, <2>3, <2>4, <1>4, <1>5
<1>6. ASSUME path[u] # <<>>
      PROVE  IsLeafPage(pages'[path[u][Len(path[u])].page]) <=> IsLeafPage(pages[path[u][Len(path[u])].page])
  <2>1. Len(path[u]) \in DOMAIN path[u]
    BY <1>3, <1>6
  <2>2. path[u][Len(path[u])].page \in DOMAIN pages
    BY <2>1, <1>4
  <2> QED
    BY <2>2 DEF Kept, PagesKept
<1>7. /\ \A i, j \in DOMAIN got[u] : i < j => got[u][i] < got[u][j]
      /\ pc[u] # "done" => IF call[u].op = "Range" THEN \A i \in DOMAIN got[u] : got[u][i] < low[u]
                                                   ELSE got[u] = <<>>
      /\ pc[u] \in {"scan", "pin", "collect"} =>
           /\ path[u] # <<>> /\ path[u][1] = [lo |-> MinKey, hi |-> MaxKey, page |-> root]
           /\ \A i \in DOMAIN path[u] : g[path[u][i].page].hi <= path[u][i].hi
      /\ pc[u] \in {"pin", "collect"} =>
           Within(low[u], path[u][Len(path[u])]) /\ IsLeafPage(pages'[path[u][Len(path[u])].page])
      /\ pc[u] = "collect" => cur[u].page = path[u][Len(path[u])].page
  BY <1>1, <1>5, <1>6 DEF Ranged, IsLeaf
<1> QED
  BY <1>2, <1>7 DEF Ranged, IsLeaf

(* All in all: a step that keeps to its own pages leaves the others right, *)
(* and the invariant holds after it if it holds for the thread itself.     *)
LEMMA OthersRight ==
  ASSUME NEW f, NEW h, NEW g, NEW k, Holds(f, h), NEW t \in Threads, Kept(t, f, g),
         TypeOK', Grows(g, k)', Exclusive', InsertsStayBelow', Right(t, g)'
  PROVE  TreeInv'
<1>1. \A u \in Threads : Right(u, g)'
  <2> SUFFICES ASSUME NEW u \in Threads PROVE Right(u, g)'
    BY Zenon
  <2>1. CASE u = t
    BY <2>1
  <2>2. CASE u # t
    <3>1. u \in Threads \ {t}
      BY <2>2
    <3>2. Placed(u)'
      BY <3>1, OthersPlaced, Zenon
    <3>3. Aimed(u, g)'
      BY <3>1, OthersAimed, Zenon
    <3>4. Counted(u)'
      BY <3>1, OthersCounted, Zenon
    <3>5. Ranged(u, g)'
      BY <3>1, OthersRanged, Zenon
    <3> QED
      BY <3>2, <3>3, <3>4, <3>5, Zenon DEF Right
  <2> QED
    BY <2>1, <2>2
<1>2. Holds(g, k)'
  BY <1>1, Zenon DEF Holds
<1> QED
  BY <1>2, Zenon DEF TreeInv

-------------------------------------------------------------------------
(* Steps that change no page.                                              *)

OnlySelf(t) ==
  \A u \in Threads \ {t} :
    /\ pc'[u] = pc[u] /\ target'[u] = target[u]
    /\ path'[u] = path[u] /\ low'[u] = low[u] /\ got'[u] = got[u]

(* What t locked is unlocked or still locked, and what it locks is free.   *)
MayHold(t, c, q) ==
  /\ cur[t].mode = "write" => q = cur[t].page \/ (c.mode = "write" /\ c.page = cur[t].page)
  /\ c.mode \in {"write", "pin"} =>
       \A u \in Threads \ {t} : cur[u].page = c.page => cur[u].mode \notin {"write", "pin"}

(* What SetGuards does to guards, and to who may read. *)
LEMMA GuardsAreSet ==
  ASSUME NEW f, NEW h, Holds(f, h), NEW t \in Threads,
         NEW c \in Guards, NEW n \in Guards, NEW q,
         SetGuards(t, c, n, q), MayHold(t, c, q),
         DOMAIN pages \subseteq DOMAIN pages', retired \subseteq retired'
  PROVE  /\ cur' \in [Threads -> Guards'] /\ nxt' \in [Threads -> Guards']
         /\ cur'[t] = c /\ nxt'[t] = n
         /\ Exclusive'
         /\ \A p : Readable(p)' /\ p # q => Readable(p)
         /\ call' = call /\ root' = root /\ OnlySelf(t) => OthersKept(t)
<1>1. /\ cur' = [u \in Threads |-> IF u = t THEN c ELSE After(cur[u], q)]
      /\ nxt' = [u \in Threads |-> IF u = t THEN n ELSE After(nxt[u], q)]
  BY DEF SetGuards
<1>2. cur \in [Threads -> Guards] /\ nxt \in [Threads -> Guards] /\ Exclusive
  BY DEF Holds, TypeOK
<1>3. \A x \in Guards : /\ After(x, q) \in Guards
                        /\ After(x, q).page = x.page /\ After(x, q).mode = x.mode
                        /\ After(x, q).fresh => x.fresh /\ ~ (x.page = q /\ x.mode = "read")
  BY DEF After, Guards
<1>4. cur'[t] = c /\ nxt'[t] = n
  BY <1>1
<1>5. ASSUME NEW u \in Threads \ {t}
      PROVE  /\ cur'[u] = After(cur[u], q) /\ nxt'[u] = After(nxt[u], q)
             /\ cur[u] \in Guards /\ nxt[u] \in Guards
             /\ cur'[u].page = cur[u].page /\ cur'[u].mode = cur[u].mode
             /\ nxt'[u].page = nxt[u].page /\ nxt'[u].mode = nxt[u].mode
             /\ cur'[u].fresh => cur[u].fresh /\ ~ (cur[u].page = q /\ cur[u].mode = "read")
             /\ nxt'[u].fresh => nxt[u].fresh /\ ~ (nxt[u].page = q /\ nxt[u].mode = "read")
  <2>1. cur'[u] = After(cur[u], q) /\ nxt'[u] = After(nxt[u], q)
    BY <1>1
  <2>2. cur[u] \in Guards /\ nxt[u] \in Guards
    BY <1>2
  <2> QED
    BY <2>1, <2>2, <1>3
<1>6. Guards \subseteq Guards'
  BY DEF Guards
<1>7. cur' \in [Threads -> Guards'] /\ nxt' \in [Threads -> Guards']
  <2>1. \A u \in Threads : (IF u = t THEN c ELSE After(cur[u], q)) \in Guards'
    BY <1>2, <1>3, <1>6
  <2>2. \A u \in Threads : (IF u = t THEN n ELSE After(nxt[u], q)) \in Guards'
    BY <1>2, <1>3, <1>6
  <2> QED
    BY <2>1, <2>2, <1>1
<1>8. Exclusive'
  <2> SUFFICES ASSUME NEW v \in Threads, NEW u \in Threads, v # u, cur'[v].page = cur'[u].page,
                      cur'[v].mode \in {"write", "pin"}, cur'[u].mode \in {"write", "pin"}
               PROVE  FALSE
    BY DEF Exclusive
  <2>1. CASE v # t /\ u # t
    BY <2>1, <1>2, <1>5 DEF Exclusive
  <2>2. CASE v = t
    BY <2>2, <1>4, <1>5 DEF MayHold
  <2>3. CASE u = t
    BY <2>3, <1>4, <1>5 DEF MayHold
  <2> QED
    BY <2>1, <2>2, <2>3
<1>9. ASSUME NEW p, Readable(p)', p # q PROVE Readable(p)
  <2>1. p \notin retired
    BY <1>9 DEF Readable
  <2>2. ASSUME NEW w \in Threads, cur[w].page = p, cur[w].mode = "write" PROVE FALSE
    <3>1. ~ (cur'[w].page = p /\ cur'[w].mode = "write")
      BY <1>9 DEF Readable, HeldFor
    <3>2. CASE w = t
      BY <2>2, <3>1, <3>2, <1>4, <1>9 DEF MayHold
    <3>3. CASE w # t
      BY <2>2, <3>1, <3>3, <1>5
    <3> QED
      BY <3>2, <3>3
  <2> QED
    BY <2>1, <2>2 DEF Readable, HeldFor
<1>10. ASSUME call' = call, root' = root, OnlySelf(t)
       PROVE  OthersKept(t)
  <2>1. ASSUME NEW u \in Threads \ {t}, IsValid(cur[u])' PROVE IsValid(cur[u])
    <3>1. CASE cur[u].mode \in {"write", "pin"}
      BY <3>1 DEF IsValid
    <3>2. CASE cur[u].mode \notin {"write", "pin"}
      <4>0. PICK p : p = cur[u].page
        OBVIOUS
      <4>1. cur'[u].fresh /\ Readable(p)'
        BY <2>1, <3>2, <4>0, <1>5 DEF IsValid, Readable, HeldFor
      <4>2. cur[u].mode = "read" \/ cur[u].mode = "none"
        BY <3>2, <1>5 DEF Guards
      <4>3. cur[u].fresh /\ cur[u].mode = "read"
        BY <4>1, <4>2, <1>5 DEF Holds, Right, Placed
      <4>4. p # q
        BY <4>0, <4>1, <4>3, <1>5
      <4>5. Readable(p)
        BY <4>1, <4>4, <1>9
      <4> QED
        BY <4>0, <4>3, <4>5 DEF IsValid
    <3> QED
      BY <3>1, <3>2
  <2>2. ASSUME NEW u \in Threads \ {t}, Clear(nxt[u])' PROVE Clear(nxt[u])
    <3>0. PICK p : p = nxt[u].page
      OBVIOUS
    <3>1. nxt'[u].fresh /\ Readable(p)'
      BY <2>2, <3>0, <1>5 DEF Clear, Readable, HeldFor
    <3>2. nxt[u].mode \in {"none", "read"}
      BY GuardedPages
    <3>3. CASE nxt[u].mode = "read"
      <4>1. p # q /\ nxt[u].fresh
        BY <3>0, <3>1, <3>3, <1>5
      <4>2. Readable(p)
        BY <3>1, <4>1, <1>9
      <4> QED
        BY <3>0, <4>1, <4>2 DEF Clear
    <3>4. CASE nxt[u].mode = "none"
      <4>1. nxt[u].page = NoPage /\ nxt[u].fresh
        BY <3>1, <3>4, <1>5 DEF Holds, Right, Placed
      <4>2. \A w \in Threads : ~ (cur[w].page = NoPage /\ cur[w].mode = "write")
        BY DEF Holds, Right, Placed
      <4>3. NoPage \notin retired
        BY <4>1, GuardedPages DEF Holds, TypeOK
      <4> QED
        BY <4>1, <4>2, <4>3 DEF Clear, Readable, HeldFor
    <3> QED
      BY <3>2, <3>3, <3>4
  <2> QED
    BY <2>1, <2>2, <1>5, <1>10 DEF OthersKept, OnlySelf
<1> QED
  BY <1>4, <1>7, <1>8, <1>9, <1>10

Replies == {"none", "stored", "found", "missing", "matched", "other", "nothing", "error"}

(* The thread variables have their types after the step. *)
Typed ==
  /\ dead' \subseteq Keys
  /\ pc' \in [Threads -> PCs] /\ target' \in [Threads -> DOMAIN pages \cup {NoPage}]
  /\ cur' \in [Threads -> Guards] /\ nxt' \in [Threads -> Guards]
  /\ path' \in [Threads -> Seq([lo : Keys, hi : Keys, page : DOMAIN pages])]
  /\ low' \in [Threads -> Keys] /\ got' \in [Threads -> Seq(Keys)]
  /\ reply' \in [Threads -> Replies] /\ owed' \in [Threads -> SUBSET Keys]

(* It is enough to look at the thread that takes the step. *)
LEMMA SamePages ==
  ASSUME NEW f, NEW h, Holds(f, h), NEW t \in Threads,
         flavour' = flavour, root' = root, pages' = pages, retired' = retired, call' = call,
         OthersKept(t), Approaches(t), Exclusive', Typed, Right(t, f)'
  PROVE  TreeInv'
<1>1. TypeOK'
  <2>1. /\ flavour \in {OLC, LHL} /\ root \in DOMAIN pages
        /\ \A p \in DOMAIN pages : /\ pages[p] \in Pages
                                   /\ ~IsLeafPage(pages[p]) => Len(pages[p].kids) = Len(pages[p].seps) + 1
        /\ retired \subseteq DOMAIN pages /\ call \in [Threads -> Calls]
    BY DEF Holds, TypeOK, IsLeaf
  <2>2. Pages' = Pages /\ Guards' = Guards
    BY DEF Pages, Guards
  <2> QED
    BY <2>1, <2>2 DEF TypeOK, Typed, Replies, IsLeaf
<1>2. Grows(f, h)'
  BY DEF Holds, Grows, IsLeaf
<1>3. InsertsStayBelow'
  BY DEF Holds, InsertsStayBelow, Key
<1>4. PagesKept(t, f, f)
  <2>1. \A p \in DOMAIN pages : f[p].hi \in Nat
    BY PageOf, Numbers DEF Holds, Grows
  <2> QED
    BY <2>1 DEF PagesKept
<1>5. Kept(t, f, f)
  BY <1>4 DEF Kept
<1> QED
  BY <1>1, <1>2, <1>3, <1>5, OthersRight, Zenon

(* The same for a step that only moves the guards of its thread. *)
LEMMA Moving ==
  ASSUME NEW f, NEW h, Holds(f, h), NEW t \in Threads,
         NEW l \in PCs \ {"done", "scan", "pin", "collect"}, pc[t] # "done", Goto(t, l),
         NEW c \in Guards, NEW n \in Guards, NEW q, SetGuards(t, c, n, q), MayHold(t, c, q),
         NEW g \in DOMAIN pages \cup {NoPage}, target' = [target EXCEPT ![t] = g],
         flavour' = flavour, root' = root, pages' = pages, dead' = dead, retired' = retired,
         call' = call, path' = path, low' = low, got' = got, reply' = reply,
         owed' \in [Threads -> SUBSET Keys],
         Approaches(t), Placed(t)', Aimed(t, f)', Counted(t)'
  PROVE  TreeInv'
<1>1. TypeOK /\ pc' = [pc EXCEPT ![t] = l]
  BY DEF Holds, Goto
<1>2. /\ cur' \in [Threads -> Guards'] /\ nxt' \in [Threads -> Guards'] /\ Exclusive'
      /\ call' = call /\ root' = root /\ OnlySelf(t) => OthersKept(t)
  BY GuardsAreSet
<1>3. Guards' = Guards
  BY DEF Guards
<1>4. pc \in [Threads -> PCs] /\ target \in [Threads -> DOMAIN pages \cup {NoPage}]
  BY <1>1 DEF TypeOK
<1>5. OnlySelf(t)
  BY <1>1, <1>4 DEF OnlySelf
<1>6. Typed
  <2>1. pc' \in [Threads -> PCs] /\ target' \in [Threads -> DOMAIN pages \cup {NoPage}]
    BY <1>1, <1>4
  <2> QED
    BY <2>1, <1>1, <1>2, <1>3 DEF Typed, TypeOK, Replies
<1>7. Ranged(t, f)'
  <2>1. pc'[t] = l
    BY <1>1, <1>4
  <2>2. Ranged(t, f)
    BY DEF Holds, Right
  <2> QED
    BY <2>1, <2>2 DEF Ranged
<1>8. Right(t, f)'
  BY <1>7, Zenon DEF Right
<1> QED
  BY <1>2, <1>5, <1>6, <1>8, SamePages, Zenon

(* Descending again from the root. *)
LEMMA Restarting ==
  ASSUME NEW f, NEW h, Holds(f, h), NEW t \in Threads, pc[t] # "done", Restart(t)
  PROVE  TreeInv'
<1>1. PICK c, q, l : c = NoGuard /\ q = Unlocked(t) /\ l = "root"
  OBVIOUS
<1>2. c \in Guards /\ l \in PCs \ {"done", "scan", "pin", "collect"}
  BY <1>1 DEF Guards, NoGuard, PCs
<1>3. SetGuards(t, c, c, q) /\ Goto(t, l) /\ UNCHANGED <<tree, call, target, scan, got, reply, owed>>
  BY <1>1 DEF Restart
<1>4. TypeOK
  BY DEF Holds
<1>5. PICK g : g = target[t]
  OBVIOUS
<1>6. g \in DOMAIN pages \cup {NoPage} /\ target' = [target EXCEPT ![t] = g]
  BY <1>3, <1>4, <1>5 DEF TypeOK
<1>7. MayHold(t, c, q)
  BY <1>1 DEF MayHold, NoGuard, Unlocked
<1>8. pc'[t] = "root" /\ cur'[t] = NoGuard /\ nxt'[t] = NoGuard
  BY <1>1, <1>3, <1>4 DEF SetGuards, Goto, TypeOK
<1>9. Placed(t)'
  BY <1>8 DEF Placed, NoGuard, NoPage, Still, Pair, Down
<1>10. Aimed(t, f)' /\ Counted(t)'
  BY <1>8 DEF Aimed, Counted, Down, Pair
<1>11. Approaches(t)
  BY <1>8 DEF Approaches, NoGuard
<1>12. /\ flavour' = flavour /\ root' = root /\ pages' = pages /\ dead' = dead /\ retired' = retired
       /\ call' = call /\ path' = path /\ low' = low /\ got' = got /\ reply' = reply
       /\ owed' \in [Threads -> SUBSET Keys]
  BY <1>3, <1>4 DEF tree, scan, TypeOK
<1> QED
  BY <1>2, <1>3, <1>6, <1>7, <1>9, <1>10, <1>11, <1>12, Moving

(* What the invariant says of one thread. *)
LEMMA ThreadIs ==
  ASSUME NEW f, NEW h, Holds(f, h), NEW t \in Threads
  PROVE  /\ cur[t] \in Guards /\ nxt[t] \in Guards /\ target[t] \in DOMAIN pages \cup {NoPage}
         /\ Key(t) \in Keys /\ call[t].op \in Ops
         /\ Placed(t) /\ Aimed(t, f) /\ Counted(t) /\ Ranged(t, f)
         /\ \A l : Goto(t, l) => pc'[t] = l
         /\ \A g : target' = [target EXCEPT ![t] = g] => target'[t] = g
         /\ \A c, n, q : SetGuards(t, c, n, q) => cur'[t] = c /\ nxt'[t] = n
BY DEF Holds, Right, TypeOK, Calls, Key, Goto, SetGuards

(* A thread that keeps its guards may be said to set them. *)
LEMMA GuardsStay ==
  ASSUME NEW f, NEW h, Holds(f, h), NEW t \in Threads, cur' = cur, nxt' = nxt,
         NEW c, c = cur[t], NEW n, n = nxt[t]
  PROVE  SetGuards(t, c, n, NoPage) /\ MayHold(t, c, NoPage)
<1>1. cur \in [Threads -> Guards] /\ nxt \in [Threads -> Guards] /\ Exclusive
  BY DEF Holds, TypeOK
<1>2. ASSUME NEW u \in Threads
      PROVE  After(cur[u], NoPage) = cur[u] /\ After(nxt[u], NoPage) = nxt[u]
  <2>1. Placed(u)
    BY DEF Holds, Right
  <2> QED
    BY <2>1 DEF Placed, After
<1>3. SetGuards(t, c, n, NoPage)
  BY <1>1, <1>2 DEF SetGuards
<1>4. MayHold(t, c, NoPage)
  BY <1>1 DEF MayHold, Exclusive
<1> QED
  BY <1>3, <1>4

(* A step without a change to guards or pages. *)
LEMMA Looking ==
  ASSUME NEW f, NEW h, Holds(f, h), NEW t \in Threads,
         NEW l \in PCs \ {"done", "scan", "pin", "collect"}, pc[t] # "done", Goto(t, l),
         NEW g \in DOMAIN pages \cup {NoPage}, target' = [target EXCEPT ![t] = g],
         UNCHANGED <<tree, call, cur, nxt, scan, got, reply, owed>>,
         Placed(t)', Aimed(t, f)', Counted(t)'
  PROVE  TreeInv'
<1>1. /\ flavour' = flavour /\ root' = root /\ pages' = pages /\ dead' = dead /\ retired' = retired
      /\ call' = call /\ path' = path /\ low' = low /\ got' = got /\ reply' = reply
      /\ owed' = owed /\ cur' = cur /\ nxt' = nxt
  BY DEF tree, scan
<1>2. PICK c, n : c = cur[t] /\ n = nxt[t]
  OBVIOUS
<1>3. c \in Guards /\ n \in Guards
  BY <1>2, ThreadIs
<1>4. SetGuards(t, c, n, NoPage) /\ MayHold(t, c, NoPage)
  BY <1>1, <1>2, GuardsStay
<1>5. owed' \in [Threads -> SUBSET Keys]
  BY <1>1 DEF Holds, TypeOK
<1>6. Approaches(t)
  BY <1>1 DEF Approaches, IsValid, Readable, HeldFor
<1> QED
  BY <1>1, <1>3, <1>4, <1>5, <1>6, Moving

(* A page that t has cut stays quiet while t goes on. *)
LEMMA OwnQuiet ==
  ASSUME NEW t \in Threads, OthersKept(t), NEW c, Quiet(t, c), pages'[c] = pages[c]
  PROVE  Quiet(t, c)'
<1>1. ASSUME NEW u \in Threads \ {t}, call'[u].op = "Insert", c \in {cur'[u].page, nxt'[u].page}
      PROVE  ~IsValid(cur[u])'
  <2>1. /\ call' = call /\ cur'[u].page = cur[u].page /\ nxt'[u].page = nxt[u].page
        /\ IsValid(cur[u])' => IsValid(cur[u])
    BY DEF OthersKept
  <2>2. ~IsValid(cur[u])
    BY <2>1, <1>1 DEF Quiet
  <2> QED
    BY <2>1, <2>2, Zenon
<1>2. ~HasOverflow(pages'[c])
  BY DEF Quiet
<1> QED
  BY <1>1, <1>2 DEF Quiet

(* What t knows of its page stays true while nobody changes a page, even   *)
(* if t has locked it in between.                                          *)
LEMMA OwnCounted ==
  ASSUME NEW f, NEW h, Holds(f, h), NEW t \in Threads, OthersKept(t), pages' = pages,
         pc[t] \in Down, pc'[t] \in Down, call[t].op = "Insert", IsValid(cur[t]),
         cur'[t].page = cur[t].page,
         pc'[t] \in {"lockparent", "split"} /\ Clear(nxt[t])' => HasOverflow(pages[nxt'[t].page]),
         cur'[t].mode = cur[t].mode \/ (cur[t].mode = "read" /\ cur'[t].mode = "write")
  PROVE  Counted(t)'
<1>1. Counted(t) /\ Placed(t)
  BY ThreadIs
<1>2. call' = call
  BY DEF OthersKept
<1>3. /\ cur[t].mode = "read" => ~HasOverflow(pages[cur[t].page])
      /\ cur[t].mode = "write" =>
           ~HasOverflow(pages[cur[t].page]) \/ Quiet(t, Child(cur[t].page, Key(t)))
  BY <1>1 DEF Counted
<1>4. ASSUME Quiet(t, Child(cur[t].page, Key(t))) PROVE Quiet(t, Child(cur[t].page, Key(t)))'
  <2>1. PICK c : c = Child(cur[t].page, Key(t))
    OBVIOUS
  <2>2. Quiet(t, c)'
    BY <2>1, <1>4, OwnQuiet
  <2>3. c = Child(cur[t].page, Key(t))'
    BY <2>1, <1>2 DEF Child, Key
  <2> QED
    BY <2>2, <2>3 DEF Quiet
<1>5. pc'[t] # "apply" /\ cur[t].mode \in {"read", "write"}
  BY <1>1 DEF Down, Pair, Placed
<1>6. /\ cur'[t].mode = "read" => ~HasOverflow(pages'[cur'[t].page])
      /\ cur'[t].mode = "write" =>
           ~HasOverflow(pages'[cur'[t].page]) \/ Quiet(t, Child(cur[t].page, Key(t)))'
      /\ pc'[t] \in {"lockparent", "split"} /\ Clear(nxt[t])' => HasOverflow(pages'[nxt'[t].page])
  BY <1>3, <1>4, <1>5, Zenon
<1> QED
  BY <1>5, <1>6, Zenon DEF Counted

-------------------------------------------------------------------------
(* Step by step: at the root.                                              *)

(* The pointer to the root, and the first step of a range's path. *)
LEMMA LoadRootKeeps ==
  ASSUME NEW f, NEW h, Holds(f, h), NEW t \in Threads, LoadRoot(t)
  PROVE  TreeInv'
<1>1. TypeOK
  BY DEF Holds
<1>2. PICK l : l = IF call[t].op = "Range" THEN "scan" ELSE "latchroot"
  OBVIOUS
<1>3. /\ flavour' = flavour /\ root' = root /\ pages' = pages /\ dead' = dead /\ retired' = retired
      /\ call' = call /\ cur' = cur /\ nxt' = nxt /\ low' = low /\ got' = got /\ reply' = reply
      /\ pc[t] \in {"start", "root"} /\ pc' = [pc EXCEPT ![t] = l]
      /\ target' = [target EXCEPT ![t] = root]
  BY <1>2 DEF LoadRoot, tree, Goto
<1>4. PICK s : s = IF call[t].op = "Range" THEN <<[lo |-> MinKey, hi |-> MaxKey, page |-> root]>> ELSE <<>>
  OBVIOUS
<1>5. path' = [path EXCEPT ![t] = s]
  BY <1>4 DEF LoadRoot
<1>6. PICK R : R = [lo : Keys, hi : Keys, page : DOMAIN pages]
  OBVIOUS
<1>7. s \in Seq(R)
  <2>1. PICK e : e = [lo |-> MinKey, hi |-> MaxKey, page |-> root]
    OBVIOUS
  <2>2. e \in R
    BY <2>1, <1>1, <1>6, Numbers DEF TypeOK
  <2>3. <<e>> \in Seq(R) /\ <<>> \in Seq(R)
    BY <2>2
  <2> QED
    BY <2>1, <2>3, <1>4
<1>8. Typed
  <2>1. path' \in [Threads -> Seq(R)]
    BY <1>1, <1>5, <1>6, <1>7, Zenon DEF TypeOK
  <2>2. owed' \in [Threads -> SUBSET Keys]
    <3>1. owed \in [Threads -> SUBSET Keys] /\ call[t] \in Calls
      BY <1>1 DEF TypeOK
    <3>2. Wanted(call[t]) \subseteq Keys
      BY <3>1, Numbers DEF Wanted, Calls, Keys
    <3>3. owed' = [owed EXCEPT ![t] = Wanted(call[t]) \cap Stored] \/ owed' = owed
      BY DEF LoadRoot
    <3>4. PICK o : o = Wanted(call[t]) \cap Stored
      OBVIOUS
    <3>5. o \in SUBSET Keys
      BY <3>2, <3>4
    <3> QED
      BY <3>1, <3>3, <3>4, <3>5
  <2>3. pc' \in [Threads -> PCs]
    BY <1>1, <1>2, <1>3 DEF TypeOK, PCs
  <2>4. target' \in [Threads -> DOMAIN pages \cup {NoPage}]
    BY <1>1, <1>3 DEF TypeOK
  <2> QED
    BY <2>1, <2>2, <2>3, <2>4, <1>1, <1>3, <1>6 DEF Typed, TypeOK, Replies
<1>9. OthersKept(t) /\ Exclusive'
  <2>1. OnlySelf(t)
    BY <1>1, <1>3, <1>5 DEF OnlySelf, TypeOK
  <2>2. PICK c, n : c = cur[t] /\ n = nxt[t]
    OBVIOUS
  <2>3. c \in Guards /\ n \in Guards /\ SetGuards(t, c, n, NoPage) /\ MayHold(t, c, NoPage)
    BY <2>2, <1>3, ThreadIs, GuardsStay
  <2>4. DOMAIN pages \subseteq DOMAIN pages' /\ retired \subseteq retired'
    BY <1>3
  <2> QED
    BY <2>1, <2>3, <2>4, <1>3, GuardsAreSet
<1>10. /\ pc'[t] = l /\ target'[t] = root /\ path'[t] = s /\ cur'[t] = cur[t] /\ nxt'[t] = nxt[t]
       /\ cur[t].mode = "none" /\ nxt[t].mode = "none"
  BY <1>1, <1>3, <1>5, ThreadIs DEF TypeOK, Placed, Still, Pair
<1>11. Placed(t)'
  BY <1>2, <1>3, <1>10, ThreadIs DEF Placed, Still, Pair, Down
<1>12. Aimed(t, f)' /\ Counted(t)'
  BY <1>2, <1>10 DEF Aimed, Counted, Down, Pair
<1>13. Ranged(t, f)'
  <2>1. Ranged(t, f)
    BY ThreadIs
  <2>2. ASSUME l = "scan" PROVE /\ s # <<>> /\ s[1] = [lo |-> MinKey, hi |-> MaxKey, page |-> root]
                                /\ \A i \in DOMAIN s : f[s[i].page].hi <= s[i].hi
    <3>1. call[t].op = "Range"
      BY <2>2, <1>2
    <3>2. s = <<[lo |-> MinKey, hi |-> MaxKey, page |-> root]>>
      BY <3>1, <1>4
    <3>3. f[root] = [lo |-> MinKey, hi |-> MaxKey]
      BY TreeOf DEF Holds, Grows
    <3>4. MaxKey \in Nat
      BY Numbers
    <3> QED
      BY <3>2, <3>3, <3>4
  <2> QED
    BY <2>1, <2>2, <1>2, <1>3, <1>10 DEF Ranged
<1>14. Approaches(t)
  BY <1>10, ThreadIs DEF Approaches, Placed
<1> QED
  BY <1>3, <1>8, <1>9, <1>11, <1>12, <1>13, <1>14, SamePages DEF Right

(* The root stays where it is, so the page latched is the root. *)
LEMMA LatchRootKeeps ==
  ASSUME NEW f, NEW h, Holds(f, h), NEW t \in Threads, LatchRoot(t)
  PROVE  TreeInv'
<1>1. CASE ~Readable(target[t])
  BY <1>1, Restarting DEF LatchRoot
<1>2. CASE Readable(target[t])
  <2>1. PICK l, g, c, n : /\ l = IF Writer(t) THEN "checkroot" ELSE "visit"
                          /\ g = target[t] /\ c = ReadGuard(g) /\ n = NoGuard
    OBVIOUS
  <2>2. /\ pc[t] = "latchroot" /\ SetGuards(t, c, n, NoPage) /\ Goto(t, l)
        /\ UNCHANGED <<tree, call, target, scan, got, reply, owed>>
    BY <2>1, <1>2 DEF LatchRoot
  <2>3. /\ g = root /\ root \in DOMAIN pages /\ cur[t].mode = "none" /\ call[t].op # "Range"
    BY <2>1, <2>2, ThreadIs DEF Placed, Still, Holds, TypeOK
  <2>4. /\ c \in Guards /\ n \in Guards /\ c.page = root /\ c.mode = "read" /\ n.mode = "none" /\ n.page = NoPage
    BY <2>1, <2>3 DEF Guards, ReadGuard, NoGuard
  <2>5. /\ l \in PCs \ {"done", "scan", "pin", "collect"} /\ l \in {"checkroot", "visit"}
        /\ l = "checkroot" <=> Writer(t)
    BY <2>1 DEF PCs
  <2>6. /\ flavour' = flavour /\ root' = root /\ pages' = pages /\ dead' = dead /\ retired' = retired
        /\ call' = call /\ path' = path /\ low' = low /\ got' = got /\ reply' = reply /\ target' = target
        /\ owed' \in [Threads -> SUBSET Keys]
    BY <2>2 DEF tree, scan, Holds, TypeOK
  <2>7. pc'[t] = l /\ cur'[t] = c /\ nxt'[t] = n /\ target'[t] = root
    BY <2>1, <2>2, <2>3, <2>6, ThreadIs
  <2>8. MayHold(t, c, NoPage)
    BY <2>3, <2>4 DEF MayHold
  <2>9. target' = [target EXCEPT ![t] = g] /\ g \in DOMAIN pages \cup {NoPage}
    BY <2>1, <2>3, <2>6 DEF Holds, TypeOK
  <2>10. Placed(t)'
    <3>1. root # NoPage
      BY <2>3, GuardedPages
    <3> QED
      BY <3>1, <2>3, <2>4, <2>5, <2>6, <2>7 DEF Placed, Still, Pair, Down, Writer
  <2>11. Aimed(t, f)'
    <3>1. Within(Key(t), f[root])
      BY ThreadIs, TreeOf DEF Holds, Grows
    <3> QED
      BY <3>1, <2>4, <2>5, <2>6, <2>7 DEF Aimed, Down, Pair, Key, Within
  <2>12. Counted(t)'
    BY <2>5, <2>6, <2>7 DEF Counted, Writer, ReadOps, Down, Pair
  <2>13. Approaches(t)
    BY <2>4, <2>7 DEF Approaches
  <2> QED
    BY <2>2, <2>4, <2>5, <2>6, <2>8, <2>9, <2>10, <2>11, <2>12, <2>13, Moving
<1> QED
  BY <1>1, <1>2

(* A root that is not full. *)
LEMMA KeepRootKeeps ==
  ASSUME NEW f, NEW h, Holds(f, h), NEW t \in Threads, KeepRoot(t)
  PROVE  TreeInv'
<1>1. /\ pc[t] = "checkroot" /\ FALSE \in SeesOverflow(cur[t].page) /\ Goto(t, "visit")
      /\ UNCHANGED <<tree, call, target, cur, nxt, scan, got, reply, owed>>
  BY DEF KeepRoot
<1>2. PICK g : g = target[t]
  OBVIOUS
<1>3. g \in DOMAIN pages \cup {NoPage} /\ target' = [target EXCEPT ![t] = g] /\ "visit" \in PCs
  BY <1>1, <1>2 DEF Holds, TypeOK, PCs
<1>4. /\ pages' = pages /\ root' = root /\ call' = call /\ cur' = cur /\ nxt' = nxt /\ retired' = retired
      /\ pc'[t] = "visit"
  BY <1>1, ThreadIs DEF tree
<1>5. /\ Placed(t) /\ Aimed(t, f) /\ cur[t].mode = "read" /\ cur[t].page = root /\ Writer(t)
      /\ call[t].op # "Range"
  BY <1>1, ThreadIs DEF Placed
<1>6. Placed(t)'
  BY <1>1, <1>4, <1>5 DEF Placed, Still, Pair, Down, Writer
<1>7. IsValid(cur[t])' => IsValid(cur[t]) /\ ~HasOverflow(pages[cur[t].page])
  <2>1. IsValid(cur[t])' => IsValid(cur[t])
    BY <1>4 DEF IsValid, Readable, HeldFor
  <2>2. IsValid(cur[t]) => Readable(cur[t].page)
    BY <1>5 DEF IsValid
  <2>3. Readable(cur[t].page) => ~HasOverflow(pages[cur[t].page])
    BY <1>1 DEF SeesOverflow
  <2> QED
    BY <2>1, <2>2, <2>3, Zenon
<1>8. Aimed(t, f)'
  <2>1. IsValid(cur[t]) /\ call[t].op = "Insert" => Within(Key(t), f[cur[t].page])
    BY <1>1, <1>5 DEF Aimed
  <2> QED
    BY <2>1, <1>4, <1>7 DEF Aimed, Down, Pair, Key
<1>9. Counted(t)'
  BY <1>4, <1>5, <1>7 DEF Counted, Down, Pair
<1> QED
  BY <1>1, <1>2, <1>3, <1>6, <1>8, <1>9, Looking

-------------------------------------------------------------------------
(* Step by step: going down.                                               *)

(* What CanSwap promises: the guard is valid and nobody else has the page. *)
LEMMA SwapIsSafe ==
  ASSUME NEW f, NEW h, Holds(f, h), NEW t \in Threads, cur[t].mode \in {"read", "write"},
         CanSwap(cur[t]), NEW c, c = Writing(cur[t])
  PROVE  /\ c \in Guards /\ c.page = cur[t].page /\ c.mode = "write"
         /\ IsValid(cur[t]) /\ MayHold(t, c, NoPage)
<1>1. cur[t] \in Guards /\ Exclusive
  BY ThreadIs DEF Holds
<1>2. c \in Guards /\ c.page = cur[t].page /\ c.mode = "write"
  BY <1>1 DEF Writing, Guards
<1>3. IsValid(cur[t])
  BY DEF CanSwap, IsValid, Free
<1>4. ASSUME NEW u \in Threads \ {t}, cur[u].page = c.page PROVE cur[u].mode \notin {"write", "pin"}
  <2>1. CASE cur[t].mode = "write"
    BY <2>1, <1>1, <1>2, <1>4 DEF Exclusive
  <2>2. CASE cur[t].mode = "read"
    BY <2>2, <1>2, <1>4 DEF CanSwap, Free, Readable, HeldFor
  <2> QED
    BY <2>1, <2>2
<1> QED
  BY <1>2, <1>3, <1>4 DEF MayHold

(* The child is read from a page that is valid, for a writer at least. *)
LEMMA VisitIndexKeeps ==
  ASSUME NEW f, NEW h, Holds(f, h), NEW t \in Threads, VisitIndex(t)
  PROVE  TreeInv'
<1>1. pc[t] = "visit" /\ ~IsLeaf(cur[t].page)
  BY DEF VisitIndex
<1>2. CASE ~MayVisit(t)
  BY <1>1, <1>2, Restarting DEF VisitIndex
<1>3. CASE MayVisit(t)
  <2>1. PICK g : g = Child(cur[t].page, Key(t))
    OBVIOUS
  <2>2. /\ target' = [target EXCEPT ![t] = g] /\ Goto(t, "child")
        /\ UNCHANGED <<tree, call, cur, nxt, scan, got, reply, owed>>
    BY <2>1, <1>3 DEF VisitIndex
  <2>3. /\ Placed(t) /\ Aimed(t, f) /\ cur[t].mode \in {"read", "write"} /\ call[t].op # "Range"
        /\ cur[t].page \in DOMAIN pages
    BY <1>1, ThreadIs, GuardedPages DEF Placed, Down, Pair
  <2>4. g \in DOMAIN pages /\ g # NoPage
    BY <2>1, <2>3, <1>1, ChildOfInsert, GuardedPages
  <2>5. /\ pages' = pages /\ root' = root /\ call' = call /\ cur' = cur /\ nxt' = nxt /\ retired' = retired
        /\ pc'[t] = "child" /\ target'[t] = g
    BY <2>2, ThreadIs DEF tree
  <2>6. Placed(t)'
    BY <2>3, <2>4, <2>5, <1>1 DEF Placed, Still, Pair, Down, Writer, IsLeaf
  <2>7. call[t].op = "Insert" => IsValid(cur[t])
    BY <1>3 DEF MayVisit, Writer, ReadOps
  <2>8. call[t].op = "Insert" => Within(Key(t), f[cur[t].page])
    BY <2>3, <2>7, <1>1 DEF Aimed, Down
  <2>9. Aimed(t, f)'
    BY <2>1, <2>5, <2>8 DEF Aimed, Key, Child
  <2>10. Counted(t)'
    <3>1. CASE call[t].op = "Insert"
      <4>1. OthersKept(t)
        <5>1. OnlySelf(t)
          BY <2>2 DEF OnlySelf, Goto, scan, Holds, TypeOK
        <5>2. PICK c, n : c = cur[t] /\ n = nxt[t]
          OBVIOUS
        <5>3. c \in Guards /\ n \in Guards /\ SetGuards(t, c, n, NoPage) /\ MayHold(t, c, NoPage)
          BY <5>2, <2>5, ThreadIs, GuardsStay
        <5>4. DOMAIN pages \subseteq DOMAIN pages' /\ retired \subseteq retired'
          BY <2>5
        <5> QED
          BY <5>1, <5>3, <5>4, <2>5, GuardsAreSet
      <4>2. pc[t] \in Down /\ pc'[t] \in Down /\ pc'[t] \notin {"lockparent", "split"}
        BY <2>5, <1>1 DEF Down
      <4> QED
        BY <4>1, <4>2, <3>1, <2>5, <2>7, OwnCounted
    <3>2. CASE call[t].op # "Insert"
      BY <3>2, <2>5 DEF Counted
    <3> QED
      BY <3>1, <3>2
  <2>11. "child" \in PCs \ {"done", "scan", "pin", "collect"} /\ g \in DOMAIN pages \cup {NoPage}
    BY <2>4 DEF PCs
  <2> QED
    BY <2>2, <2>6, <2>9, <2>10, <2>11, <1>1, Looking
<1> QED
  BY <1>2, <1>3

(* The child is latched; a writer keeps its parent. *)
LEMMA LatchChildKeeps ==
  ASSUME NEW f, NEW h, Holds(f, h), NEW t \in Threads, LatchChild(t)
  PROVE  TreeInv'
<1>1. pc[t] = "child"
  BY DEF LatchChild
<1>2. CASE ~Readable(target[t])
  BY <1>1, <1>2, Restarting DEF LatchChild
<1>3. CASE Readable(target[t])
  <2>1. PICK g, d, n : g = target[t] /\ d = ReadGuard(g) /\ n = NoGuard
    OBVIOUS
  <2>2. /\ Placed(t) /\ Aimed(t, f) /\ Counted(t) /\ call[t].op # "Range"
        /\ cur[t].mode \in {"read", "write"} /\ ~IsLeaf(cur[t].page)
        /\ g \in DOMAIN pages /\ g # NoPage
    BY <2>1, <1>1, ThreadIs DEF Placed, Down, Pair
  <2>3. /\ UNCHANGED <<tree, call, target, scan, got, reply, owed>>
        /\ IF Writer(t) THEN SetGuards(t, cur[t], d, NoPage) /\ Goto(t, "checkchild")
                        ELSE SetGuards(t, d, n, NoPage) /\ Goto(t, "visit")
    BY <2>1, <1>3 DEF LatchChild
  <2>4. /\ flavour' = flavour /\ root' = root /\ pages' = pages /\ dead' = dead /\ retired' = retired
        /\ call' = call /\ path' = path /\ low' = low /\ got' = got /\ reply' = reply /\ target' = target
        /\ owed' \in [Threads -> SUBSET Keys]
    BY <2>3 DEF tree, scan, Holds, TypeOK
  <2>5. /\ d \in Guards /\ n \in Guards /\ d.page = g /\ d.mode = "read"
        /\ n.mode = "none" /\ n.page = NoPage
    BY <2>1, <2>2 DEF Guards, ReadGuard, NoGuard
  <2>6. target' = [target EXCEPT ![t] = g] /\ g \in DOMAIN pages \cup {NoPage} /\ target'[t] = g
    BY <2>1, <2>2, <2>4 DEF Holds, TypeOK
  <2>7. CASE Writer(t)
    <3>1. PICK c : c = cur[t]
      OBVIOUS
    <3>2. SetGuards(t, c, d, NoPage) /\ Goto(t, "checkchild") /\ c \in Guards
      BY <3>1, <2>3, <2>7, ThreadIs
    <3>3. pc'[t] = "checkchild" /\ cur'[t] = c /\ nxt'[t] = d
      BY <3>2, ThreadIs
    <3>4. MayHold(t, c, NoPage)
      BY <3>1 DEF MayHold, Holds, Exclusive
    <3>5. Placed(t)'
      BY <3>1, <3>3, <2>2, <2>4, <2>5, <2>6, <2>7 DEF Placed, Still, Pair, Down, Writer, IsLeaf
    <3>6. IsValid(cur[t])' => IsValid(cur[t])
      <4>1. \A p : Readable(p)' /\ p # NoPage => Readable(p)
        BY <3>2, <3>4, <2>4, <2>5, GuardsAreSet
      <4>2. PICK p : p = cur[t].page
        OBVIOUS
      <4>3. p # NoPage
        BY <4>2, <2>2 DEF Placed
      <4>4. Readable(cur[t].page)' => Readable(p)'
        BY <4>2, <3>1, <3>3 DEF Readable, HeldFor
      <4>5. IsValid(cur[t])' => cur[t].mode = "write" \/ (cur[t].fresh /\ Readable(cur[t].page)')
        BY <3>1, <3>3, <2>2 DEF IsValid
      <4> QED
        BY <4>1, <4>2, <4>3, <4>4, <4>5 DEF IsValid
    <3>7. Aimed(t, f)'
      <4>1. call[t].op = "Insert" /\ IsValid(cur[t]) =>
              Within(Key(t), f[cur[t].page]) /\ target[t] = Child(cur[t].page, Key(t))
        BY <2>2, <1>1 DEF Aimed, Down
      <4> QED
        BY <4>1, <3>1, <3>3, <3>6, <2>1, <2>4, <2>6 DEF Aimed, Key, Child
    <3>8. Counted(t)'
      <4>1. OthersKept(t)
        <5>1. OnlySelf(t)
          BY <3>2, <2>4 DEF OnlySelf, Goto, Holds, TypeOK
        <5> QED
          BY <5>1, <3>2, <3>4, <2>4, <2>5, GuardsAreSet
      <4>2. /\ pc[t] \in Down /\ pc'[t] \in Down /\ pc'[t] \notin {"lockparent", "split"}
            /\ pc'[t] # "apply"
        BY <3>3, <1>1 DEF Down, Pair
      <4>3. CASE call[t].op = "Insert" /\ IsValid(cur[t])
        BY <4>1, <4>2, <4>3, <3>1, <3>3, <2>4, OwnCounted
      <4>4. CASE call[t].op # "Insert"
        BY <4>4, <2>4 DEF Counted
      <4>5. CASE call[t].op = "Insert" /\ ~IsValid(cur[t])
        <5>1. cur[t].mode # "write" /\ ~IsValid(cur[t])'
          BY <4>5, <3>6 DEF IsValid
        <5> QED
          BY <5>1, <4>2, <3>1, <3>3 DEF Counted
      <4> QED
        BY <4>3, <4>4, <4>5
    <3>9. Approaches(t)
      <4>1. SUFFICES ASSUME call[t].op = "Insert", IsValid(cur[t])',
                            NEW x \in {cur'[t].page, nxt'[t].page}
                     PROVE  IsValid(cur[t]) /\ (x = cur[t].page \/ (pc[t] = "child" /\ x = target[t]))
        BY DEF Approaches
      <4> QED
        BY <4>1, <3>1, <3>3, <3>6, <2>1, <2>5, <1>1
    <3>10. "checkchild" \in PCs \ {"done", "scan", "pin", "collect"}
      BY DEF PCs
    <3> QED
      BY <3>2, <3>4, <3>5, <3>7, <3>8, <3>9, <3>10, <2>4, <2>5, <2>6, <1>1, Moving
  <2>8. CASE ~Writer(t)
    <3>1. SetGuards(t, d, n, NoPage) /\ Goto(t, "visit") /\ call[t].op # "Insert"
      BY <2>3, <2>8 DEF Writer, ReadOps
    <3>2. pc'[t] = "visit" /\ cur'[t] = d /\ nxt'[t] = n
      BY <3>1, ThreadIs
    <3>3. MayHold(t, d, NoPage)
      BY <2>2, <2>5, <2>8, <1>1 DEF MayHold, Placed, Down, Writer
    <3>4. Placed(t)'
      BY <3>2, <2>2, <2>4, <2>5, <2>6 DEF Placed, Still, Pair, Down, Writer
    <3>5. Aimed(t, f)' /\ Counted(t)' /\ Approaches(t)
      BY <3>1, <2>4 DEF Aimed, Counted, Approaches
    <3>6. "visit" \in PCs \ {"done", "scan", "pin", "collect"}
      BY DEF PCs
    <3> QED
      BY <3>1, <3>3, <3>4, <3>5, <3>6, <2>4, <2>5, <2>6, <1>1, Moving
  <2> QED
    BY <2>7, <2>8
<1> QED
  BY <1>2, <1>3

(* The others notice nothing of a thread that only looks. *)
LEMMA Unnoticed ==
  ASSUME NEW f, NEW h, Holds(f, h), NEW t \in Threads, NEW l, Goto(t, l),
         NEW g, target' = [target EXCEPT ![t] = g],
         UNCHANGED <<tree, call, cur, nxt, scan, got>>
  PROVE  OthersKept(t)
<1>1. OnlySelf(t)
  BY DEF OnlySelf, Goto, scan, Holds, TypeOK
<1>2. PICK c, n : c = cur[t] /\ n = nxt[t]
  OBVIOUS
<1>3. /\ pages' = pages /\ root' = root /\ call' = call /\ cur' = cur /\ nxt' = nxt /\ retired' = retired
  BY DEF tree
<1>4. c \in Guards /\ n \in Guards /\ SetGuards(t, c, n, NoPage) /\ MayHold(t, c, NoPage)
  BY <1>2, <1>3, ThreadIs, GuardsStay
<1>5. DOMAIN pages \subseteq DOMAIN pages' /\ retired \subseteq retired'
  BY <1>3
<1> QED
  BY <1>1, <1>3, <1>4, <1>5, GuardsAreSet

(* The descent goes on when the parent is still as it was. *)
LEMMA CheckChildKeeps ==
  ASSUME NEW f, NEW h, Holds(f, h), NEW t \in Threads, CheckChild(t)
  PROVE  TreeInv'
<1>1. pc[t] = "checkchild"
  BY DEF CheckChild
<1>2. PICK g : g = target[t]
  OBVIOUS
<1>3. /\ Placed(t) /\ Aimed(t, f) /\ Counted(t) /\ call[t].op # "Range" /\ Writer(t)
      /\ cur[t].mode \in {"read", "write"} /\ ~IsLeaf(cur[t].page) /\ cur[t].page \in DOMAIN pages
      /\ nxt[t].mode = "read" /\ nxt[t].page = g /\ nxt[t] \in Guards
      /\ g \in DOMAIN pages /\ g # NoPage /\ NoPage \notin DOMAIN pages
  BY <1>1, <1>2, ThreadIs, GuardedPages DEF Placed, Down, Pair
<1>4. CASE ~IsValid(cur[t])
  BY <1>1, <1>4, Restarting DEF CheckChild
<1>5. ASSUME IsValid(cur[t]), call[t].op = "Insert", TRUE \in SeesOverflow(nxt[t].page), Goto(t, "lockparent"),
             UNCHANGED <<tree, call, target, cur, nxt, scan, got, reply, owed>>
      PROVE  TreeInv'
  <2>1. /\ pages' = pages /\ root' = root /\ call' = call /\ cur' = cur /\ nxt' = nxt /\ retired' = retired
        /\ pc'[t] = "lockparent" /\ target' = target
    BY <1>5, ThreadIs DEF tree
  <2>2. target' = [target EXCEPT ![t] = g]
    BY <2>1, <1>2 DEF Holds, TypeOK
  <2>3. Placed(t)'
    BY <2>1, <1>1, <1>2, <1>3, <1>5 DEF Placed, Still, Pair, Down, Writer, IsLeaf
  <2>4. Aimed(t, f)'
    <3>1. Within(Key(t), f[cur[t].page]) /\ target[t] = Child(cur[t].page, Key(t))
      BY <1>1, <1>3, <1>5 DEF Aimed, Down, Pair
    <3> QED
      BY <3>1, <2>1 DEF Aimed, Key, Child
  <2>5. OthersKept(t)
    BY <2>2, <1>5, Unnoticed
  <2>6. Clear(nxt[t])' => HasOverflow(pages[nxt'[t].page])
    <3>1. Clear(nxt[t])' => Readable(nxt[t].page)
      BY <2>1 DEF Clear, Readable, HeldFor
    <3>2. Readable(nxt[t].page) => HasOverflow(pages[nxt[t].page])
      BY <1>5 DEF SeesOverflow
    <3> QED
      BY <3>1, <3>2, <2>1
  <2>7. Counted(t)'
    <3>1. pc[t] \in Down /\ pc'[t] \in Down
      BY <2>1, <1>1 DEF Down, Pair
    <3> QED
      BY <3>1, <2>1, <2>5, <2>6, <1>5, OwnCounted
  <2>8. "lockparent" \in PCs \ {"done", "scan", "pin", "collect"}
    BY DEF PCs
  <2> QED
    BY <2>2, <2>3, <2>4, <2>7, <2>8, <1>1, <1>3, <1>5, Looking
<1>6. ASSUME IsValid(cur[t]), call[t].op \in AppendOps \/ FALSE \in SeesOverflow(nxt[t].page),
             SetGuards(t, nxt[t], NoGuard, Unlocked(t)), Goto(t, "visit"),
             UNCHANGED <<tree, call, target, scan, got, reply, owed>>
      PROVE  TreeInv'
  <2>1. PICK c, n, q : c = nxt[t] /\ n = NoGuard /\ q = Unlocked(t)
    OBVIOUS
  <2>2. SetGuards(t, c, n, q) /\ c \in Guards /\ n \in Guards /\ n.mode = "none" /\ n.page = NoPage
        /\ c.mode = "read" /\ c.page = g
    BY <2>1, <1>3, <1>6 DEF NoGuard, Guards
  <2>3. /\ flavour' = flavour /\ root' = root /\ pages' = pages /\ dead' = dead /\ retired' = retired
        /\ call' = call /\ path' = path /\ low' = low /\ got' = got /\ reply' = reply /\ target' = target
        /\ owed' \in [Threads -> SUBSET Keys]
    BY <1>6 DEF tree, scan, Holds, TypeOK
  <2>4. pc'[t] = "visit" /\ cur'[t] = c /\ nxt'[t] = n
    BY <2>2, <1>6, ThreadIs
  <2>5. target' = [target EXCEPT ![t] = g]
    BY <2>3, <1>2 DEF Holds, TypeOK
  <2>6. MayHold(t, c, q)
    BY <2>1, <2>2 DEF MayHold, Unlocked
  <2>7. Placed(t)'
    BY <2>2, <2>3, <2>4, <1>3 DEF Placed, Still, Pair, Down, Writer
  <2>8. call[t].op = "Insert" => g = Child(cur[t].page, Key(t)) /\ Within(Key(t), f[cur[t].page])
    BY <1>1, <1>2, <1>3, <1>6 DEF Aimed, Down, Pair
  <2>9. call[t].op = "Insert" => Within(Key(t), f[g]) /\ g # cur[t].page
    BY <2>8, <1>3, ChildOfInsert
  <2>10. Aimed(t, f)'
    BY <2>2, <2>3, <2>4, <2>9 DEF Aimed, Key
  <2>11. Counted(t)'
    <3>1. SUFFICES ASSUME call[t].op = "Insert", IsValid(cur[t])' PROVE ~HasOverflow(pages[g])
      BY <2>2, <2>3, <2>4, Zenon DEF Counted
    <3>2. Readable(g)'
      BY <3>1, <2>2, <2>4 DEF IsValid
    <3>3. g # q
      BY <3>1, <2>1, <2>9, <1>3 DEF Unlocked
    <3>4. \A p : Readable(p)' /\ p # q => Readable(p)
      BY <2>2, <2>3, <2>6, GuardsAreSet
    <3>5. Readable(g)
      BY <3>2, <3>3, <3>4, Zenon
    <3> QED
      BY <3>1, <3>5, <1>3, <1>6 DEF SeesOverflow, AppendOps
  <2>12. Approaches(t)
    BY <2>2, <2>4, <1>3, <1>6 DEF Approaches
  <2>13. "visit" \in PCs \ {"done", "scan", "pin", "collect"}
    BY DEF PCs
  <2> QED
    BY <2>2, <2>3, <2>5, <2>6, <2>7, <2>10, <2>11, <2>12, <2>13, <1>1, <1>3, <1>6, Moving
<1> QED
  BY <1>4, <1>5, <1>6 DEF CheckChild

(* The parent of a full child is locked, if nobody has had it meanwhile.   *)
LEMMA LockParentKeeps ==
  ASSUME NEW f, NEW h, Holds(f, h), NEW t \in Threads, LockParent(t)
  PROVE  TreeInv'
<1>1. pc[t] = "lockparent"
  BY DEF LockParent
<1>2. CASE ~CanSwap(cur[t])
  BY <1>1, <1>2, Restarting DEF LockParent
<1>3. CASE CanSwap(cur[t])
  <2>1. PICK g, c, n : g = target[t] /\ c = Writing(cur[t]) /\ n = nxt[t]
    OBVIOUS
  <2>2. /\ Placed(t) /\ Aimed(t, f) /\ Counted(t) /\ call[t].op = "Insert" /\ Writer(t)
        /\ cur[t].mode \in {"read", "write"} /\ ~IsLeaf(cur[t].page) /\ cur[t].page # NoPage
        /\ n.mode = "read" /\ n.page = g /\ n \in Guards
        /\ g \in DOMAIN pages /\ g # NoPage
    BY <2>1, <1>1, ThreadIs DEF Placed, Down, Pair
  <2>3. /\ c \in Guards /\ c.page = cur[t].page /\ c.mode = "write"
        /\ IsValid(cur[t]) /\ MayHold(t, c, NoPage)
    BY <2>1, <2>2, <1>3, SwapIsSafe
  <2>4. /\ SetGuards(t, c, n, NoPage) /\ Goto(t, "split")
        /\ UNCHANGED <<tree, call, target, scan, got, reply, owed>>
    BY <2>1, <1>3 DEF LockParent
  <2>5. /\ flavour' = flavour /\ root' = root /\ pages' = pages /\ dead' = dead /\ retired' = retired
        /\ call' = call /\ path' = path /\ low' = low /\ got' = got /\ reply' = reply /\ target' = target
        /\ owed' \in [Threads -> SUBSET Keys]
    BY <2>4 DEF tree, scan, Holds, TypeOK
  <2>6. pc'[t] = "split" /\ cur'[t] = c /\ nxt'[t] = n
    BY <2>4, ThreadIs
  <2>7. target' = [target EXCEPT ![t] = g]
    BY <2>1, <2>5 DEF Holds, TypeOK
  <2>8. Placed(t)'
    BY <2>1, <2>2, <2>3, <2>5, <2>6 DEF Placed, Still, Pair, Down, Writer, IsLeaf
  <2>9. Aimed(t, f)'
    <3>1. Within(Key(t), f[cur[t].page]) /\ target[t] = Child(cur[t].page, Key(t))
      BY <2>2, <2>3, <1>1 DEF Aimed, Down, Pair
    <3> QED
      BY <3>1, <2>3, <2>5, <2>6 DEF Aimed, Key, Child
  <2>10. Counted(t)'
    <3>1. OthersKept(t)
      <4>1. OnlySelf(t)
        BY <2>4, <2>5 DEF OnlySelf, Goto, Holds, TypeOK
      <4> QED
        BY <4>1, <2>2, <2>3, <2>4, <2>5, GuardsAreSet
    <3>2. Clear(nxt[t])' => HasOverflow(pages[nxt'[t].page])
      <4>1. \A p : Readable(p)' /\ p # NoPage => Readable(p)
        BY <2>2, <2>3, <2>4, <2>5, GuardsAreSet
      <4>2. Clear(nxt[t])' => n.fresh /\ Readable(g)'
        BY <2>2, <2>6 DEF Clear, Readable, HeldFor
      <4>3. Clear(nxt[t])' => Clear(nxt[t])
        BY <4>1, <4>2, <2>1, <2>2 DEF Clear
      <4> QED
        BY <4>3, <2>1, <2>2, <2>6, <1>1 DEF Counted
    <3>3. pc[t] \in Down /\ pc'[t] \in Down
      BY <2>6, <1>1 DEF Down, Pair
    <3>4. cur'[t].page = cur[t].page /\ (cur'[t].mode = cur[t].mode \/ (cur[t].mode = "read" /\ cur'[t].mode = "write"))
      BY <2>2, <2>3, <2>6
    <3> QED
      BY <3>1, <3>2, <3>3, <3>4, <2>2, <2>3, <2>5, OwnCounted
  <2>11. Approaches(t)
    BY <2>1, <2>3, <2>6 DEF Approaches
  <2>12. "split" \in PCs \ {"done", "scan", "pin", "collect"}
    BY DEF PCs
  <2> QED
    BY <2>2, <2>3, <2>4, <2>5, <2>7, <2>8, <2>9, <2>10, <2>11, <2>12, <1>1, Moving
<1> QED
  BY <1>2, <1>3

-------------------------------------------------------------------------
(* Step by step: on the leaf.                                              *)

(* History only forgets. *)
LEMMA OwedLess ==
  ASSUME TypeOK, NEW page, NEW readers, owed' = MovedAway(page, readers)
  PROVE  owed' \in [Threads -> SUBSET Keys]
<1>1. owed \in [Threads -> SUBSET Keys]
  BY DEF TypeOK
<1>2. \A u \in Threads : (IF u \in readers THEN {} ELSE owed[u] \ KeysUnder(page)) \in SUBSET Keys
  BY <1>1
<1> QED
  BY <1>2 DEF MovedAway

(* A leaf that is not full has room for one record more. *)
LEMMA RoomForOne ==
  ASSUME NEW f, NEW h, Holds(f, h), NEW p \in DOMAIN pages, IsLeaf(p)
  PROVE  /\ IsFiniteSet(pages[p].recs) /\ Cardinality(pages[p].recs) \in Nat /\ pages[p].recs \subseteq Keys
         /\ HasOverflow(pages[p]) <=> ~ (Cardinality(pages[p].recs) < NumRecords)
<1>1. PICK page : page = pages[p]
  OBVIOUS
<1>2. page.recs \subseteq Keys /\ IsLeafPage(page)
  BY <1>1 DEF Holds, TypeOK, Pages, IsLeaf
<1>3. IsFiniteSet(page.recs) /\ Cardinality(page.recs) \in Nat
  BY <1>2, KeySetsAreFinite
<1>4. HasOverflow(page) <=> Cardinality(page.recs) >= NumRecords
  BY <1>2 DEF HasOverflow, PageLen
<1>5. NumRecords \in Nat
  BY Numbers
<1> QED
  BY <1>1, <1>2, <1>3, <1>4, <1>5

(* An insert locks the leaf that it has found short enough. *)
LEMMA LockLeafKeeps ==
  ASSUME NEW f, NEW h, Holds(f, h), NEW t \in Threads, LockLeaf(t)
  PROVE  TreeInv'
<1>1. pc[t] = "visit" /\ call[t].op = "Insert" /\ IsLeaf(cur[t].page)
  BY DEF LockLeaf
<1>2. CASE ~CanSwap(cur[t])
  BY <1>1, <1>2, Restarting DEF LockLeaf
<1>3. CASE CanSwap(cur[t])
  <2>1. PICK g, c, n : g = target[t] /\ c = Writing(cur[t]) /\ n = NoGuard
    OBVIOUS
  <2>2. /\ Placed(t) /\ Aimed(t, f) /\ Counted(t) /\ Writer(t) /\ g \in DOMAIN pages \cup {NoPage}
        /\ cur[t].mode = "read" /\ cur[t].page # NoPage /\ cur[t].page \in DOMAIN pages
    BY <2>1, <1>1, ThreadIs, GuardedPages DEF Placed, Down, Pair, Writer, ReadOps
  <2>3. /\ c \in Guards /\ c.page = cur[t].page /\ c.mode = "write"
        /\ IsValid(cur[t]) /\ MayHold(t, c, NoPage)
    BY <2>1, <2>2, <1>3, SwapIsSafe
  <2>4. n \in Guards /\ n.mode = "none" /\ n.page = NoPage
    BY <2>1 DEF NoGuard, Guards
  <2>5. /\ SetGuards(t, c, n, NoPage) /\ Goto(t, "apply")
        /\ owed' = MovedAway(LeafPage({}), Searching(cur[t].page))
        /\ UNCHANGED <<tree, call, target, scan, got, reply>>
    BY <2>1, <1>3 DEF LockLeaf
  <2>6. /\ flavour' = flavour /\ root' = root /\ pages' = pages /\ dead' = dead /\ retired' = retired
        /\ call' = call /\ path' = path /\ low' = low /\ got' = got /\ reply' = reply /\ target' = target
    BY <2>5 DEF tree, scan
  <2>7. owed' \in [Threads -> SUBSET Keys]
    BY <2>5, OwedLess DEF Holds
  <2>8. pc'[t] = "apply" /\ cur'[t] = c /\ nxt'[t] = n
    BY <2>5, ThreadIs
  <2>9. target' = [target EXCEPT ![t] = g]
    BY <2>1, <2>6 DEF Holds, TypeOK
  <2>10. Placed(t)'
    BY <2>2, <2>3, <2>4, <2>6, <2>8, <1>1 DEF Placed, Still, Pair, Down, Writer, IsLeaf
  <2>11. Aimed(t, f)'
    <3>1. Within(Key(t), f[cur[t].page])
      BY <2>2, <2>3, <1>1 DEF Aimed, Down
    <3> QED
      BY <3>1, <2>3, <2>6, <2>8 DEF Aimed, Key, Down, Pair
  <2>12. Counted(t)'
    <3>1. ~HasOverflow(pages[cur[t].page])
      BY <2>2, <2>3, <1>1 DEF Counted, Down
    <3>2. Cardinality(pages[cur[t].page].recs) < NumRecords
      BY <3>1, <2>2, <1>1, RoomForOne
    <3> QED
      BY <3>2, <2>3, <2>6, <2>8 DEF Counted, Down, Pair
  <2>13. Approaches(t)
    BY <2>3, <2>4, <2>8 DEF Approaches
  <2>14. "apply" \in PCs \ {"done", "scan", "pin", "collect"}
    BY DEF PCs
  <2> QED
    BY <2>2, <2>3, <2>4, <2>5, <2>6, <2>7, <2>9, <2>10, <2>11, <2>12, <2>13, <2>14, <1>1, Moving
<1> QED
  BY <1>2, <1>3

(* A reader of a leaf, or a change that will pin it, only looks. *)
LEMMA LeafIsReached ==
  ASSUME NEW f, NEW h, Holds(f, h), NEW t \in Threads, NEW l \in {"append", "search"}, Goto(t, l),
         pc[t] = "visit", IsLeaf(cur[t].page),
         call[t].op \in IF l = "append" THEN AppendOps ELSE ReadOps,
         UNCHANGED <<tree, call, target, cur, nxt, scan, got, reply, owed>>
  PROVE  TreeInv'
<1>1. PICK g : g = target[t]
  OBVIOUS
<1>2. g \in DOMAIN pages \cup {NoPage} /\ target' = [target EXCEPT ![t] = g]
  BY <1>1 DEF Holds, TypeOK
<1>3. /\ pages' = pages /\ root' = root /\ call' = call /\ cur' = cur /\ nxt' = nxt /\ retired' = retired
      /\ pc'[t] = l /\ target' = target
  BY ThreadIs DEF tree
<1>4. Placed(t) /\ cur[t].mode = "read" /\ call[t].op \notin {"Insert", "Range"}
  BY ThreadIs DEF Placed, Down, AppendOps, ReadOps
<1>5. Placed(t)'
  BY <1>3, <1>4 DEF Placed, Still, Pair, Down
<1>6. Aimed(t, f)' /\ Counted(t)'
  BY <1>3, <1>4 DEF Aimed, Counted
<1>7. l \in PCs \ {"done", "scan", "pin", "collect"}
  BY DEF PCs
<1> QED
  BY <1>2, <1>5, <1>6, <1>7, Looking

(* A change validates its leaf. *)
LEMMA ReachLeafKeeps ==
  ASSUME NEW f, NEW h, Holds(f, h), NEW t \in Threads, ReachLeaf(t)
  PROVE  TreeInv'
<1>1. pc[t] = "visit" /\ call[t].op \in AppendOps /\ IsLeaf(cur[t].page)
  BY DEF ReachLeaf
<1>2. CASE ~IsValid(cur[t])
  BY <1>1, <1>2, Restarting DEF ReachLeaf
<1>3. CASE IsValid(cur[t])
  <2>1. cur[t].mode # "write"
    BY <1>1, ThreadIs DEF Placed, Down
  <2>2. Goto(t, "append") /\ UNCHANGED <<tree, call, target, cur, nxt, scan, got, reply, owed>>
    BY <2>1, <1>3 DEF ReachLeaf
  <2> QED
    BY <2>2, <1>1, LeafIsReached
<1> QED
  BY <1>2, <1>3

(* So does a point query. *)
LEMMA TakeRecordsKeeps ==
  ASSUME NEW f, NEW h, Holds(f, h), NEW t \in Threads, TakeRecords(t)
  PROVE  TreeInv'
<1>1. pc[t] = "visit" /\ call[t].op \in ReadOps /\ IsLeaf(cur[t].page)
  BY DEF TakeRecords
<1>2. CASE ~IsValid(cur[t])
  BY <1>1, <1>2, Restarting DEF TakeRecords
<1>3. CASE IsValid(cur[t])
  <2>1. Goto(t, "search") /\ UNCHANGED <<tree, call, target, cur, nxt, scan, got, reply, owed>>
    BY <1>3 DEF TakeRecords
  <2> QED
    BY <2>1, <1>1, LeafIsReached
<1> QED
  BY <1>2, <1>3

(* A leaf that is free is pinned for one thread. *)
LEMMA PinIsSafe ==
  ASSUME NEW f, NEW h, Holds(f, h), NEW t \in Threads, NEW p \in DOMAIN pages, Free(p),
         cur[t].mode # "write", NEW c, c = Pinned(p)
  PROVE  c \in Guards /\ c.page = p /\ c.mode = "pin" /\ c.page # NoPage /\ MayHold(t, c, NoPage)
<1>1. c \in Guards /\ c.page = p /\ c.mode = "pin"
  BY DEF Pinned, Guards
<1>2. ASSUME NEW u \in Threads \ {t}, cur[u].page = c.page PROVE cur[u].mode \notin {"write", "pin"}
  BY <1>1, <1>2 DEF Free, Readable, HeldFor
<1> QED
  BY <1>1, <1>2, GuardedPages DEF MayHold

(* A change pins its leaf. *)
LEMMA PinLeafKeeps ==
  ASSUME NEW f, NEW h, Holds(f, h), NEW t \in Threads, PinLeaf(t)
  PROVE  TreeInv'
<1>1. pc[t] = "append"
  BY DEF PinLeaf
<1>2. CASE ~Free(cur[t].page)
  BY <1>1, <1>2, Restarting DEF PinLeaf
<1>3. CASE Free(cur[t].page)
  <2>1. PICK g, c, n : g = target[t] /\ c = Pinned(cur[t].page) /\ n = NoGuard
    OBVIOUS
  <2>2. /\ Placed(t) /\ call[t].op \in AppendOps /\ g \in DOMAIN pages \cup {NoPage}
        /\ cur[t].mode = "read" /\ cur[t].page \in DOMAIN pages
    BY <2>1, <1>1, ThreadIs, GuardedPages DEF Placed
  <2>3. c \in Guards /\ c.page = cur[t].page /\ c.mode = "pin" /\ c.page # NoPage /\ MayHold(t, c, NoPage)
    BY <2>1, <2>2, <1>3, PinIsSafe
  <2>4. n \in Guards /\ n.mode = "none" /\ n.page = NoPage
    BY <2>1 DEF NoGuard, Guards
  <2>5. /\ SetGuards(t, c, n, NoPage) /\ Goto(t, "apply")
        /\ UNCHANGED <<tree, call, target, scan, got, reply, owed>>
    BY <2>1, <1>3 DEF PinLeaf
  <2>6. /\ flavour' = flavour /\ root' = root /\ pages' = pages /\ dead' = dead /\ retired' = retired
        /\ call' = call /\ path' = path /\ low' = low /\ got' = got /\ reply' = reply /\ target' = target
        /\ owed' \in [Threads -> SUBSET Keys]
    BY <2>5 DEF tree, scan, Holds, TypeOK
  <2>7. pc'[t] = "apply" /\ cur'[t] = c /\ nxt'[t] = n
    BY <2>5, ThreadIs
  <2>8. target' = [target EXCEPT ![t] = g]
    BY <2>1, <2>6 DEF Holds, TypeOK
  <2>9. Placed(t)'
    BY <2>2, <2>3, <2>4, <2>6, <2>7 DEF Placed, Still, Pair, Down
  <2>10. Aimed(t, f)' /\ Counted(t)' /\ Approaches(t)
    BY <2>2, <2>6 DEF Aimed, Counted, Approaches, AppendOps
  <2>11. "apply" \in PCs \ {"done", "scan", "pin", "collect"}
    BY DEF PCs
  <2> QED
    BY <2>2, <2>3, <2>4, <2>5, <2>6, <2>8, <2>9, <2>10, <2>11, <1>1, Moving
<1> QED
  BY <1>2, <1>3

-------------------------------------------------------------------------
(* Step by step: the answers.                                              *)

(* What a thread leaves behind that answers with keys in order. *)
LEMMA Finished ==
  ASSUME NEW f, NEW h, Holds(f, h), NEW t \in Threads, NEW r \in Replies, NEW ks \in Seq(Keys), Finish(t, r, ks),
         NEW a, a = got[t] \o ks, \A i, j \in DOMAIN a : i < j => a[i] < a[j],
         NEW s \in Seq([lo : Keys, hi : Keys, page : DOMAIN pages]), path' = [path EXCEPT ![t] = s],
         DOMAIN pages \subseteq DOMAIN pages', NEW g
  PROVE  /\ Right(t, g)' /\ Approaches(t) /\ OthersKept(t) /\ Exclusive'
         /\ \A p : Readable(p)' /\ p # Unlocked(t) => Readable(p)
         /\ cur' \in [Threads -> Guards'] /\ nxt' \in [Threads -> Guards']
         /\ dead' \subseteq Keys /\ pages' = pages => Typed
         /\ pc' \in [Threads -> PCs] /\ target' = target /\ low' = low /\ owed' \in [Threads -> SUBSET Keys]
         /\ got' \in [Threads -> Seq(Keys)] /\ reply' \in [Threads -> Replies]
         /\ path' \in [Threads -> Seq([lo : Keys, hi : Keys, page : DOMAIN pages])]
<1>1. TypeOK
  BY DEF Holds
<1>2. PICK c, q, l, o : c = NoGuard /\ q = Unlocked(t) /\ l = "done" /\ o = {}
  OBVIOUS
<1>3. /\ SetGuards(t, c, c, q) /\ Goto(t, l) /\ reply' = [reply EXCEPT ![t] = r]
      /\ got' = [got EXCEPT ![t] = a] /\ owed' = [owed EXCEPT ![t] = o]
      /\ root' = root /\ retired' = retired /\ call' = call /\ target' = target /\ low' = low
  BY <1>2, <1>1 DEF Finish, TypeOK
<1>4. c \in Guards /\ c.page = NoPage /\ c.mode = "none" /\ ~c.fresh /\ l \in PCs /\ o \in SUBSET Keys
  BY <1>2 DEF Guards, NoGuard, PCs
<1>5. MayHold(t, c, q)
  BY <1>2, <1>4 DEF MayHold, Unlocked
<1>6. OnlySelf(t)
  BY <1>1, <1>3 DEF OnlySelf, Goto, TypeOK
<1>7. retired \subseteq retired'
  BY <1>3
<1>8. /\ OthersKept(t) /\ Exclusive'
      /\ \A p : Readable(p)' /\ p # q => Readable(p)
      /\ cur' \in [Threads -> Guards'] /\ nxt' \in [Threads -> Guards']
  BY <1>3, <1>4, <1>5, <1>6, <1>7, GuardsAreSet
<1>9. pc'[t] = l /\ cur'[t] = c /\ nxt'[t] = c
  BY <1>3, ThreadIs
<1>10. got'[t] = a
  BY <1>1, <1>3 DEF TypeOK
<1>11. Placed(t)'
  BY <1>2, <1>4, <1>9 DEF Placed, Still, Pair, Down
<1>12. Aimed(t, g)' /\ Counted(t)'
  BY <1>2, <1>9 DEF Aimed, Counted, Down, Pair
<1>13. Ranged(t, g)'
  BY <1>2, <1>9, <1>10 DEF Ranged
<1>14. Approaches(t)
  BY <1>4, <1>9 DEF Approaches
<1>15. pc' \in [Threads -> PCs] /\ owed' \in [Threads -> SUBSET Keys] /\ reply' \in [Threads -> Replies]
  BY <1>1, <1>3, <1>4 DEF TypeOK, Goto, Replies
<1>16. got' \in [Threads -> Seq(Keys)]
  <2>1. got \in [Threads -> Seq(Keys)]
    BY <1>1 DEF TypeOK
  <2>2. a \in Seq(Keys)
    <3>1. got[t] \in Seq(Keys)
      BY <2>1
    <3> QED
      BY <3>1
  <2> QED
    BY <2>1, <2>2, <1>3, Zenon
<1>17. path' \in [Threads -> Seq([lo : Keys, hi : Keys, page : DOMAIN pages])]
  BY <1>1, Zenon DEF TypeOK
<1>18. ASSUME dead' \subseteq Keys, pages' = pages PROVE Typed
  <2>1. Guards' = Guards
    BY <1>18 DEF Guards
  <2>2. target \in [Threads -> DOMAIN pages \cup {NoPage}] /\ low \in [Threads -> Keys]
    BY <1>1 DEF TypeOK
  <2> QED
    BY <2>1, <2>2, <1>3, <1>8, <1>15, <1>16, <1>17, <1>18 DEF Typed
<1>19. Right(t, g)'
  BY <1>11, <1>12, <1>13, Zenon DEF Right
<1> QED
  BY <1>2, <1>3, <1>8, <1>14, <1>15, <1>16, <1>17, <1>18, <1>19

(* An answer that changes no page. *)
LEMMA Finishing ==
  ASSUME NEW f, NEW h, Holds(f, h), NEW t \in Threads, NEW r \in Replies, NEW ks \in Seq(Keys), Finish(t, r, ks),
         NEW a, a = got[t] \o ks, \A i, j \in DOMAIN a : i < j => a[i] < a[j],
         NEW s \in Seq([lo : Keys, hi : Keys, page : DOMAIN pages]), path' = [path EXCEPT ![t] = s],
         pages' = pages, dead' \subseteq Keys
  PROVE  TreeInv'
<1>1. /\ flavour' = flavour /\ root' = root /\ retired' = retired /\ call' = call
      /\ DOMAIN pages \subseteq DOMAIN pages'
  BY DEF Finish
<1>2. Right(t, f)' /\ Approaches(t) /\ OthersKept(t) /\ Exclusive' /\ Typed
  BY <1>1, Finished
<1> QED
  BY <1>1, <1>2, SamePages

(* An answer of one key, or of none. *)
LEMMA Answering ==
  ASSUME NEW f, NEW h, Holds(f, h), NEW t \in Threads, NEW r \in Replies, NEW ks \in Seq(Keys), Finish(t, r, ks),
         pc[t] \in {"apply", "search", "give"}, Len(ks) <= 1,
         pages' = pages, path' = path, dead' \subseteq Keys
  PROVE  TreeInv'
<1>1. got[t] = <<>>
  <2>1. Placed(t) /\ Ranged(t, f)
    BY ThreadIs
  <2>2. call[t].op # "Range"
    BY <2>1 DEF Placed, AppendOps, ReadOps
  <2> QED
    BY <2>1, <2>2 DEF Ranged
<1>2. ks = got[t] \o ks
  BY <1>1
<1>3. \A i, j \in DOMAIN ks : i < j => ks[i] < ks[j]
  <2>1. DOMAIN ks = 1..Len(ks) /\ Len(ks) \in Nat
    OBVIOUS
  <2>2. \A i, j \in DOMAIN ks : ~ (i < j)
    BY <2>1
  <2> QED
    BY <2>2
<1>4. PICK s : s = path[t]
  OBVIOUS
<1>5. path \in [Threads -> Seq([lo : Keys, hi : Keys, page : DOMAIN pages])]
  BY DEF Holds, TypeOK
<1>6. s \in Seq([lo : Keys, hi : Keys, page : DOMAIN pages])
  BY <1>4, <1>5, Zenon
<1>7. path' = [path EXCEPT ![t] = s]
  BY <1>4, <1>5
<1> QED
  BY <1>2, <1>3, <1>6, <1>7, Finishing

(* Updates and deletes. *)
LEMMA ApplyAppendKeeps ==
  ASSUME NEW f, NEW h, Holds(f, h), NEW t \in Threads, ApplyAppend(t)
  PROVE  TreeInv'
<1>1. /\ pc[t] = "apply" /\ pages' = pages /\ path' = path
      /\ Finish(t, "found", <<>>) \/ Finish(t, "missing", <<>>)
      /\ dead' = dead \/ dead' = dead \cup {Key(t)} \/ dead' = dead \ {Key(t)}
  BY DEF ApplyAppend
<1>2. dead' \subseteq Keys
  <2>1. dead \subseteq Keys
    BY DEF Holds, TypeOK
  <2>2. Key(t) \in Keys
    BY ThreadIs
  <2> QED
    BY <2>1, <2>2, <1>1
<1>3. <<>> \in Seq(Keys) /\ Len(<<>>) <= 1 /\ "found" \in Replies /\ "missing" \in Replies
  BY DEF Replies
<1> QED
  BY <1>1, <1>2, <1>3, Answering

(* The leaf of a thread that applies or searches, and its ends. *)
LEMMA LeafEnds ==
  ASSUME NEW f, NEW h, Holds(f, h), NEW t \in Threads, pc[t] \in {"apply", "search", "give"}, pages[cur[t].page].recs # {}
  PROVE  Smallest(pages[cur[t].page].recs) \in Keys /\ Largest(pages[cur[t].page].recs) \in Keys
<1>1. cur[t].mode # "none"
  BY ThreadIs DEF Placed
<1>2. cur[t].page \in DOMAIN pages
  BY <1>1, GuardedPages
<1>3. pages[cur[t].page].recs \subseteq Keys
  BY <1>2 DEF Holds, TypeOK, Pages
<1> QED
  BY <1>3, EndsOf

(* Pops from either end. *)
LEMMA PopKeeps ==
  ASSUME NEW f, NEW h, Holds(f, h), NEW t \in Threads, NEW op, NEW k, ApplyPop(t, op, k),
         pages[cur[t].page].recs # {} => k \in Keys
  PROVE  TreeInv'
<1>1. pc[t] = "apply" /\ pages' = pages /\ path' = path
  BY DEF ApplyPop
<1>2. dead \subseteq Keys
  BY DEF Holds, TypeOK
<1>3. <<>> \in Seq(Keys) /\ Len(<<>>) <= 1 /\ "error" \in Replies /\ "matched" \in Replies
  BY DEF Replies
<1>4. CASE Finish(t, "error", <<>>) /\ dead' = dead
  BY <1>1, <1>2, <1>3, <1>4, Answering
<1>5. CASE k \in Keys /\ Finish(t, "matched", <<k>>) /\ dead' = dead \cup {k}
  <2>1. PICK ks : ks = <<k>>
    OBVIOUS
  <2>2. ks \in Seq(Keys) /\ Len(ks) <= 1 /\ Finish(t, "matched", ks) /\ dead' \subseteq Keys
    BY <2>1, <1>2, <1>5
  <2> QED
    BY <2>2, <1>1, <1>3, Answering
<1> QED
  BY <1>4, <1>5 DEF ApplyPop

(* A read that has found something goes on to look at it. *)
LEMMA FoundKeeps ==
  ASSUME NEW f, NEW h, Holds(f, h), NEW t \in Threads, pc[t] = "search", Goto(t, "give"),
         UNCHANGED <<tree, call, target, cur, nxt, scan, got, reply, owed>>
  PROVE  TreeInv'
<1>1. PICK g : g = target[t]
  OBVIOUS
<1>2. g \in DOMAIN pages \cup {NoPage} /\ target' = [target EXCEPT ![t] = g]
  BY <1>1 DEF Holds, TypeOK
<1>3. /\ pages' = pages /\ root' = root /\ call' = call /\ cur' = cur /\ nxt' = nxt /\ retired' = retired
      /\ pc'[t] = "give" /\ target' = target
  BY ThreadIs DEF tree
<1>4. Placed(t) /\ call[t].op \in ReadOps /\ cur[t].mode = "read" /\ call[t].op \notin {"Insert", "Range"}
  BY ThreadIs DEF Placed, ReadOps
<1>5. Placed(t)'
  BY <1>3, <1>4 DEF Placed, Still, Pair, Down
<1>6. Aimed(t, f)' /\ Counted(t)'
  BY <1>3, <1>4 DEF Aimed, Counted
<1>7. "give" \in PCs \ {"done", "scan", "pin", "collect"}
  BY DEF PCs
<1> QED
  BY <1>2, <1>5, <1>6, <1>7, Looking

(* Point queries search, and read what they have found. *)
LEMMA SearchKeeps ==
  ASSUME NEW f, NEW h, Holds(f, h), NEW t \in Threads, Search(t)
  PROVE  TreeInv'
<1>1. CASE Goto(t, "give") /\ UNCHANGED <<tree, call, target, cur, nxt, scan, got, reply, owed>>
  BY <1>1, FoundKeeps DEF Search
<1>2. CASE Finish(t, "missing", <<>>) /\ UNCHANGED <<pages, dead, path>>
  <2>1. pc[t] = "search" /\ pages' = pages /\ path' = path /\ dead' \subseteq Keys
    BY <1>2 DEF Search, Holds, TypeOK
  <2>2. <<>> \in Seq(Keys) /\ Len(<<>>) <= 1 /\ "missing" \in Replies
    BY DEF Replies
  <2> QED
    BY <2>1, <2>2, <1>2, Answering
<1> QED
  BY <1>1, <1>2 DEF Search

LEMMA GivePointKeeps ==
  ASSUME NEW f, NEW h, Holds(f, h), NEW t \in Threads, GivePoint(t)
  PROVE  TreeInv'
<1>1. pc[t] = "give" /\ pages' = pages /\ path' = path /\ dead' = dead
  BY DEF GivePoint
<1>2. dead' \subseteq Keys
  BY <1>1 DEF Holds, TypeOK
<1>3. PICK r \in {"found", "other", "missing"} : Finish(t, r, <<>>)
  BY DEF GivePoint
<1>4. <<>> \in Seq(Keys) /\ Len(<<>>) <= 1 /\ r \in Replies
  BY DEF Replies
<1> QED
  BY <1>1, <1>2, <1>3, <1>4, Answering

(* Peeks at either end. *)
LEMMA PeekKeeps ==
  ASSUME NEW f, NEW h, Holds(f, h), NEW t \in Threads, NEW op, NEW k, Peek(t, op, k)
  PROVE  TreeInv'
<1>1. CASE Goto(t, "give") /\ UNCHANGED <<tree, call, target, cur, nxt, scan, got, reply, owed>>
  BY <1>1, FoundKeeps DEF Peek
<1>2. CASE Finish(t, "nothing", <<>>) /\ UNCHANGED <<pages, dead, path>>
  <2>1. pc[t] = "search" /\ pages' = pages /\ path' = path /\ dead' \subseteq Keys
    BY <1>2 DEF Peek, Holds, TypeOK
  <2>2. <<>> \in Seq(Keys) /\ Len(<<>>) <= 1 /\ "nothing" \in Replies
    BY DEF Replies
  <2> QED
    BY <2>1, <2>2, <1>2, Answering
<1> QED
  BY <1>1, <1>2 DEF Peek

LEMMA GiveKeeps ==
  ASSUME NEW f, NEW h, Holds(f, h), NEW t \in Threads, NEW op, NEW k, Give(t, op, k),
         pages[cur[t].page].recs # {} => k \in Keys
  PROVE  TreeInv'
<1>1. pc[t] = "give" /\ pages' = pages /\ path' = path /\ dead' = dead
  BY DEF Give
<1>2. dead' \subseteq Keys
  BY <1>1 DEF Holds, TypeOK
<1>3. PICK e \in Upon(t, k), r \in {"matched", "other"} : Finish(t, r, <<e>>)
  BY DEF Give
<1>4. e \in Keys
  <2>1. Stored \subseteq Keys
    BY DEF Stored, Holds, TypeOK, Pages
  <2> QED
    BY <2>1, <1>3 DEF Upon
<1>5. PICK ks : ks = <<e>>
  OBVIOUS
<1>6. ks \in Seq(Keys) /\ Len(ks) <= 1 /\ Finish(t, r, ks) /\ r \in Replies
  BY <1>3, <1>4, <1>5 DEF Replies
<1> QED
  BY <1>1, <1>2, <1>6, Answering

-------------------------------------------------------------------------
(* Steps that change pages.                                                *)

(* A step that leaves the pages a tree is judged by its own thread.        *)
LEMMA NewPages ==
  ASSUME NEW f, NEW h, NEW g, NEW k, Holds(f, h), NEW t \in Threads,
         flavour' = flavour, root' = root, call' = call, retired' \subseteq DOMAIN pages', dead' \subseteq Keys,
         Kept(t, f, g), Grows(g, k)', Exclusive', Right(t, g)',
         pc' \in [Threads -> PCs], target' = target, low' = low,
         cur' \in [Threads -> Guards'], nxt' \in [Threads -> Guards'],
         path' \in [Threads -> Seq([lo : Keys, hi : Keys, page : DOMAIN pages])],
         got' \in [Threads -> Seq(Keys)], reply' \in [Threads -> Replies], owed' \in [Threads -> SUBSET Keys]
  PROVE  TreeInv'
<1>1. TypeOK
  BY DEF Holds
<1>2. PICK ps, r, n : ps = pages' /\ r = root' /\ n = Len(pages')
  OBVIOUS
<1>3. IsTree(ps, r, g, k)
  BY <1>2 DEF Grows
<1>4. DOMAIN ps = 1..n /\ r \in DOMAIN ps /\ ps \in Seq(AnyPage(n))
  BY <1>2, <1>3, TreeOf
<1>5. ASSUME NEW p \in DOMAIN ps
      PROVE  /\ ps[p] \in [seps : Seq(Keys), kids : Seq(DOMAIN ps), recs : SUBSET Keys]
             /\ ~IsLeafPage(ps[p]) => Len(ps[p].kids) = Len(ps[p].seps) + 1
  <2>1. IsPage(ps[p], n)
    BY <1>2, <1>3, PageOf
  <2> QED
    BY <2>1, <1>4 DEF IsPage, AnyPage
<1>6. \A p \in DOMAIN pages' : /\ pages'[p] \in Pages'
                               /\ ~IsLeafPage(pages'[p]) => Len(pages'[p].kids) = Len(pages'[p].seps) + 1
  BY <1>2, <1>5 DEF Pages
<1>7. DOMAIN pages \subseteq DOMAIN pages'
  BY DEF Kept, PagesKept
<1>8. target \in [Threads -> DOMAIN pages' \cup {NoPage}]
  BY <1>1, <1>7 DEF TypeOK
<1>9. path' \in [Threads -> Seq([lo : Keys, hi : Keys, page : DOMAIN pages'])]
  <2>1. PICK R, S : /\ R = [lo : Keys, hi : Keys, page : DOMAIN pages]
                    /\ S = [lo : Keys, hi : Keys, page : DOMAIN pages']
    OBVIOUS
  <2>2. R \subseteq S
    BY <2>1, <1>7
  <2>3. Seq(R) \subseteq Seq(S)
    BY <2>2, SeqMonotonic
  <2>4. path' \in [Threads -> Seq(R)]
    BY <2>1
  <2>5. path' \in [Threads -> Seq(S)]
    BY <2>3, <2>4
  <2> QED
    BY <2>1, <2>5
<1>10. TypeOK'
  <2>1. flavour' \in {OLC, LHL} /\ root' \in DOMAIN pages' /\ call' \in [Threads -> Calls]
    BY <1>1, <1>2, <1>4 DEF TypeOK
  <2>2. low' \in [Threads -> Keys]
    BY <1>1 DEF TypeOK
  <2> QED
    BY <2>1, <2>2, <1>6, <1>8, <1>9 DEF TypeOK, IsLeaf, Replies
<1>11. InsertsStayBelow'
  BY DEF Holds, InsertsStayBelow, Key
<1> QED
  BY <1>10, <1>11, OthersRight, Zenon

(* A page that is unlocked is hidden from those who have looked at it.     *)
LEMMA UnlockedHides ==
  ASSUME NEW f, NEW h, Holds(f, h), NEW t \in Threads,
         NEW c \in Guards, NEW n \in Guards, NEW q \in DOMAIN pages, SetGuards(t, c, n, q),
         \A u \in Threads \ {t} : cur[u].page = q => cur[u].mode \notin {"write", "pin"}
  PROVE  Hidden(t, q)
<1> SUFFICES ASSUME NEW u \in Threads \ {t}
             PROVE  /\ cur[u].page = q => ~IsValid(cur[u])'
                    /\ nxt[u].page = q => ~Clear(nxt[u])'
  BY Zenon DEF Hidden
<1>1. /\ cur[u] \in Guards /\ nxt[u] \in Guards /\ Placed(u) /\ q # NoPage
      /\ nxt[u].mode \in {"none", "read"}
  BY ThreadIs, GuardedPages
<1>2. cur'[u] = After(cur[u], q) /\ nxt'[u] = After(nxt[u], q)
  BY DEF SetGuards
<1>3. ASSUME cur[u].page = q PROVE ~IsValid(cur[u])'
  <2>1. cur[u].mode = "read"
    BY <1>1, <1>3 DEF Guards, Placed
  <2>2. cur'[u].mode = "read" /\ ~cur'[u].fresh
    BY <2>1, <1>1, <1>2, <1>3 DEF After, Guards
  <2> QED
    BY <2>2 DEF IsValid
<1>4. ASSUME nxt[u].page = q PROVE ~Clear(nxt[u])'
  <2>1. nxt[u].mode = "read"
    BY <1>1, <1>4 DEF Placed
  <2>2. ~nxt'[u].fresh
    BY <2>1, <1>1, <1>2, <1>4 DEF After, Guards
  <2> QED
    BY <2>2 DEF Clear
<1> QED
  BY <1>3, <1>4

(* So is a page that is locked.                                            *)
LEMMA LockedHides ==
  ASSUME NEW t \in Threads, OthersKept(t), Exclusive', NEW p, cur'[t].page = p, cur'[t].mode = "write"
  PROVE  Hidden(t, p)
<1> SUFFICES ASSUME NEW u \in Threads \ {t}
             PROVE  /\ cur[u].page = p => ~IsValid(cur[u])'
                    /\ nxt[u].page = p => ~Clear(nxt[u])'
  BY Zenon DEF Hidden
<1>1. cur'[u].page = cur[u].page /\ nxt'[u].page = nxt[u].page
  BY DEF OthersKept
<1>2. ~Readable(p)'
  BY DEF Readable, HeldFor
<1>3. ASSUME cur[u].page = p PROVE ~IsValid(cur[u])'
  <2>1. cur'[u].mode \notin {"write", "pin"}
    BY <1>1, <1>3 DEF Exclusive
  <2> QED
    BY <2>1, <1>1, <1>2, <1>3 DEF IsValid, Readable, HeldFor
<1>4. ASSUME nxt[u].page = p PROVE ~Clear(nxt[u])'
  BY <1>1, <1>2, <1>4 DEF Clear, Readable, HeldFor
<1> QED
  BY <1>3, <1>4

(* An insert stores its record on the leaf that it has locked.             *)
LEMMA ApplyInsertKeeps ==
  ASSUME NEW f, NEW h, Holds(f, h), NEW t \in Threads, ApplyInsert(t)
  PROVE  TreeInv'
<1>1. /\ pc[t] = "apply" /\ call[t].op = "Insert"
      /\ pages' = [pages EXCEPT ![cur[t].page].recs = @ \cup {Key(t)}]
      /\ dead' = dead \ {Key(t)} /\ path' = path
      /\ flavour' = flavour /\ root' = root /\ retired' = retired /\ call' = call /\ target' = target /\ low' = low
  BY DEF ApplyInsert, Finish
<1>2. /\ Placed(t) /\ Aimed(t, f) /\ Counted(t) /\ Ranged(t, f) /\ Key(t) \in Keys
      /\ cur[t].mode = "write" /\ IsLeaf(cur[t].page) /\ cur[t].page \in DOMAIN pages
      /\ IsValid(cur[t])
  BY <1>1, ThreadIs, GuardedPages DEF Placed, AppendOps, IsValid
<1>3. PICK ps, qs, r, p, k : ps = pages /\ qs = pages' /\ r = root /\ p = cur[t].page /\ k = Key(t)
  OBVIOUS
<1>4. /\ Within(k, f[p]) /\ k < MaxKey /\ Cardinality(ps[p].recs) < NumRecords
  BY <1>1, <1>2, <1>3 DEF Aimed, Counted, Holds, InsertsStayBelow
<1>5. /\ IsTree(ps, r, f, h) /\ p \in DOMAIN ps /\ IsLeafPage(ps[p]) /\ ~IsLeafPage(ps[r]) /\ p # r
      /\ \A q \in DOMAIN ps : Room(ps[q]) /\ (q # r => ~HasUnderflow(ps[q]))
  BY <1>2, <1>3 DEF Holds, Grows, IsLeaf
<1>6. qs = StorePages(ps, p, k) /\ k \in Keys
  BY <1>1, <1>2, <1>3 DEF StorePages
<1>7. /\ IsTree(qs, r, f, h)
      /\ \A q \in DOMAIN ps : IsLeafPage(qs[q]) <=> IsLeafPage(ps[q])
      /\ qs[p] = LeafPage(ps[p].recs \cup {k})
      /\ DOMAIN qs = DOMAIN ps /\ \A q \in DOMAIN ps \ {p} : qs[q] = ps[q]
  <2>1. IsTree(ps, r, f, h) /\ p \in DOMAIN ps /\ IsLeafPage(ps[p])
    BY <1>5
  <2>2. k \in Keys /\ k < MaxKey /\ Within(k, f[p]) /\ qs = StorePages(ps, p, k)
    BY <1>4, <1>6
  <2> QED
    BY <2>1, <2>2, RecordIsStored
<1>8. Room(qs[p]) /\ ~HasUnderflow(qs[p])
  <2>1. PICK S : S = ps[p].recs
    OBVIOUS
  <2>2. S \subseteq Keys /\ ps[p] = LeafPage(S)
    <3>1. IsPage(ps[p], Len(ps))
      BY <1>5, PageOf
    <3> QED
      BY <3>1, <2>1, <1>5 DEF IsPage, AnyPage, LeafPage, IsLeafPage
  <2>3. Room(LeafPage(S \cup {k})) /\ (~HasUnderflow(LeafPage(S)) => ~HasUnderflow(LeafPage(S \cup {k})))
    BY <2>1, <2>2, <1>4, <1>6, OneMore
  <2>4. ~HasUnderflow(ps[p])
    BY <1>5
  <2> QED
    BY <2>1, <2>2, <2>3, <2>4, <1>7
<1>9. Grows(f, h)'
  <2>1. \A q \in DOMAIN qs : Room(qs[q]) /\ (q # r => ~HasUnderflow(qs[q]))
    BY <1>5, <1>7, <1>8
  <2>2. ~IsLeafPage(qs[r])
    BY <1>5, <1>7, TreeOf
  <2> QED
    BY <2>1, <2>2, <1>1, <1>3, <1>7 DEF Grows, IsLeaf
<1>10. PICK ks, a, s : ks = <<>> /\ a = got[t] \o ks /\ s = path[t]
  OBVIOUS
<1>11. Finish(t, "stored", ks) /\ "stored" \in Replies /\ ks \in Seq(Keys)
  BY <1>10 DEF ApplyInsert, Replies
<1>12. a = <<>>
  BY <1>1, <1>2, <1>10 DEF Ranged
<1>13. \A i, j \in DOMAIN a : i < j => a[i] < a[j]
  BY <1>12
<1>14. s \in Seq([lo : Keys, hi : Keys, page : DOMAIN pages]) /\ path' = [path EXCEPT ![t] = s]
  <2>1. path \in [Threads -> Seq([lo : Keys, hi : Keys, page : DOMAIN pages])]
    BY DEF Holds, TypeOK
  <2>2. s \in Seq([lo : Keys, hi : Keys, page : DOMAIN pages])
    BY <2>1, <1>10, Zenon
  <2> QED
    BY <2>1, <2>2, <1>1, <1>10
<1>15. DOMAIN pages \subseteq DOMAIN pages'
  BY <1>3, <1>7
<1>16. /\ Right(t, f)' /\ Approaches(t) /\ OthersKept(t) /\ Exclusive'
       /\ cur' \in [Threads -> Guards'] /\ nxt' \in [Threads -> Guards']
       /\ pc' \in [Threads -> PCs] /\ owed' \in [Threads -> SUBSET Keys]
       /\ got' \in [Threads -> Seq(Keys)] /\ reply' \in [Threads -> Replies]
       /\ path' \in [Threads -> Seq([lo : Keys, hi : Keys, page : DOMAIN pages])]
  BY <1>10, <1>11, <1>13, <1>14, <1>15, Finished
<1>17. Hidden(t, p)
  <2>1. PICK c : c = NoGuard
    OBVIOUS
  <2>2. SetGuards(t, c, c, p) /\ c \in Guards
    BY <2>1, <1>2, <1>3, <1>11 DEF Finish, Unlocked, NoGuard, Guards
  <2>3. \A u \in Threads \ {t} : cur[u].page = p => cur[u].mode \notin {"write", "pin"}
    BY <1>2, <1>3 DEF Holds, Exclusive
  <2> QED
    BY <2>2, <2>3, <1>2, <1>3, UnlockedHides
<1>18. Kept(t, f, f)
  <2>1. InReach(t, p)
    BY <1>1, <1>2, <1>3 DEF InReach
  <2>2. \A q \in DOMAIN ps : f[q].hi \in Nat
    BY <1>5, PageOf, Numbers
  <2>3. PagesKept(t, f, f)
    BY <2>1, <2>2, <1>3, <1>7, <1>15, <1>17 DEF PagesKept
  <2> QED
    BY <2>3, <1>16 DEF Kept
<1>19. retired' \subseteq DOMAIN pages' /\ dead' \subseteq Keys
  BY <1>1, <1>15 DEF Holds, TypeOK
<1> QED
  BY <1>1, <1>9, <1>16, <1>18, <1>19, NewPages

(* The root of an index is split under the root's own latch.               *)
LEMMA SplitRootKeeps ==
  ASSUME NEW f, NEW h, Holds(f, h), NEW t \in Threads, SplitRoot(t)
  PROVE  TreeInv'
<1>1. pc[t] = "checkroot" /\ TRUE \in SeesOverflow(cur[t].page)
  BY DEF SplitRoot
<1>2. CASE ~CanSwap(cur[t])
  BY <1>1, <1>2, Restarting DEF SplitRoot
<1>3. CASE CanSwap(cur[t])
  <2>1. PICK c, n : c = Writing(cur[t]) /\ n = NoGuard
    OBVIOUS
  <2>2. /\ Placed(t) /\ Aimed(t, f) /\ Ranged(t, f) /\ Writer(t) /\ call[t].op # "Range"
        /\ cur[t].mode = "read" /\ cur[t].page = root /\ Key(t) \in Keys
    BY <1>1, ThreadIs DEF Placed
  <2>3. /\ c \in Guards /\ c.page = root /\ c.mode = "write"
        /\ IsValid(cur[t]) /\ MayHold(t, c, NoPage)
    BY <2>1, <2>2, <1>3, SwapIsSafe
  <2>4. n \in Guards /\ n.mode = "none" /\ n.page = NoPage
    BY <2>1 DEF NoGuard, Guards
  <2>5. /\ SetGuards(t, c, n, NoPage) /\ Goto(t, "visit")
        /\ UNCHANGED <<flavour, dead, retired, call, target, scan, got, reply>>
        /\ IF IsLeaf(root) THEN SplitLeafRoot(root) ELSE SplitIndexRoot(root)
    BY <2>1, <2>2, <1>3 DEF SplitRoot
  <2>6. PICK ps, qs, r, m, hh : ps = pages /\ qs = pages' /\ r = root /\ m = Len(pages) /\ hh = Halves(pages[root])
    OBVIOUS
  <2>7. /\ IsTree(ps, r, f, h) /\ ~IsLeafPage(ps[r])
        /\ \A p \in DOMAIN ps : Room(ps[p]) /\ (p # r => ~HasUnderflow(ps[p]))
    BY <2>6 DEF Holds, Grows, IsLeaf
  <2>8. SplitIndexRoot(root)
    BY <2>5, <2>6, <2>7 DEF IsLeaf
  <2>9. qs = RootPages(ps, r, hh) /\ root' = root /\ owed' = owed
    BY <2>6, <2>8 DEF SplitIndexRoot, RootPages
  <2>10. RootSplits(ps, r, f, h, hh, m)
    <3>1. Readable(root)
      BY <2>2, <1>3 DEF CanSwap, Free
    <3>2. HasOverflow(ps[r])
      BY <3>1, <2>2, <2>6, <1>1 DEF SeesOverflow
    <3>3. r \in DOMAIN ps
      BY <2>7, TreeOf
    <3> QED
      BY <3>2, <3>3, <2>6, <2>7 DEF RootSplits
  <2>11. PICK g, k : g = RootFence(f, r, m, hh.sep) /\ k = RootHeight(h, r, m)
    OBVIOUS
  <2>12. IsTree(qs, r, g, k)
    BY <2>9, <2>10, <2>11, RootIsSplit
  <2>13. /\ DOMAIN ps \subseteq DOMAIN qs
         /\ ~IsLeafPage(qs[r]) /\ Room(qs[r]) /\ ~HasOverflow(qs[r])
         /\ \A q \in DOMAIN ps : g[q] = f[q] /\ (q # r => qs[q] = ps[q])
         /\ \A q \in DOMAIN qs \ DOMAIN ps : Room(qs[q]) /\ ~HasUnderflow(qs[q])
    BY <2>9, <2>10, <2>11, RootOverHalves
  <2>14. Grows(g, k)'
    <3>1. \A q \in DOMAIN qs : Room(qs[q]) /\ (q # r => ~HasUnderflow(qs[q]))
      BY <2>7, <2>13
    <3> QED
      BY <3>1, <2>6, <2>9, <2>12, <2>13 DEF Grows, IsLeaf
  <2>15. /\ flavour' = flavour /\ root' = root /\ dead' = dead /\ retired' = retired
         /\ call' = call /\ path' = path /\ low' = low /\ got' = got /\ reply' = reply /\ target' = target
         /\ DOMAIN pages \subseteq DOMAIN pages' /\ retired \subseteq retired'
    BY <2>5, <2>6, <2>9, <2>13 DEF scan
  <2>16. pc'[t] = "visit" /\ cur'[t] = c /\ nxt'[t] = n
    BY <2>5, ThreadIs
  <2>17. OnlySelf(t)
    BY <2>5, <2>15 DEF OnlySelf, Goto, Holds, TypeOK
  <2>18. /\ cur' \in [Threads -> Guards'] /\ nxt' \in [Threads -> Guards'] /\ Exclusive' /\ OthersKept(t)
    BY <2>3, <2>4, <2>5, <2>15, <2>17, GuardsAreSet
  <2>19. Right(t, g)'
    <3>1. root # NoPage
      BY <2>7, <2>6, TreeOf, GuardedPages
    <3>2. Placed(t)'
      BY <3>1, <2>2, <2>3, <2>4, <2>6, <2>13, <2>15, <2>16 DEF Placed, Still, Pair, Down, Writer, IsLeaf
    <3>3. Within(Key(t), g[root])
      BY <2>2, <2>6, <2>7, <2>13, TreeOf
    <3>4. Aimed(t, g)'
      BY <3>3, <2>3, <2>15, <2>16 DEF Aimed, Key, Down, Pair
    <3>5. Counted(t)'
      BY <2>3, <2>6, <2>13, <2>16 DEF Counted
    <3>6. Ranged(t, g)'
      BY <2>2, <2>15, <2>16, <1>1 DEF Ranged
    <3> QED
      BY <3>2, <3>4, <3>5, <3>6, Zenon DEF Right
  <2>20. Kept(t, f, g)
    <3>1. Hidden(t, root)
      BY <2>3, <2>16, <2>18, LockedHides
    <3>2. InReach(t, root)
      BY DEF InReach
    <3>3. \A q \in DOMAIN ps : f[q].hi \in Nat
      BY <2>7, PageOf, Numbers
    <3>4. ASSUME NEW p \in DOMAIN ps
          PROVE  /\ IsLeafPage(qs[p]) <=> IsLeafPage(ps[p])
                 /\ g[p].hi \in Nat /\ g[p].hi <= f[p].hi
                 /\ (qs[p] = ps[p] /\ g[p] = f[p]) \/ (InReach(t, p) /\ Hidden(t, p))
      BY <3>1, <3>2, <3>3, <2>6, <2>7, <2>13
    <3>5. PagesKept(t, f, g)
      BY <3>4, <2>6, <2>15 DEF PagesKept
    <3>6. Approaches(t)
      BY <2>3, <2>4, <2>16 DEF Approaches
    <3> QED
      BY <3>5, <3>6, <2>18 DEF Kept
  <2>21. /\ pc' \in [Threads -> PCs] /\ dead' \subseteq Keys /\ retired' \subseteq DOMAIN pages'
         /\ got' \in [Threads -> Seq(Keys)] /\ reply' \in [Threads -> Replies] /\ owed' \in [Threads -> SUBSET Keys]
    BY <2>5, <2>9, <2>15 DEF Holds, TypeOK, Goto, PCs, Replies
  <2>22. path' \in [Threads -> Seq([lo : Keys, hi : Keys, page : DOMAIN pages])]
    BY <2>15 DEF Holds, TypeOK
  <2> QED
    BY <2>14, <2>15, <2>18, <2>19, <2>20, <2>21, <2>22, NewPages
<1> QED
  BY <1>2, <1>3

(* Nobody else comes with a valid guard to the child that t cuts under its *)
(* locked parent.                                                          *)
LEMMA NobodyFollows ==
  ASSUME NEW f, NEW h, Holds(f, h), NEW t \in Threads, cur[t].mode = "write", ~IsLeaf(cur[t].page),
         NEW c, c = Child(cur[t].page, Key(t)),
         NEW u \in Threads \ {t}, call[u].op = "Insert", nxt[u].page = c
  PROVE  ~IsValid(cur[u])
<1> SUFFICES ASSUME IsValid(cur[u]) PROVE FALSE
  OBVIOUS
<1>1. cur[t].page \in DOMAIN pages
  BY GuardedPages
<1>2. /\ c \in DOMAIN pages
      /\ \A q \in DOMAIN pages, k \in Keys : ~IsLeaf(q) /\ c = Child(q, k) => q = cur[t].page
  BY <1>1, ChildOfInsert
<1>3. Placed(u) /\ Aimed(u, f) /\ Key(u) \in Keys
  BY ThreadIs
<1>4. c # NoPage
  BY <1>2, GuardedPages
<1>5. pc[u] \in Pair /\ target[u] = c
  BY <1>3, <1>4 DEF Placed
<1>6. ~IsLeaf(cur[u].page) /\ cur[u].mode \in {"read", "write"} /\ c = Child(cur[u].page, Key(u))
  BY <1>3, <1>5 DEF Placed, Aimed, Down, Pair
<1>7. cur[u].page \in DOMAIN pages
  BY <1>6, GuardedPages
<1>8. cur[u].page = cur[t].page
  BY <1>2, <1>3, <1>6, <1>7
<1>9. cur[u].mode # "write"
  BY <1>8 DEF Holds, Exclusive
<1>10. Readable(cur[u].page)
  BY <1>6, <1>9 DEF IsValid
<1> QED
  BY <1>8, <1>10 DEF Readable, HeldFor

(* What t knows when it may cut a child. *)
LEMMA ChildMayBeCut ==
  ASSUME NEW f, NEW h, Holds(f, h), NEW t \in Threads, pc[t] = "split", CanSwap(nxt[t]),
         NEW p, p = cur[t].page, NEW c, c = nxt[t].page, NEW pos, pos = ChildPos(pages[p], Key(t))
  PROVE  /\ Splits(pages, root, f, h, p, pos, c, Halves(pages[c]), Len(pages)) /\ ~HasOverflow(pages[p])
         /\ Within(Key(t), f[p]) /\ Within(Key(t), f[c]) /\ c = Child(p, Key(t)) /\ Key(t) \in Keys
         /\ p \in DOMAIN pages /\ c \in DOMAIN pages /\ c # p /\ ~IsLeaf(p)
         /\ cur[t].mode = "write" /\ call[t].op = "Insert" /\ Free(c)
<1>1. /\ Aimed(t, f) /\ Counted(t) /\ Key(t) \in Keys /\ call[t].op = "Insert"
      /\ cur[t].mode = "write" /\ ~IsLeaf(p) /\ nxt[t].mode = "read" /\ c = target[t]
      /\ p \in DOMAIN pages
  BY ThreadIs, GuardedPages DEF Placed, Down, Pair
<1>2. IsValid(cur[t])
  BY <1>1 DEF IsValid
<1>3. c = Child(p, Key(t)) /\ Within(Key(t), f[p])
  BY <1>1, <1>2 DEF Aimed, Down, Pair
<1>4. nxt[t].fresh /\ Free(c)
  BY <1>1 DEF CanSwap
<1>5. HasOverflow(pages[c])
  BY <1>1, <1>4 DEF Counted, Clear, Free
<1>6. ~HasOverflow(pages[p])
  BY <1>1, <1>3, <1>5 DEF Counted, Down, Pair, Quiet
<1>7. c \in DOMAIN pages /\ c # p /\ Within(Key(t), f[c])
  BY <1>1, <1>3, ChildOfInsert
<1>8. PICK ps, r, k : ps = pages /\ r = root /\ k = Key(t)
  OBVIOUS
<1>9. IsTree(ps, r, f, h) /\ p \in DOMAIN ps /\ ~IsLeafPage(ps[p]) /\ k \in Keys /\ Room(ps[c])
  BY <1>1, <1>7, <1>8 DEF Holds, Grows, IsLeaf
<1>10. pos = ChildPos(ps[p], k)
  BY <1>8
<1>11. pos \in DOMAIN ps[p].kids
  BY <1>9, <1>10, SearchFinds
<1>12. c = ps[p].kids[pos]
  BY <1>3, <1>8 DEF Child
<1>13. PICK hh, m : hh = Halves(ps[c]) /\ m = Len(ps)
  OBVIOUS
<1>14. Splits(ps, r, f, h, p, pos, c, hh, m)
  BY <1>5, <1>8, <1>9, <1>11, <1>12, <1>13 DEF Splits
<1> QED
  BY <1>1, <1>3, <1>4, <1>6, <1>7, <1>8, <1>13, <1>14

(* A full child is cut under its locked parent.                            *)
LEMMA SplitChildKeeps ==
  ASSUME NEW f, NEW h, Holds(f, h), NEW t \in Threads, SplitChild(t)
  PROVE  TreeInv'
<1>1. pc[t] = "split"
  BY DEF SplitChild
<1>2. CASE ~CanSwap(nxt[t])
  BY <1>1, <1>2, Restarting DEF SplitChild
<1>3. CASE CanSwap(nxt[t])
  <2>1. PICK a, n, p, c, pos : /\ a = cur[t] /\ n = NoGuard /\ p = cur[t].page /\ c = nxt[t].page
                               /\ pos = ChildPos(pages[p], Key(t))
    OBVIOUS
  <2>2. PICK ps, qs, r, m, hh : ps = pages /\ qs = pages' /\ r = root /\ m = Len(pages) /\ hh = Halves(pages[c])
    OBVIOUS
  <2>3. /\ Splits(ps, r, f, h, p, pos, c, hh, m) /\ ~HasOverflow(ps[p])
        /\ Within(Key(t), f[p]) /\ Within(Key(t), f[c]) /\ c = Child(p, Key(t)) /\ Key(t) \in Keys
        /\ p \in DOMAIN ps /\ c \in DOMAIN ps /\ c # p /\ ~IsLeaf(p)
        /\ a.mode = "write" /\ call[t].op = "Insert" /\ Free(c)
    BY <2>1, <2>2, <1>1, <1>3, ChildMayBeCut
  <2>4. /\ pages' = Append([pages EXCEPT ![p] = AddChild(@, pos, hh.sep, Len(pages) + 1),
                                         ![c] = hh.left], hh.right)
        /\ retired' = Retired(c) /\ SetGuards(t, a, n, c) /\ Goto(t, "visit")
        /\ owed' = MovedAway(hh.right, Searching(c))
        /\ UNCHANGED <<flavour, root, dead, call, target, scan, got, reply>>
    BY <2>1, <2>2, <1>3 DEF SplitChild
  <2>5. qs = SplitPages(ps, p, pos, c, hh)
    BY <2>2, <2>4 DEF SplitPages
  <2>6. PICK g, k : g = SplitFence(f, c, m, hh.sep) /\ k = SplitHeight(h, c, m)
    OBVIOUS
  <2>7. IsTree(qs, r, g, k)
    BY <2>3, <2>5, <2>6, ChildIsSplit
  <2>8. /\ IsTree(ps, r, f, h) /\ ~IsLeafPage(ps[r])
        /\ \A q \in DOMAIN ps : Room(ps[q]) /\ (q # r => ~HasUnderflow(ps[q]))
    BY <2>2 DEF Holds, Grows, IsLeaf
  <2>9. /\ DOMAIN ps \subseteq DOMAIN qs /\ m + 1 \notin DOMAIN ps
        /\ \A q \in DOMAIN ps : /\ IsLeafPage(qs[q]) <=> IsLeafPage(ps[q])
                                /\ q # c => g[q] = f[q]
                                /\ q \notin {p, c} => qs[q] = ps[q]
                                /\ g[q].hi \in Nat /\ g[q].hi <= f[q].hi
        /\ \A q \in DOMAIN qs : Room(qs[q]) /\ (q # r => ~HasUnderflow(qs[q]))
        /\ ~HasOverflow(qs[c]) /\ ~HasOverflow(qs[m + 1])
        /\ \A x \in Keys : Within(x, f[c]) => qs[p].kids[ChildPos(qs[p], x)] \in {c, m + 1}
    BY <2>3, <2>5, <2>6, <2>8, ChildOverHalves
  <2>10. /\ flavour' = flavour /\ root' = root /\ dead' = dead /\ retired \subseteq retired'
         /\ call' = call /\ path' = path /\ low' = low /\ got' = got /\ reply' = reply /\ target' = target
         /\ DOMAIN pages \subseteq DOMAIN pages'
    BY <2>2, <2>4, <2>9 DEF scan, Retired
  <2>11. Grows(g, k)'
    <3>1. ~IsLeafPage(qs[r])
      BY <2>8, <2>9, TreeOf
    <3> QED
      BY <3>1, <2>2, <2>7, <2>9, <2>10 DEF Grows, IsLeaf
  <2>12. a \in Guards /\ n \in Guards /\ n.mode = "none" /\ n.page = NoPage /\ a.page = p
    BY <2>1, ThreadIs DEF NoGuard, Guards
  <2>13. pc'[t] = "visit" /\ cur'[t] = a /\ nxt'[t] = n
    BY <2>4, ThreadIs
  <2>14. MayHold(t, a, c)
    BY <2>1, <2>3 DEF MayHold, Holds, Exclusive
  <2>15. OnlySelf(t)
    BY <2>4, <2>10 DEF OnlySelf, Goto, Holds, TypeOK
  <2>16. /\ cur' \in [Threads -> Guards'] /\ nxt' \in [Threads -> Guards'] /\ Exclusive' /\ OthersKept(t)
    BY <2>4, <2>10, <2>12, <2>14, <2>15, GuardsAreSet
  <2>17. Hidden(t, p) /\ Hidden(t, c)
    <3>1. Hidden(t, p)
      BY <2>3, <2>12, <2>13, <2>16, LockedHides
    <3>2. \A u \in Threads \ {t} : cur[u].page = c => cur[u].mode \notin {"write", "pin"}
      BY <2>3 DEF Free, Readable, HeldFor
    <3>3. c \in DOMAIN pages
      BY <2>2, <2>3
    <3>4. Hidden(t, c)
      BY <3>2, <3>3, <2>4, <2>12, UnlockedHides
    <3> QED
      BY <3>1, <3>4
  <2>18. Quiet(t, Child(cur[t].page, Key(t)))'
    <3>1. PICK x : x = Child(cur[t].page, Key(t))'
      OBVIOUS
    <3>2. x \in {c, m + 1}
      <4>1. x = qs[p].kids[ChildPos(qs[p], Key(t))]
        BY <3>1, <2>2, <2>10, <2>12, <2>13 DEF Child, Key
      <4> QED
        BY <4>1, <2>3, <2>9
    <3>3. ~HasOverflow(pages'[x])
      BY <3>2, <2>2, <2>9
    <3>4. ASSUME NEW u \in Threads \ {t}, call'[u].op = "Insert", x \in {cur'[u].page, nxt'[u].page}
          PROVE  ~IsValid(cur[u])'
      <4>1. /\ x \in {cur[u].page, nxt[u].page} /\ call[u].op = "Insert"
            /\ IsValid(cur[u])' => IsValid(cur[u])
        BY <3>4, <2>10, <2>16 DEF OthersKept
      <4>2. x # m + 1
        <5>1. cur[u].page \in DOMAIN ps \cup {NoPage} /\ nxt[u].page \in DOMAIN ps \cup {NoPage}
          BY <2>2, GuardedPages
        <5>2. m \in Nat
          BY <2>2, <2>8, TreeOf
        <5>3. m + 1 # NoPage
          BY <5>2 DEF NoPage
        <5> QED
          BY <5>1, <5>3, <4>1, <2>9
      <4>3. x = c
        BY <3>2, <4>2
      <4>4. CASE cur[u].page = c
        BY <4>4, <2>17, Zenon DEF Hidden
      <4>5. CASE nxt[u].page = c
        <5>1. ~IsValid(cur[u])
          BY <4>1, <4>5, <2>1, <2>3, NobodyFollows
        <5> QED
          BY <5>1, <4>1, Zenon
      <4> QED
        BY <4>1, <4>3, <4>4, <4>5
    <3>5. Quiet(t, x)'
      BY <3>3, <3>4 DEF Quiet
    <3> QED
      BY <3>1, <3>5 DEF Quiet
  <2>19. Right(t, g)'
    <3>1. p # NoPage /\ call[t].op # "Range" /\ Placed(t) /\ Ranged(t, f) /\ ~IsLeafPage(qs[p])
      BY <2>2, <2>3, <2>9, GuardedPages, ThreadIs DEF IsLeaf
    <3>2. Placed(t)'
      BY <3>1, <2>2, <2>3, <2>10, <2>12, <2>13 DEF Placed, Still, Pair, Down, Writer, IsLeaf, ReadOps
    <3>3. Within(Key(t), g[p])
      BY <2>3, <2>9
    <3>4. Aimed(t, g)'
      BY <3>3, <2>10, <2>12, <2>13 DEF Aimed, Key, Down, Pair
    <3>5. Counted(t)'
      BY <2>3, <2>13, <2>18, Zenon DEF Counted
    <3>6. Ranged(t, g)'
      BY <3>1, <2>10, <2>13, <1>1 DEF Ranged
    <3> QED
      BY <3>2, <3>4, <3>5, <3>6, Zenon DEF Right
  <2>20. Kept(t, f, g)
    <3>1. InReach(t, p) /\ InReach(t, c)
      BY <2>1, <2>3 DEF InReach, IsValid
    <3>2. ASSUME NEW q \in DOMAIN ps
          PROVE  /\ IsLeafPage(qs[q]) <=> IsLeafPage(ps[q])
                 /\ g[q].hi \in Nat /\ g[q].hi <= f[q].hi
                 /\ (qs[q] = ps[q] /\ g[q] = f[q]) \/ (InReach(t, q) /\ Hidden(t, q))
      BY <3>1, <2>9, <2>17
    <3>3. PagesKept(t, f, g)
      BY <3>2, <2>2, <2>10 DEF PagesKept
    <3>4. Approaches(t)
      BY <2>1, <2>3, <2>12, <2>13 DEF Approaches, IsValid
    <3> QED
      BY <3>3, <3>4, <2>16 DEF Kept
  <2>21. /\ pc' \in [Threads -> PCs] /\ dead' \subseteq Keys
         /\ got' \in [Threads -> Seq(Keys)] /\ reply' \in [Threads -> Replies]
    BY <2>4, <2>10 DEF Holds, TypeOK, Goto, PCs, Replies
  <2>22. path' \in [Threads -> Seq([lo : Keys, hi : Keys, page : DOMAIN pages])]
    BY <2>10 DEF Holds, TypeOK
  <2>23. retired' \subseteq DOMAIN pages'
    BY <2>2, <2>3, <2>4, <2>10 DEF Holds, TypeOK, Retired
  <2>24. owed' \in [Threads -> SUBSET Keys]
    BY <2>4, OwedLess DEF Holds
  <2> QED
    BY <2>10, <2>11, <2>16, <2>19, <2>20, <2>21, <2>22, <2>23, <2>24, NewPages
<1> QED
  BY <1>2, <1>3

-------------------------------------------------------------------------
(* Step by step: range queries.                                            *)

(* A path that starts at root r, with fences no tighter than the pages'.   *)
PathOf(s, r, fence) ==
  /\ s # <<>> /\ s[1] = [lo |-> MinKey, hi |-> MaxKey, page |-> r]
  /\ \A i \in DOMAIN s : fence[s[i].page].hi <= s[i].hi

(* The first steps of a path are one. *)
LEMMA PathPart ==
  ASSUME NEW R, NEW s \in Seq(R), NEW r, NEW fence, PathOf(s, r, fence),
         NEW m \in Nat, m # 0, m <= Len(s), NEW q, q = SubSeq(s, 1, m)
  PROVE  PathOf(q, r, fence)
<1>1. /\ DOMAIN q = 1..m /\ DOMAIN s = 1..Len(s) /\ q # <<>>
      /\ \A i \in 1..m : q[i] = s[i] /\ i \in 1..Len(s)
  BY FirstOf
<1>2. 1 \in 1..m
  OBVIOUS
<1> QED
  BY <1>1, <1>2 DEF PathOf

(* So is a path with one step more. *)
LEMMA PathGrown ==
  ASSUME NEW R, NEW s \in Seq(R), NEW r, NEW fence, PathOf(s, r, fence),
         NEW e \in R, fence[e.page].hi <= e.hi, NEW q, q = Append(s, e)
  PROVE  q \in Seq(R) /\ PathOf(q, r, fence)
<1>1. Len(s) \in Nat /\ DOMAIN s = 1..Len(s) /\ s # <<>>
  BY LenProperties DEF PathOf
<1>2. /\ q \in Seq(R) /\ Len(q) = Len(s) + 1
      /\ \A i \in 1..Len(s) : q[i] = s[i]
      /\ q[Len(s) + 1] = e
  BY AppendProperties
<1>3. DOMAIN q = 1..Len(s) + 1
  BY <1>2, LenProperties
<1>4. Len(s) # 0
  BY <1>1, EmptySeq
<1>5. 1 \in 1..Len(s) /\ Len(q) # 0
  BY <1>1, <1>2, <1>4
<1>6. q # <<>>
  BY <1>2, <1>5, NotEmpty
<1>7. \A i \in 1..Len(s) + 1 : i \in 1..Len(s) \/ i = Len(s) + 1
  BY <1>1
<1> QED
  BY <1>1, <1>2, <1>3, <1>5, <1>6, <1>7 DEF PathOf

(* A path goes on from its last page that covers the key. *)
LEMMA AboveIs ==
  ASSUME NEW R, NEW s \in Seq(R), NEW r, NEW fence, PathOf(s, r, fence), NEW k \in Keys
  PROVE  \E m \in Nat : m # 0 /\ m <= Len(s) /\ Above(s, k) = SubSeq(s, 1, m) /\ Within(k, s[m])
<1>1. Len(s) \in Nat /\ DOMAIN s = 1..Len(s) /\ s # <<>>
  BY LenProperties DEF PathOf
<1>2. Len(s) # 0
  BY <1>1, EmptySeq
<1> DEFINE S == {i \in DOMAIN s : Covers(s[i], k)}
<1>3. 1 \in DOMAIN s /\ Covers(s[1], k)
  BY <1>1, <1>2, Numbers DEF PathOf, Covers
<1>4. S \subseteq 1..Len(s) /\ S # {}
  BY <1>1, <1>3
<1>5. Above(s, k) = SubSeq(s, 1, Largest(S))
  BY DEF Above
<1>6. \A i \in S : Covers(s[i], k)
  OBVIOUS
<1> HIDE DEF S
<1>7. PICK m : m = Largest(S)
  OBVIOUS
<1>8. m \in S
  BY <1>1, <1>4, <1>7, LastOf
<1>9. m \in Nat /\ m # 0 /\ m <= Len(s)
  BY <1>1, <1>4, <1>8
<1> QED
  BY <1>5, <1>6, <1>7, <1>8, <1>9 DEF Covers, Within

(* The next step of a path: the child that covers the key, with the fence  *)
(* that the path gives it.                                                 *)
LEMMA BelowIs ==
  ASSUME NEW f, NEW h, Holds(f, h), NEW R, R = [lo : Keys, hi : Keys, page : DOMAIN pages],
         NEW step \in R, ~IsLeaf(step.page), f[step.page].hi <= step.hi, NEW k \in Keys,
         NEW e, e = Below(step, k)
  PROVE  e \in R /\ f[e.page].hi <= e.hi
<1>1. PICK ps, r, p, page, pos, c :
        /\ ps = pages /\ r = root /\ p = step.page /\ page = ps[p] /\ pos = ChildPos(page, k)
        /\ c = page.kids[pos]
  OBVIOUS
<1>2. /\ IsTree(ps, r, f, h) /\ p \in DOMAIN ps /\ ~IsLeafPage(ps[p])
      /\ step.lo \in Keys /\ step.hi \in Keys
  BY <1>1 DEF Holds, Grows, IsLeaf
<1>3. Fitting(page, Len(ps), f[p])
  BY <1>1, <1>2, PageOf
<1>4. pos \in 1..Len(page.seps) + 1 /\ pos \in DOMAIN page.kids
  BY <1>1, <1>2, <1>3, ChildPosIs, SearchFinds
<1>5. c \in DOMAIN ps /\ f[c] = ChildFence(page, pos, f[p])
  BY <1>1, <1>2, <1>4, ChildrenOf
<1>6. e = [lo |-> ChildFence(page, pos, step).lo, hi |-> ChildFence(page, pos, step).hi, page |-> c]
  BY <1>1 DEF Below
<1>7. /\ ChildFence(page, pos, step).lo = IF pos = 1 THEN step.lo ELSE page.seps[pos - 1]
      /\ ChildFence(page, pos, step).hi = IF pos > Len(page.seps) THEN step.hi ELSE Dec(page.seps[pos])
      /\ f[c].hi = IF pos > Len(page.seps) THEN f[p].hi ELSE Dec(page.seps[pos])
  BY <1>5 DEF ChildFence
<1>8. Len(page.seps) \in Nat /\ page.seps \in Seq(Keys)
  BY <1>3, Separators
<1>9. ChildFence(page, pos, step).lo \in Keys
  <2>1. CASE pos = 1
    BY <2>1, <1>2, <1>7
  <2>2. CASE pos # 1
    <3>1. pos - 1 \in 1..Len(page.seps)
      BY <2>2, <1>4, <1>8
    <3>2. page.seps[pos - 1] \in Keys
      BY <3>1, <1>8, ElementOfSeq
    <3> QED
      BY <3>2, <2>2, <1>7
  <2> QED
    BY <2>1, <2>2
<1>10. ChildFence(page, pos, step).hi \in Keys /\ f[c].hi <= ChildFence(page, pos, step).hi
  <2>1. CASE pos > Len(page.seps)
    BY <2>1, <1>1, <1>2, <1>7
  <2>2. CASE ~ (pos > Len(page.seps))
    <3>1. pos \in 1..Len(page.seps)
      BY <2>2, <1>4, <1>8
    <3>2. page.seps[pos] \in Keys
      BY <3>1, <1>8, ElementOfSeq
    <3>3. Dec(page.seps[pos]) \in Keys /\ Dec(page.seps[pos]) \in Nat
      BY <3>2, NextKeys, Numbers
    <3> QED
      BY <3>3, <2>2, <1>7
  <2> QED
    BY <2>1, <2>2
<1> QED
  BY <1>1, <1>5, <1>6, <1>9, <1>10

(* A step along the path, without a guard. *)
LEMMA Scanning ==
  ASSUME NEW f, NEW h, Holds(f, h), NEW t \in Threads, pc[t] \in {"scan", "pin"},
         NEW R, R = [lo : Keys, hi : Keys, page : DOMAIN pages],
         NEW s \in Seq(R), path' = [path EXCEPT ![t] = s], NEW l \in {"root", "scan", "pin"}, Goto(t, l),
         l # "root" => PathOf(s, root, f),
         l = "pin" => Within(low[t], s[Len(s)]) /\ IsLeaf(s[Len(s)].page),
         UNCHANGED <<tree, call, target, cur, nxt, low, got, reply, owed>>
  PROVE  TreeInv'
<1>1. /\ flavour' = flavour /\ root' = root /\ pages' = pages /\ dead' = dead /\ retired' = retired
      /\ call' = call /\ cur' = cur /\ nxt' = nxt /\ low' = low /\ got' = got /\ reply' = reply
      /\ target' = target /\ owed' = owed
  BY DEF tree
<1>2. TypeOK
  BY DEF Holds
<1>3. Placed(t) /\ Ranged(t, f) /\ call[t].op = "Range" /\ cur[t].mode = "none" /\ nxt[t].mode = "none"
  BY ThreadIs DEF Placed, Still, Pair
<1>4. path[t] \in Seq(R) /\ pc'[t] = l /\ path'[t] = s
  BY <1>2, ThreadIs DEF TypeOK
<1>5. OnlySelf(t)
  BY <1>1, <1>2 DEF OnlySelf, Goto, TypeOK
<1>6. OthersKept(t) /\ Exclusive'
  <2>1. PICK c, n : c = cur[t] /\ n = nxt[t]
    OBVIOUS
  <2>2. c \in Guards /\ n \in Guards /\ SetGuards(t, c, n, NoPage) /\ MayHold(t, c, NoPage)
    BY <2>1, <1>1, ThreadIs, GuardsStay
  <2>3. DOMAIN pages \subseteq DOMAIN pages' /\ retired \subseteq retired'
    BY <1>1
  <2> QED
    BY <2>2, <2>3, <1>1, <1>5, GuardsAreSet
<1>7. Typed
  <2>1. path' \in [Threads -> Seq(R)]
    BY <1>2, Zenon DEF TypeOK
  <2>2. pc' \in [Threads -> PCs]
    BY <1>2 DEF TypeOK, PCs, Goto
  <2> QED
    BY <2>1, <2>2, <1>1, <1>2 DEF Typed, TypeOK, Replies
<1>8. Placed(t)'
  BY <1>1, <1>3, <1>4 DEF Placed, Still, Pair, Down, Writer
<1>9. Aimed(t, f)' /\ Counted(t)'
  BY <1>1, <1>3 DEF Aimed, Counted
<1>10. Ranged(t, f)'
  BY <1>1, <1>3, <1>4 DEF Ranged, PathOf, IsLeaf
<1>11. Approaches(t)
  BY <1>3 DEF Approaches
<1> QED
  BY <1>1, <1>6, <1>7, <1>8, <1>9, <1>10, <1>11, SamePages DEF Right

(* What a range query knows of its path. *)
LEMMA PathIs ==
  ASSUME NEW f, NEW h, Holds(f, h), NEW t \in Threads, pc[t] \in {"scan", "pin", "collect"},
         NEW R, R = [lo : Keys, hi : Keys, page : DOMAIN pages]
  PROVE  /\ path[t] \in Seq(R) /\ PathOf(path[t], root, f) /\ low[t] \in Keys
         /\ Len(path[t]) \in Nat /\ Len(path[t]) # 0 /\ DOMAIN path[t] = 1..Len(path[t])
         /\ Last(path[t]) = path[t][Len(path[t])] /\ Last(path[t]) \in R
         /\ f[Last(path[t]).page].hi <= Last(path[t]).hi
<1>1. path[t] \in Seq(R) /\ low[t] \in Keys
  BY DEF Holds, TypeOK
<1>2. PathOf(path[t], root, f)
  BY ThreadIs DEF Ranged, PathOf
<1>3. PICK s : s = path[t]
  OBVIOUS
<1>4. s \in Seq(R) /\ s # <<>>
  BY <1>1, <1>2, <1>3 DEF PathOf
<1>5. Len(s) \in Nat /\ DOMAIN s = 1..Len(s) /\ Len(s) # 0
  BY <1>4, LenProperties, EmptySeq
<1>6. Len(s) \in 1..Len(s)
  BY <1>5
<1>7. s[Len(s)] \in R
  BY <1>4, <1>6, ElementOfSeq
<1> QED
  BY <1>1, <1>2, <1>3, <1>5, <1>6, <1>7 DEF Last, PathOf

(* The path less its last step. *)
LEMMA BackUp ==
  ASSUME NEW R, NEW s \in Seq(R), NEW r, NEW fence, PathOf(s, r, fence), NEW q, q = Front(s)
  PROVE  /\ q \in Seq(R) /\ (q # <<>> => PathOf(q, r, fence))
         /\ q = <<>> <=> Len(s) = 1
<1>1. Len(s) \in Nat /\ s # <<>>
  BY LenProperties DEF PathOf
<1>2. Len(s) # 0
  BY <1>1, EmptySeq
<1>3. PICK m : m = Len(s) - 1
  OBVIOUS
<1>4. m \in Nat /\ m <= Len(s) /\ q = SubSeq(s, 1, m) /\ (m = 0 <=> Len(s) = 1)
  BY <1>1, <1>2, <1>3 DEF Front
<1>5. q \in Seq(R) /\ (m # 0 => q # <<>>) /\ (m = 0 => q = <<>>)
  BY <1>4, FirstOf
<1>6. m # 0 => PathOf(q, r, fence)
  BY <1>4, PathPart
<1> QED
  BY <1>4, <1>5, <1>6

(* A page that is being written sends the query up its path; any other is  *)
(* gone through or, if it is a leaf, taken.                                *)
LEMMA ScanKeeps ==
  ASSUME NEW f, NEW h, Holds(f, h), NEW t \in Threads, Scan(t)
  PROVE  TreeInv'
<1>1. PICK R, k, steps, here :
        /\ R = [lo : Keys, hi : Keys, page : DOMAIN pages] /\ k = low[t]
        /\ steps = Above(path[t], low[t]) /\ here = Last(steps)
  OBVIOUS
<1>2. /\ pc[t] = "scan" /\ UNCHANGED <<tree, call, target, cur, nxt, low, got, reply, owed>>
      /\ \/ ScanOn(t, Front(steps))
         \/ ~IsLeaf(here.page) /\ ScanOn(t, Append(steps, Below(here, k)))
         \/ IsLeaf(here.page) /\ path' = [path EXCEPT ![t] = steps] /\ Goto(t, "pin")
  BY <1>1 DEF Scan
<1>3. PICK p : p = path[t]
  OBVIOUS
<1>4. p \in Seq(R) /\ PathOf(p, root, f) /\ k \in Keys
  BY <1>1, <1>2, <1>3, PathIs
<1>5. PICK m \in Nat : m # 0 /\ m <= Len(p) /\ Above(p, k) = SubSeq(p, 1, m) /\ Within(k, p[m])
  BY <1>4, AboveIs
<1>6. steps = SubSeq(p, 1, m)
  BY <1>1, <1>3, <1>5
<1>7. /\ steps \in Seq(R) /\ Len(steps) = m /\ DOMAIN steps = 1..m
      /\ \A i \in 1..m : steps[i] = p[i]
  BY <1>4, <1>5, <1>6, FirstOf
<1>8. PathOf(steps, root, f)
  BY <1>4, <1>5, <1>6, PathPart
<1>9. m \in 1..m /\ here = steps[m] /\ here = p[m]
  <2>1. m \in 1..m
    BY <1>5
  <2> QED
    BY <2>1, <1>1, <1>7 DEF Last
<1>10. here \in R /\ f[here.page].hi <= here.hi /\ Within(k, here)
  <2>1. here \in R
    BY <1>7, <1>9, ElementOfSeq
  <2> QED
    BY <2>1, <1>5, <1>7, <1>8, <1>9 DEF PathOf
<1>11. CASE ScanOn(t, Front(steps))
  <2>1. PICK q, l : q = Front(steps) /\ l = IF q = <<>> THEN "root" ELSE "scan"
    OBVIOUS
  <2>2. path' = [path EXCEPT ![t] = q] /\ Goto(t, l) /\ l \in {"root", "scan", "pin"} /\ l # "pin"
    BY <2>1, <1>11 DEF ScanOn
  <2>3. q \in Seq(R) /\ (q # <<>> => PathOf(q, root, f))
    BY <2>1, <1>7, <1>8, BackUp
  <2>4. l # "root" => PathOf(q, root, f)
    BY <2>1, <2>3
  <2> QED
    BY <2>2, <2>3, <2>4, <1>1, <1>2, Scanning
<1>12. CASE ~IsLeaf(here.page) /\ ScanOn(t, Append(steps, Below(here, k)))
  <2>1. PICK e, q : e = Below(here, k) /\ q = Append(steps, e)
    OBVIOUS
  <2>2. e \in R /\ f[e.page].hi <= e.hi
    BY <2>1, <1>1, <1>4, <1>10, <1>12, BelowIs
  <2>3. q \in Seq(R) /\ PathOf(q, root, f)
    BY <2>1, <2>2, <1>7, <1>8, PathGrown
  <2>4. path' = [path EXCEPT ![t] = q] /\ Goto(t, "scan")
    BY <2>1, <2>3, <1>12 DEF ScanOn, PathOf
  <2> QED
    BY <2>3, <2>4, <1>1, <1>2, Scanning
<1>13. CASE IsLeaf(here.page) /\ path' = [path EXCEPT ![t] = steps] /\ Goto(t, "pin")
  <2>1. Within(low[t], steps[Len(steps)]) /\ IsLeaf(steps[Len(steps)].page)
    BY <1>1, <1>7, <1>9, <1>10, <1>13
  <2> QED
    BY <2>1, <1>1, <1>2, <1>7, <1>8, <1>13, Scanning
<1> QED
  BY <1>2, <1>11, <1>12, <1>13

(* The leaf of the path is pinned, or the query goes up.                   *)
LEMMA PinNextLeafKeeps ==
  ASSUME NEW f, NEW h, Holds(f, h), NEW t \in Threads, PinNextLeaf(t)
  PROVE  TreeInv'
<1>1. PICK R, p, leaf : /\ R = [lo : Keys, hi : Keys, page : DOMAIN pages]
                        /\ p = path[t] /\ leaf = Last(path[t]).page
  OBVIOUS
<1>2. pc[t] = "pin" /\ UNCHANGED <<tree, call, target, low, got, reply, owed>>
  BY DEF PinNextLeaf
<1>3. /\ p \in Seq(R) /\ PathOf(p, root, f) /\ Last(path[t]) \in R /\ leaf \in DOMAIN pages
      /\ Last(path[t]) = path[t][Len(path[t])]
  <2>1. p \in Seq(R) /\ PathOf(p, root, f) /\ Last(path[t]) \in R /\ Last(path[t]) = path[t][Len(path[t])]
    BY <1>1, <1>2, PathIs
  <2> QED
    BY <2>1, <1>1
<1>4. CASE ~Free(leaf)
  <2>1. PICK q, l : q = Front(p) /\ l = IF q = <<>> THEN "root" ELSE "scan"
    OBVIOUS
  <2>2. /\ path' = [path EXCEPT ![t] = q] /\ Goto(t, l) /\ l \in {"root", "scan", "pin"} /\ l # "pin"
        /\ UNCHANGED <<tree, call, target, cur, nxt, low, got, reply, owed>>
    BY <2>1, <1>1, <1>4 DEF PinNextLeaf, ScanOn
  <2>3. q \in Seq(R) /\ (q # <<>> => PathOf(q, root, f))
    BY <2>1, <1>3, BackUp
  <2>4. l # "root" => PathOf(q, root, f)
    BY <2>1, <2>3
  <2> QED
    BY <2>2, <2>3, <2>4, <1>1, <1>2, Scanning
<1>5. CASE Free(leaf)
  <2>1. PICK c, n : c = Pinned(leaf) /\ n = NoGuard
    OBVIOUS
  <2>2. SetGuards(t, c, n, NoPage) /\ Goto(t, "collect") /\ path' = path
    BY <2>1, <1>1, <1>5 DEF PinNextLeaf
  <2>3. /\ Placed(t) /\ Ranged(t, f) /\ call[t].op = "Range" /\ cur[t].mode = "none"
    BY <1>2, ThreadIs DEF Placed, Still
  <2>4. c \in Guards /\ c.page = leaf /\ c.mode = "pin" /\ c.page # NoPage /\ MayHold(t, c, NoPage)
    BY <2>1, <2>3, <1>3, <1>5, PinIsSafe
  <2>5. n \in Guards /\ n.mode = "none" /\ n.page = NoPage
    BY <2>1 DEF NoGuard, Guards
  <2>6. pc'[t] = "collect" /\ cur'[t] = c /\ nxt'[t] = n
    BY <2>2, ThreadIs
  <2>7. /\ flavour' = flavour /\ root' = root /\ pages' = pages /\ dead' = dead /\ retired' = retired
        /\ call' = call /\ low' = low /\ got' = got /\ reply' = reply
        /\ target' = target /\ owed' = owed
    BY <1>2 DEF tree
  <2>8. OnlySelf(t)
    BY <2>2, <2>7 DEF OnlySelf, Goto, Holds, TypeOK
  <2>9. DOMAIN pages \subseteq DOMAIN pages' /\ retired \subseteq retired'
    BY <2>7
  <2>10. /\ cur' \in [Threads -> Guards'] /\ nxt' \in [Threads -> Guards'] /\ Exclusive' /\ OthersKept(t)
    BY <2>2, <2>4, <2>5, <2>7, <2>8, <2>9, GuardsAreSet
  <2>11. Typed
    <3>1. Guards' = Guards
      BY <2>7 DEF Guards
    <3>2. pc' \in [Threads -> PCs]
      BY <2>2 DEF Holds, TypeOK, PCs, Goto
    <3> QED
      BY <3>1, <3>2, <2>2, <2>7, <2>10 DEF Typed, Holds, TypeOK, Replies
  <2>12. Placed(t)'
    BY <2>3, <2>4, <2>5, <2>6, <2>7 DEF Placed, Still, Pair, Down
  <2>13. Aimed(t, f)' /\ Counted(t)' /\ Approaches(t)
    BY <2>3, <2>7 DEF Aimed, Counted, Approaches
  <2>14. Ranged(t, f)'
    BY <2>2, <2>3, <2>4, <2>6, <2>7, <1>1, <1>2, <1>3 DEF Ranged, IsLeaf
  <2>15. Right(t, f)'
    BY <2>12, <2>13, <2>14, Zenon DEF Right
  <2> QED
    BY <2>7, <2>10, <2>11, <2>13, <2>15, SamePages
<1> QED
  BY <1>4, <1>5

(* One leaf's keys behind those of the leaves before it.                   *)
LEMMA KeysJoin ==
  ASSUME NEW s \in Seq(Keys), NEW q \in Seq(Keys), NEW k \in Keys, NEW m \in Keys, k <= m,
         \A i, j \in DOMAIN s : i < j => s[i] < s[j], \A i \in DOMAIN s : s[i] < k,
         \A i, j \in DOMAIN q : i < j => q[i] < q[j], \A i \in DOMAIN q : k <= q[i] /\ q[i] <= m,
         NEW a, a = s \o q
  PROVE  /\ a \in Seq(Keys) /\ \A i, j \in DOMAIN a : i < j => a[i] < a[j]
         /\ \A i \in DOMAIN a : a[i] < m + 1
<1>1. PICK n, l : n = Len(s) /\ l = Len(q)
  OBVIOUS
<1>2. n \in Nat /\ l \in Nat /\ DOMAIN s = 1..n /\ DOMAIN q = 1..l
  BY <1>1, LenProperties
<1>3. /\ a \in Seq(Keys) /\ Len(a) = n + l
      /\ \A i \in 1..(n + l) : a[i] = IF i <= n THEN s[i] ELSE q[i - n]
  BY <1>1, ConcatProperties
<1>4. DOMAIN a = 1..(n + l)
  BY <1>3, LenProperties
<1>5. Keys \subseteq Nat /\ k \in Nat /\ m \in Nat
  BY Numbers
<1>6. ASSUME NEW i \in 1..n PROVE s[i] \in Nat /\ s[i] < k
  <2>1. s[i] \in Keys
    BY <1>1, ElementOfSeq
  <2> QED
    BY <2>1, <1>2, <1>5
<1>7. ASSUME NEW i \in 1..l PROVE q[i] \in Nat /\ k <= q[i] /\ q[i] <= m
  <2>1. q[i] \in Keys
    BY <1>1, ElementOfSeq
  <2> QED
    BY <2>1, <1>2, <1>5
<1>8. \A i \in 1..(n + l) : i \in Nat /\ (i <= n => i \in 1..n) /\ (~(i <= n) => i - n \in 1..l)
  BY <1>2
<1>9. ASSUME NEW i \in 1..(n + l), NEW j \in 1..(n + l), i < j  PROVE a[i] < a[j]
  <2>1. i \in Nat /\ j \in Nat
    BY <1>8
  <2>2. CASE j <= n
    <3>1. i \in 1..n /\ j \in 1..n /\ i <= n
      BY <2>1, <2>2, <1>2, <1>8, <1>9
    <3>2. s[i] < s[j]
      BY <3>1, <1>2, <1>9
    <3> QED
      BY <3>1, <3>2, <2>2, <1>3
  <2>3. CASE i <= n /\ ~(j <= n)
    <3>1. i \in 1..n /\ j - n \in 1..l
      BY <2>3, <1>8
    <3>2. s[i] < q[j - n]
      BY <3>1, <1>5, <1>6, <1>7
    <3> QED
      BY <3>2, <2>3, <1>3
  <2>4. CASE ~(i <= n)
    <3>1. ~(j <= n) /\ i - n \in 1..l /\ j - n \in 1..l /\ i - n < j - n
      BY <2>1, <2>4, <1>2, <1>8, <1>9
    <3>2. q[i - n] < q[j - n]
      BY <3>1, <1>2
    <3> QED
      BY <3>1, <3>2, <2>4, <1>3
  <2> QED
    BY <2>2, <2>3, <2>4
<1>10. ASSUME NEW i \in 1..(n + l)  PROVE a[i] < m + 1
  <2>1. CASE i <= n
    <3>1. s[i] \in Nat /\ s[i] < k
      BY <2>1, <1>6, <1>8
    <3> QED
      BY <3>1, <2>1, <1>3, <1>5
  <2>2. CASE ~(i <= n)
    <3>1. q[i - n] \in Nat /\ q[i - n] <= m
      BY <2>2, <1>7, <1>8
    <3> QED
      BY <3>1, <2>2, <1>3, <1>5
  <2> QED
    BY <2>1, <2>2
<1> QED
  BY <1>3, <1>4, <1>9, <1>10

(* The answer of a range query with what it finds on its leaf. *)
LEMMA LeafCollected ==
  ASSUME NEW f, NEW h, Holds(f, h), NEW t \in Threads, pc[t] = "collect",
         NEW part, part = {k \in pages[cur[t].page].recs : low[t] <= k /\ k <= call[t].upto},
         NEW hi, hi = Last(path[t]).hi, NEW a, a = got[t] \o InOrder(part)
  PROVE  /\ InOrder(part) \in Seq(Keys) /\ hi \in Keys /\ a \in Seq(Keys)
         /\ \A i, j \in DOMAIN a : i < j => a[i] < a[j]
         /\ \A i \in DOMAIN a : a[i] < hi + 1
<1>1. PICK R, p : R = [lo : Keys, hi : Keys, page : DOMAIN pages] /\ p = cur[t].page
  OBVIOUS
<1>2. /\ low[t] \in Keys /\ Last(path[t]) \in R /\ f[Last(path[t]).page].hi <= Last(path[t]).hi
      /\ Last(path[t]) = path[t][Len(path[t])]
  BY <1>1, PathIs
<1>3. Placed(t) /\ Ranged(t, f)
  BY ThreadIs
<1>4. p = Last(path[t]).page /\ p \in DOMAIN pages /\ hi \in Keys /\ f[p].hi <= hi /\ low[t] <= hi
  BY <1>1, <1>2, <1>3 DEF Ranged, Within
<1>5. call[t].op = "Range"
  BY <1>3 DEF Placed
<1>6. got[t] \in Seq(Keys) /\ \A i, j \in DOMAIN got[t] : i < j => got[t][i] < got[t][j]
  BY <1>3 DEF Holds, TypeOK, Ranged
<1>7. \A i \in DOMAIN got[t] : got[t][i] < low[t]
  BY <1>3, <1>5 DEF Ranged
<1>8. pages[p].recs \subseteq Keys
  BY <1>4 DEF Holds, TypeOK, Pages
<1>9. f[p].hi \in Keys /\ KeysFit(pages[p], f[p])
  BY <1>4, PageOf DEF Holds, Grows, Fitting
<1>10. Keys \subseteq Nat
  BY Numbers
<1>11. part \subseteq Keys
  BY <1>1, <1>8
<1>12. ASSUME NEW k \in part  PROVE low[t] <= k /\ k <= hi
  <2>1. k \in pages[p].recs /\ low[t] <= k /\ k \in Nat
    BY <1>1, <1>8, <1>10, <1>12
  <2>2. k <= f[p].hi
    BY <2>1, <1>9 DEF KeysFit, Within
  <2>3. PICK x : x = f[p].hi
    OBVIOUS
  <2>4. x \in Nat /\ hi \in Nat /\ k \in Nat
    BY <2>1, <2>3, <1>4, <1>9, <1>10
  <2>5. k <= x /\ x <= hi
    BY <2>2, <2>3, <1>4
  <2>6. k <= hi
    BY <2>4, <2>5
  <2> QED
    BY <2>1, <2>6
<1>13. PICK q : q = InOrder(part)
  OBVIOUS
<1>14. q \in Seq(Keys) /\ \A i \in DOMAIN q : q[i] \in part
  BY <1>11, <1>13, InOrderIs
<1>15. \A i, j \in DOMAIN q : i < j => q[i] < q[j]
  BY <1>11, <1>13, InOrderIs
<1>16. \A i \in DOMAIN q : low[t] <= q[i] /\ q[i] <= hi
  BY <1>12, <1>14
<1>17. a = got[t] \o q
  BY <1>13
<1>18. PICK s, k : s = got[t] /\ k = low[t]
  OBVIOUS
<1>19. /\ s \in Seq(Keys) /\ k \in Keys /\ k <= hi
       /\ \A i, j \in DOMAIN s : i < j => s[i] < s[j]
       /\ \A i \in DOMAIN s : s[i] < k
       /\ \A i \in DOMAIN q : k <= q[i] /\ q[i] <= hi
       /\ a = s \o q
  BY <1>2, <1>4, <1>6, <1>7, <1>16, <1>17, <1>18
<1>20. /\ a \in Seq(Keys) /\ \A i, j \in DOMAIN a : i < j => a[i] < a[j]
       /\ \A i \in DOMAIN a : a[i] < hi + 1
  BY <1>4, <1>14, <1>15, <1>19, KeysJoin
<1> QED
  BY <1>4, <1>13, <1>14, <1>20

(* The leaf's keys are copied, and the query answers or goes on behind the *)
(* fence that its path has for the leaf.                                   *)
LEMMA CollectKeeps ==
  ASSUME NEW f, NEW h, Holds(f, h), NEW t \in Threads, Collect(t)
  PROVE  TreeInv'
<1>1. PICK R, p, hi, part, ks, a, s :
        /\ R = [lo : Keys, hi : Keys, page : DOMAIN pages] /\ p = path[t]
        /\ hi = Last(path[t]).hi
        /\ part = {k \in pages[cur[t].page].recs : low[t] <= k /\ k <= call[t].upto}
        /\ ks = InOrder(part) /\ a = got[t] \o ks /\ s = Front(p)
  OBVIOUS
<1>2. TypeOK
  BY DEF Holds
<1>3. /\ pc[t] = "collect" /\ pages' = pages /\ dead' = dead
      /\ path' = [path EXCEPT ![t] = s]
  BY <1>1, <1>2 DEF Collect, TypeOK
<1>4. /\ ks \in Seq(Keys) /\ hi \in Keys /\ a \in Seq(Keys)
      /\ \A i, j \in DOMAIN a : i < j => a[i] < a[j]
      /\ \A i \in DOMAIN a : a[i] < hi + 1
  BY <1>1, <1>3, LeafCollected
<1>5. p \in Seq(R) /\ PathOf(p, root, f)
  BY <1>1, <1>3, PathIs
<1>6. s \in Seq(R) /\ (s # <<>> => PathOf(s, root, f)) /\ (s = <<>> <=> Len(p) = 1)
  BY <1>1, <1>5, BackUp
<1>7. dead' \subseteq Keys
  BY <1>2, <1>3 DEF TypeOK
<1>8. CASE Finish(t, "matched", ks)
  <2>1. "matched" \in Replies
    BY DEF Replies
  <2> QED
    BY <2>1, <1>1, <1>3, <1>4, <1>6, <1>7, <1>8, Finishing
<1>9. ASSUME hi # MaxKey, SetGuards(t, NoGuard, NoGuard, NoPage),
             low' = [low EXCEPT ![t] = NextLow(hi)], got' = [got EXCEPT ![t] = a],
             Goto(t, IF s = <<>> THEN "root" ELSE "scan"),
             UNCHANGED <<flavour, root, retired, call, target, reply, owed>>
      PROVE  TreeInv'
  <2>1. PICK c, l, k : c = NoGuard /\ l = (IF s = <<>> THEN "root" ELSE "scan") /\ k = NextLow(hi)
    OBVIOUS
  <2>2. /\ SetGuards(t, c, c, NoPage) /\ Goto(t, l) /\ low' = [low EXCEPT ![t] = k]
        /\ l \in {"root", "scan"} /\ (l # "root" => s # <<>>)
    BY <2>1, <1>9
  <2>3. Placed(t) /\ call[t].op = "Range" /\ cur[t].mode = "pin"
    BY <1>3, ThreadIs DEF Placed
  <2>4. c \in Guards /\ c.page = NoPage /\ c.mode = "none" /\ ~c.fresh /\ MayHold(t, c, NoPage)
    BY <2>1, <2>3 DEF NoGuard, Guards, MayHold
  <2>5. k \in Keys /\ k = hi + 1
    BY <2>1, <1>4, <1>9, NextKeys DEF NextLow
  <2>6. pc'[t] = l /\ cur'[t] = c /\ nxt'[t] = c
    BY <2>2, ThreadIs
  <2>7. /\ flavour' = flavour /\ root' = root /\ retired' = retired /\ call' = call
        /\ reply' = reply /\ target' = target /\ owed' = owed
    BY <1>9
  <2>8. OnlySelf(t)
    BY <1>2, <1>3, <1>9, <2>2, <2>7 DEF OnlySelf, Goto, TypeOK
  <2>9. DOMAIN pages \subseteq DOMAIN pages' /\ retired \subseteq retired'
    BY <1>3, <2>7
  <2>10. /\ cur' \in [Threads -> Guards'] /\ nxt' \in [Threads -> Guards'] /\ Exclusive' /\ OthersKept(t)
    BY <2>2, <2>4, <2>7, <2>8, <2>9, GuardsAreSet
  <2>11. Typed
    <3>1. Guards' = Guards
      BY <1>3 DEF Guards
    <3>2. pc' \in [Threads -> PCs]
      BY <2>2, <1>2 DEF TypeOK, PCs, Goto
    <3>3. low' \in [Threads -> Keys]
      BY <2>2, <2>5, <1>2 DEF TypeOK
    <3>4. got' \in [Threads -> Seq(Keys)]
      <4>1. got \in [Threads -> Seq(Keys)]
        BY <1>2 DEF TypeOK
      <4> QED
        BY <4>1, <1>4, <1>9, Zenon
    <3>5. path' \in [Threads -> Seq([lo : Keys, hi : Keys, page : DOMAIN pages])]
      <4>1. path \in [Threads -> Seq(R)]
        BY <1>1, <1>2 DEF TypeOK
      <4> QED
        BY <4>1, <1>1, <1>3, <1>6, Zenon
    <3> QED
      BY <3>1, <3>2, <3>3, <3>4, <3>5, <2>7, <2>10, <1>2, <1>3 DEF Typed, TypeOK, Replies
  <2>12. Placed(t)'
    BY <2>2, <2>3, <2>4, <2>6, <2>7 DEF Placed, Still, Pair, Down
  <2>13. Aimed(t, f)' /\ Counted(t)' /\ Approaches(t)
    BY <2>3, <2>4, <2>6, <2>7 DEF Aimed, Counted, Approaches
  <2>14. path'[t] = s /\ low'[t] = k /\ got'[t] = a
    <3>1. path \in [Threads -> Seq(R)] /\ low \in [Threads -> Keys] /\ got \in [Threads -> Seq(Keys)]
      BY <1>1, <1>2 DEF TypeOK
    <3> QED
      BY <3>1, <1>3, <1>9, <2>2
  <2>15. l = "scan" => PathOf(s, root, f)
    BY <2>2, <1>6
  <2>16. Ranged(t, f)'
    BY <2>2, <2>3, <2>5, <2>6, <2>7, <2>14, <2>15, <1>4 DEF Ranged, PathOf
  <2>17. Right(t, f)'
    BY <2>12, <2>13, <2>16, Zenon DEF Right
  <2> QED
    BY <2>7, <2>10, <2>11, <2>13, <2>17, <1>3, SamePages
<1>10. \/ Finish(t, "matched", ks)
       \/ /\ hi # MaxKey /\ SetGuards(t, NoGuard, NoGuard, NoPage)
          /\ low' = [low EXCEPT ![t] = NextLow(hi)] /\ got' = [got EXCEPT ![t] = a]
          /\ Goto(t, IF s = <<>> THEN "root" ELSE "scan")
          /\ UNCHANGED <<flavour, root, retired, call, target, reply, owed>>
  <2>1. Len(path[t]) = 1 <=> s = <<>>
    BY <1>1, <1>6
  <2>2. got' = [got EXCEPT ![t] = @ \o ks] => got' = [got EXCEPT ![t] = a]
    BY <1>1, <1>2 DEF TypeOK
  <2> QED
    BY <2>1, <2>2, <1>1 DEF Collect
<1> QED
  BY <1>8, <1>9, <1>10

-------------------------------------------------------------------------
(* All steps.                                                              *)

(* Every step of a thread, on any tree and from any interleaving of the    *)
(* others, leaves a tree on which everybody's knowledge is right.          *)
LEMMA StepKeeps ==
  ASSUME NEW f, NEW h, Holds(f, h), NEW t \in Threads, Step(t)
  PROVE  TreeInv'
<1>1. CASE LoadRoot(t)
  BY <1>1, LoadRootKeeps
<1>2. CASE LatchRoot(t)
  BY <1>2, LatchRootKeeps
<1>3. CASE KeepRoot(t)
  BY <1>3, KeepRootKeeps
<1>4. CASE SplitRoot(t)
  BY <1>4, SplitRootKeeps
<1>5. CASE VisitIndex(t)
  BY <1>5, VisitIndexKeeps
<1>6. CASE LatchChild(t)
  BY <1>6, LatchChildKeeps
<1>7. CASE CheckChild(t)
  BY <1>7, CheckChildKeeps
<1>8. CASE LockParent(t)
  BY <1>8, LockParentKeeps
<1>9. CASE SplitChild(t)
  BY <1>9, SplitChildKeeps
<1>10. CASE LockLeaf(t)
  BY <1>10, LockLeafKeeps
<1>11. CASE ReachLeaf(t)
  BY <1>11, ReachLeafKeeps
<1>12. CASE PinLeaf(t)
  BY <1>12, PinLeafKeeps
<1>13. CASE ApplyInsert(t)
  BY <1>13, ApplyInsertKeeps
<1>14. CASE ApplyAppend(t)
  BY <1>14, ApplyAppendKeeps
<1>15. CASE PopMin(t) \/ PopMax(t)
  <2>1. pc[t] = "apply"
    BY <1>15 DEF PopMin, PopMax, ApplyPop
  <2>2. pages[cur[t].page].recs # {} =>
          Smallest(pages[cur[t].page].recs) \in Keys /\ Largest(pages[cur[t].page].recs) \in Keys
    BY <2>1, LeafEnds
  <2>3. PICK least, most : /\ least = Smallest(pages[cur[t].page].recs)
                           /\ most = Largest(pages[cur[t].page].recs)
    OBVIOUS
  <2>4. CASE PopMin(t)
    <3>1. ApplyPop(t, "PopMin", least)
      BY <2>3, <2>4 DEF PopMin
    <3> QED
      BY <3>1, <2>2, <2>3, PopKeeps
  <2>5. CASE PopMax(t)
    <3>1. ApplyPop(t, "PopMax", most)
      BY <2>3, <2>5 DEF PopMax
    <3> QED
      BY <3>1, <2>2, <2>3, PopKeeps
  <2> QED
    BY <2>4, <2>5, <1>15
<1>16. CASE TakeRecords(t)
  BY <1>16, TakeRecordsKeeps
<1>17. CASE Search(t)
  BY <1>17, SearchKeeps
<1>18. CASE PeekMin(t) \/ PeekMax(t)
  BY <1>18, PeekKeeps DEF PeekMin, PeekMax
<1>19. CASE GivePoint(t)
  BY <1>19, GivePointKeeps
<1>20. CASE GiveMin(t) \/ GiveMax(t)
  <2>1. pc[t] = "give"
    BY <1>20 DEF GiveMin, GiveMax, Give
  <2>2. PICK least, most : least = First(t) /\ most = Final(t)
    OBVIOUS
  <2>3. pages[cur[t].page].recs # {} => least \in Keys /\ most \in Keys
    BY <2>1, <2>2, LeafEnds DEF First, Final
  <2>4. CASE GiveMin(t)
    <3>1. Give(t, "PeekMin", least)
      BY <2>2, <2>4 DEF GiveMin
    <3> QED
      BY <3>1, <2>3, GiveKeeps
  <2>5. CASE GiveMax(t)
    <3>1. Give(t, "PeekMax", most)
      BY <2>2, <2>5 DEF GiveMax
    <3> QED
      BY <3>1, <2>3, GiveKeeps
  <2> QED
    BY <2>4, <2>5, <1>20
<1>21. CASE Scan(t)
  BY <1>21, ScanKeeps
<1>22. CASE PinNextLeaf(t)
  BY <1>22, PinNextLeafKeeps
<1>23. CASE Collect(t)
  BY <1>23, CollectKeeps
<1> QED
  BY <1>1, <1>2, <1>3, <1>4, <1>5, <1>6, <1>7, <1>8, <1>9, <1>10, <1>11, <1>12, <1>13, <1>14,
     <1>15, <1>16, <1>17, <1>18, <1>19, <1>20, <1>21, <1>22, <1>23, Zenon DEF Step

(* A state that stays as it is keeps what holds of it. *)
LEMMA StutterKeeps ==
  ASSUME NEW f, NEW h, Holds(f, h), UNCHANGED vars
  PROVE  TreeInv'
<1>1. /\ flavour' = flavour /\ root' = root /\ pages' = pages /\ dead' = dead /\ retired' = retired
      /\ call' = call /\ pc' = pc /\ target' = target /\ cur' = cur /\ nxt' = nxt
      /\ path' = path /\ low' = low /\ got' = got /\ reply' = reply /\ owed' = owed
  BY DEF vars, tree, scan
<1>2. TypeOK'
  <2>1. Pages' = Pages /\ Guards' = Guards
    BY <1>1 DEF Pages, Guards
  <2> QED
    BY <2>1, <1>1 DEF Holds, TypeOK, IsLeaf
<1>3. Grows(f, h)'
  BY <1>1 DEF Holds, Grows, IsLeaf
<1>4. Exclusive' /\ InsertsStayBelow'
  BY <1>1 DEF Holds, Exclusive, InsertsStayBelow, Key
<1>5. ASSUME NEW t \in Threads PROVE Right(t, f)'
  <2>1. Placed(t) /\ Aimed(t, f) /\ Counted(t) /\ Ranged(t, f)
    BY ThreadIs
  <2>2. Placed(t)'
    BY <2>1, <1>1 DEF Placed, IsLeaf, Writer
  <2>3. \A g : IsValid(g)' <=> IsValid(g)
    BY <1>1 DEF IsValid, Readable, HeldFor
  <2>4. Aimed(t, f)'
    BY <2>1, <2>3, <1>1 DEF Aimed, Child, Key
  <2>5. \A c : Quiet(t, c)' <=> Quiet(t, c)
    BY <2>3, <1>1 DEF Quiet
  <2>6. \A g : Clear(g)' <=> Clear(g)
    BY <1>1 DEF Clear, Readable, HeldFor
  <2>7. Counted(t)'
    BY <2>1, <2>3, <2>5, <2>6, <1>1 DEF Counted, Child, Key
  <2>8. Ranged(t, f)'
    BY <2>1, <1>1 DEF Ranged, IsLeaf
  <2> QED
    BY <2>2, <2>4, <2>7, <2>8, Zenon DEF Right
<1>6. Holds(f, h)'
  BY <1>2, <1>3, <1>4, <1>5, Zenon DEF Holds
<1> QED
  BY <1>6, Zenon DEF TreeInv

-------------------------------------------------------------------------
(* The theorems.  They are about behaviours in which the root is an index  *)
(* page in the beginning.                                                  *)

(* The inductive invariant: the pages are a search tree of which nobody    *)
(* has a wrong picture, in every reachable state.                          *)
THEOREM Invariance ==
  Spec /\ IndexRoot => []TreeInv
<1>1. Init /\ IndexRoot => TreeInv
  BY Starting
<1>2. TreeInv /\ [Next]_vars => TreeInv'
  <2> SUFFICES ASSUME TreeInv, [Next]_vars PROVE TreeInv'
    OBVIOUS
  <2>1. PICK f, h : Holds(f, h)
    BY DEF TreeInv
  <2>2. CASE \E t \in Threads : Step(t)
    BY <2>1, <2>2, StepKeeps
  <2>3. CASE UNCHANGED vars
    BY <2>1, <2>3, StutterKeeps
  <2> QED
    BY <2>2, <2>3 DEF Next
<1> QED
  BY <1>1, <1>2, PTL DEF Spec

(* Every variable keeps its type: page numbers point into the tree, and a  *)
(* page has one child more than separators.                                *)
THEOREM TypeCorrect ==
  Spec /\ IndexRoot => []TypeOK
<1>1. TreeInv => TypeOK
  BY DEF TreeInv, Holds
<1> QED
  BY <1>1, Invariance, PTL

(* No split, and no insert that raced with one, leaves a record where      *)
(* descents do not look, whatever the threads do between two latches.      *)
THEOREM Homes ==
  Spec /\ IndexRoot => []RecordsAreHome
<1>1. TreeInv => RecordsAreHome
  BY RecordsAtHome DEF TreeInv, Holds, Grows
<1> QED
  BY <1>1, Invariance, PTL

(* An insert that has come to its leaf finds room there, no array of a     *)
(* page overflows, and no page but the root gets too thin.                 *)
THEOREM RoomLeft ==
  Spec /\ IndexRoot => []InsertsFindRoom
<1>1. TreeInv => InsertsFindRoom
  BY RoomForInserts DEF TreeInv
<1> QED
  BY <1>1, Invariance, PTL

(* Whoever changes or pins a leaf shares it with readers only, and an      *)
(* insert is on the leaf of its key.                                       *)
THEOREM OwnLeaves ==
  Spec /\ IndexRoot => []InsertsOwnTheirLeaf
<1>1. TreeInv => InsertsOwnTheirLeaf
  BY LeafOfInserts DEF TreeInv
<1> QED
  BY <1>1, Invariance, PTL

(* Range queries give ascending keys, and none twice, although they go     *)
(* from leaf to leaf by fences that splits have made wider than the pages. *)
THEOREM Ascending ==
  Spec /\ IndexRoot => []RangesAscend
<1>1. TreeInv => RangesAscend
  BY AnswersAscend DEF TreeInv
<1> QED
  BY <1>1, Invariance, PTL

=========================================================================
