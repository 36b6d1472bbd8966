----------------------------- MODULE OLCTree -----------------------------
(***************************************************************************)
(* The B+-tree under optimistic lock coupling: the descents of             *)
(* olc_query.rs for reads and for writes, its range queries, the root      *)
(* split and the overflow correction of query.rs, and what dispatch does   *)
(* on the leaf.  Every access to a latch word is a step; what is read      *)
(* between two validations of one page is read in the step of the second.  *)
(* What is read after the last validation are steps of their own.          *)
(* Latches keep what OptLatch shows: one holder, and a read guard stays    *)
(* fresh until a writer of the page lets go.  A version chain is a key     *)
(* here, dead when its newest version is a deletion.                       *)
(***************************************************************************)
EXTENDS TreePages

CONSTANTS
  Threads,     \* callers, one call each: a thread keeps nothing between calls
  Starts       \* where to start from: [root, pages, calls, flavour]

OLC == "OLCCell"
LHL == "LightWeightHybridCell"

VARIABLES
  flavour,     \* the cells' SmartFlavor, fixed when the tree is made
  root,        \* Root::block, as a page number
  pages,       \* the pages, in the order they were allocated
  dead,        \* keys whose newest version is a deletion
  retired,     \* pages whose word says obsolete for good
  call,        \* call[t]: the operation and the keys it is about
  pc,          \* pc[t]: the next thing t does
  target,      \* target[t]: the page pointer t has read and not yet followed
  cur,         \* cur[t]: current_guard
  nxt,         \* nxt[t]: next_guard, while current_guard is still held
  path,        \* path[t]: the pages a range query came through, with fences
  low,         \* low[t]: the key a range query goes on from
  got,         \* got[t]: the keys of the answer
  reply,       \* reply[t]: the result of the call
  owed         \* history: owed[t], keys of the call there since it began

tree == <<flavour, root, pages, dead, retired>>
scan == <<path, low>>
vars == <<tree, call, pc, target, cur, nxt, scan, got, reply, owed>>

AppendOps == {"Update", "Delete", "PopMin", "PopMax"}
ReadOps   == {"Point", "PeekMin", "PeekMax"}
Ops       == AppendOps \cup ReadOps \cup {"Insert", "Range"}
Calls     == [op : Ops, key : Keys, upto : Keys]

NoPage == 0

(* A start is a search tree with room in its pages and none of them thin,  *)
(* but for the root; the greatest key is only a bound.                     *)
ASSUME StartsAssumption ==
  \A s \in Starts :
    /\ s.flavour \in {OLC, LHL} /\ s.dead \subseteq Keys
    /\ IsTree(s.pages, s.root, FencesOf(s.pages, s.root), HeightsOf(s.pages))
    /\ \A p \in DOMAIN s.pages : Room(s.pages[p]) /\ (p # s.root => ~HasUnderflow(s.pages[p]))
    /\ \A calls \in s.calls :
         /\ calls \in [Threads -> Calls]
         /\ \A t \in Threads : calls[t].op = "Insert" => calls[t].key < MaxKey

-------------------------------------------------------------------------
(* Pages by their numbers. *)

IsLeaf(p)   == IsLeafPage(pages[p])
Child(p, k) == pages[p].kids[ChildPos(pages[p], k)]

(* The leaf that owns a key, found by a descent that nobody disturbs. *)
LeafOf(k) ==
  LET below[p \in DOMAIN pages] == IF IsLeaf(p) THEN p ELSE below[Child(p, k)]
  IN  below[root]

Has(k) == k \in pages[LeafOf(k)].recs

(* Keys that descents find. *)
Stored == {k \in UNION {pages[p].recs : p \in DOMAIN pages} : Has(k)}

(* The keys of a page and of those under it. *)
KeysUnder(page) ==
  LET under[p \in DOMAIN pages] == pages[p].recs \cup UNION {under[c] : c \in ToSet(pages[p].kids)}
  IN  page.recs \cup UNION {under[c] : c \in ToSet(page.kids)}

-------------------------------------------------------------------------
(* Guards. *)

NoGuard      == [page |-> NoPage, mode |-> "none", fresh |-> FALSE]
ReadGuard(p) == [page |-> p, mode |-> "read", fresh |-> TRUE]
Writing(g)   == [g EXCEPT !.mode = "write"]
Pinned(p)    == [page |-> p, mode |-> "pin", fresh |-> TRUE]

HeldFor(p, m) == \E u \in Threads : cur[u].page = p /\ cur[u].mode = m
Readable(p)   == p \notin retired /\ ~HeldFor(p, "write")
Free(p)       == Readable(p) /\ ~HeldFor(p, "pin")

(* is_valid, and the swap of upgrade_write_lock. *)
IsValid(g) == g.mode \in {"write", "pin"} \/ (g.fresh /\ Readable(g.page))
CanSwap(g) == g.mode = "write" \/ (g.fresh /\ Free(g.page))

(* A read guard after a writer has let go of page p. *)
After(g, p) == IF g.page = p /\ g.mode = "read" THEN [g EXCEPT !.fresh = FALSE] ELSE g

(* Thread t goes on with guards c and n, having unlocked page p. *)
SetGuards(t, c, n, p) ==
  /\ cur' = [u \in Threads |-> IF u = t THEN c ELSE After(cur[u], p)]
  /\ nxt' = [u \in Threads |-> IF u = t THEN n ELSE After(nxt[u], p)]

(* The page that is unlocked when current_guard goes. *)
Unlocked(t) == IF cur[t].mode = "write" THEN cur[t].page ELSE NoPage

Goto(t, l) == pc' = [pc EXCEPT ![t] = l]
Open(t)    == pc[t] \notin {"start", "done"}
Writer(t)  == call[t].op \notin ReadOps
Key(t)     == call[t].key

(* Drop both guards and descend again from the root. *)
Restart(t) ==
  /\ SetGuards(t, NoGuard, NoGuard, Unlocked(t))
  /\ Goto(t, "root")
  /\ UNCHANGED <<tree, call, target, scan, got, reply, owed>>

(* What a call asks for. *)
Wanted(c) ==
  IF c.op \in {"PopMin", "PopMax", "PeekMin", "PeekMax"} THEN Keys ELSE c.key..c.upto

-------------------------------------------------------------------------
PCs == {"start", "root", "latchroot", "checkroot", "visit", "child", "checkchild",
        "lockparent", "split", "append", "apply", "search", "give", "scan", "pin", "collect", "done"}

Pages  == [seps : Seq(Keys), kids : Seq(DOMAIN pages), recs : SUBSET Keys]
Guards == [page : DOMAIN pages \cup {NoPage}, mode : {"none", "read", "write", "pin"},
           fresh : BOOLEAN]

TypeOK ==
  /\ flavour \in {OLC, LHL}
  /\ root \in DOMAIN pages
  /\ \A p \in DOMAIN pages :
       /\ pages[p] \in Pages
       /\ ~IsLeaf(p) => Len(pages[p].kids) = Len(pages[p].seps) + 1
  /\ dead \subseteq Keys
  /\ retired \subseteq DOMAIN pages
  /\ call \in [Threads -> Calls]
  /\ pc \in [Threads -> PCs]
  /\ target \in [Threads -> DOMAIN pages \cup {NoPage}]
  /\ cur \in [Threads -> Guards]
  /\ nxt \in [Threads -> Guards]
  /\ path \in [Threads -> Seq([lo : Keys, hi : Keys, page : DOMAIN pages])]
  /\ low \in [Threads -> Keys]
  /\ got \in [Threads -> Seq(Keys)]
  /\ reply \in [Threads -> {"none", "stored", "found", "missing", "matched", "other", "nothing", "error"}]
  /\ owed \in [Threads -> SUBSET Keys]

Init ==
  /\ \E s \in Starts :
       /\ root = s.root
       /\ pages = s.pages
       /\ dead = s.dead
       /\ call \in s.calls
       /\ flavour = s.flavour
  /\ retired = {}
  /\ pc = [t \in Threads |-> "start"]
  /\ target = [t \in Threads |-> NoPage]
  /\ cur = [t \in Threads |-> NoGuard]
  /\ nxt = [t \in Threads |-> NoGuard]
  /\ path = [t \in Threads |-> <<>>]
  /\ low = [t \in Threads |-> call[t].key]
  /\ got = [t \in Threads |-> <<>>]
  /\ reply = [t \in Threads |-> "none"]
  /\ owed = [t \in Threads |-> {}]

-------------------------------------------------------------------------
(* At the root. *)

LoadRoot(t) ==
  /\ pc[t] \in {"start", "root"}
  /\ target' = [target EXCEPT ![t] = root]
  /\ Goto(t, IF call[t].op = "Range" THEN "scan" ELSE "latchroot")
  /\ owed' = IF pc[t] = "start" THEN [owed EXCEPT ![t] = Wanted(call[t]) \cap Stored] ELSE owed
  /\ path' = [path EXCEPT ![t] =
                IF call[t].op = "Range" THEN <<[lo |-> MinKey, hi |-> MaxKey, page |-> root]>>
                                        ELSE <<>>]
  /\ UNCHANGED <<tree, call, cur, nxt, low, got, reply>>

(* The pointer may have been replaced since: the old root is a page like   *)
(* any other.                                                              *)
LatchRoot(t) ==
  /\ pc[t] = "latchroot"
  /\ IF Readable(target[t])
       THEN /\ SetGuards(t, ReadGuard(target[t]), NoGuard, NoPage)
            /\ Goto(t, IF Writer(t) THEN "checkroot" ELSE "visit")
            /\ UNCHANGED <<tree, call, target, scan, got, reply, owed>>
       ELSE Restart(t)

(* The length of a page that someone is writing may be read half-way. *)
SeesOverflow(p) == IF Readable(p) THEN {HasOverflow(pages[p])} ELSE BOOLEAN

KeepRoot(t) ==
  /\ pc[t] = "checkroot"
  /\ FALSE \in SeesOverflow(cur[t].page)
  /\ Goto(t, "visit")
  /\ UNCHANGED <<tree, call, target, cur, nxt, scan, got, reply, owed>>

(* An index root is split in place under a new level. *)
SplitIndexRoot(p) ==
  LET h == Halves(pages[p])
      n == Len(pages) IN
  /\ pages' = [pages EXCEPT ![root] = IndexPage(<<h.sep>>, <<n + 1, n + 2>>)]
                \o <<h.left, h.right>>
  /\ UNCHANGED <<root, owed>>

(* History: the keys that go to another page are owed to nobody any more,  *)
(* and nothing is owed to the threads that are searching the old one.      *)
MovedAway(page, readers) ==
  [u \in Threads |-> IF u \in readers THEN {} ELSE owed[u] \ KeysUnder(page)]

(* Reads that have validated the leaf for the last time. *)
Searching(p) == {u \in Threads : pc[u] \in {"search", "give"} /\ cur[u].page = p}

(* A leaf is cut where Root::block points now, and a new root is published. *)
SplitLeafRoot(p) ==
  LET h == Halves(pages[p])
      n == Len(pages) IN
  /\ pages' = [pages EXCEPT ![root] = KeepFirst(@, Cardinality(h.left.recs))]
                \o <<h.right, IndexPage(<<h.sep>>, <<root, n + 1>>)>>
  /\ root' = n + 2
  /\ owed' = MovedAway(h.right, Searching(root) \cup Searching(p))

(* Either way the guard that the descent goes on with is that of the page  *)
(* latched before the split: for a leaf, its left half.                    *)
SplitRoot(t) ==
  /\ pc[t] = "checkroot"
  /\ TRUE \in SeesOverflow(cur[t].page)
  /\ IF CanSwap(cur[t])
       THEN /\ IF IsLeaf(cur[t].page) THEN SplitLeafRoot(cur[t].page)
                 ELSE SplitIndexRoot(cur[t].page)
            /\ SetGuards(t, Writing(cur[t]), NoGuard, NoPage)
            /\ Goto(t, "visit")
            /\ UNCHANGED <<flavour, dead, retired, call, target, scan, got, reply>>
       ELSE Restart(t)

-------------------------------------------------------------------------
(* Going down. *)

(* A writer wants its guard valid from its latch on; a reader only that    *)
(* nobody is writing now.                                                  *)
MayVisit(t) == IF Writer(t) THEN IsValid(cur[t]) ELSE Readable(cur[t].page)

VisitIndex(t) ==
  /\ pc[t] = "visit"
  /\ ~IsLeaf(cur[t].page)
  /\ IF MayVisit(t)
       THEN /\ target' = [target EXCEPT ![t] = Child(cur[t].page, Key(t))]
            /\ Goto(t, "child")
            /\ UNCHANGED <<tree, call, cur, nxt, scan, got, reply, owed>>
       ELSE Restart(t)

(* A reader lets go of the parent as it takes the child. *)
LatchChild(t) ==
  /\ pc[t] = "child"
  /\ IF Readable(target[t])
       THEN /\ IF Writer(t)
                 THEN /\ SetGuards(t, cur[t], ReadGuard(target[t]), NoPage)
                      /\ Goto(t, "checkchild")
                 ELSE /\ SetGuards(t, ReadGuard(target[t]), NoGuard, NoPage)
                      /\ Goto(t, "visit")
            /\ UNCHANGED <<tree, call, target, scan, got, reply, owed>>
       ELSE Restart(t)

(* Fault: the parent is not validated again once the child is latched. *)
CheckChild_TrustsParent(t) ==
  /\ pc[t] = "checkchild"
  /\ \/ /\ call[t].op = "Insert"
        /\ TRUE \in SeesOverflow(nxt[t].page)
        /\ Goto(t, "lockparent")
        /\ UNCHANGED <<tree, call, target, cur, nxt, scan, got, reply, owed>>
     \/ /\ call[t].op \in AppendOps \/ FALSE \in SeesOverflow(nxt[t].page)
        /\ SetGuards(t, nxt[t], NoGuard, Unlocked(t))
        /\ Goto(t, "visit")
        /\ UNCHANGED <<tree, call, target, scan, got, reply, owed>>

(* The parent must still be as it was when the child was latched.  A child *)
(* that an insert may have to split keeps its parent.                      *)
CheckChild(t) ==
  /\ pc[t] = "checkchild"
  /\ \/ /\ ~IsValid(cur[t])
        /\ Restart(t)
     \/ /\ IsValid(cur[t])
        /\ call[t].op = "Insert"
        /\ TRUE \in SeesOverflow(nxt[t].page)
        /\ Goto(t, "lockparent")
        /\ UNCHANGED <<tree, call, target, cur, nxt, scan, got, reply, owed>>
     \/ /\ IsValid(cur[t])
        /\ call[t].op \in AppendOps \/ FALSE \in SeesOverflow(nxt[t].page)
        /\ SetGuards(t, nxt[t], NoGuard, Unlocked(t))
        /\ Goto(t, "visit")
        /\ UNCHANGED <<tree, call, target, scan, got, reply, owed>>

LockParent(t) ==
  /\ pc[t] = "lockparent"
  /\ IF CanSwap(cur[t])
       THEN /\ SetGuards(t, Writing(cur[t]), nxt[t], NoPage)
            /\ Goto(t, "split")
            /\ UNCHANGED <<tree, call, target, scan, got, reply, owed>>
       ELSE Restart(t)

(* Fault: no flavour brings the page back. *)
Retired_Always(c) == retired \cup {c}

(* mark_obsolete, when the guard is dropped in the end: in the lightweight *)
(* flavour the page stays obsolete, although it is used on.                *)
Retired(c) == IF flavour = LHL THEN retired \cup {c} ELSE retired

(* do_overflow_correction: the full page becomes its left half.  The       *)
(* parent stays locked, and the descent looks again from there.            *)
SplitChild(t) ==
  LET p   == cur[t].page
      c   == nxt[t].page
      h   == Halves(pages[c])
      pos == ChildPos(pages[p], Key(t)) IN
  /\ pc[t] = "split"
  /\ IF CanSwap(nxt[t])
       THEN /\ pages' = Append([pages EXCEPT ![p] = AddChild(@, pos, h.sep, Len(pages) + 1),
                                             ![c] = h.left], h.right)
            /\ retired' = Retired(c)
            /\ SetGuards(t, cur[t], NoGuard, c)
            /\ Goto(t, "visit")
            /\ owed' = MovedAway(h.right, Searching(c))
            /\ UNCHANGED <<flavour, root, dead, call, target, scan, got, reply>>
       ELSE Restart(t)

-------------------------------------------------------------------------
(* On the leaf. *)

LockLeaf(t) ==
  /\ pc[t] = "visit"
  /\ call[t].op = "Insert"
  /\ IsLeaf(cur[t].page)
  /\ IF CanSwap(cur[t])
       THEN /\ SetGuards(t, Writing(cur[t]), NoGuard, NoPage)
            /\ Goto(t, "apply")
            /\ owed' = MovedAway(LeafPage({}), Searching(cur[t].page))
            /\ UNCHANGED <<tree, call, target, scan, got, reply>>
       ELSE Restart(t)

(* Updates, deletes and pops validate their guard, and then pin the leaf,  *)
(* whatever has happened to it in between.                                 *)
ReachLeaf(t) ==
  /\ pc[t] = "visit"
  /\ call[t].op \in AppendOps
  /\ IsLeaf(cur[t].page)
  /\ IF IsValid(cur[t])
       THEN /\ Goto(t, IF cur[t].mode = "write" THEN "apply" ELSE "append")
            /\ UNCHANGED <<tree, call, target, cur, nxt, scan, got, reply, owed>>
       ELSE Restart(t)

PinLeaf(t) ==
  /\ pc[t] = "append"
  /\ IF Free(cur[t].page)
       THEN /\ SetGuards(t, Pinned(cur[t].page), NoGuard, NoPage)
            /\ Goto(t, "apply")
            /\ UNCHANGED <<tree, call, target, scan, got, reply, owed>>
       ELSE Restart(t)

(* The guard is dropped and the call answers r, with keys ks. *)
Finish(t, r, ks) ==
  /\ SetGuards(t, NoGuard, NoGuard, Unlocked(t))
  /\ reply' = [reply EXCEPT ![t] = r]
  /\ got' = [got EXCEPT ![t] = @ \o ks]
  /\ Goto(t, "done")
  /\ owed' = [owed EXCEPT ![t] = {}]
  /\ UNCHANGED <<flavour, root, retired, call, target, low>>

(* dispatch: the leaf is changed and the guard goes. *)
ApplyInsert(t) ==
  /\ pc[t] = "apply"
  /\ call[t].op = "Insert"
  /\ pages' = [pages EXCEPT ![cur[t].page].recs = @ \cup {Key(t)}]
  /\ dead' = dead \ {Key(t)}
  /\ Finish(t, "stored", <<>>)
  /\ UNCHANGED path

ApplyAppend(t) ==
  /\ pc[t] = "apply"
  /\ call[t].op \in {"Update", "Delete"}
  /\ IF Key(t) \in pages[cur[t].page].recs
       THEN /\ dead' = IF call[t].op = "Delete" THEN dead \cup {Key(t)} ELSE dead \ {Key(t)}
            /\ Finish(t, "found", <<>>)
       ELSE /\ UNCHANGED dead
            /\ Finish(t, "missing", <<>>)
  /\ UNCHANGED <<pages, path>>

(* k stands at the end that is asked for: nothing is looked for behind it. *)
ApplyPop(t, op, k) ==
  /\ pc[t] = "apply"
  /\ call[t].op = op
  /\ IF pages[cur[t].page].recs = {} \/ k \in dead
       THEN /\ Finish(t, "error", <<>>)
            /\ UNCHANGED dead
       ELSE /\ dead' = dead \cup {k}
            /\ Finish(t, "matched", <<k>>)
  /\ UNCHANGED <<pages, path>>

PopMin(t) == ApplyPop(t, "PopMin", Smallest(pages[cur[t].page].recs))
PopMax(t) == ApplyPop(t, "PopMax", Largest(pages[cur[t].page].recs))

(* Fault: the records are searched without a look at the latch. *)
TakeRecords_Blindly(t) ==
  /\ pc[t] = "visit"
  /\ call[t].op \in ReadOps
  /\ IsLeaf(cur[t].page)
  /\ Goto(t, "search")
  /\ UNCHANGED <<tree, call, target, cur, nxt, scan, got, reply, owed>>

(* A read takes its leaf's records and validates, for the last time. *)
TakeRecords(t) ==
  /\ pc[t] = "visit"
  /\ call[t].op \in ReadOps
  /\ IsLeaf(cur[t].page)
  /\ IF IsValid(cur[t])
       THEN /\ Goto(t, "search")
            /\ UNCHANGED <<tree, call, target, cur, nxt, scan, got, reply, owed>>
       ELSE Restart(t)

(* The records that a read may come upon in the slot where k stands: in a  *)
(* leaf that a writer shifts or cuts meanwhile, any, and at every look     *)
(* another.                                                                *)
Upon(t, k) ==
  IF IsValid(cur[t]) THEN {e \in pages[cur[t].page].recs : e = k} ELSE Stored

(* The binary search of a point query, and what it reads from the slot it  *)
(* found: "other" is another record's payload under the sought key.        *)
Search(t) ==
  /\ pc[t] = "search"
  /\ call[t].op = "Point"
  /\ \/ /\ Key(t) \in Upon(t, Key(t))
        /\ Goto(t, "give")
        /\ UNCHANGED <<tree, call, target, cur, nxt, scan, got, reply, owed>>
     \/ /\ Key(t) \notin Upon(t, Key(t)) \/ ~IsValid(cur[t])
        /\ Finish(t, "missing", <<>>)
        /\ UNCHANGED <<pages, dead, path>>

GivePoint(t) ==
  /\ pc[t] = "give"
  /\ call[t].op = "Point"
  /\ \/ \E e \in Upon(t, Key(t)) : Finish(t, IF e = Key(t) THEN "found" ELSE "other", <<>>)
     \/ ~IsValid(cur[t]) /\ Finish(t, "missing", <<>>)
  /\ UNCHANGED <<pages, dead, path>>

(* A peek asks the record at the end, where k stands, whether it is live.  *)
(* Slots that a leaf has given up may still say so of a deleted record.    *)
Peek(t, op, k) ==
  /\ pc[t] = "search"
  /\ call[t].op = op
  /\ \/ /\ Upon(t, k) # {}
        /\ IsValid(cur[t]) => k \notin dead
        /\ Goto(t, "give")
        /\ UNCHANGED <<tree, call, target, cur, nxt, scan, got, reply, owed>>
     \/ /\ Upon(t, k) \subseteq dead \/ ~IsValid(cur[t])
        /\ Finish(t, "nothing", <<>>)
        /\ UNCHANGED <<pages, dead, path>>

(* Then it reads the key and the payload, one after the other. *)
Give(t, op, k) ==
  /\ pc[t] = "give"
  /\ call[t].op = op
  /\ \E e, j \in Upon(t, k) : Finish(t, IF e = j THEN "matched" ELSE "other", <<e>>)
  /\ UNCHANGED <<pages, dead, path>>

First(t) == Smallest(pages[cur[t].page].recs)
Final(t) == Largest(pages[cur[t].page].recs)

PeekMin(t) == Peek(t, "PeekMin", First(t))
PeekMax(t) == Peek(t, "PeekMax", Final(t))
GiveMin(t) == Give(t, "PeekMin", First(t))
GiveMax(t) == Give(t, "PeekMax", Final(t))

-------------------------------------------------------------------------
(* Range queries: next_leaf_page, range_query_leaf_results and the loop of *)
(* range_query_olc.  The guards on the path hold nothing, and the words    *)
(* they remember are compared with nothing.                                *)

Covers(f, k) == f.lo <= k /\ k <= f.hi

(* The path down to the last page whose fence contains the key. *)
Above(steps, k) == SubSeq(steps, 1, Largest({i \in DOMAIN steps : Covers(steps[i], k)}))

Below(step, k) ==
  LET page == pages[step.page]
      pos  == ChildPos(page, k)
      f    == ChildFence(page, pos, step) IN
  [lo |-> f.lo, hi |-> f.hi, page |-> page.kids[pos]]

(* All pages of the path given up, the next turn starts at the root: the   *)
(* index of the last one, less one, has wrapped.                           *)
ScanOn(t, steps) ==
  /\ path' = [path EXCEPT ![t] = steps]
  /\ Goto(t, IF steps = <<>> THEN "root" ELSE "scan")

Scan(t) ==
  LET steps == Above(path[t], low[t])
      here  == Last(steps) IN
  /\ pc[t] = "scan"
  /\ \/ /\ ~Readable(here.page)
        /\ ScanOn(t, Front(steps))
     \/ /\ Readable(here.page) /\ ~IsLeaf(here.page)
        /\ ScanOn(t, Append(steps, Below(here, low[t])))
     \/ /\ Readable(here.page) /\ IsLeaf(here.page)
        /\ path' = [path EXCEPT ![t] = steps]
        /\ Goto(t, "pin")
  /\ UNCHANGED <<tree, call, target, cur, nxt, low, got, reply, owed>>

(* The leaf is pinned whatever has happened since the path was laid. *)
PinNextLeaf(t) ==
  LET leaf == Last(path[t]).page IN
  /\ pc[t] = "pin"
  /\ IF Free(leaf)
       THEN /\ SetGuards(t, Pinned(leaf), NoGuard, NoPage)
            /\ Goto(t, "collect")
            /\ UNCHANGED path
       ELSE /\ ScanOn(t, Front(path[t]))
            /\ UNCHANGED <<cur, nxt>>
  /\ UNCHANGED <<tree, call, target, low, got, reply, owed>>

(* Fault: the next leaf is looked for at the end of this one's fence. *)
NextLow_SameLeaf(hi) == hi

(* set_lower. *)
NextLow(hi) == Inc(hi)

(* The records in range are copied, whatever the fence says, the leaf is   *)
(* unpinned, and the fence tells where to go on.                           *)
Collect(t) ==
  LET hi   == Last(path[t]).hi
      part == {k \in pages[cur[t].page].recs : low[t] <= k /\ k <= call[t].upto}
      ks   == InOrder(part) IN
  /\ pc[t] = "collect"
  /\ path' = [path EXCEPT ![t] = Front(@)]
  /\ IF hi = MaxKey \/ NextLow(hi) > call[t].upto
       THEN Finish(t, "matched", ks)
       ELSE /\ SetGuards(t, NoGuard, NoGuard, NoPage)
            /\ low' = [low EXCEPT ![t] = NextLow(hi)]
            /\ got' = [got EXCEPT ![t] = @ \o ks]
            /\ Goto(t, IF Len(path[t]) = 1 THEN "root" ELSE "scan")
            /\ UNCHANGED <<flavour, root, retired, call, target, reply, owed>>
  /\ UNCHANGED <<pages, dead>>

-------------------------------------------------------------------------
Step(t) ==
  \/ LoadRoot(t) \/ LatchRoot(t) \/ KeepRoot(t) \/ SplitRoot(t)
  \/ VisitIndex(t) \/ LatchChild(t) \/ CheckChild(t)
  \/ LockParent(t) \/ SplitChild(t)
  \/ LockLeaf(t) \/ ReachLeaf(t) \/ PinLeaf(t)
  \/ ApplyInsert(t) \/ ApplyAppend(t) \/ PopMin(t) \/ PopMax(t)
  \/ TakeRecords(t) \/ Search(t) \/ PeekMin(t) \/ PeekMax(t)
  \/ GivePoint(t) \/ GiveMin(t) \/ GiveMax(t)
  \/ Scan(t) \/ PinNextLeaf(t) \/ Collect(t)

Done == \A t \in Threads : pc[t] = "done"

Next == (\E t \in Threads : Step(t)) \/ (Done /\ UNCHANGED vars)

(* Threads are scheduled; nothing in a descent waits for another thread. *)
Fairness == \A t \in Threads : WF_vars(Step(t))

Spec == Init /\ [][Next]_vars /\ Fairness

-------------------------------------------------------------------------
(* Every record sits on the leaf that owns its key, and on no other, and   *)
(* separators ascend: no split, and no insert that raced with one, leaves  *)
(* a record where descents do not look.                                    *)
RecordsAreHome ==
  /\ \A p \in DOMAIN pages : \A k \in pages[p].recs : LeafOf(k) = p
  /\ \A p \in DOMAIN pages : \A i, j \in DOMAIN pages[p].seps :
       i < j => pages[p].seps[i] < pages[p].seps[j]

(* Nothing is ever written behind the end of an array: whoever holds a     *)
(* leaf's latch for an insert finds room, as the descent has counted the   *)
(* records and nobody can have filled the leaf in between, and index pages *)
(* that are split one key early have room for one more child at any time.  *)
(* No page shrinks so far that an insert would correct an underflow, which *)
(* is why no action does.                                                  *)
InsertsFindRoom ==
  /\ \A p \in DOMAIN pages :
       /\ Cardinality(pages[p].recs) <= NumRecords
       /\ Len(pages[p].kids) <= FanOut /\ Len(pages[p].seps) <= FanOut - 1
       /\ p # root => ~HasUnderflow(pages[p])
  /\ \A t \in Threads :
       pc[t] = "apply" /\ call[t].op = "Insert" =>
         Cardinality(pages[cur[t].page].recs) < NumRecords

(* A thread that changes a leaf shares it with nobody, and an insert works *)
(* on the leaf that owns its key, whatever was split while it came down.   *)
InsertsOwnTheirLeaf ==
  \A t \in Threads :
    pc[t] \in {"apply", "collect"} =>
      /\ \A u \in Threads \ {t} : cur[u].page = cur[t].page => cur[u].mode = "read"
      /\ call[t].op = "Insert" => LeafOf(Key(t)) = cur[t].page

(* A range query gives each record once and in the order of the keys,      *)
(* although it goes from leaf to leaf by fences that may be out of date.   *)
RangesAscend ==
  \A t \in Threads : \A i, j \in DOMAIN got[t] : i < j => got[t][i] < got[t][j]

(* The directory as callers see it. *)
Phase  == [t \in Threads |-> IF Open(t) THEN "open" ELSE pc[t]]
Answer == [t \in Threads |-> IF Open(t) THEN <<>> ELSE got[t]]

(* The record that a peek has found alive, while its leaf stays as it was. *)
Sighted ==
  [t \in Threads |->
     IF pc[t] = "give" /\ IsValid(cur[t]) /\ call[t].op # "Point"
       THEN {IF call[t].op = "PeekMin" THEN First(t) ELSE Final(t)}
       ELSE {}]

(* Reads whose leaf was locked or cut after their last validation. *)
Adrift == {t \in Threads : pc[t] \in {"search", "give"} /\ ~IsValid(cur[t])}

Directory == INSTANCE KeyDirectory WITH
  keys <- Stored, swept <- {}, phase <- Phase, got <- Answer, seen <- Sighted, adrift <- Adrift

(* Callers see a set of keys that only grows by what they insert: splits   *)
(* change nothing, a key that was there is only missed when it was moved   *)
(* meanwhile, and what is found is there, unless a writer locked or cut    *)
(* the leaf between the last validation of a read and its last look: such  *)
(* a read may mix up records, and no other answers wrongly.                *)
ImplementsDirectory == Directory!Spec

(* However calls invalidate, lock out and overtake one another, every one  *)
(* of finitely many ends, in the flavour whose split pages come back.      *)
CallsEnd == flavour = OLC => <>Done

(* "Error finding new Inserted Version": a record that was reported as     *)
(* inserted can be found.                                                  *)
InsertedIsFound ==
  \A t \in Threads : reply[t] = "stored" => Has(Key(t))
=========================================================================
