--------------------------- MODULE CoupledTree ---------------------------
(***************************************************************************)
(* The B+-tree under the latches that wait: no latch at all for a single   *)
(* thread, mutexes coupled on the way down, or readers-writer latches      *)
(* coupled by writers and kept along the whole path by range queries.      *)
(* With collection on, a split drops deleted records and pages that become *)
(* thin are merged with their right neighbour.  A latch is waited for by a *)
(* step that is not enabled; what is done while the latches are held is    *)
(* part of the step that takes the last of them.                           *)
(***************************************************************************)
EXTENDS TreePages

CONSTANTS
  Threads,     \* callers, one call each
  Starts       \* where to start from: [strategy, gc, root, pages, dead, calls]

Mono == "MonoWriter"
LC   == "LockCoupling"
ORWC == "ORWC"

VARIABLES
  strategy,    \* the LockingStrategy, fixed when the tree is made
  gc,          \* whether the tree collects deleted records
  root,        \* Root::block, as a page number
  pages,       \* the pages, in the order they were allocated
  dead,        \* keys whose newest version is a deletion
  call,        \* call[t]: the operation and the keys it is about
  pc,          \* pc[t]: the next thing t does
  target,      \* target[t]: the root pointer t has read
  held,        \* held[t]: the guards of t from the top down, with fences
  at,          \* at[t]: the guard a range query looks for children under
  low,         \* low[t]: the key a range query goes on from
  got,         \* got[t]: the keys of the answer
  reply,       \* reply[t]: the result of the call
  owed,        \* history: owed[t], keys of the call there since it began
  swept        \* history: keys whose records were collected

kind == <<strategy, gc>>
tree == <<root, pages, dead>>
scan == <<at, low>>
vars == <<kind, tree, call, pc, target, held, scan, got, reply, owed, swept>>

ReadOps == {"Point", "PeekMin", "PeekMax", "Range"}
Ops     == ReadOps \cup {"Insert", "Update", "Delete", "PopMin", "PopMax"}
Calls   == [op : Ops, key : Keys, upto : Keys]

NoPage == 0

(* A call is about one key, unless it is a range; ends are looked for by   *)
(* the bounds of the keys.  The greatest key is only a bound.              *)
Usual(c) ==
  /\ c.op = "Insert" => c.key < MaxKey
  /\ c.op # "Range" => c.upto = c.key
  /\ c.op \in {"PopMin", "PeekMin"} => c.key = MinKey
  /\ c.op \in {"PopMax", "PeekMax"} => c.key = MaxKey

(* A start is a search tree with room in its pages; only collection makes  *)
(* a page thin that is not the root.                                       *)
ASSUME StartsAssumption ==
  \A s \in Starts :
    /\ s.strategy \in {Mono, LC, ORWC} /\ s.gc \in BOOLEAN /\ s.dead \subseteq Keys
    /\ IsTree(s.pages, s.root, FencesOf(s.pages, s.root), HeightsOf(s.pages))
    /\ \A p \in DOMAIN s.pages :
         Room(s.pages[p]) /\ (p # s.root /\ HasUnderflow(s.pages[p]) => s.gc)
    /\ \A calls \in s.calls :
         /\ calls \in [Threads -> Calls]
         /\ \A t \in Threads : Usual(calls[t])

-------------------------------------------------------------------------
(* Pages by their numbers. *)

IsLeaf(p)   == IsLeafPage(pages[p])
Child(p, k) == pages[p].kids[ChildPos(pages[p], k)]

(* The leaf that owns a key, found by a descent that nobody disturbs. *)
LeafOf(k) ==
  LET below[p \in DOMAIN pages] == IF IsLeaf(p) THEN p ELSE below[Child(p, k)]
  IN  below[root]

Has(k) == k \in pages[LeafOf(k)].recs

(* Pages that can still be reached: merged ones are left behind. *)
InTree ==
  LET under[p \in DOMAIN pages] == {p} \cup UNION {under[c] : c \in ToSet(pages[p].kids)}
  IN  under[root]

Stored == {k \in UNION {pages[p].recs : p \in InTree} : Has(k)}

-------------------------------------------------------------------------
(* Latches. *)

Full == [lo |-> MinKey, hi |-> MaxKey]

Guard(p, m, f) == [page |-> p, mode |-> m, lo |-> f.lo, hi |-> f.hi]

Writer(t) == call[t].op \notin ReadOps
Key(t)    == call[t].key

(* lock_reader, lock_reader_olc and apply_for_ref: the height that the     *)
(* latter is given never grows, so that a writer's latches are exclusive   *)
(* at every level.                                                         *)
ModeOf(t) ==
  CASE strategy = Mono -> "free"
    [] strategy = LC -> "excl"
    [] strategy = ORWC -> IF Writer(t) THEN "excl" ELSE "shared"

Compatible(m, n) == m \in {"free", "lost"} \/ n \in {"free", "lost"} \/ (m = "shared" /\ n = "shared")

Available(p, m) ==
  \A u \in Threads : \A i \in DOMAIN held[u] : held[u][i].page = p => Compatible(held[u][i].mode, m)

Page(t) == Last(held[t]).page

Goto(t, l)  == pc' = [pc EXCEPT ![t] = l]
Hold(t, gs) == held' = [held EXCEPT ![t] = gs]
Open(t)     == pc[t] \notin {"start", "done"}

(* What a call asks for. *)
Wanted(c) ==
  IF c.op \in {"PopMin", "PopMax", "PeekMin", "PeekMax"} THEN Keys ELSE c.key..c.upto

-------------------------------------------------------------------------
PCs == {"start", "root", "lockroot", "checkroot", "visit", "thin", "scan", "upgrade",
        "trywrite", "collect", "done", "panic"}

Pages  == [seps : Seq(Keys), kids : Seq(DOMAIN pages), recs : SUBSET Keys]
Guards == [page : DOMAIN pages, mode : {"free", "shared", "excl", "lost"}, lo : Keys, hi : Keys]

TypeOK ==
  /\ strategy \in {Mono, LC, ORWC} /\ gc \in BOOLEAN
  /\ root \in DOMAIN pages
  /\ \A p \in DOMAIN pages :
       /\ pages[p] \in Pages
       /\ ~IsLeaf(p) => Len(pages[p].kids) = Len(pages[p].seps) + 1
  /\ dead \subseteq Keys /\ swept \subseteq Keys
  /\ call \in [Threads -> Calls]
  /\ pc \in [Threads -> PCs]
  /\ target \in [Threads -> DOMAIN pages \cup {NoPage}]
  /\ held \in [Threads -> Seq(Guards)]
  /\ at \in [Threads -> Nat] /\ \A t \in Threads : at[t] \in 0..Len(held[t])
  /\ low \in [Threads -> Keys]
  /\ got \in [Threads -> Seq(Keys)]
  /\ reply \in [Threads -> {"none", "stored", "found", "missing", "matched", "nothing", "error"}]
  /\ owed \in [Threads -> SUBSET Keys]

Init ==
  /\ \E s \in Starts :
       /\ strategy = s.strategy /\ gc = s.gc
       /\ root = s.root /\ pages = s.pages /\ dead = s.dead
       /\ call \in s.calls
  /\ pc = [t \in Threads |-> "start"]
  /\ target = [t \in Threads |-> NoPage]
  /\ held = [t \in Threads |-> <<>>]
  /\ at = [t \in Threads |-> 0]
  /\ low = [t \in Threads |-> call[t].key]
  /\ got = [t \in Threads |-> <<>>]
  /\ reply = [t \in Threads |-> "none"]
  /\ owed = [t \in Threads |-> {}]
  /\ swept = {}

-------------------------------------------------------------------------
(* At the root.  A tree without latches has one caller at a time. *)

LoadRoot(t) ==
  /\ pc[t] \in {"start", "root"}
  /\ strategy = Mono => \A u \in Threads \ {t} : ~Open(u)
  /\ target' = [target EXCEPT ![t] = root]
  /\ Goto(t, "lockroot")
  /\ owed' = IF pc[t] = "start" THEN [owed EXCEPT ![t] = Wanted(call[t]) \cap Stored] ELSE owed
  /\ UNCHANGED <<kind, tree, call, held, scan, got, reply, swept>>

LockRoot(t) ==
  /\ pc[t] = "lockroot"
  /\ Available(target[t], ModeOf(t))
  /\ Hold(t, <<Guard(target[t], ModeOf(t), Full)>>)
  /\ at' = [at EXCEPT ![t] = 1]
  /\ Goto(t, CASE Writer(t) -> "checkroot"
               [] call[t].op = "Range" -> "scan"
               [] call[t].op \in ReadOps \ {"Range"} -> "visit")
  /\ UNCHANGED <<kind, tree, call, target, low, got, reply, owed, swept>>

KeepRoot(t) ==
  /\ pc[t] = "checkroot"
  /\ ~HasOverflow(pages[Page(t)])
  /\ Goto(t, "visit")
  /\ UNCHANGED <<kind, tree, call, target, held, scan, got, reply, owed, swept>>

(* What the collecting split drops before it cuts a page. *)
Garbage(page) == IF gc /\ FewDead(page, dead) THEN page.recs \cap dead ELSE {}

Without(page, gone) == [page EXCEPT !.recs = @ \ gone]

Sweep(gone) ==
  /\ dead' = dead \ gone
  /\ swept' = swept \cup gone
  /\ owed' = [u \in Threads |-> owed[u] \ gone]

(* As under optimistic latches: an index root is split in place; a leaf is *)
(* cut where Root::block points now, and the guard stays on its left half. *)
SplitRoot(t) ==
  LET gone == Garbage(pages[Page(t)])
      h    == Halves(Without(pages[Page(t)], gone))
      n    == Len(pages) IN
  /\ pc[t] = "checkroot"
  /\ HasOverflow(pages[Page(t)])
  /\ IF IsLeaf(Page(t))
       THEN /\ pages' = [pages EXCEPT ![root] =
                            KeepFirst(Without(@, gone), Cardinality(h.left.recs))]
                          \o <<h.right, IndexPage(<<h.sep>>, <<root, n + 1>>)>>
            /\ root' = n + 2
       ELSE /\ pages' = [pages EXCEPT ![root] = IndexPage(<<h.sep>>, <<n + 1, n + 2>>)]
                          \o <<h.left, h.right>>
            /\ UNCHANGED root
  /\ Sweep(gone)
  /\ Goto(t, "visit")
  /\ UNCHANGED <<kind, call, target, held, scan, got, reply>>

-------------------------------------------------------------------------
(* Going down, the child latched before the parent is let go. *)

Visits(t)   == pc[t] = "visit" /\ ~IsLeaf(Page(t))
NextPage(t) == Child(Page(t), Key(t))

(* Fault: the parent is let go while the child's latch is waited for. *)
PassChild_LetsGo(t) ==
  LET c == NextPage(t) IN
  /\ Visits(t)
  /\ Writer(t) => ~HasOverflow(pages[c]) /\ ~HasUnderflow(pages[c])
  /\ target' = [target EXCEPT ![t] = c]
  /\ Goto(t, "lockroot")
  /\ Hold(t, <<>>) /\ at' = [at EXCEPT ![t] = 0]
  /\ UNCHANGED <<kind, tree, call, low, got, reply, owed, swept>>

PassChild(t) ==
  LET c == NextPage(t) IN
  /\ Visits(t)
  /\ Available(c, ModeOf(t))
  /\ Writer(t) => ~HasOverflow(pages[c]) /\ ~HasUnderflow(pages[c])
  /\ Hold(t, <<Guard(c, ModeOf(t), Full)>>)
  /\ UNCHANGED <<kind, tree, call, pc, target, scan, got, reply, owed, swept>>

(* do_overflow_correction: the child becomes its left half, and the        *)
(* descent looks again from the parent.                                    *)
SplitChild(t) ==
  LET p    == Page(t)
      c    == NextPage(t)
      gone == Garbage(pages[c])
      h    == Halves(Without(pages[c], gone))
      pos  == ChildPos(pages[p], Key(t)) IN
  /\ Visits(t) /\ Writer(t)
  /\ Available(c, ModeOf(t))
  /\ HasOverflow(pages[c])
  /\ pages' = Append([pages EXCEPT ![p] = AddChild(@, pos, h.sep, Len(pages) + 1),
                                   ![c] = h.left], h.right)
  /\ Sweep(gone)
  /\ UNCHANGED <<kind, root, call, pc, target, held, scan, got, reply>>

TakeThinChild(t) ==
  LET c == NextPage(t) IN
  /\ Visits(t) /\ Writer(t)
  /\ Available(c, ModeOf(t))
  /\ ~HasOverflow(pages[c]) /\ HasUnderflow(pages[c])
  /\ Hold(t, Append(held[t], Guard(c, ModeOf(t), Full)))
  /\ Goto(t, "thin")
  /\ UNCHANGED <<kind, tree, call, target, scan, got, reply, owed, swept>>

-------------------------------------------------------------------------
(* do_underflow_correction, with the parent and the thin child held. *)

Parent(t)  == held[t][1].page
ThinPos(t) == ChildPos(pages[Parent(t)], Key(t))

(* The search among the other children for the key on the right of the     *)
(* thin one ends at its right neighbour.                                   *)
Neighbour(t) == pages[Parent(t)].kids[ThinPos(t) + 1]

(* Whatever happens to them, the child and its neighbour are let go. *)
Corrected(t) ==
  /\ Hold(t, <<held[t][1]>>)
  /\ Goto(t, "visit")
  /\ UNCHANGED <<kind, root, call, target, scan, got, reply, owed, swept>>

(* Records are cloned into their new pages.  The clone of a linked version *)
(* list loses the end of its newest version, unless that is its only one   *)
(* (Clone of StampedChain): a deleted record may live again.               *)
Cloned(recs) == \E alive \in SUBSET (dead \cap recs) : dead' = dead \ alive

(* Fault: the neighbour's separator is the one that goes. *)
Merged_OtherKey(parent, pos, n) ==
  [DropChild(parent, pos + 1) EXCEPT !.kids[pos] = n,
     !.seps = RemoveAt(parent.seps, IF pos < Len(parent.seps) THEN pos + 1 ELSE pos)]

(* The parent of two pages that became page n. *)
Merged(parent, pos, n) == [DropChild(parent, pos + 1) EXCEPT !.kids[pos] = n]

(* The parent of two leaves whose records were dealt out anew as pages n   *)
(* and n + 1.                                                              *)
Dealt(parent, pos, key, n) ==
  [parent EXCEPT !.seps[pos] = key, !.kids[pos] = n, !.kids[pos + 1] = n + 1]

(* merge: the root takes over what its only two children hold, and gives   *)
(* up a level.                                                             *)
MergeIntoRoot(t, left, both, fit) ==
  /\ Len(pages[Parent(t)].seps) = 1
  /\ IF IsLeafPage(left) THEN fit ELSE PageLen(both) < FanOut
  /\ Parent(t) = root
  /\ pages' = [pages EXCEPT ![root] = both]

(* Both become one new page. *)
Combine(t, both, fit) ==
  /\ Len(pages[Parent(t)].seps) > 1
  /\ fit
  /\ pages' = Append([pages EXCEPT ![Parent(t)] = Merged(@, ThinPos(t), Len(pages) + 1)], both)

(* Two leaves that do not fit in one become two new ones. *)
DealLeaves(t, both, fit) ==
  LET h == Halves(both) IN
  /\ IsLeafPage(both) /\ ~fit
  /\ pages' = [pages EXCEPT ![Parent(t)] = Dealt(@, ThinPos(t), h.sep, Len(pages) + 1)]
                \o <<h.left, h.right>>

(* Old pages are left as they are, out of the tree: nobody waits for them, *)
(* as the parent is held.                                                  *)
CorrectThin(t) ==
  LET left  == pages[held[t][2].page]
      right == pages[Neighbour(t)]
      both  == Joined(left, pages[Parent(t)].seps[ThinPos(t)], right)
      fit   == FitTogether(left, right) IN
  /\ pc[t] = "thin"
  /\ ThinPos(t) <= Len(pages[Parent(t)].seps)
  /\ Available(Neighbour(t), ModeOf(t))
  /\ \/ MergeIntoRoot(t, left, both, fit)
     \/ Combine(t, both, fit)
     \/ DealLeaves(t, both, fit)
  /\ Cloned(both.recs)
  /\ Corrected(t)

(* keys[child_pos] of the last child lies behind the end of the slice; two *)
(* index pages that do not fit in one are dealt out without the separator  *)
(* between them, which leaves one child without a key, or are written past *)
(* the end of the root's arrays when they are its only children; and no    *)
(* page but the root may be merged into ("Merge non-root into lower        *)
(* height").  A debug build aborts at the first, an unwinding panic ends   *)
(* the last; what the code goes on with is not a tree, and the model ends. *)
Undefined(t) ==
  LET seps == pages[Parent(t)].seps
      left == pages[held[t][2].page]
      fit  == FitTogether(left, pages[Neighbour(t)]) IN
  \/ ThinPos(t) > Len(seps)
  \/ ~IsLeafPage(left) /\ IF Len(seps) > 1 THEN ~fit
                           ELSE PageLen(left) + PageLen(pages[Neighbour(t)]) + 1 >= FanOut
  \/ Len(seps) = 1 /\ Parent(t) # root /\ (IsLeafPage(left) => fit)

Panic(t) ==
  /\ pc[t] = "thin"
  /\ Undefined(t)
  /\ Goto(t, "panic")
  /\ UNCHANGED <<kind, tree, call, target, held, scan, got, reply, owed, swept>>

-------------------------------------------------------------------------
(* On the leaf, which nobody else can change. *)

(* The guards are dropped and the call answers r, with keys ks. *)
Finish(t, r, ks) ==
  /\ Hold(t, <<>>) /\ at' = [at EXCEPT ![t] = 0]
  /\ reply' = [reply EXCEPT ![t] = r]
  /\ got' = [got EXCEPT ![t] = @ \o ks]
  /\ Goto(t, "done")
  /\ owed' = [owed EXCEPT ![t] = {}]
  /\ UNCHANGED <<kind, root, call, target, low, swept>>

OnLeaf(t, ops) == pc[t] = "visit" /\ IsLeaf(Page(t)) /\ call[t].op \in ops

Recs(t) == pages[Page(t)].recs

Insert(t) ==
  /\ OnLeaf(t, {"Insert"})
  /\ pages' = [pages EXCEPT ![Page(t)].recs = @ \cup {Key(t)}]
  /\ dead' = dead \ {Key(t)}
  /\ Finish(t, "stored", <<>>)

Change(t) ==
  /\ OnLeaf(t, {"Update", "Delete"})
  /\ IF Key(t) \in Recs(t)
       THEN /\ dead' = IF call[t].op = "Delete" THEN dead \cup {Key(t)} ELSE dead \ {Key(t)}
            /\ Finish(t, "found", <<>>)
       ELSE /\ UNCHANGED dead
            /\ Finish(t, "missing", <<>>)
  /\ UNCHANGED pages

Point(t) ==
  /\ OnLeaf(t, {"Point"})
  /\ Finish(t, IF Key(t) \in Recs(t) THEN "found" ELSE "missing", <<>>)
  /\ UNCHANGED <<pages, dead>>

(* k stands at the end that is asked for: nothing is looked for behind it. *)
Pop(t, k) ==
  /\ IF Recs(t) = {} \/ k \in dead
       THEN /\ Finish(t, "error", <<>>)
            /\ UNCHANGED dead
       ELSE /\ dead' = dead \cup {k}
            /\ Finish(t, "matched", <<k>>)
  /\ UNCHANGED pages

PopMin(t) == OnLeaf(t, {"PopMin"}) /\ Pop(t, Smallest(Recs(t)))
PopMax(t) == OnLeaf(t, {"PopMax"}) /\ Pop(t, Largest(Recs(t)))

Peek(t, k) ==
  /\ IF Recs(t) = {} \/ k \in dead
       THEN Finish(t, "nothing", <<>>)
       ELSE Finish(t, "matched", <<k>>)
  /\ UNCHANGED <<pages, dead>>

PeekMin(t) == OnLeaf(t, {"PeekMin"}) /\ Peek(t, Smallest(Recs(t)))
PeekMax(t) == OnLeaf(t, {"PeekMax"}) /\ Peek(t, Largest(Recs(t)))

-------------------------------------------------------------------------
(* Range queries: the guards of the path are kept, also those of pages the *)
(* query has left behind, until the next leaf is reached.                  *)

Covers(g, k) == g.lo <= k /\ k <= g.hi

(* The lowest guard, from the one at hand upwards, whose fence has the key.*)
Branch(t) == Largest({i \in 1..at[t] : Covers(held[t][i], low[t])})

(* Fault: the pages above are not kept latched. *)
ScanIndex_LetsGo(t) ==
  LET i    == Branch(t)
      page == pages[held[t][i].page]
      pos  == ChildPos(page, low[t])
      c    == page.kids[pos] IN
  /\ pc[t] = "scan"
  /\ ~IsLeafPage(page)
  /\ Available(c, ModeOf(t))
  /\ Hold(t, Append([j \in 1..i |-> [held[t][j] EXCEPT !.mode = "lost"]],
                    Guard(c, ModeOf(t), ChildFence(page, pos, held[t][i]))))
  /\ at' = [at EXCEPT ![t] = i + 1]
  /\ UNCHANGED <<kind, tree, call, pc, target, low, got, reply, owed, swept>>

ScanIndex(t) ==
  LET i    == Branch(t)
      page == pages[held[t][i].page]
      pos  == ChildPos(page, low[t])
      c    == page.kids[pos] IN
  /\ pc[t] = "scan"
  /\ ~IsLeafPage(page)
  /\ Available(c, ModeOf(t))
  /\ Hold(t, InsertAt(held[t], i + 1, Guard(c, ModeOf(t), ChildFence(page, pos, held[t][i]))))
  /\ at' = [at EXCEPT ![t] = i + 1]
  /\ UNCHANGED <<kind, tree, call, pc, target, low, got, reply, owed, swept>>

ScanLeaf(t) ==
  /\ pc[t] = "scan"
  /\ IsLeaf(held[t][Branch(t)].page)
  /\ Hold(t, SubSeq(held[t], 1, Branch(t)))
  /\ at' = [at EXCEPT ![t] = Branch(t)]
  /\ Goto(t, "upgrade")
  /\ UNCHANGED <<kind, tree, call, target, low, got, reply, owed, swept>>

(* Fault: the shared latch is still held when the exclusive one is tried.  *)
Upgrade_KeepsShared(t) ==
  /\ pc[t] = "upgrade"
  /\ Goto(t, IF Last(held[t]).mode = "shared" THEN "trywrite" ELSE "collect")
  /\ UNCHANGED <<kind, tree, call, target, held, scan, got, reply, owed, swept>>

(* upgrade_append_lock of a shared latch gives it up first. *)
Upgrade(t) ==
  /\ pc[t] = "upgrade"
  /\ IF Last(held[t]).mode = "shared"
       THEN /\ Hold(t, [held[t] EXCEPT ![Len(held[t])].mode = "lost"])
            /\ Goto(t, "trywrite")
       ELSE /\ Goto(t, "collect")
            /\ UNCHANGED held
  /\ UNCHANGED <<kind, tree, call, target, scan, got, reply, owed, swept>>

(* When that fails the guard is gone, and the leaf is looked for again. *)
TryWrite(t) ==
  /\ pc[t] = "trywrite"
  /\ IF Available(Page(t), "excl")
       THEN /\ Hold(t, [held[t] EXCEPT ![Len(held[t])].mode = "excl"])
            /\ Goto(t, "collect")
            /\ UNCHANGED at
       ELSE /\ Hold(t, Front(held[t]))
            /\ at' = [at EXCEPT ![t] = Len(held[t]) - 1]
            /\ Goto(t, IF Len(held[t]) = 1 THEN "root" ELSE "scan")
  /\ UNCHANGED <<kind, tree, call, target, low, got, reply, owed, swept>>

(* The records in range are copied and searched, and the leaf is let go. *)
Collect(t) ==
  LET hi   == Last(held[t]).hi
      part == {k \in Recs(t) : low[t] <= k /\ k <= call[t].upto}
      ks   == InOrder(part) IN
  /\ pc[t] = "collect"
  /\ IF hi = MaxKey \/ Inc(hi) > call[t].upto
       THEN Finish(t, "matched", ks)
       ELSE /\ Hold(t, Front(held[t]))
            /\ at' = [at EXCEPT ![t] = Len(held[t]) - 1]
            /\ low' = [low EXCEPT ![t] = Inc(hi)]
            /\ got' = [got EXCEPT ![t] = @ \o ks]
            /\ Goto(t, IF Len(held[t]) = 1 THEN "root" ELSE "scan")
            /\ UNCHANGED <<kind, root, call, target, reply, owed, swept>>
  /\ UNCHANGED <<pages, dead>>

-------------------------------------------------------------------------
Step(t) ==
  \/ LoadRoot(t) \/ LockRoot(t) \/ KeepRoot(t) \/ SplitRoot(t)
  \/ PassChild(t) \/ SplitChild(t)
  \/ TakeThinChild(t) \/ CorrectThin(t) \/ Panic(t)
  \/ Insert(t) \/ Change(t) \/ Point(t)
  \/ PopMin(t) \/ PopMax(t) \/ PeekMin(t) \/ PeekMax(t)
  \/ ScanIndex(t) \/ ScanLeaf(t) \/ Upgrade(t) \/ TryWrite(t) \/ Collect(t)

(* A panic takes the process with it. *)
Aborted == \E t \in Threads : pc[t] = "panic"
Over    == Aborted \/ \A t \in Threads : pc[t] = "done"

Next == (~Over /\ \E t \in Threads : Step(t)) \/ (Over /\ UNCHANGED vars)

(* The latch that t's next step takes, if it takes one. *)
Asks(t) ==
  CASE pc[t] = "lockroot" -> {target[t]}
    [] Visits(t) -> {NextPage(t)}
    [] pc[t] = "thin" -> IF Undefined(t) THEN {} ELSE {Neighbour(t)}
    [] pc[t] = "scan" -> LET p == held[t][Branch(t)].page IN
                         IF IsLeaf(p) THEN {} ELSE {Child(p, low[t])}
    [] OTHER -> {}

(* A reader need not be served while a writer waits for the same latch:    *)
(* parking_lot lets writers go first.                                      *)
Served(t) ==
  \A u \in Threads \ {t} :
    ModeOf(t) = "shared" /\ ModeOf(u) = "excl" => Asks(t) \cap Asks(u) = {}

Fairness == \A t \in Threads : WF_vars(~Over /\ Served(t) /\ Step(t))

Spec == Init /\ [][Next]_vars /\ Fairness

-------------------------------------------------------------------------
(* Every record in the tree sits on the leaf that owns its key, and        *)
(* separators ascend, whatever was split, collected, merged or dealt out.  *)
RecordsAreHome ==
  /\ \A p \in InTree : \A k \in pages[p].recs : LeafOf(k) = p
  /\ \A p \in InTree : \A i, j \in DOMAIN pages[p].seps :
       i < j => pages[p].seps[i] < pages[p].seps[j]

(* No page holds more than its arrays have room for: "is_overflow: Alloc". *)
(* (A tree that collects may merge the children of its root into a page so *)
(* full that the next split beneath it does not fit.)                      *)
PagesFit ==
  ~gc => \A p \in InTree :
    /\ Cardinality(pages[p].recs) <= NumRecords
    /\ Len(pages[p].seps) <= FanOut - 1

(* The fence of a guard that a range query holds is what the pages above   *)
(* say, so that following it from leaf to leaf misses nothing.             *)
FencesAreTrue ==
  \A t \in Threads : call[t].op = "Range" =>
    \A i \in 1..at[t] :
      LET g == held[t][i] IN
      IsLeaf(g.page) =>
        \A k \in Keys : LeafOf(k) = g.page <=> Covers(g, k)

(* The corrections of thin pages read no separator behind the last one:    *)
(* "slice::get_unchecked requires that the index is within the slice".     *)
NobodyPanics == \A t \in Threads : pc[t] # "panic"

(* The directory as callers see it. *)
Phase  == [t \in Threads |-> IF Open(t) THEN "open" ELSE pc[t]]
Answer == [t \in Threads |-> IF Open(t) THEN <<>> ELSE got[t]]

Directory == INSTANCE KeyDirectory WITH
  keys <- Stored, phase <- Phase, got <- Answer,
  seen <- [t \in Threads |-> {}], adrift <- {}

(* Every answer is right for some moment of the call: nothing that was     *)
(* there all the time is missed, in spite of splits, merges and ranges     *)
(* that go from leaf to leaf, and only deleted records are collected.      *)
ImplementsDirectory == Directory!StillSpec

(* No thread waits for ever, although latches are held while others are    *)
(* waited for; of ranges over readers-writer latches there may be one, as  *)
(* two can keep one another from upgrading the same leaf.                  *)
Ranges   == {t \in Threads : call[t].op = "Range"}
CallsEnd == (strategy = ORWC => Cardinality(Ranges) <= 1) => <>Over
=========================================================================
