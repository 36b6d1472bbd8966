----------------------------- MODULE VWeaver -----------------------------
(***************************************************************************)
(* The horizontal links of vWeaver.  When a version is superseded, the     *)
(* writer links it to what the next record in key order was just then, and *)
(* a scan of an old snapshot walks these k_ridgy links from record to      *)
(* record, also into the next leaf, and goes through the leaves only where *)
(* a link is missing.  The vertical search, find_from, is what RidgeChain  *)
(* shows it to be: the newest version that is not younger than asked for.  *)
(* Latches are optimistic; leaves are not split meanwhile.                 *)
(***************************************************************************)
EXTENDS Naturals, FiniteSets, Sequences

CONSTANTS
  Threads,     \* callers
  Fences,      \* Fences[l]: the last key that leaf l owns
  Loaded,      \* keys that have been inserted before, in ascending order
  Scripts      \* bound: what the threads may have to do, call after call

LastKey == Fences[Len(Fences)]
Keys    == 1..LastKey
Leaves  == DOMAIN Fences

Nobody == "nobody"
Ops    == {"Insert", "Update", "Delete"}
Calls  == [op : Ops \cup {"Range"}, key : Keys, upto : Keys]

ASSUME FencesAssumption ==
  /\ Fences \in Seq(Nat \ {0}) /\ Fences # <<>>
  /\ \A l, m \in Leaves : l < m => Fences[l] < Fences[m]
ASSUME LoadedAssumption  == Loaded \subseteq Keys
ASSUME ThreadsAssumption == Nobody \notin Threads
ASSUME ScriptsAssumption ==
  \A s \in Scripts : s \in [Threads -> Seq(Calls)] /\ \A t \in Threads : s[t] # <<>>

VARIABLES
  chain,       \* chain[k]: the versions of key k, oldest first
  latch,       \* latch[l]: who pins or writes leaf l
  clock,       \* the last version drawn
  todo,        \* todo[t]: the calls that t still has to make
  pc,          \* pc[t]: the next thing t does
  call,        \* call[t]: the operation and the keys it is about
  version,     \* version[t]: the version drawn, or the snapshot scanned
  target,      \* target[t]: the node to be linked to, or walked on to
  low,         \* low[t]: the key that a scan goes on from
  last,        \* last[t]: the key that a walk has come to
  got,         \* got[t]: the keys and versions found so far
  late         \* history: writes at work behind a link that was set

calls == <<todo, call, version>>
scan  == <<low, last, got>>
vars  == <<chain, latch, clock, pc, calls, target, scan, late>>

NoNode == [key |-> 0, pos |-> 0]

-------------------------------------------------------------------------
Smallest(S) == CHOOSE k \in S : \A j \in S : k <= j

Inc(k) == IF k = LastKey THEN k ELSE k + 1

LeafOf(k)  == Smallest({l \in Leaves : k <= Fences[l]})
Records(l) == {k \in Keys : LeafOf(k) = l /\ chain[k] # <<>>}

Node(n) == chain[n.key][n.pos]

(* find_any, from the first n versions of a key: the newest that is not    *)
(* younger than v, or 0.                                                   *)
FindAny(k, n, v) == Cardinality({i \in 1..n : chain[k][i].ver <= v})

NodeAt(k, v) == LET i == FindAny(k, Len(chain[k]), v) IN
                IF i = 0 THEN NoNode ELSE [key |-> k, pos |-> i]

(* find: the same, but no tombstone. *)
IsFound(k, n, v) == FindAny(k, n, v) > 0 /\ chain[k][FindAny(k, n, v)].live

Visible(k, v) == IsFound(k, Len(chain[k]), v)

Writing(t) == pc[t] # "idle" /\ call[t].op \in Ops

(* The snapshots that nobody writes behind. *)
Stable == {v \in 1..clock : \A t \in Threads : Writing(t) => v < version[t]}

Goto(t, l) == pc' = [pc EXCEPT ![t] = l]

-------------------------------------------------------------------------
TypeOK ==
  /\ \A k \in Keys : \A i \in DOMAIN chain[k] :
       /\ chain[k][i].ver \in 1..clock /\ chain[k][i].live \in BOOLEAN
       /\ LET n == chain[k][i].link IN n # NoNode => n.key \in Keys /\ n.pos \in DOMAIN chain[n.key]
  /\ latch \in [Leaves -> [by : Threads \cup {Nobody}, mode : {"free", "pin", "write"}]]
  /\ clock \in Nat
  /\ pc \in [Threads -> {"idle", "push", "weave", "look", "store", "ending", "visit", "walk"}]
  /\ call \in [Threads -> Calls] /\ todo \in [Threads -> Seq(Calls)]
  /\ version \in [Threads -> 0..clock]
  /\ low \in [Threads -> Keys] /\ last \in [Threads -> Keys]
  /\ got \in [Threads -> Seq([key : Keys, ver : 1..clock])]
  /\ late \subseteq [key : Keys, ver : 1..clock]

Init ==
  /\ chain = [k \in Keys |->
                IF k \in Loaded
                  THEN <<[ver |-> Cardinality({j \in Loaded : j <= k}), live |-> TRUE, link |-> NoNode]>>
                  ELSE <<>>]
  /\ latch = [l \in Leaves |-> [by |-> Nobody, mode |-> "free"]]
  /\ clock = Cardinality(Loaded)
  /\ todo \in Scripts
  /\ pc = [t \in Threads |-> "idle"]
  /\ call = [t \in Threads |-> Head(todo[t])]
  /\ version = [t \in Threads |-> 0]
  /\ target = [t \in Threads |-> NoNode]
  /\ low = [t \in Threads |-> LastKey]
  /\ last = [t \in Threads |-> LastKey]
  /\ got = [t \in Threads |-> <<>>]
  /\ late = {}

-------------------------------------------------------------------------
Starts(t, ops) == pc[t] = "idle" /\ todo[t] # <<>> /\ Head(todo[t]).op \in ops

(* A write: the leaf is latched, pinned unless records may move, and the   *)
(* version is drawn under the latch.                                       *)
Begin(t) ==
  LET c == Head(todo[t]) IN
  /\ Starts(t, Ops)
  /\ latch[LeafOf(c.key)].by = Nobody
  /\ latch' = [latch EXCEPT ![LeafOf(c.key)] =
                 [by |-> t, mode |-> IF c.op = "Insert" THEN "write" ELSE "pin"]]
  /\ clock' = clock + 1
  /\ version' = [version EXCEPT ![t] = clock + 1]
  /\ call' = [call EXCEPT ![t] = c]
  /\ todo' = [todo EXCEPT ![t] = Tail(@)]
  /\ Goto(t, "push")
  /\ UNCHANGED <<chain, target, scan, late>>

(* The guard is dropped, which ends the part under the latch. *)
Release(t) ==
  /\ latch' = [latch EXCEPT ![LeafOf(call[t].key)] = [by |-> Nobody, mode |-> "free"]]
  /\ Goto(t, "ending")

(* A version of its own for every write, but a deletion of what is deleted *)
(* leaves the record as it is, and a key without record is not changed.    *)
Push(t) ==
  LET k   == call[t].key
      op  == call[t].op
      new == [ver |-> version[t], live |-> op # "Delete", link |-> NoNode] IN
  /\ pc[t] = "push"
  /\ IF op # "Insert" /\ chain[k] = <<>>
       THEN Release(t) /\ UNCHANGED chain
       ELSE /\ chain' = IF op = "Delete" /\ ~Visible(k, version[t])
                          THEN chain
                          ELSE [chain EXCEPT ![k] = Append(@, new)]
            /\ Goto(t, "weave")
            /\ UNCHANGED latch
  /\ UNCHANGED <<clock, calls, target, scan, late>>

-------------------------------------------------------------------------
(* weaver_callback, with the guard of the leaf moved into it. *)

(* The version that t's write, or an earlier deletion, put an end to. *)
Superseded(t) == [key |-> call[t].key, pos |-> NodeAt(call[t].key, version[t]).pos - 1]

Link(t, n) == chain' = [chain EXCEPT ![Superseded(t).key][Superseded(t).pos].link = n]

Right(t) == {k \in Records(LeafOf(call[t].key)) : k > call[t].key}

(* Faults: what the neighbour was when the old version began, and a link   *)
(* that was set is set again.                                              *)
Weave_AtOld(t) ==
  /\ pc[t] = "weave"
  /\ IF Superseded(t).pos = 0 \/ Node(Superseded(t)).link # NoNode
       THEN Release(t) /\ UNCHANGED chain
       ELSE IF Right(t) # {}
         THEN /\ Link(t, NodeAt(Smallest(Right(t)), Node(Superseded(t)).ver))
              /\ Release(t)
         ELSE Goto(t, "look") /\ UNCHANGED <<chain, latch>>
  /\ UNCHANGED <<clock, calls, target, scan, late>>

Weave_Again(t) ==
  /\ pc[t] = "weave"
  /\ IF Superseded(t).pos = 0
       THEN Release(t) /\ UNCHANGED chain
       ELSE IF Right(t) # {}
         THEN /\ Link(t, NodeAt(Smallest(Right(t)), version[t]))
              /\ Release(t)
         ELSE Goto(t, "look") /\ UNCHANGED <<chain, latch>>
  /\ UNCHANGED <<clock, calls, target, scan, late>>

(* In the leaf. *)
Weave(t) ==
  /\ pc[t] = "weave"
  /\ IF Superseded(t).pos = 0 \/ Node(Superseded(t)).link # NoNode
       THEN Release(t) /\ UNCHANGED chain
       ELSE IF Right(t) # {}
         THEN /\ Link(t, NodeAt(Smallest(Right(t)), version[t]))
              /\ Release(t)
         ELSE Goto(t, "look") /\ UNCHANGED <<chain, latch>>
  /\ UNCHANGED <<clock, calls, target, scan, late>>

(* Writes on a leaf that have drawn a version below v and not stored it. *)
Pending(l, v) ==
  {[key |-> call[u].key, ver |-> version[u]] :
     u \in {w \in Threads : pc[w] = "push" /\ LeafOf(call[w].key) = l /\ version[w] < v}}

(* Where the search for the key after this one ends. *)
NextLeaf(t) == LeafOf(Inc(call[t].key))
Beyond(t)   == {k \in Records(NextLeaf(t)) : k > call[t].key}

(* Fault: a neighbour without such a version is linked to all the same. *)
Look_Unchecked(t) ==
  LET n == IF Beyond(t) = {} THEN NoNode
           ELSE [key |-> Smallest(Beyond(t)), pos |-> NodeAt(Smallest(Beyond(t)), version[t]).pos] IN
  /\ pc[t] = "look"
  /\ latch[NextLeaf(t)].mode # "write"
  /\ target' = [target EXCEPT ![t] = n]
  /\ IF n = NoNode
       THEN Release(t) /\ UNCHANGED late
       ELSE /\ late' = late \cup Pending(NextLeaf(t), version[t])
            /\ Goto(t, "store") /\ UNCHANGED latch
  /\ UNCHANGED <<chain, clock, calls, scan>>

(* At the end of the leaf: next_leaf_page waits for a leaf that is written,*)
(* but a pin, also one's own, does not count.                              *)
Look(t) ==
  LET n == IF Beyond(t) = {} THEN NoNode ELSE NodeAt(Smallest(Beyond(t)), version[t]) IN
  /\ pc[t] = "look"
  /\ latch[NextLeaf(t)].mode # "write"
  /\ target' = [target EXCEPT ![t] = n]
  /\ IF n = NoNode
       THEN Release(t) /\ UNCHANGED late
       ELSE /\ late' = late \cup Pending(NextLeaf(t), version[t])
            /\ Goto(t, "store") /\ UNCHANGED latch
  /\ UNCHANGED <<chain, clock, calls, scan>>

Store(t) ==
  /\ pc[t] = "store"
  /\ Link(t, target[t])
  /\ target' = [target EXCEPT ![t] = NoNode]
  /\ Release(t)
  /\ UNCHANGED <<clock, calls, scan, late>>

(* end_tx_commit. *)
End(t) ==
  /\ pc[t] = "ending"
  /\ Goto(t, "idle")
  /\ UNCHANGED <<chain, latch, clock, calls, target, scan, late>>

-------------------------------------------------------------------------
(* weaver_scan_dispatch. *)

BeginScan(t) ==
  LET c == Head(todo[t]) IN
  /\ Starts(t, {"Range"})
  /\ \E v \in Stable : version' = [version EXCEPT ![t] = v]
  /\ call' = [call EXCEPT ![t] = c]
  /\ todo' = [todo EXCEPT ![t] = Tail(@)]
  /\ low' = [low EXCEPT ![t] = c.key]
  /\ got' = [got EXCEPT ![t] = <<>>]
  /\ Goto(t, "visit")
  /\ UNCHANGED <<chain, latch, clock, target, last, late>>

InRange(t, k) == low[t] <= k /\ k <= call[t].upto

(* From key k on, unless the range has come to its end. *)
GoOn(t, k) ==
  /\ low' = [low EXCEPT ![t] = k]
  /\ Goto(t, IF k >= call[t].upto THEN "idle" ELSE "visit")

(* Fault: the last key of the leaf is looked for again. *)
Visit_Again(t) ==
  LET l  == LeafOf(low[t])
      ks == {k \in Records(l) : InRange(t, k) /\ Visible(k, version[t])} IN
  /\ pc[t] = "visit"
  /\ latch[l].by = Nobody
  /\ IF ks = {}
       THEN GoOn(t, Fences[l]) /\ UNCHANGED <<target, last>>
       ELSE /\ target' = [target EXCEPT ![t] = NodeAt(Smallest(ks), version[t])]
            /\ last' = [last EXCEPT ![t] = Smallest(ks)]
            /\ Goto(t, "walk")
            /\ UNCHANGED low
  /\ UNCHANGED <<chain, latch, clock, calls, got, late>>

(* The leaf is pinned, its records are copied, and the first that is seen  *)
(* by the snapshot is where the walk starts.                               *)
Visit(t) ==
  LET l  == LeafOf(low[t])
      ks == {k \in Records(l) : InRange(t, k) /\ Visible(k, version[t])} IN
  /\ pc[t] = "visit"
  /\ latch[l].by = Nobody
  /\ IF ks = {}
       THEN GoOn(t, Inc(Fences[l])) /\ UNCHANGED <<target, last>>
       ELSE /\ target' = [target EXCEPT ![t] = NodeAt(Smallest(ks), version[t])]
            /\ last' = [last EXCEPT ![t] = Smallest(ks)]
            /\ Goto(t, "walk")
            /\ UNCHANGED low
  /\ UNCHANGED <<chain, latch, clock, calls, got, late>>

(* Fault: the linked version is taken as it is. *)
Walk_Raw(t) ==
  LET n    == target[t] IN
  /\ pc[t] = "walk" /\ n # NoNode
  /\ Node(n).live => InRange(t, n.key)
  /\ IF Node(n).live
       THEN /\ got' = [got EXCEPT ![t] = Append(@, [key |-> n.key, ver |-> Node(n).ver])]
            /\ last' = [last EXCEPT ![t] = n.key]
       ELSE UNCHANGED <<got, last>>
  /\ target' = [target EXCEPT ![t] = Node(n).link]
  /\ UNCHANGED <<chain, latch, clock, pc, calls, low, late>>

(* A linked version is the start of a search for the snapshot's; one that  *)
(* is a tombstone is passed over.                                          *)
Walk(t) ==
  LET n    == target[t]
      take == Node(n).live /\ IsFound(n.key, n.pos, version[t]) IN
  /\ pc[t] = "walk" /\ n # NoNode
  /\ Node(n).live => InRange(t, n.key)
  /\ IF take
       THEN /\ got' = [got EXCEPT ![t] = Append(@,
                        [key |-> n.key, ver |-> chain[n.key][FindAny(n.key, n.pos, version[t])].ver])]
            /\ last' = [last EXCEPT ![t] = n.key]
       ELSE UNCHANGED <<got, last>>
  /\ target' = [target EXCEPT ![t] = Node(n).link]
  /\ UNCHANGED <<chain, latch, clock, pc, calls, low, late>>

(* The links end, or leave the range. *)
EndWalk(t) ==
  LET n == target[t] IN
  /\ pc[t] = "walk"
  /\ n # NoNode => Node(n).live /\ ~InRange(t, n.key)
  /\ GoOn(t, Inc(last[t]))
  /\ target' = [target EXCEPT ![t] = NoNode]
  /\ UNCHANGED <<chain, latch, clock, calls, last, got, late>>

-------------------------------------------------------------------------
Step(t) ==
  \/ Begin(t) \/ Push(t) \/ Weave(t) \/ Look(t) \/ Store(t) \/ End(t)
  \/ BeginScan(t) \/ Visit(t) \/ Walk(t) \/ EndWalk(t)

(* A key that is inserted again as the last of its leaf, and not at the    *)
(* end of what the leaf owns: next_leaf_page comes back to the leaf, which *)
(* the thread itself has latched for writing.                              *)
Hangs(t) == pc[t] = "look" /\ NextLeaf(t) = LeafOf(call[t].key) /\ call[t].op = "Insert"

(* All is done, or a call hangs and others may wait for its latch. *)
Over == (\A t \in Threads : pc[t] = "idle" /\ todo[t] = <<>>) \/ \E t \in Threads : Hangs(t)

Next == (\E t \in Threads : Step(t)) \/ (Over /\ UNCHANGED vars)

Fairness == \A t \in Threads : WF_vars(Step(t))

Spec == Init /\ [][Next]_vars /\ Fairness

-------------------------------------------------------------------------
(* A version's link leads to a later key and has passed over no version,   *)
(* of the keys in between or of the key it leads to, that was older than   *)
(* the successor of the version: unless that was still being written, in a *)
(* leaf that was only pinned, when the link was set.                       *)
LinksSeeAllOlder ==
  \A k \in Keys : \A i \in DOMAIN chain[k] :
    LET n == chain[k][i].link IN
    n # NoNode =>
      /\ n.key > k /\ i < Len(chain[k])
      /\ \A j \in k + 1..n.key : \A m \in DOMAIN chain[j] :
           \/ j = n.key /\ m <= n.pos
           \/ chain[j][m].ver >= chain[k][i + 1].ver
           \/ [key |-> j, ver |-> chain[j][m].ver] \in late

(* Versions and links are written once: a scan that has copied the head of *)
(* a chain meets nothing that changes but links that appear.               *)
LinksNeverChange ==
  [][\A k \in Keys : \A i \in DOMAIN chain[k] :
       /\ i \in DOMAIN chain'[k]
       /\ chain[k][i].link # NoNode => chain'[k][i] = chain[k][i]]_vars

(* Keys that a snapshot sees and a scan may pass over: those with a later  *)
(* tombstone, and the last of the range.                                   *)
Excused(t, k) ==
  \/ k = call[t].upto
  \/ \E i \in DOMAIN chain[k] : ~chain[k][i].live /\ chain[k][i].ver > version[t]

(* A link that was set past a version in progress of an earlier key of the *)
(* range.  The walk then stands on a version whose own link is older than  *)
(* the snapshot, and everything behind is in doubt, up to the next search. *)
Clouded(t, k) ==
  \E w \in late : call[t].key <= w.key /\ w.key <= k /\ w.ver <= version[t]

(* What a scan gives is what its snapshot sees, in order, each key once,   *)
(* and nothing else of the range is missing: in spite of writers that set  *)
(* links under its feet, and of links that lead into other leaves.         *)
ScansSeeTheirSnapshot ==
  \A t \in Threads : pc[t] = "idle" /\ call[t].op = "Range" =>
    /\ \A i, j \in DOMAIN got[t] : i < j => got[t][i].key < got[t][j].key
    /\ \A i \in DOMAIN got[t] :
         LET g == got[t][i] IN
         \/ Visible(g.key, version[t]) /\ g.ver = Node(NodeAt(g.key, version[t])).ver
         \/ Clouded(t, g.key)
    /\ \A k \in call[t].key..call[t].upto :
         version[t] > 0 /\ Visible(k, version[t]) =>
           \/ \E i \in DOMAIN got[t] : got[t][i].key = k
           \/ Excused(t, k)
           \/ Clouded(t, k)

(* Every write and every scan comes to its end, unless a write waits for   *)
(* its own latch.                                                          *)
CallsEnd == <>Over
=========================================================================
