------------------------- MODULE VWeaverProofs -------------------------
(***************************************************************************)
(* Proofs about VWeaver, for any threads, leaves, loaded keys and calls.   *)
(* No version is lost and no link leads past one that is older than what   *)
(* it stands for: links that are still to be set are accounted for by what *)
(* is being written, and walks by what lies between the last key that was  *)
(* given and the node that the walk stands on.                             *)
(***************************************************************************)
EXTENDS VWeaver, FiniteSetTheorems, WellFoundedInduction, TLAPS

-------------------------------------------------------------------------
(* The inductive invariant. *)

Links    == [key : Nat, pos : Nat]
Versions == [ver : Nat, live : BOOLEAN, link : Links]
IsNode(n) == n = NoNode \/ (n.key \in Keys /\ n.pos \in DOMAIN chain[n.key])

(* Threads that hold the latch of the leaf of their key. *)
Inside(t) == pc[t] \in {"push", "weave", "look", "store"}

Shape ==
  /\ chain \in [Keys -> Seq(Versions)]
  /\ latch \in [Leaves -> [by : Threads \cup {Nobody}, mode : {"free", "pin", "write"}]]
  /\ clock \in Nat
  /\ pc \in [Threads -> {"idle", "push", "weave", "look", "store", "ending", "visit", "walk"}]
  /\ call \in [Threads -> Calls] /\ todo \in [Threads -> Seq(Calls)]
  /\ version \in [Threads -> Nat]
  /\ target \in [Threads -> Links]
  /\ low \in [Threads -> Keys] /\ last \in [Threads -> Keys]
  /\ got \in [Threads -> Seq([key : Keys, ver : Nat])]
  /\ late \subseteq [key : Keys, ver : Nat]

LinksLead ==
  /\ \A k \in Keys : \A i \in DOMAIN chain[k] : IsNode(chain[k][i].link)
  /\ \A t \in Threads : IsNode(target[t])

(* No version is ahead of the clock that it was drawn from. *)
WithinClock ==
  /\ \A k \in Keys : \A i \in DOMAIN chain[k] : chain[k][i].ver \in 1..clock
  /\ \A t \in Threads : version[t] \in 0..clock
  /\ \A t \in Threads : \A i \in DOMAIN got[t] : got[t][i].ver \in 1..clock
  /\ \A w \in late : w.ver \in 1..clock

Ascending == \A k \in Keys : \A i, j \in DOMAIN chain[k] : i < j => chain[k][i].ver < chain[k][j].ver

RolesFit ==
  \A t \in Threads :
    /\ Inside(t) \/ pc[t] = "ending" => call[t].op \in Ops
    /\ pc[t] \in {"visit", "walk"} => call[t].op = "Range"

LatchHeld == \A t \in Threads : Inside(t) => latch[LeafOf(call[t].key)].by = t

(* The version that is being written is drawn under the latch, and so it   *)
(* is newer than all of its chain; the one it supersedes has no link yet.  *)
WriterIsAhead ==
  \A t \in Threads :
    /\ Inside(t) => version[t] > 0
    /\ pc[t] = "push" =>
         \A i \in DOMAIN chain[call[t].key] : chain[call[t].key][i].ver < version[t]
    /\ pc[t] \in {"weave", "look", "store"} =>
         /\ chain[call[t].key] # <<>>
         /\ \A i \in DOMAIN chain[call[t].key] : chain[call[t].key][i].ver <= version[t]
    /\ pc[t] \in {"look", "store"} =>
         /\ Len(chain[call[t].key]) > 1
         /\ chain[call[t].key][Len(chain[call[t].key]) - 1].link = NoNode

(* From key k to node n no version older than v has been passed over, nor  *)
(* will be one that is still being written, but those in excepted.         *)
Passes(k, n, v, excepted) ==
  /\ n.key > k
  /\ \A j \in k + 1..n.key :
       /\ \A m \in DOMAIN chain[j] :
            \/ j = n.key /\ m <= n.pos
            \/ chain[j][m].ver >= v
            \/ [key |-> j, ver |-> chain[j][m].ver] \in excepted
       /\ \A u \in Threads : pc[u] = "push" /\ call[u].key = j =>
            \/ version[u] >= v
            \/ [key |-> j, ver |-> version[u]] \in excepted

LinksPass ==
  /\ \A k \in Keys : \A i \in DOMAIN chain[k] :
       chain[k][i].link # NoNode =>
         i < Len(chain[k]) /\ Passes(k, chain[k][i].link, chain[k][i + 1].ver, late)
  /\ \A t \in Threads : pc[t] = "store" =>
       target[t] # NoNode /\ Passes(call[t].key, target[t], version[t], late)

(* Nobody writes behind a snapshot. *)
SnapshotsAreStable ==
  \A t, u \in Threads : call[t].op = "Range" /\ Writing(u) => version[t] < version[u]

(* The i-th version of key k is what snapshot v includes. *)
Shows(k, v, i) ==
  /\ i \in DOMAIN chain[k] /\ chain[k][i].ver <= v
  /\ \A j \in DOMAIN chain[k] : i < j => chain[k][j].ver > v

Sees(k, v) == \E i \in DOMAIN chain[k] : Shows(k, v, i) /\ chain[k][i].live

Given(t, g) ==
  \/ \E i \in DOMAIN chain[g.key] :
       Shows(g.key, version[t], i) /\ chain[g.key][i].live /\ g.ver = chain[g.key][i].ver
  \/ Clouded(t, g.key)

Covered(t, k) ==
  version[t] > 0 /\ Sees(k, version[t]) =>
    \/ \E i \in DOMAIN got[t] : got[t][i].key = k
    \/ Excused(t, k)
    \/ Clouded(t, k)

CoveredTo(t, b) == \A k \in call[t].key..call[t].upto : k < b => Covered(t, k)
GotBelow(t, b)  == \A i \in DOMAIN got[t] : got[t][i].key < b

Gathered(t) ==
  /\ \A i, j \in DOMAIN got[t] : i < j => got[t][i].key < got[t][j].key
  /\ \A i \in DOMAIN got[t] : Given(t, got[t][i])

(* Behind the position of a walk is nothing that it should have found. *)
Faithful(t) ==
  \/ \A m \in DOMAIN chain[target[t].key] :
       target[t].pos < m => chain[target[t].key][m].ver > version[t]
  \/ Clouded(t, target[t].key)

AtStart(t) ==
  /\ target[t].key = last[t] /\ InRange(t, last[t])
  /\ Shows(last[t], version[t], target[t].pos) /\ Node(target[t]).live

Visiting(t) == call[t].key <= low[t] /\ CoveredTo(t, low[t]) /\ GotBelow(t, low[t])

Walking(t) ==
  /\ call[t].key <= last[t] /\ GotBelow(t, last[t] + 1)
  /\ target[t] = NoNode => CoveredTo(t, last[t] + 1)
  /\ target[t] # NoNode =>
       /\ CoveredTo(t, target[t].key) /\ GotBelow(t, target[t].key) /\ Faithful(t)
       /\ AtStart(t) \/ last[t] < target[t].key

ScansAreTrue ==
  \A t \in Threads : call[t].op = "Range" =>
    /\ Gathered(t)
    /\ pc[t] = "idle"  => CoveredTo(t, LastKey + 1)
    /\ pc[t] = "visit" => Visiting(t)
    /\ pc[t] = "walk"  => Walking(t)

WeaverInv ==
  /\ Shape /\ LinksLead /\ WithinClock /\ Ascending
  /\ RolesFit /\ LatchHeld /\ WriterIsAhead
  /\ LinksPass /\ SnapshotsAreStable /\ ScansAreTrue

-------------------------------------------------------------------------
(* The operators that the model is built from. *)

(* Smallest finds the least element of a set of numbers. *)
LEMMA Least ==
  ASSUME NEW S, S \subseteq Nat, S # {}
  PROVE  Smallest(S) \in S /\ \A j \in S : Smallest(S) <= j
<1> DEFINE Less == {p \in Nat \X Nat : p[1] < p[2]}
<1>1. IsWellFoundedOn(Less, Nat)
  BY NatLessThanWellFounded, Zenon DEF OpToRel
<1>2. PICK x \in S : \A y \in S : ~ (<<y, x>> \in Less)
  <2> HIDE DEF Less
  <2> QED
    BY <1>1, WFMin, Zenon
<1>3. \A y \in S : x <= y
  <2> SUFFICES ASSUME NEW y \in S, ~ (x <= y)  PROVE FALSE
    OBVIOUS
  <2>1. y < x /\ <<y, x>> \in Nat \X Nat
    OBVIOUS
  <2>2. <<y, x>>[1] < <<y, x>>[2]
    BY <2>1
  <2> QED
    BY <2>1, <2>2, <1>2
<1> QED
  BY <1>3 DEF Smallest

(* In an ascending chain, the number of versions up to v among the first   *)
(* n is the position of the newest of them.                                *)
LEMMA Counting ==
  ASSUME NEW c \in Seq(Versions), NEW n \in 0..Len(c), NEW v \in Nat,
         \A i, j \in DOMAIN c : i < j => c[i].ver < c[j].ver,
         NEW m, m = Cardinality({i \in 1..n : c[i].ver <= v})
  PROVE  m \in 0..n /\ \A i \in 1..n : c[i].ver <= v <=> i <= m
<1> DEFINE Bounds == {x \in Nat : \A i \in 1..n : c[i].ver <= v => i <= x}
           b == Smallest(Bounds)
<1>1. n \in Bounds
  OBVIOUS
<1> HIDE DEF Bounds
<1>2. b \in Bounds /\ \A j \in Bounds : b <= j
  BY <1>1, Least DEF Bounds
<1> HIDE DEF b
<1>3. b \in 0..n
  <2>1. b <= n
    BY <1>1, <1>2
  <2>2. b \in Nat /\ n \in Nat
    BY <1>1, <1>2 DEF Bounds
  <2> QED
    BY <2>1, <2>2
<1>4. b > 0 => c[b].ver <= v
  <2>1. b > 0 => b - 1 \notin Bounds
    BY <1>2, <1>3
  <2> QED
    BY <2>1, <1>2, <1>3 DEF Bounds
<1>5. \A i \in 1..n : c[i].ver <= v <=> i <= b
  <2> SUFFICES ASSUME NEW i \in 1..n, i <= b  PROVE c[i].ver <= v
    BY <1>2 DEF Bounds
  <2>1. b \in DOMAIN c /\ i \in DOMAIN c /\ c[b].ver <= v
    BY <1>3, <1>4
  <2>2. c[i] \in Versions /\ c[b] \in Versions
    BY <2>1
  <2>3. c[i].ver \in Nat /\ c[b].ver \in Nat
    BY <2>2 DEF Versions
  <2> QED
    BY <2>1, <2>3
<1>6. {i \in 1..n : c[i].ver <= v} = 1..b
  BY <1>3, <1>5
<1>7. Cardinality(1..b) = b
  BY <1>3, FS_Interval
<1> QED
  BY <1>3, <1>5, <1>6, <1>7

(* The leaves own the keys, each a part of them, in order. *)
LEMMA Borders ==
  /\ LastKey \in Nat \ {0}
  /\ Keys \subseteq Nat
  /\ Leaves \subseteq Nat
  /\ \A l \in Leaves : Fences[l] \in Keys
  /\ \A k \in Keys : Inc(k) \in Keys /\ k <= Inc(k) /\ (k < LastKey => Inc(k) = k + 1)
<1>1. Len(Fences) \in Leaves /\ Leaves = 1..Len(Fences)
  BY FencesAssumption DEF Leaves
<1>2. \A l \in Leaves : Fences[l] \in Nat \ {0} /\ Fences[l] <= LastKey
  BY <1>1, FencesAssumption DEF LastKey
<1> QED
  BY <1>1, <1>2 DEF LastKey, Keys, Inc

(* The leaf of a key is the first whose last key is not before it. *)
LEMMA LeafOwns ==
  ASSUME NEW k \in Keys
  PROVE  /\ LeafOf(k) \in Leaves /\ k <= Fences[LeafOf(k)]
         /\ \A l \in Leaves : k <= Fences[l] => LeafOf(k) <= l
<1> DEFINE Ls == {l \in Leaves : k <= Fences[l]}
<1>1. Len(Fences) \in Ls
  BY FencesAssumption DEF Leaves, LastKey, Keys
<1>2. Smallest(Ls) \in Ls /\ \A j \in Ls : Smallest(Ls) <= j
  BY <1>1, Borders, Least
<1> QED
  BY <1>2 DEF LeafOf

(* A later key is not on an earlier leaf. *)
LEMMA LeavesAscend ==
  ASSUME NEW j \in Keys, NEW k \in Keys, j <= k
  PROVE  LeafOf(j) <= LeafOf(k)
<1>1. LeafOf(k) \in Leaves /\ k <= Fences[LeafOf(k)] /\ Fences[LeafOf(k)] \in Nat
  BY LeafOwns, Borders
<1>2. j <= Fences[LeafOf(k)]
  BY <1>1, Borders
<1> QED
  BY <1>1, <1>2, LeafOwns

(* The fields of a version in a chain. *)
LEMMA ChainShape ==
  ASSUME Shape, NEW k \in Keys
  PROVE  /\ chain[k] \in Seq(Versions) /\ Len(chain[k]) \in Nat
         /\ DOMAIN chain[k] = 1..Len(chain[k])
         /\ \A i \in DOMAIN chain[k] :
              /\ chain[k][i] \in Versions /\ chain[k][i].ver \in Nat
              /\ chain[k][i].live \in BOOLEAN /\ chain[k][i].link \in Links
<1>1. chain[k] \in Seq(Versions)
  BY DEF Shape
<1>2. \A i \in DOMAIN chain[k] : chain[k][i] \in Versions
  BY <1>1
<1> QED
  BY <1>1, <1>2 DEF Versions

(* find_any, and what follows from it. *)
LEMMA FindAnyIs ==
  ASSUME Shape, Ascending, NEW k \in Keys, NEW n \in 0..Len(chain[k]), NEW v \in Nat
  PROVE  /\ FindAny(k, n, v) \in 0..n
         /\ \A i \in 1..n : chain[k][i].ver <= v <=> i <= FindAny(k, n, v)
<1>1. chain[k] \in Seq(Versions)
  BY DEF Shape
<1>2. \A i, j \in DOMAIN chain[k] : i < j => chain[k][i].ver < chain[k][j].ver
  BY DEF Ascending
<1>3. FindAny(k, n, v) = Cardinality({i \in 1..n : chain[k][i].ver <= v})
  BY DEF FindAny
<1> QED
  BY <1>1, <1>2, <1>3, Counting

(* NodeAt is the node that the snapshot includes, if there is one. *)
LEMMA NodeAtIs ==
  ASSUME Shape, Ascending, NEW k \in Keys, NEW v \in Nat, NEW n, n = NodeAt(k, v)
  PROVE  /\ n \in Links
         /\ n # NoNode => n.key = k /\ Shows(k, v, n.pos)
         /\ n = NoNode => \A i \in DOMAIN chain[k] : chain[k][i].ver > v
<1> DEFINE m == FindAny(k, Len(chain[k]), v)
<1>1. Len(chain[k]) \in Nat /\ DOMAIN chain[k] = 1..Len(chain[k])
  BY ChainShape
<1>2. m \in 0..Len(chain[k]) /\ \A i \in 1..Len(chain[k]) : chain[k][i].ver <= v <=> i <= m
  <2>1. Len(chain[k]) \in 0..Len(chain[k])
    BY <1>1
  <2> QED
    BY <2>1, FindAnyIs
<1>3. \A i \in DOMAIN chain[k] : chain[k][i].ver \in Nat
  BY ChainShape
<1>4. n = IF m = 0 THEN NoNode ELSE [key |-> k, pos |-> m]
  BY DEF NodeAt
<1> HIDE DEF m
<1>5. CASE m = 0
  BY <1>1, <1>2, <1>3, <1>4, <1>5 DEF NoNode, Links
<1>6. CASE m # 0
  <2>1. n = [key |-> k, pos |-> m] /\ k # 0 /\ k \in Nat /\ m \in Nat
    BY <1>1, <1>2, <1>4, <1>6, Borders DEF Keys
  <2>2. n # NoNode /\ n.key = k /\ n.pos = m /\ n \in Links
    BY <2>1 DEF NoNode, Links
  <2>3. Shows(k, v, m)
    BY <1>1, <1>2, <1>3, <1>6 DEF Shows
  <2> QED
    BY <2>2, <2>3
<1> QED
  BY <1>5, <1>6

(* find finds what the snapshot sees. *)
LEMMA VisibleIs ==
  ASSUME Shape, Ascending, NEW k \in Keys, NEW v \in Nat
  PROVE  /\ Visible(k, v) <=> Sees(k, v)
         /\ Visible(k, v) => NodeAt(k, v) # NoNode /\ Node(NodeAt(k, v)).live
<1> DEFINE m == FindAny(k, Len(chain[k]), v)
<1>1. Len(chain[k]) \in Nat /\ DOMAIN chain[k] = 1..Len(chain[k])
  BY ChainShape
<1>2. m \in 0..Len(chain[k]) /\ \A i \in 1..Len(chain[k]) : chain[k][i].ver <= v <=> i <= m
  <2>1. Len(chain[k]) \in 0..Len(chain[k])
    BY <1>1
  <2> QED
    BY <2>1, FindAnyIs
<1>3. \A i \in DOMAIN chain[k] : chain[k][i].ver \in Nat
  BY ChainShape
<1>4. Visible(k, v) <=> m > 0 /\ chain[k][m].live
  BY DEF Visible, IsFound
<1>5. NodeAt(k, v) = IF m = 0 THEN NoNode ELSE [key |-> k, pos |-> m]
  BY DEF NodeAt
<1> HIDE DEF m
<1>6. \A i : Shows(k, v, i) <=> m > 0 /\ i = m
  BY <1>1, <1>2, <1>3 DEF Shows
<1>7. Sees(k, v) <=> m > 0 /\ chain[k][m].live
  BY <1>1, <1>2, <1>6 DEF Sees
<1>8. m > 0 => NodeAt(k, v) # NoNode /\ Node(NodeAt(k, v)) = chain[k][m]
  <2> SUFFICES ASSUME m > 0  PROVE NodeAt(k, v) # NoNode /\ Node(NodeAt(k, v)) = chain[k][m]
    OBVIOUS
  <2>1. NodeAt(k, v) = [key |-> k, pos |-> m] /\ k # 0
    BY <1>2, <1>5, Borders DEF Keys
  <2> QED
    BY <2>1 DEF NoNode, Node
<1> QED
  BY <1>4, <1>7, <1>8

(* At most one version of a key is what a snapshot includes. *)
LEMMA ShowsOne ==
  ASSUME Shape, NEW k \in Keys, NEW v \in Nat, NEW i, NEW j, Shows(k, v, i), Shows(k, v, j)
  PROVE  i = j
<1>1. i \in DOMAIN chain[k] /\ j \in DOMAIN chain[k] /\ DOMAIN chain[k] \subseteq Nat
  BY ChainShape DEF Shows
<1>2. chain[k][i].ver \in Nat /\ chain[k][j].ver \in Nat
  BY <1>1, ChainShape
<1> QED
  BY <1>1, <1>2 DEF Shows

(* What a writer supersedes is the last version but one. *)
LEMMA SupersededIs ==
  ASSUME WeaverInv, NEW t \in Threads, pc[t] \in {"weave", "look", "store"}
  PROVE  /\ call[t].key \in Keys /\ Len(chain[call[t].key]) \in Nat \ {0}
         /\ Superseded(t) = [key |-> call[t].key, pos |-> Len(chain[call[t].key]) - 1]
<1> DEFINE k == call[t].key
           n == NodeAt(k, version[t])
<1>1. k \in Keys /\ version[t] \in Nat /\ chain[k] \in Seq(Versions)
  BY DEF WeaverInv, Shape, Calls
<1>2. chain[k] # <<>> /\ \A i \in DOMAIN chain[k] : chain[k][i].ver <= version[t]
  BY DEF WeaverInv, WriterIsAhead
<1>3. Len(chain[k]) \in Nat \ {0} /\ DOMAIN chain[k] = 1..Len(chain[k])
  BY <1>1, <1>2
<1>4. \A i \in DOMAIN chain[k] : chain[k][i].ver \in Nat
  BY <1>1, ChainShape DEF WeaverInv
<1>5. n # NoNode /\ n.pos \in DOMAIN chain[k] /\ \A j \in DOMAIN chain[k] : ~ (n.pos < j)
  <2>1. /\ n # NoNode => n.key = k /\ Shows(k, version[t], n.pos)
        /\ n = NoNode => \A i \in DOMAIN chain[k] : chain[k][i].ver > version[t]
    BY <1>1, NodeAtIs DEF WeaverInv
  <2> HIDE DEF n, k
  <2> QED
    BY <2>1, <1>1, <1>2, <1>3, <1>4 DEF Shows
<1>6. n.pos = Len(chain[k])
  <2> HIDE DEF n, k
  <2>1. n.pos \in Nat /\ n.pos <= Len(chain[k]) /\ ~ (n.pos < Len(chain[k]))
    BY <1>3, <1>5
  <2> QED
    BY <2>1, <1>3
<1> QED
  BY <1>1, <1>3, <1>6 DEF Superseded

-------------------------------------------------------------------------
(* What a step may do to the chains. *)

Appends(t) ==
  /\ pc[t] = "push"
  /\ \E new \in Versions :
       /\ new.ver = version[t] /\ new.link = NoNode
       /\ chain' = [chain EXCEPT ![call[t].key] = Append(@, new)]

SetsLink(t) ==
  /\ pc[t] \in {"weave", "store"}
  /\ Len(chain[call[t].key]) > 1
  /\ chain[call[t].key][Len(chain[call[t].key]) - 1].link = NoNode
  /\ \E n \in Links :
       /\ IsNode(n)
       /\ n # NoNode => Passes(call[t].key, n, version[t], late)
       /\ chain' = [chain EXCEPT ![call[t].key][Len(chain[call[t].key]) - 1].link = n]

(* The first record of leaf l behind a writer's own key is what the link   *)
(* is set to: nothing older lies between, and nothing older can still be   *)
(* written there but what is excepted.                                     *)
LEMMA Neighbour ==
  ASSUME WeaverInv, NEW t \in Threads, Inside(t), NEW l \in Leaves,
         NEW S, S = {j \in Records(l) : j > call[t].key}, S # {},
         \A j \in Keys : call[t].key < j /\ j <= Smallest(S) => LeafOf(j) = l,
         NEW n, n = NodeAt(Smallest(S), version[t]), n # NoNode,
         NEW L,
         \A u \in Threads : pc[u] = "push" /\ LeafOf(call[u].key) = l =>
            \/ call[u].key = call[t].key
            \/ version[u] >= version[t]
            \/ [key |-> call[u].key, ver |-> version[u]] \in L
  PROVE  IsNode(n) /\ n \in Links /\ Passes(call[t].key, n, version[t], L)
<1> DEFINE k == call[t].key
           b == Smallest(S)
           v == version[t]
<1>1. k \in Keys /\ v \in Nat /\ Keys \subseteq Nat /\ \A u \in Threads : version[u] \in Nat
  BY Borders DEF WeaverInv, Shape, Calls
<1>2. S \subseteq Keys /\ b \in S /\ \A j \in S : b <= j
  <2>1. S \subseteq Keys
    BY DEF Records
  <2>2. S \subseteq Nat /\ S # {}
    BY <2>1, Borders
  <2> QED
    BY <2>1, <2>2, Least
<1>3. b \in Keys /\ b > k /\ b \in Nat /\ k \in Nat
  BY <1>1, <1>2
<1>a. \A j \in Keys : k < j /\ j <= b => LeafOf(j) = l
  OBVIOUS
<1> HIDE DEF b, k, v
<1>4. n \in Links /\ n.key = b /\ Shows(b, v, n.pos)
  BY <1>1, <1>3, NodeAtIs DEF WeaverInv, b, v
<1>5. IsNode(n)
  BY <1>3, <1>4 DEF IsNode, Shows
<1>6. ASSUME NEW j \in k + 1..b
      PROVE  j \in Keys /\ LeafOf(j) = l /\ (j < b => chain[j] = <<>>)
  <2>1. j \in Nat /\ k < j /\ j <= b
    BY <1>1, <1>3
  <2>2. j \in Keys
    BY <2>1, <1>1, <1>3, Borders DEF Keys
  <2>3. LeafOf(j) = l
    BY <2>1, <2>2, <1>a
  <2>4. j < b => j \notin S
    BY <2>1, <1>1, <1>2, <1>3
  <2> QED
    BY <2>1, <2>2, <2>3, <2>4 DEF Records, k
<1>7. ASSUME NEW j \in k + 1..b, NEW m \in DOMAIN chain[j]
      PROVE  (j = b /\ m <= n.pos) \/ chain[j][m].ver >= v
  <2>1. j = b
    <3>1. chain[j] # <<>>
      BY <1>7, <1>6, ChainShape DEF WeaverInv
    <3> QED
      BY <3>1, <1>6, <1>3
  <2>2. chain[b][m].ver \in Nat /\ m \in Nat /\ n.pos \in Nat
    BY <2>1, <1>3, <1>4, ChainShape DEF WeaverInv, Links
  <2> QED
    BY <2>1, <2>2, <1>1, <1>4 DEF Shows
<1>8. ASSUME NEW j \in k + 1..b, NEW u \in Threads, pc[u] = "push", call[u].key = j
      PROVE  version[u] >= v \/ [key |-> j, ver |-> version[u]] \in L
  <2>1. j \in Nat /\ k < j
    BY <1>3
  <2> QED
    BY <1>6, <1>8, <2>1 DEF k, v
<1> QED
  BY <1>3, <1>4, <1>5, <1>7, <1>8 DEF Passes, k, v

(* The key of a writer is found on the leaf that it has latched. *)
LEMMA WeavesInLeaf ==
  ASSUME WeaverInv, NEW t \in Threads, pc[t] = "weave", Right(t) # {},
         NEW n, n = NodeAt(Smallest(Right(t)), version[t]), n # NoNode
  PROVE  IsNode(n) /\ n \in Links /\ Passes(call[t].key, n, version[t], late)
<1> DEFINE k == call[t].key
           l == LeafOf(k)
<1>1. k \in Keys /\ l \in Leaves /\ Inside(t) /\ Keys \subseteq Nat
  BY LeafOwns, Borders DEF WeaverInv, Shape, Calls, Inside
<1>2. Right(t) = {j \in Records(l) : j > k}
  BY DEF Right
<1>3. \A j \in Keys : k < j /\ j <= Smallest(Right(t)) => LeafOf(j) = l
  <2>1. Right(t) \subseteq Keys /\ Right(t) \subseteq Nat
    BY <1>2, Borders DEF Records
  <2>2. Smallest(Right(t)) \in Right(t)
    BY <2>1, Least
  <2>3. LeafOf(Smallest(Right(t))) = l
    BY <2>2, <1>2 DEF Records
  <2> SUFFICES ASSUME NEW j \in Keys, k < j, j <= Smallest(Right(t))
               PROVE  LeafOf(j) = l
    OBVIOUS
  <2>4. k <= j /\ Smallest(Right(t)) \in Keys
    <3>1. Smallest(Right(t)) \in Keys
      BY <2>1, <2>2
    <3>2. k \in Nat /\ j \in Nat
      BY <1>1
    <3>3. \A x, y \in Nat : x < y => x <= y
      OBVIOUS
    <3> QED
      BY <3>1, <3>2, <3>3
  <2>5. l <= LeafOf(j) /\ LeafOf(j) <= l
    BY <2>3, <2>4, <1>1, LeavesAscend
  <2>6. l \in Nat /\ LeafOf(j) \in Nat
    BY <1>1, LeafOwns, Borders
  <2> QED
    BY <2>5, <2>6
<1>4. ASSUME NEW u \in Threads, pc[u] = "push", LeafOf(call[u].key) = l
      PROVE  FALSE
  <2>1. latch[l].by = u /\ latch[l].by = t
    BY <1>1, <1>4 DEF WeaverInv, LatchHeld, Inside
  <2> QED
    BY <2>1, <1>4
<1> HIDE DEF l, k
<1>5. /\ \A j \in Keys : call[t].key < j /\ j <= Smallest(Right(t)) => LeafOf(j) = l
      /\ Right(t) = {j \in Records(l) : j > call[t].key}
  BY <1>2, <1>3 DEF k
<1> QED
  BY <1>1, <1>4, <1>5, Neighbour

(* The same for the neighbour in a later leaf: what is drawn there and not *)
(* stored yet is excepted.                                                 *)
LEMMA LooksAhead ==
  ASSUME WeaverInv, NEW t \in Threads, pc[t] = "look", Beyond(t) # {},
         NEW n, n = NodeAt(Smallest(Beyond(t)), version[t]), n # NoNode,
         NEW L, Pending(NextLeaf(t), version[t]) \subseteq L
  PROVE  IsNode(n) /\ n \in Links /\ Passes(call[t].key, n, version[t], L)
<1> DEFINE k == call[t].key
           l == NextLeaf(t)
<1>1. k \in Keys /\ l \in Leaves /\ Inside(t) /\ Keys \subseteq Nat
  BY LeafOwns, Borders DEF WeaverInv, Shape, Calls, Inside, NextLeaf
<1>2. Beyond(t) = {j \in Records(l) : j > k}
  BY DEF Beyond
<1>3. \A j \in Keys : k < j /\ j <= Smallest(Beyond(t)) => LeafOf(j) = l
  <2>1. Beyond(t) \subseteq Keys /\ Beyond(t) \subseteq Nat
    BY <1>2, Borders DEF Records
  <2>2. Smallest(Beyond(t)) \in Beyond(t)
    BY <2>1, Least
  <2>3. LeafOf(Smallest(Beyond(t))) = l
    BY <2>2, <1>2 DEF Records
  <2> SUFFICES ASSUME NEW j \in Keys, k < j, j <= Smallest(Beyond(t))
               PROVE  LeafOf(j) = l
    OBVIOUS
  <2>4. Inc(k) \in Keys /\ Inc(k) <= j
    BY <1>1, Borders DEF Keys
  <2>5. LeafOf(Inc(k)) <= LeafOf(j) /\ LeafOf(j) <= l
    BY <2>1, <2>2, <2>3, <2>4, LeavesAscend
  <2>6. l \in Nat /\ LeafOf(j) \in Nat /\ l = LeafOf(Inc(k))
    BY <1>1, LeafOwns, Borders DEF NextLeaf
  <2> QED
    BY <2>5, <2>6
<1>4. ASSUME NEW u \in Threads, pc[u] = "push", LeafOf(call[u].key) = l,
             ~ (version[u] >= version[t])
      PROVE  [key |-> call[u].key, ver |-> version[u]] \in L
  <2>1. version[u] < version[t]
    BY <1>4 DEF WeaverInv, Shape
  <2> QED
    BY <2>1, <1>4 DEF Pending
<1> HIDE DEF l, k
<1>5. /\ \A j \in Keys : call[t].key < j /\ j <= Smallest(Beyond(t)) => LeafOf(j) = l
      /\ Beyond(t) = {j \in Records(l) : j > call[t].key}
  BY <1>2, <1>3 DEF k
<1> QED
  BY <1>1, <1>4, <1>5, Neighbour

(* A step leaves the chains as they are, appends what a writer has drawn,  *)
(* or sets one link that was not set.                                      *)
LEMMA StepOnChains ==
  ASSUME WeaverInv, NEW t \in Threads, Step(t)
  PROVE  chain' = chain \/ Appends(t) \/ SetsLink(t)
<1> DEFINE k == call[t].key
<1>1. CASE Push(t)
  <2> DEFINE new == [ver |-> version[t], live |-> call[t].op # "Delete", link |-> NoNode]
  <2>1. new \in Versions /\ new.ver = version[t] /\ new.link = NoNode
    BY DEF WeaverInv, Shape, Versions, Links, NoNode
  <2>2. chain' = chain \/ chain' = [chain EXCEPT ![k] = Append(@, new)]
    BY <1>1 DEF Push
  <2> HIDE DEF new
  <2> QED
    BY <2>1, <2>2, <1>1 DEF Push, Appends
<1>2. CASE Weave(t)
  <2> DEFINE n == NodeAt(Smallest(Right(t)), version[t])
  <2>1. SUFFICES ASSUME chain' # chain  PROVE SetsLink(t)
    OBVIOUS
  <2>2. /\ pc[t] = "weave" /\ Right(t) # {} /\ Link(t, n)
        /\ Superseded(t).pos # 0 /\ Node(Superseded(t)).link = NoNode
    BY <1>2, <2>1 DEF Weave
  <2>3. /\ Superseded(t).key = k /\ Superseded(t).pos = Len(chain[k]) - 1
        /\ Len(chain[k]) \in Nat \ {0}
    BY <2>2, SupersededIs
  <2>4. n \in Links /\ IsNode(n) /\ (n # NoNode => Passes(k, n, version[t], late))
    <3>1. CASE n # NoNode
      BY <3>1, <2>2, WeavesInLeaf
    <3>2. CASE n = NoNode
      BY <3>2 DEF NoNode, Links, IsNode
    <3> QED
      BY <3>1, <3>2
  <2> HIDE DEF n
  <2>5. chain[k][Len(chain[k]) - 1].link = NoNode
    BY <2>2, <2>3 DEF Node
  <2>6. chain' = [chain EXCEPT ![k][Len(chain[k]) - 1].link = n]
    BY <2>2, <2>3 DEF Link
  <2>7. Len(chain[k]) > 1
    <3>1. Len(chain[k]) - 1 # 0 /\ Len(chain[k]) \in Nat \ {0}
      BY <2>2, <2>3, Zenon
    <3>2. \A x \in Nat \ {0} : x - 1 # 0 => x > 1
      OBVIOUS
    <3> QED
      BY <3>1, <3>2, Zenon
  <2> QED
    BY <2>2, <2>4, <2>5, <2>6, <2>7 DEF SetsLink
<1>3. CASE Store(t)
  <2>1. pc[t] = "store" /\ Link(t, target[t])
    BY <1>3 DEF Store
  <2>2. Superseded(t).key = k /\ Superseded(t).pos = Len(chain[k]) - 1
    BY <2>1, SupersededIs
  <2>3. Len(chain[k]) > 1 /\ chain[k][Len(chain[k]) - 1].link = NoNode
    BY <2>1 DEF WeaverInv, WriterIsAhead
  <2>4. target[t] \in Links /\ IsNode(target[t]) /\ Passes(k, target[t], version[t], late)
    BY <2>1 DEF WeaverInv, Shape, LinksLead, LinksPass
  <2>5. chain' = [chain EXCEPT ![k][Len(chain[k]) - 1].link = target[t]]
    BY <2>1, <2>2 DEF Link
  <2> QED
    BY <2>1, <2>3, <2>4, <2>5 DEF SetsLink
<1>4. CASE Begin(t) \/ Look(t) \/ End(t) \/ BeginScan(t) \/ Visit(t) \/ Walk(t) \/ EndWalk(t)
  BY <1>4 DEF Begin, Look, End, BeginScan, Visit, Walk, EndWalk
<1> QED
  BY <1>1, <1>2, <1>3, <1>4 DEF Step

(* What holds of the chains before and after any step. *)
Grows ==
  /\ chain' \in [Keys -> Seq(Versions)]
  /\ \A k \in Keys :
       /\ Len(chain[k]) \in Nat /\ Len(chain'[k]) \in Nat
       /\ DOMAIN chain[k] = 1..Len(chain[k]) /\ DOMAIN chain'[k] = 1..Len(chain'[k])
       /\ Len(chain'[k]) \in {Len(chain[k]), Len(chain[k]) + 1}
  /\ \A k \in Keys : \A i \in DOMAIN chain[k] :
       /\ chain'[k][i].ver = chain[k][i].ver /\ chain'[k][i].live = chain[k][i].live
       /\ chain[k][i].link # NoNode => chain'[k][i] = chain[k][i]

(* The last version of a chain that t has made grow. *)
Newest(t) ==
  \A k \in Keys : Len(chain'[k]) = Len(chain[k]) + 1 =>
    /\ pc[t] = "push" /\ call[t].key = k
    /\ chain'[k][Len(chain'[k])].ver = version[t]
    /\ chain'[k][Len(chain'[k])].link = NoNode

(* A link that t has set. *)
NewLinks(t) ==
  \A k \in Keys : \A i \in DOMAIN chain[k] :
    chain'[k][i].link # chain[k][i].link =>
      /\ pc[t] \in {"weave", "store"} /\ call[t].key = k
      /\ i < Len(chain[k]) /\ IsNode(chain'[k][i].link)
      /\ Passes(k, chain'[k][i].link, chain[k][i + 1].ver, late)

(* What passes over nothing older than v does so for all that is older. *)
LEMMA PassesLess ==
  ASSUME Shape, LinksLead, NEW k \in Keys, NEW n, IsNode(n), NEW v \in Nat, NEW w \in Nat, w <= v,
         NEW L, Passes(k, n, v, L)
  PROVE  Passes(k, n, w, L)
<1>1. \A j \in k + 1..n.key : \A m \in DOMAIN chain[j] : chain[j][m].ver >= v => chain[j][m].ver >= w
  <2> SUFFICES ASSUME NEW j \in k + 1..n.key, NEW m \in DOMAIN chain[j], chain[j][m].ver >= v
               PROVE  chain[j][m].ver >= w
    OBVIOUS
  <2>1. j \in Keys
    <3>1. n.key \in Keys
      <4>1. k \in Nat
        BY Borders
      <4>2. n # NoNode
        BY <4>1 DEF Passes, NoNode
      <4> QED
        BY <4>2 DEF IsNode
    <3>2. LastKey \in Nat /\ k \in 1..LastKey /\ n.key \in 1..LastKey
      BY <3>1, Borders DEF Keys
    <3> QED
      BY <3>2 DEF Keys
  <2>2. chain[j][m].ver \in Nat
    BY <2>1, ChainShape
  <2> QED
    BY <2>2
<1>2. \A u \in Threads : version[u] >= v => version[u] >= w
  BY DEF Shape
<1> QED
  BY <1>1, <1>2 DEF Passes

(* Push in the terms of Grows. *)
LEMMA AppendGrows ==
  ASSUME WeaverInv, NEW t \in Threads, Appends(t)
  PROVE  Grows /\ Newest(t) /\ NewLinks(t)
<1> DEFINE k == call[t].key
<1>1. PICK new \in Versions :
        /\ new.ver = version[t] /\ new.link = NoNode
        /\ chain' = [chain EXCEPT ![k] = Append(@, new)]
  BY DEF Appends
<1>2. k \in Keys /\ chain \in [Keys -> Seq(Versions)]
  BY DEF WeaverInv, Shape, Calls
<1>3. \A j \in Keys : /\ Len(chain[j]) \in Nat /\ DOMAIN chain[j] = 1..Len(chain[j])
                      /\ chain[j] \in Seq(Versions)
  BY ChainShape DEF WeaverInv
<1> HIDE DEF k
<1>4. \A j \in Keys : j # k => chain'[j] = chain[j]
  BY <1>1, <1>2
<1>5. /\ chain'[k] = Append(chain[k], new) /\ chain'[k] \in Seq(Versions)
      /\ Len(chain'[k]) = Len(chain[k]) + 1
      /\ \A i \in DOMAIN chain[k] : chain'[k][i] = chain[k][i]
      /\ chain'[k][Len(chain'[k])] = new
  BY <1>1, <1>2, <1>3
<1>6. chain' \in [Keys -> Seq(Versions)]
  BY <1>1, <1>2, <1>5
<1>7. \A j \in Keys : \A i \in DOMAIN chain[j] : chain'[j][i] = chain[j][i]
  BY <1>4, <1>5
<1>8. \A j \in Keys : Len(chain'[j]) \in {Len(chain[j]), Len(chain[j]) + 1}
  BY <1>4, <1>5
<1>9. \A j \in Keys : Len(chain'[j]) \in Nat /\ DOMAIN chain'[j] = 1..Len(chain'[j])
  BY <1>6
<1>10. Newest(t)
  <2>1. \A j \in Keys : Len(chain'[j]) = Len(chain[j]) + 1 => j = k
    BY <1>3, <1>4
  <2>2. pc[t] = "push" /\ call[t].key = k
    BY DEF Appends, k
  <2> QED
    BY <2>1, <2>2, <1>1, <1>5 DEF Newest
<1>11. NewLinks(t)
  BY <1>7 DEF NewLinks
<1> QED
  BY <1>3, <1>6, <1>7, <1>8, <1>9, <1>10, <1>11 DEF Grows

(* A link that is set in the terms of Grows. *)
LEMMA SetsLinkGrows ==
  ASSUME WeaverInv, NEW t \in Threads, SetsLink(t)
  PROVE  Grows /\ Newest(t) /\ NewLinks(t)
<1> DEFINE k == call[t].key
           p == Len(chain[call[t].key]) - 1
<1>1. PICK n \in Links :
        /\ IsNode(n)
        /\ n # NoNode => Passes(k, n, version[t], late)
        /\ chain' = [chain EXCEPT ![k][p].link = n]
  BY DEF SetsLink
<1>2. k \in Keys /\ chain \in [Keys -> Seq(Versions)] /\ version[t] \in Nat
  BY DEF WeaverInv, Shape, Calls
<1>3. \A j \in Keys : /\ Len(chain[j]) \in Nat /\ DOMAIN chain[j] = 1..Len(chain[j])
                      /\ chain[j] \in Seq(Versions)
  BY ChainShape DEF WeaverInv
<1>4. p \in DOMAIN chain[k] /\ p + 1 \in DOMAIN chain[k] /\ chain[k][p].link = NoNode
  <2>1. Len(chain[k]) > 1 /\ chain[k][p].link = NoNode
    BY DEF SetsLink
  <2> QED
    BY <2>1, <1>2, <1>3
<1>5. p < Len(chain[k]) /\ chain[k][p + 1].ver <= version[t]
  BY <1>2, <1>3, <1>4 DEF SetsLink, WeaverInv, WriterIsAhead
<1> HIDE DEF k, p
<1> DEFINE new == [chain[k][p] EXCEPT !.link = n]
<1>6. chain[k][p] \in Versions /\ chain[k][p + 1].ver \in Nat
  BY <1>2, <1>4, ChainShape DEF WeaverInv
<1>7. new \in Versions /\ new.ver = chain[k][p].ver /\ new.live = chain[k][p].live /\ new.link = n
  BY <1>6 DEF Versions
<1>8. chain' = [chain EXCEPT ![k] = [chain[k] EXCEPT ![p] = new]]
  BY <1>1, <1>2, <1>4
<1> HIDE DEF new
<1>9. \A j \in Keys : j # k => chain'[j] = chain[j]
  BY <1>2, <1>8
<1>10. chain'[k] = [chain[k] EXCEPT ![p] = new]
  BY <1>2, <1>8
<1>11. /\ chain'[k] \in Seq(Versions) /\ Len(chain'[k]) = Len(chain[k])
       /\ \A i \in DOMAIN chain[k] : chain'[k][i] = IF i = p THEN new ELSE chain[k][i]
  BY <1>2, <1>3, <1>4, <1>7, <1>10
<1>12. chain' \in [Keys -> Seq(Versions)]
  BY <1>2, <1>8, <1>10, <1>11
<1>13. \A j \in Keys : \A i \in DOMAIN chain[j] : (j = k /\ i = p) \/ chain'[j][i] = chain[j][i]
  BY <1>9, <1>11
<1>14. chain'[k][p] = new
  BY <1>4, <1>11
<1>15. \A j \in Keys : Len(chain'[j]) = Len(chain[j])
  BY <1>9, <1>11
<1>16. \A j \in Keys : Len(chain'[j]) \in Nat /\ DOMAIN chain'[j] = 1..Len(chain'[j])
  BY <1>12
<1>17. Newest(t)
  BY <1>3, <1>15 DEF Newest
<1>18. n # NoNode => Passes(k, n, chain[k][p + 1].ver, late)
  BY <1>1, <1>2, <1>5, <1>6, PassesLess DEF WeaverInv
<1>19. NewLinks(t)
  <2>1. pc[t] \in {"weave", "store"} /\ call[t].key = k
    BY DEF SetsLink, k
  <2> QED
    BY <2>1, <1>1, <1>4, <1>5, <1>7, <1>13, <1>14, <1>18 DEF NewLinks
<1> QED
  BY <1>3, <1>4, <1>7, <1>12, <1>13, <1>14, <1>15, <1>16, <1>17, <1>19 DEF Grows

(* Chains grow at their end, by their writer, and links are set once. *)
LEMMA StepGrows ==
  ASSUME WeaverInv, NEW t \in Threads, Step(t)
  PROVE  Grows /\ Newest(t) /\ NewLinks(t)
<1>1. CASE chain' = chain
  <2>1. chain \in [Keys -> Seq(Versions)]
    BY DEF WeaverInv, Shape
  <2>2. \A k \in Keys : Len(chain[k]) \in Nat /\ DOMAIN chain[k] = 1..Len(chain[k])
    BY ChainShape DEF WeaverInv
  <2>3. \A k \in Keys : Len(chain[k]) # Len(chain[k]) + 1
    BY <2>2
  <2> QED
    BY <1>1, <2>1, <2>2, <2>3 DEF Grows, Newest, NewLinks
<1> QED
  BY <1>1, StepOnChains, AppendGrows, SetsLinkGrows

-------------------------------------------------------------------------
(* What a step does to the rest of the state. *)

LEMMA StepFrame ==
  ASSUME WeaverInv, NEW t \in Threads, Step(t)
  PROVE  /\ \A u \in Threads \ {t} :
              /\ pc'[u] = pc[u] /\ call'[u] = call[u] /\ version'[u] = version[u]
              /\ target'[u] = target[u] /\ low'[u] = low[u] /\ last'[u] = last[u] /\ got'[u] = got[u]
         /\ (call' = call /\ version' = version) \/ Begin(t) \/ BeginScan(t)
         /\ clock' = clock \/ (Begin(t) /\ clock' = clock + 1)
         /\ late \subseteq late'
<1>1. /\ pc \in [Threads -> {"idle", "push", "weave", "look", "store", "ending", "visit", "walk"}]
      /\ call \in [Threads -> Calls] /\ version \in [Threads -> Nat] /\ target \in [Threads -> Links]
      /\ low \in [Threads -> Keys] /\ last \in [Threads -> Keys]
      /\ got \in [Threads -> Seq([key : Keys, ver : Nat])]
  BY DEF WeaverInv, Shape
<1>2. CASE Begin(t)
  BY <1>1, <1>2 DEF Begin, Goto, scan
<1>3. CASE Push(t)
  BY <1>1, <1>3 DEF Push, Goto, Release, calls, scan
<1>4. CASE Weave(t)
  BY <1>1, <1>4 DEF Weave, Goto, Release, calls, scan
<1>5. CASE Look(t)
  BY <1>1, <1>5 DEF Look, Goto, Release, calls, scan
<1>6. CASE Store(t)
  BY <1>1, <1>6 DEF Store, Goto, Release, calls, scan
<1>7. CASE End(t)
  BY <1>1, <1>7 DEF End, Goto, calls, scan
<1>8. CASE BeginScan(t)
  BY <1>1, <1>8 DEF BeginScan, Goto
<1>9. CASE Visit(t)
  BY <1>1, <1>9 DEF Visit, Goto, GoOn, calls
<1>10. CASE Walk(t)
  BY <1>1, <1>10 DEF Walk, calls
<1>11. CASE EndWalk(t)
  BY <1>1, <1>11 DEF EndWalk, Goto, GoOn, calls
<1> QED
  BY <1>2, <1>3, <1>4, <1>5, <1>6, <1>7, <1>8, <1>9, <1>10, <1>11 DEF Step

(* What is written begins above all that was drawn before. *)
LEMMA NewWriters ==
  ASSUME WeaverInv, NEW t \in Threads, Step(t), NEW u \in Threads, pc'[u] = "push"
  PROVE  \/ pc[u] = "push" /\ call'[u] = call[u] /\ version'[u] = version[u]
         \/ version'[u] = clock + 1
<1>1. CASE u # t
  BY <1>1, StepFrame
<1>2. CASE u = t
  <2>1. pc \in [Threads -> {"idle", "push", "weave", "look", "store", "ending", "visit", "walk"}]
        /\ version \in [Threads -> Nat]
    BY DEF WeaverInv, Shape
  <2>2. CASE Begin(t)
    BY <1>2, <2>1, <2>2 DEF Begin
  <2>3. CASE ~ Begin(t)
    <3>1. pc'[t] # "push"
      BY <2>1, <2>3 DEF Step, Push, Weave, Look, Store, End, BeginScan, Visit, Walk, EndWalk, Goto,
                        GoOn, Release
    <3> QED
      BY <3>1, <1>2
  <2> QED
    BY <2>2, <2>3
<1> QED
  BY <1>1, <1>2

(* What find_any and find give at the position of a walk. *)
LEMMA WalkFinds ==
  ASSUME WeaverInv, NEW t \in Threads, target[t] # NoNode,
         NEW n, n = target[t], NEW i, i = FindAny(n.key, n.pos, version[t])
  PROVE  /\ n.key \in Keys /\ n.pos \in DOMAIN chain[n.key] /\ Node(n) = chain[n.key][n.pos]
         /\ Node(n).link \in Links /\ IsNode(Node(n).link)
         /\ i \in 0..n.pos
         /\ \A m \in 1..n.pos : chain[n.key][m].ver <= version[t] <=> m <= i
         /\ i > 0 => i \in DOMAIN chain[n.key] /\ chain[n.key][i].ver \in Nat
         /\ IsFound(n.key, n.pos, version[t]) <=> i > 0 /\ chain[n.key][i].live
<1>1. n.key \in Keys /\ n.pos \in DOMAIN chain[n.key] /\ version[t] \in Nat
  BY DEF WeaverInv, LinksLead, IsNode, Shape
<1>2. /\ Len(chain[n.key]) \in Nat /\ DOMAIN chain[n.key] = 1..Len(chain[n.key])
      /\ \A m \in DOMAIN chain[n.key] :
           /\ chain[n.key][m].ver \in Nat /\ chain[n.key][m].link \in Links
           /\ IsNode(chain[n.key][m].link)
  BY <1>1, ChainShape DEF WeaverInv, LinksLead
<1>3. n.pos \in 0..Len(chain[n.key])
  BY <1>1, <1>2
<1>4. i \in 0..n.pos /\ \A m \in 1..n.pos : chain[n.key][m].ver <= version[t] <=> m <= i
  BY <1>1, <1>3, FindAnyIs DEF WeaverInv
<1>5. i > 0 => i \in DOMAIN chain[n.key] /\ chain[n.key][i].ver \in Nat
  BY <1>2, <1>3, <1>4
<1> QED
  BY <1>1, <1>2, <1>4, <1>5 DEF Node, IsFound

(* Every step keeps the types. *)
LEMMA StepShape ==
  ASSUME WeaverInv, NEW t \in Threads, Step(t)
  PROVE  Shape'
<1> USE DEF Shape
<1>1. chain' \in [Keys -> Seq(Versions)]
  BY StepGrows DEF Grows
<1>2. /\ Shape /\ call[t] \in Calls /\ call[t].key \in Keys /\ LeafOf(call[t].key) \in Leaves
      /\ clock \in Nat
  BY LeafOwns DEF WeaverInv, Calls
<1>3. [latch EXCEPT ![LeafOf(call[t].key)] = [by |-> Nobody, mode |-> "free"]]
        \in [Leaves -> [by : Threads \cup {Nobody}, mode : {"free", "pin", "write"}]]
  BY <1>2
<1>4. CASE Begin(t)
  <2>1. Head(todo[t]) \in Calls /\ Tail(todo[t]) \in Seq(Calls)
    BY <1>2, <1>4 DEF Begin, Starts
  <2>2. LeafOf(Head(todo[t]).key) \in Leaves
    BY <2>1, LeafOwns DEF Calls
  <2>3. latch' \in [Leaves -> [by : Threads \cup {Nobody}, mode : {"free", "pin", "write"}]]
    BY <1>2, <1>4, <2>2 DEF Begin
  <2>4. /\ call' \in [Threads -> Calls] /\ todo' \in [Threads -> Seq(Calls)]
        /\ version' \in [Threads -> Nat] /\ clock' \in Nat
    BY <1>2, <1>4, <2>1 DEF Begin
  <2>5. pc' \in [Threads -> {"idle", "push", "weave", "look", "store", "ending", "visit", "walk"}]
    BY <1>2, <1>4 DEF Begin, Goto
  <2> QED
    BY <1>1, <1>2, <1>4, <2>3, <2>4, <2>5 DEF Begin, scan
<1>5. CASE Push(t)
  BY <1>1, <1>2, <1>3, <1>5 DEF Push, Goto, Release, calls, scan
<1>6. CASE Weave(t)
  BY <1>1, <1>2, <1>3, <1>6 DEF Weave, Goto, Release, calls, scan
<1>7. CASE Look(t)
  <2>1. target'[t] \in Links
    <3>1. Beyond(t) # {} => Smallest(Beyond(t)) \in Keys
      <4>1. Beyond(t) \subseteq Keys /\ Beyond(t) \subseteq Nat
        BY Borders DEF Beyond, Records
      <4> QED
        BY <4>1, Least
    <3>2. Beyond(t) # {} => NodeAt(Smallest(Beyond(t)), version[t]) \in Links
      BY <3>1, <1>2, NodeAtIs DEF WeaverInv
    <3>3. NoNode \in Links
      BY DEF NoNode, Links
    <3> QED
      BY <3>2, <3>3, <1>2, <1>7 DEF Look
  <2>2. target' \in [Threads -> Links]
    BY <2>1, <1>2, <1>7 DEF Look
  <2>3. late' \subseteq [key : Keys, ver : Nat]
    <3>1. Pending(NextLeaf(t), version[t]) \subseteq [key : Keys, ver : Nat]
      BY <1>2 DEF Pending, Calls
    <3> QED
      BY <3>1, <1>2, <1>7 DEF Look
  <2> QED
    BY <1>1, <1>2, <1>3, <1>7, <2>2, <2>3 DEF Look, Goto, Release, calls, scan
<1>8. CASE Store(t)
  <2>1. NoNode \in Links
    BY DEF NoNode, Links
  <2> QED
    BY <1>1, <1>2, <1>3, <1>8, <2>1 DEF Store, Goto, Release, calls, scan
<1>9. CASE End(t)
  BY <1>1, <1>2, <1>9 DEF End, Goto, calls, scan
<1>10. CASE BeginScan(t)
  <2>1. Head(todo[t]) \in Calls /\ Tail(todo[t]) \in Seq(Calls)
    BY <1>2, <1>10 DEF BeginScan, Starts
  <2>2. Head(todo[t]).key \in Keys
    BY <2>1 DEF Calls
  <2>3. version' \in [Threads -> Nat]
    BY <1>2, <1>10 DEF BeginScan, Stable
  <2>4. /\ call' \in [Threads -> Calls] /\ todo' \in [Threads -> Seq(Calls)]
        /\ low' \in [Threads -> Keys]
    BY <1>2, <1>10, <2>1, <2>2 DEF BeginScan
  <2>5. got' \in [Threads -> Seq([key : Keys, ver : Nat])]
    <3>1. <<>> \in Seq([key : Keys, ver : Nat]) /\ got' = [got EXCEPT ![t] = <<>>]
      BY <1>10 DEF BeginScan
    <3>2. got \in [Threads -> Seq([key : Keys, ver : Nat])]
      BY <1>2
    <3> QED
      BY <3>1, <3>2, Zenon
  <2>6. pc' \in [Threads -> {"idle", "push", "weave", "look", "store", "ending", "visit", "walk"}]
    BY <1>2, <1>10 DEF BeginScan, Goto
  <2> QED
    BY <1>1, <1>2, <1>10, <2>3, <2>4, <2>5, <2>6 DEF BeginScan
<1>11. CASE Visit(t)
  <2> DEFINE l == LeafOf(low[t])
             ks == {k \in Records(l) : InRange(t, k) /\ Visible(k, version[t])}
  <2>1. Inc(Fences[l]) \in Keys
    BY <1>2, LeafOwns, Borders
  <2>2. ks # {} => Smallest(ks) \in Keys /\ NodeAt(Smallest(ks), version[t]) \in Links
    <3>1. ks \subseteq Keys /\ ks \subseteq Nat
      BY Borders DEF Records
    <3>2. ks # {} => Smallest(ks) \in Keys
      BY <3>1, Least
    <3> QED
      BY <3>2, <1>2, NodeAtIs DEF WeaverInv
  <2>3. /\ pc[t] = "visit"
        /\ IF ks = {}
             THEN GoOn(t, Inc(Fences[l])) /\ UNCHANGED <<target, last>>
             ELSE /\ target' = [target EXCEPT ![t] = NodeAt(Smallest(ks), version[t])]
                  /\ last' = [last EXCEPT ![t] = Smallest(ks)]
                  /\ Goto(t, "walk")
                  /\ UNCHANGED low
        /\ UNCHANGED <<chain, latch, clock, calls, got, late>>
    BY <1>11 DEF Visit
  <2> HIDE DEF l, ks
  <2>4. target' \in [Threads -> Links] /\ low' \in [Threads -> Keys] /\ last' \in [Threads -> Keys]
    BY <1>2, <2>1, <2>2, <2>3 DEF GoOn
  <2>5. pc' \in [Threads -> {"idle", "push", "weave", "look", "store", "ending", "visit", "walk"}]
    BY <1>2, <2>3 DEF Goto, GoOn
  <2> QED
    BY <1>1, <1>2, <2>3, <2>4, <2>5 DEF calls
<1>12. CASE Walk(t)
  <2>1. target[t] # NoNode
    BY <1>12 DEF Walk
  <2>2. /\ target[t].key \in Keys /\ Node(target[t]).link \in Links
        /\ IsFound(target[t].key, target[t].pos, version[t]) =>
             chain[target[t].key][FindAny(target[t].key, target[t].pos, version[t])].ver \in Nat
    BY <2>1, WalkFinds
  <2>3. target' \in [Threads -> Links]
    BY <1>2, <1>12, <2>2 DEF Walk
  <2>4. last' \in [Threads -> Keys]
    BY <1>2, <1>12, <2>2 DEF Walk
  <2>5. got' \in [Threads -> Seq([key : Keys, ver : Nat])]
    <3> DEFINE g == [key |-> target[t].key,
                     ver |-> chain[target[t].key][FindAny(target[t].key, target[t].pos, version[t])].ver]
    <3>1. IF Node(target[t]).live /\ IsFound(target[t].key, target[t].pos, version[t])
            THEN got' = [got EXCEPT ![t] = Append(@, g)]
            ELSE got' = got
      BY <1>12 DEF Walk
    <3>2. CASE Node(target[t]).live /\ IsFound(target[t].key, target[t].pos, version[t])
      <4>1. g \in [key : Keys, ver : Nat]
        BY <3>2, <2>2
      <4> HIDE DEF g
      <4>2. got[t] \in Seq([key : Keys, ver : Nat]) /\ got \in [Threads -> Seq([key : Keys, ver : Nat])]
        BY <1>2
      <4>3. Append(got[t], g) \in Seq([key : Keys, ver : Nat])
        BY <4>1, <4>2
      <4>4. got' = [got EXCEPT ![t] = Append(got[t], g)]
        BY <3>1, <3>2
      <4> QED
        BY <4>2, <4>3, <4>4, Zenon
    <3>3. CASE ~ (Node(target[t]).live /\ IsFound(target[t].key, target[t].pos, version[t]))
      BY <3>1, <3>3, <1>2
    <3> QED
      BY <3>2, <3>3
  <2> QED
    BY <1>1, <1>2, <1>12, <2>3, <2>4, <2>5 DEF Walk, calls
<1>13. CASE EndWalk(t)
  <2>1. Inc(last[t]) \in Keys /\ NoNode \in Links
    BY <1>2, Borders DEF NoNode, Links
  <2> QED
    BY <1>1, <1>2, <1>13, <2>1 DEF EndWalk, Goto, GoOn, calls
<1> QED
  BY <1>4, <1>5, <1>6, <1>7, <1>8, <1>9, <1>10, <1>11, <1>12, <1>13 DEF Step

(* Every link is to a version that there is, after any step. *)
LEMMA StepLinksLead ==
  ASSUME WeaverInv, NEW t \in Threads, Step(t)
  PROVE  LinksLead'
<1> DEFINE IsNow(n) == n = NoNode \/ (n.key \in Keys /\ n.pos \in DOMAIN chain'[n.key])
<1>1. Grows /\ Newest(t) /\ NewLinks(t)
  BY StepGrows
<1>2. ASSUME NEW n, IsNode(n)
      PROVE  IsNow(n)
  <2>1. \A k \in Keys : DOMAIN chain[k] \subseteq DOMAIN chain'[k]
    BY <1>1 DEF Grows
  <2> QED
    BY <1>2, <2>1 DEF IsNode
<1>3. ASSUME NEW k \in Keys, NEW i \in DOMAIN chain'[k]
      PROVE  IsNow(chain'[k][i].link)
  <2>1. CASE i \in DOMAIN chain[k]
    <3>1. IsNode(chain[k][i].link)
      BY <2>1 DEF WeaverInv, LinksLead
    <3>2. chain'[k][i].link # chain[k][i].link => IsNode(chain'[k][i].link)
      BY <1>1, <2>1 DEF NewLinks
    <3>3. IsNode(chain'[k][i].link)
      BY <3>1, <3>2
    <3> QED
      BY <3>3, <1>2
  <2>2. CASE i \notin DOMAIN chain[k]
    <3>1. i = Len(chain'[k]) /\ Len(chain'[k]) = Len(chain[k]) + 1
      BY <1>1, <2>2 DEF Grows
    <3>2. chain'[k][i].link = NoNode
      BY <1>1, <3>1 DEF Newest
    <3> QED
      BY <3>2
  <2> QED
    BY <2>1, <2>2
<1>4. ASSUME NEW k \in Keys, NEW v \in Nat
      PROVE  IsNode(NodeAt(k, v))
  <2>1. PICK n : n = NodeAt(k, v)
    OBVIOUS
  <2>2. n # NoNode => n.key = k /\ n.pos \in DOMAIN chain[k]
    BY <2>1, NodeAtIs DEF WeaverInv, Shows
  <2> QED
    BY <2>1, <2>2 DEF IsNode
<1>5. IsNode(target'[t])
  <2>1. /\ IsNode(target[t]) /\ IsNode(NoNode) /\ version[t] \in Nat
        /\ target \in [Threads -> Links]
    BY DEF WeaverInv, LinksLead, IsNode, Shape
  <2>2. CASE Look(t)
    <3>1. Beyond(t) # {} => Smallest(Beyond(t)) \in Keys
      <4>1. Beyond(t) \subseteq Keys /\ Beyond(t) \subseteq Nat
        BY Borders DEF Beyond, Records
      <4> QED
        BY <4>1, Least
    <3>2. Beyond(t) # {} => IsNode(NodeAt(Smallest(Beyond(t)), version[t]))
      BY <3>1, <2>1, <1>4
    <3> QED
      BY <2>1, <2>2, <3>2 DEF Look
  <2>3. CASE Visit(t)
    <3> DEFINE ks == {k \in Records(LeafOf(low[t])) : InRange(t, k) /\ Visible(k, version[t])}
    <3>1. ks # {} => Smallest(ks) \in Keys
      <4>1. ks \subseteq Keys /\ ks \subseteq Nat
        BY Borders DEF Records
      <4> QED
        BY <4>1, Least
    <3>2. ks # {} => IsNode(NodeAt(Smallest(ks), version[t]))
      BY <3>1, <2>1, <1>4
    <3>3. IF ks = {} THEN target' = target
                     ELSE target' = [target EXCEPT ![t] = NodeAt(Smallest(ks), version[t])]
      BY <2>3 DEF Visit
    <3> HIDE DEF ks
    <3> QED
      BY <2>1, <3>2, <3>3
  <2>4. CASE Walk(t)
    <3>1. IsNode(Node(target[t]).link)
      BY <2>4, WalkFinds DEF Walk
    <3> QED
      BY <2>1, <2>4, <3>1 DEF Walk
  <2>5. CASE Store(t) \/ EndWalk(t)
    BY <2>1, <2>5 DEF Store, EndWalk
  <2>6. CASE Begin(t) \/ Push(t) \/ Weave(t) \/ End(t) \/ BeginScan(t)
    BY <2>1, <2>6 DEF Begin, Push, Weave, End, BeginScan
  <2> QED
    BY <2>2, <2>3, <2>4, <2>5, <2>6 DEF Step
<1>6. ASSUME NEW u \in Threads
      PROVE  IsNow(target'[u])
  <2>1. IsNode(target'[u])
    BY <1>5, StepFrame DEF WeaverInv, LinksLead
  <2> QED
    BY <2>1, <1>2
<1> QED
  BY <1>3, <1>6 DEF LinksLead, IsNode

(* The clock is not behind any version, after any step. *)
LEMMA StepWithinClock ==
  ASSUME WeaverInv, NEW t \in Threads, Step(t)
  PROVE  WithinClock'
<1>1. Grows /\ Newest(t) /\ clock \in Nat
  BY StepGrows DEF WeaverInv, Shape
<1>2. clock' \in Nat /\ 1..clock \subseteq 1..clock' /\ 0..clock \subseteq 0..clock'
  BY <1>1, StepFrame
<1>3. ASSUME NEW u \in Threads, pc[u] = "push"  PROVE version[u] \in 1..clock
  BY <1>1, <1>3 DEF WeaverInv, WithinClock, WriterIsAhead, Inside
<1>4. ASSUME NEW k \in Keys, NEW i \in DOMAIN chain'[k]
      PROVE  chain'[k][i].ver \in 1..clock'
  <2>1. CASE i \in DOMAIN chain[k]
    BY <1>1, <1>2, <2>1 DEF Grows, WeaverInv, WithinClock
  <2>2. CASE i \notin DOMAIN chain[k]
    <3>1. i = Len(chain'[k]) /\ Len(chain'[k]) = Len(chain[k]) + 1
      BY <1>1, <2>2 DEF Grows
    <3>2. pc[t] = "push" /\ chain'[k][i].ver = version[t]
      BY <1>1, <3>1 DEF Newest
    <3> QED
      BY <3>2, <1>2, <1>3
  <2> QED
    BY <2>1, <2>2
<1>5. ASSUME NEW u \in Threads
      PROVE  version'[u] \in 0..clock'
  <2>1. version[u] \in 0..clock /\ version \in [Threads -> Nat]
    BY DEF WeaverInv, WithinClock, Shape
  <2>2. CASE Begin(t)
    BY <2>1, <2>2, <1>1 DEF Begin
  <2>3. CASE BeginScan(t)
    BY <2>1, <2>3, <1>1, <1>2 DEF BeginScan, Stable
  <2>4. CASE version' = version
    BY <2>1, <2>4, <1>2
  <2> QED
    BY <2>2, <2>3, <2>4, StepFrame
<1>6. ASSUME NEW u \in Threads, NEW i \in DOMAIN got'[u]
      PROVE  got'[u][i].ver \in 1..clock'
  <2>1. \A j \in DOMAIN got[u] : got[u][j].ver \in 1..clock'
    BY <1>2 DEF WeaverInv, WithinClock
  <2>2. got \in [Threads -> Seq([key : Keys, ver : Nat])]
    BY DEF WeaverInv, Shape
  <2>3. CASE Walk(t) /\ u = t
    <3> DEFINE g == [key |-> target[t].key,
                     ver |-> chain[target[t].key][FindAny(target[t].key, target[t].pos, version[t])].ver]
    <3>1. IF Node(target[t]).live /\ IsFound(target[t].key, target[t].pos, version[t])
            THEN got' = [got EXCEPT ![t] = Append(@, g)]
            ELSE got' = got
      BY <2>3 DEF Walk
    <3>2. CASE Node(target[t]).live /\ IsFound(target[t].key, target[t].pos, version[t])
      <4>1. FindAny(target[t].key, target[t].pos, version[t]) \in DOMAIN chain[target[t].key]
              /\ target[t].key \in Keys
        BY <2>3, <3>2, WalkFinds DEF Walk
      <4>2. g.ver \in 1..clock'
        BY <4>1, <1>2 DEF WeaverInv, WithinClock
      <4> HIDE DEF g
      <4>3. got'[u] = Append(got[u], g) /\ got[u] \in Seq([key : Keys, ver : Nat])
        BY <2>2, <2>3, <3>1, <3>2
      <4> QED
        BY <4>2, <4>3, <2>1
    <3>3. CASE ~ (Node(target[t]).live /\ IsFound(target[t].key, target[t].pos, version[t]))
      BY <3>1, <3>3, <2>1
    <3> QED
      BY <3>2, <3>3
  <2>4. CASE BeginScan(t) /\ u = t
    <3>1. got'[u] = <<>>
      BY <2>2, <2>4 DEF BeginScan
    <3> QED
      BY <3>1
  <2>5. CASE got'[u] = got[u]
    BY <2>1, <2>5
  <2>6. Walk(t) \/ BeginScan(t) \/ got' = got
    BY DEF Step, Begin, Push, Weave, Look, Store, End, Visit, EndWalk, scan
  <2> QED
    BY <2>3, <2>4, <2>5, <2>6, StepFrame
<1>7. ASSUME NEW w \in late'  PROVE w.ver \in 1..clock'
  <2>1. CASE w \in late
    BY <2>1, <1>2 DEF WeaverInv, WithinClock
  <2>2. CASE w \notin late
    <3>1. Look(t)
      BY <2>2 DEF Step, Begin, Push, Weave, Store, End, BeginScan, Visit, Walk, EndWalk
    <3>2. w \in Pending(NextLeaf(t), version[t])
      BY <2>2, <3>1 DEF Look
    <3>3. PICK u \in Threads : pc[u] = "push" /\ w.ver = version[u]
      BY <3>2 DEF Pending
    <3> QED
      BY <3>3, <1>2, <1>3
  <2> QED
    BY <2>1, <2>2
<1> QED
  BY <1>4, <1>5, <1>6, <1>7 DEF WithinClock

(* A new version is the newest of its chain. *)
LEMMA StepAscending ==
  ASSUME WeaverInv, NEW t \in Threads, Step(t)
  PROVE  Ascending'
<1>1. Grows /\ Newest(t)
  BY StepGrows
<1> SUFFICES ASSUME NEW k \in Keys, NEW i \in DOMAIN chain'[k], NEW j \in DOMAIN chain'[k], i < j
             PROVE  chain'[k][i].ver < chain'[k][j].ver
  BY DEF Ascending
<1>2. i \in DOMAIN chain[k]
  BY <1>1 DEF Grows
<1>3. CASE j \in DOMAIN chain[k]
  BY <1>1, <1>2, <1>3 DEF Grows, WeaverInv, Ascending
<1>4. CASE j \notin DOMAIN chain[k]
  <2>1. j = Len(chain'[k]) /\ Len(chain'[k]) = Len(chain[k]) + 1
    BY <1>1, <1>4 DEF Grows
  <2>2. pc[t] = "push" /\ call[t].key = k /\ chain'[k][j].ver = version[t]
    BY <1>1, <2>1 DEF Newest
  <2>3. chain[k][i].ver < version[t]
    BY <1>2, <2>2 DEF WeaverInv, WriterIsAhead
  <2> QED
    BY <1>1, <1>2, <2>2, <2>3 DEF Grows
<1> QED
  BY <1>3, <1>4

(* Writers write and scans scan. *)
LEMMA StepRolesFit ==
  ASSUME WeaverInv, NEW t \in Threads, Step(t)
  PROVE  RolesFit'
<1>1. /\ pc \in [Threads -> {"idle", "push", "weave", "look", "store", "ending", "visit", "walk"}]
      /\ call \in [Threads -> Calls] /\ "Range" \notin Ops
  BY DEF WeaverInv, Shape, Ops
<1>2. ASSUME NEW u \in Threads, u # t
      PROVE  /\ (Inside(u) \/ pc[u] = "ending")' => call'[u].op \in Ops
             /\ pc'[u] \in {"visit", "walk"} => call'[u].op = "Range"
  BY <1>2, StepFrame DEF WeaverInv, RolesFit, Inside
<1>3. /\ (Inside(t) \/ pc[t] = "ending") => call[t].op \in Ops
      /\ pc[t] \in {"visit", "walk"} => call[t].op = "Range"
  BY DEF WeaverInv, RolesFit
<1>4. /\ (Inside(t) \/ pc[t] = "ending")' => call'[t].op \in Ops
      /\ pc'[t] \in {"visit", "walk"} => call'[t].op = "Range"
  <2>1. CASE Begin(t) \/ BeginScan(t)
    BY <2>1, <1>1 DEF Begin, BeginScan, Starts, Goto, Inside
  <2>2. CASE Push(t) \/ Weave(t) \/ Look(t) \/ Store(t) \/ End(t)
    BY <2>2, <1>1, <1>3 DEF Push, Weave, Look, Store, End, Goto, Release, Inside, calls
  <2>3. CASE Visit(t) \/ EndWalk(t) \/ Walk(t)
    BY <2>3, <1>1, <1>3 DEF Visit, Walk, EndWalk, Goto, GoOn, Inside, calls
  <2> QED
    BY <2>1, <2>2, <2>3 DEF Step
<1> QED
  BY <1>2, <1>4 DEF RolesFit

(* Two threads inside are on different leaves. *)
LEMMA Apart ==
  ASSUME WeaverInv, NEW t \in Threads, NEW u \in Threads, t # u, Inside(t), Inside(u)
  PROVE  LeafOf(call[t].key) # LeafOf(call[u].key) /\ call[t].key # call[u].key
BY DEF WeaverInv, LatchHeld

(* A latch is taken when it is free and given back by who has it. *)
LEMMA StepLatchHeld ==
  ASSUME WeaverInv, NEW t \in Threads, Step(t)
  PROVE  LatchHeld'
<1>1. /\ pc \in [Threads -> {"idle", "push", "weave", "look", "store", "ending", "visit", "walk"}]
      /\ call \in [Threads -> Calls]
      /\ latch \in [Leaves -> [by : Threads \cup {Nobody}, mode : {"free", "pin", "write"}]]
  BY DEF WeaverInv, Shape
<1>2. ASSUME NEW u \in Threads, Inside(u)
      PROVE  latch[LeafOf(call[u].key)].by = u /\ LeafOf(call[u].key) \in Leaves
  BY <1>1, <1>2, LeafOwns DEF WeaverInv, LatchHeld, Calls
<1>3. CASE Begin(t)
  <2> DEFINE l == LeafOf(Head(todo[t]).key)
  <2>1. l \in Leaves
    <3>1. Head(todo[t]) \in Calls
      BY <1>3 DEF WeaverInv, Shape, Begin, Starts
    <3> QED
      BY <3>1, LeafOwns DEF Calls
  <2>2. /\ latch[l].by = Nobody /\ call'[t] = Head(todo[t])
        /\ latch'[l].by = t /\ \A m \in Leaves : m # l => latch'[m] = latch[m]
    BY <1>1, <1>3, <2>1 DEF Begin
  <2>3. ASSUME NEW u \in Threads, u # t, Inside(u)
        PROVE  latch'[LeafOf(call[u].key)].by = u
    BY <1>2, <2>2, <2>3, ThreadsAssumption
  <2>4. \A u \in Threads : u # t => call'[u] = call[u] /\ pc'[u] = pc[u]
    BY StepFrame
  <2> QED
    BY <2>2, <2>3, <2>4 DEF LatchHeld, Inside
<1>4. CASE Release(t) /\ Inside(t) /\ call' = call
  <2> DEFINE l == LeafOf(call[t].key)
  <2>1. pc'[t] = "ending" /\ \A m \in Leaves : m # l => latch'[m] = latch[m]
    BY <1>1, <1>4 DEF Release, Goto
  <2>2. ASSUME NEW u \in Threads, u # t, Inside(u)
        PROVE  latch'[LeafOf(call[u].key)].by = u
    BY <1>2, <1>4, <2>1, <2>2
  <2>3. \A u \in Threads : u # t => call'[u] = call[u] /\ pc'[u] = pc[u]
    BY StepFrame
  <2> QED
    BY <2>1, <2>2, <2>3 DEF LatchHeld, Inside
<1>5. CASE latch' = latch /\ call' = call /\ (Inside(t)' => Inside(t))
  <2>1. \A u \in Threads : Inside(u)' => Inside(u)
    BY <1>5, StepFrame DEF Inside
  <2> QED
    BY <1>2, <1>5, <2>1 DEF LatchHeld
<1>6. CASE latch' = latch /\ (pc'[t] \in {"visit", "walk", "idle"})
  <2>1. \A u \in Threads : Inside(u)' => u # t /\ Inside(u) /\ call'[u] = call[u]
    BY <1>6, StepFrame DEF Inside
  <2> QED
    BY <1>2, <1>6, <2>1 DEF LatchHeld
<1>7. CASE Push(t) \/ Weave(t)
  <2>1. Inside(t) /\ call' = call /\ (Release(t) \/ latch' = latch)
    BY <1>7 DEF Push, Weave, Inside, calls
  <2> QED
    BY <2>1, <1>4, <1>5
<1>8. CASE Look(t) \/ Store(t)
  <2>1. Inside(t) /\ call' = call /\ (Release(t) \/ latch' = latch)
    BY <1>8 DEF Look, Store, Inside, calls
  <2> QED
    BY <2>1, <1>4, <1>5
<1>9. CASE End(t) \/ BeginScan(t) \/ Visit(t) \/ Walk(t) \/ EndWalk(t)
  <2>1. latch' = latch
    BY <1>9 DEF End, BeginScan, Visit, Walk, EndWalk
  <2>2. pc'[t] \in {"visit", "walk", "idle"}
    BY <1>1, <1>9 DEF End, BeginScan, Visit, Walk, EndWalk, Goto, GoOn
  <2> QED
    BY <2>1, <2>2, <1>6
<1> QED
  BY <1>3, <1>7, <1>8, <1>9 DEF Step

(* Nobody else changes the chain of a key that is being written. *)
LEMMA QuietChain ==
  ASSUME WeaverInv, NEW t \in Threads, Step(t), NEW u \in Threads, u # t, Inside(u)
  PROVE  \E k \in Keys :
           /\ k = call[u].key /\ Len(chain'[k]) = Len(chain[k])
           /\ \A i \in DOMAIN chain[k] : /\ chain'[k][i].ver = chain[k][i].ver
                                         /\ chain'[k][i].link = chain[k][i].link
<1> PICK k : k = call[u].key
  OBVIOUS
<1>1. Grows /\ Newest(t) /\ NewLinks(t) /\ k \in Keys
  BY StepGrows DEF WeaverInv, Shape, Calls
<1>2. ~ (Inside(t) /\ call[t].key = k)
  BY Apart
<1>3. Len(chain'[k]) = Len(chain[k])
  BY <1>1, <1>2 DEF Grows, Newest, Inside
<1>4. \A i \in DOMAIN chain[k] : chain'[k][i].link = chain[k][i].link
  BY <1>1, <1>2 DEF NewLinks, Inside
<1> QED
  BY <1>1, <1>3, <1>4 DEF Grows

(* Nobody overtakes a writer under its latch. *)
LEMMA StepWriterIsAhead ==
  ASSUME WeaverInv, NEW t \in Threads, Step(t)
  PROVE  WriterIsAhead'
<1>1. /\ pc \in [Threads -> {"idle", "push", "weave", "look", "store", "ending", "visit", "walk"}]
      /\ call \in [Threads -> Calls] /\ version \in [Threads -> Nat] /\ clock \in Nat
  BY DEF WeaverInv, Shape
<1>2. ASSUME NEW k \in Keys
      PROVE  /\ chain[k] \in Seq(Versions) /\ Len(chain[k]) \in Nat
             /\ DOMAIN chain[k] = 1..Len(chain[k])
             /\ \A i \in DOMAIN chain[k] : chain[k][i].ver \in 1..clock
  BY ChainShape DEF WeaverInv, WithinClock
<1> DEFINE Ahead(u) ==
      /\ Inside(u)' => version'[u] > 0
      /\ pc'[u] = "push" =>
           \A i \in DOMAIN chain'[call'[u].key] : chain'[call'[u].key][i].ver < version'[u]
      /\ pc'[u] \in {"weave", "look", "store"} =>
           /\ chain'[call'[u].key] # <<>>
           /\ \A i \in DOMAIN chain'[call'[u].key] : chain'[call'[u].key][i].ver <= version'[u]
      /\ pc'[u] \in {"look", "store"} =>
           /\ Len(chain'[call'[u].key]) > 1
           /\ chain'[call'[u].key][Len(chain'[call'[u].key]) - 1].link = NoNode
<1>3. ASSUME NEW u \in Threads, u # t, Inside(u)'
      PROVE  Ahead(u)
  <2>1. pc'[u] = pc[u] /\ call'[u] = call[u] /\ version'[u] = version[u] /\ Inside(u)
    BY <1>3, StepFrame DEF Inside
  <2>2. PICK k \in Keys :
          /\ k = call[u].key /\ Len(chain'[k]) = Len(chain[k])
          /\ \A i \in DOMAIN chain[k] : /\ chain'[k][i].ver = chain[k][i].ver
                                        /\ chain'[k][i].link = chain[k][i].link
    BY <2>1, <1>3, QuietChain
  <2>4. DOMAIN chain'[k] = DOMAIN chain[k] /\ (chain[k] # <<>> => chain'[k] # <<>>)
    BY <2>2, <1>2, StepGrows DEF Grows
  <2>5. Len(chain[k]) > 1 => Len(chain[k]) - 1 \in DOMAIN chain[k]
    BY <2>2, <1>2
  <2>6. /\ version[u] > 0
        /\ pc[u] = "push" => \A i \in DOMAIN chain[k] : chain[k][i].ver < version[u]
        /\ pc[u] \in {"weave", "look", "store"} =>
             chain[k] # <<>> /\ \A i \in DOMAIN chain[k] : chain[k][i].ver <= version[u]
        /\ pc[u] \in {"look", "store"} =>
             Len(chain[k]) > 1 /\ chain[k][Len(chain[k]) - 1].link = NoNode
    BY <2>1, <2>2 DEF WeaverInv, WriterIsAhead
  <2> QED
    BY <2>1, <2>2, <2>4, <2>5, <2>6
<1>4. Ahead(t)
  <2>1. CASE Begin(t)
    <3>1. Head(todo[t]).key \in Keys
      <4>1. Head(todo[t]) \in Calls
        BY <2>1 DEF WeaverInv, Shape, Begin, Starts
      <4> QED
        BY <4>1 DEF Calls
    <3>2. /\ pc'[t] = "push" /\ call'[t].key = Head(todo[t]).key /\ version'[t] = clock + 1
          /\ chain' = chain
      BY <1>1, <2>1 DEF Begin, Goto
    <3> QED
      BY <3>1, <3>2, <1>1, <1>2
  <2>2. CASE Push(t)
    <3> DEFINE k == call[t].key
               new == [ver |-> version[t], live |-> call[t].op # "Delete", link |-> NoNode]
    <3>1. /\ k \in Keys /\ version[t] > 0 /\ version[t] \in Nat
          /\ \A i \in DOMAIN chain[k] : chain[k][i].ver < version[t]
      BY <1>1, <2>2 DEF Push, WeaverInv, WriterIsAhead, Inside, Calls
    <3>2. call' = call /\ version' = version
      BY <2>2 DEF Push, calls
    <3>3. CASE pc'[t] = "ending"
      BY <3>3 DEF Inside
    <3>4. CASE pc'[t] # "ending"
      <4>1. /\ pc'[t] = "weave" /\ (call[t].op = "Insert" \/ chain[k] # <<>>)
            /\ IF call[t].op = "Delete" /\ ~Visible(k, version[t])
                 THEN chain' = chain
                 ELSE chain' = [chain EXCEPT ![k] = Append(@, new)]
        BY <1>1, <2>2, <3>4 DEF Push, Goto, Release
      <4>2. CASE chain' = chain /\ call[t].op = "Delete"
        BY <4>1, <4>2, <3>1, <3>2, <1>2
      <4>3. CASE chain' = [chain EXCEPT ![k] = Append(@, new)]
        <5>1. new.ver = version[t]
          OBVIOUS
        <5> HIDE DEF k, new
        <5>2. chain'[k] = Append(chain[k], new)
          BY <3>1, <4>3 DEF WeaverInv, Shape
        <5>3. \A i \in DOMAIN chain'[k] : i \in DOMAIN chain[k] \/ chain'[k][i] = new
          BY <5>2, <3>1, <1>2
        <5>4. chain'[k] # <<>>
          BY <5>2, <3>1, <1>2
        <5>5. \A i \in DOMAIN chain'[k] : chain'[k][i].ver <= version[t]
          <6>1. \A i \in DOMAIN chain[k] : chain'[k][i] = chain[k][i]
            BY <5>2, <3>1, <1>2
          <6>2. \A i \in DOMAIN chain[k] : chain[k][i].ver <= version[t]
            BY <3>1, <1>2
          <6> QED
            BY <6>1, <6>2, <5>1, <5>3, <3>1
        <5> QED
          BY <5>4, <5>5, <4>1, <3>1, <3>2 DEF k
      <4> QED
        BY <4>1, <4>2, <4>3
    <3> QED
      BY <3>3, <3>4
  <2>3. CASE Weave(t)
    <3> DEFINE k == call[t].key
    <3>1. call' = call /\ version' = version /\ pc[t] = "weave"
      BY <2>3 DEF Weave, calls
    <3>2. CASE pc'[t] = "ending"
      BY <3>2 DEF Inside
    <3>3. CASE pc'[t] # "ending"
      <4>1. /\ pc'[t] = "look" /\ chain' = chain
            /\ Superseded(t).pos # 0 /\ Node(Superseded(t)).link = NoNode
        BY <1>1, <2>3, <3>3 DEF Weave, Goto, Release
      <4>2. /\ Superseded(t).key = k /\ Superseded(t).pos = Len(chain[k]) - 1
            /\ Len(chain[k]) \in Nat \ {0}
        BY <3>1, SupersededIs
      <4>3. chain[k][Len(chain[k]) - 1].link = NoNode
        BY <4>1, <4>2 DEF Node
      <4>4. Len(chain[k]) > 1
        <5>1. Len(chain[k]) - 1 # 0 /\ Len(chain[k]) \in Nat \ {0}
          BY <4>1, <4>2, Zenon
        <5>2. \A x \in Nat \ {0} : x - 1 # 0 => x > 1
          OBVIOUS
        <5> QED
          BY <5>1, <5>2, Zenon
      <4>5. /\ version[t] > 0 /\ chain[k] # <<>>
            /\ \A i \in DOMAIN chain[k] : chain[k][i].ver <= version[t]
        BY <3>1 DEF WeaverInv, WriterIsAhead, Inside
      <4> QED
        BY <3>1, <4>1, <4>3, <4>4, <4>5
    <3> QED
      BY <3>2, <3>3
  <2>4. CASE Look(t)
    <3>1. /\ call' = call /\ version' = version /\ pc[t] = "look" /\ chain' = chain
          /\ pc'[t] \in {"store", "ending"}
      BY <1>1, <2>4 DEF Look, calls, Goto, Release
    <3> QED
      BY <3>1 DEF WeaverInv, WriterIsAhead, Inside
  <2>5. CASE Store(t) \/ End(t) \/ BeginScan(t) \/ Visit(t) \/ Walk(t) \/ EndWalk(t)
    <3>1. pc'[t] \notin {"push", "weave", "look", "store"}
      BY <1>1, <2>5 DEF Store, End, BeginScan, Visit, Walk, EndWalk, Goto, GoOn, Release
    <3> QED
      BY <3>1 DEF Inside
  <2> QED
    BY <2>1, <2>2, <2>3, <2>4, <2>5 DEF Step
<1>5. \A u \in Threads : Ahead(u)
  <2>1. ASSUME NEW u \in Threads, ~ Inside(u)'  PROVE Ahead(u)
    BY <2>1 DEF Inside
  <2> QED
    BY <2>1, <1>3, <1>4
<1> QED
  BY <1>5 DEF WriterIsAhead

(* What a link has passed stays what it has passed: a writer stores what   *)
(* it has drawn, and draws above the version that the link stands for.     *)
LEMMA PassesStays ==
  ASSUME WeaverInv, NEW t \in Threads, Step(t),
         NEW k \in Keys, NEW n, IsNode(n), NEW v \in 0..clock, Passes(k, n, v, late)
  PROVE  Passes(k, n, v, late)'
<1>1. Grows /\ Newest(t) /\ late \subseteq late'
  BY StepGrows, StepFrame
<1>2. ASSUME NEW j \in k + 1..n.key  PROVE j \in Keys
  <2>1. n.key \in Keys
    <3>1. k \in Nat /\ n # NoNode
      BY Borders DEF Passes, NoNode
    <3> QED
      BY <3>1 DEF IsNode
  <2>2. LastKey \in Nat /\ k \in 1..LastKey /\ n.key \in 1..LastKey
    BY <2>1, Borders DEF Keys
  <2> QED
    BY <2>2 DEF Keys
<1>3. ASSUME NEW j \in k + 1..n.key, NEW m \in DOMAIN chain'[j]
      PROVE  \/ j = n.key /\ m <= n.pos
             \/ chain'[j][m].ver >= v
             \/ [key |-> j, ver |-> chain'[j][m].ver] \in late'
  <2>1. CASE m \in DOMAIN chain[j]
    <3>1. \/ j = n.key /\ m <= n.pos
          \/ chain[j][m].ver >= v
          \/ [key |-> j, ver |-> chain[j][m].ver] \in late
      BY <2>1 DEF Passes
    <3>2. chain'[j][m].ver = chain[j][m].ver
      BY <1>1, <1>2, <2>1 DEF Grows
    <3> QED
      BY <1>1, <3>1, <3>2
  <2>2. CASE m \notin DOMAIN chain[j]
    <3>1. m = Len(chain'[j]) /\ Len(chain'[j]) = Len(chain[j]) + 1
      BY <1>1, <1>2, <2>2 DEF Grows
    <3>2. pc[t] = "push" /\ call[t].key = j /\ chain'[j][m].ver = version[t]
      BY <1>1, <1>2, <3>1 DEF Newest
    <3>3. version[t] >= v \/ [key |-> j, ver |-> version[t]] \in late
      BY <3>2 DEF Passes
    <3> QED
      BY <1>1, <3>2, <3>3
  <2> QED
    BY <2>1, <2>2
<1>4. ASSUME NEW j \in k + 1..n.key, NEW u \in Threads, pc'[u] = "push", call'[u].key = j
      PROVE  \/ version'[u] >= v
             \/ [key |-> j, ver |-> version'[u]] \in late'
  <2>1. CASE pc[u] = "push" /\ call'[u] = call[u] /\ version'[u] = version[u]
    BY <1>1, <1>4, <2>1 DEF Passes
  <2>2. CASE version'[u] = clock + 1
    BY <2>2 DEF WeaverInv, Shape
  <2> QED
    BY <1>4, <2>1, <2>2, NewWriters
<1> QED
  BY <1>3, <1>4 DEF Passes

(* The links that are set and those to be set, after any step. *)
LEMMA StepLinksPass ==
  ASSUME WeaverInv, NEW t \in Threads, Step(t)
  PROVE  LinksPass'
<1>1. Grows /\ Newest(t) /\ NewLinks(t) /\ clock \in Nat
  BY StepGrows DEF WeaverInv, Shape
<1>2. ASSUME NEW k \in Keys, NEW i \in DOMAIN chain'[k], chain'[k][i].link # NoNode
      PROVE  i < Len(chain'[k]) /\ Passes(k, chain[k][i].link, chain[k][i + 1].ver, late)'
  <2>1. i \in DOMAIN chain[k]
    <3> SUFFICES ASSUME i \notin DOMAIN chain[k]  PROVE FALSE
      OBVIOUS
    <3>1. i = Len(chain'[k]) /\ Len(chain'[k]) = Len(chain[k]) + 1
      BY <1>1, <1>2 DEF Grows
    <3> QED
      BY <3>1, <1>1, <1>2 DEF Newest
  <2>2. PICK n : n = chain'[k][i].link
    OBVIOUS
  <2>3. IsNode(n) /\ i < Len(chain[k]) /\ Passes(k, n, chain[k][i + 1].ver, late)
    <3>1. CASE chain'[k][i].link = chain[k][i].link
      BY <1>2, <2>1, <2>2, <3>1 DEF WeaverInv, LinksPass, LinksLead
    <3>2. CASE chain'[k][i].link # chain[k][i].link
      BY <1>1, <2>1, <2>2, <3>2 DEF NewLinks
    <3> QED
      BY <3>1, <3>2
  <2>4. i + 1 \in DOMAIN chain[k] /\ i < Len(chain'[k])
    BY <1>1, <2>1, <2>3 DEF Grows
  <2>5. chain[k][i + 1].ver \in 0..clock /\ chain'[k][i + 1].ver = chain[k][i + 1].ver
    BY <1>1, <2>4 DEF Grows, WeaverInv, WithinClock
  <2>6. PICK v \in 0..clock : v = chain[k][i + 1].ver
    BY <2>5
  <2>7. Passes(k, n, v, late)'
    BY <2>3, <2>6, PassesStays
  <2> QED
    BY <2>2, <2>4, <2>5, <2>6, <2>7
<1>3. ASSUME NEW u \in Threads, pc'[u] = "store"
      PROVE  target'[u] # NoNode /\ Passes(call[u].key, target[u], version[u], late)'
  <2>1. pc \in [Threads -> {"idle", "push", "weave", "look", "store", "ending", "visit", "walk"}]
        /\ target \in [Threads -> Links]
    BY DEF WeaverInv, Shape
  <2>2. CASE pc[u] = "store" /\ u # t
    <3>1. /\ target'[u] = target[u] /\ call'[u] = call[u] /\ version'[u] = version[u]
          /\ call[u].key \in Keys /\ version[u] \in 0..clock /\ IsNode(target[u])
      BY <2>2, StepFrame DEF WeaverInv, Shape, Calls, WithinClock, LinksLead
    <3>2. target[u] # NoNode /\ Passes(call[u].key, target[u], version[u], late)
      BY <2>2 DEF WeaverInv, LinksPass
    <3>3. PICK k, n, v : k = call[u].key /\ n = target[u] /\ v = version[u]
      OBVIOUS
    <3>4. Passes(k, n, v, late)'
      BY <3>1, <3>2, <3>3, PassesStays
    <3> QED
      BY <3>1, <3>2, <3>3, <3>4
  <2>3. CASE ~ (pc[u] = "store" /\ u # t)
    <3>1. u = t /\ Look(t)
      <4>1. u = t
        BY <2>3, <1>3, StepFrame
      <4>2. ~ (Begin(t) \/ Push(t) \/ Weave(t) \/ Store(t) \/ End(t))
        BY <4>1, <1>3, <2>1 DEF Begin, Push, Weave, Store, End, Goto, Release
      <4>3. ~ (BeginScan(t) \/ Visit(t) \/ Walk(t) \/ EndWalk(t))
        BY <4>1, <1>3, <2>1 DEF BeginScan, Visit, Walk, EndWalk, Goto, GoOn
      <4> QED
        BY <4>1, <4>2, <4>3 DEF Step
    <3>2. /\ pc[t] = "look" /\ Beyond(t) # {}
          /\ target'[t] = NodeAt(Smallest(Beyond(t)), version[t]) /\ target'[t] # NoNode
          /\ late' = late \cup Pending(NextLeaf(t), version[t])
      BY <1>3, <2>1, <3>1 DEF Look, Goto, Release
    <3>3. PICK k, n, v, L : k = call[t].key /\ n = target'[t] /\ v = version[t] /\ L = late'
      OBVIOUS
    <3>4. Passes(k, n, v, L)
      BY <3>2, <3>3, LooksAhead
    <3>5. chain' = chain /\ pc' = [pc EXCEPT ![t] = "store"] /\ call' = call /\ version' = version
      BY <3>1, <3>2 DEF Look, calls, Goto
    <3>6. \A w \in Threads : pc'[w] = "push" => pc[w] = "push"
      BY <2>1, <3>5
    <3>7. Passes(k, n, v, late)'
      BY <3>3, <3>4, <3>5, <3>6 DEF Passes
    <3>8. k = call'[t].key /\ v = version'[t]
      BY <3>3, <3>5
    <3> QED
      BY <3>1, <3>2, <3>3, <3>7, <3>8
  <2> QED
    BY <2>2, <2>3
<1> QED
  BY <1>2, <1>3 DEF LinksPass

(* A scan takes a snapshot that no writer is behind. *)
LEMMA StepSnapshots ==
  ASSUME WeaverInv, NEW t \in Threads, Step(t)
  PROVE  SnapshotsAreStable'
<1>1. /\ pc \in [Threads -> {"idle", "push", "weave", "look", "store", "ending", "visit", "walk"}]
      /\ call \in [Threads -> Calls] /\ version \in [Threads -> Nat] /\ clock \in Nat
      /\ "Range" \notin Ops
  BY DEF WeaverInv, Shape, Ops
<1>2. \A u \in Threads : version[u] <= clock
  BY <1>1 DEF WeaverInv, WithinClock
<1>3. ASSUME NEW u \in Threads, Writing(u)'
      PROVE  \/ Writing(u) /\ call'[u] = call[u] /\ version'[u] = version[u]
             \/ u = t /\ Begin(t)
  <2>1. CASE u # t
    BY <1>3, <2>1, StepFrame DEF Writing
  <2>2. CASE Begin(t) /\ u = t
    BY <2>2
  <2>3. CASE BeginScan(t) /\ u = t
    BY <1>1, <1>3, <2>3 DEF BeginScan, Starts, Writing
  <2>4. CASE ~ Begin(t) /\ ~ BeginScan(t) /\ u = t
    <3>1. pc[t] # "idle"
      BY <2>4 DEF Step, Push, Weave, Look, Store, End, Visit, Walk, EndWalk
    <3> QED
      BY <1>3, <2>4, <3>1, StepFrame DEF Writing
  <2> QED
    BY <2>1, <2>2, <2>3, <2>4
<1> SUFFICES ASSUME NEW s \in Threads, NEW u \in Threads, call'[s].op = "Range", Writing(u)'
             PROVE  version'[s] < version'[u]
  BY DEF SnapshotsAreStable
<1>4. u # s
  BY <1>1 DEF Writing
<1>5. CASE u = t /\ Begin(t)
  BY <1>1, <1>2, <1>4, <1>5, StepFrame DEF Begin
<1>6. CASE Writing(u) /\ version'[u] = version[u]
  <2>1. CASE s = t /\ BeginScan(t)
    <3>1. version'[t] \in Stable
      BY <1>1, <2>1 DEF BeginScan
    <3> QED
      BY <1>6, <2>1, <3>1 DEF Stable
  <2>2. CASE s = t /\ Begin(t)
    BY <1>1, <2>2 DEF Begin, Starts
  <2>3. CASE call'[s] = call[s] /\ version'[s] = version[s]
    BY <1>6, <2>3 DEF WeaverInv, SnapshotsAreStable
  <2> QED
    BY <2>1, <2>2, <2>3, StepFrame
<1> QED
  BY <1>3, <1>5, <1>6

-------------------------------------------------------------------------
(* Scans. *)

(* What is written during a scan is newer than its snapshot. *)
LEMMA SnapshotKept ==
  ASSUME WeaverInv, NEW t \in Threads, Step(t),
         NEW s \in Threads, call[s].op = "Range", NEW v, v = version[s]
  PROVE  /\ \A k \in Keys : \A i \in DOMAIN chain[k] :
              /\ i \in DOMAIN chain'[k] /\ chain'[k][i].ver = chain[k][i].ver
              /\ chain'[k][i].live = chain[k][i].live
         /\ \A k \in Keys : \A i \in DOMAIN chain'[k] :
              i \notin DOMAIN chain[k] => chain'[k][i].ver > v
<1>1. Grows /\ Newest(t) /\ v \in Nat /\ version[t] \in Nat
  BY StepGrows DEF WeaverInv, Shape
<1>2. ASSUME NEW k \in Keys, NEW i \in DOMAIN chain'[k], i \notin DOMAIN chain[k]
      PROVE  chain'[k][i].ver > v
  <2>1. i = Len(chain'[k]) /\ Len(chain'[k]) = Len(chain[k]) + 1
    BY <1>1, <1>2 DEF Grows
  <2>2. pc[t] = "push" /\ chain'[k][i].ver = version[t]
    BY <1>1, <2>1 DEF Newest
  <2>3. Writing(t)
    BY <2>2 DEF Writing, WeaverInv, RolesFit, Inside
  <2> QED
    BY <1>1, <2>2, <2>3 DEF WeaverInv, SnapshotsAreStable
<1>3. \A k \in Keys : DOMAIN chain[k] \subseteq DOMAIN chain'[k]
  BY <1>1 DEF Grows
<1> QED
  BY <1>1, <1>2, <1>3 DEF Grows

(* What a snapshot shows is not changed by any step. *)
LEMMA ShowsStays ==
  ASSUME WeaverInv, NEW t \in Threads, Step(t),
         NEW s \in Threads, call[s].op = "Range", NEW v, v = version[s], NEW k \in Keys
  PROVE  /\ \A i : Shows(k, v, i) => Shows(k, v, i)'
         /\ Sees(k, v)' => Sees(k, v)
<1>1. /\ \A i \in DOMAIN chain[k] :
           /\ i \in DOMAIN chain'[k] /\ chain'[k][i].ver = chain[k][i].ver
           /\ chain'[k][i].live = chain[k][i].live
      /\ \A i \in DOMAIN chain'[k] : i \notin DOMAIN chain[k] => chain'[k][i].ver > v
  BY SnapshotKept
<1>2. \A i : Shows(k, v, i) => Shows(k, v, i)'
  BY <1>1 DEF Shows
<1>3. ASSUME Sees(k, v)'
      PROVE  Sees(k, v)
  <2>1. PICK i \in DOMAIN chain'[k] :
          /\ chain'[k][i].ver <= v /\ chain'[k][i].live
          /\ \A j \in DOMAIN chain'[k] : i < j => chain'[k][j].ver > v
    BY <1>3 DEF Sees, Shows
  <2>2. i \in DOMAIN chain[k]
    <3>1. v \in Nat
      BY DEF WeaverInv, Shape
    <3>2. chain'[k][i].ver \in Nat
      BY StepWithinClock DEF WithinClock
    <3> QED
      BY <1>1, <2>1, <3>1, <3>2
  <2> QED
    BY <1>1, <2>1, <2>2 DEF Sees, Shows
<1> QED
  BY <1>2, <1>3

(* What a scan has found and passed stays right, whatever is written. *)
LEMMA ScanStays ==
  ASSUME WeaverInv, NEW t \in Threads, Step(t),
         NEW s \in Threads, call[s].op = "Range", call'[s] = call[s], version'[s] = version[s]
  PROVE  /\ \A k : Clouded(s, k) => Clouded(s, k)'
         /\ \A k \in Keys : Excused(s, k) => Excused(s, k)'
         /\ \A g \in [key : Keys, ver : Nat] : Given(s, g) => Given(s, g)'
         /\ \A k \in Keys :
              /\ Covered(s, k)
              /\ \A i \in DOMAIN got[s] : i \in DOMAIN got'[s] /\ got'[s][i] = got[s][i]
              => Covered(s, k)'
<1> PICK v : v = version[s]
  OBVIOUS
<1>1. late \subseteq late' /\ version'[s] = v
  BY StepFrame
<1>2. /\ \A k \in Keys : \A i \in DOMAIN chain[k] :
           /\ i \in DOMAIN chain'[k] /\ chain'[k][i].ver = chain[k][i].ver
           /\ chain'[k][i].live = chain[k][i].live
  BY SnapshotKept
<1>3. \A k : Clouded(s, k) => Clouded(s, k)'
  BY <1>1 DEF Clouded
<1>4. \A k \in Keys : Excused(s, k) => Excused(s, k)'
  BY <1>1, <1>2 DEF Excused
<1>5. ASSUME NEW g \in [key : Keys, ver : Nat], Given(s, g)  PROVE Given(s, g)'
  <2>1. CASE Clouded(s, g.key)
    BY <2>1, <1>3 DEF Given
  <2>2. CASE ~ Clouded(s, g.key)
    <3>1. PICK i \in DOMAIN chain[g.key] :
            Shows(g.key, v, i) /\ chain[g.key][i].live /\ g.ver = chain[g.key][i].ver
      BY <1>5, <2>2 DEF Given
    <3>2. Shows(g.key, v, i)'
      BY <3>1, ShowsStays
    <3>3. Shows(g.key, version[s], i)'
      BY <3>2, <1>1 DEF Shows
    <3> QED
      BY <3>1, <3>3, <1>2 DEF Given
  <2> QED
    BY <2>1, <2>2
<1>6. ASSUME NEW k \in Keys, Covered(s, k),
             \A i \in DOMAIN got[s] : i \in DOMAIN got'[s] /\ got'[s][i] = got[s][i]
      PROVE  Covered(s, k)'
  <2> SUFFICES ASSUME version'[s] > 0, Sees(k, version[s])'
               PROVE  \/ \E i \in DOMAIN got'[s] : got'[s][i].key = k
                      \/ Excused(s, k)' \/ Clouded(s, k)'
    BY DEF Covered
  <2>1. Sees(k, v)'
    BY <1>1 DEF Sees, Shows
  <2>2. Sees(k, v)
    BY <2>1, ShowsStays
  <2>3. (\E i \in DOMAIN got[s] : got[s][i].key = k) \/ Excused(s, k) \/ Clouded(s, k)
    BY <2>2, <1>6 DEF Covered
  <2> QED
    BY <2>3, <1>3, <1>4, <1>6
<1> QED
  BY <1>3, <1>4, <1>5, <1>6

(* The state of one scan. *)
ScanIsTrue(t) ==
  call[t].op = "Range" =>
    /\ Gathered(t)
    /\ pc[t] = "idle"  => CoveredTo(t, LastKey + 1)
    /\ pc[t] = "visit" => Visiting(t)
    /\ pc[t] = "walk"  => Walking(t)

(* A scan is not disturbed by a step of somebody else. *)
LEMMA OtherScans ==
  ASSUME WeaverInv, NEW t \in Threads, Step(t), NEW s \in Threads, s # t
  PROVE  ScanIsTrue(s)'
<1>1. /\ pc'[s] = pc[s] /\ call'[s] = call[s] /\ version'[s] = version[s] /\ target'[s] = target[s]
      /\ low'[s] = low[s] /\ last'[s] = last[s] /\ got'[s] = got[s]
  BY StepFrame
<1> SUFFICES ASSUME call[s].op = "Range"  PROVE ScanIsTrue(s)'
  BY <1>1 DEF ScanIsTrue
<1> PICK v : v = version[s]
  OBVIOUS
<1>2. /\ call[s].key \in Keys /\ call[s].upto \in Keys /\ v \in Nat
      /\ last[s] \in Keys /\ got[s] \in Seq([key : Keys, ver : Nat])
  BY DEF WeaverInv, Shape, Calls
<1>3. \A i \in DOMAIN got[s] : got[s][i] \in [key : Keys, ver : Nat]
  <2> DEFINE S == [key : Keys, ver : Nat]
  <2>1. got[s] \in Seq(S)
    BY <1>2
  <2> HIDE DEF S
  <2>2. \A i \in DOMAIN got[s] : got[s][i] \in S
    BY <2>1
  <2> QED
    BY <2>2 DEF S
<1>4. ScanIsTrue(s)
  BY DEF WeaverInv, ScansAreTrue, ScanIsTrue
<1>5. \A k \in call[s].key..call[s].upto : k \in Keys
  BY <1>2, Borders DEF Keys
<1>6. \A b : CoveredTo(s, b) => CoveredTo(s, b)'
  <2>1. \A k \in Keys : Covered(s, k) => Covered(s, k)'
    BY <1>1, ScanStays
  <2> QED
    BY <2>1, <1>1, <1>5 DEF CoveredTo
<1>7. \A b : GotBelow(s, b) => GotBelow(s, b)'
  BY <1>1 DEF GotBelow
<1>8. Gathered(s)'
  <2>1. Gathered(s)
    BY <1>4 DEF ScanIsTrue
  <2>2. \A i \in DOMAIN got[s] : Given(s, got[s][i])'
    BY <2>1, <1>1, <1>3, ScanStays DEF Gathered
  <2>3. \A i \in DOMAIN got[s] : (Given(s, got[s][i]))' <=> (\E g : g = got'[s][i] /\ Given(s, g)')
    BY <1>1
  <2> QED
    BY <2>1, <2>2, <1>1 DEF Gathered
<1>9. pc[s] = "visit" => Visiting(s)'
  <2>1. pc[s] = "visit" => Visiting(s)
    BY <1>4 DEF ScanIsTrue
  <2>2. CoveredTo(s, low[s]) => CoveredTo(s, low[s])'
    BY <1>1, <1>6 DEF CoveredTo
  <2>3. GotBelow(s, low[s]) => GotBelow(s, low[s])'
    BY <1>1, <1>7 DEF GotBelow
  <2> QED
    BY <2>1, <2>2, <2>3, <1>1 DEF Visiting
<1>10. pc[s] = "walk" => Walking(s)'
  <2> SUFFICES ASSUME pc[s] = "walk"  PROVE Walking(s)'
    OBVIOUS
  <2>1. Walking(s)
    BY <1>4 DEF ScanIsTrue
  <2> PICK n, b : n = target[s] /\ b = last[s]
    OBVIOUS
  <2>2. target'[s] = n /\ last'[s] = b
    BY <1>1
  <2>3. /\ call[s].key <= b /\ GotBelow(s, b + 1)
        /\ n = NoNode => CoveredTo(s, b + 1)
        /\ n # NoNode =>
             /\ CoveredTo(s, n.key) /\ GotBelow(s, n.key) /\ Faithful(s)
             /\ AtStart(s) \/ b < n.key
    BY <2>1 DEF Walking
  <2>4. n # NoNode => n.key \in Keys /\ n.pos \in DOMAIN chain[n.key]
    BY DEF WeaverInv, LinksLead, IsNode
  <2>5. n # NoNode /\ Faithful(s) => Faithful(s)'
    <3> SUFFICES ASSUME n # NoNode, Faithful(s)  PROVE Faithful(s)'
      OBVIOUS
    <3>1. CASE Clouded(s, n.key)
      <4>1. Clouded(s, n.key)'
        BY <3>1, <1>1, ScanStays
      <4> QED
        BY <4>1, <2>2 DEF Faithful, Clouded
    <3>2. CASE ~ Clouded(s, n.key)
      <4>1. \A m \in DOMAIN chain[n.key] : n.pos < m => chain[n.key][m].ver > v
        BY <3>2 DEF Faithful
      <4>2. \A m \in DOMAIN chain'[n.key] : n.pos < m => chain'[n.key][m].ver > v
        BY <4>1, <2>4, SnapshotKept
      <4> QED
        BY <4>2, <2>2, <1>1 DEF Faithful
    <3> QED
      BY <3>1, <3>2
  <2>6. n # NoNode /\ AtStart(s) => AtStart(s)'
    <3> SUFFICES ASSUME n # NoNode, AtStart(s)  PROVE AtStart(s)'
      OBVIOUS
    <3>1. n.key = b /\ InRange(s, b) /\ Shows(b, v, n.pos) /\ chain[b][n.pos].live
      BY DEF AtStart, Node
    <3>2. Shows(b, v, n.pos)'
      BY <3>1, <1>2, ShowsStays
    <3>3. chain'[b][n.pos].live
      BY <3>1, <2>4, SnapshotKept
    <3> QED
      BY <3>1, <3>2, <3>3, <2>2, <1>1 DEF AtStart, InRange, Shows, Node
  <2>7. CoveredTo(s, b + 1) => CoveredTo(s, last[s] + 1)'
    BY <2>2, <1>6 DEF CoveredTo
  <2>8. GotBelow(s, b + 1) => GotBelow(s, last[s] + 1)'
    BY <2>2, <1>7 DEF GotBelow
  <2>9. CoveredTo(s, n.key) => CoveredTo(s, target[s].key)'
    BY <2>2, <1>6 DEF CoveredTo
  <2>10. GotBelow(s, n.key) => GotBelow(s, target[s].key)'
    BY <2>2, <1>7 DEF GotBelow
  <2>11. /\ (call[s].key <= last[s])' /\ GotBelow(s, last[s] + 1)'
         /\ target'[s] = NoNode => CoveredTo(s, last[s] + 1)'
    BY <2>2, <2>3, <2>7, <2>8, <1>1
  <2>12. target'[s] # NoNode =>
           /\ CoveredTo(s, target[s].key)' /\ GotBelow(s, target[s].key)' /\ Faithful(s)'
           /\ AtStart(s)' \/ (last[s] < target[s].key)'
    <3> SUFFICES ASSUME n # NoNode
                 PROVE  /\ CoveredTo(s, target[s].key)' /\ GotBelow(s, target[s].key)' /\ Faithful(s)'
                        /\ AtStart(s)' \/ (last[s] < target[s].key)'
      BY <2>2
    <3>0. CoveredTo(s, n.key) /\ GotBelow(s, n.key) /\ Faithful(s)
      BY <2>3
    <3>1. CoveredTo(s, target[s].key)'
      BY <3>0, <2>9, Zenon
    <3>2. GotBelow(s, target[s].key)'
      BY <3>0, <2>10, Zenon
    <3>3. Faithful(s)'
      BY <3>0, <2>5, Zenon
    <3>4. AtStart(s)' \/ (last[s] < target[s].key)'
      <4>1. CASE AtStart(s)
        BY <4>1, <2>6
      <4>2. CASE ~ AtStart(s)
        <5>1. b < n.key
          BY <4>2, <2>3
        <5> QED
          BY <5>1, <2>2
      <4> QED
        BY <4>1, <4>2
    <3> QED
      BY <3>1, <3>2, <3>3, <3>4, Zenon
  <2> QED
    BY <2>11, <2>12, Zenon DEF Walking
<1> QED
  BY <1>1, <1>4, <1>6, <1>8, <1>9, <1>10 DEF ScanIsTrue

(* A scan that begins has nothing to account for. *)
LEMMA BeginsScan ==
  ASSUME WeaverInv, NEW t \in Threads, BeginScan(t)
  PROVE  ScanIsTrue(t)'
<1>1. /\ pc'[t] = "visit" /\ call'[t] = Head(todo[t]) /\ low'[t] = call'[t].key /\ got'[t] = <<>>
      /\ call'[t] \in Calls
  BY DEF WeaverInv, Shape, BeginScan, Starts, Goto
<1>2. call'[t].key \in Nat /\ call'[t].upto \in Nat
  BY <1>1, Borders DEF Calls
<1>3. Gathered(t)' /\ GotBelow(t, low[t])'
  BY <1>1 DEF Gathered, GotBelow
<1>4. CoveredTo(t, low[t])'
  BY <1>1, <1>2 DEF CoveredTo
<1>5. Visiting(t)'
  BY <1>1, <1>2, <1>3, <1>4 DEF Visiting
<1> QED
  BY <1>1, <1>3, <1>5 DEF ScanIsTrue

(* When a scan goes on behind key j, it has found all up to j. *)
LEMMA GoesOn ==
  ASSUME WeaverInv, NEW t \in Threads, call[t].op = "Range", NEW j \in Keys,
         Gathered(t), call[t].key <= j, CoveredTo(t, j + 1), GotBelow(t, j + 1),
         GoOn(t, Inc(j)), UNCHANGED <<chain, call, version, got, late>>
  PROVE  ScanIsTrue(t)'
<1>1. /\ call[t].key \in Nat /\ call[t].upto \in Keys /\ Keys \subseteq Nat
      /\ low \in [Threads -> Keys]
      /\ pc \in [Threads -> {"idle", "push", "weave", "look", "store", "ending", "visit", "walk"}]
  BY Borders DEF WeaverInv, Shape, Calls
<1>2. /\ low'[t] = Inc(j)
      /\ pc'[t] = IF Inc(j) >= call[t].upto THEN "idle" ELSE "visit"
  BY <1>1 DEF GoOn, Goto
<1>3. Inc(j) \in Nat /\ j <= Inc(j) /\ (j < LastKey => Inc(j) = j + 1) /\ LastKey \in Nat
  BY Borders
<1>4. call[t].upto <= LastKey /\ j <= LastKey
  BY <1>1, <1>3 DEF Keys
<1>5. Gathered(t)'
  BY DEF Gathered, Given, Shows, Clouded
<1>6. ASSUME NEW b  PROVE CoveredTo(t, b) => CoveredTo(t, b)'
  BY DEF CoveredTo, Covered, Sees, Shows, Excused, Clouded
<1>7. CASE Inc(j) >= call[t].upto
  <2>1. CoveredTo(t, LastKey + 1)
    <3> SUFFICES ASSUME NEW k \in call[t].key..call[t].upto  PROVE Covered(t, k)
      BY DEF CoveredTo
    <3>1. CASE k = call[t].upto
      BY <3>1 DEF Covered, Excused
    <3>2. CASE k # call[t].upto
      <4>1. k < j + 1
        <5>1. \A a, b, i, x, z \in Nat : \A y \in a..b :
                 x >= b /\ y # b /\ (i < z => x = i + 1) /\ b <= z /\ i <= z => y < i + 1
          OBVIOUS
        <5>2. call[t].upto \in Nat /\ j \in Nat
          BY <1>1
        <5> QED
          BY <5>1, <5>2, <3>2, <1>1, <1>3, <1>4, <1>7, Zenon
      <4> QED
        BY <4>1 DEF CoveredTo
    <3> QED
      BY <3>1, <3>2
  <2>2. CoveredTo(t, LastKey + 1)'
    BY <2>1, <1>6, Zenon
  <2> QED
    BY <2>2, <1>2, <1>5, <1>7 DEF ScanIsTrue
<1>8. CASE ~ (Inc(j) >= call[t].upto)
  <2>1. Inc(j) = j + 1
    <3>1. \A b, i, x, z \in Nat :
             ~ (x >= b) /\ (i < z => x = i + 1) /\ i <= x /\ b <= z /\ i <= z => x = i + 1
      OBVIOUS
    <3>2. call[t].upto \in Nat /\ j \in Nat
      BY <1>1
    <3> QED
      BY <3>1, <3>2, <1>3, <1>4, <1>8, Zenon
  <2>2. CoveredTo(t, j + 1)'
    BY <1>6, Zenon
  <2>3. CoveredTo(t, low[t])' /\ GotBelow(t, low[t])' /\ (call[t].key <= low[t])'
    BY <1>1, <1>2, <2>1, <2>2 DEF CoveredTo, GotBelow
  <2>4. Visiting(t)'
    BY <2>3, Zenon DEF Visiting
  <2> QED
    BY <2>4, <1>2, <1>5, <1>8 DEF ScanIsTrue
<1> QED
  BY <1>7, <1>8

(* What the link of a walk's position leads past. *)
LEMMA Onward ==
  ASSUME WeaverInv, NEW t \in Threads, call[t].op = "Range", Walking(t), target[t] # NoNode,
         NEW n, n = target[t], NEW m, m = Node(n).link, m # NoNode, NEW v, v = version[t]
  PROVE  /\ n.key < m.key
         /\ \A k \in Keys : n.key < k /\ k < m.key /\ Sees(k, v) => Clouded(t, k)
         /\ \/ \A i \in DOMAIN chain[m.key] : m.pos < i => chain[m.key][i].ver > v
            \/ Clouded(t, m.key)
<1> PICK a, b, p, q : a = n.key /\ b = m.key /\ p = n.pos /\ q = m.pos
  OBVIOUS
<1> PICK first : first = call[t].key
  OBVIOUS
<1>1. /\ a \in Keys /\ p \in DOMAIN chain[a] /\ Node(n) = chain[a][p]
      /\ m \in Links /\ b \in Keys
  BY WalkFinds DEF IsNode
<1>2. /\ a \in Nat /\ b \in Nat /\ q \in Nat /\ v \in Nat /\ first \in Nat
      /\ Len(chain[a]) \in Nat /\ DOMAIN chain[a] = 1..Len(chain[a])
  BY <1>1, Borders, ChainShape DEF WeaverInv, Shape, Calls, Links
<1>3. \A k \in Keys : \A i \in DOMAIN chain[k] : chain[k][i].ver \in Nat /\ i \in Nat
  BY ChainShape DEF WeaverInv
<1>4. p < Len(chain[a]) /\ Passes(a, m, chain[a][p + 1].ver, late)
  BY <1>1 DEF WeaverInv, LinksPass
<1>5. p \in Nat /\ p + 1 \in DOMAIN chain[a] /\ p < p + 1
  <2>1. p \in Nat
    BY <1>1, <1>3
  <2>2. p + 1 \in 1..Len(chain[a]) /\ p < p + 1
    BY <2>1, <1>2, <1>4
  <2> QED
    BY <2>1, <2>2, <1>2
<1> PICK s : s = chain[a][p + 1].ver
  OBVIOUS
<1>6. s \in Nat
  BY <1>1, <1>3, <1>5
<1>7. first <= a
  <2>1. first <= last[t] /\ (a = last[t] \/ last[t] < a) /\ last[t] \in Nat
    BY Borders DEF Walking, AtStart, WeaverInv, Shape
  <2> QED
    BY <2>1, <1>2
<1>8. a < b
  BY <1>4 DEF Passes
<1>9. CASE Clouded(t, a)
  <2>1. ASSUME NEW k \in Nat, a < k  PROVE Clouded(t, k)
    <3>1. PICK w \in late : first <= w.key /\ w.key <= a /\ w.ver <= v
      BY <1>9 DEF Clouded
    <3>2. w.key \in Nat
      BY Borders DEF WeaverInv, Shape
    <3>3. w.key <= k
      BY <3>1, <3>2, <2>1, <1>2
    <3> QED
      BY <3>1, <3>3 DEF Clouded
  <2>2. \A k \in Keys : k \in Nat
    BY Borders
  <2> QED
    BY <2>1, <2>2, <1>2, <1>8
<1>10. CASE ~ Clouded(t, a)
  <2>1. s > v
    BY <1>5, <1>10 DEF Walking, Faithful
  <2>2. ASSUME NEW k \in Keys, a < k, k <= b, NEW i \in DOMAIN chain[k]
        PROVE  (k = b /\ i <= q) \/ chain[k][i].ver > v \/ Clouded(t, k)
    <3>0. k \in Nat /\ first <= k /\ k <= k /\ k \in a + 1..b
      <4>1. k \in Nat
        BY Borders
      <4> QED
        BY <4>1, <1>2, <1>7, <2>2
    <3> PICK x : x = chain[k][i].ver
      OBVIOUS
    <3>1. (k = b /\ i <= q) \/ x >= s \/ [key |-> k, ver |-> x] \in late
      BY <1>4, <3>0 DEF Passes
    <3>2. x \in Nat
      BY <1>3
    <3>3. [key |-> k, ver |-> x] \in late /\ x <= v => Clouded(t, k)
      BY <3>0 DEF Clouded
    <3>4. x >= s => x > v
      BY <3>2, <2>1, <1>2, <1>6
    <3>5. x <= v \/ x > v
      BY <3>2, <1>2
    <3> QED
      BY <3>1, <3>3, <3>4, <3>5, Zenon
  <2>3. ASSUME NEW k \in Keys, a < k, k < b, Sees(k, v)
        PROVE  Clouded(t, k)
    <3>1. PICK i \in DOMAIN chain[k] : chain[k][i].ver <= v
      BY <2>3 DEF Sees, Shows
    <3>2. k \in Nat /\ chain[k][i].ver \in Nat
      BY <1>3, Borders
    <3>3. k <= b /\ k # b /\ ~ (chain[k][i].ver > v)
      BY <2>3, <3>1, <3>2, <1>2
    <3> QED
      BY <3>3, <2>2, <2>3, Zenon
  <2>4. b <= b
    BY <1>2
  <2>5. ASSUME NEW i \in DOMAIN chain[b], q < i
        PROVE  chain[b][i].ver > v \/ Clouded(t, b)
    <3>1. ~ (i <= q)
      <4>1. i \in Nat
        BY <1>1, <1>3
      <4> QED
        BY <4>1, <2>5, <1>2
    <3> QED
      BY <3>1, <2>2, <2>4, <1>1, <1>8, Zenon
  <2> QED
    BY <1>8, <2>3, <2>5
<1> QED
  BY <1>9, <1>10

(* The range of a call consists of keys. *)
LEMMA RangeIsKeys ==
  ASSUME WeaverInv, NEW t \in Threads
  PROVE  /\ call[t].key \in Keys /\ call[t].upto \in Keys
         /\ \A k \in call[t].key..call[t].upto : k \in Keys
<1>1. call[t].key \in Keys /\ call[t].upto \in Keys
  BY DEF WeaverInv, Shape, Calls
<1>2. \A a, b \in Keys : \A k \in a..b : k \in Keys
  <2> PICK z : z = LastKey
    OBVIOUS
  <2>1. \A a, b \in 1..z : \A k \in a..b : k \in 1..z
    BY Borders
  <2> QED
    BY <2>1 DEF Keys
<1> QED
  BY <1>1, <1>2, Zenon

(* What a scan has found are keys and versions. *)
LEMMA GotFits ==
  ASSUME WeaverInv, NEW t \in Threads
  PROVE  \A i \in DOMAIN got[t] : got[t][i].key \in Keys /\ got[t][i].ver \in Nat
<1> DEFINE S == [key : Keys, ver : Nat]
<1>1. got[t] \in Seq(S)
  BY DEF WeaverInv, Shape
<1> HIDE DEF S
<1>2. \A i \in DOMAIN got[t] : got[t][i] \in S
  BY <1>1
<1> QED
  BY <1>2 DEF S

(* The keys that a visit finds are those of its leaf that are seen. *)
LEMMA LeafFinds ==
  ASSUME WeaverInv, NEW t \in Threads, NEW l, l = LeafOf(low[t]), NEW k \in Keys,
         low[t] <= k, k <= Fences[l], k <= call[t].upto, Sees(k, version[t])
  PROVE  k \in {x \in Records(l) : InRange(t, x) /\ Visible(x, version[t])}
<1>1. low[t] \in Keys /\ version[t] \in Nat /\ Shape /\ Ascending
  BY DEF WeaverInv, Shape
<1>2. l \in Leaves /\ LeafOf(k) \in Leaves /\ LeafOf(k) <= l /\ l <= LeafOf(k)
  <2>1. l <= LeafOf(k)
    BY <1>1, LeavesAscend
  <2> QED
    BY <2>1, <1>1, LeafOwns
<1>3. LeafOf(k) = l
  <2>1. l \in Nat /\ LeafOf(k) \in Nat
    BY <1>2, Borders
  <2>2. \A x, y \in Nat : x <= y /\ y <= x => x = y
    OBVIOUS
  <2> QED
    BY <2>1, <2>2, <1>2, Zenon
<1>4. chain[k] # <<>>
  <2>1. DOMAIN chain[k] # {}
    BY DEF Sees, Shows
  <2>2. DOMAIN <<>> = {}
    OBVIOUS
  <2> QED
    BY <2>1, <2>2
<1> QED
  BY <1>1, <1>3, <1>4, VisibleIs DEF Records, InRange

(* A visit passes over nothing that is seen, and starts at the first. *)
LEMMA VisitsLeaf ==
  ASSUME WeaverInv, NEW t \in Threads, Visit(t)
  PROVE  ScanIsTrue(t)'
<1> DEFINE l  == LeafOf(low[t])
           ks == {k \in Records(l) : InRange(t, k) /\ Visible(k, version[t])}
<1> PICK first, upto, from, v : first = call[t].key /\ upto = call[t].upto /\ from = low[t] /\ v = version[t]
  OBVIOUS
<1>1. /\ pc[t] = "visit" /\ call[t].op = "Range" /\ UNCHANGED <<chain, call, version, got, late>>
      /\ IF ks = {}
           THEN GoOn(t, Inc(Fences[l])) /\ UNCHANGED <<target, last>>
           ELSE /\ target' = [target EXCEPT ![t] = NodeAt(Smallest(ks), version[t])]
                /\ last' = [last EXCEPT ![t] = Smallest(ks)]
                /\ Goto(t, "walk")
                /\ UNCHANGED low
  BY DEF Visit, calls, WeaverInv, RolesFit
<1>2. Gathered(t) /\ first <= from /\ CoveredTo(t, from) /\ GotBelow(t, from)
  BY <1>1 DEF WeaverInv, ScansAreTrue, Visiting
<1>3. first \in Nat /\ upto \in Nat /\ from \in Nat /\ v \in Nat /\ from \in Keys /\ Shape /\ Ascending
      /\ l \in Leaves /\ from <= Fences[l] /\ Fences[l] \in Nat /\ Fences[l] \in Keys
      /\ upto \in Keys
  BY LeafOwns, Borders DEF WeaverInv, Shape, Calls
<1>4. \A k \in Keys : k \in Nat /\ (from <= k /\ k <= Fences[l] /\ k <= upto /\ Sees(k, v) => k \in ks)
  BY LeafFinds, Borders
<1>5. \A k \in ks : k \in Keys /\ LeafOf(k) = l /\ from <= k /\ k <= upto /\ Visible(k, v)
  BY DEF Records, InRange
<1>6. \A k \in first..upto : k \in Keys
  BY RangeIsKeys
<1>7. \A i \in DOMAIN got[t] : got[t][i].key \in Nat /\ got[t][i].key < from
  BY <1>2, GotFits, Borders DEF GotBelow
<1> HIDE DEF ks, l
<1>8. CASE ks = {}
  <2> PICK j : j = Fences[l]
    OBVIOUS
  <2>1. j \in Keys /\ j \in Nat /\ from <= j
    BY <1>3
  <2>2. CoveredTo(t, j + 1)
    <3> SUFFICES ASSUME NEW k \in first..upto, k < j + 1  PROVE Covered(t, k)
      BY DEF CoveredTo
    <3>1. CASE k < from
      BY <3>1, <1>2 DEF CoveredTo
    <3>2. CASE ~ (k < from)
      <4>1. k \in Keys /\ from <= k /\ k <= j /\ k <= upto
        BY <3>2, <1>3, <1>6, <2>1
      <4> QED
        BY <4>1, <1>4, <1>8 DEF Covered
    <3> QED
      BY <3>1, <3>2
  <2>3. GotBelow(t, j + 1)
    BY <2>1, <1>3, <1>7 DEF GotBelow
  <2>4. call[t].key <= j
    BY <2>1, <1>2, <1>3
  <2> QED
    BY <1>1, <1>2, <1>8, <2>1, <2>2, <2>3, <2>4, GoesOn
<1>9. CASE ks # {}
  <2> PICK b : b = Smallest(ks)
    OBVIOUS
  <2>1. b \in ks /\ \A j \in ks : b <= j
    <3>1. ks \subseteq Nat
      BY <1>4, <1>5
    <3> QED
      BY <3>1, <1>9, Least
  <2>2. b \in Keys /\ b \in Nat /\ from <= b /\ b <= upto /\ Visible(b, v) /\ b <= Fences[l]
    <3>1. b \in Keys /\ LeafOf(b) = l
      BY <2>1, <1>5
    <3> QED
      BY <3>1, <2>1, <1>4, <1>5, LeafOwns
  <2> PICK n : n = NodeAt(b, v)
    OBVIOUS
  <2>3. n # NoNode /\ n.key = b /\ Shows(b, v, n.pos) /\ Node(n).live
    BY <2>2, <1>3, NodeAtIs, VisibleIs
  <2>4. target'[t] = n /\ last'[t] = b /\ pc'[t] = "walk" /\ low'[t] = from /\ version'[t] = v
    BY <1>1, <1>9 DEF WeaverInv, Shape, Goto
  <2>5. ASSUME NEW k \in first..upto, k < b  PROVE Covered(t, k)
    <3>1. CASE k < from
      BY <3>1, <1>2 DEF CoveredTo
    <3>2. CASE ~ (k < from)
      <4>1. k \in Keys /\ from <= k /\ k <= Fences[l] /\ k <= upto /\ ~ (b <= k)
        BY <3>2, <1>3, <1>6, <2>2, <2>5
      <4> QED
        BY <4>1, <1>4, <2>1 DEF Covered
    <3> QED
      BY <3>1, <3>2
  <2>6. CoveredTo(t, target[t].key)'
    BY <2>3, <2>4, <2>5, <1>1 DEF CoveredTo, Covered, Sees, Shows, Excused, Clouded
  <2>7. GotBelow(t, last[t] + 1)' /\ GotBelow(t, target[t].key)'
    BY <2>2, <2>3, <2>4, <1>1, <1>3, <1>7 DEF GotBelow
  <2>8. AtStart(t)'
    BY <2>2, <2>3, <2>4, <1>1 DEF AtStart, InRange, Shows, Node
  <2>9. Faithful(t)'
    BY <2>3, <2>4, <1>1 DEF Faithful, Shows
  <2>10. (call[t].key <= last[t])'
    BY <1>1, <1>2, <1>3, <2>2, <2>4
  <2>11. Walking(t)'
    BY <2>3, <2>4, <2>6, <2>7, <2>8, <2>9, <2>10 DEF Walking
  <2>12. Gathered(t)'
    BY <1>1, <1>2 DEF Gathered, Given, Shows, Clouded
  <2> QED
    BY <2>4, <2>11, <2>12 DEF ScanIsTrue
<1> QED
  BY <1>8, <1>9

(* The links end: what the walk has come to is what has been covered. *)
LEMMA EndsWalk ==
  ASSUME WeaverInv, NEW t \in Threads, EndWalk(t)
  PROVE  ScanIsTrue(t)'
<1> PICK n, b : n = target[t] /\ b = last[t]
  OBVIOUS
<1>1. /\ pc[t] = "walk" /\ call[t].op = "Range" /\ UNCHANGED <<chain, call, version, got, late>>
      /\ n # NoNode => ~ InRange(t, n.key)
      /\ GoOn(t, Inc(b))
  BY DEF EndWalk, calls, WeaverInv, RolesFit
<1>2. Gathered(t) /\ Walking(t)
  BY <1>1 DEF WeaverInv, ScansAreTrue
<1>3. b \in Keys /\ b \in Nat
  BY Borders DEF WeaverInv, Shape
<1>4. CoveredTo(t, b + 1)
  <2>1. CASE n = NoNode
    BY <2>1, <1>2 DEF Walking
  <2>2. CASE n # NoNode
    <3>1. b < n.key /\ CoveredTo(t, n.key)
      BY <2>2, <1>1, <1>2 DEF Walking, AtStart
    <3>2. n.key \in Nat
      BY <2>2, Borders DEF WeaverInv, LinksLead, IsNode
    <3>3. \A k \in call[t].key..call[t].upto : k < b + 1 => k < n.key
      <4>1. call[t].key \in Nat /\ call[t].upto \in Nat
        BY Borders DEF WeaverInv, Shape, Calls
      <4> QED
        BY <4>1, <3>1, <3>2, <1>3
    <3> QED
      BY <3>1, <3>3 DEF CoveredTo
  <2> QED
    BY <2>1, <2>2
<1>5. call[t].key <= b /\ GotBelow(t, b + 1)
  BY <1>2 DEF Walking
<1> QED
  BY <1>1, <1>2, <1>3, <1>4, <1>5, GoesOn

(* What stands behind the position of a walk: what is not clouded and seen *)
(* is found there, or it is deleted later on.                              *)
LEMMA Stands ==
  ASSUME WeaverInv, NEW t \in Threads, call[t].op = "Range", Walking(t), target[t] # NoNode,
         NEW n, n = target[t], NEW i, i = FindAny(n.key, n.pos, version[t]), ~ Clouded(t, n.key)
  PROVE  /\ i > 0 => Shows(n.key, version[t], i)
         /\ Sees(n.key, version[t]) =>
              (Node(n).live /\ IsFound(n.key, n.pos, version[t])) \/ Excused(t, n.key)
<1> PICK a, p, v : a = n.key /\ p = n.pos /\ v = version[t]
  OBVIOUS
<1>1. /\ a \in Keys /\ p \in DOMAIN chain[a] /\ Node(n) = chain[a][p]
      /\ i \in 0..p /\ \A m \in 1..p : chain[a][m].ver <= v <=> m <= i
      /\ i > 0 => i \in DOMAIN chain[a]
      /\ IsFound(a, p, v) <=> i > 0 /\ chain[a][i].live
  BY WalkFinds
<1>2. v \in Nat /\ Shape /\ Len(chain[a]) \in Nat /\ DOMAIN chain[a] = 1..Len(chain[a])
      /\ \A m \in DOMAIN chain[a] : chain[a][m].ver \in Nat
  BY <1>1, ChainShape DEF WeaverInv, Shape
<1>3. \A m \in DOMAIN chain[a] : p < m => chain[a][m].ver > v
  BY DEF Walking, Faithful
<1>4. i > 0 => Shows(a, v, i)
  <2> SUFFICES ASSUME i > 0  PROVE Shows(a, v, i)
    OBVIOUS
  <2>1. chain[a][i].ver <= v
    BY <1>1
  <2>2. ASSUME NEW m \in DOMAIN chain[a], i < m  PROVE chain[a][m].ver > v
    <3>1. CASE p < m
      BY <3>1, <1>3
    <3>2. CASE ~ (p < m)
      <4>1. m \in 1..p /\ ~ (m <= i)
        BY <1>1, <1>2, <2>2, <3>2
      <4>2. ~ (chain[a][m].ver <= v) /\ chain[a][m].ver \in Nat
        BY <4>1, <1>1, <1>2
      <4> QED
        BY <4>2, <1>2
    <3> QED
      BY <3>1, <3>2
  <2> QED
    BY <1>1, <2>1, <2>2 DEF Shows
<1>5. ASSUME Sees(a, v)
      PROVE  (Node(n).live /\ IsFound(a, p, v)) \/ Excused(t, a)
  <2>1. PICK m \in DOMAIN chain[a] : Shows(a, v, m) /\ chain[a][m].live
    BY <1>5 DEF Sees
  <2>2. m \in Nat /\ chain[a][m].ver \in Nat /\ chain[a][m].ver <= v /\ m >= 1
    BY <2>1, <1>2 DEF Shows
  <2>3. ~ (p < m) /\ p \in Nat
    BY <1>1, <1>2, <1>3, <2>2
  <2>4. m \in 1..p
    BY <2>2, <2>3
  <2>5. m <= i /\ i > 0
    BY <2>2, <2>4, <1>1
  <2>6. m = i
    BY <2>1, <2>5, <1>1, <1>2, <1>4, ShowsOne
  <2>7. IsFound(a, p, v)
    BY <2>1, <2>5, <2>6, <1>1
  <2>8. CASE m = p
    BY <2>1, <2>7, <2>8, <1>1
  <2>9. CASE m # p
    <3>1. m < p
      BY <2>4, <2>9, <2>3
    <3>2. chain[a][p].ver > v
      BY <2>1, <3>1, <1>1 DEF Shows
    <3> QED
      BY <2>7, <3>2, <1>1 DEF Excused
  <2> QED
    BY <2>8, <2>9
<1> QED
  BY <1>4, <1>5

(* A scan that has gone one link further. *)
LEMMA Walks ==
  ASSUME WeaverInv, NEW t \in Threads, Walk(t)
  PROVE  ScanIsTrue(t)'
<1> PICK n, first, b, v, i :
      /\ n = target[t] /\ first = call[t].key /\ b = last[t] /\ v = version[t]
      /\ i = FindAny(n.key, n.pos, v)
  OBVIOUS
<1> PICK a, m : a = n.key /\ m = Node(n).link
  OBVIOUS
<1> PICK took : took \in BOOLEAN /\ took = (Node(n).live /\ IsFound(a, n.pos, v))
  <2>1. (Node(n).live /\ IsFound(a, n.pos, v)) = TRUE \/ (Node(n).live /\ IsFound(a, n.pos, v)) = FALSE
    BY DEF IsFound
  <2> QED
    BY <2>1
<1>1. /\ pc[t] = "walk" /\ n # NoNode /\ call[t].op = "Range"
      /\ UNCHANGED <<chain, pc, call, version, low, late>>
      /\ Node(n).live => InRange(t, a)
      /\ target' = [target EXCEPT ![t] = m]
      /\ took => /\ got' = [got EXCEPT ![t] = Append(@, [key |-> a, ver |-> chain[a][i].ver])]
                 /\ last' = [last EXCEPT ![t] = a]
      /\ ~ took => UNCHANGED <<got, last>>
  BY DEF Walk, calls, WeaverInv, RolesFit
<1>2. Gathered(t) /\ Walking(t)
  BY <1>1 DEF WeaverInv, ScansAreTrue
<1>3. first \in Nat /\ b \in Nat /\ a \in Nat /\ a \in Keys /\ m \in Links /\ v \in Nat
      /\ (m # NoNode => m.key \in Keys /\ m.key \in Nat)
      /\ call[t].upto \in Nat
  <2>1. a \in Keys /\ m \in Links /\ (m # NoNode => m.key \in Keys)
    BY <1>1, WalkFinds DEF IsNode
  <2> QED
    BY <2>1, RangeIsKeys, Borders DEF WeaverInv, Shape
<1>4. /\ CoveredTo(t, a) /\ GotBelow(t, a) /\ GotBelow(t, b + 1) /\ first <= b
      /\ AtStart(t) \/ b < a
  BY <1>1, <1>2 DEF Walking
<1>5. AtStart(t) => a = b
  BY DEF AtStart
<1>6. b <= a /\ first <= a
  BY <1>3, <1>4, <1>5
<1>7. ~ took => b < a
  <2> SUFFICES ASSUME AtStart(t)  PROVE took
    BY <1>4
  <2>1. Shows(a, v, n.pos) /\ Node(n).live
    BY DEF AtStart
  <2>2. n.pos \in DOMAIN chain[a] /\ Node(n) = chain[a][n.pos] /\ i \in 0..n.pos
        /\ (\A x \in 1..n.pos : chain[a][x].ver <= v <=> x <= i)
        /\ (IsFound(a, n.pos, v) <=> i > 0 /\ chain[a][i].live)
    BY <1>1, WalkFinds
  <2>0. n.pos \in Nat /\ n.pos > 0
    BY <1>3, <2>2, ChainShape DEF WeaverInv
  <2>3. n.pos \in 1..n.pos /\ chain[a][n.pos].ver <= v
    BY <2>0, <2>1, <2>2 DEF Shows
  <2>4. i = n.pos
    BY <2>0, <2>2, <2>3
  <2> QED
    BY <2>0, <2>1, <2>2, <2>4
<1>8. target'[t] = m /\ pc'[t] = "walk" /\ last'[t] = IF took THEN a ELSE b
  BY <1>1 DEF WeaverInv, Shape
<1> PICK gots : gots = got[t]
  OBVIOUS
<1> PICK new : new = [key |-> a, ver |-> chain[a][i].ver]
  OBVIOUS
<1>9. /\ Len(gots) \in Nat /\ DOMAIN gots = 1..Len(gots)
      /\ \A x \in DOMAIN gots : gots[x].key \in Nat /\ gots[x].key < a
  <2>1. gots \in Seq([key : Keys, ver : Nat])
    BY DEF WeaverInv, Shape
  <2>2. ASSUME NEW x \in DOMAIN gots  PROVE gots[x].key \in Nat /\ gots[x].key < a
    BY <1>4, GotFits, Borders DEF GotBelow
  <2>3. Len(gots) \in Nat /\ DOMAIN gots = 1..Len(gots)
    BY <2>1
  <2> QED
    BY <2>2, <2>3
<1>10. /\ \A x \in DOMAIN gots : x \in DOMAIN got'[t] /\ got'[t][x] = gots[x]
       /\ \A x \in DOMAIN got'[t] : x \in DOMAIN gots \/ (took /\ x = Len(gots) + 1 /\ got'[t][x] = new)
       /\ took => Len(gots) + 1 \in DOMAIN got'[t] /\ got'[t][Len(gots) + 1] = new
  <2>1. CASE took
    <3>1. gots \in Seq([key : Keys, ver : Nat]) /\ got'[t] = Append(gots, new)
      BY <1>1, <2>1 DEF WeaverInv, Shape
    <3> QED
      BY <3>1, <2>1
  <2>2. CASE ~ took
    BY <2>2, <1>1
  <2> QED
    BY <2>1, <2>2
<1>11. Gathered(t)'
  <2>1. ASSUME NEW g, Given(t, g)  PROVE Given(t, g)'
    BY <2>1, <1>1 DEF Given, Shows, Clouded
  <2>2. took => Given(t, new)
    <3> SUFFICES ASSUME took, ~ Clouded(t, a)  PROVE Given(t, new)
      BY DEF Given
    <3>1. i > 0 /\ i \in DOMAIN chain[a] /\ chain[a][i].live
      BY <1>1, WalkFinds
    <3>2. Shows(a, v, i)
      BY <3>1, <1>1, <1>2, Stands
    <3> QED
      BY <3>1, <3>2 DEF Given
  <2>3. /\ \A x, y \in DOMAIN gots : x < y => gots[x].key < gots[y].key
        /\ \A x \in DOMAIN gots : Given(t, gots[x])
    BY <1>2 DEF Gathered
  <2>4. ASSUME NEW x \in DOMAIN got'[t]  PROVE \E g : g = got'[t][x] /\ Given(t, g)'
    BY <2>1, <2>2, <2>3, <1>10
  <2>5. ASSUME NEW x \in DOMAIN got'[t], NEW y \in DOMAIN got'[t], x < y
        PROVE  got'[t][x].key < got'[t][y].key
    <3>1. x \in DOMAIN gots
      BY <2>5, <1>9, <1>10
    <3>2. CASE y \in DOMAIN gots
      BY <3>1, <3>2, <2>3, <2>5, <1>10
    <3>3. CASE y \notin DOMAIN gots
      BY <3>1, <3>3, <1>9, <1>10
    <3> QED
      BY <3>2, <3>3
  <2> QED
    BY <2>4, <2>5 DEF Gathered
<1>12. ASSUME NEW k \in first..call[t].upto, k <= a  PROVE Covered(t, k)'
  <2>1. Covered(t, k) => Covered(t, k)'
    BY <1>1, <1>10 DEF Covered, Sees, Shows, Excused, Clouded
  <2>2. CASE k < a
    BY <2>1, <2>2, <1>4 DEF CoveredTo
  <2>3. CASE k = a /\ took
    BY <2>3, <1>10 DEF Covered
  <2>4. CASE k = a /\ ~ took
    <3>1. Covered(t, a)
      BY <2>4, <1>1, <1>2, Stands DEF Covered
    <3> QED
      BY <3>1, <2>1, <2>4
  <2> QED
    BY <2>2, <2>3, <2>4, <1>3, <1>12
<1>13. GotBelow(t, a + 1)'
  <2> SUFFICES ASSUME NEW x \in DOMAIN got'[t]  PROVE got'[t][x].key < a + 1
    BY DEF GotBelow
  <2> QED
    BY <1>3, <1>9, <1>10
<1>14. ~ took => GotBelow(t, b + 1)' /\ GotBelow(t, a)'
  BY <1>1, <1>4 DEF GotBelow
<1>15. GotBelow(t, last[t] + 1)' /\ (call[t].key <= last[t])'
  BY <1>1, <1>4, <1>6, <1>8, <1>13, <1>14 DEF GotBelow
<1>16. CASE m = NoNode
  <2>1. CoveredTo(t, last[t] + 1)'
    <3> SUFFICES ASSUME NEW k \in first..call[t].upto, k < last'[t] + 1  PROVE Covered(t, k)'
      BY <1>1 DEF CoveredTo
    <3>1. k <= a
      BY <1>3, <1>6, <1>8
    <3> QED
      BY <3>1, <1>12
  <2> QED
    BY <2>1, <1>1, <1>8, <1>11, <1>15, <1>16 DEF ScanIsTrue, Walking
<1>17. CASE m # NoNode
  <2>1. /\ a < m.key
        /\ \A k \in Keys : a < k /\ k < m.key /\ Sees(k, v) => Clouded(t, k)
        /\ \/ \A x \in DOMAIN chain[m.key] : m.pos < x => chain[m.key][x].ver > v
           \/ Clouded(t, m.key)
    BY <1>1, <1>2, <1>17, Onward
  <2>2. CoveredTo(t, m.key)'
    <3> SUFFICES ASSUME NEW k \in first..call[t].upto, k < m.key  PROVE Covered(t, k)'
      BY <1>1 DEF CoveredTo
    <3>1. CASE k <= a
      BY <3>1, <1>12
    <3>2. CASE ~ (k <= a)
      <4>1. k \in Keys /\ a < k
        BY <3>2, <1>3, RangeIsKeys
      <4>2. Sees(k, v) => Clouded(t, k)
        BY <4>1, <2>1
      <4> QED
        BY <4>2, <1>1 DEF Covered, Sees, Shows, Clouded
    <3> QED
      BY <3>1, <3>2
  <2>3. GotBelow(t, m.key)'
    <3> SUFFICES ASSUME NEW x \in DOMAIN got'[t]  PROVE got'[t][x].key < m.key
      BY DEF GotBelow
    <3>1. got'[t][x].key \in Nat /\ got'[t][x].key <= a
      BY <1>3, <1>9, <1>10
    <3> QED
      BY <3>1, <2>1, <1>3, <1>17
  <2>4. Faithful(t)'
    BY <2>1, <1>1, <1>8 DEF Faithful, Clouded
  <2>5. last'[t] < m.key
    BY <2>1, <1>3, <1>6, <1>8, <1>17
  <2>6. CoveredTo(t, target[t].key)' /\ GotBelow(t, target[t].key)'
    BY <2>2, <2>3, <1>8 DEF CoveredTo, GotBelow
  <2>7. Walking(t)'
    BY <2>4, <2>5, <2>6, <1>8, <1>15, <1>17 DEF Walking
  <2> QED
    BY <2>7, <1>8, <1>11 DEF ScanIsTrue
<1> QED
  BY <1>16, <1>17

(* The scans after any step. *)
LEMMA StepScans ==
  ASSUME WeaverInv, NEW t \in Threads, Step(t)
  PROVE  ScansAreTrue'
<1>1. ScanIsTrue(t)'
  <2>1. CASE BeginScan(t)
    BY <2>1, BeginsScan
  <2>2. CASE Visit(t)
    BY <2>2, VisitsLeaf
  <2>3. CASE Walk(t)
    BY <2>3, Walks
  <2>4. CASE EndWalk(t)
    BY <2>4, EndsWalk
  <2>5. CASE Begin(t)
    <3>1. call'[t].op \in Ops
      BY <2>5 DEF Begin, Starts, WeaverInv, Shape
    <3> QED
      BY <3>1 DEF ScanIsTrue, Ops
  <2>6. CASE Push(t) \/ Weave(t) \/ Look(t) \/ Store(t) \/ End(t)
    <3>1. call[t].op \in Ops
      BY <2>6 DEF Push, Weave, Look, Store, End, WeaverInv, RolesFit, Inside
    <3>2. call' = call
      BY <2>6 DEF Push, Weave, Look, Store, End, calls
    <3> QED
      BY <3>1, <3>2 DEF ScanIsTrue, Ops
  <2> QED
    BY <2>1, <2>2, <2>3, <2>4, <2>5, <2>6 DEF Step
<1>2. \A s \in Threads : s # t => ScanIsTrue(s)'
  BY OtherScans
<1> QED
  BY <1>1, <1>2, Zenon DEF ScansAreTrue, ScanIsTrue

-------------------------------------------------------------------------
(* The invariant holds. *)

LEMMA Starting ==
  ASSUME Init
  PROVE  WeaverInv
<1> DEFINE Upto(k) == {j \in Loaded : j <= k}
<1>1. LastKey \in Nat \ {0} /\ Keys \subseteq Nat /\ LastKey \in Keys
  BY Borders DEF Keys
<1>2. IsFiniteSet(Loaded) /\ Cardinality(Loaded) \in Nat
  <2>1. IsFiniteSet(1..LastKey)
    BY <1>1, FS_Interval
  <2> QED
    BY <2>1, LoadedAssumption, FS_Subset, FS_CardinalityType DEF Keys
<1>3. ASSUME NEW k \in Loaded  PROVE Cardinality(Upto(k)) \in 1..Cardinality(Loaded)
  <2>1. Upto(k) \subseteq Loaded /\ k \in Upto(k)
    BY <1>1, LoadedAssumption
  <2> HIDE DEF Upto
  <2>2. IsFiniteSet(Upto(k)) /\ Cardinality(Upto(k)) <= Cardinality(Loaded)
    BY <2>1, <1>2, FS_Subset
  <2>3. Cardinality(Upto(k)) \in Nat /\ Cardinality(Upto(k)) # 0
    BY <2>1, <2>2, FS_CardinalityType, FS_EmptySet
  <2> QED
    BY <2>2, <2>3, <1>2
<1> HIDE DEF Upto
<1> PICK First : First = [k \in Keys |-> [ver |-> Cardinality(Upto(k)), live |-> TRUE, link |-> NoNode]]
  OBVIOUS
<1>4. \A k \in Keys : chain[k] = IF k \in Loaded THEN <<First[k]>> ELSE <<>>
  BY DEF Init, Upto
<1>5. \A k \in Loaded : /\ k \in Keys /\ First[k] \in Versions /\ First[k].link = NoNode
                        /\ First[k].ver \in 1..clock
  BY <1>2, <1>3, LoadedAssumption DEF Init, Versions, Links, NoNode
<1>6. ASSUME NEW k \in Keys
      PROVE  /\ chain[k] \in Seq(Versions)
             /\ \A i \in DOMAIN chain[k] :
                  i = 1 /\ chain[k][i].link = NoNode /\ chain[k][i].ver \in 1..clock
  <2>1. CASE k \in Loaded
    <3> PICK f : f = First[k]
      OBVIOUS
    <3>1. chain[k] = <<f>> /\ f \in Versions /\ f.link = NoNode /\ f.ver \in 1..clock
      BY <2>1, <1>4, <1>5
    <3> QED
      BY <3>1
  <2>2. CASE k \notin Loaded
    <3>1. chain[k] = <<>>
      BY <2>2, <1>4
    <3> QED
      BY <3>1
  <2> QED
    BY <2>1, <2>2
<1>7. \A k \in Keys : \A i \in DOMAIN chain[k] :
        i = 1 /\ chain[k][i].link = NoNode /\ chain[k][i].ver \in 1..clock
  BY <1>6
<1>8. /\ chain \in [Keys -> Seq(Versions)] /\ clock \in Nat
  <2>1. DOMAIN chain = Keys /\ chain = [k \in Keys |-> chain[k]]
    BY DEF Init
  <2> QED
    BY <2>1, <1>2, <1>6 DEF Init
<1>9. /\ todo \in [Threads -> Seq(Calls)] /\ call \in [Threads -> Calls]
  <2>1. todo \in [Threads -> Seq(Calls)] /\ \A t \in Threads : todo[t] # <<>>
    BY ScriptsAssumption DEF Init
  <2>2. \A t \in Threads : Head(todo[t]) \in Calls
    BY <2>1
  <2> QED
    BY <2>1, <2>2 DEF Init
<1>10. Shape
  BY <1>1, <1>8, <1>9 DEF Init, Shape, NoNode, Links
<1>11. LinksLead /\ WithinClock /\ Ascending
  <2>1. LinksLead
    BY <1>7 DEF Init, LinksLead, IsNode
  <2>2. WithinClock
    BY <1>7, <1>8 DEF Init, WithinClock
  <2>3. Ascending
    BY <1>7 DEF Ascending
  <2> QED
    BY <2>1, <2>2, <2>3
<1>12. RolesFit /\ LatchHeld /\ WriterIsAhead
  BY DEF Init, RolesFit, LatchHeld, WriterIsAhead, Inside
<1>13. LinksPass /\ SnapshotsAreStable
  BY <1>7 DEF Init, LinksPass, SnapshotsAreStable, Writing
<1>14. ScansAreTrue
  BY DEF Init, ScansAreTrue, Gathered, CoveredTo, Covered
<1> QED
  BY <1>10, <1>11, <1>12, <1>13, <1>14 DEF WeaverInv

(* Every step keeps the invariant. *)
LEMMA Stepping ==
  ASSUME WeaverInv, [Next]_vars
  PROVE  WeaverInv'
<1>1. CASE \E t \in Threads : Step(t)
  BY <1>1, StepShape, StepLinksLead, StepWithinClock, StepAscending, StepRolesFit, StepLatchHeld,
     StepWriterIsAhead, StepLinksPass, StepSnapshots, StepScans DEF WeaverInv
<1>2. CASE UNCHANGED vars
  <2> USE <1>2 DEF vars, calls, scan
  <2>1. Shape' /\ LinksLead' /\ WithinClock' /\ Ascending'
    BY DEF WeaverInv, Shape, LinksLead, IsNode, WithinClock, Ascending
  <2>2. RolesFit' /\ LatchHeld' /\ WriterIsAhead'
    BY DEF WeaverInv, RolesFit, LatchHeld, WriterIsAhead, Inside
  <2>3. LinksPass'
    <3>1. LinksPass /\ chain' = chain /\ pc' = pc /\ call' = call /\ version' = version
          /\ target' = target /\ late' = late
      BY DEF WeaverInv
    <3>2. ASSUME NEW k \in Keys, NEW i \in DOMAIN chain'[k], chain'[k][i].link # NoNode
          PROVE  i < Len(chain'[k]) /\ Passes(k, chain[k][i].link, chain[k][i + 1].ver, late)'
      BY <3>1, <3>2 DEF LinksPass, Passes
    <3>3. ASSUME NEW t \in Threads, pc'[t] = "store"
          PROVE  target'[t] # NoNode /\ Passes(call[t].key, target[t], version[t], late)'
      BY <3>1, <3>3 DEF LinksPass, Passes
    <3> QED
      BY <3>2, <3>3, Zenon DEF LinksPass
  <2>5. SnapshotsAreStable'
    BY DEF WeaverInv, SnapshotsAreStable, Writing
  <2>4. ScansAreTrue'
    <3>1. \A t \in Threads : ScanIsTrue(t) => ScanIsTrue(t)'
      BY DEF ScanIsTrue, Gathered, Given, Shows, Clouded, CoveredTo, Covered, Sees, Excused,
             GotBelow, Visiting, Walking, Faithful, AtStart, InRange, Node
    <3> QED
      BY <3>1, Zenon DEF WeaverInv, ScansAreTrue, ScanIsTrue
  <2> QED
    BY <2>1, <2>2, <2>3, <2>4, <2>5 DEF WeaverInv
<1> QED
  BY <1>1, <1>2 DEF Next

(* The leaf latches, the links and the walks are what WeaverInv says, after *)
(* any number of calls of any number of threads.                            *)
THEOREM Invariance == Spec => []WeaverInv
<1>1. Init => WeaverInv
  BY Starting
<1>2. WeaverInv /\ [Next]_vars => WeaverInv'
  BY Stepping
<1> QED
  BY <1>1, <1>2, PTL DEF Spec

-------------------------------------------------------------------------
(* What follows from it. *)

(* TypeOK: every link is to a version that there is, and nothing that is   *)
(* stored or found is newer than the clock.                                *)
THEOREM TypeCorrect == Spec => []TypeOK
<1>1. ASSUME WeaverInv  PROVE TypeOK
  <2>1. Shape /\ LinksLead /\ WithinClock
    BY <1>1 DEF WeaverInv
  <2>2. ASSUME NEW k \in Keys, NEW i \in DOMAIN chain[k]
        PROVE  /\ chain[k][i].ver \in 1..clock /\ chain[k][i].live \in BOOLEAN
               /\ LET n == chain[k][i].link IN
                  n # NoNode => n.key \in Keys /\ n.pos \in DOMAIN chain[n.key]
    BY <2>1, ChainShape DEF WithinClock, LinksLead, IsNode
  <2>3. version \in [Threads -> 0..clock]
    BY <2>1 DEF Shape, WithinClock
  <2>4. got \in [Threads -> Seq([key : Keys, ver : 1..clock])]
    <3> DEFINE S == [key : Keys, ver : Nat]
               T == [key : Keys, ver : 1..clock]
    <3>1. ASSUME NEW t \in Threads, NEW i \in DOMAIN got[t]  PROVE got[t][i] \in T
      <4>1. got[t] \in Seq(S)
        BY <2>1 DEF Shape
      <4>2. got[t][i] \in S
        <5> HIDE DEF S
        <5> QED
          BY <4>1
      <4> QED
        BY <4>2, <2>1 DEF WithinClock
    <3>2. \A s \in Seq(S) : (\A i \in DOMAIN s : s[i] \in T) => s \in Seq(T)
      <4> HIDE DEF S, T
      <4> QED
        OBVIOUS
    <3>3. got \in [Threads -> Seq(S)]
      BY <2>1 DEF Shape
    <3> HIDE DEF S, T
    <3>4. got \in [Threads -> Seq(T)]
      BY <3>1, <3>2, <3>3
    <3> QED
      BY <3>4 DEF T
  <2>5. late \subseteq [key : Keys, ver : 1..clock]
    BY <2>1 DEF Shape, WithinClock
  <2> QED
    BY <2>1, <2>2, <2>3, <2>4, <2>5 DEF TypeOK, Shape
<1> QED
  BY <1>1, Invariance, PTL

(* LinksNeverChange: what a scan has copied stays what it was, but that    *)
(* links appear, and a link is set once.                                   *)
THEOREM LinksKept == Spec => LinksNeverChange
<1>1. ASSUME WeaverInv, [Next]_vars
      PROVE  [\A k \in Keys : \A i \in DOMAIN chain[k] :
                /\ i \in DOMAIN chain'[k]
                /\ chain[k][i].link # NoNode => chain'[k][i] = chain[k][i]]_vars
  <2> SUFFICES ASSUME ~ UNCHANGED vars, NEW k \in Keys, NEW i \in DOMAIN chain[k]
               PROVE  /\ i \in DOMAIN chain'[k]
                      /\ chain[k][i].link # NoNode => chain'[k][i] = chain[k][i]
    OBVIOUS
  <2>1. PICK t \in Threads : Step(t)
    BY <1>1 DEF Next
  <2>2. Grows /\ NewLinks(t)
    BY <1>1, <2>1, StepGrows
  <2> QED
    BY <2>2 DEF Grows, NewLinks
<1> QED
  BY <1>1, Invariance, PTL DEF LinksNeverChange, Spec

(* LinksSeeAllOlder: what a link passes over is not older than what it     *)
(* stands for, but for what was being written when it was set.             *)
THEOREM Older == Spec => []LinksSeeAllOlder
<1>1. ASSUME WeaverInv  PROVE LinksSeeAllOlder
  BY <1>1 DEF WeaverInv, LinksPass, Passes, LinksSeeAllOlder
<1> QED
  BY <1>1, Invariance, PTL

(* ScansSeeTheirSnapshot: a scan that is over has given what its snapshot  *)
(* sees, in order, and misses only what is excused or in doubt.            *)
THEOREM Scans == Spec => []ScansSeeTheirSnapshot
<1>1. ASSUME WeaverInv, NEW t \in Threads, pc[t] = "idle", call[t].op = "Range"
      PROVE  /\ \A i, j \in DOMAIN got[t] : i < j => got[t][i].key < got[t][j].key
             /\ \A i \in DOMAIN got[t] :
                  LET g == got[t][i] IN
                  \/ Visible(g.key, version[t]) /\ g.ver = Node(NodeAt(g.key, version[t])).ver
                  \/ Clouded(t, g.key)
             /\ \A k \in call[t].key..call[t].upto :
                  version[t] > 0 /\ Visible(k, version[t]) =>
                    \/ \E i \in DOMAIN got[t] : got[t][i].key = k
                    \/ Excused(t, k)
                    \/ Clouded(t, k)
  <2>1. Gathered(t) /\ CoveredTo(t, LastKey + 1) /\ Shape /\ Ascending /\ version[t] \in Nat
    BY <1>1 DEF WeaverInv, ScansAreTrue, Shape
  <2>2. ASSUME NEW i \in DOMAIN got[t], NEW g, g = got[t][i], ~ Clouded(t, g.key)
        PROVE  Visible(g.key, version[t]) /\ g.ver = Node(NodeAt(g.key, version[t])).ver
    <3>1. g.key \in Keys
      BY <1>1, <2>2, GotFits
    <3>2. PICK x \in DOMAIN chain[g.key] :
            Shows(g.key, version[t], x) /\ chain[g.key][x].live /\ g.ver = chain[g.key][x].ver
      BY <2>1, <2>2 DEF Gathered, Given
    <3>3. Visible(g.key, version[t])
      BY <2>1, <3>1, <3>2, VisibleIs DEF Sees
    <3> PICK n : n = NodeAt(g.key, version[t])
      OBVIOUS
    <3>4. n.key = g.key /\ Shows(g.key, version[t], n.pos)
      BY <2>1, <3>1, <3>3, NodeAtIs, VisibleIs
    <3>5. n.pos = x
      BY <2>1, <3>1, <3>2, <3>4, ShowsOne
    <3> QED
      BY <3>2, <3>3, <3>4, <3>5 DEF Node
  <2>3. ASSUME NEW k \in call[t].key..call[t].upto, version[t] > 0, Visible(k, version[t])
        PROVE  (\E i \in DOMAIN got[t] : got[t][i].key = k) \/ Excused(t, k) \/ Clouded(t, k)
    <3>1. k \in Keys
      BY <1>1, RangeIsKeys
    <3>2. k < LastKey + 1
      BY <3>1, Borders DEF Keys
    <3>3. Sees(k, version[t])
      BY <2>1, <2>3, <3>1, VisibleIs
    <3> QED
      BY <2>1, <2>3, <3>2, <3>3 DEF CoveredTo, Covered
  <2> QED
    BY <2>1, <2>2, <2>3 DEF Gathered
<1>2. WeaverInv => ScansSeeTheirSnapshot
  BY <1>1, Zenon DEF ScansSeeTheirSnapshot
<1> QED
  BY <1>2, Invariance, PTL

=========================================================================
