------------------------ MODULE RidgeChainProofs ------------------------
(***************************************************************************)
(* Proofs about RidgeChain, for any readers and values, any length of the  *)
(* chain and any sentinel level that the length does not reach: the        *)
(* inductive invariant RidgeInv, what follows from it, and the refinement  *)
(* of RecordContract.                                                      *)
(***************************************************************************)
EXTENDS RidgeChain, TLAPS

(* The constants as the provers need them.                                 *)
LEMMA Constants ==
  /\ MaxVersion \in Nat /\ MaxVersion >= 1
  /\ SENTINEL_LEVEL \in Nat /\ MaxVersion <= SENTINEL_LEVEL
  /\ Versions \subseteq Nat /\ \A v \in Versions : v >= 1 /\ v <= MaxVersion
BY HistoryAssumption, LevelAssumption DEF Versions

-------------------------------------------------------------------------
(* Chains as sequences. *)

(* What a node has.                                                        *)
LEMMA NodeFields ==
  ASSUME NEW c \in Seq(Nodes), NEW i \in 1..Len(c)
  PROVE  /\ c[i] \in Nodes
         /\ c[i].version \in Versions /\ c[i].version \in Nat
         /\ c[i].value \in Values \cup {NoValue}
         /\ c[i].level \in Nat /\ c[i].level <= SENTINEL_LEVEL
         /\ c[i].ridge \in 0..MaxVersion
<1>1. c[i] \in Nodes
  OBVIOUS
<1>2. /\ c[i].version \in Versions /\ c[i].value \in Values \cup {NoValue}
      /\ c[i].level \in 0..SENTINEL_LEVEL /\ c[i].ridge \in 0..MaxVersion
  BY <1>1 DEF Nodes
<1>3. c[i].version \in Nat
  BY <1>2, Constants
<1>4. c[i].level \in Nat /\ c[i].level <= SENTINEL_LEVEL
  BY <1>2, Constants
<1> QED BY <1>1, <1>2, <1>3, <1>4

(* A longer chain has the shorter one below it.                            *)
LEMMA Appended ==
  ASSUME NEW c \in Seq(Nodes), NEW e \in Nodes
  PROVE  /\ Append(c, e) \in Seq(Nodes)
         /\ Len(c) \in Nat /\ Len(Append(c, e)) = Len(c) + 1
         /\ Append(c, e) # <<>>
         /\ Append(c, e)[Len(c) + 1] = e
         /\ \A i \in 1..Len(c) : Append(c, e)[i] = c[i]
OBVIOUS

(* A node with a higher version keeps the order of the chain.              *)
LEMMA AppendAscending ==
  ASSUME NEW c \in Seq(Nodes), c # <<>>, Ascending(c),
         NEW e \in Nodes, e.version > c[Len(c)].version
  PROVE  Ascending(Append(c, e))
<1> DEFINE d == Append(c, e)
<1>1. /\ Len(c) \in Nat /\ Len(c) >= 1 /\ Len(d) = Len(c) + 1 /\ d[Len(c) + 1] = e
      /\ \A i \in 1..Len(c) : d[i] = c[i]
  BY Appended
<1>2. \A i \in 1..Len(c) : c[i].version \in Nat
  BY NodeFields
<1>3. e.version \in Nat
  BY Constants DEF Nodes
<1>4. \A i \in 1..Len(c) : c[i].version >= i /\ c[i].version < e.version
  BY <1>1, <1>2, <1>3 DEF Ascending
<1>5. e.version >= Len(c) + 1
  BY <1>1, <1>2, <1>3, <1>4
<1> HIDE DEF d
<1>6. ASSUME NEW i \in 1..Len(d)
      PROVE  d[i].version >= i /\ \A j \in i+1..Len(d) : d[i].version < d[j].version
  <2>1. CASE i = Len(c) + 1
    BY <1>1, <1>5, <2>1
  <2>2. CASE i \in 1..Len(c)
    <3>1. ASSUME NEW j \in i+1..Len(d) PROVE d[i].version < d[j].version
      BY <1>1, <1>4, <2>2, <3>1 DEF Ascending
    <3> QED BY <1>1, <1>4, <2>2, <3>1
  <2> QED BY <1>1, <2>1, <2>2
<1> QED BY <1>6 DEF Ascending, d

(* ... and every snapshot still has its node.                              *)
LEMMA AppendDecisive ==
  ASSUME NEW c \in Seq(Nodes), c # <<>>, Decisive(c),
         NEW e \in Nodes
  PROVE  Decisive(Append(c, e))
<1> DEFINE d == Append(c, e)
<1>1. /\ Len(c) \in Nat /\ Len(c) >= 1 /\ Len(d) = Len(c) + 1 /\ d[Len(c) + 1] = e
      /\ \A i \in 1..Len(c) : d[i] = c[i]
  BY Appended
<1>2. e.version \in Nat
  BY Constants DEF Nodes
<1> HIDE DEF d
<1>3. ASSUME NEW s \in Versions, NEW n \in 1..Len(d), ~(d[1].version > s)
      PROVE  \E m \in 1..n : Decides(d, n, m, s)
  <2>1. CASE n \in 1..Len(c)
    <3>1. PICK m \in 1..n : Decides(c, n, m, s)
      BY <1>1, <1>3, <2>1 DEF Decisive
    <3>2. Decides(d, n, m, s)
      BY <1>1, <2>1, <3>1 DEF Decides
    <3> QED BY <3>2
  <2>2. CASE n = Len(c) + 1
    <3>1. CASE e.version <= s
      <4>1. Decides(d, n, n, s)
        BY <1>1, <2>2, <3>1 DEF Decides
      <4> QED BY <1>1, <2>2, <4>1
    <3>2. CASE ~(e.version <= s)
      <4>1. PICK m \in 1..Len(c) : Decides(c, Len(c), m, s)
        BY <1>1, <1>3 DEF Decisive
      <4>2. Decides(d, n, m, s)
        BY <1>1, <1>2, <2>2, <3>2, <4>1, Constants DEF Decides
      <4> QED BY <1>1, <2>2, <4>2
    <3> QED BY <3>1, <3>2
  <2> QED BY <1>1, <2>1, <2>2
<1> QED BY <1>3 DEF Decisive, d

-------------------------------------------------------------------------
(* What snapshots see of a chain. *)

(* The history has each node's value at its version.                       *)
LEMMA HistoryAt ==
  ASSUME NEW c \in Seq(Nodes), Ascending(c), NEW n \in 0..Len(c)
  PROVE  /\ DOMAIN HistoryTo(c, n) = {c[i].version : i \in 1..n}
         /\ \A i \in 1..n : HistoryTo(c, n)[c[i].version] = c[i].value
<1>1. DOMAIN HistoryTo(c, n) = {c[i].version : i \in 1..n}
  BY DEF HistoryTo
<1>2. ASSUME NEW i \in 1..n PROVE HistoryTo(c, n)[c[i].version] = c[i].value
  <2> DEFINE k == CHOOSE j \in 1..n : c[j].version = c[i].version
  <2>1. k \in 1..n /\ c[k].version = c[i].version
    OBVIOUS
  <2>2. k = i
    <3> HIDE DEF k
    <3>1. c[k].version \in Nat /\ c[i].version \in Nat /\ Len(c) \in Nat
      BY <2>1, NodeFields
    <3> QED BY <2>1, <3>1 DEF Ascending
  <2>3. HistoryTo(c, n)[c[i].version] = c[k].value
    BY DEF HistoryTo
  <2> QED BY <2>2, <2>3
<1> QED BY <1>1, <1>2

(* A history is a function.                                                *)
LEMMA HistoryIsFunction ==
  ASSUME NEW c, NEW n
  PROVE  HistoryTo(c, n) = [v \in DOMAIN HistoryTo(c, n) |-> HistoryTo(c, n)[v]]
<1> DEFINE D == {c[i].version : i \in 1..n}
           F(v) == c[CHOOSE i \in 1..n : c[i].version = v].value
<1>1. HistoryTo(c, n) = [v \in D |-> F(v)]
  BY DEF HistoryTo
<1> HIDE DEF D, F
<1> QED BY <1>1

(* A snapshot sees the node that decides it, or nothing.                   *)
LEMMA VisibleIs ==
  ASSUME NEW c \in Seq(Nodes), Ascending(c), NEW n \in 1..Len(c), NEW s \in Nat
  PROVE  /\ \A m : Decides(c, n, m, s) => Visible(HistoryTo(c, n), s) = c[m].value
         /\ c[1].version > s => Visible(HistoryTo(c, n), s) = NoValue
<1> DEFINE h == HistoryTo(c, n)
<1>0. Len(c) \in Nat /\ n \in 0..Len(c)
  OBVIOUS
<1>1. DOMAIN h = {c[i].version : i \in 1..n} /\ \A i \in 1..n : h[c[i].version] = c[i].value
  BY <1>0, HistoryAt
<1>2. \A i \in 1..n : c[i].version \in Nat
  BY NodeFields
<1>3. \A i, j \in 1..n : i < j => c[i].version < c[j].version
  BY <1>0 DEF Ascending
<1> HIDE DEF h
<1>4. ASSUME NEW m, Decides(c, n, m, s) PROVE Visible(h, s) = c[m].value
  <2>1. m \in 1..n /\ c[m].version <= s /\ \A k \in m+1..n : c[k].version > s
    BY <1>4 DEF Decides
  <2>2. c[m].version \in Seen(h, s)
    BY <1>1, <2>1 DEF Seen
  <2>3. \A u \in Seen(h, s) : u \in Nat /\ u <= c[m].version
    <3>1. ASSUME NEW i \in 1..n, c[i].version <= s
          PROVE  c[i].version \in Nat /\ c[i].version <= c[m].version
      BY <1>2, <1>3, <2>1, <3>1
    <3> QED BY <1>1, <3>1 DEF Seen
  <2> DEFINE v == CHOOSE v \in Seen(h, s) : \A u \in Seen(h, s) : u <= v
  <2>4. v \in Seen(h, s) /\ \A u \in Seen(h, s) : u <= v
    BY <2>2, <2>3
  <2>5. v = c[m].version
    <3> HIDE DEF v
    <3> QED BY <2>2, <2>3, <2>4
  <2>6. Visible(h, s) = h[v]
    BY <2>2 DEF Visible
  <2> QED BY <1>1, <2>1, <2>5, <2>6
<1>5. ASSUME c[1].version > s PROVE Visible(h, s) = NoValue
  <2>1. \A i \in 1..n : c[i].version > s
    BY <1>2, <1>3, <1>5
  <2>2. Seen(h, s) = {}
    BY <1>1, <1>2, <2>1 DEF Seen
  <2> QED BY <2>2 DEF Visible
<1> QED BY <1>4, <1>5 DEF h

(* Nodes above the snapshot do not matter.                                 *)
LEMMA VisibleBelow ==
  ASSUME NEW c \in Seq(Nodes), Ascending(c), Decisive(c), NEW n \in 1..Len(c),
         NEW k \in 1..n, NEW s \in Versions, \A i \in k+1..n : c[i].version > s
  PROVE  Visible(HistoryTo(c, n), s) = Visible(HistoryTo(c, k), s)
<1>1. s \in Nat /\ k \in 1..Len(c)
  BY Constants
<1>2. CASE c[1].version > s
  BY <1>1, <1>2, VisibleIs
<1>3. CASE ~(c[1].version > s)
  <2>1. PICK m \in 1..k : Decides(c, k, m, s)
    BY <1>1, <1>3 DEF Decisive
  <2>2. Decides(c, n, m, s)
    BY <2>1 DEF Decides
  <2> QED BY <1>1, <2>1, <2>2, VisibleIs
<1> QED BY <1>2, <1>3

(* A new node does not change what the older ones tell ...                 *)
LEMMA HistoryBelow ==
  ASSUME NEW c \in Seq(Nodes), NEW e \in Nodes, NEW n \in 0..Len(c)
  PROVE  HistoryTo(Append(c, e), n) = HistoryTo(c, n)
<1> DEFINE d == Append(c, e)
           D(q) == {q[i].version : i \in 1..n}
           F(q, v) == q[CHOOSE i \in 1..n : q[i].version = v].value
<1>1. \A i \in 1..n : d[i] = c[i]
  BY Appended
<1> HIDE DEF d
<1>2. D(d) = D(c)
  BY <1>1
<1>3. ASSUME NEW v \in D(c) PROVE F(d, v) = F(c, v)
  <2> DEFINE k == CHOOSE i \in 1..n : c[i].version = v
  <2>1. k \in 1..n
    OBVIOUS
  <2>2. k = CHOOSE i \in 1..n : d[i].version = v
    BY <1>1
  <2>3. d[k] = c[k]
    BY <1>1, <2>1
  <2> HIDE DEF k
  <2>4. F(d, v) = d[k].value
    BY <2>2
  <2>5. F(c, v) = c[k].value
    BY DEF k
  <2> QED BY <2>3, <2>4, <2>5
<1>4. HistoryTo(d, n) = [v \in D(d) |-> F(d, v)] /\ HistoryTo(c, n) = [v \in D(c) |-> F(c, v)]
  BY DEF HistoryTo
<1> HIDE DEF D, F
<1>5. HistoryTo(d, n) = HistoryTo(c, n)
  BY <1>2, <1>3, <1>4
<1> QED BY <1>5 DEF d

(* ... and adds its own value at its version.                              *)
LEMMA HistoryAbove ==
  ASSUME NEW c \in Seq(Nodes), c # <<>>, Ascending(c),
         NEW e \in Nodes, e.version > c[Len(c)].version
  PROVE  LET h == HistoryTo(c, Len(c))
         IN  /\ \A w \in DOMAIN h : w < e.version
             /\ HistoryTo(Append(c, e), Len(c) + 1)
                  = [w \in DOMAIN h \cup {e.version} |->
                       IF w = e.version THEN e.value ELSE h[w]]
<1> DEFINE d == Append(c, e)
           h == HistoryTo(c, Len(c))
           g == HistoryTo(d, Len(c) + 1)
<1>1. /\ d \in Seq(Nodes) /\ Len(c) \in Nat /\ Len(c) >= 1 /\ Len(d) = Len(c) + 1
      /\ d[Len(c) + 1] = e /\ \A i \in 1..Len(c) : d[i] = c[i]
  BY Appended
<1>2. Ascending(d)
  BY AppendAscending
<1>0. Len(c) \in 0..Len(c) /\ Len(c) + 1 \in 0..Len(d)
  BY <1>1
<1>3. /\ DOMAIN h = {c[i].version : i \in 1..Len(c)}
      /\ \A i \in 1..Len(c) : h[c[i].version] = c[i].value
  BY <1>0, HistoryAt
<1>4. /\ DOMAIN g = {d[i].version : i \in 1..Len(c) + 1}
      /\ \A i \in 1..Len(c) + 1 : g[d[i].version] = d[i].value
  BY <1>0, <1>1, <1>2, HistoryAt
<1>5. g = [w \in DOMAIN g |-> g[w]]
  BY HistoryIsFunction
<1>6. \A i \in 1..Len(c) : c[i].version \in Nat /\ c[i].version < e.version
  <2>1. \A i \in 1..Len(c) : c[i].version \in Nat
    BY NodeFields
  <2>2. e.version \in Nat
    BY Constants DEF Nodes
  <2> QED BY <1>1, <2>1, <2>2 DEF Ascending
<1> HIDE DEF d, h, g
<1>7. \A w \in DOMAIN h : w < e.version
  BY <1>3, <1>6
<1>8. DOMAIN g = DOMAIN h \cup {e.version}
  <2>1. {d[i].version : i \in 1..Len(c) + 1} = {d[i].version : i \in 1..Len(c)} \cup {e.version}
    BY <1>1
  <2>2. {d[i].version : i \in 1..Len(c)} = {c[i].version : i \in 1..Len(c)}
    BY <1>1
  <2> QED BY <1>3, <1>4, <2>1, <2>2
<1>9. g[e.version] = e.value
  BY <1>1, <1>4
<1>10. ASSUME NEW w \in DOMAIN h PROVE g[w] = h[w] /\ w # e.version
  <2>1. PICK i \in 1..Len(c) : w = c[i].version
    BY <1>3
  <2>2. g[w] = d[i].value /\ d[i] = c[i]
    <3>1. d[i] = c[i] /\ i \in 1..Len(c) + 1
      BY <1>1
    <3>2. g[d[i].version] = d[i].value
      BY <1>4, <3>1
    <3> QED BY <2>1, <3>1, <3>2
  <2>3. w < e.version /\ w \in Nat /\ e.version \in Nat
    BY <1>6, <2>1, Constants DEF Nodes
  <2> QED BY <1>3, <2>1, <2>2, <2>3
<1>11. g = [w \in DOMAIN h \cup {e.version} |->
              IF w = e.version THEN e.value ELSE h[w]]
  BY <1>5, <1>8, <1>9, <1>10
<1> QED BY <1>7, <1>11 DEF d, h, g

-------------------------------------------------------------------------
(* The invariant. *)

(* The level of a tower: one above the head, none on the sentinel.         *)
LEMMA Wrapped ==
  ASSUME NEW l \in 0..SENTINEL_LEVEL
  PROVE  (l + 1) % (SENTINEL_LEVEL + 1) = IF l = SENTINEL_LEVEL THEN 0 ELSE l + 1
<1> DEFINE m == SENTINEL_LEVEL + 1
           a == l + 1
<1>1. m \in Nat /\ m > 0 /\ a \in Nat /\ a <= m
  BY Constants
<1>2. a < m <=> l # SENTINEL_LEVEL
  BY Constants
<1>3. a = m <=> l = SENTINEL_LEVEL
  BY Constants
<1> HIDE DEF m, a
<1>4. CASE a < m
  <2>1. a % m = a
    BY <1>1, <1>4
  <2> QED BY <1>2, <1>4, <2>1 DEF m, a
<1>5. CASE a = m
  <2>1. m % m = 0
    BY <1>1
  <2> QED BY <1>3, <1>5, <2>1 DEF m, a
<1> QED BY <1>1, <1>4, <1>5

(* The initial state.                                                      *)
LEMMA InvInit == Init => RidgeInv
<1> SUFFICES ASSUME Init PROVE RidgeInv
  OBVIOUS
<1>1. PICK v \in Versions, x \in Values :
        chain = <<[version |-> v, value |-> x, level |-> SENTINEL_LEVEL, ridge |-> 0]>>
  BY DEF Init
<1> DEFINE e == [version |-> v, value |-> x, level |-> SENTINEL_LEVEL, ridge |-> 0]
<1>2. e \in Nodes
  BY Constants DEF Nodes
<1>3. chain = <<e>>
  BY <1>1
<1>4. e.version = v /\ e.level = SENTINEL_LEVEL /\ v \in Nat /\ v >= 1
  BY Constants
<1> HIDE DEF e
<1>5. chain \in Seq(Nodes) /\ chain # <<>> /\ Len(chain) = 1 /\ chain[1] = e
  BY <1>2, <1>3
<1>6. TypeOK
  <2>1. write \in Writes
    BY Constants DEF Init, NoWrite, Writes
  <2> QED BY <1>5, <2>1, Constants DEF Init, TypeOK
<1>7. Ascending(chain)
  BY <1>4, <1>5 DEF Ascending
<1>8. Decisive(chain)
  <2>1. ASSUME NEW s \in Versions, ~(v > s) PROVE Decides(chain, 1, 1, s)
    BY <1>4, <1>5, <2>1, Constants DEF Decides
  <2> QED BY <1>4, <1>5, <2>1 DEF Decisive
<1>9. TowersAreLow /\ RidgesAreNearest
  BY <1>4, <1>5 DEF TowersAreLow, RidgesAreNearest
<1> QED BY <1>6, <1>7, <1>8, <1>9
        DEF Init, RidgeInv, WriterIsAhead, WeavePassesLower

(* The chain is never too long for its towers.                             *)
LEMMA ChainIsShort ==
  ASSUME RidgeInv
  PROVE  /\ Len(chain) \in Nat /\ Len(chain) >= 1 /\ Len(chain) <= Newest.version
         /\ Newest.version \in Versions /\ Newest.level \in 0..SENTINEL_LEVEL
         /\ wpc # "idle" => /\ write.version \in Versions
                            /\ write.version > Newest.version
                            /\ Len(chain) < write.version
<1>1. chain \in Seq(Nodes) /\ Len(chain) \in Nat /\ Len(chain) >= 1
  BY DEF RidgeInv, TypeOK
<1>2. Newest.version \in Versions /\ Newest.level \in Nat /\ Newest.level <= SENTINEL_LEVEL
  BY <1>1, NodeFields DEF Newest
<1>3. Len(chain) <= Newest.version
  BY <1>1 DEF RidgeInv, Ascending, Newest
<1>4. write.version \in 0..MaxVersion
  BY DEF RidgeInv, TypeOK, Writes
<1>5. wpc # "idle" => write.version > Newest.version
  BY DEF RidgeInv, WriterIsAhead
<1> QED BY <1>1, <1>2, <1>3, <1>4, <1>5, Constants DEF Versions

(* Publishing a node that is low and well woven keeps everything.          *)
LEMMA PublishStep ==
  ASSUME RidgeInv, wpc # "idle",
         NEW l \in Nat, l <= Len(chain) - 1,
         NEW q \in 1..Len(chain), chain[q].level >= l,
         \A k \in q+1..Len(chain) : chain[k].level < l,
         Publish(l, q)
  PROVE  RidgeInv'
<1> DEFINE e == [version |-> write.version, value |-> write.value, level |-> l, ridge |-> q]
<1>1. /\ Len(chain) \in Nat /\ Len(chain) >= 1 /\ write.version \in Versions
      /\ write.version > Newest.version /\ Len(chain) < MaxVersion
  <2>1. write.version \in Versions /\ Len(chain) < write.version /\ Len(chain) \in Nat
    BY ChainIsShort
  <2>2. write.version <= MaxVersion /\ write.version \in Nat
    BY <2>1, Constants
  <2> QED BY <2>1, <2>2, ChainIsShort, Constants
<1>2. e \in Nodes
  <2>1. write.value \in Values \cup {NoValue}
    BY DEF RidgeInv, TypeOK, Writes
  <2>2. l \in 0..SENTINEL_LEVEL /\ q \in 0..MaxVersion
    BY <1>1, Constants
  <2> QED BY <1>1, <2>1, <2>2 DEF Nodes
<1>3. e.version = write.version /\ e.level = l /\ e.ridge = q
  OBVIOUS
<1>4. chain' = Append(chain, e)
  BY DEF Publish
<1> HIDE DEF e
<1>5. chain \in Seq(Nodes) /\ chain # <<>> /\ Ascending(chain) /\ Decisive(chain)
  BY DEF RidgeInv, TypeOK
<1>6. /\ chain' \in Seq(Nodes) /\ chain' # <<>> /\ Len(chain') = Len(chain) + 1
      /\ chain'[Len(chain) + 1] = e
      /\ \A i \in 1..Len(chain) : chain'[i] = chain[i]
  BY <1>2, <1>4, <1>5, Appended
<1>7. TypeOK'
  <2>1. write' \in Writes /\ wpc' = "idle"
    BY Constants DEF Publish, NoWrite, Writes
  <2>2. UNCHANGED <<asked, pos, answer>>
    BY DEF Publish
  <2> QED BY <1>6, <2>1, <2>2 DEF RidgeInv, TypeOK
<1>8. Ascending(chain')
  BY <1>1, <1>2, <1>3, <1>4, <1>5, AppendAscending DEF Newest
<1>9. Decisive(chain')
  BY <1>2, <1>4, <1>5, AppendDecisive
<1>10. TowersAreLow'
  <2>1. chain'[1].level = SENTINEL_LEVEL
    BY <1>1, <1>6 DEF RidgeInv, TowersAreLow
  <2>2. ASSUME NEW i \in 2..Len(chain') PROVE chain'[i].level <= i - 2
    <3>1. CASE i = Len(chain) + 1
      BY <1>1, <1>3, <1>6, <3>1
    <3>2. CASE i \in 2..Len(chain)
      <4>1. chain'[i] = chain[i]
        BY <1>6, <3>2
      <4> QED BY <3>2, <4>1 DEF RidgeInv, TowersAreLow
    <3> QED BY <1>1, <1>6, <3>1, <3>2
  <2> QED BY <2>1, <2>2 DEF TowersAreLow
<1>11. RidgesAreNearest'
  <2>1. ASSUME NEW i \in 2..Len(chain)
        PROVE  LET n == chain'[i]
               IN /\ n.ridge \in 1..i-1
                  /\ chain'[n.ridge].level >= n.level
                  /\ \A k \in n.ridge+1..i-1 : chain'[k].level < n.level
    <3> DEFINE n == chain[i]
    <3>1. /\ n.ridge \in 1..i-1
          /\ chain[n.ridge].level >= n.level
          /\ \A k \in n.ridge+1..i-1 : chain[k].level < n.level
      BY DEF RidgeInv, RidgesAreNearest
    <3>2. chain'[i] = n /\ n.ridge \in 1..Len(chain)
      BY <1>1, <1>6, <3>1
    <3> HIDE DEF n
    <3>3. chain'[n.ridge] = chain[n.ridge]
      BY <1>6, <3>2
    <3>4. \A k \in n.ridge+1..i-1 : k \in 1..Len(chain)
      BY <1>1, <3>2
    <3>5. \A k \in n.ridge+1..i-1 : chain'[k] = chain[k]
      BY <1>6, <3>4
    <3> QED BY <3>1, <3>2, <3>3, <3>5
  <2>2. LET n == chain'[Len(chain) + 1]
        IN /\ n.ridge \in 1..Len(chain)
           /\ chain'[n.ridge].level >= n.level
           /\ \A k \in n.ridge+1..Len(chain) : chain'[k].level < n.level
    BY <1>1, <1>3, <1>6
  <2>3. ASSUME NEW i \in 2..Len(chain')
        PROVE  LET n == chain'[i]
               IN /\ n.ridge \in 1..i-1
                  /\ chain'[n.ridge].level >= n.level
                  /\ \A k \in n.ridge+1..i-1 : chain'[k].level < n.level
    <3>1. CASE i \in 2..Len(chain)
      BY <2>1, <3>1
    <3>2. CASE i = Len(chain) + 1
      BY <1>1, <2>2, <3>2
    <3> QED BY <1>1, <1>6, <3>1, <3>2
  <2> QED BY <2>3 DEF RidgesAreNearest
<1>12. WriterIsAhead' /\ WeavePassesLower'
  BY DEF Publish, WriterIsAhead, WeavePassesLower
<1>13. \A r \in Readers : asked'[r] # 0 => pos'[r] \in 1..Len(chain')
  BY <1>1, <1>6 DEF Publish, RidgeInv
<1> QED BY <1>7, <1>8, <1>9, <1>10, <1>11, <1>12, <1>13 DEF RidgeInv

(* A step that leaves the chain alone keeps what is only about the chain.  *)
LEMMA SameChain ==
  ASSUME RidgeInv, UNCHANGED chain
  PROVE  /\ chain' \in Seq(Nodes) /\ chain' # <<>>
         /\ Ascending(chain') /\ Decisive(chain')
         /\ TowersAreLow' /\ RidgesAreNearest'
BY DEF RidgeInv, TypeOK, TowersAreLow, RidgesAreNearest

(* Weaving never runs into the sentinel, nor into a node without a ridge.  *)
LEMMA WeavingEnds ==
  ASSUME RidgeInv, wpc = "weave", chain[write.cur].level < write.level
  PROVE  /\ write.cur \in 2..Len(chain)
         /\ chain[write.cur].ridge \in 1..write.cur-1
<1>1. /\ Len(chain) \in Nat /\ Len(chain) <= SENTINEL_LEVEL /\ write.cur \in 1..Len(chain)
      /\ write.level <= Len(chain) - 1 /\ chain[1].level = SENTINEL_LEVEL
      /\ write.level \in Nat
  <2>1. Len(chain) \in Nat /\ Len(chain) <= SENTINEL_LEVEL
    <3>1. Newest.version \in Nat /\ Newest.version <= MaxVersion
      BY ChainIsShort, Constants
    <3> QED BY <3>1, ChainIsShort, Constants
  <2>2. write.level \in Nat
    BY Constants DEF RidgeInv, TypeOK, Writes
  <2> QED BY <2>1, <2>2 DEF RidgeInv, WeavePassesLower, TowersAreLow
<1>2. write.cur # 1
  BY <1>1, Constants
<1>3. write.cur \in 2..Len(chain)
  BY <1>1, <1>2
<1> QED BY <1>3 DEF RidgeInv, RidgesAreNearest

(* A walk goes on only above the sentinel, to a node further down; what it *)
(* passes is above its snapshot.                                           *)
LEMMA WalkGoesDown ==
  ASSUME RidgeInv, NEW r \in Readers, asked[r] # 0, TooNew(r)
  PROVE  /\ asked[r] \in Versions
         /\ pos[r] \in 2..Len(chain)
         /\ Hop(r) \in 1..pos[r]-1
         /\ \A i \in Hop(r)+1..pos[r] : chain[i].version > asked[r]
<1>1. /\ pos[r] \in 1..Len(chain) /\ Len(chain) \in Nat /\ chain \in Seq(Nodes)
      /\ asked[r] \in Versions
  <2>1. asked[r] \in 0..MaxVersion
    BY DEF RidgeInv, TypeOK
  <2> QED BY <2>1, Constants DEF RidgeInv, TypeOK, Versions
<1>2. chain[pos[r]].level < SENTINEL_LEVEL /\ chain[pos[r]].version > asked[r]
  BY DEF TooNew
<1>3. chain[1].level = SENTINEL_LEVEL
  BY DEF RidgeInv, TowersAreLow
<1>4. pos[r] \in 2..Len(chain)
  <2>1. pos[r] # 1
    BY <1>2, <1>3, Constants
  <2> QED BY <1>1, <2>1
<1> DEFINE q == chain[pos[r]].ridge
<1>5. q \in 1..pos[r]-1
  BY <1>4 DEF RidgeInv, RidgesAreNearest
<1>6. Hop(r) = IF q # 0 /\ chain[q].version > asked[r] THEN q ELSE pos[r] - 1
  BY DEF Hop
<1> HIDE DEF q
<1>7. asked[r] \in Nat /\ \A i \in 1..Len(chain) : chain[i].version \in Nat
  BY <1>1, NodeFields, Constants
<1>8. CASE chain[q].version > asked[r]
  <2>1. Hop(r) = q
    BY <1>4, <1>5, <1>6, <1>8
  <2>2. \A i \in q+1..pos[r] : chain[q].version < chain[i].version
    BY <1>1, <1>4, <1>5 DEF RidgeInv, Ascending
  <2>3. ASSUME NEW i \in q+1..pos[r] PROVE chain[i].version > asked[r]
    <3>1. /\ chain[i].version \in Nat /\ chain[q].version \in Nat
      BY <1>1, <1>4, <1>5, <1>7
    <3>2. chain[q].version < chain[i].version
      BY <2>2
    <3> QED BY <1>7, <1>8, <3>1, <3>2
  <2> QED BY <1>1, <1>4, <1>5, <2>1, <2>3
<1>9. CASE ~(chain[q].version > asked[r])
  <2>1. Hop(r) = pos[r] - 1
    BY <1>6, <1>9
  <2>2. \A i \in Hop(r)+1..pos[r] : i = pos[r]
    BY <1>4, <2>1
  <2>3. Hop(r) \in 1..pos[r]-1
    BY <1>4, <2>1
  <2> QED BY <1>1, <1>2, <1>4, <2>2, <2>3
<1> QED BY <1>8, <1>9

(* Every action keeps the invariant: the writer's ...                      *)
LEMMA WriterStep ==
  ASSUME RidgeInv, Writer
  PROVE  RidgeInv'
<1>0. /\ Len(chain) \in Nat /\ Len(chain) >= 1 /\ Newest.level \in 0..SENTINEL_LEVEL
      /\ Newest = chain[Len(chain)]
  BY ChainIsShort DEF Newest
<1>1. CASE DeleteDead
  <2>1. UNCHANGED <<chain, asked, pos, answer>> /\ wpc' = "idle" /\ write' \in Writes
    BY <1>1, Constants DEF DeleteDead, NoWrite, Writes
  <2> QED BY <2>1, SameChain DEF RidgeInv, TypeOK, WriterIsAhead, WeavePassesLower
<1>2. CASE AppendNext
  <2>1. Newest.level >= FLAT_LEVEL /\ FLAT_LEVEL <= Len(chain) - 1 /\ FLAT_LEVEL \in Nat
    BY <1>0 DEF FLAT_LEVEL
  <2>2. wpc # "idle" /\ Publish(FLAT_LEVEL, Len(chain))
    BY <1>2 DEF AppendNext, Appending
  <2> QED BY <1>0, <2>1, <2>2, PublishStep
<1>3. CASE AppendTower
  <2> DEFINE l == (Newest.level + 1) % (SENTINEL_LEVEL + 1)
  <2>1. l \in 0..SENTINEL_LEVEL /\ l <= Len(chain) - 1
    <3>1. l = IF Newest.level = SENTINEL_LEVEL THEN 0 ELSE Newest.level + 1
      BY <1>0, Wrapped
    <3>2. Len(chain) >= 2 => Newest.level <= Len(chain) - 2
      BY <1>0 DEF RidgeInv, TowersAreLow
    <3>3. Len(chain) = 1 => Newest.level = SENTINEL_LEVEL
      BY <1>0 DEF RidgeInv, TowersAreLow
    <3> HIDE DEF l
    <3>4. SENTINEL_LEVEL \in Nat
      BY Constants
    <3>5. CASE Newest.level = SENTINEL_LEVEL
      BY <1>0, <3>1, <3>4, <3>5
    <3>6. CASE Newest.level # SENTINEL_LEVEL
      <4> DEFINE top == Newest.level
                 len == Len(chain)
      <4>1. /\ top \in 0..SENTINEL_LEVEL /\ top # SENTINEL_LEVEL /\ l = top + 1
            /\ len \in Nat /\ len >= 1 /\ len # 1 /\ (len >= 2 => top <= len - 2)
        BY <1>0, <3>1, <3>2, <3>3, <3>6
      <4> HIDE DEF top, len
      <4>2. l \in 0..SENTINEL_LEVEL /\ l <= len - 1
        BY <3>4, <4>1
      <4> QED BY <4>2 DEF len
    <3> QED BY <3>5, <3>6
  <2>2. Len(chain) \in 0..MaxVersion
    <3>1. Newest.version \in Nat /\ Newest.version <= MaxVersion
      BY ChainIsShort, Constants
    <3> QED BY <3>1, ChainIsShort, Constants
  <2> HIDE DEF l
  <2>3. /\ write' = [write EXCEPT !.level = l, !.cur = Len(chain)]
        /\ wpc' = "weave" /\ wpc # "idle" /\ UNCHANGED <<chain, asked, pos, answer>>
    BY <1>3 DEF AppendTower, Appending, l
  <2>4. /\ write' \in Writes /\ write'.version = write.version
        /\ write'.level = l /\ write'.cur = Len(chain)
    BY <2>1, <2>2, <2>3 DEF RidgeInv, TypeOK, Writes
  <2>5. WriterIsAhead' /\ WeavePassesLower'
    BY <1>0, <2>1, <2>3, <2>4 DEF RidgeInv, WriterIsAhead, WeavePassesLower, Newest
  <2> QED BY <2>3, <2>4, <2>5, SameChain DEF RidgeInv, TypeOK
<1>4. CASE Weave
  <2> DEFINE q == chain[write.cur].ridge
             l == chain[write.cur].level
  <2>1. wpc = "weave" /\ l < write.level
    BY <1>4 DEF Weave
  <2>2. write.cur \in 2..Len(chain) /\ q \in 1..write.cur-1
    BY <2>1, WeavingEnds
  <2>3. \A k \in q+1..write.cur-1 : chain[k].level < l
    BY <2>2 DEF RidgeInv, RidgesAreNearest
  <2>4. \A k \in write.cur+1..Len(chain) : chain[k].level < write.level
    BY <2>1 DEF RidgeInv, WeavePassesLower
  <2>5. \A k \in 1..Len(chain) : chain[k].level \in Nat
    BY NodeFields DEF RidgeInv, TypeOK
  <2>6. write.level \in Nat /\ write.level <= Len(chain) - 1
    BY <2>1, Constants DEF RidgeInv, TypeOK, Writes, WeavePassesLower
  <2>7. q \in 0..MaxVersion
    <3>1. chain \in Seq(Nodes) /\ write.cur \in 1..Len(chain)
      BY <1>0, <2>2 DEF RidgeInv, TypeOK
    <3> QED BY <3>1, NodeFields
  <2>8. /\ write' = [write EXCEPT !.cur = q]
        /\ UNCHANGED <<chain, wpc, asked, pos, answer>>
    BY <1>4 DEF Weave
  <2>9. /\ write' \in Writes /\ write'.version = write.version
        /\ write'.level = write.level /\ write'.cur = q
    BY <2>7, <2>8 DEF RidgeInv, TypeOK, Writes
  <2> HIDE DEF q
  <2>10. ASSUME NEW k \in q+1..Len(chain) PROVE chain[k].level < write.level
    <3>1. k \in 1..Len(chain) /\ chain[k].level \in Nat /\ l \in Nat
      <4>1. k \in 1..Len(chain) /\ write.cur \in 1..Len(chain)
        BY <1>0, <2>2
      <4> QED BY <2>5, <4>1
    <3>2. CASE k \in q+1..write.cur-1
      BY <2>1, <2>3, <2>6, <3>1, <3>2
    <3>3. CASE k = write.cur
      BY <2>1, <3>3
    <3>4. CASE k \in write.cur+1..Len(chain)
      BY <2>4, <3>4
    <3> QED BY <2>2, <3>1, <3>2, <3>3, <3>4
  <2>11. WriterIsAhead' /\ WeavePassesLower'
    BY <1>0, <2>1, <2>2, <2>6, <2>8, <2>9, <2>10
       DEF RidgeInv, WriterIsAhead, WeavePassesLower, Newest
  <2> QED BY <2>8, <2>9, <2>11, SameChain DEF RidgeInv, TypeOK
<1>5. CASE PublishTower
  <2>1. wpc # "idle" /\ Publish(write.level, write.cur)
        /\ chain[write.cur].level >= write.level
    BY <1>5 DEF PublishTower
  <2>2. /\ write.level \in Nat /\ write.level <= Len(chain) - 1 /\ write.cur \in 1..Len(chain)
        /\ \A k \in write.cur+1..Len(chain) : chain[k].level < write.level
    BY <1>5, Constants DEF PublishTower, RidgeInv, TypeOK, Writes, WeavePassesLower
  <2> QED BY <2>1, <2>2, PublishStep
<1> QED BY <1>1, <1>2, <1>3, <1>4, <1>5 DEF Writer

(* ... and the readers'.                                                   *)
LEMMA ReaderStep ==
  ASSUME RidgeInv, NEW r \in Readers, (\E s \in Versions : Ask(r, s)) \/ Reader(r)
  PROVE  RidgeInv'
<1>0. /\ Len(chain) \in 1..MaxVersion
  <2>1. Newest.version \in Nat /\ Newest.version <= MaxVersion
    BY ChainIsShort, Constants
  <2> QED BY <2>1, ChainIsShort, Constants
<1>1. UNCHANGED <<chain, wpc, write>>
  BY DEF Ask, Reader, Walk, Answer
<1>2. WriterIsAhead' /\ WeavePassesLower'
  BY <1>1 DEF RidgeInv, WriterIsAhead, WeavePassesLower, Newest
<1>3. CASE \E s \in Versions : Ask(r, s)
  <2>1. PICK s \in Versions : Ask(r, s)
    BY <1>3
  <2>2. TypeOK'
    BY <1>0, <1>1, <2>1, Constants DEF Ask, RidgeInv, TypeOK, Versions
  <2>3. \A q \in Readers : asked'[q] # 0 => pos'[q] \in 1..Len(chain')
    BY <1>0, <1>1, <2>1 DEF Ask, RidgeInv, TypeOK
  <2> QED BY <1>1, <1>2, <2>2, <2>3, SameChain DEF RidgeInv
<1>4. CASE Walk(r)
  <2>1. asked[r] # 0 /\ TooNew(r)
    BY <1>4 DEF Walk
  <2>2. pos[r] \in 2..Len(chain) /\ Hop(r) \in 1..pos[r]-1
    BY <2>1, WalkGoesDown
  <2>3. Hop(r) \in 1..Len(chain) /\ Hop(r) \in 0..MaxVersion
    <3> DEFINE h == Hop(r)
    <3>1. h \in 1..pos[r]-1 /\ pos[r] \in 2..Len(chain)
      BY <2>2
    <3>2. MaxVersion \in Nat
      BY Constants
    <3> HIDE DEF h
    <3>3. h \in 1..Len(chain) /\ h \in 0..MaxVersion
      BY <1>0, <3>1, <3>2
    <3> QED BY <3>3 DEF h
  <2>4. /\ pos' = [pos EXCEPT ![r] = Hop(r)]
        /\ UNCHANGED <<asked, answer>>
    BY <1>4 DEF Walk
  <2>5. TypeOK'
    BY <1>1, <2>3, <2>4 DEF RidgeInv, TypeOK
  <2>6. \A q \in Readers : asked'[q] # 0 => pos'[q] \in 1..Len(chain')
    BY <1>1, <2>3, <2>4 DEF RidgeInv, TypeOK
  <2> QED BY <1>1, <1>2, <2>5, <2>6, SameChain DEF RidgeInv
<1>5. CASE Answer(r)
  <2>1. answer' \in [Readers -> Values \cup {NoValue}]
    <3>1. asked[r] # 0
      BY <1>5 DEF Answer
    <3>2. chain \in Seq(Nodes) /\ pos[r] \in 1..Len(chain)
      BY <3>1 DEF RidgeInv, TypeOK
    <3>3. chain[pos[r]].value \in Values \cup {NoValue}
      BY <3>2, NodeFields
    <3> QED BY <1>5, <3>3 DEF Answer, RidgeInv, TypeOK
  <2>2. TypeOK'
    BY <1>1, <1>5, <2>1, Constants DEF Answer, RidgeInv, TypeOK
  <2>3. \A q \in Readers : asked'[q] # 0 => pos'[q] \in 1..Len(chain')
    BY <1>1, <1>5 DEF Answer, RidgeInv, TypeOK
  <2> QED BY <1>1, <1>2, <2>2, <2>3, SameChain DEF RidgeInv
<1> QED BY <1>3, <1>4, <1>5 DEF Reader

(* A writer that begins is ahead of the chain.                             *)
LEMMA BeginStep ==
  ASSUME RidgeInv, NEW v \in Versions, NEW x \in Values \cup {NoValue}, Begin(v, x)
  PROVE  RidgeInv'
<1>1. /\ write' = [NoWrite EXCEPT !.version = v, !.value = x]
      /\ wpc' = "begun" /\ v > Newest.version
      /\ UNCHANGED <<chain, asked, pos, answer>>
  BY DEF Begin
<1>2. write' \in Writes /\ write'.version = v
  <2>1. write' = [version |-> v, value |-> x, level |-> 0, cur |-> 0]
    BY <1>1 DEF NoWrite
  <2>2. v \in 0..MaxVersion /\ 0 \in 0..SENTINEL_LEVEL /\ 0 \in 0..MaxVersion
    BY Constants DEF Versions
  <2> QED BY <2>1, <2>2 DEF Writes
<1>3. WriterIsAhead' /\ WeavePassesLower'
  BY <1>1, <1>2 DEF WriterIsAhead, WeavePassesLower, Newest
<1> QED BY <1>1, <1>2, <1>3, SameChain DEF RidgeInv, TypeOK

(* RidgeInv is an invariant of the chain.                                  *)
THEOREM Invariance == Spec => []RidgeInv
<1>1. ASSUME RidgeInv, [Next]_vars PROVE RidgeInv'
  <2>1. CASE Next
    BY <1>1, <2>1, BeginStep, WriterStep, ReaderStep DEF Next
  <2>2. CASE UNCHANGED vars
    <3>1. UNCHANGED <<chain, wpc, write, asked, pos, answer>>
      BY <2>2 DEF vars
    <3> QED BY <1>1, <3>1, SameChain
            DEF RidgeInv, TypeOK, WriterIsAhead, WeavePassesLower, Newest
  <2> QED BY <1>1, <2>1, <2>2
<1> QED BY InvInit, <1>1, PTL DEF Spec

(* Chain, writer and walks keep their types; in particular levels stay     *)
(* within their width.                                                     *)
THEOREM TypeCorrect == Spec => []TypeOK
<1>1. RidgeInv => TypeOK
  BY DEF RidgeInv
<1> QED BY <1>1, Invariance, PTL

(* Every ridge leads to the nearest older node that is at least as high.   *)
THEOREM Nearest == Spec => []RidgesAreNearest
<1>1. RidgeInv => RidgesAreNearest
  BY DEF RidgeInv
<1> QED BY <1>1, Invariance, PTL

(* The weaving of a tower never misses a ridge, and no walk a next link.   *)
THEOREM LinksHold == Spec => []NoBrokenLink
<1>1. RidgeInv => NoBrokenLink
  <2> SUFFICES ASSUME RidgeInv PROVE NoBrokenLink
    OBVIOUS
  <2>1. ASSUME wpc = "weave", chain[write.cur].level < write.level
        PROVE  chain[write.cur].ridge # 0
    <3>1. chain[write.cur].ridge \in 1..write.cur-1 /\ write.cur \in 2..Len(chain)
      BY <2>1, WeavingEnds
    <3> QED BY <3>1
  <2>2. ASSUME NEW r \in Readers, asked[r] # 0, TooNew(r) PROVE pos[r] > 1
    <3>1. pos[r] \in 2..Len(chain)
      BY <2>2, WalkGoesDown
    <3> QED BY <3>1
  <2> QED BY <2>1, <2>2 DEF NoBrokenLink
<1> QED BY <1>1, Invariance, PTL

-------------------------------------------------------------------------
(* The refinement of RecordContract. *)

(* The refinement mapping: what the record has been, and what each walk    *)
(* will find.                                                              *)
History == HistoryTo(chain, Len(chain))

Due == [r \in Readers |->
          IF asked[r] = 0 THEN NoValue ELSE Visible(HistoryTo(chain, pos[r]), asked[r])]

(* A new chain is a history of one version.                                *)
LEMMA StartsAsContract ==
  ASSUME Init
  PROVE  /\ \E v \in Versions, x \in Values : History = [w \in {v} |-> x]
         /\ asked = [r \in Readers |-> 0]
         /\ Due = [r \in Readers |-> NoValue]
         /\ answer = [r \in Readers |-> NoValue]
<1>1. PICK v \in Versions, x \in Values :
        chain = <<[version |-> v, value |-> x, level |-> SENTINEL_LEVEL, ridge |-> 0]>>
  BY DEF Init
<1>2. Len(chain) = 1 /\ chain[1].version = v /\ chain[1].value = x
  BY <1>1
<1>3. chain \in Seq(Nodes) /\ Ascending(chain)
  BY InvInit DEF RidgeInv, TypeOK
<1>4. /\ DOMAIN History = {chain[i].version : i \in 1..1}
      /\ History[chain[1].version] = chain[1].value
  <2>1. 1 \in 0..Len(chain) /\ 1 \in 1..1
    BY <1>2
  <2>2. /\ DOMAIN HistoryTo(chain, 1) = {chain[i].version : i \in 1..1}
        /\ \A i \in 1..1 : HistoryTo(chain, 1)[chain[i].version] = chain[i].value
    BY <1>3, <2>1, HistoryAt
  <2> QED BY <1>2, <2>1, <2>2 DEF History
<1>5. DOMAIN History = {v} /\ History[v] = x
  BY <1>2, <1>4
<1>6. History = [w \in DOMAIN History |-> History[w]]
  BY HistoryIsFunction DEF History
<1>7. History = [w \in {v} |-> x]
  BY <1>5, <1>6
<1> QED BY <1>7 DEF Init, Due

(* Publishing a node is a write of the contract: walks in progress keep    *)
(* what they will find.                                                    *)
LEMMA PublishIsWrite ==
  ASSUME RidgeInv, wpc # "idle", NEW l, NEW q, Publish(l, q),
         [version |-> write.version, value |-> write.value, level |-> l, ridge |-> q] \in Nodes
  PROVE  /\ write.version \in Versions /\ write.value \in Values \cup {NoValue}
         /\ \A w \in DOMAIN History : w < write.version
         /\ History' = [w \in DOMAIN History \cup {write.version} |->
                          IF w = write.version THEN write.value ELSE History[w]]
         /\ Due' = Due /\ UNCHANGED <<asked, answer>>
<1> DEFINE e == [version |-> write.version, value |-> write.value, level |-> l, ridge |-> q]
<1>1. /\ chain \in Seq(Nodes) /\ chain # <<>> /\ Ascending(chain) /\ Len(chain) \in Nat
      /\ write.value \in Values \cup {NoValue}
  BY DEF RidgeInv, TypeOK, Writes
<1>2. /\ e \in Nodes /\ e.version = write.version /\ e.value = write.value
      /\ chain' = Append(chain, e) /\ UNCHANGED <<asked, pos, answer>>
  BY DEF Publish
<1> HIDE DEF e
<1>3. write.version \in Versions /\ e.version > chain[Len(chain)].version
  BY <1>2, ChainIsShort DEF Newest
<1>4. Len(chain') = Len(chain) + 1
  BY <1>1, <1>2, Appended
<1>5. /\ \A w \in DOMAIN History : w < e.version
      /\ HistoryTo(Append(chain, e), Len(chain) + 1)
           = [w \in DOMAIN History \cup {e.version} |->
                IF w = e.version THEN e.value ELSE History[w]]
  BY <1>1, <1>2, <1>3, HistoryAbove DEF History
<1>6. History' = HistoryTo(Append(chain, e), Len(chain) + 1)
  BY <1>2, <1>4 DEF History
<1>7. Due' = Due
  <2>1. ASSUME NEW r \in Readers, asked[r] # 0
        PROVE  HistoryTo(chain', pos[r]) = HistoryTo(chain, pos[r])
    <3>1. pos[r] \in 0..Len(chain)
      BY <1>1, <2>1 DEF RidgeInv
    <3> QED BY <1>1, <1>2, <3>1, HistoryBelow
  <2> QED BY <1>2, <2>1 DEF Due
<1> QED BY <1>1, <1>2, <1>3, <1>5, <1>6, <1>7

(* A walk never loses what it will find.                                   *)
LEMMA WalkIsSilent ==
  ASSUME RidgeInv, NEW r \in Readers, Walk(r)
  PROVE  UNCHANGED <<History, asked, Due, answer>>
<1>1. /\ asked[r] # 0 /\ TooNew(r) /\ pos' = [pos EXCEPT ![r] = Hop(r)]
      /\ UNCHANGED <<chain, asked, answer>>
  BY DEF Walk
<1>2. /\ chain \in Seq(Nodes) /\ Ascending(chain) /\ Decisive(chain)
      /\ pos \in [Readers -> 0..MaxVersion]
  BY DEF RidgeInv, TypeOK
<1>3. /\ asked[r] \in Versions /\ pos[r] \in 2..Len(chain) /\ Hop(r) \in 1..pos[r]-1
      /\ \A i \in Hop(r)+1..pos[r] : chain[i].version > asked[r]
  BY <1>1, WalkGoesDown
<1>4. pos[r] \in 1..Len(chain) /\ Hop(r) \in 1..pos[r]
  <2> DEFINE h == Hop(r)
  <2>1. h \in 1..pos[r]-1 /\ pos[r] \in 2..Len(chain)
    BY <1>3
  <2> HIDE DEF h
  <2>2. pos[r] \in 1..Len(chain) /\ h \in 1..pos[r]
    BY <2>1
  <2> QED BY <2>2 DEF h
<1>5. Visible(HistoryTo(chain, pos[r]), asked[r]) = Visible(HistoryTo(chain, Hop(r)), asked[r])
  BY <1>2, <1>3, <1>4, VisibleBelow
<1>6. Due' = Due
  <2>1. pos'[r] = Hop(r) /\ \A q \in Readers \ {r} : pos'[q] = pos[q]
    BY <1>1, <1>2
  <2> QED BY <1>1, <1>5, <2>1 DEF Due
<1> QED BY <1>1, <1>6 DEF History

(* What is answered is what was due.                                       *)
LEMMA AnswerIsDue ==
  ASSUME RidgeInv, NEW r \in Readers, asked[r] # 0, ~TooNew(r)
  PROVE  Due[r] = IF chain[pos[r]].version <= asked[r] THEN chain[pos[r]].value ELSE NoValue
<1> DEFINE p == pos[r]
           s == asked[r]
<1>1. /\ chain \in Seq(Nodes) /\ Ascending(chain) /\ Len(chain) \in Nat
      /\ p \in 1..Len(chain) /\ s \in Nat
  BY Constants DEF RidgeInv, TypeOK
<1>2. Due[r] = Visible(HistoryTo(chain, p), s)
  BY DEF Due
<1>3. CASE chain[p].version <= s
  <2>1. Decides(chain, p, p, s)
    BY <1>1, <1>3 DEF Decides
  <2> QED BY <1>1, <1>2, <1>3, <2>1, VisibleIs
<1>4. CASE ~(chain[p].version <= s)
  <2>1. chain[p].version \in Nat /\ chain[p].level \in Nat
    BY <1>1, NodeFields
  <2>2. ~(chain[p].level < SENTINEL_LEVEL) /\ chain[p].version > s
    BY <1>1, <1>4, <2>1 DEF TooNew
  <2>3. Len(chain) <= SENTINEL_LEVEL
    <3>1. Newest.version \in Nat /\ Newest.version <= MaxVersion
      BY ChainIsShort, Constants
    <3> QED BY <3>1, ChainIsShort, Constants
  <2>4. p \notin 2..Len(chain)
    <3>1. ASSUME p \in 2..Len(chain) PROVE chain[p].level <= p - 2
      BY <3>1 DEF RidgeInv, TowersAreLow
    <3> HIDE DEF p
    <3> QED BY <1>1, <2>1, <2>2, <2>3, <3>1, Constants
  <2>5. p = 1
    BY <1>1, <2>4
  <2> QED BY <1>1, <1>2, <1>4, <2>2, <2>5, VisibleIs
<1> QED BY <1>3, <1>4

(* The chain keeps the contract: under any writer, a read answers with the *)
(* state of the record at its snapshot as it was when the read began.      *)
THEOREM Refinement == Spec => ImplementsRecordContract
<1>1. Init => Contract!Init
  BY StartsAsContract DEF Contract!Init, Contract!Versions, Versions, History, Due,
     Contract!Visible, Visible, Contract!Seen, Seen
<1>2. ASSUME RidgeInv, [Next]_vars PROVE [Contract!Next]_(Contract!vars)
  <2>1. CASE UNCHANGED <<chain, asked, pos, answer>>
    BY <2>1 DEF Contract!vars
  <2>2. ASSUME wpc # "idle", NEW l, NEW q, Publish(l, q), RidgeInv' PROVE Contract!Next
    <3> DEFINE e == [version |-> write.version, value |-> write.value, level |-> l, ridge |-> q]
    <3>1. e \in Nodes
      <4>1. chain' = Append(chain, e) /\ chain \in Seq(Nodes) /\ chain' \in Seq(Nodes)
        BY <1>2, <2>2 DEF Publish, RidgeInv, TypeOK
      <4> HIDE DEF e
      <4>2. chain'[Len(chain')] = e /\ Len(chain') \in 1..Len(chain')
        BY <4>1
      <4> QED BY <4>1, <4>2, NodeFields
    <3>2. Contract!Write(write.version, write.value)
      BY <1>2, <2>2, <3>1, PublishIsWrite
         DEF Contract!Write, History, Due, Contract!Visible, Visible, Contract!Seen, Seen
    <3> QED BY <1>2, <2>2, <3>1, <3>2, PublishIsWrite DEF Contract!Next, Contract!Versions, Versions
  <2>3. ASSUME NEW r \in Readers, NEW s \in Versions, Ask(r, s) PROVE Contract!Next
    <3>1. /\ asked[r] = 0 /\ asked' = [asked EXCEPT ![r] = s]
          /\ pos' = [pos EXCEPT ![r] = Len(chain)] /\ UNCHANGED <<chain, answer>>
          /\ s # 0 /\ asked \in [Readers -> 0..MaxVersion] /\ pos \in [Readers -> 0..MaxVersion]
      BY <1>2, <2>3, Constants DEF Ask, RidgeInv, TypeOK
    <3>2. Due' = [Due EXCEPT ![r] = Visible(History, s)]
      BY <3>1 DEF Due, History
    <3>3. Contract!Ask(r, s)
      BY <3>1, <3>2 DEF Contract!Ask, History, Due, Contract!Visible, Visible, Contract!Seen, Seen
    <3> QED BY <3>3 DEF Contract!Next, Contract!Versions, Versions
  <2>4. ASSUME NEW r \in Readers, Walk(r) PROVE UNCHANGED Contract!vars
    BY <1>2, <2>4, WalkIsSilent
       DEF Contract!vars, History, Due, Contract!Visible, Visible, Contract!Seen, Seen
  <2>5. ASSUME NEW r \in Readers, Answer(r) PROVE Contract!Next
    <3>1. /\ asked[r] # 0 /\ ~TooNew(r) /\ asked' = [asked EXCEPT ![r] = 0]
          /\ pos' = [pos EXCEPT ![r] = 0] /\ UNCHANGED chain
          /\ asked \in [Readers -> 0..MaxVersion] /\ pos \in [Readers -> 0..MaxVersion]
      BY <1>2, <2>5 DEF Answer, RidgeInv, TypeOK
    <3>2. answer' = [answer EXCEPT ![r] = Due[r]]
      BY <1>2, <2>5, <3>1, AnswerIsDue DEF Answer
    <3>3. Due' = [Due EXCEPT ![r] = NoValue]
      BY <3>1 DEF Due
    <3>4. History' = History
      BY <3>1 DEF History
    <3>5. Contract!Answer(r)
      BY <3>1, <3>2, <3>3, <3>4
         DEF Contract!Answer, History, Due, Contract!Visible, Visible, Contract!Seen, Seen
    <3> QED BY <3>5 DEF Contract!Next
  <2>6. CASE Writer
    <3>1. CASE DeleteDead \/ AppendTower \/ Weave
      BY <2>1, <3>1 DEF DeleteDead, AppendTower, Weave
    <3>2. RidgeInv'
      BY <1>2, <2>6, WriterStep
    <3>3. CASE AppendNext
      BY <2>2, <3>2, <3>3 DEF AppendNext, Appending
    <3>4. CASE PublishTower
      BY <2>2, <3>2, <3>4 DEF PublishTower
    <3> QED BY <2>6, <3>1, <3>3, <3>4 DEF Writer
  <2>7. CASE \E v \in Versions, x \in Values \cup {NoValue} : Begin(v, x)
    BY <2>1, <2>7 DEF Begin
  <2>8. CASE UNCHANGED vars
    BY <2>1, <2>8 DEF vars
  <2> QED BY <1>2, <2>3, <2>4, <2>5, <2>6, <2>7, <2>8 DEF Next, Reader
<1> QED BY <1>1, <1>2, Invariance, PTL DEF Spec, ImplementsRecordContract, Contract!Spec

=========================================================================
