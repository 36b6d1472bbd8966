----------------------- MODULE StampedChainProofs -----------------------
(***************************************************************************)
(* Proofs about StampedChain, for any readers and values and any bound on  *)
(* versions: the inductive invariant StampInv, the disjointness of life    *)
(* spans, and the refinement of RecordContract.                            *)
(***************************************************************************)
EXTENDS StampedChain, TLAPS

(* Versions as the provers need them.                                      *)
LEMMA Constants ==
  /\ MaxVersion \in Nat /\ MaxVersion >= 1
  /\ NoDel \in Nat /\ NoDel = MaxVersion + 1
  /\ \A v : v \in Versions <=> v \in Nat /\ 1 <= v /\ v <= MaxVersion
BY HistoryAssumption DEF Versions, NoDel

-------------------------------------------------------------------------
(* Chains of stamped nodes, as values. *)

(* Every node ends after it began, and no later than any later one begins. *)
Spans(c) ==
  \A i \in 1..Len(c) :
    /\ c[i].version < c[i].del
    /\ \A j \in i+1..Len(c) : c[i].del <= c[j].version

(* The newest node that began in time for snapshot s, if there is one.     *)
IsLast(c, i, s) ==
  c[i].version <= s /\ \A j \in i+1..Len(c) : c[j].version > s

Decisive(c) ==
  \A s \in Versions : c[1].version > s \/ \E i \in 1..Len(c) : IsLast(c, i, s)

(* The node is alive for the snapshot: what Matches asks of it.            *)
Alive(c, i, s) == c[i].version <= s /\ s < c[i].del

(* The history of a chain, without the ends in p.                          *)
StartsOf(c)  == {c[i].version : i \in 1..Len(c)}
EndsOf(c, p) == {c[i].del : i \in 1..Len(c)} \ ({NoDel} \cup p)

HistoryOf(c, p) ==
  [v \in StartsOf(c) \cup EndsOf(c, p) |->
     IF v \in StartsOf(c)
       THEN c[CHOOSE i \in 1..Len(c) : c[i].version = v].value
       ELSE NoValue]

(* What a node has.                                                        *)
LEMMA NodeFields ==
  ASSUME NEW c \in Seq(Nodes), NEW i \in 1..Len(c)
  PROVE  /\ c[i] \in Nodes
         /\ c[i].version \in Nat /\ 1 <= c[i].version /\ c[i].version <= MaxVersion
         /\ c[i].value \in Values
         /\ c[i].del \in Nat /\ 1 <= c[i].del /\ c[i].del <= NoDel
<1>1. c[i] \in Nodes
  OBVIOUS
<1>2. c[i].version \in Versions /\ c[i].value \in Values /\ c[i].del \in 1..NoDel
  BY <1>1 DEF Nodes
<1> QED BY <1>1, <1>2, Constants

(* Nodes with disjoint life spans have versions of their own.              *)
LEMMA SpansAscend ==
  ASSUME NEW c \in Seq(Nodes), Spans(c), NEW i \in 1..Len(c), NEW j \in 1..Len(c)
  PROVE  /\ i < j => c[i].version < c[j].version
         /\ c[i].version = c[j].version => i = j
<1>1. \A k \in 1..Len(c) : c[k].version \in Nat /\ c[k].del \in Nat
  BY NodeFields
<1>2. Len(c) \in Nat
  OBVIOUS
<1>3. ASSUME NEW a \in 1..Len(c), NEW b \in 1..Len(c), a < b PROVE c[a].version < c[b].version
  <2>1. b \in a+1..Len(c)
    BY <1>2, <1>3
  <2>2. c[a].version < c[a].del /\ c[a].del <= c[b].version
    BY <2>1 DEF Spans
  <2> QED BY <1>1, <2>2
<1>4. i < j \/ j < i \/ i = j
  BY <1>2
<1> QED BY <1>1, <1>3, <1>4

(* The history has each node's value at its version, and nothing at ends.  *)
LEMMA HistoryAt ==
  ASSUME NEW c \in Seq(Nodes), Spans(c), NEW p
  PROVE  /\ DOMAIN HistoryOf(c, p) = StartsOf(c) \cup EndsOf(c, p)
         /\ DOMAIN HistoryOf(c, p) \subseteq Nat
         /\ \A i \in 1..Len(c) : HistoryOf(c, p)[c[i].version] = c[i].value
         /\ \A v \in EndsOf(c, p) \ StartsOf(c) : HistoryOf(c, p)[v] = NoValue
<1> DEFINE h == HistoryOf(c, p)
<1>1. DOMAIN h = StartsOf(c) \cup EndsOf(c, p)
  BY DEF HistoryOf
<1>2. DOMAIN h \subseteq Nat
  BY <1>1, NodeFields DEF StartsOf, EndsOf
<1>3. ASSUME NEW i \in 1..Len(c) PROVE h[c[i].version] = c[i].value
  <2> DEFINE k == CHOOSE j \in 1..Len(c) : c[j].version = c[i].version
  <2>1. k \in 1..Len(c) /\ c[k].version = c[i].version
    OBVIOUS
  <2>2. k = i
    <3> HIDE DEF k
    <3> QED BY <2>1, SpansAscend
  <2>3. c[i].version \in StartsOf(c)
    BY DEF StartsOf
  <2>4. h[c[i].version] = c[k].value
    BY <2>3 DEF HistoryOf
  <2> QED BY <2>2, <2>4
<1>4. \A v \in EndsOf(c, p) \ StartsOf(c) : h[v] = NoValue
  BY DEF HistoryOf
<1> QED BY <1>1, <1>2, <1>3, <1>4

(* A history is determined by its versions and what they say.              *)
LEMMA HistoryIsFunction ==
  ASSUME NEW c, NEW p
  PROVE  HistoryOf(c, p) = [v \in DOMAIN HistoryOf(c, p) |-> HistoryOf(c, p)[v]]
<1> DEFINE D == StartsOf(c) \cup EndsOf(c, p)
           F(v) == IF v \in StartsOf(c)
                     THEN c[CHOOSE i \in 1..Len(c) : c[i].version = v].value
                     ELSE NoValue
<1>1. HistoryOf(c, p) = [v \in D |-> F(v)]
  BY DEF HistoryOf
<1> HIDE DEF D, F
<1> QED BY <1>1

(* The newest version that a snapshot includes is what it sees.            *)
LEMMA VisibleIsNewest ==
  ASSUME NEW h, DOMAIN h \subseteq Nat, NEW s \in Nat, NEW v \in DOMAIN h, v <= s,
         \A u \in DOMAIN h : u <= s => u <= v
  PROVE  Visible(h, s) = h[v]
<1>1. v \in Seen(h, s) /\ \A u \in Seen(h, s) : u \in Nat /\ u <= v
  BY DEF Seen
<1> DEFINE w == CHOOSE w \in Seen(h, s) : \A u \in Seen(h, s) : u <= w
<1>2. w \in Seen(h, s) /\ \A u \in Seen(h, s) : u <= w
  BY <1>1
<1>3. w = v
  <2> HIDE DEF w
  <2>1. w \in Nat /\ v \in Nat /\ w <= v /\ v <= w
    BY <1>1, <1>2
  <2> QED BY <2>1
<1>4. Visible(h, s) = h[w]
  BY <1>1 DEF Visible
<1> QED BY <1>3, <1>4

(* The snapshot sees the node that is alive for it, or nothing: the chain  *)
(* tells its history to whoever is below the ends that are left out.       *)
LEMMA VisibleIs ==
  ASSUME NEW c \in Seq(Nodes), c # <<>>, Spans(c), Decisive(c), NEW p,
         NEW s \in Versions, \A v \in p : s < v
  PROVE  /\ \A i \in 1..Len(c) : Alive(c, i, s) => Visible(HistoryOf(c, p), s) = c[i].value
         /\ (\A i \in 1..Len(c) : ~Alive(c, i, s)) => Visible(HistoryOf(c, p), s) = NoValue
<1> DEFINE h == HistoryOf(c, p)
<1>1. /\ DOMAIN h = StartsOf(c) \cup EndsOf(c, p) /\ DOMAIN h \subseteq Nat
      /\ \A i \in 1..Len(c) : h[c[i].version] = c[i].value
      /\ \A v \in EndsOf(c, p) \ StartsOf(c) : h[v] = NoValue
  BY HistoryAt
<1>2. /\ s \in Nat /\ s < NoDel /\ Len(c) \in Nat /\ Len(c) >= 1
      /\ \A i \in 1..Len(c) : c[i].version \in Nat /\ c[i].del \in Nat
  BY NodeFields, Constants
<1>3. \A i \in 1..Len(c) : \A j \in 1..Len(c) :
        i < j => c[i].version < c[i].del /\ c[i].del <= c[j].version
  BY <1>2 DEF Spans
<1>4. \A i \in 1..Len(c) : c[i].version < c[i].del
  BY DEF Spans
<1>5. \A i \in 1..Len(c) : c[i].version \in DOMAIN h
  BY <1>1 DEF StartsOf
<1> HIDE DEF h
<1>6. ASSUME NEW i \in 1..Len(c), Alive(c, i, s) PROVE Visible(h, s) = c[i].value
  <2>1. c[i].version <= s /\ s < c[i].del
    BY <1>6 DEF Alive
  <2>2. ASSUME NEW j \in 1..Len(c)
        PROVE  /\ c[j].version <= s => c[j].version <= c[i].version
               /\ c[j].del <= s => c[j].del <= c[i].version
    <3>1. CASE j < i
      BY <1>2, <1>3, <3>1
    <3>2. CASE j = i
      BY <1>2, <2>1, <3>2
    <3>3. CASE i < j
      <4>1. c[i].del <= c[j].version /\ c[j].version < c[j].del
        BY <1>3, <1>4, <3>3
      <4> QED BY <1>2, <2>1, <4>1
    <3> QED BY <1>2, <3>1, <3>2, <3>3
  <2>3. \A u \in DOMAIN h : u <= s => u <= c[i].version
    BY <1>1, <2>2 DEF StartsOf, EndsOf
  <2> QED BY <1>1, <1>2, <1>5, <2>1, <2>3, VisibleIsNewest
<1>7. ASSUME \A i \in 1..Len(c) : ~Alive(c, i, s) PROVE Visible(h, s) = NoValue
  <2>1. CASE c[1].version > s
    <3>1. ASSUME NEW i \in 1..Len(c) PROVE c[i].version > s /\ c[i].del > s
      <4>1. c[1].version <= c[i].version
        <5>1. CASE i = 1
          BY <1>2, <5>1
        <5>2. CASE 1 < i
          BY <1>2, <1>3, <5>2
        <5> QED BY <1>2, <5>1, <5>2
      <4> QED BY <1>2, <1>4, <2>1, <4>1
    <3>2. \A u \in DOMAIN h : u > s
      BY <1>1, <3>1 DEF StartsOf, EndsOf
    <3>3. Seen(h, s) = {}
      BY <1>1, <1>2, <3>2 DEF Seen
    <3> QED BY <3>3 DEF Visible
  <2>2. CASE ~(c[1].version > s)
    <3>1. PICK i \in 1..Len(c) : IsLast(c, i, s)
      BY <2>2 DEF Decisive
    <3>2. c[i].version <= s /\ \A j \in i+1..Len(c) : c[j].version > s
      BY <3>1 DEF IsLast
    <3>3. c[i].del <= s
      BY <1>2, <1>7, <3>2 DEF Alive
    <3>4. ASSUME NEW j \in 1..Len(c)
          PROVE  /\ c[j].version <= s => c[j].version < c[i].del
                 /\ c[j].del <= s => c[j].del <= c[i].del
      <4>1. CASE j < i
        <5>1. c[j].version < c[j].del /\ c[j].del <= c[i].version /\ c[i].version < c[i].del
          BY <1>3, <1>4, <4>1
        <5> QED BY <1>2, <5>1
      <4>2. CASE j = i
        BY <1>2, <1>4, <4>2
      <4>3. CASE i < j
        <5>1. c[j].version > s /\ c[j].version < c[j].del
          BY <1>2, <1>4, <3>2, <4>3
        <5> QED BY <1>2, <5>1
      <4> QED BY <1>2, <4>1, <4>2, <4>3
    <3>5. c[i].del \in EndsOf(c, p)
      BY <1>2, <3>3 DEF EndsOf
    <3>6. c[i].del \notin StartsOf(c)
      <4>1. ASSUME NEW j \in 1..Len(c), c[i].del = c[j].version PROVE FALSE
        BY <1>2, <3>3, <3>4, <4>1
      <4> QED BY <4>1 DEF StartsOf
    <3>7. \A u \in DOMAIN h : u <= s => u <= c[i].del
      BY <1>1, <1>2, <3>4 DEF StartsOf, EndsOf
    <3>8. Visible(h, s) = h[c[i].del]
      BY <1>1, <1>2, <3>3, <3>5, <3>7, VisibleIsNewest
    <3> QED BY <1>1, <3>5, <3>6, <3>8
  <2> QED BY <2>1, <2>2
<1> QED BY <1>6, <1>7 DEF h

-------------------------------------------------------------------------
(* What writes and clones do to a chain. *)

(* The stamp of a live newest node.                                        *)
WithEnd(c, v) == [c EXCEPT ![Len(c)].del = v]

LEMMA Stamped ==
  ASSUME NEW c \in Seq(Nodes), c # <<>>, Spans(c), Decisive(c), NEW v \in Versions,
         c[Len(c)].del = NoDel, c[Len(c)].version < v,
         NEW d, d = WithEnd(c, v)
  PROVE  /\ d \in Seq(Nodes) /\ Len(d) = Len(c) /\ d # <<>>
         /\ \A i \in 1..Len(c) :
              /\ d[i].version = c[i].version /\ d[i].value = c[i].value
              /\ d[i].del = IF i = Len(c) THEN v ELSE c[i].del
         /\ Spans(d) /\ Decisive(d)
<1>1. Len(c) \in Nat /\ Len(c) >= 1 /\ v \in 1..NoDel
  BY Constants
<1>2. \A i \in 1..Len(c) : c[i] \in Nodes
  BY NodeFields
<1>3. d \in Seq(Nodes) /\ Len(d) = Len(c) /\ d # <<>>
  <2>1. Len(c) \in 1..Len(c)
    BY <1>1
  <2>2. ASSUME NEW n \in Nodes PROVE [n EXCEPT !.del = v] \in Nodes
    BY <1>1 DEF Nodes
  <2>3. [c[Len(c)] EXCEPT !.del = v] \in Nodes
    BY <1>2, <2>1, <2>2
  <2> QED BY <1>1, <2>1, <2>3 DEF WithEnd
<1>4. \A i \in 1..Len(c) :
        /\ d[i].version = c[i].version /\ d[i].value = c[i].value
        /\ d[i].del = IF i = Len(c) THEN v ELSE c[i].del
  <2>1. ASSUME NEW i \in 1..Len(c)
        PROVE  d[i] = IF i = Len(c) THEN [c[i] EXCEPT !.del = v] ELSE c[i]
    BY <1>1 DEF WithEnd
  <2>2. ASSUME NEW i \in 1..Len(c), NEW n, n = [c[i] EXCEPT !.del = v]
        PROVE  n.version = c[i].version /\ n.value = c[i].value /\ n.del = v
    BY <1>2, <2>2 DEF Nodes
  <2> QED BY <2>1, <2>2
<1>5. Spans(d)
  BY <1>1, <1>3, <1>4 DEF Spans
<1>6. Decisive(d)
  BY <1>1, <1>3, <1>4 DEF Decisive, IsLast
<1> QED BY <1>3, <1>4, <1>5, <1>6

(* A new node, when the one before it has ended in time.                   *)
LEMMA Appended ==
  ASSUME NEW c \in Seq(Nodes), c # <<>>, Spans(c), Decisive(c), NEW e \in Nodes,
         e.del = NoDel, c[Len(c)].version < e.version, c[Len(c)].del <= e.version
  PROVE  LET d == Append(c, e)
         IN  /\ d \in Seq(Nodes) /\ Len(d) = Len(c) + 1 /\ d # <<>>
             /\ d[Len(c) + 1] = e /\ \A i \in 1..Len(c) : d[i] = c[i]
             /\ Spans(d) /\ Decisive(d)
<1> DEFINE d == Append(c, e)
<1>1. /\ d \in Seq(Nodes) /\ Len(c) \in Nat /\ Len(c) >= 1 /\ Len(d) = Len(c) + 1 /\ d # <<>>
      /\ d[Len(c) + 1] = e /\ \A i \in 1..Len(c) : d[i] = c[i]
  OBVIOUS
<1>2. /\ e.version \in Nat /\ e.version < NoDel
      /\ \A i \in 1..Len(c) : c[i].version \in Nat /\ c[i].del \in Nat
  <2>1. e.version \in Versions
    BY DEF Nodes
  <2>2. \A i \in 1..Len(c) : c[i].version \in Nat /\ c[i].del \in Nat
    BY NodeFields
  <2> QED BY <2>1, <2>2, Constants
<1>3. \A i \in 1..Len(c) : c[i].version < c[i].del /\ c[i].del <= e.version
  <2>1. ASSUME NEW i \in 1..Len(c) PROVE c[i].version < c[i].del /\ c[i].del <= e.version
    <3>1. CASE i = Len(c)
      BY <3>1 DEF Spans
    <3>2. CASE i < Len(c)
      <4>1. Len(c) \in i+1..Len(c)
        BY <1>1, <3>2
      <4>2. c[i].version < c[i].del /\ c[i].del <= c[Len(c)].version
        BY <4>1 DEF Spans
      <4> QED BY <1>1, <1>2, <4>2
    <3> QED BY <1>1, <3>1, <3>2
  <2> QED BY <2>1
<1> HIDE DEF d
<1>4. Spans(d)
  <2>1. ASSUME NEW i \in 1..Len(d)
        PROVE  d[i].version < d[i].del /\ \A j \in i+1..Len(d) : d[i].del <= d[j].version
    <3>1. CASE i = Len(c) + 1
      BY <1>1, <1>2, <3>1
    <3>2. CASE i \in 1..Len(c)
      <4>1. ASSUME NEW j \in i+1..Len(d) PROVE d[i].del <= d[j].version
        <5>1. CASE j = Len(c) + 1
          BY <1>1, <1>3, <3>2, <5>1
        <5>2. CASE j \in i+1..Len(c)
          BY <1>1, <3>2, <5>2 DEF Spans
        <5> QED BY <1>1, <5>1, <5>2
      <4> QED BY <1>1, <1>3, <3>2, <4>1
    <3> QED BY <1>1, <3>1, <3>2
  <2> QED BY <2>1 DEF Spans
<1>5. Decisive(d)
  <2>1. ASSUME NEW s \in Versions, ~(d[1].version > s)
        PROVE  \E i \in 1..Len(d) : IsLast(d, i, s)
    <3>1. CASE e.version <= s
      <4>1. IsLast(d, Len(c) + 1, s)
        BY <1>1, <3>1 DEF IsLast
      <4> QED BY <1>1, <4>1
    <3>2. CASE ~(e.version <= s)
      <4>1. PICK i \in 1..Len(c) : IsLast(c, i, s)
        BY <1>1, <2>1 DEF Decisive
      <4>2. s \in Nat
        BY Constants
      <4>3. ASSUME NEW j \in i+1..Len(d) PROVE d[j].version > s
        <5>1. j = Len(c) + 1 \/ j \in i+1..Len(c)
          BY <1>1
        <5> QED BY <1>1, <1>2, <3>2, <4>1, <4>2, <5>1 DEF IsLast
      <4>4. IsLast(d, i, s)
        BY <1>1, <4>1, <4>3 DEF IsLast
      <4> QED BY <1>1, <4>4
    <3> QED BY <3>1, <3>2
  <2> QED BY <2>1 DEF Decisive
<1> QED BY <1>1, <1>4, <1>5 DEF d

(* What the new end of a node may be, when a list is cloned.               *)
CloneEnd(c, i) ==
  IF i = 1 /\ c[1].del # NoDel THEN c[1].del
  ELSE IF i < Len(c) THEN c[i + 1].version ELSE NoDel

(* A cloned list: gaps between the life spans are closed.                  *)
LEMMA ClonedList ==
  ASSUME NEW c \in Seq(Nodes), c # <<>>, Spans(c), Decisive(c)
  PROVE  LET d == [i \in DOMAIN c |-> [c[i] EXCEPT !.del = CloneEnd(c, i)]]
         IN  /\ d \in Seq(Nodes) /\ Len(d) = Len(c) /\ d # <<>>
             /\ \A i \in 1..Len(c) :
                  /\ d[i].version = c[i].version /\ d[i].value = c[i].value
                  /\ d[i].del = CloneEnd(c, i)
             /\ Spans(d) /\ Decisive(d)
<1> DEFINE d == [i \in DOMAIN c |-> [c[i] EXCEPT !.del = CloneEnd(c, i)]]
<1>1. Len(c) \in Nat /\ Len(c) >= 1 /\ DOMAIN c = 1..Len(c)
  OBVIOUS
<1>2. \A i \in 1..Len(c) :
        /\ c[i] \in Nodes /\ c[i].version \in Nat /\ c[i].del \in Nat
        /\ c[i].version \in 1..NoDel /\ c[i].del \in 1..NoDel /\ c[i].version < NoDel
  BY NodeFields, Constants
<1>3. NoDel \in 1..NoDel /\ NoDel \in Nat
  BY Constants
<1>4. ASSUME NEW i \in 1..Len(c) PROVE CloneEnd(c, i) \in 1..NoDel
  <2>1. i < Len(c) => i + 1 \in 1..Len(c)
    BY <1>1
  <2> QED BY <1>1, <1>2, <1>3, <2>1 DEF CloneEnd
<1>5. \A i \in 1..Len(c) : [c[i] EXCEPT !.del = CloneEnd(c, i)] \in Nodes
  BY <1>2, <1>4 DEF Nodes
<1>6. d \in Seq(Nodes) /\ Len(d) = Len(c) /\ d # <<>>
  BY <1>1, <1>5
<1>7. \A i \in 1..Len(c) :
        /\ d[i].version = c[i].version /\ d[i].value = c[i].value
        /\ d[i].del = CloneEnd(c, i)
  BY <1>1, <1>2 DEF Nodes
<1> HIDE DEF d
<1>8. Spans(d)
  <2>1. ASSUME NEW i \in 1..Len(c)
        PROVE  c[i].version < CloneEnd(c, i) /\ \A j \in i+1..Len(c) : CloneEnd(c, i) <= c[j].version
    <3>1. CASE i = 1 /\ c[1].del # NoDel
      <4>1. CloneEnd(c, i) = c[i].del
        BY <3>1 DEF CloneEnd
      <4> QED BY <4>1 DEF Spans
    <3>2. CASE ~(i = 1 /\ c[1].del # NoDel) /\ i < Len(c)
      <4>1. CloneEnd(c, i) = c[i + 1].version /\ i + 1 \in 1..Len(c)
        BY <1>1, <3>2 DEF CloneEnd
      <4>2. c[i].version < c[i + 1].version
        BY <1>1, <4>1, SpansAscend
      <4>3. ASSUME NEW j \in i+1..Len(c) PROVE c[i + 1].version <= c[j].version
        <5>1. CASE j = i + 1
          BY <1>2, <4>1, <5>1
        <5>2. CASE i + 1 < j
          <6>1. c[i + 1].version < c[j].version /\ j \in 1..Len(c)
            BY <1>1, <4>1, <5>2, SpansAscend
          <6> QED BY <1>2, <4>1, <6>1
        <5> QED BY <1>1, <5>1, <5>2
      <4> QED BY <4>1, <4>2, <4>3
    <3>3. CASE ~(i = 1 /\ c[1].del # NoDel) /\ ~(i < Len(c))
      <4>1. CloneEnd(c, i) = NoDel
        BY <3>3 DEF CloneEnd
      <4> QED BY <1>1, <1>2, <3>3, <4>1
    <3> QED BY <3>1, <3>2, <3>3
  <2>2. ASSUME NEW i \in 1..Len(d)
        PROVE  d[i].version < d[i].del /\ \A j \in i+1..Len(d) : d[i].del <= d[j].version
    <3>1. d[i].version = c[i].version /\ d[i].del = CloneEnd(c, i) /\ i \in 1..Len(c)
      BY <1>6, <1>7
    <3>2. ASSUME NEW j \in i+1..Len(d) PROVE d[i].del <= d[j].version
      <4>1. j \in 1..Len(c) /\ j \in i+1..Len(c)
        BY <1>1, <1>6
      <4> QED BY <1>7, <2>1, <3>1, <4>1
    <3> QED BY <2>1, <3>1, <3>2
  <2> QED BY <2>2 DEF Spans
<1>9. Decisive(d)
  BY <1>1, <1>6, <1>7 DEF Decisive, IsLast
<1> QED BY <1>6, <1>7, <1>8, <1>9 DEF d

-------------------------------------------------------------------------
(* The invariant. *)

(* The writer's version is above everything that the chain says.           *)
WriterIsAhead ==
  wpc # "idle" =>
    /\ write.op \in Ops /\ write.version \in Versions
    /\ Newest.version < write.version
    /\ wpc = "begun" => /\ Newest.del = NoDel \/ Newest.del < write.version
                        /\ write.op # "delete" => write.value \in Values
    /\ wpc = "publish" => Newest.del <= write.version /\ write.value \in Values

(* No snapshot in use includes it.                                         *)
ReadersAreBehind ==
  wpc # "idle" => \A r \in Readers : asked[r] < write.version

(* A search has passed nothing that is alive for its snapshot, and the map *)
(* has looked up the newest node that began in time.                       *)
WalksMissNothing ==
  \A r \in Readers : asked[r] # 0 =>
    /\ \A i \in pos[r]+1..Len(chain) : ~Alive(chain, i, asked[r])
    /\ kind = "SkipList" =>
         /\ pos[r] # 0 => chain[pos[r]].version <= asked[r]
         /\ \A i \in pos[r]+1..Len(chain) : chain[i].version > asked[r]

StampInv ==
  /\ TypeOK
  /\ Spans(chain)
  /\ Decisive(chain)
  /\ WriterIsAhead
  /\ ReadersAreBehind
  /\ WalksMissNothing

(* The initial state.                                                      *)
LEMMA InvInit == Init => StampInv
<1> SUFFICES ASSUME Init PROVE StampInv
  OBVIOUS
<1>1. PICK v \in Versions, x \in Values : chain = <<[version |-> v, value |-> x, del |-> NoDel]>>
  BY DEF Init
<1> DEFINE e == [version |-> v, value |-> x, del |-> NoDel]
<1>2. e \in Nodes /\ e.version = v /\ e.del = NoDel /\ v \in Nat /\ v < NoDel
  BY Constants DEF Nodes
<1>3. chain = <<e>>
  BY <1>1
<1> HIDE DEF e
<1>4. chain \in Seq(Nodes) /\ chain # <<>> /\ Len(chain) = 1 /\ chain[1] = e
  BY <1>2, <1>3
<1>5. TypeOK
  <2>1. write \in [op : Ops \cup {"none"}, version : 0..MaxVersion, value : Values \cup {NoValue}]
    BY Constants DEF Init, NoWrite
  <2>2. reported \in Written
    BY Constants DEF Init, Nothing, Written
  <2> QED BY <1>4, <2>1, <2>2, Constants DEF Init, TypeOK
<1>6. Spans(chain)
  BY <1>2, <1>4 DEF Spans
<1>7. Decisive(chain)
  <2>1. ASSUME NEW s \in Versions, ~(v > s) PROVE IsLast(chain, 1, s)
    BY <1>2, <1>4, <2>1, Constants DEF IsLast
  <2> QED BY <1>2, <1>4, <2>1 DEF Decisive
<1> QED BY <1>5, <1>6, <1>7 DEF Init, StampInv, WriterIsAhead, ReadersAreBehind, WalksMissNothing

(* What the invariant says of the newest node.                             *)
LEMMA NewestFields ==
  ASSUME StampInv
  PROVE  /\ chain \in Seq(Nodes) /\ chain # <<>> /\ Len(chain) \in Nat /\ Len(chain) >= 1
         /\ Newest = chain[Len(chain)] /\ Newest \in Nodes
         /\ Newest.version \in Nat /\ Newest.del \in Nat /\ Newest.del <= NoDel
         /\ Newest.version < Newest.del
<1>1. chain \in Seq(Nodes) /\ chain # <<>>
  BY DEF StampInv, TypeOK
<1>2. Len(chain) \in Nat /\ Len(chain) >= 1 /\ Len(chain) \in 1..Len(chain)
  BY <1>1
<1>3. chain[Len(chain)].version < chain[Len(chain)].del
  BY <1>2 DEF StampInv, Spans
<1> QED BY <1>1, <1>2, <1>3, NodeFields DEF Newest

(* Where a search starts.                                                  *)
LEMMA StartIs ==
  ASSUME StampInv, NEW s \in Versions
  PROVE  /\ Start(s) \in 0..Len(chain)
         /\ kind = "VANILLA" => Start(s) = Len(chain)
         /\ kind = "SkipList" =>
              /\ Start(s) # 0 => chain[Start(s)].version <= s
              /\ \A j \in Start(s)+1..Len(chain) : chain[j].version > s
<1> DEFINE P(i) == IF kind = "VANILLA" THEN i = Len(chain)
                   ELSE /\ i # 0 => chain[i].version <= s
                        /\ \A j \in i+1..Len(chain) : chain[j].version > s
<1>1. /\ chain \in Seq(Nodes) /\ Len(chain) \in Nat /\ Len(chain) >= 1 /\ s \in Nat
      /\ \A i \in 1..Len(chain) : chain[i].version \in Nat
  BY NewestFields, NodeFields, Constants
<1>2. \E i \in 0..Len(chain) : P(i)
  <2>1. CASE kind = "VANILLA"
    BY <1>1, <2>1
  <2>2. CASE kind # "VANILLA" /\ chain[1].version > s
    <3>1. ASSUME NEW j \in 1..Len(chain) PROVE chain[j].version > s
      <4>1. 1 \in 1..Len(chain) /\ (1 < j \/ j = 1)
        BY <1>1
      <4>2. 1 < j => chain[1].version < chain[j].version
        BY <1>1, <4>1, SpansAscend DEF StampInv
      <4> QED BY <1>1, <2>2, <4>1, <4>2
    <3>2. P(0)
      BY <1>1, <2>2, <3>1
    <3>3. 0 \in 0..Len(chain)
      BY <1>1
    <3> HIDE DEF P
    <3> QED BY <3>2, <3>3
  <2>3. CASE kind # "VANILLA" /\ ~(chain[1].version > s)
    <3>1. PICK i \in 1..Len(chain) : IsLast(chain, i, s)
      BY <2>3 DEF StampInv, Decisive
    <3>2. P(i) /\ i \in 0..Len(chain)
      BY <1>1, <2>3, <3>1 DEF IsLast
    <3> QED BY <3>2
  <2> QED BY <2>1, <2>2, <2>3
<1>3. Start(s) = CHOOSE i \in 0..Len(chain) : P(i)
  BY DEF Start
<1> HIDE DEF P
<1>4. Start(s) \in 0..Len(chain) /\ P(Start(s))
  BY <1>2, <1>3
<1> QED BY <1>4 DEF P

(* What is only about the chain and the readers.                           *)
LEMMA SameChain ==
  ASSUME StampInv, UNCHANGED <<kind, chain, asked, pos>>
  PROVE  /\ chain' \in Seq(Nodes) /\ chain' # <<>>
         /\ Spans(chain') /\ Decisive(chain') /\ WalksMissNothing'
BY DEF StampInv, TypeOK, WalksMissNothing

(* The stamp ends the newest node for snapshots that are above all readers.*)
LEMMA StampStep ==
  ASSUME StampInv, wpc = "begun", StampNewest(write.version), UNCHANGED <<kind, asked, pos>>
  PROVE  /\ chain' \in Seq(Nodes) /\ chain' # <<>> /\ Len(chain') = Len(chain)
         /\ \A i \in 1..Len(chain) :
              /\ chain'[i].version = chain[i].version /\ chain'[i].value = chain[i].value
              /\ chain'[i].del = IF i = Len(chain) /\ IsLive THEN write.version ELSE chain[i].del
         /\ Newest'.version = Newest.version /\ Newest'.del <= write.version
         /\ Spans(chain') /\ Decisive(chain') /\ WalksMissNothing'
<1> DEFINE v == write.version
<1>1. /\ chain \in Seq(Nodes) /\ chain # <<>> /\ Len(chain) \in 1..Len(chain) /\ Len(chain) \in Nat
      /\ Newest = chain[Len(chain)] /\ Newest.version \in Nat /\ Newest.del \in Nat
      /\ Spans(chain) /\ Decisive(chain)
  BY NewestFields DEF StampInv
<1>2. /\ v \in Versions /\ v \in Nat /\ Newest.version < v
      /\ Newest.del = NoDel \/ Newest.del < v
      /\ v < NoDel
  BY Constants DEF StampInv, WriterIsAhead
<1>3. CASE IsLive
  <2>1. chain' = WithEnd(chain, v) /\ chain[Len(chain)].del = NoDel
    BY <1>1, <1>3 DEF StampNewest, IsLive, WithEnd
  <2>2. /\ chain' \in Seq(Nodes) /\ Len(chain') = Len(chain) /\ chain' # <<>>
        /\ \A i \in 1..Len(chain) :
              /\ chain'[i].version = chain[i].version /\ chain'[i].value = chain[i].value
              /\ chain'[i].del = IF i = Len(chain) THEN v ELSE chain[i].del
        /\ Spans(chain') /\ Decisive(chain')
    <3>1. chain[Len(chain)].del = NoDel /\ chain[Len(chain)].version < v
      BY <1>1, <1>2, <2>1
    <3> HIDE DEF v
    <3>2. v \in Versions /\ chain \in Seq(Nodes) /\ chain # <<>> /\ Spans(chain) /\ Decisive(chain)
      BY <1>1, <1>2
    <3> QED BY <2>1, <3>1, <3>2, Stamped
  <2>3. Newest'.version = Newest.version /\ Newest'.del = v
    BY <1>1, <2>2 DEF Newest
  <2>4. ASSUME NEW r \in Readers, NEW i \in 1..Len(chain), Alive(chain', i, asked[r])
        PROVE  Alive(chain, i, asked[r])
    <3>1. asked[r] \in Nat /\ asked[r] < NoDel
      BY Constants DEF StampInv, TypeOK
    <3> QED BY <1>1, <2>1, <2>2, <2>4, <3>1 DEF Alive
  <2>5. pos \in [Readers -> 0..Len(chain)]
    BY DEF StampInv, TypeOK
  <2>6. ASSUME NEW r \in Readers, asked[r] # 0
        PROVE  /\ \A i \in pos[r]+1..Len(chain') : ~Alive(chain', i, asked[r])
               /\ kind = "SkipList" =>
                    /\ pos[r] # 0 => chain'[pos[r]].version <= asked[r]
                    /\ \A i \in pos[r]+1..Len(chain') : chain'[i].version > asked[r]
    <3>1. /\ \A i \in pos[r]+1..Len(chain) : ~Alive(chain, i, asked[r])
          /\ kind = "SkipList" =>
               /\ pos[r] # 0 => chain[pos[r]].version <= asked[r]
               /\ \A i \in pos[r]+1..Len(chain) : chain[i].version > asked[r]
      BY <2>6 DEF StampInv, WalksMissNothing
    <3>2. \A i \in pos[r]+1..Len(chain) : i \in 1..Len(chain)
      BY <1>1, <2>5
    <3>3. pos[r] # 0 => pos[r] \in 1..Len(chain)
      BY <1>1, <2>5
    <3> QED BY <2>2, <2>4, <3>1, <3>2, <3>3
  <2>7. WalksMissNothing'
    BY <2>6 DEF WalksMissNothing
  <2> QED BY <1>2, <1>3, <2>2, <2>3, <2>7
<1>4. CASE ~IsLive
  <2>1. chain' = chain
    BY <1>4 DEF StampNewest
  <2>2. Newest' = Newest /\ Newest.del < v
    BY <1>2, <1>4, <2>1 DEF Newest, IsLive
  <2> QED BY <1>1, <1>2, <1>4, <2>1, <2>2, SameChain
<1> QED BY <1>3, <1>4

(* The new node begins above all snapshots in use.                         *)
LEMMA PublishStep ==
  ASSUME StampInv, Publish
  PROVE  LET e == [version |-> write.version, value |-> write.value, del |-> NoDel]
         IN  /\ e \in Nodes
             /\ chain' \in Seq(Nodes) /\ chain' # <<>> /\ Len(chain') = Len(chain) + 1
             /\ chain'[Len(chain) + 1] = e /\ \A i \in 1..Len(chain) : chain'[i] = chain[i]
             /\ Spans(chain') /\ Decisive(chain') /\ WalksMissNothing'
<1> DEFINE e == [version |-> write.version, value |-> write.value, del |-> NoDel]
<1>1. /\ chain \in Seq(Nodes) /\ chain # <<>> /\ Len(chain) \in Nat
      /\ Newest = chain[Len(chain)] /\ Spans(chain) /\ Decisive(chain)
  BY NewestFields DEF StampInv
<1>2. /\ write.version \in Versions /\ write.value \in Values
      /\ Newest.version < write.version /\ Newest.del <= write.version
  BY DEF Publish, StampInv, WriterIsAhead
<1>3. e \in Nodes /\ e.del = NoDel /\ e.version = write.version
  BY <1>2, Constants DEF Nodes
<1>4. chain' = Append(chain, e) /\ UNCHANGED <<kind, asked, pos>>
  BY DEF Publish
<1> HIDE DEF e
<1>5. /\ chain' \in Seq(Nodes) /\ chain' # <<>> /\ Len(chain') = Len(chain) + 1
      /\ chain'[Len(chain) + 1] = e /\ \A i \in 1..Len(chain) : chain'[i] = chain[i]
      /\ Spans(chain') /\ Decisive(chain')
  BY <1>1, <1>2, <1>3, <1>4, Appended
<1>6. ASSUME NEW r \in Readers, asked[r] # 0
      PROVE  /\ \A i \in pos[r]+1..Len(chain') : ~Alive(chain', i, asked[r])
             /\ kind = "SkipList" =>
                  /\ pos[r] # 0 => chain'[pos[r]].version <= asked[r]
                  /\ \A i \in pos[r]+1..Len(chain') : chain'[i].version > asked[r]
  <2>1. asked[r] < write.version /\ asked[r] \in Nat /\ write.version \in Nat
    BY <1>2, Constants DEF Publish, StampInv, ReadersAreBehind, TypeOK
  <2>2. pos[r] \in 0..Len(chain)
    BY DEF StampInv, TypeOK
  <2>3. /\ \A i \in pos[r]+1..Len(chain) : ~Alive(chain, i, asked[r])
        /\ kind = "SkipList" =>
             /\ pos[r] # 0 => chain[pos[r]].version <= asked[r]
             /\ \A i \in pos[r]+1..Len(chain) : chain[i].version > asked[r]
    BY <1>6 DEF StampInv, WalksMissNothing
  <2>4. ASSUME NEW i \in pos[r]+1..Len(chain')
        PROVE  /\ ~Alive(chain', i, asked[r])
               /\ kind = "SkipList" => chain'[i].version > asked[r]
    <3>1. CASE i = Len(chain) + 1
      BY <1>3, <1>5, <2>1, <3>1 DEF Alive
    <3>2. CASE i \in pos[r]+1..Len(chain)
      <4>1. chain'[i] = chain[i]
        BY <1>5, <2>2, <3>2
      <4> QED BY <2>3, <3>2, <4>1 DEF Alive
    <3> QED BY <1>1, <1>5, <2>2, <3>1, <3>2
  <2>5. pos[r] # 0 => chain'[pos[r]] = chain[pos[r]]
    BY <1>1, <1>5, <2>2
  <2> QED BY <2>3, <2>4, <2>5
<1>7. WalksMissNothing'
  BY <1>4, <1>6 DEF WalksMissNothing
<1> QED BY <1>3, <1>5, <1>7 DEF e

(* Cloning a list that nobody uses.                                        *)
LEMMA CloneStep ==
  ASSUME StampInv, Clone
  PROVE  /\ chain' \in Seq(Nodes) /\ chain' # <<>> /\ Len(chain') = Len(chain)
         /\ \A i \in 1..Len(chain) :
              /\ chain'[i].version = chain[i].version /\ chain'[i].value = chain[i].value
              /\ chain'[i].del = CloneEnd(chain, i)
         /\ Spans(chain') /\ Decisive(chain') /\ WalksMissNothing'
<1>1. \A i : NewEnd(i) = CloneEnd(chain, i)
  BY DEF NewEnd, CloneEnd
<1>2. chain' = [i \in DOMAIN chain |-> [chain[i] EXCEPT !.del = CloneEnd(chain, i)]]
  BY <1>1 DEF Clone
<1>3. chain \in Seq(Nodes) /\ chain # <<>> /\ Spans(chain) /\ Decisive(chain)
  BY DEF StampInv, TypeOK
<1>4. WalksMissNothing'
  BY DEF Clone, WalksMissNothing
<1> QED BY <1>2, <1>3, <1>4, ClonedList

-------------------------------------------------------------------------
(* Every action keeps the invariant. *)

(* The writer's, from the version it draws to its return.                  *)
LEMMA WriterStep ==
  ASSUME StampInv,
         \/ \E op \in Ops, v \in Versions, x \in Values \cup {NoValue} : Begin(op, v, x)
         \/ Delete \/ AppendRefused \/ Stamp \/ Publish \/ Clone
  PROVE  StampInv'
<1>0. /\ chain \in Seq(Nodes) /\ Len(chain) \in Nat /\ pos \in [Readers -> 0..Len(chain)]
      /\ NoWrite \in [op : Ops \cup {"none"}, version : 0..MaxVersion, value : Values \cup {NoValue}]
      /\ Nothing \in Written
  BY Constants DEF StampInv, TypeOK, NoWrite, Nothing, Written
<1>1. ASSUME NEW op \in Ops, NEW v \in Versions, NEW x \in Values \cup {NoValue}, Begin(op, v, x)
      PROVE  StampInv'
  <2>1. /\ wpc' = "begun" /\ write' = [op |-> op, version |-> v, value |-> x]
        /\ UNCHANGED <<kind, chain, reported, asked, pos, answer>>
        /\ v > Newest.version /\ (Newest.del # NoDel => v > Newest.del)
        /\ \A r \in Readers : asked[r] < v
        /\ (op = "delete") = (x = NoValue)
    BY <1>1 DEF Begin
  <2>2. v \in 0..MaxVersion
    BY Constants
  <2>3. TypeOK'
    BY <2>1, <2>2 DEF StampInv, TypeOK
  <2>4. op # "delete" => x \in Values
    <3>1. op # "delete" => x # NoValue
      BY <2>1
    <3> QED BY <3>1
  <2>5. Newest' = Newest
    BY <2>1 DEF Newest
  <2>6. WriterIsAhead'
    BY <2>1, <2>4, <2>5, NewestFields, Constants DEF WriterIsAhead
  <2>7. ReadersAreBehind'
    BY <2>1 DEF ReadersAreBehind
  <2> QED BY <2>1, <2>3, <2>6, <2>7, SameChain DEF StampInv
<1>2. CASE Delete
  <2>1. /\ wpc = "begun" /\ StampNewest(write.version) /\ wpc' = "idle" /\ write' = NoWrite
        /\ reported' = Nothing /\ UNCHANGED <<kind, asked, pos, answer>>
    BY <1>2 DEF Delete, Return
  <2>2. /\ chain' \in Seq(Nodes) /\ chain' # <<>> /\ Len(chain') = Len(chain)
        /\ Spans(chain') /\ Decisive(chain') /\ WalksMissNothing'
    BY <2>1, StampStep
  <2>3. TypeOK'
    BY <1>0, <2>1, <2>2 DEF StampInv, TypeOK
  <2> QED BY <2>1, <2>2, <2>3 DEF StampInv, WriterIsAhead, ReadersAreBehind
<1>3. CASE AppendRefused
  <2>1. /\ wpc = "begun" /\ write.op = "append" /\ wpc' = "idle" /\ write' = NoWrite
        /\ reported' = Success /\ UNCHANGED <<kind, chain, asked, pos, answer>>
    BY <1>3 DEF AppendRefused, Refused, Return
  <2>2. Success \in Written
    BY <2>1, Constants DEF StampInv, TypeOK, Success, Written
  <2>3. TypeOK'
    BY <1>0, <2>1, <2>2 DEF StampInv, TypeOK
  <2> QED BY <2>1, <2>3, SameChain DEF StampInv, WriterIsAhead, ReadersAreBehind
<1>4. CASE Stamp
  <2>1. /\ wpc = "begun" /\ write.op # "delete" /\ StampNewest(write.version) /\ wpc' = "publish"
        /\ UNCHANGED <<kind, write, reported, asked, pos, answer>>
    BY <1>4 DEF Stamp
  <2>2. /\ chain' \in Seq(Nodes) /\ chain' # <<>> /\ Len(chain') = Len(chain)
        /\ Newest'.version = Newest.version /\ Newest'.del <= write.version
        /\ Spans(chain') /\ Decisive(chain') /\ WalksMissNothing'
    BY <2>1, StampStep
  <2>3. TypeOK'
    BY <1>0, <2>1, <2>2 DEF StampInv, TypeOK
  <2>4. WriterIsAhead'
    BY <2>1, <2>2 DEF StampInv, WriterIsAhead
  <2>5. ReadersAreBehind'
    BY <2>1 DEF StampInv, ReadersAreBehind
  <2> QED BY <2>2, <2>3, <2>4, <2>5 DEF StampInv
<1>5. CASE Publish
  <2>1. /\ wpc = "publish" /\ wpc' = "idle" /\ write' = NoWrite
        /\ reported' = Success /\ UNCHANGED <<kind, asked, pos, answer>>
    BY <1>5 DEF Publish, Return
  <2>2. /\ chain' \in Seq(Nodes) /\ chain' # <<>> /\ Len(chain') = Len(chain) + 1
        /\ Spans(chain') /\ Decisive(chain') /\ WalksMissNothing'
    BY <1>5, PublishStep
  <2>3. Success \in Written
    BY Constants DEF StampInv, TypeOK, Success, Written
  <2>4. TypeOK'
    BY <1>0, <2>1, <2>2, <2>3 DEF StampInv, TypeOK
  <2> QED BY <2>1, <2>2, <2>4 DEF StampInv, WriterIsAhead, ReadersAreBehind
<1>6. CASE Clone
  <2>1. wpc = "idle" /\ UNCHANGED <<kind, wpc, write, reported, asked, pos, answer>>
    BY <1>6 DEF Clone
  <2>2. /\ chain' \in Seq(Nodes) /\ chain' # <<>> /\ Len(chain') = Len(chain)
        /\ Spans(chain') /\ Decisive(chain') /\ WalksMissNothing'
    BY <1>6, CloneStep
  <2>3. TypeOK'
    BY <2>1, <2>2 DEF StampInv, TypeOK
  <2> QED BY <2>1, <2>2, <2>3 DEF StampInv, WriterIsAhead, ReadersAreBehind
<1> QED BY <1>1, <1>2, <1>3, <1>4, <1>5, <1>6

(* A search that begins.                                                   *)
LEMMA AskStep ==
  ASSUME StampInv, NEW r \in Readers, NEW s \in Versions, Ask(r, s)
  PROVE  StampInv'
<1>1. /\ BelowWriter(s) /\ asked' = [asked EXCEPT ![r] = s] /\ pos' = [pos EXCEPT ![r] = Start(s)]
      /\ UNCHANGED <<kind, chain, wpc, write, reported, answer>>
  BY DEF Ask
<1>2. /\ asked \in [Readers -> 0..MaxVersion] /\ pos \in [Readers -> 0..Len(chain)]
      /\ s \in 0..MaxVersion /\ Len(chain) \in Nat
  BY NewestFields, Constants DEF StampInv, TypeOK
<1>3. /\ Start(s) \in 0..Len(chain)
      /\ kind = "VANILLA" => Start(s) = Len(chain)
      /\ kind = "SkipList" =>
           /\ Start(s) # 0 => chain[Start(s)].version <= s
           /\ \A j \in Start(s)+1..Len(chain) : chain[j].version > s
      /\ kind \in {"VANILLA", "SkipList"}
  BY StartIs DEF StampInv, TypeOK, Kinds
<1>4. TypeOK'
  BY <1>1, <1>2, <1>3 DEF StampInv, TypeOK
<1>5. WriterIsAhead'
  BY <1>1 DEF StampInv, WriterIsAhead, Newest
<1>6. ReadersAreBehind'
  BY <1>1, <1>2 DEF StampInv, ReadersAreBehind, BelowWriter
<1>7. \A i \in Start(s)+1..Len(chain) : ~Alive(chain, i, s)
  <2>1. CASE kind = "VANILLA"
    BY <1>2, <1>3, <2>1
  <2>2. CASE kind = "SkipList"
    <3>1. ASSUME NEW i \in Start(s)+1..Len(chain) PROVE ~Alive(chain, i, s)
      <4>1. chain[i].version > s
        BY <1>3, <2>2
      <4>2. i \in 1..Len(chain)
        BY <1>2, <1>3
      <4>3. chain[i].version \in Nat /\ s \in Nat
        BY <4>2, NodeFields, Constants DEF StampInv, TypeOK
      <4> QED BY <4>1, <4>3 DEF Alive
    <3> QED BY <3>1
  <2> QED BY <1>3, <2>1, <2>2
<1>8. WalksMissNothing'
  <2>1. asked'[r] = s /\ pos'[r] = Start(s)
    BY <1>1, <1>2
  <2>2. \A q \in Readers \ {r} : asked'[q] = asked[q] /\ pos'[q] = pos[q]
    BY <1>1, <1>2
  <2>3. ASSUME NEW q \in Readers, asked'[q] # 0
        PROVE  /\ \A i \in pos'[q]+1..Len(chain) : ~Alive(chain, i, asked'[q])
               /\ kind = "SkipList" =>
                    /\ pos'[q] # 0 => chain[pos'[q]].version <= asked'[q]
                    /\ \A i \in pos'[q]+1..Len(chain) : chain[i].version > asked'[q]
    <3>1. CASE q = r
      BY <1>3, <1>7, <2>1, <3>1
    <3>2. CASE q # r
      BY <2>2, <2>3, <3>2 DEF StampInv, WalksMissNothing
    <3> QED BY <3>1, <3>2
  <2> QED BY <1>1, <2>3 DEF WalksMissNothing
<1> QED BY <1>1, <1>4, <1>5, <1>6, <1>8 DEF StampInv

(* One that goes on to an older node, or answers.                          *)
LEMMA ReaderStep ==
  ASSUME StampInv, NEW r \in Readers, Walk(r) \/ Answer(r)
  PROVE  StampInv'
<1>1. UNCHANGED <<kind, chain, wpc, write, reported>>
  BY DEF Walk, Answer
<1>2. /\ asked \in [Readers -> 0..MaxVersion] /\ pos \in [Readers -> 0..Len(chain)]
      /\ Len(chain) \in Nat /\ chain \in Seq(Nodes) /\ 0 \in 0..MaxVersion
  BY NewestFields, Constants DEF StampInv, TypeOK
<1>3. WriterIsAhead'
  BY <1>1 DEF StampInv, WriterIsAhead, Newest
<1>4. CASE Walk(r)
  <2>1. /\ asked[r] # 0 /\ pos[r] # 0 /\ kind = "VANILLA" /\ ~Matches(r)
        /\ pos' = [pos EXCEPT ![r] = pos[r] - 1] /\ UNCHANGED <<asked, answer>>
    BY <1>4 DEF Walk
  <2>2. pos[r] \in 1..Len(chain) /\ pos[r] - 1 \in 0..Len(chain)
    BY <1>2, <2>1
  <2>3. TypeOK'
    BY <1>1, <1>2, <2>1, <2>2 DEF StampInv, TypeOK
  <2>4. ~Alive(chain, pos[r], asked[r])
    <3>1. chain[pos[r]].del \in Nat /\ asked[r] \in Nat
      BY <1>2, <2>2, NodeFields, Constants
    <3> QED BY <2>1, <3>1 DEF Matches, Alive
  <2>5. ASSUME NEW q \in Readers, asked[q] # 0, NEW i \in pos'[q]+1..Len(chain)
        PROVE  ~Alive(chain, i, asked[q])
    <3>1. CASE q = r
      <4>1. i = pos[r] \/ i \in pos[r]+1..Len(chain)
        BY <1>2, <2>1, <2>2, <2>5, <3>1
      <4> QED BY <2>4, <2>5, <3>1, <4>1 DEF StampInv, WalksMissNothing
    <3>2. CASE q # r
      <4>1. pos'[q] = pos[q]
        BY <1>2, <2>1, <3>2
      <4> QED BY <2>5, <4>1 DEF StampInv, WalksMissNothing
    <3> QED BY <3>1, <3>2
  <2>6. WalksMissNothing'
    BY <1>1, <2>1, <2>5 DEF WalksMissNothing
  <2>7. ReadersAreBehind'
    BY <1>1, <2>1 DEF StampInv, ReadersAreBehind
  <2> QED BY <1>1, <1>3, <2>3, <2>6, <2>7 DEF StampInv
<1>5. CASE Answer(r)
  <2>1. /\ answer' = [answer EXCEPT ![r] = IF Matches(r) THEN chain[pos[r]].value ELSE NoValue]
        /\ asked' = [asked EXCEPT ![r] = 0] /\ pos' = [pos EXCEPT ![r] = 0]
    BY <1>5 DEF Answer
  <2>2. (IF Matches(r) THEN chain[pos[r]].value ELSE NoValue) \in Values \cup {NoValue}
    <3>1. Matches(r) => pos[r] \in 1..Len(chain)
      BY <1>2 DEF Matches
    <3> QED BY <1>2, <3>1, NodeFields
  <2>3. TypeOK'
    <3>1. answer' \in [Readers -> Values \cup {NoValue}]
      BY <2>1, <2>2 DEF StampInv, TypeOK
    <3> QED BY <1>1, <1>2, <2>1, <3>1 DEF StampInv, TypeOK
  <2>4. WalksMissNothing'
    BY <1>1, <1>2, <2>1 DEF StampInv, WalksMissNothing
  <2>5. ReadersAreBehind'
    <3>1. wpc # "idle" => 0 < write.version
      BY Constants DEF StampInv, WriterIsAhead
    <3> QED BY <1>1, <1>2, <2>1, <3>1 DEF StampInv, ReadersAreBehind
  <2> QED BY <1>1, <1>3, <2>3, <2>4, <2>5 DEF StampInv
<1> QED BY <1>4, <1>5

(* StampInv is an invariant of both kinds of chains.                       *)
THEOREM Invariance == Spec => []StampInv
<1>1. ASSUME StampInv, [Next]_vars PROVE StampInv'
  <2>1. CASE Next
    BY <1>1, <2>1, WriterStep, AskStep, ReaderStep DEF Next
  <2>2. CASE UNCHANGED vars
    <3>1. UNCHANGED <<kind, chain, wpc, write, reported, asked, pos, answer>>
      BY <2>2 DEF vars
    <3> QED BY <1>1, <3>1, SameChain
            DEF StampInv, TypeOK, WriterIsAhead, ReadersAreBehind, Newest
  <2> QED BY <1>1, <2>1, <2>2
<1> QED BY InvInit, <1>1, PTL DEF Spec

(* Nodes, writer and searches keep their types.                            *)
THEOREM TypeCorrect == Spec => []TypeOK
<1>1. StampInv => TypeOK
  BY DEF StampInv
<1> QED BY <1>1, Invariance, PTL

(* No two versions of a record are alive for the same snapshot, and only   *)
(* the newest may have no end: whatever is inserted over deleted records,  *)
(* refused, cloned or stamped ahead of its successor.                      *)
THEOREM Disjoint == Spec => []LifeSpansAreDisjoint
<1>1. StampInv => LifeSpansAreDisjoint
  <2> SUFFICES ASSUME StampInv, NEW i \in 1..Len(chain)-1
               PROVE  chain[i].version < chain[i].del /\ chain[i].del <= chain[i+1].version
    BY DEF LifeSpansAreDisjoint
  <2>1. Len(chain) \in Nat
    BY NewestFields
  <2>2. i \in 1..Len(chain) /\ i+1 \in i+1..Len(chain)
    BY <2>1
  <2> QED BY <2>2 DEF StampInv, Spans
<1> QED BY <1>1, Invariance, PTL

-------------------------------------------------------------------------
(* The refinement of RecordContract. *)

(* The stamp that is no deletion yet, and what each read will find.        *)
Pending == IF wpc = "publish" THEN {write.version} ELSE {}

Due == [r \in Readers |-> IF asked[r] = 0 THEN NoValue ELSE Visible(History, asked[r])]

(* The mapping in terms of the lemmas about chains.                        *)
LEMMA HistoryIs ==
  /\ History = HistoryOf(chain, Pending)
  /\ History' = HistoryOf(chain', Pending')
BY DEF History, HistoryOf, Ends, Starts, StartsOf, EndsOf, Pending

(* Histories with the same versions and the same words are the same.       *)
LEMMA SameHistory ==
  ASSUME NEW c \in Seq(Nodes), NEW d \in Seq(Nodes), Spans(c), Spans(d), NEW p, NEW q,
         Len(d) = Len(c),
         \A i \in 1..Len(c) : d[i].version = c[i].version /\ d[i].value = c[i].value,
         EndsOf(d, q) = EndsOf(c, p)
  PROVE  HistoryOf(d, q) = HistoryOf(c, p)
<1> DEFINE h == HistoryOf(c, p)
           k == HistoryOf(d, q)
<1>1. StartsOf(d) = StartsOf(c)
  BY DEF StartsOf
<1>2. /\ DOMAIN h = StartsOf(c) \cup EndsOf(c, p)
      /\ \A i \in 1..Len(c) : h[c[i].version] = c[i].value
      /\ \A v \in EndsOf(c, p) \ StartsOf(c) : h[v] = NoValue
  BY HistoryAt
<1>3. /\ DOMAIN k = StartsOf(d) \cup EndsOf(d, q)
      /\ \A i \in 1..Len(d) : k[d[i].version] = d[i].value
      /\ \A v \in EndsOf(d, q) \ StartsOf(d) : k[v] = NoValue
  BY HistoryAt
<1>4. h = [v \in DOMAIN h |-> h[v]] /\ k = [v \in DOMAIN k |-> k[v]]
  BY HistoryIsFunction
<1> HIDE DEF h, k
<1>5. DOMAIN k = DOMAIN h
  BY <1>1, <1>2, <1>3
<1>6. \A v \in DOMAIN h : k[v] = h[v]
  <2>1. ASSUME NEW v \in StartsOf(c) PROVE k[v] = h[v]
    BY <1>2, <1>3 DEF StartsOf
  <2> QED BY <1>1, <1>2, <1>3, <2>1
<1>7. k = h
  BY <1>4, <1>5, <1>6
<1> QED BY <1>7 DEF h, k

(* Two chains with the same nodes alive for a snapshot look the same.      *)
LEMMA SameVisible ==
  ASSUME NEW c \in Seq(Nodes), c # <<>>, Spans(c), Decisive(c), NEW p,
         NEW d \in Seq(Nodes), d # <<>>, Spans(d), Decisive(d), NEW q,
         NEW s \in Versions, \A v \in p : s < v, \A v \in q : s < v,
         \A i \in 1..Len(c) : Alive(c, i, s) =>
            i \in 1..Len(d) /\ Alive(d, i, s) /\ d[i].value = c[i].value,
         \A i \in 1..Len(d) : Alive(d, i, s) => i \in 1..Len(c) /\ Alive(c, i, s)
  PROVE  Visible(HistoryOf(d, q), s) = Visible(HistoryOf(c, p), s)
<1>1. /\ \A i \in 1..Len(c) : Alive(c, i, s) => Visible(HistoryOf(c, p), s) = c[i].value
      /\ (\A i \in 1..Len(c) : ~Alive(c, i, s)) => Visible(HistoryOf(c, p), s) = NoValue
  BY VisibleIs
<1>2. /\ \A i \in 1..Len(d) : Alive(d, i, s) => Visible(HistoryOf(d, q), s) = d[i].value
      /\ (\A i \in 1..Len(d) : ~Alive(d, i, s)) => Visible(HistoryOf(d, q), s) = NoValue
  BY VisibleIs
<1>3. CASE \E i \in 1..Len(c) : Alive(c, i, s)
  <2>1. PICK i \in 1..Len(c) : Alive(c, i, s)
    BY <1>3
  <2> QED BY <1>1, <1>2, <2>1
<1>4. CASE \A i \in 1..Len(c) : ~Alive(c, i, s)
  BY <1>1, <1>2, <1>4
<1> QED BY <1>3, <1>4

(* All of a chain's history is below the version of its writer.            *)
LEMMA HistoryIsOlder ==
  ASSUME StampInv, wpc # "idle"
  PROVE  /\ write.version \in Versions /\ write.version \in Nat /\ write.version < NoDel
         /\ \A i \in 1..Len(chain) : /\ chain[i].version < write.version
                                     /\ i # Len(chain) => chain[i].del < write.version
         /\ \A w \in DOMAIN History : w < write.version
<1> DEFINE v == write.version
           n == Len(chain)
<1>1. /\ chain \in Seq(Nodes) /\ n \in Nat /\ n >= 1 /\ n \in 1..n /\ Newest = chain[n]
      /\ Spans(chain) /\ wpc \in {"idle", "begun", "publish"}
      /\ \A i \in 1..n : chain[i].version \in Nat /\ chain[i].del \in Nat
  BY NewestFields, NodeFields DEF StampInv, TypeOK
<1>2. /\ v \in Versions /\ v \in Nat /\ v < NoDel /\ chain[n].version < v
      /\ wpc = "begun" => chain[n].del = NoDel \/ chain[n].del < v
      /\ wpc = "publish" => chain[n].del <= v
  BY <1>1, Constants DEF StampInv, WriterIsAhead
<1> HIDE DEF v
<1>3. ASSUME NEW i \in 1..n, i # n PROVE chain[i].del < v /\ chain[i].version < v
  <2>1. n \in i+1..n
    BY <1>1, <1>3
  <2>2. chain[i].version < chain[i].del /\ chain[i].del <= chain[n].version
    BY <1>1, <2>1 DEF Spans
  <2> QED BY <1>1, <1>2, <2>2
<1>4. ASSUME NEW w \in DOMAIN History PROVE w < v
  <2>1. w \in StartsOf(chain) \cup EndsOf(chain, Pending)
    BY <1>1, HistoryIs, HistoryAt
  <2>2. CASE w \in StartsOf(chain)
    BY <1>2, <1>3, <2>2 DEF StartsOf
  <2>3. CASE w \in EndsOf(chain, Pending)
    <3>1. PICK i \in 1..n : w = chain[i].del
      BY <2>3 DEF EndsOf
    <3>2. w # NoDel /\ (wpc = "publish" => w # v)
      BY <2>3 DEF EndsOf, Pending, v
    <3> QED BY <1>1, <1>2, <1>3, <3>1, <3>2
  <2> QED BY <2>1, <2>2, <2>3
<1> QED BY <1>1, <1>2, <1>3, <1>4 DEF v

(* No read in progress includes a stamp that is pending.                   *)
LEMMA ReadersIgnoreStamps ==
  ASSUME StampInv, NEW r \in Readers, asked[r] # 0
  PROVE  asked[r] \in Versions /\ asked[r] \in Nat /\ \A v \in Pending : asked[r] < v
BY Constants DEF StampInv, TypeOK, ReadersAreBehind, Pending

(* A chain is one version of the record, to begin with.                    *)
LEMMA StartsAsContract ==
  ASSUME Init
  PROVE  /\ \E v \in Versions, x \in Values : History = [w \in {v} |-> x]
         /\ asked = [r \in Readers |-> 0]
         /\ Due = [r \in Readers |-> NoValue]
         /\ answer = [r \in Readers |-> NoValue]
<1>1. PICK v \in Versions, x \in Values : chain = <<[version |-> v, value |-> x, del |-> NoDel]>>
  BY DEF Init
<1>2. Len(chain) = 1 /\ chain[1].version = v /\ chain[1].value = x /\ chain[1].del = NoDel
  BY <1>1
<1>3. chain \in Seq(Nodes) /\ Spans(chain)
  BY InvInit DEF StampInv, TypeOK
<1>4. StartsOf(chain) = {v}
  BY <1>2 DEF StartsOf
<1>5. EndsOf(chain, Pending) = {}
  BY <1>2 DEF EndsOf
<1>6. 1 \in 1..Len(chain)
  BY <1>2
<1>7. DOMAIN History = {v} /\ History[v] = x
  BY <1>2, <1>3, <1>4, <1>5, <1>6, HistoryAt, HistoryIs
<1>8. History = [w \in DOMAIN History |-> History[w]]
  BY HistoryIsFunction, HistoryIs
<1>9. History = [w \in {v} |-> x]
  BY <1>7, <1>8
<1> QED BY <1>9 DEF Init, Due

(* The stamp of a write that is not done changes nothing for anyone.       *)
LEMMA StampIsSilent ==
  ASSUME StampInv, Stamp
  PROVE  UNCHANGED <<History, asked, Due, answer>>
<1> DEFINE v == write.version
<1>1. /\ wpc = "begun" /\ StampNewest(v) /\ wpc' = "publish"
      /\ UNCHANGED <<kind, write, asked, pos, answer>>
  BY DEF Stamp
<1>2. /\ chain \in Seq(Nodes) /\ Len(chain) \in Nat /\ Len(chain) \in 1..Len(chain) /\ Spans(chain)
      /\ Newest = chain[Len(chain)]
  BY NewestFields DEF StampInv
<1>3. /\ chain' \in Seq(Nodes) /\ Len(chain') = Len(chain) /\ Spans(chain')
      /\ \A i \in 1..Len(chain) :
           /\ chain'[i].version = chain[i].version /\ chain'[i].value = chain[i].value
           /\ chain'[i].del = IF i = Len(chain) /\ IsLive THEN v ELSE chain[i].del
  BY <1>1, StampStep
<1>4. Pending = {} /\ Pending' = {v}
  BY <1>1 DEF Pending
<1>5. ASSUME NEW i \in 1..Len(chain) PROVE chain[i].del # v
  <2>1. v \in Nat /\ v < NoDel /\ (i # Len(chain) => chain[i].del < v)
    BY <1>1, HistoryIsOlder
  <2>2. i = Len(chain) => chain[i].del = NoDel \/ chain[i].del < v
    BY <1>1, <1>2 DEF StampInv, WriterIsAhead
  <2>3. chain[i].del \in Nat /\ NoDel \in Nat
    BY <1>2, NodeFields, Constants
  <2> QED BY <2>1, <2>2, <2>3
<1> HIDE DEF v
<1>6. EndsOf(chain', {v}) = EndsOf(chain, {})
  <2>1. ASSUME NEW w \in EndsOf(chain', {v}) PROVE w \in EndsOf(chain, {})
    <3>1. PICK i \in 1..Len(chain) : w = chain'[i].del
      BY <1>3, <2>1 DEF EndsOf
    <3>2. w # v /\ w # NoDel
      BY <2>1 DEF EndsOf
    <3>3. w = chain[i].del
      BY <1>3, <3>1, <3>2
    <3> QED BY <3>2, <3>3 DEF EndsOf
  <2>2. ASSUME NEW w \in EndsOf(chain, {}) PROVE w \in EndsOf(chain', {v})
    <3>1. PICK i \in 1..Len(chain) : w = chain[i].del
      BY <2>2 DEF EndsOf
    <3>2. w # NoDel /\ w # v
      BY <1>5, <2>2, <3>1 DEF EndsOf
    <3>3. chain'[i].del = w
      BY <1>2, <1>3, <3>1, <3>2 DEF IsLive
    <3> QED BY <1>3, <3>2, <3>3 DEF EndsOf
  <2> QED BY <2>1, <2>2
<1>7. HistoryOf(chain', {v}) = HistoryOf(chain, {})
  BY <1>2, <1>3, <1>6, SameHistory
<1>8. History' = History
  BY <1>4, <1>7, HistoryIs
<1> QED BY <1>1, <1>8 DEF Due

(* A history with one more version than another.                           *)
WithVersion(h, v, x) == [w \in DOMAIN h \cup {v} |-> IF w = v THEN x ELSE h[w]]

LEMMA Extended ==
  ASSUME NEW c, NEW p, NEW h, NEW v, NEW x,
         DOMAIN HistoryOf(c, p) = DOMAIN h \cup {v}, HistoryOf(c, p)[v] = x,
         \A w \in DOMAIN h : w # v => HistoryOf(c, p)[w] = h[w]
  PROVE  HistoryOf(c, p) = WithVersion(h, v, x)
<1> DEFINE g == WithVersion(h, v, x)
           k == HistoryOf(c, p)
<1>1. k = [w \in DOMAIN k |-> k[w]]
  BY HistoryIsFunction
<1> HIDE DEF k
<1>2. DOMAIN g = DOMAIN k /\ \A w \in DOMAIN k : g[w] = k[w]
  BY DEF k, WithVersion
<1>3. g = [w \in DOMAIN g |-> g[w]]
  BY DEF WithVersion
<1> HIDE DEF g
<1>4. g = k
  BY <1>1, <1>2, <1>3
<1> QED BY <1>4 DEF g, k

(* Ending the newest node of a chain at v extends its history by nothing.  *)
LiveThenEnded(c, d, v, p, q) ==
  /\ p = {} /\ q = {} /\ c # <<>> /\ c[Len(c)].del = NoDel /\ Len(d) = Len(c) /\ v \in Nat /\ v < NoDel
  /\ \A i \in 1..Len(c) :
       /\ d[i].version = c[i].version /\ d[i].value = c[i].value
       /\ d[i].del = IF i = Len(c) THEN v ELSE c[i].del
       /\ c[i].version < v

LEMMA EndExtends ==
  ASSUME NEW c \in Seq(Nodes), Spans(c), NEW d \in Seq(Nodes), Spans(d),
         NEW v, NEW p, NEW q, LiveThenEnded(c, d, v, p, q),
         NEW h, h = HistoryOf(c, p)
  PROVE  HistoryOf(d, q) = WithVersion(h, v, NoValue)
<1> DEFINE k == HistoryOf(d, q)
<1>1. Len(c) \in Nat /\ \A i \in 1..Len(c) : c[i].version \in Nat
  BY NodeFields
<1>2. /\ DOMAIN h = StartsOf(c) \cup EndsOf(c, p)
      /\ \A i \in 1..Len(c) : h[c[i].version] = c[i].value
      /\ \A w \in EndsOf(c, p) \ StartsOf(c) : h[w] = NoValue
  BY HistoryAt
<1>3. /\ DOMAIN k = StartsOf(d) \cup EndsOf(d, q)
      /\ \A i \in 1..Len(d) : k[d[i].version] = d[i].value
      /\ \A w \in EndsOf(d, q) \ StartsOf(d) : k[w] = NoValue
      /\ k = [w \in DOMAIN k |-> k[w]]
  BY HistoryAt, HistoryIsFunction
<1> HIDE DEF k
<1> USE DEF LiveThenEnded
<1>4. StartsOf(d) = StartsOf(c)
  BY DEF StartsOf
<1>5. v \notin StartsOf(c)
  <2>1. ASSUME NEW i \in 1..Len(c), v = c[i].version PROVE FALSE
    BY <1>1, <2>1
  <2> QED BY <2>1 DEF StartsOf
<1>6. EndsOf(d, q) = EndsOf(c, p) \cup {v}
  <2>1. ASSUME NEW w \in EndsOf(d, q) PROVE w \in EndsOf(c, p) \cup {v}
    BY <2>1 DEF EndsOf
  <2>2. ASSUME NEW w \in EndsOf(c, p) PROVE w \in EndsOf(d, q)
    <3>1. PICK i \in 1..Len(c) : w = c[i].del
      BY <2>2 DEF EndsOf
    <3>2. w # NoDel
      BY <2>2 DEF EndsOf
    <3>3. i # Len(c)
      BY <3>1, <3>2
    <3> QED BY <3>1, <3>2, <3>3 DEF EndsOf
  <2>3. v \in EndsOf(d, q)
    <3>1. Len(c) \in 1..Len(c)
      BY <1>1
    <3> QED BY <3>1, Constants DEF EndsOf
  <2> QED BY <2>1, <2>2, <2>3
<1>7. DOMAIN k = DOMAIN h \cup {v}
  BY <1>2, <1>3, <1>4, <1>6
<1>8. k[v] = NoValue
  BY <1>3, <1>4, <1>5, <1>6
<1>9. ASSUME NEW w \in DOMAIN h, w # v PROVE k[w] = h[w]
  <2>1. CASE w \in StartsOf(c)
    <3>1. PICK i \in 1..Len(c) : w = c[i].version
      BY <2>1 DEF StartsOf
    <3> QED BY <1>2, <1>3, <3>1
  <2>2. CASE w \notin StartsOf(c)
    BY <1>2, <1>3, <1>4, <1>6, <2>2
  <2> QED BY <2>1, <2>2
<1>10. k = WithVersion(h, v, NoValue)
  BY <1>7, <1>8, <1>9, Extended DEF k
<1> QED BY <1>10 DEF k

(* A delete of a live record is a write of nothing.                        *)
LEMMA DeleteIsWrite ==
  ASSUME StampInv, Delete, IsLive
  PROVE  /\ write.version \in Versions
         /\ \A w \in DOMAIN History : w < write.version
         /\ History' = WithVersion(History, write.version, NoValue)
         /\ Due' = Due /\ UNCHANGED <<asked, answer>>
<1> DEFINE v == write.version
<1>1. /\ wpc = "begun" /\ StampNewest(v) /\ wpc' = "idle"
      /\ UNCHANGED <<kind, asked, pos, answer>>
  BY DEF Delete, Return
<1>2. /\ chain \in Seq(Nodes) /\ chain # <<>> /\ Spans(chain) /\ Decisive(chain)
      /\ chain[Len(chain)].del = NoDel
      /\ \A i \in 1..Len(chain) : chain[i].version \in Nat /\ chain[i].del \in Nat
  BY NewestFields, NodeFields DEF StampInv, IsLive
<1>3. /\ chain' \in Seq(Nodes) /\ chain' # <<>> /\ Len(chain') = Len(chain)
      /\ Spans(chain') /\ Decisive(chain')
      /\ \A i \in 1..Len(chain) :
           /\ chain'[i].version = chain[i].version /\ chain'[i].value = chain[i].value
           /\ chain'[i].del = IF i = Len(chain) THEN v ELSE chain[i].del
  BY <1>1, StampStep
<1>4. /\ v \in Versions /\ v \in Nat /\ v < NoDel
      /\ \A i \in 1..Len(chain) : chain[i].version < v
      /\ \A w \in DOMAIN History : w < v
  BY <1>1, HistoryIsOlder
<1>5. Pending = {} /\ Pending' = {}
  BY <1>1 DEF Pending
<1> HIDE DEF v
<1>6. History = HistoryOf(chain, Pending) /\ History' = HistoryOf(chain', Pending')
  BY HistoryIs
<1>7. History' = WithVersion(History, v, NoValue)
  <2>1. LiveThenEnded(chain, chain', v, Pending, Pending')
    BY <1>2, <1>3, <1>4, <1>5 DEF LiveThenEnded
  <2>2. chain \in Seq(Nodes) /\ Spans(chain) /\ chain' \in Seq(Nodes) /\ Spans(chain')
    BY <1>2, <1>3
  <2> QED BY <1>6, <2>1, <2>2, EndExtends
<1>8. ASSUME NEW r \in Readers, asked[r] # 0
      PROVE  Visible(History', asked[r]) = Visible(History, asked[r])
  <2>1. asked[r] \in Versions /\ asked[r] \in Nat /\ asked[r] < v /\ asked[r] < NoDel
    BY <1>1, <1>8, Constants, ReadersIgnoreStamps DEF StampInv, ReadersAreBehind, v
  <2>2. \A i \in 1..Len(chain) : Alive(chain', i, asked[r]) <=> Alive(chain, i, asked[r])
    BY <1>2, <1>3, <1>4, <2>1 DEF Alive
  <2>3. Visible(HistoryOf(chain', Pending'), asked[r]) = Visible(HistoryOf(chain, Pending), asked[r])
    BY <1>2, <1>3, <1>5, <2>1, <2>2, SameVisible
  <2> QED BY <1>6, <2>3
<1>9. Due' = Due
  BY <1>1, <1>8 DEF Due
<1> QED BY <1>1, <1>4, <1>7, <1>9 DEF v

(* A new node at v, after a stamp at v or a deletion, extends the history. *)
EndedThenNext(c, d, v, p, q) ==
  /\ p = {v} /\ q = {} /\ Len(d) = Len(c) + 1 /\ v \in Nat
  /\ d[Len(c) + 1].version = v /\ d[Len(c) + 1].del = NoDel
  /\ \A i \in 1..Len(c) : d[i] = c[i] /\ c[i].version < v

LEMMA NodeExtends ==
  ASSUME NEW c \in Seq(Nodes), Spans(c), NEW d \in Seq(Nodes), Spans(d),
         NEW v, NEW p, NEW q, EndedThenNext(c, d, v, p, q),
         NEW h, h = HistoryOf(c, p)
  PROVE  HistoryOf(d, q) = WithVersion(h, v, d[Len(c) + 1].value)
<1> DEFINE k == HistoryOf(d, q)
           n == Len(c)
<1>1. n \in Nat /\ 1..Len(d) = (1..n) \cup {n + 1} /\ \A i \in 1..n : c[i].version \in Nat
  BY NodeFields DEF EndedThenNext
<1>2. /\ DOMAIN h = StartsOf(c) \cup EndsOf(c, p)
      /\ \A i \in 1..n : h[c[i].version] = c[i].value
      /\ \A w \in EndsOf(c, p) \ StartsOf(c) : h[w] = NoValue
  <2>1. /\ DOMAIN HistoryOf(c, p) = StartsOf(c) \cup EndsOf(c, p)
        /\ \A i \in 1..Len(c) : HistoryOf(c, p)[c[i].version] = c[i].value
        /\ \A w \in EndsOf(c, p) \ StartsOf(c) : HistoryOf(c, p)[w] = NoValue
    BY HistoryAt
  <2> QED BY <2>1
<1>3. /\ DOMAIN k = StartsOf(d) \cup EndsOf(d, q)
      /\ \A i \in 1..Len(d) : k[d[i].version] = d[i].value
      /\ \A w \in EndsOf(d, q) \ StartsOf(d) : k[w] = NoValue
      /\ k = [w \in DOMAIN k |-> k[w]]
  BY HistoryAt, HistoryIsFunction
<1> HIDE DEF k
<1> USE DEF EndedThenNext
<1>4. StartsOf(d) = StartsOf(c) \cup {v}
  <2>1. ASSUME NEW w \in StartsOf(d) PROVE w \in StartsOf(c) \cup {v}
    <3>1. PICK i \in 1..Len(d) : w = d[i].version
      BY <2>1 DEF StartsOf
    <3>2. i \in 1..n \/ i = n + 1
      BY <1>1
    <3> QED BY <3>1, <3>2 DEF StartsOf
  <2>2. ASSUME NEW w \in StartsOf(c) PROVE w \in StartsOf(d)
    <3>1. PICK i \in 1..n : w = c[i].version
      BY <2>2 DEF StartsOf
    <3> QED BY <1>1, <3>1 DEF StartsOf
  <2>3. v \in StartsOf(d)
    BY <1>1 DEF StartsOf
  <2> QED BY <2>1, <2>2, <2>3
<1>5. v \notin StartsOf(c)
  <2>1. ASSUME NEW i \in 1..n, v = c[i].version PROVE FALSE
    BY <1>1, <2>1
  <2> QED BY <2>1 DEF StartsOf
<1>6. EndsOf(d, q) \subseteq EndsOf(c, p) \cup {v} /\ EndsOf(c, p) \subseteq EndsOf(d, q)
  <2>1. ASSUME NEW w \in EndsOf(d, q) PROVE w \in EndsOf(c, p) \cup {v}
    <3>1. PICK i \in 1..Len(d) : w = d[i].del
      BY <2>1 DEF EndsOf
    <3>2. w # NoDel
      BY <2>1 DEF EndsOf
    <3>3. i \in 1..n
      BY <1>1, <3>1, <3>2
    <3> QED BY <3>1, <3>2, <3>3 DEF EndsOf
  <2>2. ASSUME NEW w \in EndsOf(c, p) PROVE w \in EndsOf(d, q)
    <3>1. PICK i \in 1..n : w = c[i].del
      BY <2>2 DEF EndsOf
    <3>2. w # NoDel
      BY <2>2 DEF EndsOf
    <3> QED BY <1>1, <3>1, <3>2 DEF EndsOf
  <2> QED BY <2>1, <2>2
<1>7. DOMAIN k = DOMAIN h \cup {v}
  BY <1>2, <1>3, <1>4, <1>6
<1>8. k[v] = d[n + 1].value
  BY <1>1, <1>3
<1>9. ASSUME NEW w \in DOMAIN h, w # v PROVE k[w] = h[w]
  <2>1. CASE w \in StartsOf(c)
    <3>1. PICK i \in 1..n : w = c[i].version
      BY <2>1 DEF StartsOf
    <3>2. i \in 1..Len(d) /\ d[i] = c[i]
      BY <1>1
    <3> QED BY <1>2, <1>3, <3>1, <3>2
  <2>2. CASE w \notin StartsOf(c)
    BY <1>2, <1>3, <1>4, <1>6, <1>9, <2>2
  <2> QED BY <2>1, <2>2
<1> DEFINE x == d[n + 1].value
<1> HIDE DEF x, n
<1>10. k = WithVersion(h, v, x)
  <2>1. k[v] = x
    BY <1>8 DEF x
  <2>2. \A w \in DOMAIN h : w # v => k[w] = h[w]
    BY <1>9
  <2> HIDE DEF EndedThenNext
  <2> QED BY <1>7, <2>1, <2>2, Extended DEF k
<1> QED BY <1>10 DEF k, x, n

(* Publishing is the write, below all snapshots in use.                    *)
LEMMA PublishIsWrite ==
  ASSUME StampInv, Publish
  PROVE  /\ write.version \in Versions /\ write.value \in Values
         /\ \A w \in DOMAIN History : w < write.version
         /\ History' = WithVersion(History, write.version, write.value)
         /\ Due' = Due /\ UNCHANGED <<asked, answer>>
<1> DEFINE v == write.version
           n == Len(chain)
           e == [version |-> write.version, value |-> write.value, del |-> NoDel]
<1>1. wpc = "publish" /\ wpc' = "idle" /\ UNCHANGED <<kind, asked, pos, answer>>
  BY DEF Publish, Return
<1>2. /\ chain \in Seq(Nodes) /\ chain # <<>> /\ n \in Nat /\ Spans(chain) /\ Decisive(chain)
  BY NewestFields DEF StampInv
<1>3. /\ chain' \in Seq(Nodes) /\ chain' # <<>> /\ Len(chain') = n + 1
      /\ Spans(chain') /\ Decisive(chain')
      /\ chain'[n + 1] = e /\ \A i \in 1..n : chain'[i] = chain[i]
  BY PublishStep
<1>4. e.version = v /\ e.value = write.value /\ e.del = NoDel
  OBVIOUS
<1>5. /\ v \in Versions /\ v \in Nat /\ v < NoDel /\ write.value \in Values
      /\ \A i \in 1..n : chain[i].version < v
      /\ \A w \in DOMAIN History : w < v
  BY <1>1, HistoryIsOlder DEF StampInv, WriterIsAhead
<1>6. Pending = {v} /\ Pending' = {}
  BY <1>1 DEF Pending
<1>7. ASSUME NEW r \in Readers, asked[r] # 0
      PROVE  asked[r] \in Versions /\ asked[r] \in Nat /\ asked[r] < v
  BY <1>1, <1>7, ReadersIgnoreStamps DEF StampInv, ReadersAreBehind
<1> HIDE DEF v, e
<1>8. History = HistoryOf(chain, Pending) /\ History' = HistoryOf(chain', Pending')
  BY HistoryIs
<1>9. History' = WithVersion(History, v, chain'[n + 1].value)
  <2>1. EndedThenNext(chain, chain', v, Pending, Pending')
    BY <1>2, <1>3, <1>4, <1>5, <1>6 DEF EndedThenNext
  <2>2. chain \in Seq(Nodes) /\ Spans(chain) /\ chain' \in Seq(Nodes) /\ Spans(chain')
    BY <1>2, <1>3
  <2> QED BY <1>8, <2>1, <2>2, NodeExtends
<1>10. ASSUME NEW r \in Readers, asked[r] # 0
       PROVE  Visible(History', asked[r]) = Visible(History, asked[r])
  <2>1. asked[r] \in Versions /\ asked[r] \in Nat /\ asked[r] < v
    BY <1>7, <1>10
  <2>2. ~Alive(chain', n + 1, asked[r])
    BY <1>3, <1>4, <1>5, <2>1 DEF Alive
  <2>3. \A i \in 1..n : /\ i \in 1..Len(chain') /\ chain'[i].value = chain[i].value
                        /\ Alive(chain', i, asked[r]) <=> Alive(chain, i, asked[r])
    BY <1>2, <1>3 DEF Alive
  <2>4. \A i \in 1..Len(chain') : Alive(chain', i, asked[r]) =>
          i \in 1..n /\ Alive(chain, i, asked[r])
    <3>1. \A i \in 1..Len(chain') : i \in 1..n \/ i = n + 1
      BY <1>2, <1>3
    <3> QED BY <2>2, <2>3, <3>1
  <2>5. Visible(HistoryOf(chain', Pending'), asked[r]) = Visible(HistoryOf(chain, Pending), asked[r])
    BY <1>2, <1>3, <1>6, <2>1, <2>3, <2>4, SameVisible
  <2> QED BY <1>8, <2>5
<1>11. Due' = Due
  BY <1>1, <1>10 DEF Due
<1> QED BY <1>1, <1>3, <1>4, <1>5, <1>9, <1>11 DEF v

(* Cloning forgets deletions, and nothing else.                            *)
LEMMA CloneIsRevival ==
  ASSUME StampInv, Clone
  PROVE  /\ \E undone \in SUBSET {v \in DOMAIN History : History[v] = NoValue} :
              History' = [v \in DOMAIN History \ undone |-> History[v]]
         /\ Due' = Due /\ UNCHANGED <<asked, answer>>
<1>1. wpc = "idle" /\ UNCHANGED <<wpc, asked, answer>> /\ \A r \in Readers : asked[r] = 0
  BY DEF Clone
<1>2. /\ chain \in Seq(Nodes) /\ Len(chain) \in Nat /\ Len(chain) \in 1..Len(chain)
      /\ Spans(chain)
  BY NewestFields DEF StampInv
<1>3. /\ chain' \in Seq(Nodes) /\ Len(chain') = Len(chain) /\ Spans(chain')
      /\ \A i \in 1..Len(chain) :
           /\ chain'[i].version = chain[i].version /\ chain'[i].value = chain[i].value
           /\ chain'[i].del = CloneEnd(chain, i)
  BY CloneStep
<1>4. Pending = {} /\ Pending' = {}
  BY <1>1 DEF Pending
<1>5. /\ DOMAIN History = StartsOf(chain) \cup EndsOf(chain, Pending)
      /\ \A i \in 1..Len(chain) : History[chain[i].version] = chain[i].value
      /\ \A w \in EndsOf(chain, Pending) \ StartsOf(chain) : History[w] = NoValue
  BY <1>2, HistoryIs, HistoryAt
<1>6. /\ DOMAIN History' = StartsOf(chain') \cup EndsOf(chain', Pending')
      /\ \A i \in 1..Len(chain) : History'[chain'[i].version] = chain'[i].value
      /\ \A w \in EndsOf(chain', Pending') \ StartsOf(chain') : History'[w] = NoValue
      /\ History' = [w \in DOMAIN History' |-> History'[w]]
  <2>1. chain' \in Seq(Nodes) /\ Spans(chain') /\ Len(chain') = Len(chain)
    BY <1>3
  <2> DEFINE h == HistoryOf(chain', Pending')
  <2>2. /\ DOMAIN h = StartsOf(chain') \cup EndsOf(chain', Pending')
        /\ \A i \in 1..Len(chain') : h[chain'[i].version] = chain'[i].value
        /\ \A w \in EndsOf(chain', Pending') \ StartsOf(chain') : h[w] = NoValue
    BY <2>1, HistoryAt
  <2>3. h = [w \in DOMAIN h |-> h[w]]
    BY HistoryIsFunction
  <2>4. History' = h
    BY HistoryIs
  <2> HIDE DEF h
  <2> QED BY <2>1, <2>2, <2>3, <2>4
<1>7. StartsOf(chain') = StartsOf(chain)
  BY <1>2, <1>3 DEF StartsOf
<1>8. EndsOf(chain', Pending') \subseteq StartsOf(chain) \cup EndsOf(chain, Pending)
  <2>1. ASSUME NEW w \in EndsOf(chain', Pending') PROVE w \in StartsOf(chain) \cup EndsOf(chain, Pending)
    <3>1. PICK i \in 1..Len(chain) : w = CloneEnd(chain, i)
      BY <1>3, <2>1 DEF EndsOf
    <3>2. w # NoDel
      BY <2>1 DEF EndsOf
    <3>3. CASE w = chain[1].del
      <4>1. 1 \in 1..Len(chain)
        BY <1>2
      <4> QED BY <1>4, <3>2, <3>3, <4>1 DEF EndsOf
    <3>4. CASE i < Len(chain) /\ w = chain[i + 1].version
      <4>1. i + 1 \in 1..Len(chain)
        BY <1>2, <3>4
      <4> QED BY <3>4, <4>1 DEF StartsOf
    <3> QED BY <1>2, <3>1, <3>2, <3>3, <3>4 DEF CloneEnd
  <2> QED BY <2>1
<1>9. ASSUME NEW w \in DOMAIN History' PROVE w \in DOMAIN History /\ History'[w] = History[w]
  <2>1. CASE w \in StartsOf(chain)
    <3>1. PICK i \in 1..Len(chain) : w = chain[i].version
      BY <1>2, <2>1 DEF StartsOf
    <3> QED BY <1>3, <1>5, <1>6, <2>1, <3>1
  <2>2. CASE w \notin StartsOf(chain)
    BY <1>5, <1>6, <1>7, <1>8, <2>2
  <2> QED BY <2>1, <2>2
<1> DEFINE undone == DOMAIN History \ DOMAIN History'
<1>10. undone \in SUBSET {v \in DOMAIN History : History[v] = NoValue}
  BY <1>5, <1>6, <1>7
<1>11. DOMAIN History \ undone = DOMAIN History'
  BY <1>9
<1> HIDE DEF undone
<1>12. History' = [v \in DOMAIN History \ undone |-> History[v]]
  BY <1>6, <1>9, <1>11
<1>13. Due' = Due
  BY <1>1 DEF Due
<1> QED BY <1>1, <1>10, <1>12, <1>13

(* What a search finds is what was due.                                    *)
LEMMA AnswerIsDue ==
  ASSUME StampInv, NEW r \in Readers, Answer(r)
  PROVE  Due[r] = IF Matches(r) THEN chain[pos[r]].value ELSE NoValue
<1> DEFINE s == asked[r]
           p == pos[r]
           n == Len(chain)
<1>1. /\ s # 0 /\ (Matches(r) \/ p = 0 \/ kind = "SkipList")
      /\ s \in Versions /\ s \in Nat /\ \A v \in Pending : s < v
  BY ReadersIgnoreStamps DEF Answer
<1>2. /\ chain \in Seq(Nodes) /\ chain # <<>> /\ n \in Nat /\ p \in 0..n
      /\ Spans(chain) /\ Decisive(chain)
      /\ \A i \in 1..n : chain[i].version \in Nat /\ chain[i].del \in Nat
  BY NodeFields DEF StampInv, TypeOK
<1>3. /\ \A i \in p+1..n : ~Alive(chain, i, s)
      /\ kind = "SkipList" => (p # 0 => chain[p].version <= s)
  BY <1>1 DEF StampInv, WalksMissNothing
<1>4. /\ \A i \in 1..n : Alive(chain, i, s) => Visible(History, s) = chain[i].value
      /\ (\A i \in 1..n : ~Alive(chain, i, s)) => Visible(History, s) = NoValue
  BY <1>1, <1>2, VisibleIs, HistoryIs
<1>5. Due[r] = Visible(History, s)
  BY <1>1 DEF Due
<1> HIDE DEF s, p, n
<1>6. CASE Matches(r)
  <2>1. p \in 1..n /\ Alive(chain, p, s)
    BY <1>2, <1>6 DEF Matches, Alive, s, p
  <2> QED BY <1>4, <1>5, <1>6, <2>1 DEF p
<1>7. CASE ~Matches(r)
  <2>1. ASSUME NEW i \in 1..n PROVE ~Alive(chain, i, s)
    <3>1. CASE i \in p+1..n
      BY <1>3, <3>1
    <3>2. CASE i = p
      BY <1>1, <1>2, <1>7, <3>2 DEF Matches, Alive, s, p
    <3>3. CASE i < p
      <4>1. p # 0 /\ kind = "SkipList" /\ p \in i+1..Len(chain)
        BY <1>1, <1>2, <1>7, <3>3 DEF n
      <4>2. chain[i].del <= chain[p].version /\ chain[p].version <= s
        BY <1>2, <1>3, <4>1 DEF Spans, n
      <4>3. p \in 1..n
        BY <1>2, <4>1
      <4> QED BY <1>1, <1>2, <4>2, <4>3 DEF Alive
    <3> QED BY <1>2, <3>1, <3>2, <3>3
  <2> QED BY <1>4, <1>5, <1>7, <2>1
<1> QED BY <1>6, <1>7

(* Below the version in progress, a read of a stamped chain answers with   *)
(* the state of the record at its snapshot as it was when the read began,  *)
(* whatever is written, and although stamp and publication are two steps;  *)
(* cloning a list may undo deletions and does nothing else.                *)
THEOREM Refinement == Spec => ImplementsRecordContract
<1>1. Init => Contract!Init
  BY StartsAsContract DEF Contract!Init, Contract!Versions, Versions, Due,
     Contract!Visible, Visible, Contract!Seen, Seen
<1>2. ASSUME StampInv, [Next]_vars
      PROVE  [Contract!Next \/ Contract!Revive]_(Contract!vars)
  <2>1. CASE UNCHANGED <<History, asked, Due, answer>>
    BY <2>1 DEF Contract!vars, Due, Contract!Visible, Visible, Contract!Seen, Seen
  <2>2. ASSUME UNCHANGED <<chain, asked, answer>>, Pending' = Pending
        PROVE  UNCHANGED <<History, asked, Due, answer>>
    <3>1. History' = History
      BY <2>2, HistoryIs
    <3> QED BY <2>2, <3>1 DEF Due
  <2>3. CASE \E op \in Ops, v \in Versions, x \in Values \cup {NoValue} : Begin(op, v, x)
    BY <2>1, <2>2, <2>3 DEF Begin, Pending
  <2>4. CASE Delete
    <3>1. CASE IsLive
      <4>1. Contract!Write(write.version, NoValue)
        BY <1>2, <2>4, <3>1, DeleteIsWrite
           DEF Contract!Write, WithVersion, Due, Contract!Visible, Visible, Contract!Seen, Seen
      <4> QED BY <1>2, <2>4, <3>1, <4>1, DeleteIsWrite DEF Contract!Next, Contract!Versions, Versions
    <3>2. CASE ~IsLive
      BY <2>1, <2>2, <2>4, <3>2 DEF Delete, StampNewest, Return, Pending
    <3> QED BY <3>1, <3>2
  <2>5. CASE AppendRefused
    BY <2>1, <2>2, <2>5 DEF AppendRefused, Return, Pending
  <2>6. CASE Stamp
    BY <1>2, <2>1, <2>6, StampIsSilent
  <2>7. CASE Publish
    <3>1. Contract!Write(write.version, write.value)
      BY <1>2, <2>7, PublishIsWrite
         DEF Contract!Write, WithVersion, Due, Contract!Visible, Visible, Contract!Seen, Seen
    <3> QED BY <1>2, <2>7, <3>1, PublishIsWrite DEF Contract!Next, Contract!Versions, Versions
  <2>8. CASE Clone
    <3>1. Contract!Revive
      BY <1>2, <2>8, CloneIsRevival
         DEF Clone, Contract!Revive, Due, Contract!Visible, Visible, Contract!Seen, Seen
    <3> QED BY <3>1
  <2>9. ASSUME NEW r \in Readers, NEW s \in Versions, Ask(r, s) PROVE Contract!Next
    <3>1. /\ asked[r] = 0 /\ asked' = [asked EXCEPT ![r] = s] /\ UNCHANGED <<chain, wpc, write, answer>>
          /\ s # 0 /\ asked \in [Readers -> 0..MaxVersion]
      BY <1>2, <2>9, Constants DEF Ask, StampInv, TypeOK
    <3>2. History' = History
      BY <3>1, HistoryIs DEF Pending
    <3>3. Due' = [Due EXCEPT ![r] = Visible(History, s)]
      BY <3>1, <3>2 DEF Due
    <3>4. Contract!Ask(r, s)
      BY <3>1, <3>2, <3>3 DEF Contract!Ask, Due, Contract!Visible, Visible, Contract!Seen, Seen
    <3> QED BY <3>4 DEF Contract!Next, Contract!Versions, Versions
  <2>10. ASSUME NEW r \in Readers, Walk(r) PROVE UNCHANGED <<History, asked, Due, answer>>
    BY <2>2, <2>10 DEF Walk, Pending
  <2>11. ASSUME NEW r \in Readers, Answer(r) PROVE Contract!Next
    <3>1. /\ asked[r] # 0 /\ asked' = [asked EXCEPT ![r] = 0] /\ UNCHANGED <<chain, wpc, write>>
          /\ asked \in [Readers -> 0..MaxVersion]
      BY <1>2, <2>11 DEF Answer, StampInv, TypeOK
    <3>2. answer' = [answer EXCEPT ![r] = Due[r]]
      BY <1>2, <2>11, AnswerIsDue DEF Answer
    <3>3. History' = History
      BY <3>1, HistoryIs DEF Pending
    <3>4. Due' = [Due EXCEPT ![r] = NoValue]
      BY <3>1, <3>3 DEF Due
    <3>5. Contract!Answer(r)
      BY <3>1, <3>2, <3>3, <3>4
         DEF Contract!Answer, Due, Contract!Visible, Visible, Contract!Seen, Seen
    <3> QED BY <3>5 DEF Contract!Next
  <2>12. CASE UNCHANGED vars
    BY <2>1, <2>2, <2>12 DEF vars, Pending
  <2> QED BY <1>2, <2>1, <2>3, <2>4, <2>5, <2>6, <2>7, <2>8, <2>9, <2>10, <2>11, <2>12 DEF Next
<1> QED BY <1>1, <1>2, Invariance, PTL DEF Spec, ImplementsRecordContract, Contract!ClonedSpec

=========================================================================
