--------------------------- MODULE RidgeChain ---------------------------
(***************************************************************************)
(* The version chain of one record as a list of immutable nodes woven with *)
(* skip links (AtomicFrugalList, and the same vertical list inside         *)
(* AtomicVWeaverList).  One writer at a time, the one that holds the leaf, *)
(* prepends nodes; readers walk from whatever head they loaded, hop by     *)
(* hop, at the same time.  Node i is the i-th version: its next link leads *)
(* to node i - 1 and its v_ridgy link to node ridge.                       *)
(***************************************************************************)
EXTENDS VersionHistory, Sequences

CONSTANT SENTINEL_LEVEL  \* usize::MAX, the level of the first node

FLAT_LEVEL == 0

(* No chain is so long that its towers reach the sentinel's level.         *)
ASSUME LevelAssumption == SENTINEL_LEVEL \in Nat /\ MaxVersion <= SENTINEL_LEVEL

VARIABLES
  chain,      \* the nodes, oldest first; the head is the last of them
  wpc,        \* the writer: "idle", "begun" (has its version), "weave"
  write,      \* what the writer is adding, and where its weaving stands
  asked,      \* asked[r]: the snapshot r reads under, 0 when it does not
  pos,        \* pos[r]: the node that r's walk has reached
  answer      \* answer[r]: what r's last read returned

vars == <<chain, wpc, write, asked, pos, answer>>

Nodes == [version : Versions, value : Values \cup {NoValue},
          level : 0..SENTINEL_LEVEL, ridge : 0..MaxVersion]

Writes == [version : 0..MaxVersion, value : Values \cup {NoValue},
           level : 0..SENTINEL_LEVEL, cur : 0..MaxVersion]

NoWrite == [version |-> 0, value |-> NoValue, level |-> 0, cur |-> 0]

Newest == chain[Len(chain)]
IsLive == Newest.value # NoValue

TypeOK ==
  /\ chain \in Seq(Nodes) /\ chain # <<>>
  /\ wpc \in {"idle", "begun", "weave"}
  /\ write \in Writes
  /\ asked \in [Readers -> 0..MaxVersion]
  /\ pos \in [Readers -> 0..MaxVersion]
  /\ answer \in [Readers -> Values \cup {NoValue}]

(* AtomicFrugalList::new: the sentinel holds the first version. *)
Init ==
  /\ \E v \in Versions, x \in Values :
       chain = <<[version |-> v, value |-> x, level |-> SENTINEL_LEVEL, ridge |-> 0]>>
  /\ wpc = "idle"
  /\ write = NoWrite
  /\ asked = [r \in Readers |-> 0]
  /\ pos = [r \in Readers |-> 0]
  /\ answer = [r \in Readers |-> NoValue]

-------------------------------------------------------------------------
(* The writer. *)

(* Fault: the version is drawn before the latch is held. *)
Begin_Early(v, x) ==
  /\ wpc = "idle"
  /\ wpc' = "begun"
  /\ write' = [NoWrite EXCEPT !.version = v, !.value = x]
  /\ UNCHANGED <<chain, asked, pos, answer>>

(* dispatch draws the version under the leaf's latch, before it looks at   *)
(* the chain.                                                              *)
Begin(v, x) ==
  /\ wpc = "idle"
  /\ v > Newest.version
  /\ wpc' = "begun"
  /\ write' = [NoWrite EXCEPT !.version = v, !.value = x]
  /\ UNCHANGED <<chain, asked, pos, answer>>

(* delete of a record that is already dead changes nothing. *)
DeleteDead ==
  /\ wpc = "begun"
  /\ write.value = NoValue /\ ~IsLive
  /\ wpc' = "idle"
  /\ write' = NoWrite
  /\ UNCHANGED <<chain, asked, pos, answer>>

Appending == wpc = "begun" /\ (write.value # NoValue \/ IsLive)

Publish(level, ridge) ==
  /\ chain' = Append(chain, [version |-> write.version, value |-> write.value,
                             level |-> level, ridge |-> ridge])
  /\ wpc' = "idle"
  /\ write' = NoWrite
  /\ UNCHANGED <<asked, pos, answer>>

(* Fault: a flat node without a ridge. *)
AppendNext_NoRidge ==
  /\ Appending
  /\ Publish(FLAT_LEVEL, 0)

(* The coin of append: a flat node ... *)
AppendNext ==
  /\ Appending
  /\ Publish(FLAT_LEVEL, Len(chain))

(* Fault: the level is not cut to its width. *)
AppendTower_NoWrap ==
  /\ Appending
  /\ wpc' = "weave"
  /\ write' = [write EXCEPT !.level = Newest.level + 1, !.cur = Len(chain)]
  /\ UNCHANGED <<chain, asked, pos, answer>>

(* ... or a tower one level above the head, on the sentinel a level that   *)
(* wraps to zero.                                                          *)
AppendTower ==
  /\ Appending
  /\ wpc' = "weave"
  /\ write' = [write EXCEPT !.level = (Newest.level + 1) % (SENTINEL_LEVEL + 1),
                            !.cur = Len(chain)]
  /\ UNCHANGED <<chain, asked, pos, answer>>

(* append_tower goes back along the ridges until a node is high enough. *)
Weave ==
  /\ wpc = "weave"
  /\ chain[write.cur].level < write.level
  /\ chain[write.cur].ridge # 0
  /\ write' = [write EXCEPT !.cur = chain[write.cur].ridge]
  /\ UNCHANGED <<chain, wpc, asked, pos, answer>>

(* Faults: no weaving before the ridge is set, or a ridge to the node itself. *)
PublishTower_Unwoven ==
  /\ wpc = "weave"
  /\ Publish(write.level, write.cur)

PublishTower_ToItself ==
  /\ wpc = "weave"
  /\ chain[write.cur].level >= write.level
  /\ Publish(write.level, Len(chain) + 1)

PublishTower ==
  /\ wpc = "weave"
  /\ chain[write.cur].level >= write.level
  /\ Publish(write.level, write.cur)

-------------------------------------------------------------------------
(* A reader: find, that is find_from with the head it has loaded. *)

Ask(r, s) ==
  /\ asked[r] = 0
  /\ asked' = [asked EXCEPT ![r] = s]
  /\ pos' = [pos EXCEPT ![r] = Len(chain)]
  /\ UNCHANGED <<chain, wpc, write, answer>>

(* The condition of find_from's loop. *)
TooNew(r) ==
  /\ chain[pos[r]].level < SENTINEL_LEVEL
  /\ chain[pos[r]].version > asked[r]

(* Fault: the ridge is taken whenever there is one. *)
Hop_Blind(r) ==
  IF chain[pos[r]].ridge # 0 THEN chain[pos[r]].ridge ELSE pos[r] - 1

(* The ridge is taken only if it does not lead past the snapshot. *)
Hop(r) ==
  LET ridge == chain[pos[r]].ridge
  IN IF ridge # 0 /\ chain[ridge].version > asked[r] THEN ridge ELSE pos[r] - 1

Walk(r) ==
  /\ asked[r] # 0
  /\ TooNew(r)
  /\ pos' = [pos EXCEPT ![r] = Hop(r)]
  /\ UNCHANGED <<chain, wpc, write, asked, answer>>

Answer(r) ==
  /\ asked[r] # 0
  /\ ~TooNew(r)
  /\ answer' = [answer EXCEPT ![r] =
       IF chain[pos[r]].version <= asked[r] THEN chain[pos[r]].value ELSE NoValue]
  /\ asked' = [asked EXCEPT ![r] = 0]
  /\ pos' = [pos EXCEPT ![r] = 0]
  /\ UNCHANGED <<chain, wpc, write>>

-------------------------------------------------------------------------
Writer ==
  \/ DeleteDead
  \/ AppendNext
  \/ AppendTower
  \/ Weave
  \/ PublishTower

Reader(r) == Walk(r) \/ Answer(r)

Next ==
  \/ \E v \in Versions, x \in Values \cup {NoValue} : Begin(v, x)
  \/ Writer
  \/ \E r \in Readers : (\E s \in Versions : Ask(r, s)) \/ Reader(r)

(* Threads in the middle of a call go on with it. *)
Fairness == WF_vars(Writer) /\ \A r \in Readers : WF_vars(Reader(r))

Spec     == Init /\ [][Next]_vars
FairSpec == Spec /\ Fairness

-------------------------------------------------------------------------
(* Every ridge leads to the nearest older node that is at least as high,   *)
(* so that weaving skips exactly the lower towers in between.              *)
RidgesAreNearest ==
  \A i \in 2..Len(chain) :
    LET n == chain[i]
    IN /\ n.ridge \in 1..i-1
       /\ chain[n.ridge].level >= n.level
       /\ \A k \in n.ridge+1..i-1 : chain[k].level < n.level

(* The unreachable! of append_tower is not reached ("weaving sentinel      *)
(* never seen!"), and find_from never unwraps a missing next link.         *)
NoBrokenLink ==
  /\ wpc = "weave" /\ chain[write.cur].level < write.level =>
       chain[write.cur].ridge # 0
  /\ \A r \in Readers : asked[r] # 0 /\ TooNew(r) => pos[r] > 1

(* The record's history is the chain itself; what a walk will find is      *)
(* settled by the nodes that were there when it loaded the head.           *)
HistoryTo(c, n) ==
  [v \in {c[i].version : i \in 1..n} |->
     c[CHOOSE i \in 1..n : c[i].version = v].value]

Contract == INSTANCE RecordContract WITH
  history <- HistoryTo(chain, Len(chain)),
  due <- [r \in Readers |->
            IF asked[r] = 0 THEN NoValue ELSE Visible(HistoryTo(chain, pos[r]), asked[r])]

(* Reading under a snapshot is atomic: with a writer at work under any     *)
(* version, below the snapshot or above it, a walk answers with the state  *)
(* of the record when it began.                                            *)
ImplementsRecordContract == Contract!Spec

(* Every read comes to an end, however often the record is written. *)
ReadsEnd == \A r \in Readers : asked[r] # 0 ~> asked[r] = 0

-------------------------------------------------------------------------
(* The inductive invariant behind all of this, in named parts.             *)

(* Newer nodes have higher versions.                                       *)
Ascending(c) ==
  \A i \in 1..Len(c) :
    /\ c[i].version >= i
    /\ \A j \in i+1..Len(c) : c[i].version < c[j].version

(* m is the newest of the first n nodes that a snapshot s includes.        *)
Decides(c, n, m, s) ==
  /\ m \in 1..n
  /\ c[m].version <= s
  /\ \A k \in m+1..n : c[k].version > s

(* A snapshot either precedes the record or has such a node.               *)
Decisive(c) ==
  \A s \in Versions, n \in 1..Len(c) :
    c[1].version > s \/ \E m \in 1..n : Decides(c, n, m, s)

(* Towers grow by one level per node at most: none reaches the sentinel.   *)
TowersAreLow ==
  /\ chain[1].level = SENTINEL_LEVEL
  /\ \A i \in 2..Len(chain) : chain[i].level <= i - 2

(* The version at work is newer than the chain.                            *)
WriterIsAhead == wpc # "idle" => write.version > Newest.version

(* Weaving has passed nothing but lower towers.                            *)
WeavePassesLower ==
  wpc = "weave" =>
    /\ write.cur \in 1..Len(chain)
    /\ write.level <= Len(chain) - 1
    /\ \A k \in write.cur+1..Len(chain) : chain[k].level < write.level

(* The chain is in order, its towers are low and well woven, and writer and*)
(* readers stand on its nodes.                                             *)
RidgeInv ==
  /\ TypeOK
  /\ Ascending(chain)
  /\ Decisive(chain)
  /\ TowersAreLow
  /\ RidgesAreNearest
  /\ WriterIsAhead
  /\ WeavePassesLower
  /\ \A r \in Readers : asked[r] # 0 => pos[r] \in 1..Len(chain)
=========================================================================
