-------------------------- MODULE StampedChain --------------------------
(***************************************************************************)
(* The version chain of one record where every node carries the version    *)
(* that ended it: the linked list (AtomicVersionList, VANILLA) and the     *)
(* concurrent skip map (SkipList).  A write is two steps, it stamps the    *)
(* newest node and then publishes its own, with readers in between.        *)
(***************************************************************************)
EXTENDS VersionHistory, Sequences

VARIABLES
  kind,       \* VersionIndexType of the tree, fixed
  chain,      \* the nodes, oldest first
  wpc,        \* the writer: "idle", "begun" (has its version), "publish"
  write,      \* the call: its operation, version and payload
  reported,   \* history: version and payload last reported as written
  asked,      \* asked[r]: the snapshot r reads under, 0 when it does not
  pos,        \* pos[r]: the node that r's search has reached, 0 past the end
  answer      \* answer[r]: what r's last read returned

vars == <<kind, chain, wpc, write, reported, asked, pos, answer>>

NoDel == MaxVersion + 1   \* Version::MAX, or an unset DeletedVersionInfo

Kinds == {"VANILLA", "SkipList"}
Ops   == {"push", "append", "delete"}

Nodes   == [version : Versions, value : Values, del : 1..NoDel]
Written == [version : 0..MaxVersion, value : Values \cup {NoValue}]
Nothing == [version |-> 0, value |-> NoValue]
NoWrite == [op |-> "none", version |-> 0, value |-> NoValue]

Newest   == chain[Len(chain)]
IsLive   == Newest.del = NoDel

TypeOK ==
  /\ kind \in Kinds
  /\ chain \in Seq(Nodes) /\ chain # <<>>
  /\ wpc \in {"idle", "begun", "publish"}
  /\ write \in [op : Ops \cup {"none"}, version : 0..MaxVersion,
                value : Values \cup {NoValue}]
  /\ reported \in Written
  /\ asked \in [Readers -> 0..MaxVersion]
  /\ pos \in [Readers -> 0..Len(chain)]
  /\ answer \in [Readers -> Values \cup {NoValue}]

Init ==
  /\ kind \in Kinds
  /\ \E v \in Versions, x \in Values :
       chain = <<[version |-> v, value |-> x, del |-> NoDel]>>
  /\ wpc = "idle"
  /\ write = NoWrite
  /\ reported = Nothing
  /\ asked = [r \in Readers |-> 0]
  /\ pos = [r \in Readers |-> 0]
  /\ answer = [r \in Readers |-> NoValue]

-------------------------------------------------------------------------
(* The writer, alone on the record under the leaf's latch. *)

(* What lists of stamped nodes need: no snapshot includes a version in     *)
(* progress. CommitClock shows where the clock keeps to it.                *)
BelowWriter(s) == wpc = "idle" \/ s < write.version

(* push is an insert of a key that has a record, append an update. *)
Begin(op, v, x) ==
  /\ wpc = "idle"
  /\ v > Newest.version /\ (Newest.del # NoDel => v > Newest.del)
  /\ \A r \in Readers : asked[r] < v
  /\ (op = "delete") = (x = NoValue)
  /\ wpc' = "begun"
  /\ write' = [op |-> op, version |-> v, value |-> x]
  /\ UNCHANGED <<kind, chain, reported, asked, pos, answer>>

(* Fault: the stamp of a dead node is overwritten. *)
StampNewest_Always(v) == chain' = [chain EXCEPT ![Len(chain)].del = v]

StampNewest(v) ==
  chain' = IF IsLive THEN [chain EXCEPT ![Len(chain)].del = v] ELSE chain

Return(outcome) ==
  /\ wpc' = "idle"
  /\ write' = NoWrite
  /\ reported' = outcome

(* Fault: a tombstone is published, as the woven list does. *)
Delete_Publishes ==
  /\ wpc = "begun" /\ write.op = "delete"
  /\ chain' = Append(chain, [version |-> write.version, value |-> NoValue, del |-> NoDel])
  /\ Return(Nothing)
  /\ UNCHANGED <<kind, asked, pos, answer>>

Delete ==
  /\ wpc = "begun" /\ write.op = "delete"
  /\ StampNewest(write.version)
  /\ Return(Nothing)
  /\ UNCHANGED <<kind, asked, pos, answer>>

(* The skip map refuses to append to a dead record, without telling. *)
Refused == kind = "SkipList" /\ write.op = "append" /\ ~IsLive

Success == [version |-> write.version, value |-> write.value]

AppendRefused ==
  /\ wpc = "begun" /\ Refused
  /\ Return(Success)
  /\ UNCHANGED <<kind, chain, asked, pos, answer>>

(* Fault: the old node is not ended before the new one is published. *)
Stamp_Skipped ==
  /\ wpc = "begun" /\ write.op # "delete" /\ ~Refused
  /\ wpc' = "publish"
  /\ UNCHANGED <<kind, chain, write, reported, asked, pos, answer>>

Stamp ==
  /\ wpc = "begun" /\ write.op # "delete" /\ ~Refused
  /\ StampNewest(write.version)
  /\ wpc' = "publish"
  /\ UNCHANGED <<kind, write, reported, asked, pos, answer>>

Publish ==
  /\ wpc = "publish"
  /\ chain' = Append(chain, [version |-> write.version, value |-> write.value,
                             del |-> NoDel])
  /\ Return(Success)
  /\ UNCHANGED <<kind, asked, pos, answer>>

(* A merge of leaves clones their records, with nobody else on them.  The  *)
(* map is shared; the list is rebuilt from its oldest node by appending    *)
(* the others, so that only the oldest keeps the end that it had.          *)
NewEnd(i) ==
  IF i = 1 /\ chain[1].del # NoDel THEN chain[1].del
  ELSE IF i < Len(chain) THEN chain[i + 1].version ELSE NoDel

Clone ==
  /\ kind = "VANILLA" /\ wpc = "idle" /\ \A r \in Readers : asked[r] = 0
  /\ chain' = [i \in DOMAIN chain |-> [chain[i] EXCEPT !.del = NewEnd(i)]]
  /\ UNCHANGED <<kind, wpc, write, reported, asked, pos, answer>>

-------------------------------------------------------------------------
(* Readers. *)

(* The list starts at the head it loads; the map looks up the newest entry *)
(* that is not above the snapshot (crossbeam's range, one step).           *)
Start(s) ==
  CHOOSE i \in 0..Len(chain) :
    IF kind = "VANILLA" THEN i = Len(chain)
    ELSE /\ i # 0 => chain[i].version <= s
         /\ \A j \in i+1..Len(chain) : chain[j].version > s

Ask(r, s) ==
  /\ asked[r] = 0
  /\ BelowWriter(s)
  /\ asked' = [asked EXCEPT ![r] = s]
  /\ pos' = [pos EXCEPT ![r] = Start(s)]
  /\ UNCHANGED <<kind, chain, wpc, write, reported, answer>>

Matches(r) ==
  /\ pos[r] # 0
  /\ chain[pos[r]].version <= asked[r]
  /\ chain[pos[r]].del > asked[r]

(* Only the list goes on to the next older node. *)
Walk(r) ==
  /\ asked[r] # 0 /\ pos[r] # 0
  /\ kind = "VANILLA" /\ ~Matches(r)
  /\ pos' = [pos EXCEPT ![r] = @ - 1]
  /\ UNCHANGED <<kind, chain, wpc, write, reported, asked, answer>>

Answer(r) ==
  /\ asked[r] # 0
  /\ Matches(r) \/ pos[r] = 0 \/ kind = "SkipList"
  /\ answer' = [answer EXCEPT ![r] = IF Matches(r) THEN chain[pos[r]].value ELSE NoValue]
  /\ asked' = [asked EXCEPT ![r] = 0]
  /\ pos' = [pos EXCEPT ![r] = 0]
  /\ UNCHANGED <<kind, chain, wpc, write, reported>>

-------------------------------------------------------------------------
Next ==
  \/ \E op \in Ops, v \in Versions, x \in Values \cup {NoValue} : Begin(op, v, x)
  \/ Delete
  \/ AppendRefused
  \/ Stamp
  \/ Publish
  \/ Clone
  \/ \E r \in Readers : (\E s \in Versions : Ask(r, s)) \/ Walk(r) \/ Answer(r)

Spec == Init /\ [][Next]_vars

-------------------------------------------------------------------------
(* The life spans of the nodes never overlap, and only the newest node, or *)
(* none, is alive.                                                         *)
LifeSpansAreDisjoint ==
  \A i \in 1..Len(chain)-1 : chain[i].version < chain[i].del
                             /\ chain[i].del <= chain[i+1].version

(* The chain as a history: an end that no successor begins is a deletion;  *)
(* the stamp of a write that has not published yet is not one.             *)
Ends == {chain[i].del : i \in 1..Len(chain)}
          \ ({NoDel} \cup IF wpc = "publish" THEN {write.version} ELSE {})

Starts == {chain[i].version : i \in 1..Len(chain)}

History ==
  [v \in Starts \cup Ends |->
     IF v \in Starts
       THEN chain[CHOOSE i \in 1..Len(chain) : chain[i].version = v].value
       ELSE NoValue]

Contract == INSTANCE RecordContract WITH
  history <- History,
  due <- [r \in Readers |->
            IF asked[r] = 0 THEN NoValue ELSE Visible(History, asked[r])]

(* Below the version in progress, reading under a snapshot is atomic, in   *)
(* spite of the stamp that comes before the new version; cloning a record  *)
(* may undo deletions, and nothing else.                                   *)
ImplementsRecordContract == Contract!ClonedSpec

(* A write that was reported as done can be read back under its version.   *)
ReportedIsFound ==
  wpc = "idle" /\ reported.version # 0 =>
    Visible(History, reported.version) = reported.value
=========================================================================
