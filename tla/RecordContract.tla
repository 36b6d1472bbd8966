------------------------- MODULE RecordContract -------------------------
(***************************************************************************)
(* What the version chain of one record promises, whatever data structure  *)
(* keeps it: a read under a snapshot answers with the value that the       *)
(* newest version not above the snapshot had when the read began.          *)
(***************************************************************************)
EXTENDS VersionHistory

VARIABLES
  history,    \* version |-> what the record was set to
  asked,      \* asked[r]: the snapshot r reads under, 0 when it does not
  due,        \* due[r]: what the read in progress will answer
  answer      \* answer[r]: what r's last read answered

vars == <<history, asked, due, answer>>

Init ==
  /\ \E v \in Versions, x \in Values : history = [w \in {v} |-> x]
  /\ asked = [r \in Readers |-> 0]
  /\ due = [r \in Readers |-> NoValue]
  /\ answer = [r \in Readers |-> NoValue]

(* Versions only grow: a write never changes what older snapshots see. *)
Write(v, x) ==
  /\ \A w \in DOMAIN history : w < v
  /\ history' = [w \in DOMAIN history \cup {v} |-> IF w = v THEN x ELSE history[w]]
  /\ UNCHANGED <<asked, due, answer>>

Ask(r, s) ==
  /\ asked[r] = 0
  /\ asked' = [asked EXCEPT ![r] = s]
  /\ due' = [due EXCEPT ![r] = Visible(history, s)]
  /\ UNCHANGED <<history, answer>>

Answer(r) ==
  /\ asked[r] # 0
  /\ answer' = [answer EXCEPT ![r] = due[r]]
  /\ asked' = [asked EXCEPT ![r] = 0]
  /\ due' = [due EXCEPT ![r] = NoValue]
  /\ UNCHANGED history

Next ==
  \/ \E v \in Versions, x \in Values \cup {NoValue} : Write(v, x)
  \/ \E r \in Readers : (\E s \in Versions : Ask(r, s)) \/ Answer(r)

Spec == Init /\ [][Next]_vars

(* Deletions are undone while nobody reads, which is not in the contract   *)
(* but in what cloning a list of versions does.                            *)
Revive ==
  /\ \A r \in Readers : asked[r] = 0
  /\ \E undone \in SUBSET {v \in DOMAIN history : history[v] = NoValue} :
       history' = [v \in DOMAIN history \ undone |-> history[v]]
  /\ UNCHANGED <<asked, due, answer>>

ClonedSpec == Init /\ [][Next \/ Revive]_vars
=========================================================================
