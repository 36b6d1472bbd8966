---------------------------- MODULE MCVWeaver ----------------------------
(* Two leaves of two and four keys; two writers and a scan. *)
EXTENDS VWeaver

CONSTANTS w1, w2, r1

TwoLeaves == <<2, 6>>

Ins(k) == [op |-> "Insert", key |-> k, upto |-> k]
Upd(k) == [op |-> "Update", key |-> k, upto |-> k]
Del(k) == [op |-> "Delete", key |-> k, upto |-> k]

Scan(lo, hi) == <<[op |-> "Range", key |-> lo, upto |-> hi]>>

Script(a, b, c) == [t \in Threads |-> CASE t = w1 -> a [] t = w2 -> b [] t = r1 -> c]

(* A link into the other leaf while its end is being written; tombstones   *)
(* that are linked to and get links of their own; records that come up     *)
(* between linked ones, deletions of deleted records, and an insert that   *)
(* waits for itself.                                                       *)
Races ==
  {Script(<<Upd(2)>>, b, Scan(1, 6)) :
     b \in {<<Upd(4)>>, <<Del(4), Upd(4)>>, <<Upd(3), Ins(3)>>, <<Ins(5)>>}}
  \cup {Script(<<Del(2), Upd(1), Ins(2)>>, <<Upd(4)>>, Scan(1, 4)),
        Script(<<Upd(1), Upd(2), Del(1), Upd(2), Del(1)>>, <<Ins(3)>>, Scan(1, 3)),
        Script(<<Ins(1), Ins(2)>>, <<Del(4)>>, Scan(2, 4))}
=========================================================================
