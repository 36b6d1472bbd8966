-------------------------- MODULE KeyDirectory --------------------------
(***************************************************************************)
(* What the tree promises to the callers of dispatch, whatever its pages   *)
(* look like: a set of keys that have a record, some of them deleted, that *)
(* only loses deleted ones, and one answer per call.  None may miss a key  *)
(* that was there when the call began, unless its record was moved while   *)
(* the call was on its way.  What an answer finds is right, unless the     *)
(* records were moved while they were read: then it may be put together    *)
(* from several, and all that holds is that its key has a record.          *)
(***************************************************************************)
EXTENDS Naturals, SequencesExt

CONSTANTS
  Threads,    \* callers, one call each
  MinKey, MaxKey

VARIABLES
  keys,       \* keys that have a record
  dead,       \* those whose newest version is a deletion
  call,       \* call[t]: the operation and the keys it is about
  phase,      \* phase[t]: where the call stands
  swept,      \* keys whose deleted records have been collected
  owed,       \* owed[t]: the keys that the answer may not miss
  seen,       \* seen[t]: the key that a peek has found alive, if any
  adrift,     \* reads under which the records are being moved
  got,        \* got[t]: the keys of the answer
  reply       \* reply[t]: what the call answered

vars == <<keys, dead, swept, call, phase, owed, seen, adrift, got, reply>>

Peeks(c)  == c.op \in {"PeekMin", "PeekMax"}
Ends(c)   == Peeks(c) \/ c.op \in {"PopMin", "PopMax"}
Wanted(c) == IF Ends(c) THEN MinKey..MaxKey ELSE c.key..c.upto

Init ==
  /\ phase = [t \in Threads |-> "start"]
  /\ owed = [t \in Threads |-> {}]
  /\ seen = [t \in Threads |-> {}]
  /\ adrift = {}
  /\ got = [t \in Threads |-> <<>>]
  /\ reply = [t \in Threads |-> "none"]

Begin(t) ==
  /\ phase[t] = "start"
  /\ phase' = [phase EXCEPT ![t] = "open"]
  /\ owed' = [owed EXCEPT ![t] = keys \cap Wanted(call[t])]
  /\ UNCHANGED <<keys, dead, swept, call, seen, adrift, got, reply>>

(* Records are moved: what open calls have seen may be out of date, and    *)
(* reads that are looking at them right now are owed nothing any more.     *)
Move ==
  /\ \A t \in Threads : owed'[t] \subseteq owed[t]
  /\ DOMAIN owed' = Threads
  /\ adrift \subseteq adrift'
  /\ adrift' \ adrift \subseteq
       {t \in Threads : (call[t].op = "Point" \/ Peeks(call[t])) /\ owed'[t] = {}}
  /\ seen' = [t \in Threads |-> IF t \in adrift' THEN {} ELSE seen[t]]
  /\ UNCHANGED <<call, phase, got, reply, swept, keys, dead>>

(* Deleted records are collected: nobody can rely on them any more. *)
Sweep ==
  /\ UNCHANGED <<call, phase, seen, adrift, got, reply>>
  /\ swept \subseteq swept'
  /\ LET gone == (keys \ keys') IN
       /\ gone \subseteq dead \cap swept'
       /\ keys' = keys \ gone
       /\ dead' = dead \ gone
       /\ owed' = [t \in Threads |-> owed[t] \ gone]

(* A deleted record may come back to life when pages are merged. *)
Revive ==
  /\ dead' \subseteq dead
  /\ UNCHANGED <<keys, swept, call, phase, owed, seen, adrift, got, reply>>

Finish(t, r, ks) ==
  /\ phase[t] = "open"
  /\ phase' = [phase EXCEPT ![t] = "done"]
  /\ reply' = [reply EXCEPT ![t] = r]
  /\ got' = [got EXCEPT ![t] = ks]
  /\ owed' = [owed EXCEPT ![t] = {}]
  /\ seen' = [seen EXCEPT ![t] = {}]
  /\ adrift' = adrift \ {t}
  /\ UNCHANGED <<call, swept>>

Store(t) ==
  /\ call[t].op = "Insert"
  /\ Finish(t, "stored", <<>>)
  /\ keys' = keys \cup {call[t].key}
  /\ dead' = dead \ {call[t].key}

Find(t) ==
  /\ call[t].op \in {"Point", "Update", "Delete"}
  /\ call[t].key \in keys
  /\ Finish(t, "found", <<>>)
  /\ dead' = CASE call[t].op = "Update" -> dead \ {call[t].key}
               [] call[t].op = "Delete" -> dead \cup {call[t].key}
               [] call[t].op = "Point"  -> dead
  /\ UNCHANGED keys

Miss(t) ==
  /\ call[t].op \in {"Point", "Update", "Delete"}
  /\ owed[t] = {}
  /\ Finish(t, "missing", <<>>)
  /\ UNCHANGED <<keys, dead>>

(* A range: every owed key, each once and in order, and no key that was    *)
(* not there.                                                              *)
Collect(t) ==
  LET ks == got'[t] IN
  /\ call[t].op = "Range"
  /\ \A i, j \in DOMAIN ks : i < j => ks[i] < ks[j]
  /\ owed[t] \subseteq ToSet(ks)
  /\ ToSet(ks) \subseteq (keys \cup swept) \cap Wanted(call[t])
  /\ Finish(t, "matched", ks)
  /\ UNCHANGED <<keys, dead>>

(* No owed key lies beyond k. *)
IsEnd(t, k) ==
  \A j \in owed[t] : IF call[t].op \in {"PopMin", "PeekMin"} THEN k <= j ELSE j <= k

(* What is taken from the front is the first of all. *)
Pop(t) ==
  /\ call[t].op \in {"PopMin", "PopMax"}
  /\ \E k \in keys \ dead :
       /\ IsEnd(t, k)
       /\ call[t].op = "PopMin" => \A j \in keys : k <= j
       /\ Finish(t, "matched", <<k>>)
       /\ dead' = dead \cup {k}
  /\ UNCHANGED keys

(* A peek finds the record at the end alive before it takes its key. *)
Look(t) ==
  /\ Peeks(call[t]) /\ phase[t] = "open" /\ t \notin adrift
  /\ \E k \in keys \ dead : IsEnd(t, k) /\ seen' = [seen EXCEPT ![t] = {k}]
  /\ UNCHANGED <<keys, dead, swept, call, phase, owed, adrift, got, reply>>

Peek(t) ==
  /\ Peeks(call[t])
  /\ \E k \in keys :
       /\ k \in seen[t] \/ (k \notin dead /\ IsEnd(t, k))
       /\ Finish(t, "matched", <<k>>)
  /\ UNCHANGED <<keys, dead>>

(* A read gone adrift may take one record for another: the payload of any  *)
(* for the one it looked for ("other"), or the key of any, even a deleted  *)
(* one, for the end.                                                       *)
Mix(t) ==
  /\ t \in adrift
  /\ \/ call[t].op = "Point" /\ Finish(t, "other", <<>>)
     \/ /\ Peeks(call[t])
        /\ \E k \in keys, r \in {"matched", "other"} : Finish(t, r, <<k>>)
  /\ UNCHANGED <<keys, dead>>

(* The record at the end is deleted, and that is all that is looked at. *)
Nothing(t) ==
  /\ Ends(call[t])
  /\ owed[t] = {} \/ \E k \in dead : IsEnd(t, k)
  /\ Finish(t, IF call[t].op \in {"PopMin", "PopMax"} THEN "error" ELSE "nothing", <<>>)
  /\ UNCHANGED <<keys, dead>>

Serve(t) ==
  \/ Begin(t) \/ Store(t) \/ Find(t) \/ Miss(t) \/ Collect(t)
  \/ Pop(t) \/ Look(t) \/ Peek(t) \/ Mix(t) \/ Nothing(t)

Next == Move \/ \E t \in Threads : Serve(t)

Spec == Init /\ [][Next]_vars

(* The same, where no call can notice that records are moved, but deleted  *)
(* ones may be collected or come back.                                     *)
StillSpec == Init /\ [][Sweep \/ Revive \/ \E t \in Threads : Serve(t)]_vars
=========================================================================
