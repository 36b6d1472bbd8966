------------------------- MODULE ExclusiveLatch -------------------------
(***************************************************************************)
(* What a page latch promises, whatever its implementation: a thread that  *)
(* mutates the page holds the latch alone, either pinned (it only appends  *)
(* to version chains and readers go on) or for writing (readers must not   *)
(* trust what they see); a page may be retired for good by its writer.     *)
(***************************************************************************)
CONSTANTS
  Threads,    \* worker threads of the tree
  NoThread    \* nobody holds the latch

VARIABLES
  holder,     \* the thread that may mutate the page, or NoThread
  mode        \* what the latch word shows to the others

vars == <<holder, mode>>

Modes == {"free", "pinned", "writing", "retired"}

TypeOK ==
  /\ holder \in Threads \cup {NoThread}
  /\ mode \in Modes

Init ==
  /\ holder = NoThread
  /\ mode = "free"

(* The latch is taken from the free mode only, and by one thread. *)
Acquire(t, m) ==
  /\ mode = "free"
  /\ holder' = t
  /\ mode' = m

(* A pin becomes a write latch without ever being free in between. *)
Promote(t) ==
  /\ holder = t
  /\ mode = "pinned"
  /\ mode' = "writing"
  /\ UNCHANGED holder

Release(t) ==
  /\ holder = t
  /\ mode \in {"pinned", "writing"}
  /\ holder' = NoThread
  /\ mode' = "free"

(* A retired page keeps its last writer until that guard is dropped. *)
Retire(t) ==
  /\ holder = t
  /\ mode = "writing"
  /\ mode' = "retired"
  /\ UNCHANGED holder

Leave(t) ==
  /\ holder = t
  /\ mode = "retired"
  /\ holder' = NoThread
  /\ UNCHANGED mode

Next ==
  \E t \in Threads :
    \/ \E m \in {"pinned", "writing"} : Acquire(t, m)
    \/ Promote(t)
    \/ Release(t)
    \/ Retire(t)
    \/ Leave(t)

Spec == Init /\ [][Next]_vars
=========================================================================
