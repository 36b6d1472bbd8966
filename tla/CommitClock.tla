--------------------------- MODULE CommitClock ---------------------------
(***************************************************************************)
(* The version clock: a global counter hands out commit versions, every    *)
(* thread publishes the last version it has committed in a slot of its     *)
(* own, and a reader's snapshot is the smallest published version.  Each   *)
(* atomic access to a shared variable is one step; a thread is named by    *)
(* its thread id.                                                          *)
(***************************************************************************)
EXTENDS Naturals, FiniteSets

CONSTANTS
  NumThreads,   \* worker threads that ever use a clock
  Epsilon,      \* MAX_READS_IN_ROW_EPSILON
  MaxVersion    \* bound on the counter

ASSUME ClockAssumption ==
  NumThreads \in Nat /\ Epsilon \in Nat /\ MaxVersion \in Nat \ {0}

Threads == 1..NumThreads

START_VERSION == 1
Inactive == Epsilon + 2       \* READ_IN_ROW_INACTIVE, above every count of reads
NoCommit == MaxVersion + 1    \* INACTIVE_COMMIT_VERSION_MAX, above every version

VARIABLES
  global_clock,  \* GlobalClock: the next version to hand out
  num_threads,   \* THREAD_ID: threads with a ThreadState so far
  committed,     \* SHARED_COMMITTED: the slots
  dirty,         \* GLOBAL_DIRTY
  global_min,    \* GLOBAL_MIN
  reads_in_row,  \* reads_in_row[t] of t's ThreadState
  pc,            \* where t stands in a clock call ("idle": in none)
  version,       \* version[t]: the commit version t is working under
  agg,           \* agg[t]: clock_time, then the minimum folded so far
  limit,         \* limit[t]: the number of slots t's fold takes
  pos,           \* pos[t]: the next slot of t's fold
  snapshot,      \* history: the snapshot t was last given
  done           \* history: the versions whose end_commit is over

vars == <<global_clock, num_threads, committed, dirty, global_min, reads_in_row,
          pc, version, agg, limit, pos, snapshot, done>>

locals == <<agg, limit, pos>>

Lower(a, b)  == IF a < b THEN a ELSE b
Higher(a, b) == IF a > b THEN a ELSE b

PCs == {"unregistered", "idle", "working", "committed", "quitting", "quit",
        "check", "clean", "limit", "fold", "clear", "leaving", "gone"}

TypeOK ==
  /\ global_clock \in 1..MaxVersion
  /\ num_threads \in 0..NumThreads
  /\ committed \in [Threads -> 1..NoCommit]
  /\ dirty \in BOOLEAN
  /\ global_min \in 1..MaxVersion
  /\ reads_in_row \in [Threads -> 0..Inactive]
  /\ pc \in [Threads -> PCs]
  /\ version \in [Threads -> 0..MaxVersion]
  /\ agg \in [Threads -> 0..MaxVersion]
  /\ limit \in [Threads -> 0..NumThreads]
  /\ pos \in [Threads -> 1..NumThreads + 1]
  /\ snapshot \in [Threads -> 0..MaxVersion]
  /\ done \subseteq 1..MaxVersion

Init ==
  /\ global_clock = START_VERSION
  /\ num_threads = 0
  /\ committed = [t \in Threads |-> NoCommit]
  /\ dirty = FALSE
  /\ global_min = START_VERSION
  /\ reads_in_row = [t \in Threads |-> 0]
  /\ pc = [t \in Threads |-> "unregistered"]
  /\ version = [t \in Threads |-> 0]
  /\ agg = [t \in Threads |-> 0]
  /\ limit = [t \in Threads |-> 0]
  /\ pos = [t \in Threads |-> 1]
  /\ snapshot = [t \in Threads |-> 0]
  /\ done = {}

Goto(t, from, to) ==
  /\ pc[t] = from
  /\ pc' = [pc EXCEPT ![t] = to]

(* ThreadState::new, on the first clock call of a thread. *)
Register(t) ==
  /\ t = num_threads + 1
  /\ Goto(t, "unregistered", "idle")
  /\ num_threads' = t
  /\ UNCHANGED <<global_clock, committed, dirty, global_min, reads_in_row, version,
                 locals, snapshot, done>>

-------------------------------------------------------------------------
(* Committing. *)

(* Fault: the version is read, not drawn. *)
StartCommit_Reads(t) ==
  /\ Goto(t, "idle", "working")
  /\ global_clock < MaxVersion
  /\ reads_in_row' = [reads_in_row EXCEPT ![t] = 0]
  /\ version' = [version EXCEPT ![t] = global_clock]
  /\ UNCHANGED <<global_clock, num_threads, committed, dirty, global_min, locals,
                 snapshot, done>>

StartCommit(t) ==
  /\ Goto(t, "idle", "working")
  /\ global_clock < MaxVersion
  /\ reads_in_row' = [reads_in_row EXCEPT ![t] = 0]
  /\ version' = [version EXCEPT ![t] = global_clock]
  /\ global_clock' = global_clock + 1
  /\ UNCHANGED <<num_threads, committed, dirty, global_min, locals, snapshot, done>>

(* thread_local_commit is two stores: the slot, then the dirty flag. *)
StoreSlot(t, from, to, v) ==
  /\ Goto(t, from, to)
  /\ committed' = [committed EXCEPT ![t] = v]
  /\ UNCHANGED <<global_clock, num_threads, dirty, global_min, reads_in_row, version,
                 locals, snapshot, done>>

StoreDirty(t, from, to) ==
  /\ Goto(t, from, to)
  /\ dirty' = TRUE
  /\ UNCHANGED <<global_clock, num_threads, committed, global_min, reads_in_row,
                 locals, snapshot>>

EndCommit(t) == StoreSlot(t, "working", "committed", version[t])

EndCommitDirty(t) ==
  /\ StoreDirty(t, "committed", "idle")
  /\ done' = done \cup {version[t]}
  /\ version' = [version EXCEPT ![t] = 0]

-------------------------------------------------------------------------
(* Reading: current_version_for_reader and committed_read. *)

(* The clock is read first; then the thread counts its reads in a row, and *)
(* withdraws its slot after too many of them.                              *)
LoadClock(t) ==
  /\ pc[t] = "idle"
  /\ agg' = [agg EXCEPT ![t] = global_clock]
  /\ \/ /\ reads_in_row[t] = Inactive
        /\ pc' = [pc EXCEPT ![t] = "check"]
        /\ UNCHANGED reads_in_row
     \/ /\ reads_in_row[t] # Inactive /\ reads_in_row[t] > Epsilon
        /\ pc' = [pc EXCEPT ![t] = "quitting"]
        /\ reads_in_row' = [reads_in_row EXCEPT ![t] = Inactive]
     \/ /\ reads_in_row[t] <= Epsilon
        /\ pc' = [pc EXCEPT ![t] = "check"]
        /\ reads_in_row' = [reads_in_row EXCEPT ![t] = @ + 1]
  /\ UNCHANGED <<global_clock, num_threads, committed, dirty, global_min, version,
                 limit, pos, snapshot, done>>

(* Fault: the slot is withdrawn without telling the readers. *)
SetInactiveDirty_Forgets(t) ==
  /\ Goto(t, "quit", "check")
  /\ UNCHANGED <<global_clock, num_threads, committed, dirty, global_min, reads_in_row,
                 version, locals, snapshot, done>>

SetInactive(t)      == StoreSlot(t, "quitting", "quit", NoCommit)
SetInactiveDirty(t) == StoreDirty(t, "quit", "check") /\ UNCHANGED <<version, done>>

CheckDirty(t) ==
  /\ Goto(t, "check", IF dirty THEN "limit" ELSE "clean")
  /\ UNCHANGED <<global_clock, num_threads, committed, dirty, global_min, reads_in_row,
                 version, locals, snapshot, done>>

(* The call returns s; its locals die. *)
Return(t, s) ==
  /\ snapshot' = [snapshot EXCEPT ![t] = s]
  /\ agg' = [agg EXCEPT ![t] = 0]
  /\ limit' = [limit EXCEPT ![t] = 0]
  /\ pos' = [pos EXCEPT ![t] = 1]

ReturnMin(t) ==
  /\ Goto(t, "clean", "idle")
  /\ Return(t, global_min)
  /\ UNCHANGED <<global_clock, num_threads, committed, dirty, global_min, reads_in_row,
                 version, done>>

(* Fault: the newest slot is left out. *)
TakeLimit_OneShort(t) ==
  /\ Goto(t, "limit", "fold")
  /\ limit' = [limit EXCEPT ![t] = num_threads - 1]
  /\ UNCHANGED <<global_clock, num_threads, committed, dirty, global_min, reads_in_row,
                 version, agg, pos, snapshot, done>>

TakeLimit(t) ==
  /\ Goto(t, "limit", "fold")
  /\ limit' = [limit EXCEPT ![t] = num_threads]
  /\ UNCHANGED <<global_clock, num_threads, committed, dirty, global_min, reads_in_row,
                 version, agg, pos, snapshot, done>>

(* Faults: the last slot wins, or the largest. *)
FoldSlot_Last(t) ==
  /\ pc[t] = "fold"
  /\ pos[t] <= limit[t]
  /\ agg' = [agg EXCEPT ![t] = committed[pos[t]]]
  /\ pos' = [pos EXCEPT ![t] = @ + 1]
  /\ UNCHANGED <<global_clock, num_threads, committed, dirty, global_min, reads_in_row,
                 pc, version, limit, snapshot, done>>

FoldSlot_Largest(t) ==
  /\ pc[t] = "fold"
  /\ pos[t] <= limit[t]
  /\ agg' = [agg EXCEPT ![t] = Higher(@, committed[pos[t]])]
  /\ pos' = [pos EXCEPT ![t] = @ + 1]
  /\ UNCHANGED <<global_clock, num_threads, committed, dirty, global_min, reads_in_row,
                 pc, version, limit, snapshot, done>>

FoldSlot(t) ==
  /\ pc[t] = "fold"
  /\ pos[t] <= limit[t]
  /\ agg' = [agg EXCEPT ![t] = Lower(@, committed[pos[t]])]
  /\ pos' = [pos EXCEPT ![t] = @ + 1]
  /\ UNCHANGED <<global_clock, num_threads, committed, dirty, global_min, reads_in_row,
                 pc, version, limit, snapshot, done>>

(* Fault: a plain store instead of fetch_max. *)
RaiseMin_Stores(t) ==
  /\ Goto(t, "fold", "clear")
  /\ pos[t] > limit[t]
  /\ global_min' = agg[t]
  /\ UNCHANGED <<global_clock, num_threads, committed, dirty, reads_in_row, version,
                 agg, limit, pos, snapshot, done>>

(* fetch_max: what the call will return is already settled here. *)
RaiseMin(t) ==
  /\ Goto(t, "fold", "clear")
  /\ pos[t] > limit[t]
  /\ global_min' = Higher(global_min, agg[t])
  /\ agg' = [agg EXCEPT ![t] = Higher(@, global_min)]
  /\ UNCHANGED <<global_clock, num_threads, committed, dirty, reads_in_row, version,
                 limit, pos, snapshot, done>>

ClearDirty(t) ==
  /\ Goto(t, "clear", "idle")
  /\ dirty' = FALSE
  /\ Return(t, agg[t])
  /\ UNCHANGED <<global_clock, num_threads, committed, global_min, reads_in_row,
                 version, done>>

-------------------------------------------------------------------------
(* The thread ends: ThreadState is dropped. *)

Leave(t)      == StoreSlot(t, "idle", "leaving", NoCommit)
LeaveDirty(t) == StoreDirty(t, "leaving", "gone") /\ UNCHANGED <<version, done>>

-------------------------------------------------------------------------
(* What a thread does once it is in a call, and cannot put off for ever. *)
Inside(t) ==
  \/ EndCommit(t)
  \/ EndCommitDirty(t)
  \/ SetInactive(t)
  \/ SetInactiveDirty(t)
  \/ CheckDirty(t)
  \/ ReturnMin(t)
  \/ TakeLimit(t)
  \/ FoldSlot(t)
  \/ RaiseMin(t)
  \/ ClearDirty(t)
  \/ LeaveDirty(t)

Next ==
  \E t \in Threads :
    \/ Register(t)
    \/ StartCommit(t)
    \/ LoadClock(t)
    \/ Leave(t)
    \/ Inside(t)

(* A call is always carried through, and a thread that has not ended goes  *)
(* on asking for snapshots.                                                *)
Fairness == \A t \in Threads : WF_vars(Inside(t)) /\ WF_vars(LoadClock(t))

Spec     == Init /\ [][Next]_vars
FairSpec == Spec /\ Fairness

-------------------------------------------------------------------------
Working(t) == pc[t] = "working"

(* No snapshot runs ahead of the clock: a commit that starts now cannot    *)
(* fall strictly inside a snapshot that a reader already works with.       *)
SnapshotWithinClock == \A t \in Threads : snapshot[t] <= global_clock

(* While a thread that still publishes an earlier commit works under       *)
(* version v, neither the global minimum nor any snapshot passes v,        *)
(* however the folds of other readers interleave with its stores.          *)
ProtectedWriterNotPassed ==
  \A t \in Threads :
    Working(t) /\ committed[t] # NoCommit =>
      /\ global_min <= version[t]
      /\ \A r \in Threads : snapshot[r] <= version[t]

(* The snapshots that one thread is given never go back in time, although  *)
(* folds overlap and raise the minimum in any order.                       *)
SnapshotsNeverGoBack == [][\A t \in Threads : snapshot'[t] >= snapshot[t]]_vars

(* The last thread left alone, if it has not withdrawn its slot before,    *)
(* ends up with the whole history in its snapshots, whatever dirty marks   *)
(* were lost earlier.                                                      *)
LastReaderCatchesUp ==
  \A t \in Threads :
    /\ \A u \in Threads \ {t} : pc[u] = "gone"
    /\ pc[t] # "unregistered" /\ reads_in_row[t] # Inactive
    ~> global_min = global_clock \/ pc[t] = "gone"

(* What the comment on end_commit says, read as safety: a snapshot goes    *)
(* past a version only when the work under it is completed.                *)
OnlyCompletedWorkIsVisible ==
  \A r, t \in Threads : Working(t) => snapshot[r] <= version[t]

(* What the comment on end_commit says, read as liveness: completed work   *)
(* becomes visible, unless nobody is left to ask.                          *)
CompletedWorkBecomesVisible ==
  \A v \in 1..MaxVersion :
    v \in done ~> \/ global_min >= v
                 \/ \A t \in Threads : pc[t] \in {"unregistered", "gone"}

-------------------------------------------------------------------------
(* The inductive invariant behind the safety properties, in named parts.   *)

(* Slots are handed out in order, each to one thread.                      *)
Registered(t) == pc[t] # "unregistered" <=> t <= num_threads

(* Nothing is ahead of the clock: no published commit, no commit at work,  *)
(* no fold.                                                                *)
BehindClock(t) ==
  /\ committed[t] # NoCommit => committed[t] < global_clock
  /\ pc[t] \in {"working", "committed"} => version[t] \in 1..global_clock-1
  /\ agg[t] <= global_clock

(* A fold begins with the first slot.                                      *)
AtFirstSlot(t) == pc[t] \notin {"fold", "clear"} => pos[t] = 1

(* What a reader has been given is within the minimum, and what it is about*)
(* to be given lies in between.                                            *)
WithinMin(t) ==
  /\ snapshot[t] <= global_min
  /\ pc[t] = "clear" => snapshot[t] <= agg[t] /\ agg[t] <= global_min

Protected(t) == Working(t) /\ committed[t] # NoCommit

(* r's fold is still to meet t's slot. *)
WillFold(r, t) ==
  \/ pc[r] \in {"quitting", "quit", "check", "limit"}
  \/ pc[r] = "fold" /\ t \in pos[r]..limit[r]

(* A commit that starts draws a version that no fold has passed; a fold    *)
(* that starts later meets the slot of its thread, with an older version.  *)
FoldsAreHeldBack(t) ==
  Protected(t) =>
    /\ global_min <= version[t] /\ committed[t] < version[t]
    /\ \A r \in Threads : agg[r] <= version[t] \/ WillFold(r, t)
                           \/ pc[r] \in {"clean", "clear"}

(* The minimum stays within the clock, and every slot, version and fold    *)
(* where the parts above put it.                                           *)
ClockInv ==
  /\ TypeOK
  /\ global_min <= global_clock
  /\ \A t \in Threads : Registered(t) /\ BehindClock(t) /\ AtFirstSlot(t) /\ WithinMin(t)
  /\ \A t \in Threads : FoldsAreHeldBack(t)
==========================================================================
