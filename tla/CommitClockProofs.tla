------------------------ MODULE CommitClockProofs ------------------------
(***************************************************************************)
(* Proofs about CommitClock, for any number of threads, any tolerance of   *)
(* reads in a row and any bound on versions: the inductive invariant       *)
(* ClockInv and the safety properties that follow from it.                 *)
(***************************************************************************)
EXTENDS CommitClock, TLAPS

(* The constants as the provers need them.                                 *)
LEMMA Constants ==
  /\ NumThreads \in Nat /\ Epsilon \in Nat /\ MaxVersion \in Nat /\ MaxVersion >= 1
  /\ Threads \subseteq Nat /\ \A t \in Threads : t >= 1 /\ t <= NumThreads
  /\ Inactive \in Nat /\ Inactive > Epsilon + 1
  /\ NoCommit \in Nat /\ NoCommit > MaxVersion
BY ClockAssumption DEF Threads, Inactive, NoCommit

(* Minima and maxima of two numbers.                                       *)
LEMMA Extremes ==
  ASSUME NEW a \in Nat, NEW b \in Nat
  PROVE  /\ Lower(a, b) \in {a, b} /\ Lower(a, b) <= a /\ Lower(a, b) <= b
         /\ Higher(a, b) \in {a, b} /\ Higher(a, b) >= a /\ Higher(a, b) >= b
BY DEF Lower, Higher

(* The initial state.                                                      *)
LEMMA InvInit == Init => ClockInv
<1> SUFFICES ASSUME Init PROVE ClockInv
  OBVIOUS
<1>1. TypeOK
  <2>1. /\ 1 \in 1..MaxVersion /\ 0 \in 0..MaxVersion /\ NoCommit \in 1..NoCommit
        /\ 0 \in 0..NumThreads /\ 1 \in 1..NumThreads + 1 /\ 0 \in 0..Inactive
    BY Constants
  <2>2. pc \in [Threads -> PCs] /\ dirty \in BOOLEAN
    BY DEF Init, PCs
  <2> QED BY <2>1, <2>2 DEF Init, TypeOK, START_VERSION
<1>2. global_min <= global_clock
  BY DEF Init, START_VERSION
<1>3. \A t \in Threads : Registered(t) /\ BehindClock(t) /\ AtFirstSlot(t) /\ WithinMin(t)
  BY Constants DEF Init, START_VERSION, Registered, BehindClock, AtFirstSlot, WithinMin
<1>4. \A t \in Threads : FoldsAreHeldBack(t)
  BY DEF Init, FoldsAreHeldBack, Protected, Working
<1> QED BY <1>1, <1>2, <1>3, <1>4 DEF ClockInv

(* Every action keeps the types, once the clock bounds what it stores.     *)
LEMMA TypeStep ==
  ASSUME ClockInv, Next
  PROVE  TypeOK'
<1> USE Constants
<1>1. PICK t \in Threads : \/ Register(t) \/ StartCommit(t) \/ LoadClock(t)
                           \/ Leave(t) \/ Inside(t)
  BY DEF Next
<1>2. CASE Register(t)
  BY <1>2 DEF ClockInv, TypeOK, PCs, Register, Goto, locals
<1>3. CASE StartCommit(t)
  BY <1>3 DEF ClockInv, TypeOK, PCs, StartCommit, Goto, locals
<1>4. CASE LoadClock(t)
  BY <1>4 DEF ClockInv, TypeOK, PCs, LoadClock
<1>5. CASE Leave(t)
  BY <1>5 DEF ClockInv, TypeOK, PCs, Leave, StoreSlot, Goto, locals
<1>6. CASE EndCommit(t)
  BY <1>6 DEF ClockInv, TypeOK, PCs, BehindClock, EndCommit, StoreSlot, Goto, locals
<1>7. CASE EndCommitDirty(t)
  <2>1. version[t] \in 1..MaxVersion
    BY <1>7 DEF ClockInv, TypeOK, BehindClock, EndCommitDirty, StoreDirty, Goto
  <2>2. pc' \in [Threads -> PCs] /\ version' \in [Threads -> 0..MaxVersion]
    BY <1>7 DEF ClockInv, TypeOK, PCs, EndCommitDirty, StoreDirty, Goto
  <2>3. done' \subseteq 1..MaxVersion
    BY <1>7, <2>1 DEF ClockInv, TypeOK, EndCommitDirty
  <2>4. dirty' \in BOOLEAN
    BY <1>7 DEF EndCommitDirty, StoreDirty
  <2> QED BY <1>7, <2>2, <2>3, <2>4 DEF ClockInv, TypeOK, EndCommitDirty, StoreDirty, locals
<1>8. CASE SetInactive(t)
  BY <1>8 DEF ClockInv, TypeOK, PCs, SetInactive, StoreSlot, Goto, locals
<1>9. CASE SetInactiveDirty(t)
  BY <1>9 DEF ClockInv, TypeOK, PCs, SetInactiveDirty, StoreDirty, Goto, locals
<1>10. CASE CheckDirty(t)
  BY <1>10 DEF ClockInv, TypeOK, PCs, CheckDirty, Goto, locals
<1>11. CASE ReturnMin(t)
  BY <1>11 DEF ClockInv, TypeOK, PCs, ReturnMin, Return, Goto
<1>12. CASE TakeLimit(t)
  BY <1>12 DEF ClockInv, TypeOK, PCs, TakeLimit, Goto
<1>13. CASE FoldSlot(t)
  <2>1. pos[t] \in 1..NumThreads + 1 /\ limit[t] \in 0..NumThreads /\ pos[t] <= limit[t]
    BY <1>13 DEF ClockInv, TypeOK, FoldSlot
  <2>2. pos[t] \in Threads /\ pos[t] + 1 \in 1..NumThreads + 1
    BY <2>1 DEF Threads
  <2>3. agg[t] \in Nat /\ committed[pos[t]] \in Nat
    BY <2>2 DEF ClockInv, TypeOK
  <2>4. Lower(agg[t], committed[pos[t]]) \in 0..MaxVersion
    BY <2>2, <2>3, Extremes DEF ClockInv, TypeOK
  <2> QED BY <1>13, <2>2, <2>4 DEF ClockInv, TypeOK, FoldSlot
<1>14. CASE RaiseMin(t)
  <2>1. agg[t] \in Nat /\ global_min \in Nat
    BY DEF ClockInv, TypeOK
  <2>2. Higher(agg[t], global_min) \in 1..MaxVersion
        /\ Higher(global_min, agg[t]) \in 1..MaxVersion
    BY <2>1, Extremes DEF ClockInv, TypeOK
  <2> QED BY <1>14, <2>2 DEF ClockInv, TypeOK, PCs, RaiseMin, Goto
<1>15. CASE ClearDirty(t)
  <2>1. pc' \in [Threads -> PCs] /\ dirty' \in BOOLEAN
    BY <1>15 DEF ClockInv, TypeOK, PCs, ClearDirty, Goto
  <2>2. snapshot' \in [Threads -> 0..MaxVersion] /\ agg' \in [Threads -> 0..MaxVersion]
    BY <1>15 DEF ClockInv, TypeOK, ClearDirty, Return
  <2>3. limit' \in [Threads -> 0..NumThreads] /\ pos' \in [Threads -> 1..NumThreads + 1]
    BY <1>15 DEF ClockInv, TypeOK, ClearDirty, Return
  <2> QED BY <1>15, <2>1, <2>2, <2>3 DEF ClockInv, TypeOK, ClearDirty
<1>16. CASE LeaveDirty(t)
  BY <1>16 DEF ClockInv, TypeOK, PCs, LeaveDirty, StoreDirty, Goto, locals
<1> QED
  BY <1>1, <1>2, <1>3, <1>4, <1>5, <1>6, <1>7, <1>8, <1>9, <1>10, <1>11, <1>12, <1>13,
     <1>14, <1>15, <1>16 DEF Inside

(* Every action keeps the minimum, the slots, the commits and the folds    *)
(* behind the clock.                                                       *)
LEMMA ClockStep ==
  ASSUME ClockInv, Next, TypeOK'
  PROVE  /\ global_min' <= global_clock'
         /\ \A u \in Threads : Registered(u)' /\ BehindClock(u)' /\ AtFirstSlot(u)'
<1> USE Constants
<1>1. PICK t \in Threads : \/ Register(t) \/ StartCommit(t) \/ LoadClock(t)
                           \/ Leave(t) \/ Inside(t)
  BY DEF Next
<1>2. CASE Register(t)
  BY <1>2 DEF ClockInv, TypeOK, Registered, BehindClock, AtFirstSlot, Register, Goto, locals
<1>3. CASE StartCommit(t)
  BY <1>3 DEF ClockInv, TypeOK, Registered, BehindClock, AtFirstSlot, StartCommit, Goto, locals
<1>4. CASE LoadClock(t)
  BY <1>4 DEF ClockInv, TypeOK, Registered, BehindClock, AtFirstSlot, LoadClock
<1>5. CASE Leave(t)
  BY <1>5 DEF ClockInv, TypeOK, Registered, BehindClock, AtFirstSlot, Leave, StoreSlot,
     Goto, locals
<1>6. CASE EndCommit(t)
  BY <1>6 DEF ClockInv, TypeOK, Registered, BehindClock, AtFirstSlot, EndCommit, StoreSlot,
     Goto, locals
<1>7. CASE EndCommitDirty(t)
  BY <1>7 DEF ClockInv, TypeOK, Registered, BehindClock, AtFirstSlot, EndCommitDirty,
     StoreDirty, Goto, locals
<1>8. CASE SetInactive(t)
  BY <1>8 DEF ClockInv, TypeOK, Registered, BehindClock, AtFirstSlot, SetInactive,
     StoreSlot, Goto, locals
<1>9. CASE SetInactiveDirty(t)
  BY <1>9 DEF ClockInv, TypeOK, Registered, BehindClock, AtFirstSlot, SetInactiveDirty,
     StoreDirty, Goto, locals
<1>10. CASE CheckDirty(t)
  BY <1>10 DEF ClockInv, TypeOK, Registered, BehindClock, AtFirstSlot, CheckDirty, Goto, locals
<1>11. CASE ReturnMin(t)
  BY <1>11 DEF ClockInv, TypeOK, Registered, BehindClock, AtFirstSlot, ReturnMin, Return, Goto
<1>12. CASE TakeLimit(t)
  BY <1>12 DEF ClockInv, TypeOK, Registered, BehindClock, AtFirstSlot, TakeLimit, Goto
<1>13. CASE FoldSlot(t)
  <2>1. pos[t] \in Threads
    <3>1. pos[t] \in 1..NumThreads + 1 /\ limit[t] \in 0..NumThreads /\ pos[t] <= limit[t]
      BY <1>13 DEF ClockInv, TypeOK, FoldSlot
    <3> QED BY <3>1 DEF Threads
  <2>2. agg[t] \in Nat /\ committed[pos[t]] \in Nat
    BY <2>1 DEF ClockInv, TypeOK
  <2>3. Lower(agg[t], committed[pos[t]]) <= agg[t]
    BY <2>2, Extremes
  <2>4. Lower(agg[t], committed[pos[t]]) \in Nat
    BY <2>2, Extremes
  <2> QED BY <1>13, <2>3, <2>4 DEF ClockInv, TypeOK, Registered, BehindClock, AtFirstSlot, FoldSlot
<1>14. CASE RaiseMin(t)
  <2>1. agg[t] \in Nat /\ global_min \in Nat /\ agg[t] <= global_clock
    BY DEF ClockInv, TypeOK, BehindClock
  <2>2. Higher(agg[t], global_min) <= global_clock /\ Higher(global_min, agg[t]) <= global_clock
    BY <2>1, Extremes DEF ClockInv
  <2>3. global_min' <= global_clock'
    BY <1>14, <2>2 DEF RaiseMin
  <2> QED BY <1>14, <2>2, <2>3 DEF ClockInv, TypeOK, Registered, BehindClock, AtFirstSlot,
                                   RaiseMin, Goto
<1>15. CASE ClearDirty(t)
  BY <1>15 DEF ClockInv, TypeOK, Registered, BehindClock, AtFirstSlot, ClearDirty, Return, Goto
<1>16. CASE LeaveDirty(t)
  BY <1>16 DEF ClockInv, TypeOK, Registered, BehindClock, AtFirstSlot, LeaveDirty,
     StoreDirty, Goto, locals
<1> QED
  BY <1>1, <1>2, <1>3, <1>4, <1>5, <1>6, <1>7, <1>8, <1>9, <1>10, <1>11, <1>12, <1>13,
     <1>14, <1>15, <1>16 DEF Inside

(* Every action keeps snapshots within the minimum.                        *)
LEMMA MinStep ==
  ASSUME ClockInv, Next, TypeOK'
  PROVE  \A u \in Threads : WithinMin(u)'
<1> USE Constants
<1>1. PICK t \in Threads : \/ Register(t) \/ StartCommit(t) \/ LoadClock(t)
                           \/ Leave(t) \/ Inside(t)
  BY DEF Next
<1>2. CASE Register(t)
  BY <1>2 DEF ClockInv, TypeOK, WithinMin, Register, Goto, locals
<1>3. CASE StartCommit(t)
  BY <1>3 DEF ClockInv, TypeOK, WithinMin, StartCommit, Goto, locals
<1>4. CASE LoadClock(t)
  BY <1>4 DEF ClockInv, TypeOK, WithinMin, LoadClock
<1>5. CASE Leave(t)
  BY <1>5 DEF ClockInv, TypeOK, WithinMin, Leave, StoreSlot, Goto, locals
<1>6. CASE EndCommit(t)
  BY <1>6 DEF ClockInv, TypeOK, WithinMin, EndCommit, StoreSlot, Goto, locals
<1>7. CASE EndCommitDirty(t)
  BY <1>7 DEF ClockInv, TypeOK, WithinMin, EndCommitDirty, StoreDirty, Goto, locals
<1>8. CASE SetInactive(t)
  BY <1>8 DEF ClockInv, TypeOK, WithinMin, SetInactive, StoreSlot, Goto, locals
<1>9. CASE SetInactiveDirty(t)
  BY <1>9 DEF ClockInv, TypeOK, WithinMin, SetInactiveDirty, StoreDirty, Goto, locals
<1>10. CASE CheckDirty(t)
  BY <1>10 DEF ClockInv, TypeOK, WithinMin, CheckDirty, Goto, locals
<1>11. CASE ReturnMin(t)
  BY <1>11 DEF ClockInv, TypeOK, WithinMin, ReturnMin, Return, Goto
<1>12. CASE TakeLimit(t)
  BY <1>12 DEF ClockInv, TypeOK, WithinMin, TakeLimit, Goto
<1>13. CASE FoldSlot(t)
  BY <1>13 DEF ClockInv, TypeOK, WithinMin, FoldSlot
<1>14. CASE RaiseMin(t)
  <2>1. agg[t] \in Nat /\ global_min \in Nat
    BY DEF ClockInv, TypeOK
  <2>2. /\ Higher(agg[t], global_min) = Higher(global_min, agg[t])
        /\ Higher(global_min, agg[t]) >= global_min
    BY <2>1 DEF Higher
  <2> QED BY <1>14, <2>1, <2>2 DEF ClockInv, TypeOK, WithinMin, RaiseMin, Goto
<1>15. CASE ClearDirty(t)
  BY <1>15 DEF ClockInv, TypeOK, WithinMin, ClearDirty, Return, Goto
<1>16. CASE LeaveDirty(t)
  BY <1>16 DEF ClockInv, TypeOK, WithinMin, LeaveDirty, StoreDirty, Goto, locals
<1> QED
  BY <1>1, <1>2, <1>3, <1>4, <1>5, <1>6, <1>7, <1>8, <1>9, <1>10, <1>11, <1>12, <1>13,
     <1>14, <1>15, <1>16 DEF Inside

(* Every action holds the folds back from the versions of protected        *)
(* writers.                                                                *)
LEMMA FoldStep ==
  ASSUME ClockInv, Next, TypeOK'
  PROVE  \A u \in Threads : FoldsAreHeldBack(u)'
<1> USE Constants
<1>1. PICK t \in Threads : \/ Register(t) \/ StartCommit(t) \/ LoadClock(t)
                           \/ Leave(t) \/ Inside(t)
  BY DEF Next
<1>2. CASE Register(t)
  BY <1>2 DEF ClockInv, TypeOK, FoldsAreHeldBack, Protected, Working, WillFold, Register,
     Goto, locals
<1>3. CASE StartCommit(t)
  <2>1. FoldsAreHeldBack(t)'
    BY <1>3 DEF ClockInv, TypeOK, BehindClock, FoldsAreHeldBack, Protected, Working,
       StartCommit,
              Goto, locals
  <2>2. ASSUME NEW u \in Threads, u # t PROVE FoldsAreHeldBack(u)'
    BY <1>3, <2>2 DEF ClockInv, TypeOK, FoldsAreHeldBack, Protected, Working, WillFold,
                    StartCommit, Goto, locals
  <2> QED BY <2>1, <2>2
<1>4. CASE LoadClock(t)
  BY <1>4 DEF ClockInv, TypeOK, FoldsAreHeldBack, Protected, Working, WillFold, LoadClock
<1>5. CASE Leave(t)
  BY <1>5 DEF ClockInv, TypeOK, FoldsAreHeldBack, Protected, Working, WillFold, Leave,
     StoreSlot, Goto, locals
<1>6. CASE EndCommit(t)
  BY <1>6 DEF ClockInv, TypeOK, FoldsAreHeldBack, Protected, Working, WillFold, EndCommit,
     StoreSlot, Goto, locals
<1>7. CASE EndCommitDirty(t)
  BY <1>7 DEF ClockInv, TypeOK, FoldsAreHeldBack, Protected, Working, WillFold,
     EndCommitDirty, StoreDirty, Goto, locals
<1>8. CASE SetInactive(t)
  BY <1>8 DEF ClockInv, TypeOK, FoldsAreHeldBack, Protected, Working, WillFold, SetInactive,
     StoreSlot, Goto, locals
<1>9. CASE SetInactiveDirty(t)
  BY <1>9 DEF ClockInv, TypeOK, FoldsAreHeldBack, Protected, Working, WillFold,
     SetInactiveDirty, StoreDirty, Goto, locals
<1>10. CASE CheckDirty(t)
  BY <1>10 DEF ClockInv, TypeOK, FoldsAreHeldBack, Protected, Working, WillFold, CheckDirty,
     Goto, locals
<1>11. CASE ReturnMin(t)
  BY <1>11 DEF ClockInv, TypeOK, FoldsAreHeldBack, Protected, Working, WillFold, ReturnMin,
     Return, Goto
<1>12. CASE TakeLimit(t)
  <2>1. pos[t] = 1 /\ \A u \in Threads : Protected(u) => u \in 1..num_threads
    BY <1>12 DEF ClockInv, TypeOK, AtFirstSlot, Registered, Protected, Working, TakeLimit, Goto
  <2> QED BY <1>12, <2>1 DEF ClockInv, TypeOK, FoldsAreHeldBack, Protected, Working, WillFold,
                          TakeLimit, Goto
<1>13. CASE FoldSlot(t)
  <2>1. pos[t] \in Threads
    <3>1. pos[t] \in 1..NumThreads + 1 /\ limit[t] \in 0..NumThreads /\ pos[t] <= limit[t]
      BY <1>13 DEF ClockInv, TypeOK, FoldSlot
    <3> QED BY <3>1 DEF Threads
  <2>2. agg[t] \in Nat /\ committed[pos[t]] \in Nat
    BY <2>1 DEF ClockInv, TypeOK
  <2>3. /\ agg'[t] \in Nat /\ agg'[t] <= agg[t] /\ agg'[t] <= committed[pos[t]]
        /\ pos'[t] = pos[t] + 1 /\ pos[t] \in Nat
    <3>1. agg'[t] = Lower(agg[t], committed[pos[t]]) /\ pos'[t] = pos[t] + 1
      BY <1>13 DEF ClockInv, TypeOK, FoldSlot
    <3>2. pos[t] \in Nat
      BY DEF ClockInv, TypeOK
    <3>3. /\ Lower(agg[t], committed[pos[t]]) \in Nat
          /\ Lower(agg[t], committed[pos[t]]) <= agg[t]
          /\ Lower(agg[t], committed[pos[t]]) <= committed[pos[t]]
      BY <2>2, Extremes
    <3> QED BY <3>1, <3>2, <3>3
  <2>4. ASSUME NEW u \in Threads, Protected(u), WillFold(t, u)
        PROVE  agg'[t] <= version[u] \/ u \in pos'[t]..limit[t]
    <3>1. CASE u = pos[t]
      BY <2>2, <2>3, <2>4, <3>1 DEF ClockInv, TypeOK, FoldsAreHeldBack
    <3>2. CASE u # pos[t]
      BY <1>13, <2>3, <2>4, <3>2 DEF ClockInv, TypeOK, WillFold, FoldSlot
    <3> QED BY <3>1, <3>2
  <2> QED BY <1>13, <2>2, <2>3, <2>4 DEF ClockInv, TypeOK, FoldsAreHeldBack, Protected, Working,
                                      WillFold, FoldSlot
<1>14. CASE RaiseMin(t)
  <2>1. agg[t] \in Nat /\ global_min \in Nat
    BY DEF ClockInv, TypeOK
  <2>2. \A u \in Threads : Protected(u) => agg[t] <= version[u]
    BY <1>14 DEF ClockInv, TypeOK, FoldsAreHeldBack, WillFold, RaiseMin, Goto
  <2>3. global_min' \in {global_min, agg[t]}
    BY <1>14, <2>1, Extremes DEF RaiseMin
  <2>4. \A u \in Threads : Protected(u) => global_min' <= version[u]
    BY <2>2, <2>3 DEF ClockInv, FoldsAreHeldBack
  <2> QED BY <1>14, <2>4 DEF ClockInv, TypeOK, FoldsAreHeldBack, Protected, Working, WillFold,
                          RaiseMin, Goto
<1>15. CASE ClearDirty(t)
  BY <1>15 DEF ClockInv, TypeOK, FoldsAreHeldBack, Protected, Working, WillFold, ClearDirty,
     Return, Goto
<1>16. CASE LeaveDirty(t)
  BY <1>16 DEF ClockInv, TypeOK, FoldsAreHeldBack, Protected, Working, WillFold, LeaveDirty,
     StoreDirty, Goto, locals
<1> QED
  BY <1>1, <1>2, <1>3, <1>4, <1>5, <1>6, <1>7, <1>8, <1>9, <1>10, <1>11, <1>12, <1>13,
     <1>14, <1>15, <1>16 DEF Inside

(* ClockInv is an invariant of the clock.                                  *)
THEOREM Invariance == Spec => []ClockInv
<1>1. ASSUME ClockInv, [Next]_vars PROVE ClockInv'
  <2>1. CASE Next
    BY <1>1, <2>1, TypeStep, ClockStep, MinStep, FoldStep DEF ClockInv
  <2>2. CASE UNCHANGED vars
    BY <1>1, <2>2 DEF vars, locals, ClockInv, TypeOK, Registered, BehindClock, AtFirstSlot,
                      WithinMin, FoldsAreHeldBack, Protected, Working, WillFold
  <2> QED BY <1>1, <2>1, <2>2
<1> QED BY InvInit, <1>1, PTL DEF Spec

(* Every variable keeps its type.                                          *)
THEOREM TypeCorrect == Spec => []TypeOK
<1>1. ClockInv => TypeOK
  BY DEF ClockInv
<1> QED BY <1>1, Invariance, PTL

(* No snapshot is ahead of the clock, so a commit that starts later cannot *)
(* fall strictly inside it.                                                *)
THEOREM SnapshotsBehindClock == Spec => []SnapshotWithinClock
<1>1. ClockInv => SnapshotWithinClock
  BY DEF ClockInv, TypeOK, WithinMin, SnapshotWithinClock
<1> QED BY <1>1, Invariance, PTL

(* A writer whose thread publishes an earlier commit is not passed by the  *)
(* minimum, nor by any snapshot, for as long as it works.                  *)
THEOREM WriterProtected == Spec => []ProtectedWriterNotPassed
<1>1. ClockInv => ProtectedWriterNotPassed
  BY DEF ClockInv, TypeOK, WithinMin, FoldsAreHeldBack, Protected, ProtectedWriterNotPassed
<1> QED BY <1>1, Invariance, PTL

(* The snapshots of one thread never go back.                              *)
THEOREM SnapshotsMonotone == Spec => SnapshotsNeverGoBack
<1> USE Constants
<1>1. ASSUME ClockInv, [Next]_vars
      PROVE  [\A t \in Threads : snapshot'[t] >= snapshot[t]]_vars
  <2> SUFFICES ASSUME Next PROVE \A u \in Threads : snapshot'[u] >= snapshot[u]
    BY <1>1
  <2>1. PICK t \in Threads : \/ Register(t) \/ StartCommit(t) \/ LoadClock(t)
                             \/ Leave(t) \/ Inside(t)
    BY DEF Next
  <2>2. CASE ReturnMin(t)
    BY <1>1, <2>2 DEF ClockInv, TypeOK, WithinMin, ReturnMin, Return
  <2>3. CASE ClearDirty(t)
    BY <1>1, <2>3 DEF ClockInv, TypeOK, WithinMin, ClearDirty, Goto, Return
  <2>4. CASE ~ReturnMin(t) /\ ~ClearDirty(t)
    <3>1. UNCHANGED snapshot
      BY <2>1, <2>4 DEF Inside, Register, StartCommit, LoadClock, Leave, EndCommit,
         EndCommitDirty, SetInactive, SetInactiveDirty, CheckDirty, TakeLimit, FoldSlot,
         RaiseMin, LeaveDirty, StoreSlot, StoreDirty
    <3> QED BY <1>1, <3>1 DEF ClockInv, TypeOK
  <2> QED BY <2>2, <2>3, <2>4
<1> QED BY <1>1, Invariance, PTL DEF Spec, SnapshotsNeverGoBack
==========================================================================
