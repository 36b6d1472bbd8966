------------------------- MODULE OptLatchProofs -------------------------
(***************************************************************************)
(* Proofs about OptLatch, for any number of threads and any bound on the   *)
(* counter: the inductive invariant LatchInv, what follows from it, and    *)
(* the refinement of ExclusiveLatch.                                       *)
(***************************************************************************)
EXTENDS OptLatch, TLAPS

(* The bit operations keep words words, and touch no other bit.            *)

LEMMA WordOps ==
  ASSUME NEW w \in Words
  PROVE  /\ w.obsolete \in BOOLEAN /\ w.write \in BOOLEAN /\ w.pin \in BOOLEAN
         /\ w.count \in Nat
         /\ Unpinned(w) \in Words /\ Pinned(w) \in Words
         /\ Written(w) \in Words /\ Unlocked(w) \in Words
<1>1. w.obsolete \in BOOLEAN /\ w.write \in BOOLEAN /\ w.pin \in BOOLEAN
  BY DEF Words
<1>2. w.count \in Nat
  BY DEF Words
<1>3. Unpinned(w) \in Words
  BY DEF Words, Unpinned
<1>4. Pinned(w) \in Words
  BY DEF Words, Pinned
<1>5. Written(w) \in Words
  BY <1>3 DEF Words, Written
<1>6. Unlocked(w) \in Words
  <2>1. w.count + 1 \in Nat
    BY <1>2
  <2>2. [w EXCEPT !.count = w.count + 1] \in Words
    BY <2>1 DEF Words
  <2> QED BY <2>2 DEF Words, Unlocked
<1> QED BY <1>1, <1>2, <1>3, <1>4, <1>5, <1>6

(* What each of them does to the flags and to the counter. *)
LEMMA WordFields ==
  ASSUME NEW w \in Words
  PROVE  /\ Unpinned(w).obsolete = w.obsolete /\ Unpinned(w).write = w.write
         /\ ~Unpinned(w).pin /\ Unpinned(w).count = w.count
         /\ Pinned(w).obsolete = w.obsolete /\ Pinned(w).write = w.write
         /\ Pinned(w).pin /\ Pinned(w).count = w.count
         /\ Written(w).obsolete = w.obsolete /\ Written(w).write
         /\ ~Written(w).pin /\ Written(w).count = w.count
         /\ Unlocked(w).obsolete = w.obsolete /\ ~Unlocked(w).write
         /\ Unlocked(w).pin = w.pin /\ Unlocked(w).count = w.count + 1
         /\ w.count \in Nat
BY DEF Words, Unpinned, Pinned, Written, Unlocked

(* The two words that are written out in the code. *)
LEMMA ConstantWords ==
  /\ ZeroWord \in Words /\ ObsoleteWord \in Words
  /\ ~ZeroWord.obsolete /\ ~ZeroWord.write /\ ~ZeroWord.pin /\ ZeroWord.count = 0
  /\ ObsoleteWord.obsolete /\ ~ObsoleteWord.write /\ ~ObsoleteWord.pin
BY DEF Words, ZeroWord, ObsoleteWord

(* Type correctness, used by every later step. *)
LEMMA TypeInit == Init => TypeOK
BY ConstantWords DEF Init, TypeOK, Kinds, Pins, OLC, LHL

(* Every action keeps the types. *)
LEMMA TypeStep == ASSUME TypeOK, [Next]_vars PROVE TypeOK'
<1> USE DEF TypeOK, Become, Kinds, Pins
<1>0. \A w \in Words : /\ Unpinned(w) \in Words /\ Pinned(w) \in Words
                       /\ Written(w) \in Words /\ Unlocked(w) \in Words
  BY WordOps
<1>1. CASE UNCHANGED vars
  BY <1>1 DEF vars
<1>2. ASSUME NEW t \in Threads, BorrowRead(t) \/ BorrowPinned(t) PROVE TypeOK'
  BY <1>0, <1>2 DEF BorrowRead, BorrowPinned
<1>3. ASSUME NEW t \in Threads, NEW call \in {"pin", "append"}, PinLoad(t, call) PROVE TypeOK'
  BY <1>3 DEF PinLoad
<1>4. ASSUME NEW t \in Threads, PinSwap(t) PROVE TypeOK'
  BY <1>0, <1>4 DEF PinSwap
<1>10. ASSUME NEW t \in Threads, PinFail(t) PROVE TypeOK'
  BY <1>10 DEF PinFail
<1>5. ASSUME NEW t \in Threads, MutLoad(t) \/ MutSwap(t) \/ MutFail(t) PROVE TypeOK'
  BY <1>0, <1>5 DEF MutLoad, MutSwap, MutFail
<1>6. ASSUME NEW t \in Threads, UpgradeReader(t) \/ UpgradePin(t) \/ PinToAppend(t) PROVE TypeOK'
  BY <1>0, <1>6 DEF UpgradeReader, UpgradePin, PinToAppend
<1>7. ASSUME NEW t \in Threads, Downgrade(t) PROVE TypeOK'
  BY <1>0, <1>7 DEF Downgrade
<1>8. ASSUME NEW t \in Threads, MoveKeys(t) \/ MarkObsolete(t) PROVE TypeOK'
  BY <1>8, ConstantWords DEF MoveKeys, MarkObsolete
<1>9. ASSUME NEW t \in Threads, Drop(t) PROVE TypeOK'
  <2>1. AfterDrop(t) \in Words
    BY <1>0, <1>9 DEF AfterDrop
  <2> QED BY <1>9, <2>1, ConstantWords DEF Drop
<1> QED BY <1>1, <1>2, <1>3, <1>4, <1>10, <1>5, <1>6, <1>7, <1>8, <1>9 DEF Next

(* Which flags go with which guards: with the word free of flags nobody    *)
(* mutates, and a thread that mutates does so alone.                       *)
LEMMA Holders ==
  ASSUME LatchInv
  PROVE  /\ Readable(word) /\ ~word.pin => \A t \in Threads : ~Mutates(t)
         /\ word.pin => Readable(word)
         /\ Readable(word) => \A t \in Threads : kind[t] # "OLCWriter"
BY ConstantWords DEF LatchInv, MutualExclusion, FlagsAreHeld, PinMatchesWord, WriterMatchesWord,
   Mutates, Pins, Readable, TypeOK, ObsoleteWord

(* A fresh page satisfies the invariant. *)
LEMMA InvInit == Init => LatchInv
BY TypeInit, ConstantWords
   DEF Init, LatchInv, MutualExclusion, FlagsAreHeld, PinMatchesWord,
       WriterMatchesWord, SawNoFlags, HolderIsCurrent, ViewIsBehind, Viewing, Mutates, Pins

(* One step per action, and under it one per part of the invariant. *)
LEMMA InvStep == ASSUME LatchInv, [Next]_vars PROVE LatchInv'
<1>0. TypeOK /\ TypeOK'
  BY TypeStep DEF LatchInv
<1> USE ConstantWords, Holders DEF LatchInv, TypeOK, Become, Mutates, Pins, NoFlags, Idle, Readable
<1>1. ASSUME NEW t \in Threads, BorrowRead(t) PROVE LatchInv'
  <2> USE <1>0, WordFields, <1>1 DEF BorrowRead
  <2>1. MutualExclusion'
    BY DEF MutualExclusion
  <2>2. FlagsAreHeld'
    BY DEF FlagsAreHeld
  <2>3. \A u \in Threads : PinMatchesWord(u)' /\ WriterMatchesWord(u)'
    BY DEF PinMatchesWord, WriterMatchesWord
  <2>4. \A u \in Threads : SawNoFlags(u)'
    BY DEF SawNoFlags
  <2>5. \A u \in Threads : ViewIsBehind(u)'
    BY DEF ViewIsBehind, Viewing, View
  <2>6. \A u \in Threads : HolderIsCurrent(u)'
    BY DEF HolderIsCurrent
  <2> QED BY <2>1, <2>2, <2>3, <2>4, <2>5, <2>6
<1>2. ASSUME NEW t \in Threads, BorrowPinned(t) PROVE LatchInv'
  <2> USE <1>0, WordFields, <1>2 DEF BorrowPinned
  <2>1. MutualExclusion'
    BY DEF MutualExclusion
  <2>2. FlagsAreHeld'
    BY DEF FlagsAreHeld
  <2>3. \A u \in Threads : PinMatchesWord(u)' /\ WriterMatchesWord(u)'
    BY DEF PinMatchesWord, WriterMatchesWord
  <2>4. \A u \in Threads : SawNoFlags(u)'
    BY DEF SawNoFlags
  <2>5. \A u \in Threads : ViewIsBehind(u)'
    BY DEF ViewIsBehind, Viewing, View
  <2>6. \A u \in Threads : HolderIsCurrent(u)'
    BY DEF HolderIsCurrent
  <2> QED BY <2>1, <2>2, <2>3, <2>4, <2>5, <2>6
<1>3. ASSUME NEW t \in Threads, NEW call \in {"pin", "append"}, PinLoad(t, call) PROVE LatchInv'
  <2> USE <1>0, WordFields, <1>3 DEF PinLoad
  <2>1. MutualExclusion'
    BY DEF MutualExclusion
  <2>2. FlagsAreHeld'
    BY DEF FlagsAreHeld
  <2>3. \A u \in Threads : PinMatchesWord(u)' /\ WriterMatchesWord(u)'
    BY DEF PinMatchesWord, WriterMatchesWord
  <2>4. \A u \in Threads : SawNoFlags(u)'
    BY DEF SawNoFlags
  <2>5. \A u \in Threads : ViewIsBehind(u)'
    BY DEF ViewIsBehind, Viewing, View
  <2>6. \A u \in Threads : HolderIsCurrent(u)'
    BY DEF HolderIsCurrent
  <2> QED BY <2>1, <2>2, <2>3, <2>4, <2>5, <2>6
<1>4. ASSUME NEW t \in Threads, PinSwap(t) PROVE LatchInv'
  <2> USE <1>0, WordFields, <1>4 DEF PinSwap
  <2>1. MutualExclusion'
    BY DEF MutualExclusion, SawNoFlags
  <2>2. FlagsAreHeld'
    BY DEF FlagsAreHeld, SawNoFlags
  <2>3. \A u \in Threads : PinMatchesWord(u)' /\ WriterMatchesWord(u)'
    BY DEF PinMatchesWord, WriterMatchesWord, SawNoFlags
  <2>4. \A u \in Threads : SawNoFlags(u)'
    BY DEF SawNoFlags
  <2>5. \A u \in Threads : ViewIsBehind(u)'
    BY DEF SawNoFlags, ViewIsBehind, Viewing, View
  <2>6. \A u \in Threads : HolderIsCurrent(u)'
    BY DEF HolderIsCurrent
  <2> QED BY <2>1, <2>2, <2>3, <2>4, <2>5, <2>6
<1>5. ASSUME NEW t \in Threads, PinFail(t) PROVE LatchInv'
  <2> USE <1>0, WordFields, <1>5 DEF PinFail
  <2>1. MutualExclusion'
    BY DEF MutualExclusion
  <2>2. FlagsAreHeld'
    BY DEF FlagsAreHeld, SawNoFlags
  <2>3. \A u \in Threads : PinMatchesWord(u)' /\ WriterMatchesWord(u)'
    BY DEF PinMatchesWord, WriterMatchesWord
  <2>4. \A u \in Threads : SawNoFlags(u)'
    BY DEF SawNoFlags
  <2>5. \A u \in Threads : ViewIsBehind(u)'
    <3>1. Viewing(t)' => Viewing(t) /\ View(t)' = View(t)
      BY DEF Viewing, View
    <3>2. \A u \in Threads \ {t} : Viewing(u)' = Viewing(u) /\ View(u)' = View(u)
      BY DEF Viewing, View
    <3>3. \A u \in Threads : 
             /\ (kind[u] = "OLCWriter") = (kind'[u] = "OLCWriter")
             /\ kind[u] = "OLCWriter" => latch'[u] = latch[u]
      BY DEF SawNoFlags
    <3> QED BY <3>1, <3>2, <3>3 DEF ViewIsBehind
  <2>6. \A u \in Threads : HolderIsCurrent(u)'
    BY DEF HolderIsCurrent
  <2> QED BY <2>1, <2>2, <2>3, <2>4, <2>5, <2>6
<1>6. ASSUME NEW t \in Threads, MutLoad(t) PROVE LatchInv'
  <2> USE <1>0, WordFields, <1>6 DEF MutLoad
  <2>1. MutualExclusion'
    BY DEF MutualExclusion
  <2>2. FlagsAreHeld'
    BY DEF FlagsAreHeld
  <2>3. \A u \in Threads : PinMatchesWord(u)' /\ WriterMatchesWord(u)'
    BY DEF PinMatchesWord, WriterMatchesWord
  <2>4. \A u \in Threads : SawNoFlags(u)'
    BY DEF SawNoFlags
  <2>5. \A u \in Threads : ViewIsBehind(u)'
    BY DEF ViewIsBehind, Viewing, View
  <2>6. \A u \in Threads : HolderIsCurrent(u)'
    BY DEF HolderIsCurrent
  <2> QED BY <2>1, <2>2, <2>3, <2>4, <2>5, <2>6
<1>7. ASSUME NEW t \in Threads, MutSwap(t) PROVE LatchInv'
  <2> USE <1>0, WordFields, <1>7 DEF MutSwap
  <2>1. MutualExclusion'
    BY DEF MutualExclusion, SawNoFlags
  <2>2. FlagsAreHeld'
    BY DEF FlagsAreHeld
  <2>3. \A u \in Threads : PinMatchesWord(u)' /\ WriterMatchesWord(u)'
    BY DEF PinMatchesWord, WriterMatchesWord, SawNoFlags
  <2>4. \A u \in Threads : SawNoFlags(u)'
    BY DEF SawNoFlags
  <2>5. \A u \in Threads : ViewIsBehind(u)'
    BY DEF SawNoFlags, ViewIsBehind, Viewing, View
  <2>6. \A u \in Threads : HolderIsCurrent(u)'
    BY DEF HolderIsCurrent
  <2> QED BY <2>1, <2>2, <2>3, <2>4, <2>5, <2>6
<1>8. ASSUME NEW t \in Threads, MutFail(t) PROVE LatchInv'
  <2> USE <1>0, WordFields, <1>8 DEF MutFail
  <2>1. MutualExclusion'
    BY DEF MutualExclusion
  <2>2. FlagsAreHeld'
    BY DEF FlagsAreHeld
  <2>3. \A u \in Threads : PinMatchesWord(u)' /\ WriterMatchesWord(u)'
    BY DEF PinMatchesWord, WriterMatchesWord
  <2>4. \A u \in Threads : SawNoFlags(u)'
    BY DEF SawNoFlags
  <2>5. \A u \in Threads : ViewIsBehind(u)'
    BY DEF ViewIsBehind, Viewing, View
  <2>6. \A u \in Threads : HolderIsCurrent(u)'
    BY DEF HolderIsCurrent
  <2> QED BY <2>1, <2>2, <2>3, <2>4, <2>5, <2>6
<1>9. ASSUME NEW t \in Threads, UpgradeReader(t) PROVE LatchInv'
  <2> USE <1>0, WordFields, <1>9 DEF UpgradeReader
  <2>1. MutualExclusion'
    BY DEF MutualExclusion, SawNoFlags
  <2>2. FlagsAreHeld'
    BY DEF FlagsAreHeld
  <2>3. \A u \in Threads : PinMatchesWord(u)' /\ WriterMatchesWord(u)'
    BY DEF PinMatchesWord, WriterMatchesWord, SawNoFlags
  <2>4. \A u \in Threads : SawNoFlags(u)'
    BY DEF SawNoFlags
  <2>5. \A u \in Threads : ViewIsBehind(u)'
    BY DEF WriterMatchesWord, SawNoFlags, ViewIsBehind, Viewing, View
  <2>6. \A u \in Threads : HolderIsCurrent(u)'
    BY SMTT(30) DEF SawNoFlags, HolderIsCurrent, ViewIsBehind, Viewing, View
  <2> QED BY <2>1, <2>2, <2>3, <2>4, <2>5, <2>6
<1>10. ASSUME NEW t \in Threads, UpgradePin(t) PROVE LatchInv'
  <2> USE <1>0, WordFields, <1>10 DEF UpgradePin
  <2>1. MutualExclusion'
    BY DEF MutualExclusion
  <2>2. FlagsAreHeld'
    BY DEF FlagsAreHeld
  <2>3. \A u \in Threads : PinMatchesWord(u)' /\ WriterMatchesWord(u)'
    BY DEF MutualExclusion, PinMatchesWord, WriterMatchesWord
  <2>4. \A u \in Threads : SawNoFlags(u)'
    BY DEF SawNoFlags
  <2>5. \A u \in Threads : ViewIsBehind(u)'
    BY DEF PinMatchesWord, ViewIsBehind, Viewing, View
  <2>6. \A u \in Threads : HolderIsCurrent(u)'
    BY DEF HolderIsCurrent
  <2> QED BY <2>1, <2>2, <2>3, <2>4, <2>5, <2>6
<1>11. ASSUME NEW t \in Threads, PinToAppend(t) PROVE LatchInv'
  <2> USE <1>0, WordFields, <1>11 DEF PinToAppend
  <2>1. MutualExclusion'
    BY DEF MutualExclusion
  <2>2. FlagsAreHeld'
    BY DEF FlagsAreHeld
  <2>3. \A u \in Threads : PinMatchesWord(u)' /\ WriterMatchesWord(u)'
    BY DEF PinMatchesWord, WriterMatchesWord
  <2>4. \A u \in Threads : SawNoFlags(u)'
    BY DEF SawNoFlags
  <2>5. \A u \in Threads : ViewIsBehind(u)'
    BY DEF ViewIsBehind, Viewing, View
  <2>6. \A u \in Threads : HolderIsCurrent(u)'
    BY DEF HolderIsCurrent
  <2> QED BY <2>1, <2>2, <2>3, <2>4, <2>5, <2>6
<1>12. ASSUME NEW t \in Threads, Downgrade(t) PROVE LatchInv'
  <2> USE <1>0, WordFields, <1>12 DEF Downgrade
  <2>0. Mutates(t) /\ \A u \in Threads : ~Mutates(u)'
    <3>1. Mutates(t) /\ kind'[t] = "OLCReader"
      OBVIOUS
    <3>2. \A u \in Threads \ {t} : ~Mutates(u) /\ kind'[u] = kind[u]
      BY <3>1 DEF MutualExclusion
    <3> QED BY <3>1, <3>2
  <2>1. MutualExclusion'
    BY <2>0 DEF MutualExclusion
  <2>2. FlagsAreHeld'
    BY DEF FlagsAreHeld, PinMatchesWord, WriterMatchesWord
  <2>3. \A u \in Threads : PinMatchesWord(u)' /\ WriterMatchesWord(u)'
    BY <2>0 DEF PinMatchesWord, WriterMatchesWord
  <2>4. \A u \in Threads : SawNoFlags(u)'
    BY DEF PinMatchesWord, WriterMatchesWord, SawNoFlags
  <2>5. \A u \in Threads : ViewIsBehind(u)'
    <3>2. t \notin stale /\ word'.count = latch'[t].count
      BY DEF HolderIsCurrent
    <3>3. \A u \in Threads \ {t} : Viewing(u)' = Viewing(u) /\ View(u)' = View(u)
      BY DEF Viewing, View
    <3>4. pc[t] # "pin"
      BY DEF SawNoFlags
    <3>5. ViewIsBehind(t)'
      BY <2>0, <3>2, <3>4 DEF ViewIsBehind, View
    <3>6. ASSUME NEW u \in Threads \ {t}, Viewing(u)
          PROVE  /\ View(u).count <= word'.count
                 /\ View(u).count = word'.count => u \notin stale
      <4>1. View(u).count \in Nat
        BY DEF View
      <4>2. CASE kind[t] = "OLCWriter"
        <5>1. View(u).count <= latch[t].count
          BY <3>6, <4>2 DEF ViewIsBehind, OLC, LHL
        <5>2. word'.count = latch[t].count + 1
          BY <4>2
        <5> QED BY <4>1, <5>1, <5>2
      <4>3. CASE kind[t] \in Pins
        <5>1. word'.count = word.count
          BY <4>3 DEF PinMatchesWord
        <5>2. ~word.obsolete /\ \A v \in Threads : kind[v] # "OLCWriter"
          BY <4>3 DEF PinMatchesWord
        <5> QED BY <3>6, <5>1, <5>2 DEF ViewIsBehind
      <4> QED BY <4>2, <4>3
    <3> QED BY <2>0, <3>3, <3>5, <3>6, SMTT(30) DEF ViewIsBehind
  <2>6. \A u \in Threads : HolderIsCurrent(u)'
    BY DEF HolderIsCurrent
  <2> QED BY <2>1, <2>2, <2>3, <2>4, <2>5, <2>6
<1>13. ASSUME NEW t \in Threads, MoveKeys(t) PROVE LatchInv'
  <2> USE <1>0, WordFields, <1>13 DEF MoveKeys
  <2>1. MutualExclusion'
    BY DEF MutualExclusion
  <2>2. FlagsAreHeld'
    BY DEF FlagsAreHeld
  <2>3. \A u \in Threads : PinMatchesWord(u)' /\ WriterMatchesWord(u)'
    BY DEF PinMatchesWord, WriterMatchesWord
  <2>4. \A u \in Threads : SawNoFlags(u)'
    BY DEF SawNoFlags
  <2>5. \A u \in Threads : ViewIsBehind(u)'
    <3>1. ~(\A u \in Threads : kind'[u] # "OLCWriter")
      OBVIOUS
    <3>2. ASSUME NEW u \in Threads, Viewing(u)
          PROVE  \A v \in Threads :
                   kind[v] = "OLCWriter" /\ ~(flavour = LHL /\ word.obsolete) =>
                     View(u).count <= latch[v].count
      BY <3>2 DEF ViewIsBehind
    <3> QED BY DEF ViewIsBehind, Viewing, View
  <2>6. \A u \in Threads : HolderIsCurrent(u)'
    BY DEF MutualExclusion, HolderIsCurrent
  <2> QED BY <2>1, <2>2, <2>3, <2>4, <2>5, <2>6
<1>14. ASSUME NEW t \in Threads, MarkObsolete(t) PROVE LatchInv'
  <2> USE <1>0, WordFields, <1>14 DEF MarkObsolete
  <2>1. MutualExclusion'
    BY DEF MutualExclusion
  <2>2. FlagsAreHeld'
    BY DEF FlagsAreHeld
  <2>3. \A u \in Threads : PinMatchesWord(u)' /\ WriterMatchesWord(u)'
    BY DEF MutualExclusion, PinMatchesWord, WriterMatchesWord
  <2>4. \A u \in Threads : SawNoFlags(u)'
    BY DEF SawNoFlags
  <2>5. \A u \in Threads : ViewIsBehind(u)'
    BY DEF ViewIsBehind, Viewing, View
  <2>6. \A u \in Threads : HolderIsCurrent(u)'
    BY DEF HolderIsCurrent
  <2> QED BY <2>1, <2>2, <2>3, <2>4, <2>5, <2>6
<1>15. ASSUME NEW t \in Threads, Drop(t) PROVE LatchInv'
  <2> USE <1>0, WordFields, <1>15 DEF Drop, AfterDrop
  <2>1. MutualExclusion'
    BY DEF MutualExclusion
  <2>2. FlagsAreHeld'
    <3>1. CASE Mutates(t)
      <4>1. ~word'.pin /\ ~word'.write
        BY <3>1 DEF PinMatchesWord, WriterMatchesWord
      <4>2. flavour = OLC => ~word'.obsolete
        BY <3>1 DEF PinMatchesWord, WriterMatchesWord, OLC, LHL
      <4> QED BY <4>1, <4>2 DEF FlagsAreHeld
    <3>2. CASE ~Mutates(t)
      <4>1. word' = word /\ \A u \in Threads : Mutates(u) => kind'[u] = kind[u]
        BY <3>2
      <4> QED BY <4>1 DEF FlagsAreHeld
    <3> QED BY <3>1, <3>2
  <2>3. \A u \in Threads : PinMatchesWord(u)' /\ WriterMatchesWord(u)'
    <3>1. CASE Mutates(t)
      <4>1. \A u \in Threads : ~Mutates(u)'
        BY <3>1 DEF MutualExclusion
      <4> QED BY <4>1 DEF PinMatchesWord, WriterMatchesWord
    <3>2. CASE ~Mutates(t)
      <4>1. /\ word' = word
            /\ kind'[t] = "None"
            /\ \A u \in Threads \ {t} : kind'[u] = kind[u] /\ latch'[u] = latch[u]
        BY <3>2
      <4> QED BY <4>1 DEF PinMatchesWord, WriterMatchesWord
    <3> QED BY <3>1, <3>2
  <2>4. \A u \in Threads : SawNoFlags(u)'
    BY DEF SawNoFlags
  <2>5. \A u \in Threads : ViewIsBehind(u)'
    BY DEF PinMatchesWord, WriterMatchesWord, ViewIsBehind, Viewing, View
  <2>6. \A u \in Threads : HolderIsCurrent(u)'
    BY DEF HolderIsCurrent
  <2> QED BY <2>1, <2>2, <2>3, <2>4, <2>5, <2>6
<1>16. CASE UNCHANGED vars
  BY <1>0, <1>16
     DEF vars, MutualExclusion, FlagsAreHeld, PinMatchesWord, WriterMatchesWord,
         SawNoFlags, HolderIsCurrent, ViewIsBehind, Viewing, View
<1> QED
  BY <1>1, <1>2, <1>3, <1>4, <1>5, <1>6, <1>7, <1>8, <1>9, <1>10, <1>11, <1>12,
     <1>13, <1>14, <1>15, <1>16
     DEF Next

-------------------------------------------------------------------------
(* The invariant holds in every reachable state. *)
THEOREM Invariance == Spec => []LatchInv
<1>1. Init => LatchInv
  BY InvInit
<1>2. LatchInv /\ [Next]_vars => LatchInv'
  BY InvStep
<1> QED BY <1>1, <1>2, PTL DEF Spec

(* The variables keep their types, whatever the number of threads. *)
THEOREM TypeCorrect == Spec => []TypeOK
<1>1. LatchInv => TypeOK
  BY DEF LatchInv
<1> QED BY <1>1, Invariance, PTL

(* Pins, append pins and write latches of a page exclude one another. *)
THEOREM Exclusion == Spec => []MutualExclusion
<1>1. LatchInv => MutualExclusion
  BY DEF LatchInv
<1> QED BY <1>1, Invariance, PTL

(* A view that validates is current, and no writer is at work. *)
LEMMA ValidView ==
  ASSUME LatchInv, NEW t \in Threads, kind[t] = "OLCReader", IsReadValid(latch[t])
  PROVE  t \notin stale /\ \A u \in Threads : kind[u] # "OLCWriter"
<1>1. Readable(word) /\ Unpinned(word).count = latch[t].count
  BY DEF IsReadValid
<1>2. \A u \in Threads : kind[u] # "OLCWriter"
  BY <1>1, Holders
<1>3. Unpinned(word).count = word.count
  BY WordFields DEF LatchInv, TypeOK
<1>4. SawNoFlags(t) /\ ViewIsBehind(t)
  BY DEF LatchInv
<1>5. pc[t] # "pin"
  BY <1>4 DEF SawNoFlags
<1> QED BY <1>1, <1>2, <1>3, <1>4, <1>5 DEF ViewIsBehind, Viewing, View, Readable

(* A validated optimistic read saw the page as it still is. *)
THEOREM ValidRead == Spec => []ValidReadIsConsistent
<1>1. LatchInv => ValidReadIsConsistent
  BY ValidView DEF ValidReadIsConsistent
<1> QED BY <1>1, Invariance, PTL

(* A reader that became a writer kept what it had read: no key moved       *)
(* between the load of its version and the swap.                           *)
THEOREM UpgradeIsSafe == Spec => UpgradeKeepsWhatWasRead
<1> DEFINE Kept == \A t \in Threads :
                     kind[t] = "OLCReader" /\ kind'[t] = "OLCWriter" => t \notin stale
<1>1. LatchInv /\ [Next]_vars => [Kept]_vars
  <2> SUFFICES ASSUME LatchInv, Next, NEW t \in Threads,
                      kind[t] = "OLCReader", kind'[t] = "OLCWriter"
               PROVE  t \notin stale
    BY DEF vars
  <2>1. UpgradeReader(t)
    BY DEF Next, BorrowRead, BorrowPinned, PinLoad, PinSwap, PinFail, MutLoad, MutSwap,
           MutFail, UpgradeReader, UpgradePin, PinToAppend, Downgrade, MoveKeys,
           MarkObsolete, Drop, Become, LatchInv, TypeOK, SawNoFlags, Pins
  <2>2. NoFlags(latch[t]) /\ word = latch[t]
    BY <2>1 DEF LatchInv, SawNoFlags, UpgradeReader
  <2>3. Unpinned(word) = word
    BY <2>2 DEF LatchInv, TypeOK, Words, Unpinned, NoFlags
  <2> QED BY <2>2, <2>3, ValidView DEF IsReadValid, Readable, NoFlags
<1> QED BY <1>1, Invariance, PTL DEF Spec, UpgradeKeepsWhatWasRead

-------------------------------------------------------------------------
(* Refinement: what the word shows is what the abstract latch is in.       *)

(* The thread that mutates is the abstract holder. *)
LEMMA HolderOf ==
  ASSUME LatchInv
  PROVE  /\ \A t \in Threads : Mutates(t) => Holder = t
         /\ (\A t \in Threads : ~Mutates(t)) => Holder = NoThread
BY DEF LatchInv, MutualExclusion, Holder

(* The kind of the holder's guard decides the abstract mode. *)
LEMMA ModeOf ==
  ASSUME LatchInv, NEW t \in Threads
  PROVE  /\ kind[t] \in Pins => Mode = "pinned"
         /\ kind[t] = "OLCWriter" =>
              Mode = IF flavour = LHL /\ word.obsolete THEN "retired" ELSE "writing"
BY ConstantWords DEF LatchInv, PinMatchesWord, WriterMatchesWord, Mode, Pins, Readable

(* Each step is one abstract action or changes nothing that shows. *)
LEMMA StepRefines ==
  ASSUME LatchInv, LatchInv', [Next]_vars
  PROVE  [Abstract!Next]_(Abstract!vars)
<1>1. /\ \A u \in Threads : Mutates(u) => Holder = u
      /\ (\A u \in Threads : ~Mutates(u)) => Holder = NoThread
  BY HolderOf
<1>2. /\ \A u \in Threads : Mutates(u)' => Holder' = u
      /\ (\A u \in Threads : ~Mutates(u)') => Holder' = NoThread
  BY DEF LatchInv, MutualExclusion, Holder
<1>3. /\ \A u \in Threads : kind[u] \in Pins => Mode = "pinned"
      /\ \A u \in Threads : kind[u] = "OLCWriter" =>
           Mode = IF flavour = LHL /\ word.obsolete THEN "retired" ELSE "writing"
  BY ModeOf
<1>4. ASSUME \A u \in Threads : Mutates(u)' = Mutates(u), Mode' = Mode
      PROVE  UNCHANGED Abstract!vars
  BY <1>1, <1>2, <1>4 DEF Abstract!vars
<1>5. CASE UNCHANGED vars
  BY <1>4, <1>5 DEF vars, Mutates, Mode
<1> USE DEF LatchInv, TypeOK, Become, Idle, Pins
<1>6. ASSUME NEW t \in Threads,
             \/ BorrowRead(t) \/ BorrowPinned(t) \/ PinFail(t) \/ MutLoad(t) \/ MutFail(t)
             \/ PinToAppend(t) \/ MoveKeys(t) \/ \E call \in {"pin", "append"} : PinLoad(t, call)
      PROVE  UNCHANGED Abstract!vars
  <2>1. word' = word /\ flavour' = flavour
    BY <1>6 DEF BorrowRead, BorrowPinned, PinFail, MutLoad, MutFail, PinToAppend, MoveKeys, PinLoad
  <2>2. \A u \in Threads : Mutates(u)' = Mutates(u)
    BY <1>6 DEF BorrowRead, BorrowPinned, PinFail, MutLoad, MutFail, PinToAppend, MoveKeys, PinLoad,
                Mutates, SawNoFlags
  <2> QED BY <1>4, <2>1, <2>2 DEF Mode
<1>7. ASSUME NEW t \in Threads, PinSwap(t) \/ MutSwap(t) \/ UpgradeReader(t)
      PROVE  \E m \in {"pinned", "writing"} : Abstract!Acquire(t, m)
  <2>1. Mode = "free"
    BY <1>7 DEF PinSwap, MutSwap, UpgradeReader, SawNoFlags, NoFlags, Mode
  <2>2. Mutates(t)'
    BY <1>7 DEF PinSwap, MutSwap, UpgradeReader, Mutates
  <2>3. Mode' \in {"pinned", "writing"}
    <3>1. ~word.obsolete
      BY <1>7 DEF PinSwap, MutSwap, UpgradeReader, SawNoFlags, NoFlags
    <3>2. ~word'.obsolete /\ (word'.pin \/ word'.write)
      BY <1>7, <3>1, WordFields DEF PinSwap, MutSwap, UpgradeReader
    <3> QED BY <3>2 DEF Mode
  <2> QED BY <1>2, <2>1, <2>2, <2>3 DEF Abstract!Acquire
<1>8. ASSUME NEW t \in Threads, UpgradePin(t)
      PROVE  Abstract!Promote(t)
  <2>1. Mutates(t) /\ Mutates(t)' /\ Mode = "pinned"
    BY <1>8, <1>3 DEF UpgradePin, Mutates
  <2>2. ~latch[t].obsolete
    BY <1>8 DEF UpgradePin, PinMatchesWord, Readable
  <2>3. Mode' = "writing"
    BY <1>8, <2>2, WordFields DEF UpgradePin, Mode
  <2> QED BY <1>1, <1>2, <2>1, <2>3 DEF Abstract!Promote
<1>9. ASSUME NEW t \in Threads, MarkObsolete(t)
      PROVE  UNCHANGED Abstract!vars \/ Abstract!Retire(t)
  <2>1. Mutates(t) /\ \A u \in Threads : Mutates(u)' = Mutates(u)
    BY <1>9 DEF MarkObsolete, Mutates
  <2>2. Mode' = IF flavour = LHL THEN "retired" ELSE "writing"
    BY <1>9, ConstantWords DEF MarkObsolete, Mode
  <2>3. Mode = IF flavour = LHL /\ word.obsolete THEN "retired" ELSE "writing"
    BY <1>9, <1>3 DEF MarkObsolete
  <2>4. CASE Mode' = Mode
    BY <1>4, <2>1, <2>4
  <2>5. CASE Mode' # Mode
    BY <1>1, <1>2, <2>1, <2>2, <2>3, <2>5 DEF Abstract!Retire
  <2> QED BY <2>4, <2>5
<1>10. ASSUME NEW t \in Threads, Downgrade(t) \/ Drop(t), Mutates(t)
       PROVE  Abstract!Release(t) \/ Abstract!Leave(t)
  <2>1. kind'[t] \in {"None", "OLCReader"} /\ \A u \in Threads \ {t} : kind'[u] = kind[u]
    BY <1>10 DEF Downgrade, Drop
  <2>2. \A u \in Threads : ~Mutates(u)'
    BY <1>10, <2>1 DEF Mutates, MutualExclusion
  <2>3. CASE kind[t] = "OLCWriter" /\ flavour = LHL /\ word.obsolete
    <3>1. word' = word /\ flavour' = flavour
      BY <1>10, <2>3, ConstantWords DEF Downgrade, Drop, AfterDrop, WriterMatchesWord, OLC, LHL
    <3> QED BY <1>1, <1>2, <1>3, <1>10, <2>2, <2>3, <3>1 DEF Mode, Abstract!Leave
  <2>4. CASE kind[t] \in Pins \/ ~(flavour = LHL /\ word.obsolete)
    <3>1. Mode \in {"pinned", "writing"}
      BY <1>3, <1>10, <2>4 DEF Mutates
    <3>2. CASE kind[t] \in Pins
      <4>1. word' = Unpinned(latch[t]) /\ Readable(latch[t])
        BY <1>10, <3>2 DEF Downgrade, Drop, AfterDrop, PinMatchesWord
      <4> QED BY <1>1, <1>2, <1>10, <2>2, <3>1, <4>1, WordFields DEF Readable, Mode, Abstract!Release
    <3>3. CASE kind[t] = "OLCWriter"
      <4>1. latch[t] # ZeroWord /\ ~latch[t].obsolete /\ ~latch[t].pin
        BY <2>4, <3>3, ConstantWords DEF WriterMatchesWord
      <4>2. word' = Unlocked(latch[t])
        BY <1>10, <3>3, <4>1 DEF Downgrade, Drop, AfterDrop
      <4>3. Mode' = "free"
        BY <4>1, <4>2, WordFields DEF Mode
      <4> QED BY <1>1, <1>2, <1>10, <2>2, <3>1, <4>3 DEF Abstract!Release
    <3> QED BY <3>2, <3>3, <1>10 DEF Mutates
  <2> QED BY <1>10, <2>3, <2>4 DEF Mutates
<1>11. ASSUME NEW t \in Threads, Drop(t), ~Mutates(t)
       PROVE  UNCHANGED Abstract!vars
  <2>1. word' = word /\ flavour' = flavour
    BY <1>11 DEF Drop, AfterDrop, Mutates
  <2>2. \A u \in Threads : Mutates(u)' = Mutates(u)
    BY <1>11 DEF Drop, Mutates
  <2> QED BY <1>4, <2>1, <2>2 DEF Mode
<1>12. ASSUME NEW t \in Threads, Downgrade(t) PROVE Mutates(t)
  BY <1>12 DEF Downgrade, Mutates
<1> QED BY <1>5, <1>6, <1>7, <1>8, <1>9, <1>10, <1>11, <1>12 DEF Next, Abstract!Next

(* The guards and the word implement the abstract exclusive latch: every   *)
(* step is an acquisition, promotion, release or retirement, or invisible. *)
THEOREM Refinement == Spec => ImplementsExclusiveLatch
<1>1. Init => Abstract!Init
  BY ConstantWords DEF Init, Abstract!Init, Holder, Mode, Mutates, Pins
<1>2. LatchInv /\ LatchInv' /\ [Next]_vars => [Abstract!Next]_(Abstract!vars)
  BY StepRefines
<1> QED BY <1>1, <1>2, Invariance, PTL DEF Spec, ImplementsExclusiveLatch, Abstract!Spec
=========================================================================
