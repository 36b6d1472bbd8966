---------------------------- MODULE OptLatch ----------------------------
(***************************************************************************)
(* The optimistic page latch: OptCell's version word and the SmartGuards   *)
(* that threads hold on one page, in the two flavours that use the word    *)
(* alone (OLCCell and LightWeightHybridCell).  Loads, compare-and-swaps    *)
(* and stores of the word are steps of their own, interleaved.             *)
(***************************************************************************)
EXTENDS Naturals

CONSTANTS
  Threads,    \* worker threads that share the page
  NoThread,   \* nobody, in the refinement mapping
  MaxCount    \* bound on the counter of the version word

ASSUME NoThreadAssumption == NoThread \notin Threads
ASSUME MaxCountAssumption == MaxCount \in Nat

VARIABLES
  flavour,    \* the cell's SmartFlavor, fixed when the tree is made
  word,       \* OptCell::cell_version
  kind,       \* kind[t]: the variant of t's SmartGuard ("None": no access)
  latch,      \* latch[t]: the LatchVersion kept in t's guard
  pc,         \* pc[t]: the locking call that has loaded the word, not yet swapped
  loaded,     \* loaded[t]: the word that call loaded
  stale       \* history: threads whose view began before the last key move

vars == <<flavour, word, kind, latch, pc, loaded, stale>>

OLC == "OLCCell"
LHL == "LightWeightHybridCell"

Pins  == {"OLCReaderPin", "OLCAppendPin"}
Kinds == Pins \cup {"None", "OLCReader", "OLCWriter"}

(* The three flag bits of the 64-bit word and the counter below them. *)
Words == [obsolete : BOOLEAN, write : BOOLEAN, pin : BOOLEAN, count : Nat]

ZeroWord     == [obsolete |-> FALSE, write |-> FALSE, pin |-> FALSE, count |-> 0]
ObsoleteWord == [ZeroWord EXCEPT !.obsolete = TRUE]

Unpinned(w) == [w EXCEPT !.pin = FALSE]
Pinned(w)   == [w EXCEPT !.pin = TRUE]
Written(w)  == [Unpinned(w) EXCEPT !.write = TRUE]
(* Faults: the counter stays as it was, or counts down. *)
Unlocked_SameCount(w) == [w EXCEPT !.write = FALSE]
Unlocked_CountDown(w) == [w EXCEPT !.write = FALSE, !.count = @ - 1]

Unlocked(w) == [[w EXCEPT !.count = @ + 1] EXCEPT !.write = FALSE]

Readable(w) == ~w.write /\ ~w.obsolete
Idle(t)     == pc[t] = "idle"

(* is_read_valid: the page may have been pinned since, never written. *)
IsReadValid(l) == Unpinned(word) = l /\ Readable(word)

TypeOK ==
  /\ flavour \in {OLC, LHL}
  /\ word \in Words
  /\ kind \in [Threads -> Kinds]
  /\ latch \in [Threads -> Words]
  /\ pc \in [Threads -> {"idle", "pin", "append", "mut"}]
  /\ loaded \in [Threads -> Words]
  /\ stale \subseteq Threads

Init ==
  /\ flavour \in {OLC, LHL}
  /\ word = ZeroWord
  /\ kind = [t \in Threads |-> "None"]
  /\ latch = [t \in Threads |-> ZeroWord]
  /\ pc = [t \in Threads |-> "idle"]
  /\ loaded = [t \in Threads |-> ZeroWord]
  /\ stale = {}

Become(t, k, l) ==
  /\ kind' = [kind EXCEPT ![t] = k]
  /\ latch' = [latch EXCEPT ![t] = l]

-------------------------------------------------------------------------
(* Taking a guard.  A call that fails and leaves everything as it was is a *)
(* stuttering step.                                                        *)

BorrowRead(t) ==
  /\ Idle(t)
  /\ kind[t] = "None"
  /\ Readable(word)
  /\ Become(t, "OLCReader", Unpinned(word))
  /\ stale' = stale \ {t}
  /\ UNCHANGED <<flavour, word, pc, loaded>>

(* borrow_pin, on a page someone else has pinned: an optimistic reader. *)
BorrowPinned(t) ==
  /\ Idle(t)
  /\ flavour = LHL
  /\ kind[t] = "None"
  /\ word.pin
  /\ Become(t, "OLCReader", Unpinned(word))
  /\ stale' = stale \ {t}
  /\ UNCHANGED <<flavour, word, pc, loaded>>

(* The load of pin_lock, called by borrow_pin or by upgrade_append_lock. *)
PinLoad(t, call) ==
  /\ Idle(t)
  /\ ~word.pin /\ Readable(word)
  /\ \/ call = "pin" /\ flavour = LHL /\ kind[t] = "None" /\ stale' = stale \ {t}
     \/ call = "append" /\ kind[t] = "OLCReader" /\ UNCHANGED stale
  /\ pc' = [pc EXCEPT ![t] = call]
  /\ loaded' = [loaded EXCEPT ![t] = word]
  /\ UNCHANGED <<flavour, word, kind, latch>>

(* Its swap succeeds: what the guard had read before plays no part. *)
PinSwap(t) ==
  /\ pc[t] \in {"pin", "append"}
  /\ word = loaded[t]
  /\ word' = Pinned(loaded[t])
  /\ Become(t, IF pc[t] = "pin" THEN "OLCReaderPin" ELSE "OLCAppendPin",
            Pinned(loaded[t]))
  /\ pc' = [pc EXCEPT ![t] = "idle"]
  /\ stale' = stale \ {t}
  /\ UNCHANGED <<flavour, loaded>>

(* It fails, perhaps spuriously: borrow_pin falls back on reading, and     *)
(* upgrade_append_lock leaves the reader that it was.                      *)
PinFail(t) ==
  /\ \/ pc[t] = "pin" /\ Become(t, "OLCReader", loaded[t])
     \/ pc[t] = "append" /\ UNCHANGED <<kind, latch>>
  /\ pc' = [pc EXCEPT ![t] = "idle"]
  /\ UNCHANGED <<flavour, word, loaded, stale>>

(* Fault: the pin flag is not in the mask. *)
MutLoad_IgnoresPin(t) ==
  /\ Idle(t)
  /\ kind[t] = "None"
  /\ Readable(word)
  /\ pc' = [pc EXCEPT ![t] = "mut"]
  /\ loaded' = [loaded EXCEPT ![t] = word]
  /\ UNCHANGED <<flavour, word, kind, latch, stale>>

(* The load of borrow_mut: any flag makes it give up. *)
MutLoad(t) ==
  /\ Idle(t)
  /\ kind[t] = "None"
  /\ ~word.pin /\ Readable(word)
  /\ pc' = [pc EXCEPT ![t] = "mut"]
  /\ loaded' = [loaded EXCEPT ![t] = word]
  /\ UNCHANGED <<flavour, word, kind, latch, stale>>

MutSwap(t) ==
  /\ pc[t] = "mut"
  /\ word = loaded[t]
  /\ word.count < MaxCount
  /\ word' = Written(loaded[t])
  /\ Become(t, "OLCWriter", Written(loaded[t]))
  /\ pc' = [pc EXCEPT ![t] = "idle"]
  /\ stale' = stale \ {t}
  /\ UNCHANGED <<flavour, loaded>>

MutFail(t) ==
  /\ pc[t] = "mut"
  /\ pc' = [pc EXCEPT ![t] = "idle"]
  /\ UNCHANGED <<flavour, word, kind, latch, loaded, stale>>

-------------------------------------------------------------------------
(* Changing a guard. *)

(* Fault: the retry that the code has commented out, a swap from the word  *)
(* as it is now instead of the one the guard has read.                     *)
UpgradeReader_Reloads(t) ==
  /\ Idle(t)
  /\ kind[t] = "OLCReader"
  /\ Readable(word) /\ ~word.pin
  /\ word.count < MaxCount
  /\ word' = Written(word)
  /\ Become(t, "OLCWriter", Written(word))
  /\ UNCHANGED <<flavour, pc, loaded, stale>>

(* upgrade_write_lock of an optimistic reader: a swap from its own latch. *)
UpgradeReader(t) ==
  /\ Idle(t)
  /\ kind[t] = "OLCReader"
  /\ word = latch[t]
  /\ word.count < MaxCount
  /\ word' = Written(latch[t])
  /\ Become(t, "OLCWriter", Written(latch[t]))
  /\ UNCHANGED <<flavour, pc, loaded, stale>>

(* upgrade_write_lock of a pin: a plain store. *)
UpgradePin(t) ==
  /\ kind[t] = "OLCReaderPin"
  /\ word.count < MaxCount
  /\ word' = Written(latch[t])
  /\ Become(t, "OLCWriter", Written(latch[t]))
  /\ UNCHANGED <<flavour, pc, loaded, stale>>

(* upgrade_append_lock of a pin that is already held. *)
PinToAppend(t) ==
  /\ kind[t] = "OLCReaderPin"
  /\ Become(t, "OLCAppendPin", latch[t])
  /\ UNCHANGED <<flavour, word, pc, loaded, stale>>

(* downgrade: only the OLC flavour gives anything up. *)
Downgrade(t) ==
  /\ flavour = OLC
  /\ \/ /\ kind[t] = "OLCWriter"
        /\ word' = Unlocked(latch[t])
        /\ Become(t, "OLCReader", Unlocked(latch[t]))
     \/ /\ kind[t] \in Pins
        /\ word' = Unpinned(latch[t])
        /\ Become(t, "OLCReader", Unpinned(latch[t]))
  /\ UNCHANGED <<flavour, pc, loaded, stale>>

-------------------------------------------------------------------------
(* Using and dropping a guard. *)

(* A writer moves keys: whatever the other threads have read is stale. *)
MoveKeys(t) ==
  /\ kind[t] = "OLCWriter"
  /\ stale' = Threads \ {t}
  /\ UNCHANGED <<flavour, word, kind, latch, pc, loaded>>

(* Fault: the lightweight guard keeps its latch, as the plain one does. *)
MarkObsolete_KeepsLatch(t) ==
  /\ kind[t] = "OLCWriter"
  /\ word' = ObsoleteWord
  /\ UNCHANGED <<flavour, kind, latch, pc, loaded, stale>>

(* mark_obsolete: in the lightweight flavour the guard forgets its latch,  *)
(* so that dropping it leaves the page obsolete.                           *)
MarkObsolete(t) ==
  /\ kind[t] = "OLCWriter"
  /\ word' = ObsoleteWord
  /\ latch' = IF flavour = LHL THEN [latch EXCEPT ![t] = ZeroWord] ELSE latch
  /\ UNCHANGED <<flavour, kind, pc, loaded, stale>>

(* Faults: a pin is left behind, or an obsolete page is never unlocked. *)
AfterDrop_LeavesPin(t) ==
  IF kind[t] = "OLCWriter" /\ ~(flavour = LHL /\ latch[t] = ZeroWord)
    THEN Unlocked(latch[t])
    ELSE IF kind[t] = "OLCReaderPin" THEN Unpinned(latch[t]) ELSE word

AfterDrop_SkipsObsolete(t) ==
  IF kind[t] = "OLCWriter" /\ ~word.obsolete
    THEN Unlocked(latch[t])
    ELSE IF kind[t] \in Pins THEN Unpinned(latch[t]) ELSE word

(* The word that Drop of t's guard leaves behind. *)
AfterDrop(t) ==
  IF kind[t] = "OLCWriter" /\ ~(flavour = LHL /\ latch[t] = ZeroWord)
    THEN Unlocked(latch[t])
    ELSE IF kind[t] \in Pins THEN Unpinned(latch[t]) ELSE word

Drop(t) ==
  /\ Idle(t)
  /\ kind[t] # "None"
  /\ word' = AfterDrop(t)
  /\ Become(t, "None", ZeroWord)
  /\ UNCHANGED <<flavour, pc, loaded, stale>>

-------------------------------------------------------------------------
Next ==
  \E t \in Threads :
    \/ BorrowRead(t)
    \/ BorrowPinned(t)
    \/ \E call \in {"pin", "append"} : PinLoad(t, call)
    \/ PinSwap(t)
    \/ PinFail(t)
    \/ MutLoad(t)
    \/ MutSwap(t)
    \/ MutFail(t)
    \/ UpgradeReader(t)
    \/ UpgradePin(t)
    \/ PinToAppend(t)
    \/ Downgrade(t)
    \/ MoveKeys(t)
    \/ MarkObsolete(t)
    \/ Drop(t)

(* Every guard goes out of scope: a thread always drops what it holds. *)
Fairness == \A t \in Threads : WF_vars(Drop(t))

Spec     == Init /\ [][Next]_vars
FairSpec == Spec /\ Fairness

-------------------------------------------------------------------------
(* A thread that may change the page: by its chains only, or its keys too. *)
Mutates(t) == kind[t] \in Pins \cup {"OLCWriter"}

(* No two threads hold a pin, an append pin or a write latch of the page   *)
(* together, whatever loads, swaps, upgrades, downgrades and drops they    *)
(* interleave.                                                             *)
MutualExclusion ==
  \A t, u \in Threads : Mutates(t) /\ Mutates(u) => t = u

(* An optimistic reader for which is_read_valid answers yes has seen no    *)
(* keys move since it took its guard, and no writer is moving them now:    *)
(* equal versions mean an unchanged page (no ABA on the word).             *)
ValidReadIsConsistent ==
  \A t \in Threads :
    kind[t] = "OLCReader" /\ IsReadValid(latch[t]) =>
      /\ t \notin stale
      /\ \A u \in Threads : kind[u] # "OLCWriter"

(* A writer that upgraded from an optimistic read still has under its      *)
(* latch the page it searched before the upgrade.                          *)
UpgradeKeepsWhatWasRead ==
  [][\A t \in Threads :
       kind[t] = "OLCReader" /\ kind'[t] = "OLCWriter" => t \notin stale]_vars

(* The latch as the word shows it. In the OLC flavour an obsolete word is  *)
(* a page whose writer is still there: the drop makes it readable again.   *)
Holder == IF \E t \in Threads : Mutates(t)
            THEN CHOOSE t \in Threads : Mutates(t)
            ELSE NoThread

Mode == IF word.obsolete
          THEN IF flavour = LHL THEN "retired" ELSE "writing"
          ELSE IF word.write THEN "writing" ELSE IF word.pin THEN "pinned" ELSE "free"

Abstract == INSTANCE ExclusiveLatch WITH holder <- Holder, mode <- Mode

(* The word and the guards together behave as an exclusive latch: taken    *)
(* only when free, given up only by its holder, and, in the lightweight    *)
(* flavour, retired for good by mark_obsolete.                             *)
ImplementsExclusiveLatch == Abstract!Spec

(* With every guard dropped in the end, a page that the plain optimistic   *)
(* protocol has marked obsolete becomes readable again.                    *)
PageReadableAgain == flavour = OLC => []<>Readable(word)

-------------------------------------------------------------------------
(* The inductive invariant behind these properties, in named parts.        *)

NoFlags(w) == ~w.obsolete /\ ~w.write /\ ~w.pin

(* What a guard remembers is what the word says, but for the pages that    *)
(* mark_obsolete has overwritten under their writer.                       *)
PinMatchesWord(t) ==
  kind[t] \in Pins => latch[t] = word /\ word.pin /\ Readable(word)

WriterMatchesWord(t) ==
  kind[t] = "OLCWriter" =>
    \/ latch[t] = word /\ word.write /\ ~word.obsolete /\ ~word.pin
    \/ /\ word = ObsoleteWord
       /\ IF flavour = LHL THEN latch[t] = ZeroWord
            ELSE latch[t].write /\ ~latch[t].obsolete /\ ~latch[t].pin

(* Nobody leaves a flag behind when it goes. *)
FlagsAreHeld ==
  /\ word.pin \/ word.write => \E t \in Threads : Mutates(t)
  /\ word.obsolete /\ flavour = OLC => \E t \in Threads : kind[t] = "OLCWriter"

(* Readers, and the calls that are about to swap, have seen no flag. *)
SawNoFlags(t) ==
  /\ kind[t] = "OLCReader" => NoFlags(latch[t])
  /\ pc[t] # "idle" => NoFlags(loaded[t])
  /\ pc[t] = "append" => kind[t] = "OLCReader"
  /\ pc[t] \in {"pin", "mut"} => kind[t] = "None"

(* A view of the page begins when its word is loaded. *)
Viewing(t) == kind[t] = "OLCReader" \/ pc[t] = "pin"
View(t)    == IF pc[t] = "pin" THEN loaded[t] ELSE latch[t]

(* Only the thread itself could have moved keys since it became exclusive. *)
HolderIsCurrent(t) == Mutates(t) => t \notin stale

(* The counter never falls behind a view, and overtakes it as soon as the  *)
(* writer that moved keys since is gone.                                   *)
ViewIsBehind(t) ==
  Viewing(t) =>
    /\ ~word.obsolete /\ (\A u \in Threads : kind[u] # "OLCWriter") =>
         /\ View(t).count <= word.count
         /\ View(t).count = word.count => t \notin stale
    /\ \A u \in Threads :
         kind[u] = "OLCWriter" /\ ~(flavour = LHL /\ word.obsolete) =>
           View(t).count <= latch[u].count

(* The word, the guards and the calls in progress agree: every flag has    *)
(* one holder, and a view taken before a writer can never match the word   *)
(* that this writer leaves.                                                *)
LatchInv ==
  /\ TypeOK
  /\ MutualExclusion
  /\ FlagsAreHeld
  /\ \A t \in Threads : PinMatchesWord(t) /\ WriterMatchesWord(t)
  /\ \A t \in Threads : SawNoFlags(t) /\ HolderIsCurrent(t) /\ ViewIsBehind(t)
=========================================================================
