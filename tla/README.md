# BTree-MVCC-Version-Chains in TLA+

A verification project for the multi-version B+-tree in `src/`: TLA+ modules
that model its components, TLC configurations that check them on small
instances, and proofs that TLAPS checks for every instance. Paths below are
relative to `src/src/`.

## 1. The system

One process, many threads, no persistence and no messages: all interaction is
through shared memory. A thread calls `dispatch` (`mvb_crud_model/dispatch.rs`)
with an operation. It descends the tree, latches a leaf, draws a commit version
from the clock, changes the version chain of one record, publishes the commit,
and lets the latch go. A reader asks the clock for a snapshot and looks for the
version of each record that the snapshot includes.

| component | state | operations | what makes it correct |
|---|---|---|---|
| page latch, `mvb_utils/smart_cell.rs` | one 64-bit word per page: obsolete, write and pin flags over a counter; one guard per access | borrow (read, pin, mut), upgrade, downgrade, mark obsolete, validate, drop | one mutator at a time; a read that validates saw no change; an upgraded read is current; every flag has a holder |
| version clock, `mvb_tree/clock.rs` | global counter; per-thread slots with the last commit; global minimum; dirty flag; per-thread count of reads | start and end a commit, ask for a snapshot, register, leave | snapshots never include unfinished work, always come to include finished work, never go back |
| version chains, `mvb_version_index/` | per record: a list with skip links (frugal, vWeaver), a list or skip map with end stamps (VANILLA, SkipList), an external tree (BTree) | new, push, append, delete, find, clone, iterate; horizontal links and scans (vWeaver) | a read under a snapshot is atomic whatever is written meanwhile; links are sound; searches end |
| tree, `mvb_crud_model/olc_query.rs`, `query.rs`, `mvb_tree/` | root pointer, pages, fences | descend for a point, a range or a write; split, merge, correct underflow | no key is lost or found twice; searches end on the leaf that owns the key |
| pages, `mvb_page_model/`, `mvb_utils/shadow_vec.rs` | sorted arrays of bounded capacity | insert, remove, search, split | sorted, within capacity |
| choice of latch, `mvb_locking/` | the tree's locking strategy | which guard for which level and attempt | the guard held suffices for what is done under it |
| driver and FFI, `n_test.rs`, `main.rs`, `lib.rs` | load generators | - | - |

`mvb_utils/outdated.rs` and `outdated2.rs` are not part of the build.

**What is hard.** There are no tests of concurrency. Latches are words that are
loaded, compared and stored by separate instructions, and optimistic readers
hold nothing at all. The clock folds an array that its owners go on writing.
Chains are read without any latch while they grow. Descents use what they have
read before it is validated. PROJECT.json lists each such place under
"hazards", with the properties that cover it or the reason why none does yet.

## 2. The modules

| module | models | state and actions |
|---|---|---|
| `ExclusiveLatch` | what a page latch promises: free, pinned, writing or retired, with one holder | abstract |
| `OptLatch` | `OptCell` and the `SmartGuard` variants of the OLC and lightweight hybrid flavours, on one page | `word` is `cell_version` with its flags as fields; `kind` and `latch` are each thread's guard. A call that loads and then swaps is two actions (`PinLoad`/`PinSwap`/`PinFail`, `MutLoad`/`MutSwap`/`MutFail`); a plain store is one. `AfterDrop` is `Drop for SmartGuard`. `stale` is history: who has read a page whose keys have moved since |
| `CommitClock` | `clock.rs` | statics and thread states under their own names; every access to a shared word is an action, `pc` says where in `committed_read`, `end_commit` or `ThreadState::drop` a thread stands. `snapshot` and `done` are history |
| `VersionHistory` | what a snapshot sees of a history | operators only |
| `RecordContract` | what the version chain of one record promises | abstract: writes append to a history, a read answers with what was visible when it began |
| `RidgeChain` | the skip-linked list: `frugal.rs` and the vertical list of `v_weaver.rs` | `chain` holds the immutable nodes, oldest first; node `i`'s `next` is node `i - 1`. `AppendNext`, `AppendTower`, `Weave`, `PublishTower` are the two outcomes of the coin; `Ask`, `Walk`, `Answer` are `find`, one hop per step |
| `StampedChain` | `vanilla.rs` and the SkipList index of `version_index.rs` | as above, with an end stamp per node; `Stamp` and `Publish` are the two steps of `push` and `append`; `Clone` is what a merge of pages does to the list of a record that nobody reads |
| `VWeaver` | the horizontal links: `weaver_callback`, `weaver_scan_dispatch` and the order of release, callback and `end_tx_commit` in `dispatch` | `chain[k]` holds the versions of a key with their `k_ridgy` links, `latch` says who pins or writes a leaf. A link inside the leaf is one step (`Weave`), one into the next leaf two (`Look`, `Store`). `late` is history: writes that had drawn an older version and not stored it when a link went past them |
| `TreePages` | pages as values: search, fences, full and thin, cut, join, take a child out, few deleted records | operators only; `ShadowVec` arrays are sequences, the records of a leaf a set |
| `KeyDirectory` | what the tree promises to the callers of `dispatch` | abstract: keys with a record, the deleted ones among them, one answer per call. `Spec` has steps that move records (`Move`), after which calls may miss them and reads that were looking at them may mix them up (`adrift`, `Mix`), `StillSpec` has none, but deleted records may be collected (`Sweep`) or come back (`Revive`) |
| `OLCTree` | `olc_query.rs`, `retrieve_root_internal` and `do_overflow_correction` of `query.rs`, and the leaf operations of `dispatch`: point queries, updates, deletes, inserts, peeks, pops and range queries | `pages` by number, `root` for `Root::block`; `cur` and `nxt` are `current_guard` and `next_guard`; `pc` and `target` say where in a descent a thread stands; `path`, `low` and `got` belong to range queries (`next_leaf_page`). Every access to a latch is an action; `Restart` is the retry loop round `traversal_write_olc_internal`. `owed` is history. Searches and peeks look at their leaf in two steps (`search`, `give`), neither of which validates |
| `CoupledTree` | the same calls under the latches that wait: MonoWriter, LockCoupling and ORWC, with the collecting split (`block.rs`), `do_underflow_correction` and `merge` of `query.rs` | `held[t]` is the path of guards with their fences, `at[t]` the one under which a range looks for children. Waiting is a step that is not enabled; what is done while the latches are held is part of the step that takes the last of them. `owed` and `swept` are history |
| `OptLatchProofs`, `CommitClockProofs`, `RidgeChainProofs`, `StampedChainProofs`, `VWeaverProofs`, `TreePagesProofs`, `OLCTreeProofs`, `CoupledTreeProofs` | theorems about the module that each is named for | - |
| `MC...` | instances for TLC | - |

Operators named `X_Something` stand before the operator `X` they differ from in
one detail; they are faults that a property of the run is shown to catch, and
are not part of any specification.

### Abstractions

* Memory is sequentially consistent. The code uses `Relaxed` in places (the
  load of the latch word, the dirty flag, `write_unlock`); reorderings that
  weaker hardware allows are outside the models.
* Counters are naturals cut at a bound in the guards: `MaxCount` for the latch
  word, `MaxVersion` for versions. The latch counter has 61 bits below its
  flags, versions have 64. The one place where a width matters, the level of a
  tower above the sentinel, keeps its width (`SENTINEL_LEVEL`): the sum wraps,
  as it does in a release build.
* In the trees a version chain is a key, and whether its newest version is a
  deletion, since what happens along the chain is the business of the chain
  models. In `OLCTree` a latch is not its word but what `OptLatch` shows of it:
  one holder, and a read guard that is `fresh` until a writer of its page lets
  go (`ValidReadIsConsistent`). What a thread reads between two validations of
  one page is read in the step of the second, and what it reads without any
  validation may come out either way (`SeesOverflow`, `Upon`). The last looks of
  a read at its leaf are such reads, each a step: the search and then the slot it
  found, or the question whether the record at the end is live and then its key
  and payload. Once a writer has locked or cut the leaf, every look may come upon
  another record: any of the tree, of which those of the leaf are some. A
  compare-and-swap does not fail spuriously. The words that the guards on a
  range's path remember (`update_read_latch`, `smart_cell.rs:739`) are kept up to
  date and compared with nothing, and have no counterpart.
* `OLCTree` has no collection, and therefore no underflow correction: a page
  becomes thin only by collection (`mvb_block/block.rs`), and halves of a cut
  page are not thin. The lightweight flavour is the one whose level limits are
  "unlimited": no latch is taken but the optimistic ones.
* `CoupledTree` ends a behaviour where the code leaves defined ground:
  `do_underflow_correction` reads behind the last separator, deals out two index
  pages into something that is no tree, or meets the panic of `merge`
  (`Undefined`, `Panic`). The first is modelled as a debug build has it, which
  aborts; a panic is taken to end the process.
* A merge clones version lists, and the clone of a VANILLA list may bring a
  deleted record back to life. `StampedChain` has the list, `CoupledTree` only
  the outcome (`Cloned`: any of the deleted records concerned may live again,
  which covers the indexes whose clone is exact).
* In `VWeaver` the search along a chain, `find_from`, is what `RidgeChain` shows
  it to be, and one step. Latches are the optimistic ones, and leaves are not
  split while links are woven. Snapshots are those behind which nobody writes.
* A page is a single `stale` set to the latch model; a payload is a model
  value; keys play no part in a record's chain.
* In the clock the slot vector has room for all threads, so the growth of the
  vector under concurrent readers is not modelled.
* Version chains take the version and the snapshot as inputs. `RidgeChain`
  makes no assumption about their order. `StampedChain` assumes that a snapshot
  lies below the version in progress. The clock does not always keep to this:
  it may hand out the version in progress of a thread that publishes its
  commits (`ProtectedWriterNotPassed` has `<=`, and `<` fails), and go further
  past a thread that does not (finding `clock_unfinished`). What a reader then
  sees is the subject of the composition planned as `SnapshotIsolation`.
* crossbeam's skip map is external: its ordered look-up is one step.

## 3. The runs

| run | instance | shows |
|---|---|---|
| `latch` | 3 threads, both flavours, 2 write cycles | invariants, refinement of `ExclusiveLatch`, and that a page of the plain flavour always becomes readable again |
| `clock` | 2 threads, one read in a row tolerated, 4 versions; 132,070 states | snapshots within the clock, not past a protected writer, never back; a thread left alone catches up |
| `clock_unfinished` | 2 threads, 3 versions | **violated**: unfinished work inside a snapshot |
| `clock_lost` | 2 threads, no read in a row tolerated, 4 versions | **violated**: finished work that no snapshot ever includes |
| `ridge_chain` | 1 reader, 2 values, 5 versions, sentinel level 7 | type, soundness of links, atomic reads, termination |
| `stamped_chain` | both kinds, 1 reader, 2 values, 5 versions, clones; 131,054 states | disjoint life spans, atomic reads |
| `stamped_chain_update` | 3 versions | **violated**: an update reported as done and not there |
| `weaver` | 2 writers and a scan, leaves of two and four keys, 7 scripts; 61,371 states | links pass nothing that is older than they stand for, are written once, scans see their snapshot, calls end |
| `tree` | 3 threads with one call each, fan-out 5, 2 records to a leaf, 21 keys, 7 trees, both flavours; 182,444 states | records stay where descents look, nothing is overfilled, ranges ascend, refinement of `KeyDirectory!Spec`, every call ends |
| `tree_leaf_root` | the same with a single full leaf and two writers | **violated**: an insert reported as done and not there |
| `coupled` | 3 threads with one call each, fan-out 7, 8 records to a leaf, 61 keys, 3 strategies, 11 trees with and without collection; 29,527 states | records stay where descents look, nothing is overfilled unless the tree collects, fences of ranges are true, refinement of `KeyDirectory!StillSpec`, no deadlock, every call ends |
| `coupled_thin` | two leaves under a root, LockCoupling, collection on | **violated**: a read behind the last separator |

**Why the bounds suffice.** Two threads make every pairwise race on a latch,
the third distinguishes a reader from two mutators that take turns; two write
cycles let a word return to an earlier look if it could. Two threads that both
read and commit give overlapping folds, in which a writer publishes between the
slots; the tolerance of one lets a slot be withdrawn and come back. Five versions build towers of level three over flat nodes, so that ridges skip
and stop in between; readers do not affect one another or the writer, so one
suffices. Three versions are enough for delete, refused update and read; with
five, a clone is followed by more writes and reads.
The trees of `MCOLCTree` are each one call away from a change of shape: a leaf
to split next to one with room, an index root to split in place, a full index
page below a root with room, and a leaf root with a single writer. Fan-out 5 is
the least for which an index page, split at `FAN_OUT - 2` keys, leaves both
halves a key. Two writes and a third call of another kind meet on the same
leaf, on its neighbour and on a page split away from under them. Eight records
and fan-out 7 are the least for which a page can be thin and not empty, a
collecting split finds few deleted records in a leaf (under four of eight), and
two thin pages fit in one. The trees of `MCCoupledTree` are again
one call away from each case: split with and without collection, merge into the
root, combination, leaves dealt out, at the first, a middle and the last child,
at leaf level and above. The scripts of `MCVWeaver` put a link into the next
leaf while its first record is being written, tombstones before, at and behind
links, records that appear between linked ones, and the insert that waits for
itself.

**Fairness.** `OptLatch` assumes only that a guard that is held is dropped in
the end: guards are local variables of `dispatch` and of the traversals, and
nothing in between waits for another thread. `CommitClock` assumes that a call
that has begun goes on, which holds for straight-line code, and that a thread
that has not left keeps asking for snapshots, as the readers of `n_test.rs` do.
`RidgeChain` assumes that writers and readers inside a call go on.
`OLCTree` assumes that each thread is scheduled. A descent is a loop of failed
attempts, and fairness alone does not make a loop end: a thread may be
overtaken as long as others go on calling. With one call per thread the others
run out, so that `CallsEnd` says that attempts cannot fail for ever by meeting
one another (the system makes progress), and not that no caller starves. It is
stated for the plain flavour. In the lightweight flavour it fails:
`do_overflow_correction` marks the page it splits as obsolete and goes on using
it as the left half, and in that flavour the mark is never taken back.
`CoupledTree` assumes the same of a thread whose latch is free, but not of a
reader that waits for a latch which a writer waits for too (`Served`):
parking_lot lets writers go first. `CallsEnd` is stated for at most one range
under ORWC. Each of two ranges may hold the shared latch of the leaf that the
other tries to upgrade, both give the leaf up and look for it again, and nothing
makes them get out of step. `VWeaver` assumes that threads are scheduled;
`CallsEnd` excepts the one call that waits for its own latch (`Hangs`).

### Findings

1. *Unfinished commits are visible* (`clock.rs:167`). A writer is known to
   readers only by the slot of its previous commit. In its first commit, or in
   its first after `MAX_READS_IN_ROW_EPSILON` reads, the slot says "inactive"
   and the fold may return the clock itself, above the version at work.
2. *A completed commit may stay invisible* (`clock.rs:176`). The dirty flag is
   cleared after the fold. A commit that stores its slot after it was folded
   and its mark before the clearing is not seen until another slot is stored.
   `LastReaderCatchesUp` shows the limit of the damage: an active reader that
   is left alone soon withdraws its own slot, which sets the flag again.
3. *An update of a deleted record in a skip map is lost*
   (`version_index.rs:249`), while `dispatch` reports `Updated`.
4. *The insert that splits a leaf root may be lost* (`query.rs:340`).
   `retrieve_root_internal` returns the guard of the page it split, which is the
   left half by then, and the descent inserts there without looking at the key.
   One thread and one insert are enough. Two writers can do worse: the root
   pointer is loaded before the root is latched, and the page that a thread with
   an old pointer then splits is copied over the page the pointer names by now.
   `tree` therefore has several writers only where the root is an index page,
   which no split ever moves.

5. *A thin last child is corrected with a key that is not there*
   (`query.rs:416`). `do_underflow_correction` reads `keys[child_pos]` whatever
   the position is, and for the last child of its parent that is one past the
   end. `main.rs:25-26` records the crash of a debug build, and a comment at
   `query.rs:415` asks for a check. With collection on, one thread and two
   leaves are enough.

What the contracts allow says something, too. A call may answer "missing" for
a key that was there throughout, once a split has come in between: a reader
latches the child without validating the parent again, and an update or delete
pins its leaf whatever version it has by now. The contract has a name for this
(`owed`), and the run shows that there is no other way to miss a key. Under
latches that wait there is no such exception: `StillSpec` has no `Move`, and an
answer is right for some moment of the call. What it has instead is `Revive`: a
merge may undo deletions.

*Reads may mix up records.* After its last `is_valid` a read looks at its leaf
again without validating what it sees: a point query searches the records and
then reads the slot it found (`dispatch.rs:169-179`), a peek asks a slot whether
it is live, then for its key, then for its payload (`dispatch.rs:283-292`,
`325-335`). An insert that shifts the slots in between (`shadow_vec.rs:86-100`)
lets a point query answer with another record's payload, and a peek with a
deleted key. The contract does not hide this, but bounds it: a read whose leaf
was locked or cut after its last validation is *adrift* and may answer so
(`Mix`, reply "other"); its key has a record all the same, and no other call
answers wrongly. The `tree` run fails when nobody may go adrift. No document
claims otherwise, so there is no finding of it. A read that is not adrift may
still answer with a key that was deleted after it was found alive (`Look`,
`seen`), for a deletion only pins the leaf: its answer is right for that moment.

A peek or a pop looks at the first or the last record
only, and answers "nothing" or "error" when that one is deleted (`Nothing`).

`ScansSeeTheirSnapshot` names what a woven scan may pass over: a key that was
deleted after the snapshot, since a link that leads to the tombstone goes on
from it without a search for the snapshot's version; the last key of the range,
since the scan stops when its lower bound reaches the upper one
(`v_weaver.rs:398`); and what lies behind a link that was set past a version in
progress, in a leaf that is only pinned (`late`, `Clouded`). Such a link leads
the walk to a version that is older than the one its snapshot sees, whose own
link is older than the snapshot in turn: what is in doubt is not the key
that was passed alone, but everything from there on, up to the next search
through a leaf. It takes three leaves and three writers to see the difference,
so that the proof found it, and not the run. `Hangs` is the insert of a record
that exists, as the last of a leaf with room behind it: `weaver_callback` looks
for the next leaf, comes back to its own, which the thread has latched for
writing, and waits (`v_weaver.rs:460`).

## 4. The proofs

`OptLatchProofs` proves, for any finite or infinite set of threads and any
bound, all safety properties of the `latch` run: `TypeOK`, `MutualExclusion`,
`ValidReadIsConsistent`, `UpgradeKeepsWhatWasRead` and the refinement of
`ExclusiveLatch`. Assumed are only `NoThread \notin Threads` and that the bound
is a natural number.

None of these is inductive by itself. `LatchInv` adds what the code relies on
without saying it:

* `PinMatchesWord`, `WriterMatchesWord`: a guard's remembered word *is* the
  page's word, unless its own `mark_obsolete` has overwritten it. This is what
  makes the plain stores of unlock, unpin and pin upgrade safe.
* `FlagsAreHeld`: a set flag has a holder.
* `SawNoFlags`: whoever is about to swap has loaded a word without flags, so
  the swap can only succeed when nobody holds the page.
* `HolderIsCurrent`, `ViewIsBehind`: a view's counter is never ahead of the
  word, and falls behind as soon as a writer that moved keys lets go. This
  excludes ABA. It is stated separately for the time in which an obsolete word
  hides the counter.

`Invariance` has one step per action; `ValidRead` and `UpgradeIsSafe` follow
from `ViewIsBehind` through the lemma `ValidView`; `Refinement` maps each step
to a step of `ExclusiveLatch` or to a stutter, with the lemmas `HolderOf` and
`ModeOf` about the refinement mapping.

`CommitClockProofs` proves, for any number of threads, any tolerance of reads in
a row and any bound on versions, the safety properties of the `clock` run. They
follow from `ClockInv`:

* `Registered`, `AtFirstSlot`: slots are taken in order, and a fold begins with
  the first one, so that a slot in use is within the limit a fold takes.
* `BehindClock`: slots, versions at work and folds are below the clock.
* `WithinMin`: what a reader was given is within the minimum, and what it is
  about to be given lies between its last snapshot and the minimum. This makes
  snapshots monotone although folds overlap.
* `FoldsAreHeldBack`: for a writer whose slot holds an earlier commit, every
  fold either is at or below the writer's version already, or still has the
  slot ahead of it (`WillFold`). A commit that starts in the middle of a fold
  draws its version from a clock that the fold has read before.

Assumed are `ClockAssumption` only: the constants are natural numbers.

`RidgeChainProofs` proves, for any readers and values and any sentinel level
that exceeds the length of the chain (`LevelAssumption`; in the code the level
is `usize::MAX`), the safety properties of the `ridge_chain` run and the
refinement of `RecordContract`. `RidgeInv` says what makes the skip links work:

* `Ascending`, `WriterIsAhead`: versions grow along the chain, and the version
  at work is above all of them, because it is drawn under the leaf's latch.
* `TowersAreLow`: node `i` is at most `i - 2` levels high, so that no tower
  reaches the sentinel's level and is taken for the end of the chain.
* `RidgesAreNearest`, `WeavePassesLower`: what weaving has passed is lower than
  the tower it places. It stops at the sentinel at the latest (`WeavingEnds`).
* `Decisive`: every snapshot that includes the first version has a newest node
  that it includes, in every prefix of the chain. The chain builds this up node
  by node, which takes the place of an induction over the sequence.

The refinement maps the chain to the history of the record, and each walk to
what its snapshot sees of the prefix below its position. A hop only passes
nodes above the snapshot (`WalkGoesDown`), so what the walk will find stays the
same (`WalkIsSilent`); publishing a node leaves every prefix alone
(`PublishIsWrite`).

`StampedChainProofs` proves, for both kinds of chain, any readers and values and
any bound on versions (`HistoryAssumption`), `TypeOK`, `LifeSpansAreDisjoint` and
the refinement of `RecordContract`. `StampInv` has:

* `Spans`, `Decisive`: every node ends after it began and no later than the next
  one begins, and a snapshot that includes the first node has a last one that
  began in time. Two nodes cannot both be alive for a snapshot.
* `WriterIsAhead`, `ReadersAreBehind`: the version in progress is above all
  stamps and starts but its own stamp, and above every reader. A stamp without
  the node that follows it is seen by nobody.
* `WalksMissNothing`: behind the position of a search there is no node that is
  alive for it.

The refinement leaves the stamp in progress out of the history. The step that
publishes a node, or the stamp of a deletion, is the contract's write; `Clone`
is its `Revive`; all others are stutters.

`VWeaverProofs` proves, for any threads, leaves, loaded keys and calls
(`FencesAssumption`, `LoadedAssumption`, `ThreadsAssumption`,
`ScriptsAssumption`), the safety properties of the `weaver` run. `WeaverInv` has:

* `LatchHeld`, `WriterIsAhead`: a writer holds the latch of its leaf, the version
  it draws there is newer than all of its chain, and the one it supersedes has
  no link yet. This is why a link is set once, although it is set by a plain
  store one step after the look at the neighbour.
* `LinksPass`: from a version with a link to the node it leads to, nothing older
  than the *successor* of the version is passed over, and nothing older is still
  to be stored, unless it is in `late`. The same holds of a link that is about to
  be stored. Versions that are drawn afterwards are newer (`PassesStays`).
* `SnapshotsAreStable`: nobody writes behind a snapshot that is being scanned, so
  that what it shows of a chain does not change (`ShowsStays`).
* `ScansAreTrue`: the keys below the position of a walk are covered (given, not
  seen, excused or in doubt), and behind the version it stands on are only ones
  that are younger than the snapshot (`Faithful`). By `LinksPass` the next link
  passes over nothing that the snapshot includes (`Onward`), since the successor
  of where the walk stands is younger than the snapshot.

`TreePagesProofs` is about pages and trees as values, for any fan-out of at least
five, any capacity of at least two and any number of keys. `IsTree` gives every
page a height and a fence; that they fit one another is what a search tree is.
`ChildPosIs`, `ChildFenceIs` and `ChildOwns` show that the search for a child, which
the model defines by counting, finds the one whose fence has the key. `LeafIsCut`
and `IndexIsCut` show what the halves of a page hold, `ChildAdded` that the parent
takes the new child in at the right place; from them follow `ChildIsSplit` and
`RootIsSplit`: a split leaves a search tree. `DescentEnds` is about `LeafOf`: in a
tree of any height a descent ends on the leaf that owns the key. It has no
induction over the height; it takes the lowest page from which a descent would go
wrong (`Least`), and finds a lower one.

`OLCTreeProofs` proves the safety properties of the `tree` run, for any threads,
any calls and any start whose root is an index page (`IndexRoot`). A leaf root is
left out for a reason: it splits wrongly (finding 4), and what holds on one
depends on who calls. Six of the seven trees of the run have index roots. Assumed
of the starts is `StartsAssumption`: they are search trees with room, and nobody
inserts the greatest key, which the code keeps as a bound. None of the properties
is inductive. `TreeInv` says that there are fences and heights for which the pages
are a tree with room (`Grows`), that a page is locked for one thread (`Exclusive`),
and of each thread:

* `Placed`: which guards it has at each point of its call, and of what mode. A
  thread that reads has locked nothing, and only index pages are locked for a split.
* `Aimed`: as long as the guard of an insert is *valid*, the key lies within the
  fence of its page, and the child it has read is the one that owns the key. Only
  the holder of a latch can move a fence, and it makes all guards on the page stale.
* `Counted`: as long as its guard is valid, an insert has seen that its page is not
  full, and that the child it wants to split is. A page that it has locked and
  split *below* may be full by now; then the half it will visit has room, and
  nobody else can fill it (`Quiet`), as no other insert has a valid guard on it or
  on its parent.
* `Ranged`: the keys of a range are in order and below where it goes on, and no
  page has outgrown the fence that its path has for it. The converse fails: pages
  lose the right half of their fence to a split, so that a range may meet a leaf
  that ends earlier than it believes.

A step of one thread is judged in two halves. `OthersRight` shows once and for all
what the others may still believe, from three conditions on the step (`Kept`): it
leaves their variables alone, it changes only pages that it hides from them
(`PagesKept`), and it does not walk onto a page that another thread has just
split without reading it (`Approaches`). What the thread itself believes is the
business of a lemma for each action (`LoadRootKeeps` ... `CollectKeeps`). Before it was proved,
the invariant was checked on the instance of the run with `FencesOf` and
`HeightsOf` for the fences and heights.

`CoupledTreeProofs` proves the safety properties of the `coupled` run, its refinement
of the directory included, for any threads, any calls that `dispatch` makes, all three strategies and any start whose root is an index page,
as long as the tree does not collect (`IndexRoot /\ ~gc`). It also proves that
`NobodyPanics` there: the violation that `coupled_thin` shows needs a thin page, and
only collection makes one. Both conditions are there for a reason. A leaf root splits
wrongly (finding 4). A tree that collects panics (finding 5), and it may fill a page
beyond its arrays: `merge` may leave `FAN_OUT - 1` keys in a root it merges into,
which `is_overflow` calls full, and the descent goes on from there without asking
(`query.rs:63`); the next split beneath adds one more key than `key_array` has room
for. Writing the invariant down brought this to light, on no tree of the run. TLC
finds it from a root of one key over a thin page and one of four keys at fan-out 7,
with three writers one after the other. `PagesFit` is therefore claimed only where
`~gc`. `CoupledInv` says, for some fences and heights:

* `Grows`: the pages are a tree with room, the root is an index page, and no other
  page is thin.
* `Exclusive`: guards of two threads on one page are compatible. In a tree without
  latches, of two calls one has not begun or is over (`Solo`).
* `Placed`: which guards a thread has at each point of its call, and of what mode. A
  descent holds one page; the modes differ from the strategy's only for the last
  guard of a range that is being upgraded.
* `Aimed`: the key lies within the fence of the page the thread is on. Unlike under
  optimistic latches there is no condition: a fence moves only when its page is cut,
  which takes a latch that nobody else has a guard under (`NobodyElse`, `NobodyBelow`).
* `Counted`: a writer on its way down is on a page that is not full, or has just cut
  the child that it visits next, which is not full and which no other writer is on
  (`Quiet`). The page above may be full by then. This is why a writer may let the
  parent go before it looks at its child again.
* `Ranged`: the guards that a range may still use go from the root down from page to
  child, each with the fence of its page. Guards behind `at` are left over and
  mean nothing.

As for the optimistic tree, `OthersRight` and `OthersGrow` show what the others may
still believe after a step of one thread, the first for steps that leave the pages
alone and the second for those that cut or fill them (`Changes`); one lemma for each
action shows the rest. `LeafOfKey` and `ReachExists` relate the recursive functions
`LeafOf` and `InTree` to fences and heights.

`Implements` is the refinement: what callers see of such a tree is
`KeyDirectory!StillSpec`. `StoredIsRecords` says that the records of all pages are
those that can be found from the root; a split shows nothing and an insert shows one
key. What is left is what the calls know (`Answerable`, inductive under `CoupledInv`):

* `Owes`: what a call may not miss is still stored and among what it asks for, and
  nobody but a range has an answer before the end.
* `Gathered`: a range has, ascending, stored keys of its interval, and every key that
  it owes below `low`; while it has a leaf at hand, `low` is in the leaf's fence. A
  leaf adds what is owed up to the end of its fence (`LeafCollected`), and `low`
  goes behind it, so that keys which writers move to pages on the right are met
  there.

A pop or a peek takes the end of the leaf at the end of the tree for the end of all
(`EndOfTree`), which needs a record in that leaf. The theorem asks for
`NumRecords >= 4` for that: with two or three records to a leaf an empty leaf is not
thin for `is_underflow`. The code has `NUM_RECORDS = 170` (`n_test.rs:662`). `Usual` in
`StartsAssumption` says what `dispatch` makes of a call: ends are looked for with
`min_key` and `max_key`, which the proof needs for `EndOfTree`, and a call that is not
a range is about one key.

Only model-checked: whatever `CoupledTree` does with collection (`RecordsAreHome`,
`FencesAreTrue`, `ImplementsDirectory`, and merges, which the theorems do not reach),
the refinement of `KeyDirectory` by `OLCTree` (what reads adrift may answer included), and liveness throughout (`PageReadableAgain`,
`LastReaderCatchesUp`, `ReadsEnd`, `CallsEnd`), which is out of the prover's
reach.

## 5. Plan

*Done*: latch, clock, chains of one record and the woven leaves, with the
theorems about all of them; all calls on the optimistic tree, range queries, peeks
and pops included, with the theorems about its safety; the trees under latches that wait, with collection and
underflow correction, and the theorems about those that do not collect, their refinement of the directory included; pages as values; clones of stamped lists; the links and
scans of vWeaver.

Left, in this order:

1. The refinement of `KeyDirectory!Spec` by `OLCTree`, where records that move are no
   longer owed and reads go adrift: the argument of `CoupledTreeProofs` with `Move`
   for splits and locks.
2. `CoupledTree` with collection: what merged and dealt pages hold, for a tree in
   which the corrections stay defined.
3. `SnapshotIsolation`: `CommitClock` with `StampedChain`, in the order of
   `dispatch`, vWeaver's early release of the leaf included; does a reader that
   uses `current_version_for_reader` see the same state twice.
4. Hybrid latches, and the guards that depend on level and attempt; underflow
   correction raced by optimistic readers; leaves that split while links are
   woven; two trees over one set of clock slots.

## 6. What is not modelled

* *The hybrid strategies.* `HybridLocking` and the level limits of
  `LightweightHybridLock` mix latches that wait with optimistic ones on one
  path. `HybridCell`'s upgrade, which does not compare versions
  (`smart_cell.rs:638`), is listed as a hazard.
* *`Root::height`.* Every merge into the root lowers it and no split raises it.
  Latches are chosen by it, and writers take exclusive ones as long as it is at
  most one, which is what the models have.
* *The BTree version index.* `new` drops the first payload and the first push or
  append meets an `unreachable!()`: no history can be built with it.
* *The iterators over versions*, which serve only `Clone` and `len`, and the
  clones of frugal and vWeaver lists. `StampedChain` clones a list only while
  nobody reads it.
* *Pops under vWeaver*, which delete without `weaver_callback` and so leave a
  tombstone without a link; `VWeaver` has inserts, updates, deletes and scans.
* *`DEBUG_VERIFY`*, which reads writes back (its messages are quoted by two
  findings), *the eager range scan* behind `LAZY_RANGE_SCAN_ENABLED`, which is
  on, and the logging of the driver.
* *Relaxed memory, allocation and reclamation* (versions are never freed while
  their record lives), the growth of the slot vector under its readers, and
  hardware lock elision (`olc-hle`, the same step as the plain swap).
* *The benchmark driver and the FFI*, which only generate load, and
  `outdated.rs` and `outdated2.rs`, which no module declares.
