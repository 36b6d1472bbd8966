------------------------- MODULE VersionHistory -------------------------
(***************************************************************************)
(* Histories of one record: functions from the versions at which it was    *)
(* written to what it was set to.  The modules of version chains read      *)
(* their state as such a history.                                          *)
(***************************************************************************)
EXTENDS Naturals

CONSTANTS
  Readers,    \* reading threads
  Values,     \* payloads
  NoValue,    \* a deleted or not yet inserted record
  MaxVersion  \* bound on versions

ASSUME HistoryAssumption ==
  /\ MaxVersion \in Nat \ {0}
  /\ NoValue \notin Values

Versions == 1..MaxVersion

(* The latest version of h that a snapshot s includes decides. *)
Seen(h, s) == {v \in DOMAIN h : v <= s}

Visible(h, s) ==
  IF Seen(h, s) = {} THEN NoValue
  ELSE h[CHOOSE v \in Seen(h, s) : \A u \in Seen(h, s) : u <= v]
=========================================================================
