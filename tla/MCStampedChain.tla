------------------------- MODULE MCStampedChain -------------------------
(***************************************************************************)
(* StampedChain for TLC.                                                   *)
(***************************************************************************)
EXTENDS StampedChain

CONSTANTS r1, r2, x, y

TwoReaders == {r1, r2}
OneReader  == {r1}
TwoValues  == {x, y}
=========================================================================
