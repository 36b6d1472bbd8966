-------------------------- MODULE MCRidgeChain --------------------------
(***************************************************************************)
(* RidgeChain for TLC: chains of up to MaxVersion nodes, two readers.      *)
(***************************************************************************)
EXTENDS RidgeChain

CONSTANTS r1, r2, x, y

TwoReaders == {r1, r2}
TwoValues  == {x, y}
OneReader  == {r1}
OneValue   == {x}
=========================================================================
