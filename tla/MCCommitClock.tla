-------------------------- MODULE MCCommitClock --------------------------
(***************************************************************************)
(* CommitClock for TLC.  Thread ids are handed out in order and slots are  *)
(* folded in that order, so that threads are not interchangeable.  Two     *)
(* threads that both read and commit give two folds at a time.             *)
(***************************************************************************)
EXTENDS CommitClock
==========================================================================
