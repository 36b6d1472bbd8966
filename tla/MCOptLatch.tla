--------------------------- MODULE MCOptLatch ---------------------------
(***************************************************************************)
(* OptLatch for TLC: three threads on one page, the counter cut short.     *)
(***************************************************************************)
EXTENDS OptLatch

CONSTANTS t1, t2, t3

ThreeThreads == {t1, t2, t3}
=========================================================================
