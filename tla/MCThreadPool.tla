---------------------------- MODULE MCThreadPool ----------------------------
(* A small pool: two workers, a call with two blocks and one with one.     *)
EXTENDS ThreadPool, TLC

MCNumBlocks == <<2, 1>>
=============================================================================
