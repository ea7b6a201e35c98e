---------------------------- MODULE MCSyncQueues ----------------------------
(* A small instance of SyncQueues for TLC: two sockets; two creators share *)
(* the buffers of socket 0, the third has those of socket 1; one processor *)
(* rotates, the other prefers its own socket.                              *)
EXTENDS SyncQueues, TLC

CONSTANTS a, b, c, p, q, b0, b1, d0, d1

MCSocketOf == (a :> 0) @@ (b :> 0) @@ (c :> 1) @@ (p :> 0) @@ (q :> 1)
MCInitialAlloc == [s \in Sockets |-> IF s = 0 THEN <<b0, b1>> ELSE <<d0, d1>>]
=============================================================================
