----------------------------- MODULE MCFPGAHost -----------------------------
(* A small instance of FPGAHost for TLC: one socket, two processors (CPU   *)
(* threads, or the slots of the FPGA host), and no more buffers than the   *)
(* FPGA host needs with fewer callback threads than slots.                 *)
EXTENDS FPGAHost, TLC

CONSTANTS s0, c0, p0, p1, r0, v0

MCSocketOf == [t \in Threads |-> s0]
MCHomeOf   == [b \in InputBufs \cup ResultBufs |-> s0]
MCSlotAt   == (0 :> p0) @@ (1 :> p1)
=============================================================================
