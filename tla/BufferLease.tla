---------------------------- MODULE BufferLease ----------------------------
(***************************************************************************)
(* What a validator promises the rest of the pipeline about the buffer     *)
(* pairs it is given: a buffer pair taken from the validationQueue is      *)
(* returned to its allocators once, and nobody inside the validator holds  *)
(* a reference to it at that moment or afterwards.                         *)
(***************************************************************************)
CONSTANTS Threads, Bufs, NoBuf

VARIABLES
  lease,     \* [Bufs -> {"out", "held", "returned"}]
  reading    \* the buffer each thread holds references to, or NoBuf

leaseVars == <<lease, reading>>

LeaseInit ==
  /\ lease = [b \in Bufs |-> "out"]
  /\ reading = [t \in Threads |-> NoBuf]

Acquire(b) ==
  /\ lease[b] = "out"
  /\ lease' = [lease EXCEPT ![b] = "held"]
  /\ UNCHANGED reading

StartReading(t, b) ==
  /\ reading[t] = NoBuf
  /\ lease[b] = "held"
  /\ reading' = [reading EXCEPT ![t] = b]
  /\ UNCHANGED lease

StopReading(t) ==
  /\ reading' = [reading EXCEPT ![t] = NoBuf]
  /\ UNCHANGED lease

\* Only a held buffer, so each buffer at most once, and only without readers.
Return(b) ==
  /\ lease[b] = "held"
  /\ \A t \in Threads : reading[t] # b
  /\ lease' = [lease EXCEPT ![b] = "returned"]
  /\ UNCHANGED reading

\* A buffer that is used and given back before any thread can see it.
Bounce(b) ==
  /\ lease[b] = "out"
  /\ lease' = [lease EXCEPT ![b] = "returned"]
  /\ UNCHANGED reading

LeaseNext ==
  \/ \E b \in Bufs : Acquire(b) \/ Return(b) \/ Bounce(b)
  \/ \E t \in Threads : StopReading(t) \/ \E b \in Bufs : StartReading(t, b)

LeaseSpec == LeaseInit /\ [][LeaseNext]_leaseVars
============================================================================
