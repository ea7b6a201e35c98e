------------------------------ MODULE ForkJoin ------------------------------
(* What PThreadPool::doInParallel promises its caller: "this work function *)
(* may only return once all work has been completed" (threadPool.cpp:64).  *)
EXTENDS Integers

CONSTANTS NumRounds, BlocksOf

VARIABLES
  call,    \* the call being executed, or the last one: 1 .. NumRounds, 0 before
  inside,  \* the caller is inside the call
  done     \* the blocks of the call that have been processed

Init == call = 0 /\ inside = FALSE /\ done = {}

Enter ==
  /\ ~inside /\ call < NumRounds
  /\ call' = call + 1 /\ inside' = TRUE /\ done' = {}

Process ==
  /\ inside
  /\ \E b \in BlocksOf[call] \ done : done' = done \cup {b}
  /\ UNCHANGED <<call, inside>>

Return ==
  /\ inside /\ done = BlocksOf[call]
  /\ inside' = FALSE /\ UNCHANGED <<call, done>>

Next == Enter \/ Process \/ Return
Spec == Init /\ [][Next]_<<call, inside, done>>
=============================================================================
