-------------------------- MODULE MCComputeProject --------------------------
(* Small instances of ComputeProject for TLC: two nodes, and two jobs that *)
(* share a validation file per node.                                       *)
EXTENDS ComputeProject, TLC

CONSTANTS j0, j1, n0, n1, p0, p1, p2

MCJobs     == {j0, j1}
MCSets     == {0}
MCSetOf    == [j \in Jobs |-> 0]
MCNodes    == {n0, n1}
MCProcs    == {p0, p1}
\* Two processes of one node.
MCTwoProcs == {p0, p2, p1}
MCNodeOf   == [p \in Procs |-> IF p = p1 THEN n1 ELSE n0]
\* Equal weights: checksums that tell as little as they can.
MCWeight   == [j \in Jobs |-> 1]

\* Nodes may be exchanged together with their processes, and j0 with j1.
SwapNodes == (n0 :> n1) @@ (n1 :> n0) @@ (p0 :> p1) @@ (p1 :> p0)
KeepNodes == [x \in DOMAIN SwapNodes |-> x]
ProjectSymmetry == {a @@ b : a \in {KeepNodes, SwapNodes}, b \in Permutations({j0, j1})}
\* Two processes of one node are alike.
TwoSymmetry == {a @@ b : a \in Permutations({p0, p2}), b \in Permutations({j0, j1})}
=============================================================================
