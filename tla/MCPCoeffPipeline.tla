-------------------------- MODULE MCPCoeffPipeline --------------------------
(* Small instances of PCoeffPipeline for TLC: two sockets with one thread  *)
(* of each kind.                                                           *)
EXTENDS PCoeffPipeline, TLC

CONSTANTS s0, s1, c0, c1, p0, p1, r0, r1, v0, v1,
          i0, i1, i2, i3, o0, o1

MCSockets    == {s0, s1}
MCSocketOf   == (c0 :> s0) @@ (p0 :> s0) @@ (r0 :> s0) @@ (v0 :> s0)
             @@ (c1 :> s1) @@ (p1 :> s1) @@ (r1 :> s1) @@ (v1 :> s1)
\* What a socket needs at least: Batch inputs and one result beyond what its
\* validator keeps.
MCInputBufs  == {i0, i1, i2, i3}
MCResultBufs == {o0, o1}
MCHomeOf     == (i0 :> s0) @@ (i1 :> s0) @@ (o0 :> s0)
             @@ (i2 :> s1) @@ (i3 :> s1) @@ (o1 :> s1)

\* The buffers of a socket are alike, and so are the two sockets with all that
\* belongs to them.
MCBufferSwaps ==
  {a @@ b : a \in Permutations({i0, i1}), b \in Permutations({i2, i3})}
MCOther ==
  (s0 :> s1) @@ (s1 :> s0) @@ (c0 :> c1) @@ (c1 :> c0) @@ (p0 :> p1) @@ (p1 :> p0)
  @@ (r0 :> r1) @@ (r1 :> r0) @@ (v0 :> v1) @@ (v1 :> v0) @@ (o0 :> o1) @@ (o1 :> o0)
  @@ (i0 :> i2) @@ (i2 :> i0) @@ (i1 :> i3) @@ (i3 :> i1)
MCSymmetry ==
  MCBufferSwaps \cup
  {[x \in DOMAIN MCOther |-> IF x \in DOMAIN f THEN MCOther[f[x]] ELSE MCOther[x]] :
     f \in MCBufferSwaps}
=============================================================================
