----------------------------- MODULE ThreeJoins ----------------------------
(***************************************************************************)
(* tjomn.h: the Dedekind number of n + 3 variables from the solutions of   *)
(* x0 | x1 = tau0, x0 | x2 = tau1, x1 | x2 = tau2, x0 & x1 & x2 = delta in *)
(* monotonic functions of n variables (three joins and one meet). The taus *)
(* are generated from their join, up to the order of the three.            *)
(***************************************************************************)
EXTENDS Intervals

AC(f, n)  == AntiChainOf(f, n)
MBF(a, n) == MonotonizeDown(a, n)

\* Each connected part of what the equations leave open goes to one of the
\* unknowns whose two taus share nothing of it.
ThreeJoinMeetNumberVeryFast(t, delta, n) ==
  LET ac == [i \in 0..2 |-> AC(t[i], n)]
      r01 == ac[0] \cap ac[1]  r02 == ac[0] \cap ac[2]  r12 == ac[1] \cap ac[2]
      diffTerms == AC(MBF(ac[0] \ (r01 \cup r02), n) \cup MBF(ac[1] \ (r01 \cup r12), n)
                        \cup MBF(ac[2] \ (r02 \cup r12), n), n)
      rhoJoin   == AC(MBF(r01, n) \cup MBF(r02, n) \cup MBF(r12, n), n)
      epsilon   == AC(MBF(r01 \cap r02 \cap r12, n) \cup MBF(diffTerms \ rhoJoin, n), n)
      parts     == ConnectFast(SplitAC(epsilon \ AC(delta, n), n), delta)
      Free(es)  == Cardinality({i \in 1..3 :
                     es \cap MBF(<<r01, r02, r12>>[i] \ epsilon, n) \subseteq delta})
  IN IF ~(delta \subseteq t[0] \cap t[1] \cap t[2]) THEN 0
     ELSE FoldLeft(LAMBDA res, es : res * Free(es), 1, parts)

\* Four parts p0..p3 of v, the first three up to their order: p0 holds the
\* first element that is not in p3, and p1 the first that is in neither.
FourParts(l0, p3, times) ==
  IF l0 = {} THEN {[p |-> <<{}, {}, {}, p3>>, nr |-> times]}
  ELSE UNION {
    LET l1 == l0 \ ({Ctz(l0)} \cup s)
        p0 == {Ctz(l0)} \cup s
    IN IF l1 = {} THEN {[p |-> <<p0, {}, {}, p3>>, nr |-> 3 * times]}
       ELSE {[p |-> <<p0, {Ctz(l1)} \cup q, l1 \ ({Ctz(l1)} \cup q), p3>>, nr |-> 6 * times] :
               q \in SUBSET (l1 \ {Ctz(l1)})}
    : s \in SUBSET (l0 \ {Ctz(l0)})}
FourPartNonEquivalent(v) == UNION {FourParts(v \ p, p, 1) : p \in SUBSET v}

\* Mutant: canonize instead of canonizePreserving.
FourPartCanonized(v, n) ==
  LET Canon(p) == Canonize(p, n)
  IN UNION {FourParts(v \ c, c, Cardinality({p \in SUBSET v : Canon(p) = c})) :
              c \in {Canon(p) : p \in SUBSET v}}

\* One p3 for all that a permutation that keeps v makes equal.
FourPartNonEquivalentWithBuffers(v, n) ==
  LET Canon(p) == CanonizePreserving(p, v, n)
  IN UNION {FourParts(v \ c, c, Cardinality({p \in SUBSET v : Canon(p) = c})) :
              c \in {Canon(p) : p \in SUBSET v}}

\* generateTaus: each tau has its parts and may have what is just below the
\* third, delta lies between what all the parts and all the taus share.
Between(bot, top, n) == ToSet(ForEachMonotonicFunctionBetween(bot, top, n))
GenerateTaus(fourParts, n) ==
  UNION {LET f == [i \in 1..4 |-> MBF(four.p[i], n)]
             Taus(a, b, c) == LET t == f[a] \cup f[b] \cup f[4]
                              IN Between(t, t \cup Pred(f[c], n), n)
         IN {[four |-> four.p, t |-> <<rt0, rt1, rt2>>, nr |-> four.nr,
              minDelta |-> f[1] \cap f[2] \cap f[3], maxDelta |-> rt0 \cap rt1 \cap rt2] :
               rt0 \in Taus(1, 2, 3), rt1 \in Taus(1, 3, 2), rt2 \in Taus(2, 3, 1)}
         : four \in fourParts}

\* The classes with the number of their members.
GenerateNonEquivalentMonotonics(n) ==
  FoldLeft(LAMBDA counts, f :
             LET c == Canonize(f, n)
             IN IF c \in DOMAIN counts THEN [counts EXCEPT ![c] = @ + 1] ELSE (c :> 1) @@ counts,
           <<>>, ForEachMonotonicFunction(n))

\* Every system of equations that has a solution.
Tau(s) == [i \in 0..2 |-> s.t[i + 1]]
Systems(taus, classSize, n) ==
  UNION {{[s |-> s, delta |-> delta, eqClassSize |-> classSize * s.nr,
           solutionCount |-> ThreeJoinMeetNumberVeryFast(Tau(s), delta, n)] :
            delta \in {d \in Between(s.minDelta, s.maxDelta, n) :
                         ThreeJoinMeetNumberVeryFast(Tau(s), d, n) # 0}} : s \in taus}

IntervalPairs(n) == {p \in MBFs(n) \X MBFs(n) : p[1] \subseteq p[2]}

\* The three other quarters of the function lie between its tau and alpha.
Term(sys, size, n) ==
  LET t == Tau(sys.s)
  IN SumOf(Between(t[0] \cup t[1] \cup t[2], Bits(n), n),
           LAMBDA alpha : size[t[0], alpha] * size[t[1], alpha] * size[t[2], alpha])
       * size[{}, sys.delta] * sys.eqClassSize * sys.solutionCount

\* A map from taus and delta: a second system with the same key is dropped.
Revolution(n) ==
  LET classes == GenerateNonEquivalentMonotonics(n)
      systems == UNION {Systems(GenerateTaus(FourPartNonEquivalent(AC(vee, n)), n), classes[vee], n)
                          : vee \in DOMAIN classes}
      Key(sys) == <<sys.s.t, sys.delta>>
      chosen  == {CHOOSE sys \in systems : Key(sys) = k : k \in {Key(sys) : sys \in systems}}
      size    == [p \in IntervalPairs(n) |-> IntervalSizeFast(p[1], p[2], n)]
  IN SumOf(chosen, LAMBDA sys : Term(sys, size, n))

CachedSize(b, t, n) == IF b = {} THEN GetIntervalSizeFromBot(FastIntervalSizes[n], t, FALSE, n)
                       ELSE GetIntervalSize(FastIntervalSizes[n], b, t, FALSE, n)
RevolutionMemoized(fourPart, n) ==
  LET classes == GenerateNonEquivalentMonotonics(n)
      size    == [p \in IntervalPairs(n) |-> CachedSize(p[1], p[2], n)]
  IN SumOf(DOMAIN classes, LAMBDA vee :
       SumOf(Systems(GenerateTaus(fourPart[AC(vee, n)], n), classes[vee], n),
             LAMBDA sys : Term(sys, size, n)))

(***************************************************************************)
(* What it promises.                                                       *)
(***************************************************************************)
Triples(n) == Monotonics[n] \X Monotonics[n] \X Monotonics[n]
Solutions(t, delta, n) ==
  Cardinality({x \in Triples(n) : /\ x[1] \cup x[2] = t[0] /\ x[1] \cup x[3] = t[1]
                                  /\ x[2] \cup x[3] = t[2] /\ x[1] \cap x[2] \cap x[3] = delta})

\* The number of solutions is right for the systems that are generated.
SolutionLaws(vee, n) ==
  \A s \in GenerateTaus(FourPartNonEquivalent(AC(vee, n)), n) :
    \A delta \in Between(s.minDelta, s.maxDelta, n) :
      ThreeJoinMeetNumberVeryFast(Tau(s), delta, n) = Solutions(Tau(s), delta, n)

\* The systems of a join are all triples with that join, each once.
JoinLaws(vee, n) ==
  LET triples == Cardinality({x \in Triples(n) : x[1] \cup x[2] \cup x[3] = vee})
      Covered(fourParts) == SumOf(Systems(GenerateTaus(fourParts, n), 1, n),
                                  LAMBDA sys : sys.eqClassSize * sys.solutionCount)
  IN /\ Covered(FourPartNonEquivalent(AC(vee, n))) = triples
     /\ Covered(FourPartNonEquivalentWithBuffers(AC(vee, n), n)) = triples

ThreeJoinLaws(f) ==
  /\ f \in Monotonics[2] => SolutionLaws(f, 2)
  /\ f \in Monotonics[3] => JoinLaws(f, 3)
  /\ f = {} => \A n \in 1..2 : LET ACs == {AC(g, n) : g \in Monotonics[n]} IN
       /\ Revolution(n) = Dedekind[n + 3]
       /\ n = 2 => RevolutionMemoized([v \in ACs |-> FourPartNonEquivalent(v)], n) = Dedekind[n + 3]
       /\ n = 2 => RevolutionMemoized([v \in ACs |-> FourPartNonEquivalentWithBuffers(v, n)], n)
                     = Dedekind[n + 3]
=============================================================================
