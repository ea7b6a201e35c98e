---------------------------- MODULE MCAlgorithms ----------------------------
(***************************************************************************)
(* Runs the sequential code on every input of a small instance. A state is *)
(* one input: a subject and a set of positions that grows bit by bit, so   *)
(* that TLC's workers share the inputs between them. Code that takes the   *)
(* number of a node or a number of variables takes the input's number. The *)
(* properties are of the input that a step leads to: all but the first,    *)
(* which has no subject.                                                   *)
(***************************************************************************)
EXTENDS ThreeJoins, ResultChecks, WideWords, MBFFilter, RandomMBFs

CONSTANT Bound   \* the positions an input may have: 0..Bound-1

VARIABLES subject, input
vars == <<subject, input>>

Subjects == {"bits", "functions", "pcoeff", "intervals", "threejoins", "flat", "checks",
             "filter", "random"}

Init == subject = "none" /\ input = {}
Choose ==
  /\ subject = "none"
  /\ subject' \in Subjects
  /\ UNCHANGED input
AddBit ==
  /\ subject # "none"
  /\ \E p \in 0..(Bound - 1) : /\ \A q \in input : q < p
                               /\ input' = input \cup {p}
  /\ UNCHANGED subject
Next == Choose \/ AddBit
Spec == Init /\ [][Next]_vars

BitSetHold(s, i) == s = "bits" => BitSetLaws(i)

\* The bit tricks of every class of bitSet.h compute what they stand for on
\* sets of positions: mirror images, shifts, complements, the ascending list
\* of elements, the descending list of subsets, a strict total order.
BitSetAgrees == [][BitSetHold(subject', input')]_vars

FunctionsHold(s, i) ==
  /\ s = "functions" => FunctionLaws(i) /\ MonotonicLaws(i)
  /\ s = "filter"    => FilterLaws(i)
  /\ s = "random"    => RandomLaws(i)

\* The shifts and masks of booleanFunction.h compute neighbours, closures,
\* exchanges of variables and all permutations, in every version but one:
\* andDown for seven variables, which nothing calls, gives something else.
\* canonize gives all functions of a class the same name and no other; the
\* loops of funcTypes.h yield each monotonic function of a range exactly once.
\* The filter of mbfFilter.cpp finds all pairs below each other whatever
\* samples it takes; the draws of randomMBFGeneration.cpp give every function,
\* pair and four equally often.
FunctionsAgree == [][FunctionsHold(subject', input')]_vars

PCoeffHold(s, i) == s = "pcoeff" => PCoeffLaws(i)

\* Every way of connectGraph.h to count the components between a bot and a
\* top, and so every way of pcoeff.h to sum p-coefficients, gives the same
\* number, and every method gives D(n + 2).
PCoeffAgrees == [][PCoeffHold(subject', input')]_vars

IntervalsHold(s, i) ==
  /\ s = "intervals"  => IntervalLaws(i)
  /\ s = "threejoins" => ThreeJoinLaws(i)

\* The ways to count the functions between two others (recursion, caches,
\* the last two layers at once, products over partial functions, from below
\* by links) agree with counting them one by one; so do the solvers of the
\* three-join equations of tjomn.h.
IntervalsAgree == [][IntervalsHold(subject', input')]_vars

FlatHold(s, i) ==
  s = "flat" =>
    LET k == At(i)
    IN /\ k = 0 => \A n \in 2..4 : TableLaws(n)
       /\ \A n \in 3..4 : k \in Nodes(n) => NodeLaws(k, n) /\ BatchLaws(k, n)
       /\ \A n \in 2..4 : k \in Nodes(n) => TopLaws(k, n)
       /\ k \in 2..4 => TotalLaws(k)
       /\ k \in WideNumbers => WideWordLaws(k)

\* The flat files' offsets, links and duals describe the classes; the jobs
\* that the bottom buffer creator lays out hold each bottom below each top
\* once, also after the accelerator's order of words; the sums over their
\* results, each counted half and its dual half, give D(n + 2). The sums of wide
\* words are exact but for one lost carry.
FlatAgrees == [][FlatHold(subject', input')]_vars

ChecksHold(s, i) ==
  s = "checks" =>
    LET k == At(i)
    IN /\ \A n \in 3..4 : k \in Nodes(n) => CounterLaws(k, n) /\ CheckLaws(k, n)
       /\ k \in 3..4 => RightLaws(k)

\* Each check of superCommands.cpp accepts the right results and, of a list
\* with two wrong tops, reports exactly those among the tops it looks at.
ChecksAgree == [][ChecksHold(subject', input')]_vars
=============================================================================
