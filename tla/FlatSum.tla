------------------------------- MODULE FlatSum -------------------------------
(***************************************************************************)
(* From the buffers of bottoms to D(n + 2): flatPCoeff.h counts, per pair  *)
(* of top and bottom, the bottom's permutations below the top and adds up  *)
(* their p-coefficients; resultCollection.cpp adds those up per top and,   *)
(* because each pair also stands for the pair of duals that no buffer      *)
(* holds, per bottom; pcoeffClasses.cpp, flatPCoeff.cpp and                *)
(* flatPCoeffProcessing.cpp put the totals together in two ways, and       *)
(* singleTopVerification.h recomputes one top on its own.                  *)
(***************************************************************************)
EXTENDS BottomBuffers

\* BetaSum, and the pair that a ProcessedPCoeffSum packs into 64 bits.
Sum(sum, count) == [sum |-> sum, count |-> count]
Plus(a, b)      == Sum(a.sum + b.sum, a.count + b.count)
SumOfTerms(terms) == FoldLeft(Plus, Sum(0, 0), terms)

\* processPCoeffSum, with and without a buffer of graphs.
ComputeGraphSum(graphs, n) == SumOver(graphs, LAMBDA g : 2^CountConnectedVeryFast(g, n))
ProcessPCoeffSum(top, bot, n) ==
  LET graphs == ListPermutationsBelow(top, bot, n)
  IN Sum(ComputeGraphSum(graphs, n), Len(graphs))
ProcessOneBeta(topIdx, botIdx, n) == ProcessPCoeffSum(Flat[n].mbfs[topIdx], Flat[n].mbfs[botIdx], n)

\* processBetasCPU_SingleThread: results at the positions of their bottoms,
\* from the dual's on.
ProcessBetas(job, n) == [i \in 2..(job.end - 1) |-> ProcessOneBeta(GetTop(job), job.mem[i], n)]

ProduceBetaTerm(info, processed) ==
  Sum(processed.sum * info.classSize * info.intervalSizeDown, processed.count * info.classSize)
Positions(job) == [i \in 1..(job.end - 3) |-> i + 2]
SumOverBetas(job, results, n) ==
  SumOfTerms([k \in DOMAIN Positions(job) |->
    LET i == Positions(job)[k] IN ProduceBetaTerm(Flat[n].classInfos[job.mem[i]], results[i])])
ProduceBetaResult(job, results, n) ==
  [betaSum          |-> SumOverBetas(job, results, n),
   betaSumDualDedup |-> ProduceBetaTerm(Flat[n].classInfos[job.mem[2]], results[2])]

\* Mutant: the pairs left out are credited to their top, not to the bottom.
AddValidationDataToTop(validation, job, results, n) ==
  LET dual == Flat[n].classInfos[job.mem[2]]
  IN FoldLeft(LAMBDA v, i : [v EXCEPT ![GetTop(job)] = Plus(@, ProduceBetaTerm(dual, results[i]))],
              validation, Positions(job))
AddValidationData(validation, job, results, n) ==
  LET dual == Flat[n].classInfos[job.mem[2]]
  IN FoldLeft(LAMBDA v, i : [v EXCEPT ![job.mem[i]] = Plus(@, ProduceBetaTerm(dual, results[i]))],
              validation, Positions(job))

\* What BetaResultCollector holds once every top was processed, in batches.
AllJobs(n) ==
  LET Batch(from) == [i \in 1..Min({BuffersPerBatch, KnownMbfCounts[n] - from}) |-> from + i - 1]
  IN FlattenSeq([b \in 1..((KnownMbfCounts[n] + BuffersPerBatch - 1) \div BuffersPerBatch) |->
                   GenerateBotBuffers(Batch((b - 1) * BuffersPerBatch), n)])
Collected(n) ==
  FoldLeft(LAMBDA s, job :
             LET results == ProcessBetas(job, n)
             IN [results    |-> Append(s.results, ProduceBetaResult(job, results, n)),
                 validation |-> AddValidationData(s.validation, job, results, n)],
           [results |-> <<>>, validation |-> [i \in 0..(ValidationBufferSize(n) - 1) |-> Sum(0, 0)]],
           AllJobs(n))
Pipeline == [n \in 2..4 |-> Collected(n)]
ResultOf(top, n) == Pipeline[n].results[top + 1]

\* safeDiv aborts on a remainder: SafelyDivisible is its guard.
SafelyDivisible(a, d) == a.sum % d = 0 /\ a.count % d = 0
SafeDiv(a, d)         == Sum(a.sum \div d, a.count \div d)
GetBetaSum(pair, n) ==
  SafeDiv(Plus(Plus(pair.betaSum, pair.betaSum), pair.betaSumDualDedup), KnownFactorial(n))
GetBetaSumPlusValidationTerm(pair, term, n) ==
  SafeDiv(Plus(Plus(pair.betaSum, term), pair.betaSumDualDedup), KnownFactorial(n))

\* computeDedekindNumberFromBetaSums: D(n + 2), and D(n + 1) from the counts.
NodeSeq(n) == [i \in 1..KnownMbfCounts[n] |-> i - 1]
ComputeDedekindNumberFromBetaSums(n) ==
  SumOfTerms([k \in DOMAIN NodeSeq(n) |->
    LET i    == NodeSeq(n)[k]
        beta == GetBetaSum(ResultOf(i, n), n)
        size == Flat[n].classInfos[i].classSize
    IN Sum(beta.sum * Flat[n].classInfos[Flat[n].duals[i]].intervalSizeDown * size, beta.count * size)])

\* mergeResultsAndValidationForFinalBuffer and the sum over its result.
ValidationTerm(top, n) ==
  LET dual == Flat[n].duals[top]
  IN IF dual < ValidationBufferSize(n) THEN Pipeline[n].validation[dual] ELSE Sum(0, 0)
MergedResult(top, n) == GetBetaSumPlusValidationTerm(ResultOf(top, n), ValidationTerm(top, n), n)
ComputeDedekindNumberFromStandardBetaTopSums(n) ==
  SumOver(NodeSeq(n), LAMBDA i :
    LET dual == Flat[n].classInfos[Flat[n].duals[i]]
    IN MergedResult(i, n).sum * dual.intervalSizeDown * dual.classSize)

FlatDPlus1(n) ==
  SumOver(NodeSeq(n), LAMBDA i : Flat[n].classInfos[i].intervalSizeDown * Flat[n].classInfos[i].classSize)
IsEvenPlus2(n) ==
  FoldLeft(LAMBDA even, i :
             IF \/ Flat[n].classInfos[i].classSize % 2 = 0
                \/ Flat[n].classInfos[i].intervalSizeDown % 2 = 0
                \/ Flat[n].classInfos[Flat[n].duals[i]].intervalSizeDown % 2 = 0
             THEN even ELSE ~even, TRUE, NodeSeq(n))

(***************************************************************************)
(* computeSingleTopWithAllCores: no buffer and no links; the workers claim *)
(* blocks of indices up to endAt. The last top is answered without one.    *)
(***************************************************************************)
ClaimedIndices(endAt) == [i \in 1..(endAt + 1) |-> i - 1]
ComputeSingleTop(top, skipValidation, n) ==
  LET dual  == Flat[n].duals[top]
      endAt == IF skipValidation /\ top > dual THEN dual - 1 ELSE top
      SumIf(Counted(_)) ==
        LET bots == SelectSeq(ClaimedIndices(endAt), LAMBDA b : b # dual /\ Counted(b))
        IN SumOfTerms([k \in DOMAIN bots |->
             ProduceBetaTerm(Flat[n].classInfos[bots[k]], ProcessOneBeta(top, bots[k], n))])
  IN IF top = KnownMbfCounts[n] - 1
     THEN [resultSum |-> Sum(0, 0), validationSum |-> Sum(0, 0),
           dualSum   |-> Sum(2 * KnownFactorial(n), KnownFactorial(n))]
     ELSE [resultSum     |-> SumIf(LAMBDA b : b < dual),
           validationSum |-> SumIf(LAMBDA b : b > dual),
           dualSum       |-> ProduceBetaTerm(Flat[n].classInfos[dual], ProcessOneBeta(top, dual, n))]

(***************************************************************************)
(* What it promises.                                                       *)
(***************************************************************************)
\* The pairs that were left out are worth as much as those that were not,
\* whichever way they are counted: twice, from the duals, or one by one.
TopLaws(top, n) ==
  LET pair   == ResultOf(top, n)
      single == ComputeSingleTop(top, TRUE, n)
      full   == ComputeSingleTop(top, FALSE, n)
      isLast == top = KnownMbfCounts[n] - 1
  IN /\ SafelyDivisible(Plus(Plus(pair.betaSum, pair.betaSum), pair.betaSumDualDedup), KnownFactorial(n))
     /\ SafelyDivisible(Plus(Plus(pair.betaSum, ValidationTerm(top, n)), pair.betaSumDualDedup), KnownFactorial(n))
     /\ single.resultSum = pair.betaSum /\ single.dualSum = pair.betaSumDualDedup
     /\ MergedResult(top, n).count = Flat[n].classInfos[top].intervalSizeDown
     /\ ~isLast => /\ full.resultSum = pair.betaSum
                   /\ full.validationSum = ValidationTerm(top, n)

TotalLaws(n) ==
  /\ ComputeDedekindNumberFromBetaSums(n) = Sum(Dedekind[n + 2], Dedekind[n + 1])
  /\ ComputeDedekindNumberFromStandardBetaTopSums(n) = Dedekind[n + 2]
  /\ FlatDPlus1(n) = Dedekind[n + 1]
  /\ IsEvenPlus2(n) <=> Dedekind[n + 2] % 2 = 0
=============================================================================
