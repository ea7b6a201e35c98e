---------------------------- MODULE BottomBuffers ----------------------------
(***************************************************************************)
(* The swapper of bottomBufferCreator.cpp: for a batch of tops it walks    *)
(* the links down, layer by layer, one bit per top and class, and writes   *)
(* the indices of the classes below each top into that top's buffer, in    *)
(* blocks whose halves are interleaved for the accelerator. A layer that   *)
(* lies below a top entirely ends its walk: the rest of the buffer is the  *)
(* range of all lower indices, written block by block. A buffer is a       *)
(* memory of words that hold leftovers before they are written. Blocks     *)
(* have 4 words here (32 in the code), jobs end at 2 blocks (16), a batch  *)
(* has 2 tops (8).                                                         *)
(***************************************************************************)
EXTENDS FlatStructure

BlockSize        == 4
JobSizeAlignment == 2 * BlockSize
BuffersPerBatch  == 2
Mark             == 2^30      \* bit 31 in the code
Leftover         == -1
\* processingContext.cpp getAlignedBufferSize.
BufferWords(n) ==
  LET most == GetMaxDeduplicatedBufferSize(n) + 20
  IN ((most + JobSizeAlignment - 1) \div JobSizeAlignment) * JobSizeAlignment

\* The first half of a block goes to its even words, the second to the odd.
ConvertBlockPtr(p) ==
  LET in == p % BlockSize  half == BlockSize \div 2
  IN p - in + IF in < half THEN 2 * in ELSE 2 * (in - half) + 1
UnshuffleBlock(mem, at) ==
  [p \in DOMAIN mem |-> IF p \div BlockSize = at \div BlockSize THEN mem[ConvertBlockPtr(p)] ELSE mem[p]]
AddValue(job, v) == [mem |-> [job.mem EXCEPT ![ConvertBlockPtr(job.end)] = v], end |-> job.end + 1]
AddRange(job, from, to) == FoldLeft(AddValue, job, [i \in 1..(to - from) |-> from + i - 1])

\* initializeSwapperRun: two marked tops, the dual, and the top itself only
\* if its pair with the dual is not counted from the dual's side.
NewJob(top, n) ==
  LET dual == Flat[n].duals[top]
  IN FoldLeft(AddValue, [mem |-> [p \in 0..(BufferWords(n) - 1) |-> Leftover], end |-> 0],
              <<Mark + top, Mark + top, dual>> \o IF top < dual THEN <<top>> ELSE <<>>)

InitializeSwapperTops(swapper, layer, tops, n) ==
  [at \in DOMAIN swapper |-> swapper[at] \cup {b \in DOMAIN tops :
     GetFlatLayerOfIndex(tops[b], n) = layer /\ tops[b] - FlatNodeLayerOffset(layer, n) = at}]

\* finalizeBuffer: everything below nodeOffset and below the dual follows.
FinalizeBuffer(job, top, nodeOffset, n) ==
  LET fillUpTo  == Min({nodeOffset, Flat[n].duals[top]})
      off       == job.end % BlockSize
      aligning  == IF fillUpTo >= BlockSize /\ off # 0 THEN BlockSize - off ELSE 0
      rest      == fillUpTo - aligning
      aligned   == IF fillUpTo >= BlockSize THEN AddRange(job, rest, fillUpTo)
                   ELSE IF job.end - off # 0 THEN [job EXCEPT !.mem = UnshuffleBlock(@, job.end - off)]
                   ELSE job
      first     == UnshuffleBlock(aligned.mem, 0)
      numBlocks == rest \div BlockSize
      \* Whole blocks are written as the vectors 0, half, 1, half + 1, ...
      Filling(p) == LET i == p - aligned.end
                    IN IF i < numBlocks * BlockSize
                       THEN CHOOSE v \in 0..(rest - 1) : ConvertBlockPtr(v) = i
                       ELSE i
      end       == aligned.end + rest
      blockEnd  == ((end + JobSizeAlignment - 1) \div JobSizeAlignment) * JobSizeAlignment
  IN [mem |-> [p \in DOMAIN first |-> CASE p >= aligned.end /\ p < end -> Filling(p)
                                       [] p >= end /\ p < blockEnd     -> KnownMbfCounts[n] - 1
                                       [] OTHER                        -> first[p]],
      end |-> end, blockEnd |-> blockEnd]
FinalizeBuffersMasked(jobs, mask, nodeOffset, tops, n) ==
  [b \in DOMAIN jobs |-> IF b \in mask THEN FinalizeBuffer(jobs[b], tops[b], nodeOffset, n) ELSE jobs[b]]

\* computeNextLayerLinks: each class collects its links until the marked one.
ComputeNextLayerLinks(links, in) ==
  FoldLeft(LAMBDA s, link : LET cur == s.cur \cup in[link.from]
                            IN IF link.last THEN [cur |-> {}, out |-> Append(s.out, cur)]
                               ELSE [s EXCEPT !.cur = cur],
           [cur |-> {}, out |-> <<>>], links).out

PushSwapperResults(jobs, swapper, offset, active, tops, n) ==
  LET finished == {b \in active : \A i \in DOMAIN swapper : b \in swapper[i]}
      Push(b)  == LET upTo == Min({offset + Len(swapper), Flat[n].duals[tops[b]]})
                  IN FoldLeft(LAMBDA job, i : IF offset + i - 1 < upTo /\ b \in swapper[i]
                                              THEN AddValue(job, offset + i - 1) ELSE job,
                              jobs[b], [i \in DOMAIN swapper |-> i])
      pushed   == [b \in DOMAIN jobs |-> IF b \in active THEN Push(b) ELSE jobs[b]]
  IN [jobs |-> FinalizeBuffersMasked(pushed, finished, offset, tops, n), active |-> active \ finished]

\* generateBotBuffers for one batch.
GenerateBotBuffers(tops, n) ==
  LET start == Max({GetFlatLayerOfIndex(tops[b], n) : b \in DOMAIN tops})
      Layer(s, toLayer) ==
        IF s.active = {} THEN s ELSE
        LET in  == InitializeSwapperTops(s.swapper, toLayer + 1, tops, n)
            out == ComputeNextLayerLinks(SubSeq(SourceLinks[n], s.link + 1, s.link + LinkCount(toLayer, n)), in)
            res == PushSwapperResults(s.jobs, out, FlatNodeLayerOffset(toLayer, n), s.active, tops, n)
        IN [jobs |-> res.jobs, active |-> res.active, link |-> s.link + LinkCount(toLayer, n),
            swapper |-> [i \in 0..(Len(out) - 1) |-> out[i + 1]]]
      last == FoldLeft(Layer, [jobs    |-> [b \in DOMAIN tops |-> NewJob(tops[b], n)],
                               active  |-> DOMAIN tops,
                               link    |-> FlatLinkOffset(2^n - start, n),
                               swapper |-> [i \in 0..(LayerSize(start, n) - 1) |-> {}]],
                       [d \in 1..start |-> start - d])
  IN FinalizeBuffersMasked(last.jobs, last.active, 0, tops, n)

\* JobInfo: what its readers see of it.
GetTop(job)  == job.mem[0] - Mark
Bottoms(job) == [i \in 1..(job.end - 3) |-> job.mem[i + 2]]

(***************************************************************************)
(* What it promises: below its marked top and the top's dual, each class   *)
(* with a member below the top and an index below the dual's, once, and no *)
(* leftovers; buffers end on whole jobs and fit.                           *)
(***************************************************************************)
BufferLaws(job, top, n) ==
  LET dual  == Flat[n].duals[top]
      below == {i \in 0..top : i < dual /\ HasPermutationBelow(Flat[n].mbfs[top], Flat[n].mbfs[i], n)}
  IN /\ GetTop(job) = top /\ job.mem[1] = job.mem[0] /\ job.mem[2] = dual
     /\ ToSet(Bottoms(job)) = below /\ Len(Bottoms(job)) = Cardinality(below)
     /\ Cardinality(below) <= MaxDeduplicateBottomsForTopLayer(GetFlatLayerOfIndex(top, n), n)
     /\ \A i \in below : i < ValidationBufferSize(n)
     /\ job.blockEnd % JobSizeAlignment = 0 /\ job.blockEnd <= BufferWords(n)
     /\ job.blockEnd - job.end < JobSizeAlignment
     /\ \A p \in job.end..(job.blockEnd - 1) : job.mem[p] = KnownMbfCounts[n] - 1

\* Two tops of a batch do not disturb each other.
BatchLaws(top, n) ==
  \A other \in Nodes(n) :
    LET jobs == GenerateBotBuffers(<<top, other>>, n)
    IN BufferLaws(jobs[1], top, n) /\ BufferLaws(jobs[2], other, n)
=============================================================================
