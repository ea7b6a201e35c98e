---------------------------- MODULE FlatStructure ----------------------------
(***************************************************************************)
(* The files a computation starts from: the sorted classes and the links   *)
(* up (MBFDecomposition.h), the flat buffers of classes, class infos,      *)
(* duals and links down (dataGenerationCommands.cpp), and the links of     *)
(* each class from above, in the order in which the swapper consumes them. *)
(* Sizes and offsets are tables in the code (knownData.h), never counted.  *)
(***************************************************************************)
EXTENDS PCoeff

\* knownData.h, per layer from 0 up.
KnownMbfCounts  == <<3, 5, 10, 30>>
KnownLayerSizes == [n \in 2..4 |->
  CASE n = 2 -> <<1, 1, 1, 1, 1>>
    [] n = 3 -> <<1, 1, 1, 1, 2, 1, 1, 1, 1>>
    [] n = 4 -> <<1, 1, 1, 1, 2, 2, 2, 3, 4, 3, 2, 2, 2, 1, 1, 1, 1>>]
KnownLinkCounts == [n \in 2..4 |->
  CASE n = 2 -> <<1, 1, 1, 1>>
    [] n = 3 -> <<1, 1, 1, 2, 2, 1, 1, 1>>
    [] n = 4 -> <<1, 1, 1, 2, 3, 3, 4, 6, 6, 4, 3, 3, 2, 1, 1, 1>>]
LayerSize(l, n) == KnownLayerSizes[n][l + 1]
LinkCount(l, n) == KnownLinkCounts[n][l + 1]   \* of the links into layer l from above
RunningSum(s)   == FoldLeft(LAMBDA sums, x : Append(sums, Last(sums) + x), <<0>>, s)
NodeLayerOffsets == [n \in 2..4 |-> RunningSum(KnownLayerSizes[n])]
LinkOffsets      == [n \in 2..4 |-> RunningSum(KnownLinkCounts[n])]
FlatNodeLayerOffset(l, n) == NodeLayerOffsets[n][l + 1]
FlatLinkOffset(l, n)      == LinkOffsets[n][l + 1]
GetFlatLayerOfIndex(i, n) == Min({l \in 0..(2^n) : FlatNodeLayerOffset(l + 1, n) > i})

KnownFactorial(n) == FoldLeft(LAMBDA f, i : f * i, 1, [i \in 1..n |-> i])
\* Multiplies the larger part out and divides by the smaller factorial.
KnownChoose(from, count) ==
  LET most == IF count <= from \div 2 THEN from - count ELSE count
  IN FoldLeft(LAMBDA f, i : f * (most + i), 1, [i \in 1..(from - most) |-> i])
       \div KnownFactorial(from - most)
GetMaxLayerWidth(n) == KnownChoose(n, n \div 2)

\* Bounds on the classes below a top of a layer; deduplicated, only those of
\* layers up to its dual's.
NodesPerLayerBelow(layer, n) ==
  FoldLeft(LAMBDA s, i : Append(s, Min({Last(s) * GetMaxLayerWidth(n), LayerSize(layer - i, n)})),
           <<1>>, [i \in 1..layer |-> i])
MaxBottomsForTopLayer(layer, n) == SumOver(NodesPerLayerBelow(layer, n), LAMBDA x : x)
MaxDeduplicateBottomsForTopLayer(layer, n) ==
  LET nodes == NodesPerLayerBelow(layer, n)
  IN 1 + SumOver([i \in 1..layer |-> IF layer - i <= 2^n - layer THEN nodes[i + 1] ELSE 0],
                 LAMBDA x : x)
GetMaxDeduplicatedBufferSize(n) == Max({MaxDeduplicateBottomsForTopLayer(l, n) : l \in 0..(2^n)})
MaxBufSize(n)           == KnownMbfCounts[n] \div 2 + 2
ValidationBufferSize(n) == FlatNodeLayerOffset(2^n \div 2 + 1, n)

(***************************************************************************)
(* sortAndComputeLinks: for each class but the last its classes with one   *)
(* bit more, each with the number of bits that lead there.                 *)
(***************************************************************************)
FindAllExpandedMBFsFast(f, n) ==
  FoldLeft(LAMBDA found, bit :
             LET canon == Canonize(f \cup {bit}, n)
                 same  == {i \in DOMAIN found : found[i].mbf = canon}
             IN IF same = {} THEN Append(found, [mbf |-> canon, count |-> 1])
                ELSE [found EXCEPT ![Min(same)].count = @ + 1],
           <<>>, ForEachOne(Succ(f, n) \ f))
IndexOf(c, layer) == CHOOSE i \in 0..(Len(layer) - 1) : layer[i + 1] = c
LinkLayer(l, n) ==
  LET lists == [i \in DOMAIN ClassLayers[n][l] |-> FindAllExpandedMBFsFast(ClassLayers[n][l][i], n)]
  IN [i \in DOMAIN lists |-> [k \in DOMAIN lists[i] |->
        [count |-> lists[i][k].count, index |-> IndexOf(lists[i][k].mbf, ClassLayers[n][l + 1])]]]

(***************************************************************************)
(* addDownConnections and convertMBFMapToFlatMBFStructure. Indices start   *)
(* at 0; links are offsets into the layer below; the links of a node end   *)
(* where those of the next one start.                                      *)
(***************************************************************************)
DownConnections(f, lower, n) ==
  FoldLeft(LAMBDA found, bit :
             LET at == IndexOf(Canonize(f \ {bit}, n), lower)
             IN IF \E i \in DOMAIN found : found[i] = at THEN found ELSE Append(found, at),
           <<>>, ForEachOne(AntiChainOf(f, n)))

FlatOf(n) ==
  LET mbfs  == FlattenSeq([l \in 1..(2^n + 1) |-> ClassLayers[n][l - 1]])
      layer == [i \in DOMAIN mbfs |-> Popcnt(mbfs[i])]
      links == [i \in DOMAIN mbfs |-> IF layer[i] = 0 THEN <<>>
                                      ELSE DownConnections(mbfs[i], ClassLayers[n][layer[i] - 1], n)]
      starts == RunningSum([i \in DOMAIN mbfs |-> Len(links[i])])
  IN [mbfs       |-> [i \in 0..(Len(mbfs) - 1) |-> mbfs[i + 1]],
      classInfos |-> [i \in 0..(Len(mbfs) - 1) |->
                        [intervalSizeDown |-> IntervalSizeToBottom(mbfs[i + 1], n),
                         classSize        |-> Symmetries(mbfs[i + 1], n)]],
      duals      |-> [i \in 0..(Len(mbfs) - 1) |->
                        FlatNodeLayerOffset(2^n - layer[i + 1], n)
                          + IndexOf(Canonize(Dual(mbfs[i + 1], n), n), ClassLayers[n][2^n - layer[i + 1]])],
      downLinks  |-> [i \in 0..Len(mbfs) |-> starts[i + 1]],
      allLinks   |-> FlattenSeq(links)]
Flat == [n \in 2..4 |-> FlatOf(n)]
Nodes(n) == 0..(KnownMbfCounts[n] - 1)

\* convertFlatMBFStructureToSourceMBFStructure: from the top layer down, per
\* class of the layer below the classes that link to it, the last one marked.
Incoming(fromLayer, to, n) ==
  LET links(i) == SubSeq(Flat[n].allLinks, Flat[n].downLinks[FlatNodeLayerOffset(fromLayer, n) + i] + 1,
                         Flat[n].downLinks[FlatNodeLayerOffset(fromLayer, n) + i + 1])
  IN FlattenSeq([k \in 1..LayerSize(fromLayer, n) |->
       SelectSeq([j \in DOMAIN links(k - 1) |-> IF links(k - 1)[j] = to THEN k - 1 ELSE -1],
                 LAMBDA x : x >= 0)])
SourceOf(n) ==
  FlattenSeq([d \in 1..(2^n) |->
    FlattenSeq([t \in 1..LayerSize(2^n - d, n) |->
      LET in == Incoming(2^n - d + 1, t - 1, n)
      IN [k \in DOMAIN in |-> [from |-> in[k], last |-> k = Len(in)]]])])
SourceLinks == [n \in 2..4 |-> SourceOf(n)]

(***************************************************************************)
(* What it promises.                                                       *)
(***************************************************************************)
\* The tables say how many classes, links and their widest lists there are.
TableLaws(n) ==
  /\ \A l \in 0..(2^n) : Len(ClassLayers[n][l]) = LayerSize(l, n)
  /\ Last(NodeLayerOffsets[n]) = KnownMbfCounts[n]
  /\ \A l \in 0..(2^n - 1) :
       /\ SumOver(LinkLayer(l, n), Len) = LinkCount(l, n)
       /\ Cardinality({i \in DOMAIN SourceLinks[n] : SourceLinks[n][i].last
                         /\ i > FlatLinkOffset(2^n - l - 1, n) /\ i <= FlatLinkOffset(2^n - l, n)})
            = LayerSize(l, n)
  /\ Last(LinkOffsets[n]) = Len(Flat[n].allLinks) /\ Len(SourceLinks[n]) = Len(Flat[n].allLinks)
  /\ \A i \in Nodes(n) : /\ GetFlatLayerOfIndex(i, n) = Popcnt(Flat[n].mbfs[i])
                         /\ Popcnt(AntiChainOf(Flat[n].mbfs[i], n)) <= GetMaxLayerWidth(n)

\* Of one class: links up and down are the same relation, and the classes
\* they connect count each other's members; the dual of the dual is itself.
NodeLaws(i, n) ==
  LET f  == Flat[n].mbfs[i]
      l  == GetFlatLayerOfIndex(i, n)
      at == i - FlatNodeLayerOffset(l, n)
  IN /\ Flat[n].duals[Flat[n].duals[i]] = i
     /\ Canonize(Dual(f, n), n) = Flat[n].mbfs[Flat[n].duals[i]]
     /\ l < 2^n => \A k \in DOMAIN LinkLayer(l, n)[at + 1] :
          LET link == LinkLayer(l, n)[at + 1][k]
              up   == ClassLayers[n][l + 1][link.index + 1]
          IN /\ f \in DownLinks(up, n)
             /\ link.count * Symmetries(f, n)
                  = Cardinality({gp \in Orbit(f, n) \X Bits(n) :
                                   gp[2] \notin gp[1] /\ gp[1] \cup {gp[2]} \in Orbit(up, n)})
     /\ l > 0 => {ClassLayers[n][l - 1][Flat[n].allLinks[k] + 1] :
                    k \in (Flat[n].downLinks[i] + 1)..Flat[n].downLinks[i + 1]} = DownLinks(f, n)
=============================================================================
