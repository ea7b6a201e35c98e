------------------------ MODULE PCoeffPipelineProofs ------------------------
(***************************************************************************)
(* The closed loop of PCoeffPipeline is safe for any sockets, threads,     *)
(* buffers and tops: CirculationInv is inductive. Each part of it is       *)
(* proved by a lemma of its own, with one step per action of Next.         *)
(***************************************************************************)
EXTENDS PCoeffPipeline, FiniteSetTheorems, TLAPS

\* A processor sends its job through one of the sockets' contexts.
LEMMA ContextIsSocket ==
  ASSUME TypeOK, JobInv, NEW p \in Processors, NEW t \in Tops, owner[t] = p,
         stage[t] \in {"processing", "computing"}
  PROVE  ContextOf(p, t) \in Sockets
<1>1. SocketOf[p] \in Sockets
  BY ThreadsAssumption DEF Threads
<1>2. inp[t] \in InputBufs
  BY DEF TypeOK, JobInv
<1>3. HomeOf[inp[t]] \in Sockets
  BY <1>2, BuffersAssumption
<1>4. QED BY <1>1, <1>3 DEF ContextOf

\* What popN_wait returns: distinct buffers of the allocator, one per top.
LEMMA BatchOfInputs ==
  ASSUME TypeOK, JobInv, NEW c \in Creators,
         NEW f \in Injection(At("claimed", c), inAlloc[SocketOf[c]])
  PROVE  /\ SocketOf[c] \in Sockets /\ inAlloc[SocketOf[c]] \subseteq InputBufs
         /\ \A t \in At("claimed", c) : f[t] \in inAlloc[SocketOf[c]] /\ f[t] # NoBuf
         /\ \A t, u \in At("claimed", c) : f[t] = f[u] => t = u
<1>1. SocketOf[c] \in Sockets
  BY ThreadsAssumption DEF Threads
<1>2. inAlloc[SocketOf[c]] \subseteq InputBufs
  BY <1>1 DEF TypeOK
<1>3. /\ f \in [At("claimed", c) -> inAlloc[SocketOf[c]]]
      /\ \A t, u \in At("claimed", c) : f[t] = f[u] => t = u
  BY DEF Injection, IsInjective
<1>4. \A t \in At("claimed", c) : f[t] \in inAlloc[SocketOf[c]]
  BY <1>3
<1>5. QED BY <1>1, <1>2, <1>3, <1>4, BuffersAssumption

LEMMA TopsFinite == IsFiniteSet(Tops) /\ Cardinality(Tops) = NumTops
<1>1. /\ IsFiniteSet(0 .. NumTops - 1)
      /\ Cardinality(0 .. NumTops - 1) = IF 0 > NumTops - 1 THEN 0 ELSE NumTops - 1 - 0 + 1
  BY FS_Interval, SizesAssumption
<1>2. QED BY <1>1, SizesAssumption DEF Tops

LEMMA UpdateType ==
  ASSUME NEW D, NEW R, NEW f \in [D -> R], NEW i, NEW x \in R
  PROVE  [f EXCEPT ![i] = x] \in [D -> R]
  OBVIOUS

\* The types are preserved.
LEMMA TypeStep ==
  ASSUME TypeOK, JobInv, [Next]_vars
  PROVE  TypeOK'
<1> USE SizesAssumption, ThreadsAssumption, BuffersAssumption DEF TypeOK, Threads, jobVars, bufVars, closeVars, resultVars, endVars, Move, MoveAll, Exit, At, Held
<1>1. ASSUME NEW c \in Creators, Claim(c)
      PROVE  TypeOK'
  BY <1>1 DEF Claim, Tops
<1>2. ASSUME NEW c \in Creators, CreatorExit(c)
      PROVE  TypeOK'
  BY <1>2 DEF CreatorExit, Tops
<1>3. ASSUME NEW c \in Creators, TakeInputs(c)
      PROVE  TypeOK'
  <2>1. PICK f \in Injection(At("claimed", c), inAlloc[SocketOf[c]]) :
          /\ inp' = [x \in Tops |-> IF x \in At("claimed", c) THEN f[x] ELSE inp[x]]
          /\ inAlloc' = [inAlloc EXCEPT ![SocketOf[c]] = @ \ {f[x] : x \in At("claimed", c)}]
    BY <1>3 DEF TakeInputs
  <2>2. /\ SocketOf[c] \in Sockets /\ inAlloc[SocketOf[c]] \subseteq InputBufs
        /\ \A x \in At("claimed", c) : f[x] \in inAlloc[SocketOf[c]] /\ f[x] # NoBuf
        /\ \A x, y \in At("claimed", c) : f[x] = f[y] => x = y
    BY ONLY <2>1, c \in Creators, TypeOK, JobInv, BatchOfInputs
  <2>3. inp' \in [Tops -> InputBufs \cup {NoBuf}] /\ inAlloc' \in [Sockets -> SUBSET InputBufs]
    BY <2>1, <2>2
  <2>4. QED BY <1>3, <2>3 DEF TakeInputs, Tops
<1>4. ASSUME NEW c \in Creators, PushBatch(c)
      PROVE  TypeOK'
  BY <1>4 DEF PushBatch, Tops
<1>5. ASSUME NEW p \in Processors, ProcessorExit(p)
      PROVE  TypeOK'
  BY <1>5 DEF ProcessorExit, Tops
<1>6. ASSUME NEW p \in Processors, NEW t \in Tops, PopInput(p, t)
      PROVE  TypeOK'
  BY <1>6 DEF PopInput, Tops
<1>7. ASSUME NEW p \in Processors, NEW t \in Tops, TakeResult(p, t)
      PROVE  TypeOK'
  <2>1. ContextOf(p, t) \in Sockets
    BY <1>7, ContextIsSocket DEF TakeResult, PushOutput
  <2>2. PICK b \in resAlloc[ContextOf(p, t)] :
          /\ res' = [res EXCEPT ![t] = b]
          /\ resAlloc' = [resAlloc EXCEPT ![ContextOf(p, t)] = @ \ {b}]
    BY <1>7 DEF TakeResult
  <2>3. b \in ResultBufs
    BY <2>1, <2>2
  <2>4. QED BY <1>7, <2>1, <2>2, <2>3 DEF TakeResult, Tops
<1>8. ASSUME NEW p \in Processors, NEW t \in Tops, PushOutput(p, t)
      PROVE  TypeOK'
  <2>1. ContextOf(p, t) \in Sockets
    BY <1>8, ContextIsSocket DEF TakeResult, PushOutput
  <2>2. QED BY <1>8, <2>1 DEF PushOutput, Tops
<1>9. ASSUME NEW r \in ResultThreads, RecordResult(r)
      PROVE  TypeOK'
  <2>1. results' \in [Tops -> Tops \cup {NoTop}] /\ slots' \in Nat
    <3>1. pending[r] \in Tops \cup {NoTop}
      OBVIOUS
    <3>2. results' = [results EXCEPT ![slots] = pending[r]] /\ slots' = slots + 1
      BY <1>9 DEF RecordResult
    <3>3. results \in [Tops -> Tops \cup {NoTop}] /\ slots \in Nat
      OBVIOUS
    <3>4. results' \in [Tops -> Tops \cup {NoTop}]
      BY ONLY <3>1, <3>2, <3>3, UpdateType
    <3>5. QED BY ONLY <3>2, <3>3, <3>4
  <2>2. pending' \in [ResultThreads -> Tops \cup {NoTop}]
    BY <1>9 DEF RecordResult
  <2>3. QED BY <1>9, <2>1, <2>2 DEF RecordResult
<1>10. ASSUME NEW r \in ResultThreads, ResultExit(r)
      PROVE  TypeOK'
  BY <1>10 DEF ResultExit, Tops
<1>11. ASSUME NEW r \in ResultThreads, NEW t \in Tops, PopOutput(r, t)
      PROVE  TypeOK'
  BY <1>11 DEF PopOutput, Tops
<1>12. ASSUME NEW r \in ResultThreads, NEW t \in Tops, DropFailed(r, t)
      PROVE  TypeOK'
  BY <1>12 DEF DropFailed, Tops
<1>13. ASSUME NEW r \in ResultThreads, NEW t \in Tops, PushValidation(r, t)
      PROVE  TypeOK'
  BY <1>13 DEF PushValidation, Tops
<1>14. ASSUME NEW v \in Validators, ValidatorExit(v)
      PROVE  TypeOK'
  BY <1>14 DEF ValidatorExit, Tops
<1>15. ASSUME NEW v \in Validators, NEW t \in Tops, PopValidation(v, t)
      PROVE  TypeOK'
  BY <1>15 DEF PopValidation, Tops
<1>16. ASSUME NEW v \in Validators, NEW t \in Tops, FreeInput(v, t)
      PROVE  TypeOK'
  <2>1. inp[t] \in InputBufs
    BY <1>16 DEF FreeInput, JobInv
  <2>2. QED BY <1>16, <2>1 DEF FreeInput, Tops
<1>17. ASSUME NEW v \in Validators, NEW t \in Tops, FreeResult(v, t)
      PROVE  TypeOK'
  <2>1. res[t] \in ResultBufs
    BY <1>17 DEF FreeResult, JobInv, Early
  <2>2. QED BY <1>17, <2>1 DEF FreeResult, Tops
<1>18. ASSUME CloseInput
      PROVE  TypeOK'
  BY <1>18 DEF CloseInput, Tops
<1>19. ASSUME NEW s \in Sockets, CloseOutput(s)
      PROVE  TypeOK'
  BY <1>19 DEF CloseOutput, Tops
<1>20. ASSUME NEW s \in Sockets, CloseValidation(s)
      PROVE  TypeOK'
  BY <1>20 DEF CloseValidation, Tops
<1>21. ASSUME Return
      PROVE  TypeOK'
  BY <1>21 DEF Return, Tops
<1>22. ASSUME UNCHANGED vars
      PROVE  TypeOK'
  BY <1>22 DEF vars, Tops
<1>23. QED
  BY <1>1, <1>2, <1>3, <1>4, <1>5, <1>6, <1>7, <1>8, <1>9, <1>10, <1>11,
     <1>12, <1>13, <1>14, <1>15, <1>16, <1>17, <1>18, <1>19, <1>20, <1>21, <1>22
     DEF Next, CreatorStep, ProcessorStep, ResultStep, ValidatorStep, CloseStep, Terminated

\* Jobs stay with the threads their stage says, with the buffers it says.
LEMMA JobStep ==
  ASSUME TypeOK, JobInv, ShutdownInv, [Next]_vars
  PROVE  JobInv'
<1> USE ThreadsAssumption, BuffersAssumption DEF TypeOK, JobInv, Threads, Early, jobVars, bufVars, closeVars, resultVars, endVars, Move, MoveAll, Exit, At, Held
<1>1. ASSUME NEW c \in Creators, Claim(c)
      PROVE  JobInv'
  <2>1. \A x \in Tops : nextTop <= x /\ x < nextTop + Batch => stage[x] = "unclaimed"
    BY DEF ShutdownInv
  <2>2. QED BY <1>1, <2>1 DEF Claim
<1>2. ASSUME NEW c \in Creators, CreatorExit(c)
      PROVE  JobInv'
  BY <1>2 DEF CreatorExit, Threads
<1>3. ASSUME NEW c \in Creators, TakeInputs(c)
      PROVE  JobInv'
  <2>1. PICK f \in Injection(At("claimed", c), inAlloc[SocketOf[c]]) :
          /\ inp' = [x \in Tops |-> IF x \in At("claimed", c) THEN f[x] ELSE inp[x]]
          /\ inAlloc' = [inAlloc EXCEPT ![SocketOf[c]] = @ \ {f[x] : x \in At("claimed", c)}]
    BY <1>3 DEF TakeInputs
  <2>2. /\ SocketOf[c] \in Sockets /\ inAlloc[SocketOf[c]] \subseteq InputBufs
        /\ \A x \in At("claimed", c) : f[x] \in inAlloc[SocketOf[c]] /\ f[x] # NoBuf
        /\ \A x, y \in At("claimed", c) : f[x] = f[y] => x = y
    BY ONLY <2>1, c \in Creators, TypeOK, JobInv, BatchOfInputs
  <2>3. \A x \in At("claimed", c) : inp'[x] # NoBuf /\ res[x] = NoBuf
    BY <2>1, <2>2
  <2>4. \A x \in Tops \ At("claimed", c) : inp'[x] = inp[x]
    BY <2>1
  <2>5. QED BY <1>3, <2>3, <2>4 DEF TakeInputs
<1>4. ASSUME NEW c \in Creators, PushBatch(c)
      PROVE  JobInv'
  BY <1>4 DEF PushBatch, Threads
<1>5. ASSUME NEW p \in Processors, ProcessorExit(p)
      PROVE  JobInv'
  BY <1>5 DEF ProcessorExit, Threads
<1>6. ASSUME NEW p \in Processors, NEW t \in Tops, PopInput(p, t)
      PROVE  JobInv'
  BY <1>6 DEF PopInput, Threads
<1>7. ASSUME NEW p \in Processors, NEW t \in Tops, TakeResult(p, t)
      PROVE  JobInv'
  <2>1. ContextOf(p, t) \in Sockets
    BY <1>7, ContextIsSocket DEF TakeResult, PushOutput
  <2>2. PICK b \in resAlloc[ContextOf(p, t)] : res' = [res EXCEPT ![t] = b]
    BY <1>7 DEF TakeResult
  <2>3. b # NoBuf
    BY <2>1, <2>2
  <2>4. QED BY <1>7, <2>2, <2>3 DEF TakeResult
<1>8. ASSUME NEW p \in Processors, NEW t \in Tops, PushOutput(p, t)
      PROVE  JobInv'
  <2>1. ContextOf(p, t) \in Sockets
    BY <1>8, ContextIsSocket DEF TakeResult, PushOutput
  <2>2. QED BY <1>8, <2>1 DEF PushOutput
<1>9. ASSUME NEW r \in ResultThreads, RecordResult(r)
      PROVE  JobInv'
  BY <1>9 DEF RecordResult, Threads
<1>10. ASSUME NEW r \in ResultThreads, ResultExit(r)
      PROVE  JobInv'
  BY <1>10 DEF ResultExit, Threads
<1>11. ASSUME NEW r \in ResultThreads, NEW t \in Tops, PopOutput(r, t)
      PROVE  JobInv'
  BY <1>11 DEF PopOutput, Threads
<1>12. ASSUME NEW r \in ResultThreads, NEW t \in Tops, DropFailed(r, t)
      PROVE  JobInv'
  BY <1>12 DEF DropFailed, Threads
<1>13. ASSUME NEW r \in ResultThreads, NEW t \in Tops, PushValidation(r, t)
      PROVE  JobInv'
  BY <1>13 DEF PushValidation, Threads
<1>14. ASSUME NEW v \in Validators, ValidatorExit(v)
      PROVE  JobInv'
  BY <1>14 DEF ValidatorExit, Threads
<1>15. ASSUME NEW v \in Validators, NEW t \in Tops, PopValidation(v, t)
      PROVE  JobInv'
  BY <1>15 DEF PopValidation, Threads
<1>16. ASSUME NEW v \in Validators, NEW t \in Tops, FreeInput(v, t)
      PROVE  JobInv'
  BY <1>16 DEF FreeInput, Threads
<1>17. ASSUME NEW v \in Validators, NEW t \in Tops, FreeResult(v, t)
      PROVE  JobInv'
  BY <1>17 DEF FreeResult, Threads
<1>18. ASSUME CloseInput
      PROVE  JobInv'
  BY <1>18 DEF CloseInput, Threads
<1>19. ASSUME NEW s \in Sockets, CloseOutput(s)
      PROVE  JobInv'
  BY <1>19 DEF CloseOutput, Threads
<1>20. ASSUME NEW s \in Sockets, CloseValidation(s)
      PROVE  JobInv'
  BY <1>20 DEF CloseValidation, Threads
<1>21. ASSUME Return
      PROVE  JobInv'
  BY <1>21 DEF Return, Threads
<1>22. ASSUME UNCHANGED vars
      PROVE  JobInv'
  BY <1>22 DEF vars, Threads
<1>23. QED
  BY <1>1, <1>2, <1>3, <1>4, <1>5, <1>6, <1>7, <1>8, <1>9, <1>10, <1>11,
     <1>12, <1>13, <1>14, <1>15, <1>16, <1>17, <1>18, <1>19, <1>20, <1>21, <1>22
     DEF Next, CreatorStep, ProcessorStep, ResultStep, ValidatorStep, CloseStep, Terminated

\* Input buffers are neither lost nor shared.
LEMMA InputsStep ==
  ASSUME TypeOK, JobInv, InputsConserved, [Next]_vars
  PROVE  InputsConserved'
<1> USE ThreadsAssumption, BuffersAssumption DEF TypeOK, InputsConserved, jobVars, bufVars, closeVars, resultVars, endVars, Move, MoveAll, Exit, At, Held
<1>1. ASSUME NEW c \in Creators, Claim(c)
      PROVE  InputsConserved'
  BY <1>1 DEF Claim, InputsConserved
<1>2. ASSUME NEW c \in Creators, CreatorExit(c)
      PROVE  InputsConserved'
  BY <1>2 DEF CreatorExit, InputsConserved
<1>3. ASSUME NEW c \in Creators, TakeInputs(c)
      PROVE  InputsConserved'
  <2>1. PICK f \in Injection(At("claimed", c), inAlloc[SocketOf[c]]) :
          /\ inp' = [x \in Tops |-> IF x \in At("claimed", c) THEN f[x] ELSE inp[x]]
          /\ inAlloc' = [inAlloc EXCEPT ![SocketOf[c]] = @ \ {f[x] : x \in At("claimed", c)}]
    BY <1>3 DEF TakeInputs
  <2>2. /\ SocketOf[c] \in Sockets /\ inAlloc[SocketOf[c]] \subseteq InputBufs
        /\ \A x \in At("claimed", c) : f[x] \in inAlloc[SocketOf[c]] /\ f[x] # NoBuf
        /\ \A x, y \in At("claimed", c) : f[x] = f[y] => x = y
    BY ONLY <2>1, c \in Creators, TypeOK, JobInv, BatchOfInputs
  <2>3. ASSUME NEW b \in InputBufs
        PROVE  (\E s \in Sockets : b \in inAlloc'[s]) \/ (\E x \in Tops : inp'[x] = b)
    <3>1. CASE \E x \in At("claimed", c) : b = f[x]
      BY <3>1, <2>1
    <3>2. CASE ~\E x \in At("claimed", c) : b = f[x]
      <4>1. \A s \in Sockets : b \in inAlloc[s] => b \in inAlloc'[s]
        BY <3>2, <2>1
      <4>2. \A x \in Tops : inp[x] = b => inp'[x] = b
        BY <2>1 DEF JobInv
      <4>3. QED BY <4>1, <4>2
    <3>3. QED BY <3>1, <3>2
  <2>4. ASSUME NEW x \in Tops, NEW s \in Sockets
        PROVE  inp'[x] \notin inAlloc'[s]
    <3>1. CASE x \in At("claimed", c)
      <4>1. inp'[x] = f[x] /\ f[x] \in inAlloc[SocketOf[c]]
        BY <3>1, <2>1, <2>2
      <4>2. CASE s = SocketOf[c]
        BY <3>1, <4>1, <4>2, <2>1, <2>2
      <4>3. CASE s # SocketOf[c]
        BY <4>1, <4>3, <2>1, <2>2
      <4>4. QED BY <4>2, <4>3
    <3>2. CASE x \notin At("claimed", c)
      BY <3>2, <2>1, <2>2
    <3>3. QED BY <3>1, <3>2
  <2>5. ASSUME NEW x \in Tops, NEW y \in Tops, inp'[x] = inp'[y], inp'[x] # NoBuf
        PROVE  x = y
    BY <2>5, <2>1, <2>2
  <2>6. \A s, u \in Sockets : s # u => inAlloc'[s] \cap inAlloc'[u] = {}
    BY <2>1
  <2>7. QED BY <2>3, <2>4, <2>5, <2>6
<1>4. ASSUME NEW c \in Creators, PushBatch(c)
      PROVE  InputsConserved'
  BY <1>4 DEF PushBatch, InputsConserved
<1>5. ASSUME NEW p \in Processors, ProcessorExit(p)
      PROVE  InputsConserved'
  BY <1>5 DEF ProcessorExit, InputsConserved
<1>6. ASSUME NEW p \in Processors, NEW t \in Tops, PopInput(p, t)
      PROVE  InputsConserved'
  BY <1>6 DEF PopInput, InputsConserved
<1>7. ASSUME NEW p \in Processors, NEW t \in Tops, TakeResult(p, t)
      PROVE  InputsConserved'
  BY <1>7 DEF TakeResult, InputsConserved
<1>8. ASSUME NEW p \in Processors, NEW t \in Tops, PushOutput(p, t)
      PROVE  InputsConserved'
  BY <1>8 DEF PushOutput, InputsConserved
<1>9. ASSUME NEW r \in ResultThreads, RecordResult(r)
      PROVE  InputsConserved'
  BY <1>9 DEF RecordResult, InputsConserved
<1>10. ASSUME NEW r \in ResultThreads, ResultExit(r)
      PROVE  InputsConserved'
  BY <1>10 DEF ResultExit, InputsConserved
<1>11. ASSUME NEW r \in ResultThreads, NEW t \in Tops, PopOutput(r, t)
      PROVE  InputsConserved'
  BY <1>11 DEF PopOutput, InputsConserved
<1>12. ASSUME NEW r \in ResultThreads, NEW t \in Tops, DropFailed(r, t)
      PROVE  InputsConserved'
  BY <1>12 DEF DropFailed, InputsConserved
<1>13. ASSUME NEW r \in ResultThreads, NEW t \in Tops, PushValidation(r, t)
      PROVE  InputsConserved'
  BY <1>13 DEF PushValidation, InputsConserved
<1>14. ASSUME NEW v \in Validators, ValidatorExit(v)
      PROVE  InputsConserved'
  BY <1>14 DEF ValidatorExit, InputsConserved
<1>15. ASSUME NEW v \in Validators, NEW t \in Tops, PopValidation(v, t)
      PROVE  InputsConserved'
  BY <1>15 DEF PopValidation, InputsConserved
<1>16. ASSUME NEW v \in Validators, NEW t \in Tops, FreeInput(v, t)
      PROVE  InputsConserved'
  <2>1. inp[t] \in InputBufs /\ SocketOf[v] \in Sockets
    BY <1>16 DEF FreeInput, JobInv, Threads
  <2>2. QED BY SMTT(20), <1>16, <2>1 DEF FreeInput
<1>17. ASSUME NEW v \in Validators, NEW t \in Tops, FreeResult(v, t)
      PROVE  InputsConserved'
  BY <1>17 DEF FreeResult, InputsConserved
<1>18. ASSUME CloseInput
      PROVE  InputsConserved'
  BY <1>18 DEF CloseInput, InputsConserved
<1>19. ASSUME NEW s \in Sockets, CloseOutput(s)
      PROVE  InputsConserved'
  BY <1>19 DEF CloseOutput, InputsConserved
<1>20. ASSUME NEW s \in Sockets, CloseValidation(s)
      PROVE  InputsConserved'
  BY <1>20 DEF CloseValidation, InputsConserved
<1>21. ASSUME Return
      PROVE  InputsConserved'
  BY <1>21 DEF Return, InputsConserved
<1>22. ASSUME UNCHANGED vars
      PROVE  InputsConserved'
  BY <1>22 DEF vars, InputsConserved
<1>23. QED
  BY <1>1, <1>2, <1>3, <1>4, <1>5, <1>6, <1>7, <1>8, <1>9, <1>10, <1>11,
     <1>12, <1>13, <1>14, <1>15, <1>16, <1>17, <1>18, <1>19, <1>20, <1>21, <1>22
     DEF Next, CreatorStep, ProcessorStep, ResultStep, ValidatorStep, CloseStep, Terminated

\* Nor are result buffers.
LEMMA ResultsStep ==
  ASSUME TypeOK, JobInv, ResultsConserved, [Next]_vars
  PROVE  ResultsConserved'
<1> USE ThreadsAssumption, BuffersAssumption DEF TypeOK, ResultsConserved, jobVars, bufVars, closeVars, resultVars, endVars, Move, MoveAll, Exit, At, Held
<1>1. ASSUME NEW c \in Creators, Claim(c)
      PROVE  ResultsConserved'
  BY <1>1 DEF Claim, ResultsConserved
<1>2. ASSUME NEW c \in Creators, CreatorExit(c)
      PROVE  ResultsConserved'
  BY <1>2 DEF CreatorExit, ResultsConserved
<1>3. ASSUME NEW c \in Creators, TakeInputs(c)
      PROVE  ResultsConserved'
  BY <1>3 DEF TakeInputs, ResultsConserved
<1>4. ASSUME NEW c \in Creators, PushBatch(c)
      PROVE  ResultsConserved'
  BY <1>4 DEF PushBatch, ResultsConserved
<1>5. ASSUME NEW p \in Processors, ProcessorExit(p)
      PROVE  ResultsConserved'
  BY <1>5 DEF ProcessorExit, ResultsConserved
<1>6. ASSUME NEW p \in Processors, NEW t \in Tops, PopInput(p, t)
      PROVE  ResultsConserved'
  BY <1>6 DEF PopInput, ResultsConserved
<1>7. ASSUME NEW p \in Processors, NEW t \in Tops, TakeResult(p, t)
      PROVE  ResultsConserved'
  <2>1. ContextOf(p, t) \in Sockets
    BY <1>7, ContextIsSocket DEF TakeResult
  <2>2. PICK b \in resAlloc[ContextOf(p, t)] :
          /\ res' = [res EXCEPT ![t] = b]
          /\ resAlloc' = [resAlloc EXCEPT ![ContextOf(p, t)] = @ \ {b}]
    BY <1>7 DEF TakeResult
  <2>3. b \in ResultBufs /\ res[t] = NoBuf
    BY <1>7, <2>1, <2>2 DEF TakeResult, JobInv, Early
  <2>4. QED BY <1>7, <2>1, <2>2, <2>3
<1>8. ASSUME NEW p \in Processors, NEW t \in Tops, PushOutput(p, t)
      PROVE  ResultsConserved'
  BY <1>8 DEF PushOutput, ResultsConserved
<1>9. ASSUME NEW r \in ResultThreads, RecordResult(r)
      PROVE  ResultsConserved'
  BY <1>9 DEF RecordResult, ResultsConserved
<1>10. ASSUME NEW r \in ResultThreads, ResultExit(r)
      PROVE  ResultsConserved'
  BY <1>10 DEF ResultExit, ResultsConserved
<1>11. ASSUME NEW r \in ResultThreads, NEW t \in Tops, PopOutput(r, t)
      PROVE  ResultsConserved'
  BY <1>11 DEF PopOutput, ResultsConserved
<1>12. ASSUME NEW r \in ResultThreads, NEW t \in Tops, DropFailed(r, t)
      PROVE  ResultsConserved'
  BY <1>12 DEF DropFailed, ResultsConserved
<1>13. ASSUME NEW r \in ResultThreads, NEW t \in Tops, PushValidation(r, t)
      PROVE  ResultsConserved'
  BY <1>13 DEF PushValidation, ResultsConserved
<1>14. ASSUME NEW v \in Validators, ValidatorExit(v)
      PROVE  ResultsConserved'
  BY <1>14 DEF ValidatorExit, ResultsConserved
<1>15. ASSUME NEW v \in Validators, NEW t \in Tops, PopValidation(v, t)
      PROVE  ResultsConserved'
  BY <1>15 DEF PopValidation, ResultsConserved
<1>16. ASSUME NEW v \in Validators, NEW t \in Tops, FreeInput(v, t)
      PROVE  ResultsConserved'
  BY <1>16 DEF FreeInput, ResultsConserved
<1>17. ASSUME NEW v \in Validators, NEW t \in Tops, FreeResult(v, t)
      PROVE  ResultsConserved'
  <2>1. res[t] \in ResultBufs /\ SocketOf[v] \in Sockets
    BY <1>17 DEF FreeResult, JobInv, Threads, Early
  <2>2. QED BY <1>17, <2>1 DEF FreeResult
<1>18. ASSUME CloseInput
      PROVE  ResultsConserved'
  BY <1>18 DEF CloseInput, ResultsConserved
<1>19. ASSUME NEW s \in Sockets, CloseOutput(s)
      PROVE  ResultsConserved'
  BY <1>19 DEF CloseOutput, ResultsConserved
<1>20. ASSUME NEW s \in Sockets, CloseValidation(s)
      PROVE  ResultsConserved'
  BY <1>20 DEF CloseValidation, ResultsConserved
<1>21. ASSUME Return
      PROVE  ResultsConserved'
  BY <1>21 DEF Return, ResultsConserved
<1>22. ASSUME UNCHANGED vars
      PROVE  ResultsConserved'
  BY <1>22 DEF vars, ResultsConserved
<1>23. QED
  BY <1>1, <1>2, <1>3, <1>4, <1>5, <1>6, <1>7, <1>8, <1>9, <1>10, <1>11,
     <1>12, <1>13, <1>14, <1>15, <1>16, <1>17, <1>18, <1>19, <1>20, <1>21, <1>22
     DEF Next, CreatorStep, ProcessorStep, ResultStep, ValidatorStep, CloseStep, Terminated

\* With getNUMAForBuf, a job meets only threads of the socket its buffers are from,
\* but for the processors.
LEMMA HomeStep ==
  ASSUME TypeOK, JobInv, ShutdownInv, HomeInv, ~OwnSocket, [Next]_vars
  PROVE  HomeInv'
<1> USE ThreadsAssumption, BuffersAssumption DEF TypeOK, JobInv, HomeInv, BuffersComeHome, Threads, Early, jobVars, bufVars, closeVars, resultVars, endVars, Move, MoveAll, Exit, At, Held
<1>1. ASSUME NEW c \in Creators, Claim(c)
      PROVE  HomeInv'
  <2>1. \A x \in Tops : nextTop <= x => stage[x] = "unclaimed" /\ inp[x] = NoBuf /\ res[x] = NoBuf
    BY DEF ShutdownInv
  <2>2. QED BY <1>1, <2>1 DEF Claim
<1>2. ASSUME NEW c \in Creators, CreatorExit(c)
      PROVE  HomeInv'
  BY <1>2 DEF CreatorExit, HomeInv
<1>3. ASSUME NEW c \in Creators, TakeInputs(c)
      PROVE  HomeInv'
  <2>1. PICK f \in Injection(At("claimed", c), inAlloc[SocketOf[c]]) :
          /\ inp' = [x \in Tops |-> IF x \in At("claimed", c) THEN f[x] ELSE inp[x]]
          /\ inAlloc' = [inAlloc EXCEPT ![SocketOf[c]] = @ \ {f[x] : x \in At("claimed", c)}]
    BY <1>3 DEF TakeInputs
  <2>2. /\ SocketOf[c] \in Sockets /\ inAlloc[SocketOf[c]] \subseteq InputBufs
        /\ \A x \in At("claimed", c) : f[x] \in inAlloc[SocketOf[c]] /\ f[x] # NoBuf
        /\ \A x, y \in At("claimed", c) : f[x] = f[y] => x = y
    BY ONLY <2>1, c \in Creators, TypeOK, JobInv, BatchOfInputs
  <2>3. \A x \in At("claimed", c) : inp'[x] = f[x] /\ HomeOf[f[x]] = SocketOf[c]
    BY <2>1, <2>2
  <2>4. \A x \in Tops \ At("claimed", c) : inp'[x] = inp[x]
    BY <2>1
  <2>5. \A s \in Sockets : inAlloc'[s] \subseteq inAlloc[s]
    BY <2>1, <2>2
  <2>6. QED BY <1>3, <2>3, <2>4, <2>5 DEF TakeInputs
<1>4. ASSUME NEW c \in Creators, PushBatch(c)
      PROVE  HomeInv'
  BY <1>4 DEF PushBatch, HomeInv
<1>5. ASSUME NEW p \in Processors, ProcessorExit(p)
      PROVE  HomeInv'
  BY <1>5 DEF ProcessorExit, HomeInv
<1>6. ASSUME NEW p \in Processors, NEW t \in Tops, PopInput(p, t)
      PROVE  HomeInv'
  BY <1>6 DEF PopInput, HomeInv
<1>7. ASSUME NEW p \in Processors, NEW t \in Tops, TakeResult(p, t)
      PROVE  HomeInv'
  <2>1. ContextOf(p, t) \in Sockets
    BY <1>7, ContextIsSocket DEF TakeResult
  <2>2. PICK b \in resAlloc[ContextOf(p, t)] :
          /\ res' = [res EXCEPT ![t] = b]
          /\ resAlloc' = [resAlloc EXCEPT ![ContextOf(p, t)] = @ \ {b}]
    BY <1>7 DEF TakeResult
  <2>3. b \in ResultBufs /\ res[t] = NoBuf
    BY <1>7, <2>1, <2>2 DEF TakeResult, JobInv, Early
  <2>4. HomeOf[b] = HomeOf[inp[t]]
    BY <2>1, <2>2 DEF ContextOf
  <2>5. \A s \in Sockets : resAlloc'[s] \subseteq resAlloc[s]
    BY <2>1, <2>2
  <2>6. QED BY <1>7, <2>2, <2>4, <2>5 DEF TakeResult
<1>8. ASSUME NEW p \in Processors, NEW t \in Tops, PushOutput(p, t)
      PROVE  HomeInv'
  <2>1. ContextOf(p, t) = HomeOf[inp[t]]
    BY DEF ContextOf
  <2>2. QED BY <1>8, <2>1 DEF PushOutput
<1>9. ASSUME NEW r \in ResultThreads, RecordResult(r)
      PROVE  HomeInv'
  BY <1>9 DEF RecordResult, HomeInv
<1>10. ASSUME NEW r \in ResultThreads, ResultExit(r)
      PROVE  HomeInv'
  BY <1>10 DEF ResultExit, HomeInv
<1>11. ASSUME NEW r \in ResultThreads, NEW t \in Tops, PopOutput(r, t)
      PROVE  HomeInv'
  BY <1>11 DEF PopOutput, HomeInv
<1>12. ASSUME NEW r \in ResultThreads, NEW t \in Tops, DropFailed(r, t)
      PROVE  HomeInv'
  BY <1>12 DEF DropFailed, HomeInv
<1>13. ASSUME NEW r \in ResultThreads, NEW t \in Tops, PushValidation(r, t)
      PROVE  HomeInv'
  BY <1>13 DEF PushValidation, HomeInv
<1>14. ASSUME NEW v \in Validators, ValidatorExit(v)
      PROVE  HomeInv'
  BY <1>14 DEF ValidatorExit, HomeInv
<1>15. ASSUME NEW v \in Validators, NEW t \in Tops, PopValidation(v, t)
      PROVE  HomeInv'
  BY <1>15 DEF PopValidation, HomeInv
<1>16. ASSUME NEW v \in Validators, NEW t \in Tops, FreeInput(v, t)
      PROVE  HomeInv'
  BY <1>16 DEF FreeInput, HomeInv
<1>17. ASSUME NEW v \in Validators, NEW t \in Tops, FreeResult(v, t)
      PROVE  HomeInv'
  BY <1>17 DEF FreeResult, HomeInv
<1>18. ASSUME CloseInput
      PROVE  HomeInv'
  BY <1>18 DEF CloseInput, HomeInv
<1>19. ASSUME NEW s \in Sockets, CloseOutput(s)
      PROVE  HomeInv'
  BY <1>19 DEF CloseOutput, HomeInv
<1>20. ASSUME NEW s \in Sockets, CloseValidation(s)
      PROVE  HomeInv'
  BY <1>20 DEF CloseValidation, HomeInv
<1>21. ASSUME Return
      PROVE  HomeInv'
  BY <1>21 DEF Return, HomeInv
<1>22. ASSUME UNCHANGED vars
      PROVE  HomeInv'
  BY <1>22 DEF vars, HomeInv
<1>23. QED
  BY SMTT(20), <1>1, <1>2, <1>3, <1>4, <1>5, <1>6, <1>7, <1>8, <1>9, <1>10, <1>11,
     <1>12, <1>13, <1>14, <1>15, <1>16, <1>17, <1>18, <1>19, <1>20, <1>21, <1>22
     DEF Next, CreatorStep, ProcessorStep, ResultStep, ValidatorStep, CloseStep, Terminated

\* Threads exit empty-handed, and queues close from front to back.
LEMMA ShutdownStep ==
  ASSUME TypeOK, JobInv, ShutdownInv, [Next]_vars
  PROVE  ShutdownInv'
<1> USE ThreadsAssumption, SizesAssumption, StaffAssumption DEF TypeOK, JobInv, ShutdownInv, Threads, Early, Drained, QueuedTops, jobVars, bufVars, closeVars, resultVars, endVars, Move, MoveAll, Exit, At, Held
<1>1. ASSUME NEW c \in Creators, Claim(c)
      PROVE  ShutdownInv'
  <2>1. \A x \in Tops : stage'[x] = "unclaimed" <=> nextTop' <= x
    BY <1>1 DEF Claim, Tops
  <2>2. \A x \in Tops : stage'[x] = "claimed" \/ (stage'[x] = stage[x] /\ owner'[x] = owner[x])
    BY ONLY <1>1, TypeOK DEF Claim
  <2>3. \A x \in Tops : owner'[x] \notin exited'
    BY <1>1 DEF Claim
  <2>4. c \notin exited
    BY <1>1 DEF Claim
  <2>5. QED BY <1>1, <2>1, <2>2, <2>3, <2>4 DEF Claim
<1>2. ASSUME NEW c \in Creators, CreatorExit(c)
      PROVE  ShutdownInv'
  <2>1. \A x \in Tops : stage'[x] = "unclaimed" <=> nextTop' <= x
    BY <1>2 DEF CreatorExit, Tops
  <2>2. nextTop' >= NumTops
    BY <1>2 DEF CreatorExit
  <2>3. QED BY <1>2, <2>1, <2>2 DEF CreatorExit
<1>3. ASSUME NEW c \in Creators, TakeInputs(c)
      PROVE  ShutdownInv'
  BY <1>3 DEF TakeInputs, ShutdownInv
<1>4. ASSUME NEW c \in Creators, PushBatch(c)
      PROVE  ShutdownInv'
  BY <1>4 DEF PushBatch, ShutdownInv
<1>5. ASSUME NEW p \in Processors, ProcessorExit(p)
      PROVE  ShutdownInv'
  BY <1>5 DEF ProcessorExit, ShutdownInv
<1>6. ASSUME NEW p \in Processors, NEW t \in Tops, PopInput(p, t)
      PROVE  ShutdownInv'
  BY <1>6 DEF PopInput, ShutdownInv
<1>7. ASSUME NEW p \in Processors, NEW t \in Tops, TakeResult(p, t)
      PROVE  ShutdownInv'
  BY <1>7 DEF TakeResult, ShutdownInv
<1>8. ASSUME NEW p \in Processors, NEW t \in Tops, PushOutput(p, t)
      PROVE  ShutdownInv'
  <2>1. outClosed = {}
    BY <1>8 DEF PushOutput
  <2>2. ResultThreads \cap exited = {}
    BY ONLY <2>1, ShutdownInv DEF ShutdownInv
  <2>3. ContextOf(p, t) \in Sockets
    BY <1>8, ContextIsSocket DEF PushOutput
  <2>4. QED BY <1>8, <2>1, <2>2, <2>3 DEF PushOutput
<1>9. ASSUME NEW r \in ResultThreads, RecordResult(r)
      PROVE  ShutdownInv'
  BY <1>9 DEF RecordResult, ShutdownInv
<1>10. ASSUME NEW r \in ResultThreads, ResultExit(r)
      PROVE  ShutdownInv'
  BY <1>10 DEF ResultExit, ShutdownInv
<1>11. ASSUME NEW r \in ResultThreads, NEW t \in Tops, PopOutput(r, t)
      PROVE  ShutdownInv'
  BY <1>11 DEF PopOutput, ShutdownInv
<1>12. ASSUME NEW r \in ResultThreads, NEW t \in Tops, DropFailed(r, t)
      PROVE  ShutdownInv'
  BY <1>12 DEF DropFailed, ShutdownInv
<1>13. ASSUME NEW r \in ResultThreads, NEW t \in Tops, PushValidation(r, t)
      PROVE  ShutdownInv'
  BY <1>13 DEF PushValidation, ShutdownInv
<1>14. ASSUME NEW v \in Validators, ValidatorExit(v)
      PROVE  ShutdownInv'
  BY <1>14 DEF ValidatorExit, ShutdownInv
<1>15. ASSUME NEW v \in Validators, NEW t \in Tops, PopValidation(v, t)
      PROVE  ShutdownInv'
  BY <1>15 DEF PopValidation, ShutdownInv
<1>16. ASSUME NEW v \in Validators, NEW t \in Tops, FreeInput(v, t)
      PROVE  ShutdownInv'
  BY <1>16 DEF FreeInput, ShutdownInv
<1>17. ASSUME NEW v \in Validators, NEW t \in Tops, FreeResult(v, t)
      PROVE  ShutdownInv'
  BY <1>17 DEF FreeResult, ShutdownInv
<1>18. ASSUME CloseInput
      PROVE  ShutdownInv'
  BY <1>18 DEF CloseInput, ShutdownInv
<1>19. ASSUME NEW s \in Sockets, CloseOutput(s)
      PROVE  ShutdownInv'
  BY <1>19 DEF CloseOutput, ShutdownInv
<1>20. ASSUME NEW s \in Sockets, CloseValidation(s)
      PROVE  ShutdownInv'
  BY <1>20 DEF CloseValidation, ShutdownInv
<1>21. ASSUME Return
      PROVE  ShutdownInv'
  BY <1>21 DEF Return, ShutdownInv
<1>22. ASSUME UNCHANGED vars
      PROVE  ShutdownInv'
  BY <1>22 DEF vars, ShutdownInv
<1>23. QED
  BY <1>1, <1>2, <1>3, <1>4, <1>5, <1>6, <1>7, <1>8, <1>9, <1>10, <1>11,
     <1>12, <1>13, <1>14, <1>15, <1>16, <1>17, <1>18, <1>19, <1>20, <1>21, <1>22
     DEF Next, CreatorStep, ProcessorStep, ResultStep, ValidatorStep, CloseStep, Terminated

LEMMA NoTopIsNone == NoTop \notin Tops
  BY DEF Tops, NoTop

\* What is recorded depends on the vector alone.
LEMMA RecordedKept == UNCHANGED results => UNCHANGED Recorded
  BY DEF Recorded

\* fetch_add never hands out an entry beyond the vector: the recorded tops and
\* the one about to be recorded are distinct.
LEMMA RoomForResult ==
  ASSUME TypeOK, EntryInv, NEW t \in Tops, t \notin Recorded
  PROVE  /\ slots \in Tops /\ results[slots] = NoTop
         /\ Cardinality(Recorded \cup {t}) = slots + 1
<1>1. IsFiniteSet(Recorded) /\ Recorded \subseteq Tops
  BY TopsFinite, FS_Subset DEF Recorded
<1>2. Cardinality(Recorded \cup {t}) = slots + 1
  BY <1>1, FS_AddElement DEF EntryInv
<1>3. Cardinality(Recorded \cup {t}) <= NumTops
  BY <1>1, TopsFinite, FS_Subset
<1>4. slots \in Tops
  BY <1>2, <1>3, SizesAssumption DEF TypeOK, Tops
<1>5. QED BY <1>2, <1>4, SizesAssumption DEF EntryInv, TypeOK, Tops

\* What RecordResult does to the vector.
LEMMA OneMoreEntry ==
  ASSUME TypeOK, ResultInv, EntryInv, NEW r \in ResultThreads, RecordResult(r)
  PROVE  /\ pending[r] \in Tops \ Recorded /\ slots \in Tops /\ results[slots] = NoTop
         /\ Cardinality(Recorded \cup {pending[r]}) = slots + 1
         /\ Recorded' = Recorded \cup {pending[r]}
<1>1. pending[r] \in Tops \ Recorded
  BY DEF RecordResult, ResultInv, TypeOK
<1>2. /\ slots \in Tops /\ results[slots] = NoTop
      /\ Cardinality(Recorded \cup {pending[r]}) = slots + 1
  BY <1>1, RoomForResult
<1>3. Recorded' = Recorded \cup {pending[r]}
  BY <1>1, <1>2, NoTopIsNone DEF RecordResult, Recorded, TypeOK
<1>4. QED BY <1>1, <1>2, <1>3

LEMMA EntryStep ==
  ASSUME TypeOK, ResultInv, EntryInv, [Next]_vars
  PROVE  EntryInv'
<1>1. ASSUME NEW r \in ResultThreads, RecordResult(r)
      PROVE  EntryInv'
  <2>1. /\ pending[r] \in Tops \ Recorded /\ slots \in Tops /\ results[slots] = NoTop
        /\ Cardinality(Recorded \cup {pending[r]}) = slots + 1
        /\ Recorded' = Recorded \cup {pending[r]}
    BY <1>1, OneMoreEntry
  <2>2. results' = [results EXCEPT ![slots] = pending[r]] /\ slots' = slots + 1
    BY <1>1 DEF RecordResult
  <2>3. slots' = Cardinality(Recorded')
    BY <2>1, <2>2
  <2>4. \A i \in Tops : results'[i] # NoTop <=> i < slots'
    BY <2>1, <2>2, NoTopIsNone, SizesAssumption DEF TypeOK, EntryInv, Tops
  <2>5. \A i \in Tops : results[i] # pending[r]
    BY <2>1 DEF Recorded
  <2>6. \A i, j \in Tops : results'[i] = results'[j] /\ i < slots' => i = j
    BY <2>1, <2>2, <2>5, SizesAssumption DEF TypeOK, EntryInv, Tops
  <2>7. QED BY <2>3, <2>4, <2>6 DEF EntryInv
<1>2. ASSUME UNCHANGED <<results, slots>>
      PROVE  EntryInv'
  BY <1>2, RecordedKept DEF EntryInv
<1>3. (\E r \in ResultThreads : RecordResult(r)) \/ UNCHANGED <<results, slots>>
  BY DEF Next, CreatorStep, ProcessorStep, ResultStep, ValidatorStep, CloseStep, Terminated, Return,
         Claim, CreatorExit, TakeInputs, PushBatch, PopInput, ProcessorExit, TakeResult, PushOutput,
         PopOutput, DropFailed, PushValidation, ResultExit, PopValidation, FreeInput, FreeResult,
         ValidatorExit, CloseInput, CloseOutput, CloseValidation, Exit, resultVars, vars
<1>4. QED BY <1>1, <1>2, <1>3

\* The results and the validation data are those of the jobs sent to validation.
LEMMA ResultStepInv ==
  ASSUME TypeOK, JobInv, ShutdownInv, ResultInv, EntryInv, [Next]_vars
  PROVE  ResultInv'
<1> USE ThreadsAssumption, RecordedKept DEF TypeOK, JobInv, ResultInv, Threads, Early, Late, jobVars, bufVars, closeVars, resultVars, endVars, Move, MoveAll, Exit, At, Held
<1>1. ASSUME NEW c \in Creators, Claim(c)
      PROVE  ResultInv'
  <2>1. \A x \in Tops : nextTop <= x => stage[x] = "unclaimed"
    BY DEF ShutdownInv
  <2>2. \A x \in Tops : (stage[x] = "unclaimed" /\ stage'[x] = "claimed" /\ owner'[x] = c)
                      \/ (stage'[x] = stage[x] /\ owner'[x] = owner[x])
    BY ONLY <1>1, <2>1, TypeOK DEF Claim
  <2>3. /\ Recorded' = Recorded
        /\ \A x \in Tops : stage'[x] \in Late <=> stage[x] \in Late
        /\ \A x \in Tops : owner'[x] \in ResultThreads => owner'[x] = owner[x]
    BY <1>1, <2>2 DEF Claim
  <2>4. QED BY ONLY <2>3, TypeOK, ResultInv, <1>1 DEF Claim, TypeOK, ResultInv, Recorded, resultVars
<1>2. ASSUME NEW c \in Creators, CreatorExit(c)
      PROVE  ResultInv'
  BY <1>2 DEF CreatorExit, ResultInv
<1>3. ASSUME NEW c \in Creators, TakeInputs(c)
      PROVE  ResultInv'
  <2>1. /\ Recorded' = Recorded
        /\ \A x \in Tops : stage'[x] \in Late <=> stage[x] \in Late
        /\ \A x \in Tops : owner'[x] \in ResultThreads => owner'[x] = owner[x]
    BY <1>3 DEF TakeInputs
  <2>2. QED BY ONLY <2>1, TypeOK, ResultInv, <1>3 DEF TakeInputs, TypeOK, ResultInv, Recorded, resultVars
<1>4. ASSUME NEW c \in Creators, PushBatch(c)
      PROVE  ResultInv'
  <2>1. /\ Recorded' = Recorded
        /\ \A x \in Tops : stage'[x] \in Late <=> stage[x] \in Late
        /\ \A x \in Tops : owner'[x] \in ResultThreads => owner'[x] = owner[x]
    BY <1>4 DEF PushBatch
  <2>2. QED BY ONLY <2>1, TypeOK, ResultInv, <1>4 DEF PushBatch, TypeOK, ResultInv, Recorded, resultVars
<1>5. ASSUME NEW p \in Processors, ProcessorExit(p)
      PROVE  ResultInv'
  BY <1>5 DEF ProcessorExit, ResultInv
<1>6. ASSUME NEW p \in Processors, NEW t \in Tops, PopInput(p, t)
      PROVE  ResultInv'
  BY <1>6 DEF PopInput, ResultInv
<1>7. ASSUME NEW p \in Processors, NEW t \in Tops, TakeResult(p, t)
      PROVE  ResultInv'
  BY <1>7 DEF TakeResult, ResultInv
<1>8. ASSUME NEW p \in Processors, NEW t \in Tops, PushOutput(p, t)
      PROVE  ResultInv'
  <2>1. ContextOf(p, t) \in Sockets
    BY <1>8, ContextIsSocket DEF PushOutput
  <2>2. QED BY <1>8, <2>1 DEF PushOutput
<1>9. ASSUME NEW r \in ResultThreads, RecordResult(r)
      PROVE  ResultInv'
  <2>1. /\ pending[r] \in Tops \ Recorded /\ stage[pending[r]] \in Late
        /\ pending' = [pending EXCEPT ![r] = NoTop]
        /\ UNCHANGED <<stage, owner, valSums>>
    BY <1>9 DEF RecordResult
  <2>2. Recorded' = Recorded \cup {pending[r]}
    BY <1>9, OneMoreEntry
  <2>3. \A x \in Tops : stage'[x] \in Late => x \in Recorded' \/ \E q \in ResultThreads : pending'[q] = x
    BY ONLY <2>1, <2>2, TypeOK, ResultInv DEF TypeOK, ResultInv
  <2>4. ASSUME NEW q \in ResultThreads, pending'[q] # NoTop
        PROVE  /\ stage'[pending'[q]] \in Late /\ pending'[q] \notin Recorded'
               /\ \A x \in Tops : owner'[x] # q
               /\ \A z \in ResultThreads : pending'[z] = pending'[q] => z = q
    BY ONLY <2>1, <2>2, <2>4, TypeOK, ResultInv DEF TypeOK, ResultInv
  <2>5. \A x \in Recorded' : stage'[x] \in Late
    BY ONLY <2>1, <2>2, ResultInv DEF ResultInv
  <2>6. QED BY <2>1, <2>3, <2>4, <2>5
<1>10. ASSUME NEW r \in ResultThreads, ResultExit(r)
      PROVE  ResultInv'
  BY <1>10 DEF ResultExit, ResultInv
<1>11. ASSUME NEW r \in ResultThreads, NEW t \in Tops, PopOutput(r, t)
      PROVE  ResultInv'
  BY <1>11 DEF PopOutput, ResultInv
<1>12. ASSUME NEW r \in ResultThreads, NEW t \in Tops, DropFailed(r, t)
      PROVE  ResultInv'
  BY <1>12 DEF DropFailed, ResultInv
<1>13. ASSUME NEW r \in ResultThreads, NEW t \in Tops, PushValidation(r, t)
      PROVE  ResultInv'
  <2>1. /\ owner[t] = r /\ stage[t] = "recording" /\ stage[t] \notin Late /\ t # NoTop
        /\ pending[r] = NoTop /\ t \notin Recorded /\ SocketOf[r] \notin ResultThreads
    BY <1>13 DEF PushValidation, Tops, NoTop
  <2>2. /\ stage' = [stage EXCEPT ![t] = "validation"] /\ owner' = [owner EXCEPT ![t] = SocketOf[r]]
        /\ pending' = [pending EXCEPT ![r] = t] /\ valSums' = [valSums EXCEPT ![r] = @ \cup {t}]
        /\ results' = results /\ slots' = slots
    BY <1>13 DEF PushValidation
  <2>3. \A q \in ResultThreads : pending[q] # t /\ t \notin valSums[q]
    BY <2>1
  <2>4. ASSUME NEW q \in ResultThreads, pending'[q] # NoTop
        PROVE  /\ stage'[pending'[q]] \in Late /\ pending'[q] \notin Recorded'
               /\ \A x \in Tops : owner'[x] # q
               /\ \A z \in ResultThreads : pending'[z] = pending'[q] => z = q
    <3>1. CASE q = r
      <4>1. \A x \in Tops : x # t => owner[x] # r
        BY <1>13 DEF PushValidation
      <4>2. QED BY <4>1, <3>1, <2>1, <2>2, <2>3
    <3>2. CASE q # r
      BY <3>2, <2>1, <2>2, <2>3, <2>4
    <3>3. QED BY <3>1, <3>2
  <2>5. \A x \in Tops : stage'[x] \in Late => x \in Recorded' \/ \E q \in ResultThreads : pending'[q] = x
    <3>1. pending'[r] = t /\ \A q \in ResultThreads : q # r => pending'[q] = pending[q]
      BY <2>2
    <3>2. \A q \in ResultThreads : pending[q] # NoTop => q # r
      BY <2>1
    <3>3. \A x \in Tops : x # t => stage'[x] = stage[x] /\ x # NoTop
      BY <2>2 DEF Tops, NoTop
    <3>4. QED BY <3>1, <3>2, <3>3, <2>2
  <2>6. \A x \in Recorded' : stage'[x] \in Late
    BY <2>1, <2>2
  <2>7. \A x \in Tops : stage'[x] \in Late <=> \E q \in ResultThreads : x \in valSums'[q]
    BY <2>1, <2>2
  <2>8. \A x \in Tops : \A z, q \in ResultThreads : x \in valSums'[z] /\ x \in valSums'[q] => z = q
    BY <2>1, <2>2, <2>3
  <2>9. \A x, y \in Tops : owner'[x] = owner'[y] /\ owner'[x] \in ResultThreads => x = y
    BY <2>1, <2>2
  <2>10. QED BY <2>2, <2>4, <2>5, <2>6, <2>7, <2>8, <2>9
<1>14. ASSUME NEW v \in Validators, ValidatorExit(v)
      PROVE  ResultInv'
  BY <1>14 DEF ValidatorExit, ResultInv
<1>15. ASSUME NEW v \in Validators, NEW t \in Tops, PopValidation(v, t)
      PROVE  ResultInv'
  BY <1>15 DEF PopValidation, ResultInv
<1>16. ASSUME NEW v \in Validators, NEW t \in Tops, FreeInput(v, t)
      PROVE  ResultInv'
  BY <1>16 DEF FreeInput, ResultInv
<1>17. ASSUME NEW v \in Validators, NEW t \in Tops, FreeResult(v, t)
      PROVE  ResultInv'
  BY <1>17 DEF FreeResult, ResultInv
<1>18. ASSUME CloseInput
      PROVE  ResultInv'
  BY <1>18 DEF CloseInput, ResultInv
<1>19. ASSUME NEW s \in Sockets, CloseOutput(s)
      PROVE  ResultInv'
  BY <1>19 DEF CloseOutput, ResultInv
<1>20. ASSUME NEW s \in Sockets, CloseValidation(s)
      PROVE  ResultInv'
  BY <1>20 DEF CloseValidation, ResultInv
<1>21. ASSUME Return
      PROVE  ResultInv'
  BY <1>21 DEF Return, ResultInv
<1>22. ASSUME UNCHANGED vars
      PROVE  ResultInv'
  BY <1>22 DEF vars, ResultInv
<1>23. QED
  BY <1>1, <1>2, <1>3, <1>4, <1>5, <1>6, <1>7, <1>8, <1>9, <1>10, <1>11,
     <1>12, <1>13, <1>14, <1>15, <1>16, <1>17, <1>18, <1>19, <1>20, <1>21, <1>22
     DEF Next, CreatorStep, ProcessorStep, ResultStep, ValidatorStep, CloseStep, Terminated

\* pcoeffPipeline returns after all joins.
LEMMA ReturnStep ==
  ASSUME TypeOK, ReturnInv, [Next]_vars
  PROVE  ReturnInv'
<1> USE ThreadsAssumption DEF TypeOK, ReturnInv, Threads, jobVars, bufVars, closeVars, resultVars, endVars, Move, MoveAll, Exit, At, Held
<1>1. ASSUME NEW c \in Creators, Claim(c)
      PROVE  ReturnInv'
  BY <1>1 DEF Claim, ReturnInv
<1>2. ASSUME NEW c \in Creators, CreatorExit(c)
      PROVE  ReturnInv'
  BY <1>2 DEF CreatorExit, ReturnInv
<1>3. ASSUME NEW c \in Creators, TakeInputs(c)
      PROVE  ReturnInv'
  BY <1>3 DEF TakeInputs, ReturnInv
<1>4. ASSUME NEW c \in Creators, PushBatch(c)
      PROVE  ReturnInv'
  BY <1>4 DEF PushBatch, ReturnInv
<1>5. ASSUME NEW p \in Processors, ProcessorExit(p)
      PROVE  ReturnInv'
  BY <1>5 DEF ProcessorExit, ReturnInv
<1>6. ASSUME NEW p \in Processors, NEW t \in Tops, PopInput(p, t)
      PROVE  ReturnInv'
  BY <1>6 DEF PopInput, ReturnInv
<1>7. ASSUME NEW p \in Processors, NEW t \in Tops, TakeResult(p, t)
      PROVE  ReturnInv'
  BY <1>7 DEF TakeResult, ReturnInv
<1>8. ASSUME NEW p \in Processors, NEW t \in Tops, PushOutput(p, t)
      PROVE  ReturnInv'
  BY <1>8 DEF PushOutput, ReturnInv
<1>9. ASSUME NEW r \in ResultThreads, RecordResult(r)
      PROVE  ReturnInv'
  BY <1>9 DEF RecordResult, ReturnInv
<1>10. ASSUME NEW r \in ResultThreads, ResultExit(r)
      PROVE  ReturnInv'
  BY <1>10 DEF ResultExit, ReturnInv
<1>11. ASSUME NEW r \in ResultThreads, NEW t \in Tops, PopOutput(r, t)
      PROVE  ReturnInv'
  BY <1>11 DEF PopOutput, ReturnInv
<1>12. ASSUME NEW r \in ResultThreads, NEW t \in Tops, DropFailed(r, t)
      PROVE  ReturnInv'
  BY <1>12 DEF DropFailed, ReturnInv
<1>13. ASSUME NEW r \in ResultThreads, NEW t \in Tops, PushValidation(r, t)
      PROVE  ReturnInv'
  BY <1>13 DEF PushValidation, ReturnInv
<1>14. ASSUME NEW v \in Validators, ValidatorExit(v)
      PROVE  ReturnInv'
  BY <1>14 DEF ValidatorExit, ReturnInv
<1>15. ASSUME NEW v \in Validators, NEW t \in Tops, PopValidation(v, t)
      PROVE  ReturnInv'
  BY <1>15 DEF PopValidation, ReturnInv
<1>16. ASSUME NEW v \in Validators, NEW t \in Tops, FreeInput(v, t)
      PROVE  ReturnInv'
  BY <1>16 DEF FreeInput, ReturnInv
<1>17. ASSUME NEW v \in Validators, NEW t \in Tops, FreeResult(v, t)
      PROVE  ReturnInv'
  BY <1>17 DEF FreeResult, ReturnInv
<1>18. ASSUME CloseInput
      PROVE  ReturnInv'
  BY <1>18 DEF CloseInput, ReturnInv
<1>19. ASSUME NEW s \in Sockets, CloseOutput(s)
      PROVE  ReturnInv'
  BY <1>19 DEF CloseOutput, ReturnInv
<1>20. ASSUME NEW s \in Sockets, CloseValidation(s)
      PROVE  ReturnInv'
  BY <1>20 DEF CloseValidation, ReturnInv
<1>21. ASSUME Return
      PROVE  ReturnInv'
  BY <1>21 DEF Return, ReturnInv
<1>22. ASSUME UNCHANGED vars
      PROVE  ReturnInv'
  BY <1>22 DEF vars, ReturnInv
<1>23. QED
  BY <1>1, <1>2, <1>3, <1>4, <1>5, <1>6, <1>7, <1>8, <1>9, <1>10, <1>11,
     <1>12, <1>13, <1>14, <1>15, <1>16, <1>17, <1>18, <1>19, <1>20, <1>21, <1>22
     DEF Next, CreatorStep, ProcessorStep, ResultStep, ValidatorStep, CloseStep, Terminated


LEMMA CirculationInit == Init => CirculationInv
<1> SUFFICES ASSUME Init PROVE CirculationInv
  OBVIOUS
<1> USE ThreadsAssumption, BuffersAssumption, SizesAssumption DEF Init, HomeInputs, HomeResults
<1>1. TypeOK
  BY DEF TypeOK, Tops
<1>2. JobInv
  BY DEF JobInv, Early
<1>3. InputsConserved /\ ResultsConserved
  BY DEF InputsConserved, ResultsConserved
<1>4. ShutdownInv
  BY DEF ShutdownInv, Tops, Threads
<1>5. ResultInv /\ EntryInv
  <2>1. Cardinality({}) = 0
    BY FS_EmptySet
  <2>2. \A t \in Tops : owner[t] \notin ResultThreads
    BY DEF Threads
  <2>3. Recorded = {}
    BY DEF Recorded, Tops, NoTop
  <2>4. EntryInv
    BY <2>1, <2>3 DEF EntryInv, Tops
  <2>5. \A t \in Tops : stage[t] \notin Late
    BY DEF Late
  <2>6. QED BY <2>2, <2>3, <2>4, <2>5 DEF ResultInv
<1>6. HomeInv
  BY DEF HomeInv, BuffersComeHome, Threads
<1>7. ReturnInv
  BY DEF ReturnInv
<1>8. QED BY <1>1, <1>2, <1>3, <1>4, <1>5, <1>6, <1>7 DEF CirculationInv

LEMMA CirculationStep == CirculationInv /\ [Next]_vars => CirculationInv'
  BY TypeStep, JobStep, InputsStep, ResultsStep, HomeStep, ShutdownStep, ResultStepInv, EntryStep, ReturnStep
     DEF CirculationInv

THEOREM CirculationHolds == Spec => []CirculationInv
  BY CirculationInit, CirculationStep, PTL DEF Spec

\* Every variable keeps its type.
THEOREM PipelineTypeOK == Spec => []TypeOK
  BY CirculationHolds, PTL DEF CirculationInv

\* No input buffer is ever lost, or in two places, whoever runs when.
THEOREM BuffersConserved == Spec => []InputsConserved
  BY CirculationHolds, PTL DEF CirculationInv

\* Nor is a result buffer, although a processor takes it and a validator frees it.
THEOREM ResultBuffersConserved == Spec => []ResultsConserved
  BY CirculationHolds, PTL DEF CirculationInv

\* With getNUMAForBuf every buffer is freed into the allocator it came from.
THEOREM BuffersReturnHome ==
  ASSUME ~OwnSocket
  PROVE  Spec => []BuffersComeHome
<1>1. CirculationInv => BuffersComeHome
  BY DEF CirculationInv, HomeInv
<1>2. QED BY <1>1, CirculationHolds, PTL

LEMMA CascadeFollows == CirculationInv => CloseCascade
<1> SUFFICES ASSUME CirculationInv PROVE CloseCascade
  OBVIOUS
<1> USE ThreadsAssumption, StaffAssumption DEF CirculationInv, TypeOK, Threads
<1>1. inClosed => \A t \in Tops : stage[t] \notin Early
  <2>1. SUFFICES ASSUME inClosed, NEW t \in Tops
                 PROVE  stage[t] \notin Early
    OBVIOUS
  <2>2. Creators \subseteq exited
    BY <2>1 DEF ShutdownInv
  <2>3. nextTop >= NumTops
    BY <2>2 DEF ShutdownInv
  <2>4. ~(nextTop <= t)
    BY <2>3, SizesAssumption DEF Tops
  <2>5. stage[t] # "unclaimed"
    BY <2>4 DEF ShutdownInv
  <2>6. stage[t] \notin {"claimed", "generating"}
    BY <2>2 DEF ShutdownInv, JobInv
  <2>7. QED BY <2>5, <2>6 DEF Early
<1>2. outClosed # {} => \A t \in Tops : stage[t] \notin Early \cup {"queued", "processing", "computing"}
  <2>1. SUFFICES ASSUME outClosed # {}
                 PROVE  \A t \in Tops : stage[t] \notin Early \cup {"queued", "processing", "computing"}
    OBVIOUS
  <2>2. Processors \subseteq exited
    BY <2>1 DEF ShutdownInv
  <2>3. inClosed /\ \A t \in Tops : stage[t] # "queued"
    BY <2>2 DEF ShutdownInv
  <2>4. \A t \in Tops : stage[t] \notin {"processing", "computing"}
    BY <2>2 DEF ShutdownInv, JobInv
  <2>5. QED BY <1>1, <2>3, <2>4
<1>3. valClosed # {} => \A t \in Tops : stage[t] \in Late \cup {"dropped"}
  <2>1. SUFFICES ASSUME valClosed # {}
                 PROVE  \A t \in Tops : stage[t] \in Late \cup {"dropped"}
    OBVIOUS
  <2>2. ResultThreads \subseteq exited
    BY <2>1 DEF ShutdownInv
  <2>3. outClosed # {}
    BY <2>1, <2>2 DEF ShutdownInv
  <2>4. \A t \in Tops : stage[t] # "output"
    BY <2>2 DEF ShutdownInv, JobInv
  <2>5. \A t \in Tops : stage[t] # "recording"
    BY <2>2 DEF ShutdownInv, JobInv
  <2>6. QED BY <1>2, <2>3, <2>4, <2>5 DEF Early, Late
<1>4. QED BY <1>1, <1>2, <1>3 DEF CloseCascade, Early, Late

\* A queue closes only when nothing can be pushed to it any more.
THEOREM QueuesCloseInOrder == Spec => []CloseCascade
  BY CirculationHolds, CascadeFollows, PTL

\* A recorded top has one entry of the results.
LEMMA OneEntry ==
  ASSUME TypeOK, EntryInv, NEW t \in Recorded
  PROVE  \E i \in Tops : EntriesOf(t) = {i}
<1>1. PICK i \in Tops : results[i] = t
  BY DEF Recorded
<1>2. t # NoTop
  BY DEF Recorded, Tops, NoTop
<1>3. \A j \in Tops : results[j] = t => j = i
  BY <1>1, <1>2 DEF EntryInv
<1>4. EntriesOf(t) = {i}
  BY <1>1, <1>3 DEF EntriesOf
<1>5. QED BY <1>4

LEMMA AllTopsFollow ==
  ASSUME ~MayFail
  PROVE  CirculationInv => AllTopsAtReturn
<1> SUFFICES ASSUME CirculationInv, returned PROVE AllTopsAtReturn
  BY DEF AllTopsAtReturn
<1> USE ThreadsAssumption, StaffAssumption DEF CirculationInv, TypeOK, Threads
<1>1. exited = Threads /\ valClosed # {}
  BY DEF ReturnInv
<1>2. \A t \in Tops : stage[t] \in Late
  BY <1>1, CascadeFollows DEF CloseCascade, ReturnInv, Late
<1>3. \A t \in Tops : stage[t] = "done"
  <2>1. \A t \in Tops : stage[t] \notin {"validating", "freeing"}
    BY <1>1 DEF ShutdownInv, JobInv
  <2>2. \A t \in Tops : stage[t] # "validation"
    BY <1>1 DEF ShutdownInv, JobInv
  <2>3. QED BY <1>2, <2>1, <2>2 DEF Late
<1>4. \A r \in ResultThreads : pending[r] = NoTop
  BY <1>1 DEF ShutdownInv
<1>5. \A t \in Tops : t # NoTop
  BY DEF Tops, NoTop
<1>6. ASSUME NEW t \in Tops
      PROVE  \E i \in Tops : EntriesOf(t) = {i}
  BY <1>2, <1>4, <1>5, OneEntry DEF ResultInv
<1>7. ASSUME NEW t \in Tops
      PROVE  \E r \in ResultThreads :
               t \in valSums[r] /\ \A q \in ResultThreads \ {r} : t \notin valSums[q]
  BY <1>2 DEF ResultInv
<1>8. \A t \in Tops : inp[t] = NoBuf /\ res[t] = NoBuf
  BY <1>3 DEF JobInv
<1>9. QED BY <1>6, <1>7, <1>8 DEF AllTopsAtReturn

\* When no result carries error bits, pcoeffPipeline returns one result for
\* each top, all of them in the validation data, and all buffers are back.
THEOREM ReturnsAllTops ==
  ASSUME ~MayFail
  PROVE  Spec => []AllTopsAtReturn
  BY CirculationHolds, AllTopsFollow, PTL

\* At the end every job is done or was dropped, and every result is recorded.
LEMMA EndOfJobs ==
  ASSUME CirculationInv, returned
  PROVE  /\ \A t \in Tops : stage[t] \in {"done", "dropped"}
         /\ \A r \in ResultThreads : pending[r] = NoTop
<1> USE ThreadsAssumption, StaffAssumption DEF CirculationInv, TypeOK, Threads
<1>1. exited = Threads /\ valClosed # {}
  BY DEF ReturnInv
<1>2. \A t \in Tops : stage[t] \in Late \cup {"dropped"}
  BY <1>1, CascadeFollows DEF CloseCascade, Late
<1>3. \A t \in Tops : stage[t] \notin {"validating", "freeing"}
  BY <1>1 DEF ShutdownInv, JobInv
<1>4. \A t \in Tops : stage[t] # "validation"
  BY <1>1 DEF ShutdownInv, JobInv
<1>5. \A r \in ResultThreads : pending[r] = NoTop
  BY <1>1 DEF ShutdownInv
<1>6. QED BY <1>2, <1>3, <1>4, <1>5 DEF Late

LEMMA DroppedFollow == CirculationInv => DroppedLeaveBlanks
<1> SUFFICES ASSUME CirculationInv, returned PROVE DroppedLeaveBlanks
  BY DEF DroppedLeaveBlanks
<1> USE DEF CirculationInv, TypeOK
<1> DEFINE dropped == {t \in Tops : stage[t] = "dropped"}
<1>1. /\ \A t \in Tops : stage[t] \in {"done", "dropped"}
      /\ \A r \in ResultThreads : pending[r] = NoTop
  BY EndOfJobs
<1>2. \A t \in Tops : stage[t] \in Late <=> t \notin dropped
  BY <1>1 DEF Late
<1>3. Recorded = Tops \ dropped
  <2>1. \A t \in Tops : t # NoTop
    BY DEF Tops, NoTop
  <2>2. \A t \in Tops \ dropped : t \in Recorded
    BY <1>1, <1>2, <2>1 DEF ResultInv
  <2>3. \A t \in Recorded : t \in Tops \ dropped
    BY <1>2 DEF ResultInv, Recorded
  <2>4. QED BY ONLY <2>2, <2>3
<1>4. ASSUME NEW t \in Tops \ dropped
      PROVE  \E i \in Tops : EntriesOf(t) = {i}
  BY <1>3, OneEntry
<1>5. ASSUME NEW t \in dropped
      PROVE  EntriesOf(t) = {}
  BY <1>3 DEF EntriesOf, Recorded
<1>6. Cardinality(EntriesOf(NoTop)) = Cardinality(dropped)
  <2>1. IsFiniteSet(Tops) /\ Cardinality(Tops) = NumTops
    BY TopsFinite
  <2>2. dropped = Tops \ Recorded
    BY <1>3
  <2>3. Cardinality(dropped) = NumTops - slots
    <3>1. Recorded \subseteq Tops
      BY DEF Recorded
    <3>2. Tops \cap Recorded = Recorded
      BY <3>1
    <3>3. Cardinality(Tops \ Recorded) = Cardinality(Tops) - Cardinality(Tops \cap Recorded)
      BY <2>1, FS_Difference
    <3>4. QED BY <2>1, <2>2, <3>2, <3>3 DEF EntryInv
  <2>4. slots \in Nat /\ slots <= NumTops
    <3>1. IsFiniteSet(dropped)
      BY <2>1, FS_Subset
    <3>2. Cardinality(dropped) \in Nat
      BY <3>1, FS_CardinalityType
    <3>3. QED BY <2>3, <3>2, SizesAssumption
  <2>5. EntriesOf(NoTop) = slots .. NumTops - 1
    BY <2>4, SizesAssumption DEF EntryInv, EntriesOf, Tops
  <2>6. Cardinality(slots .. NumTops - 1) = IF slots > NumTops - 1 THEN 0 ELSE NumTops - 1 - slots + 1
    BY <2>4, FS_Interval, SizesAssumption
  <2>7. QED BY <2>3, <2>4, <2>5, <2>6, SizesAssumption
<1>7. UNION {valSums[r] : r \in ResultThreads} = Tops \ dropped
  <2>1. \A t \in Tops : t \in Recorded <=> \E r \in ResultThreads : t \in valSums[r]
    BY <1>2, <1>3 DEF ResultInv
  <2>2. \A r \in ResultThreads : valSums[r] \subseteq Tops
    OBVIOUS
  <2>3. QED BY <1>3, <2>1, <2>2
<1>8. {t \in Tops : inp[t] # NoBuf} = dropped
  BY <1>1 DEF JobInv
<1>9. QED BY <1>4, <1>5, <1>6, <1>7, <1>8 DEF DroppedLeaveBlanks

\* What failed at the result processor leaves a blank entry in the vector that
\* processJob saves, is in no node's validation data, and has its buffers lost;
\* everything else is in both, once.
THEOREM FailuresLeaveBlanks == Spec => []DroppedLeaveBlanks
  BY CirculationHolds, DroppedFollow, PTL
=============================================================================
