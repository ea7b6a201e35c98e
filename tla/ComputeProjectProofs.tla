----------------------- MODULE ComputeProjectProofs -----------------------
(***************************************************************************)
(* Proofs about ComputeProject for any jobs, sets, nodes and processes:    *)
(* always, type correctness and that what the collector accepts is exact;  *)
(* where one process runs at a time on each node and critical jobs are not *)
(* reset, that ProjectInv is inductive, and with it FinishedRecorded,      *)
(* ValidationWhole, ValidationGrows, the refinement of OnceLedger, and     *)
(* that a finished project is accepted.                                    *)
(***************************************************************************)
EXTENDS ComputeProject, FiniteSetTheorems, TLAPS

\* A running process has a job, a validation file and a results file.
LEMMA RunningProcess ==
  ASSUME TypeOK, NEW p \in Procs, pc[p] # "idle"
  PROVE  /\ job[p] \in Jobs /\ NodeOf[p] \in Nodes
         /\ FileOf(p) \in Files /\ Result(p) \in Jobs \X Nodes
BY ProjectAssumption DEF TypeOK, FileOf, Result, Files

\* Processes of different nodes have different files.
LEMMA OtherFiles ==
  ASSUME OnePerNode, NEW p \in Procs, NEW q \in Procs, p # q
  PROVE  NodeOf[p] # NodeOf[q] /\ FileOf(p) # FileOf(q) /\ Result(p) # Result(q)
BY DEF OnePerNode, FileOf, Result

\* Contents are not the marks for a missing or a torn file.
LEMMA ContentsAreNoMark ==
  ASSUME NEW c \in Contents PROVE c # NoFile /\ c # Torn
BY ProjectAssumption

----------------------------------------------------------------------------
(* Type correctness.                                                       *)

\* TypeOK's part about the processes.
ProcTypes ==
  /\ pc \in [Procs -> {"idle", "checked", "computing", "computed", "read",
                       "writing", "ready", "checkedAgain", "critical",
                       "saving", "saved", "committed"}]
  /\ job \in [Procs -> Jobs \cup {NoJob}]
  /\ \A p \in Procs : pc[p] # "idle" => job[p] \in Jobs
  /\ noErrors \in [Procs -> BOOLEAN]
  /\ fileData \in [Procs -> Contents]
  /\ fd \in [Procs -> {"none", "tmp", "validation", "gone"}]

LEMMA ExitTypes ==
  ASSUME TypeOK, NEW p \in Procs, Exit(p)
  PROVE  ProcTypes'
BY DEF TypeOK, ProcTypes, Exit, Contents

LEMMA TypeInit == Init => TypeOK
BY ProjectAssumption DEF Init, TypeOK, Dirs, Contents

LEMMA TypeGrab ==
  ASSUME TypeOK, NEW p \in Procs, Grab(p)
  PROVE  TypeOK'
<1>1. job[p] \in Jobs /\ NodeOf[p] \in Nodes /\ FileOf(p) \in Files /\ Result(p) \in Jobs \X Nodes
  BY RunningProcess DEF Grab
<1>2. dir' \in [Jobs -> Dirs] /\ by' \in [Jobs -> Nodes \cup {NoNode}]
  BY <1>1 DEF Grab, TypeOK, MoveJob, fileVars, Dirs
<1>3. /\ results' \in [Jobs \X Nodes -> {"none", "torn", "whole"}]
      /\ wrongResults' \subseteq Jobs \X Nodes
  BY <1>1 DEF Grab, TypeOK, fileVars
<1>4. /\ validation' \in [Files -> {NoFile, Torn} \cup Contents]
      /\ tmp' \in [Files -> {NoFile, Torn} \cup Contents]
  BY <1>1 DEF Grab, TypeOK, fileVars
<1>5. ProcTypes'
  BY <1>1, ExitTypes DEF Grab, TypeOK, ProcTypes, procVars, Goto, Contents
<1>6. tasks' \in [Jobs -> 0 .. Tasks] /\ collector' = collector
  BY <1>1, ProjectAssumption DEF Grab, TypeOK, opVars
<1> QED
  BY <1>2, <1>3, <1>4, <1>5, <1>6 DEF TypeOK, ProcTypes

LEMMA TypeRenameThrows ==
  ASSUME TypeOK, NEW p \in Procs, RenameThrows(p)
  PROVE  TypeOK'
<1>1. job[p] \in Jobs /\ NodeOf[p] \in Nodes /\ FileOf(p) \in Files /\ Result(p) \in Jobs \X Nodes
  BY RunningProcess DEF RenameThrows
<1>2. dir' \in [Jobs -> Dirs] /\ by' \in [Jobs -> Nodes \cup {NoNode}]
  BY <1>1 DEF RenameThrows, TypeOK, MoveJob, fileVars, Dirs
<1>3. /\ results' \in [Jobs \X Nodes -> {"none", "torn", "whole"}]
      /\ wrongResults' \subseteq Jobs \X Nodes
  BY <1>1 DEF RenameThrows, TypeOK, fileVars
<1>4. /\ validation' \in [Files -> {NoFile, Torn} \cup Contents]
      /\ tmp' \in [Files -> {NoFile, Torn} \cup Contents]
  BY <1>1 DEF RenameThrows, TypeOK, fileVars
<1>5. ProcTypes'
  BY <1>1, ExitTypes DEF RenameThrows, TypeOK, ProcTypes, procVars, Goto, Contents
<1>6. tasks' \in [Jobs -> 0 .. Tasks] /\ collector' = collector
  BY <1>1, ProjectAssumption DEF RenameThrows, TypeOK, opVars
<1> QED
  BY <1>2, <1>3, <1>4, <1>5, <1>6 DEF TypeOK, ProcTypes

LEMMA TypeCompute ==
  ASSUME TypeOK, NEW p \in Procs, Compute(p)
  PROVE  TypeOK'
<1>1. job[p] \in Jobs /\ NodeOf[p] \in Nodes /\ FileOf(p) \in Files /\ Result(p) \in Jobs \X Nodes
  BY RunningProcess DEF Compute
<1>2. dir' \in [Jobs -> Dirs] /\ by' \in [Jobs -> Nodes \cup {NoNode}]
  BY <1>1 DEF Compute, TypeOK, MoveJob, fileVars, Dirs
<1>3. /\ results' \in [Jobs \X Nodes -> {"none", "torn", "whole"}]
      /\ wrongResults' \subseteq Jobs \X Nodes
  BY <1>1 DEF Compute, TypeOK, fileVars
<1>4. /\ validation' \in [Files -> {NoFile, Torn} \cup Contents]
      /\ tmp' \in [Files -> {NoFile, Torn} \cup Contents]
  BY <1>1 DEF Compute, TypeOK, fileVars
<1>5. ProcTypes'
  BY <1>1, ExitTypes DEF Compute, TypeOK, ProcTypes, procVars, Goto, Contents
<1>6. tasks' \in [Jobs -> 0 .. Tasks] /\ collector' = collector
  BY <1>1, ProjectAssumption DEF Compute, TypeOK, opVars
<1> QED
  BY <1>2, <1>3, <1>4, <1>5, <1>6 DEF TypeOK, ProcTypes

LEMMA TypeReadValidation ==
  ASSUME TypeOK, NEW p \in Procs, ReadValidation(p)
  PROVE  TypeOK'
<1>1. job[p] \in Jobs /\ FileOf(p) \in Files
  BY RunningProcess DEF ReadValidation
<1>2. Old(FileOf(p)) \in Contents
  BY <1>1 DEF ReadValidation, Old, TypeOK, Contents
<1>3. Old(FileOf(p)) \cup {job[p]} \in Contents
  BY <1>1, <1>2 DEF Contents
<1>4. ProcTypes'
  BY <1>1, <1>3, ExitTypes DEF ReadValidation, TypeOK, ProcTypes, Goto
<1> QED
  BY <1>4 DEF ReadValidation, TypeOK, ProcTypes, fileVars, opVars

LEMMA TypeWriteBegin ==
  ASSUME TypeOK, NEW p \in Procs, WriteBegin(p)
  PROVE  TypeOK'
<1>1. job[p] \in Jobs /\ NodeOf[p] \in Nodes /\ FileOf(p) \in Files /\ Result(p) \in Jobs \X Nodes
  BY RunningProcess DEF WriteBegin
<1>2. dir' \in [Jobs -> Dirs] /\ by' \in [Jobs -> Nodes \cup {NoNode}]
  BY <1>1 DEF WriteBegin, TypeOK, MoveJob, fileVars, Dirs
<1>3. /\ results' \in [Jobs \X Nodes -> {"none", "torn", "whole"}]
      /\ wrongResults' \subseteq Jobs \X Nodes
  BY <1>1 DEF WriteBegin, TypeOK, fileVars
<1>4. /\ validation' \in [Files -> {NoFile, Torn} \cup Contents]
      /\ tmp' \in [Files -> {NoFile, Torn} \cup Contents]
  BY <1>1 DEF WriteBegin, TypeOK, fileVars
<1>5. ProcTypes'
  BY <1>1, ExitTypes DEF WriteBegin, TypeOK, ProcTypes, procVars, Goto, Contents
<1>6. tasks' \in [Jobs -> 0 .. Tasks] /\ collector' = collector
  BY <1>1, ProjectAssumption DEF WriteBegin, TypeOK, opVars
<1> QED
  BY <1>2, <1>3, <1>4, <1>5, <1>6 DEF TypeOK, ProcTypes

LEMMA TypeWriteEnd ==
  ASSUME TypeOK, NEW p \in Procs, WriteEnd(p)
  PROVE  TypeOK'
<1>1. FileOf(p) \in Files
  BY RunningProcess DEF WriteEnd
<1>2. PICK data \in Written(p) :
        /\ tmp' = IF fd[p] = "tmp" THEN [tmp EXCEPT ![FileOf(p)] = data] ELSE tmp
        /\ validation' = IF fd[p] = "validation"
                         THEN [validation EXCEPT ![FileOf(p)] = data] ELSE validation
  BY DEF WriteEnd
<1>3. Target(p)[FileOf(p)] \in {NoFile, Torn} \cup Contents
  BY <1>1 DEF Target, TypeOK
<1>4. data \in {NoFile, Torn} \cup Contents
  BY <1>2, <1>3 DEF Written, TypeOK
<1>5. /\ tmp' \in [Files -> {NoFile, Torn} \cup Contents]
      /\ validation' \in [Files -> {NoFile, Torn} \cup Contents]
  BY <1>2, <1>4 DEF TypeOK
<1>6. fileData' \in [Procs -> Contents]
  BY DEF WriteEnd, TypeOK, Contents
<1> QED
  BY ONLY <1>5, <1>6, TypeOK, WriteEnd(p) DEF WriteEnd, TypeOK, Goto, opVars

LEMMA TypeCheckAgain ==
  ASSUME TypeOK, NEW p \in Procs, CheckAgain(p)
  PROVE  TypeOK'
<1>1. job[p] \in Jobs /\ NodeOf[p] \in Nodes /\ FileOf(p) \in Files /\ Result(p) \in Jobs \X Nodes
  BY RunningProcess DEF CheckAgain
<1>2. dir' \in [Jobs -> Dirs] /\ by' \in [Jobs -> Nodes \cup {NoNode}]
  BY <1>1 DEF CheckAgain, TypeOK, MoveJob, fileVars, Dirs
<1>3. /\ results' \in [Jobs \X Nodes -> {"none", "torn", "whole"}]
      /\ wrongResults' \subseteq Jobs \X Nodes
  BY <1>1 DEF CheckAgain, TypeOK, fileVars
<1>4. /\ validation' \in [Files -> {NoFile, Torn} \cup Contents]
      /\ tmp' \in [Files -> {NoFile, Torn} \cup Contents]
  BY <1>1 DEF CheckAgain, TypeOK, fileVars
<1>5. ProcTypes'
  BY <1>1, ExitTypes DEF CheckAgain, TypeOK, ProcTypes, procVars, Goto, Contents
<1>6. tasks' \in [Jobs -> 0 .. Tasks] /\ collector' = collector
  BY <1>1, ProjectAssumption DEF CheckAgain, TypeOK, opVars
<1> QED
  BY <1>2, <1>3, <1>4, <1>5, <1>6 DEF TypeOK, ProcTypes

LEMMA TypeEnterCritical ==
  ASSUME TypeOK, NEW p \in Procs, EnterCritical(p)
  PROVE  TypeOK'
<1>1. job[p] \in Jobs /\ NodeOf[p] \in Nodes /\ FileOf(p) \in Files /\ Result(p) \in Jobs \X Nodes
  BY RunningProcess DEF EnterCritical
<1>2. dir' \in [Jobs -> Dirs] /\ by' \in [Jobs -> Nodes \cup {NoNode}]
  BY <1>1 DEF EnterCritical, TypeOK, MoveJob, fileVars, Dirs
<1>3. /\ results' \in [Jobs \X Nodes -> {"none", "torn", "whole"}]
      /\ wrongResults' \subseteq Jobs \X Nodes
  BY <1>1 DEF EnterCritical, TypeOK, fileVars
<1>4. /\ validation' \in [Files -> {NoFile, Torn} \cup Contents]
      /\ tmp' \in [Files -> {NoFile, Torn} \cup Contents]
  BY <1>1 DEF EnterCritical, TypeOK, fileVars
<1>5. ProcTypes'
  BY <1>1, ExitTypes DEF EnterCritical, TypeOK, ProcTypes, procVars, Goto, Contents
<1>6. tasks' \in [Jobs -> 0 .. Tasks] /\ collector' = collector
  BY <1>1, ProjectAssumption DEF EnterCritical, TypeOK, opVars
<1> QED
  BY <1>2, <1>3, <1>4, <1>5, <1>6 DEF TypeOK, ProcTypes

LEMMA TypeSaveBegin ==
  ASSUME TypeOK, NEW p \in Procs, SaveBegin(p)
  PROVE  TypeOK'
<1>1. job[p] \in Jobs /\ NodeOf[p] \in Nodes /\ FileOf(p) \in Files /\ Result(p) \in Jobs \X Nodes
  BY RunningProcess DEF SaveBegin
<1>2. dir' \in [Jobs -> Dirs] /\ by' \in [Jobs -> Nodes \cup {NoNode}]
  BY <1>1 DEF SaveBegin, TypeOK, MoveJob, fileVars, Dirs
<1>3. /\ results' \in [Jobs \X Nodes -> {"none", "torn", "whole"}]
      /\ wrongResults' \subseteq Jobs \X Nodes
  BY <1>1 DEF SaveBegin, TypeOK, fileVars
<1>4. /\ validation' \in [Files -> {NoFile, Torn} \cup Contents]
      /\ tmp' \in [Files -> {NoFile, Torn} \cup Contents]
  BY <1>1 DEF SaveBegin, TypeOK, fileVars
<1>5. ProcTypes'
  BY <1>1, ExitTypes DEF SaveBegin, TypeOK, ProcTypes, procVars, Goto, Contents
<1>6. tasks' \in [Jobs -> 0 .. Tasks] /\ collector' = collector
  BY <1>1, ProjectAssumption DEF SaveBegin, TypeOK, opVars
<1> QED
  BY <1>2, <1>3, <1>4, <1>5, <1>6 DEF TypeOK, ProcTypes

LEMMA TypeSaveEnd ==
  ASSUME TypeOK, NEW p \in Procs, SaveEnd(p)
  PROVE  TypeOK'
<1>1. job[p] \in Jobs /\ NodeOf[p] \in Nodes /\ FileOf(p) \in Files /\ Result(p) \in Jobs \X Nodes
  BY RunningProcess DEF SaveEnd
<1>2. dir' \in [Jobs -> Dirs] /\ by' \in [Jobs -> Nodes \cup {NoNode}]
  BY <1>1 DEF SaveEnd, TypeOK, MoveJob, fileVars, Dirs
<1>3. /\ results' \in [Jobs \X Nodes -> {"none", "torn", "whole"}]
      /\ wrongResults' \subseteq Jobs \X Nodes
  BY <1>1 DEF SaveEnd, TypeOK, fileVars
<1>4. /\ validation' \in [Files -> {NoFile, Torn} \cup Contents]
      /\ tmp' \in [Files -> {NoFile, Torn} \cup Contents]
  BY <1>1 DEF SaveEnd, TypeOK, fileVars
<1>5. ProcTypes'
  BY <1>1, ExitTypes DEF SaveEnd, TypeOK, ProcTypes, procVars, Goto, Contents
<1>6. tasks' \in [Jobs -> 0 .. Tasks] /\ collector' = collector
  BY <1>1, ProjectAssumption DEF SaveEnd, TypeOK, opVars
<1> QED
  BY <1>2, <1>3, <1>4, <1>5, <1>6 DEF TypeOK, ProcTypes

LEMMA TypeCommitValidation ==
  ASSUME TypeOK, NEW p \in Procs, CommitValidation(p)
  PROVE  TypeOK'
<1>1. job[p] \in Jobs /\ NodeOf[p] \in Nodes /\ FileOf(p) \in Files /\ Result(p) \in Jobs \X Nodes
  BY RunningProcess DEF CommitValidation
<1>2. dir' \in [Jobs -> Dirs] /\ by' \in [Jobs -> Nodes \cup {NoNode}]
  BY <1>1 DEF CommitValidation, TypeOK, MoveJob, fileVars, Dirs
<1>3. /\ results' \in [Jobs \X Nodes -> {"none", "torn", "whole"}]
      /\ wrongResults' \subseteq Jobs \X Nodes
  BY <1>1 DEF CommitValidation, TypeOK, fileVars
<1>4. /\ validation' \in [Files -> {NoFile, Torn} \cup Contents]
      /\ tmp' \in [Files -> {NoFile, Torn} \cup Contents]
  <2>1. tmp[FileOf(p)] \in {NoFile, Torn} \cup Contents
    BY <1>1 DEF TypeOK
  <2>2. CASE tmp[FileOf(p)] = NoFile
    BY <2>2 DEF CommitValidation, TypeOK
  <2>3. CASE tmp[FileOf(p)] # NoFile
    BY <2>1, <2>3 DEF CommitValidation, TypeOK
  <2> QED
    BY <2>2, <2>3
<1>5. ProcTypes'
  BY <1>1, ExitTypes DEF CommitValidation, TypeOK, ProcTypes, procVars, Goto, Contents
<1>6. tasks' \in [Jobs -> 0 .. Tasks] /\ collector' = collector
  BY <1>1, ProjectAssumption DEF CommitValidation, TypeOK, opVars
<1> QED
  BY <1>2, <1>3, <1>4, <1>5, <1>6 DEF TypeOK, ProcTypes

LEMMA TypeFinish ==
  ASSUME TypeOK, NEW p \in Procs, Finish(p)
  PROVE  TypeOK'
<1>1. job[p] \in Jobs /\ NodeOf[p] \in Nodes /\ FileOf(p) \in Files /\ Result(p) \in Jobs \X Nodes
  BY RunningProcess DEF Finish
<1>2. dir' \in [Jobs -> Dirs] /\ by' \in [Jobs -> Nodes \cup {NoNode}]
  BY <1>1 DEF Finish, TypeOK, MoveJob, fileVars, Dirs
<1>3. /\ results' \in [Jobs \X Nodes -> {"none", "torn", "whole"}]
      /\ wrongResults' \subseteq Jobs \X Nodes
  BY <1>1 DEF Finish, TypeOK, fileVars
<1>4. /\ validation' \in [Files -> {NoFile, Torn} \cup Contents]
      /\ tmp' \in [Files -> {NoFile, Torn} \cup Contents]
  BY <1>1 DEF Finish, TypeOK, fileVars
<1>5. ProcTypes'
  BY <1>1, ExitTypes DEF Finish, TypeOK, ProcTypes, procVars, Goto, Contents
<1>6. tasks' \in [Jobs -> 0 .. Tasks] /\ collector' = collector
  BY <1>1, ProjectAssumption DEF Finish, TypeOK, opVars
<1> QED
  BY <1>2, <1>3, <1>4, <1>5, <1>6 DEF TypeOK, ProcTypes

LEMMA TypeCrash ==
  ASSUME TypeOK, NEW p \in Procs, Crash(p)
  PROVE  TypeOK'
<1>1. job[p] \in Jobs /\ NodeOf[p] \in Nodes /\ FileOf(p) \in Files /\ Result(p) \in Jobs \X Nodes
  BY RunningProcess DEF Crash
<1>2. dir' \in [Jobs -> Dirs] /\ by' \in [Jobs -> Nodes \cup {NoNode}]
  BY <1>1 DEF Crash, TypeOK, MoveJob, fileVars, Dirs
<1>3. /\ results' \in [Jobs \X Nodes -> {"none", "torn", "whole"}]
      /\ wrongResults' \subseteq Jobs \X Nodes
  BY <1>1 DEF Crash, TypeOK, fileVars
<1>4. /\ validation' \in [Files -> {NoFile, Torn} \cup Contents]
      /\ tmp' \in [Files -> {NoFile, Torn} \cup Contents]
  BY <1>1 DEF Crash, TypeOK, fileVars
<1>5. ProcTypes'
  BY <1>1, ExitTypes DEF Crash, TypeOK, ProcTypes, procVars, Goto, Contents
<1>6. tasks' \in [Jobs -> 0 .. Tasks] /\ collector' = collector
  BY <1>1, ProjectAssumption DEF Crash, TypeOK, opVars
<1> QED
  BY <1>2, <1>3, <1>4, <1>5, <1>6 DEF TypeOK, ProcTypes

LEMMA TypeStart ==
  ASSUME TypeOK, NEW p \in Procs, NEW j \in Jobs, Start(p, j)
  PROVE  TypeOK'
<1>1. NodeOf[p] \in Nodes
  BY ProjectAssumption DEF TypeOK
<1>2. dir' \in [Jobs -> Dirs] /\ by' \in [Jobs -> Nodes \cup {NoNode}]
  BY <1>1 DEF Start, TypeOK, MoveJob, fileVars, Dirs
<1>3. /\ results' \in [Jobs \X Nodes -> {"none", "torn", "whole"}]
      /\ wrongResults' \subseteq Jobs \X Nodes
  BY <1>1 DEF Start, TypeOK, fileVars
<1>4. /\ validation' \in [Files -> {NoFile, Torn} \cup Contents]
      /\ tmp' \in [Files -> {NoFile, Torn} \cup Contents]
  BY <1>1 DEF Start, TypeOK, fileVars
<1>5. ProcTypes'
  BY <1>1, ExitTypes DEF Start, TypeOK, ProcTypes, procVars, Goto, Contents
<1>6. tasks' \in [Jobs -> 0 .. Tasks] /\ collector' = collector
  BY <1>1, ProjectAssumption DEF Start, TypeOK, opVars
<1> QED
  BY <1>2, <1>3, <1>4, <1>5, <1>6 DEF TypeOK, ProcTypes

LEMMA TypeReset ==
  ASSUME TypeOK, NEW j \in Jobs, Reset(j)
  PROVE  TypeOK'
<1>1. j \in Jobs
  BY ProjectAssumption DEF TypeOK
<1>2. dir' \in [Jobs -> Dirs] /\ by' \in [Jobs -> Nodes \cup {NoNode}]
  BY <1>1 DEF Reset, TypeOK, MoveJob, fileVars, Dirs
<1>3. /\ results' \in [Jobs \X Nodes -> {"none", "torn", "whole"}]
      /\ wrongResults' \subseteq Jobs \X Nodes
  BY <1>1 DEF Reset, TypeOK, fileVars
<1>4. /\ validation' \in [Files -> {NoFile, Torn} \cup Contents]
      /\ tmp' \in [Files -> {NoFile, Torn} \cup Contents]
  BY <1>1 DEF Reset, TypeOK, fileVars
<1>5. ProcTypes'
  BY <1>1, ExitTypes DEF Reset, TypeOK, ProcTypes, procVars, Goto, Contents
<1>6. tasks' \in [Jobs -> 0 .. Tasks] /\ collector' = collector
  BY <1>1, ProjectAssumption DEF Reset, TypeOK, opVars
<1> QED
  BY <1>2, <1>3, <1>4, <1>5, <1>6 DEF TypeOK, ProcTypes

LEMMA TypeStep == TypeOK /\ [Next]_vars => TypeOK'
<1> SUFFICES ASSUME TypeOK, [Next]_vars PROVE TypeOK'
  OBVIOUS
<1>1. ASSUME NEW p \in Procs, Grab(p) PROVE TypeOK'
  BY <1>1, TypeGrab
<1>2. ASSUME NEW p \in Procs, RenameThrows(p) PROVE TypeOK'
  BY <1>2, TypeRenameThrows
<1>3. ASSUME NEW p \in Procs, Compute(p) PROVE TypeOK'
  BY <1>3, TypeCompute
<1>4. ASSUME NEW p \in Procs, ReadValidation(p) PROVE TypeOK'
  BY <1>4, TypeReadValidation
<1>5. ASSUME NEW p \in Procs, WriteBegin(p) PROVE TypeOK'
  BY <1>5, TypeWriteBegin
<1>6. ASSUME NEW p \in Procs, WriteEnd(p) PROVE TypeOK'
  BY <1>6, TypeWriteEnd
<1>7. ASSUME NEW p \in Procs, CheckAgain(p) PROVE TypeOK'
  BY <1>7, TypeCheckAgain
<1>8. ASSUME NEW p \in Procs, EnterCritical(p) PROVE TypeOK'
  BY <1>8, TypeEnterCritical
<1>9. ASSUME NEW p \in Procs, SaveBegin(p) PROVE TypeOK'
  BY <1>9, TypeSaveBegin
<1>10. ASSUME NEW p \in Procs, SaveEnd(p) PROVE TypeOK'
  BY <1>10, TypeSaveEnd
<1>11. ASSUME NEW p \in Procs, CommitValidation(p) PROVE TypeOK'
  BY <1>11, TypeCommitValidation
<1>12. ASSUME NEW p \in Procs, Finish(p) PROVE TypeOK'
  BY <1>12, TypeFinish
<1>13. ASSUME NEW p \in Procs, Crash(p) PROVE TypeOK'
  BY <1>13, TypeCrash
<1>14. ASSUME NEW p \in Procs, NEW j \in Jobs, Start(p, j) PROVE TypeOK'
  BY <1>14, TypeStart
<1>15. ASSUME NEW j \in Jobs, Reset(j) PROVE TypeOK'
  BY <1>15, TypeReset
<1>16. ASSUME Collect \/ Collecting PROVE TypeOK'
  BY <1>16 DEF Collect, Collecting, CollectResults, CollectValidation, TypeOK, fileVars, procVars
<1>17. ASSUME UNCHANGED vars PROVE TypeOK'
  BY <1>17 DEF TypeOK, vars, fileVars, procVars, opVars
<1> QED
  BY <1>1, <1>2, <1>3, <1>4, <1>5, <1>6, <1>7, <1>8, <1>9, <1>10, <1>11, <1>12, <1>13, <1>14, <1>15, <1>16, <1>17 DEF Next, ProcStep, Quiescent

\* Every variable keeps its type, whatever crashes, fails or is reset.
THEOREM ProjectTypeOK == Spec => []TypeOK
<1>1. TypeOK /\ [Next]_vars => TypeOK'
  BY TypeStep
<1> QED
  BY TypeInit, <1>1, PTL DEF Spec

----------------------------------------------------------------------------
(* The inductive invariant. Below, one process runs on each node and the   *)
(* operator leaves critical jobs alone.                                    *)

LEMMA ProjectInvInit == Init => ProjectInv
<1> SUFFICES ASSUME Init PROVE ProjectInv
  OBVIOUS
<1>1. ValidationWhole /\ \A f \in Files : Holds(f) = {}
  BY ProjectAssumption DEF Init, ValidationWhole, Holds
<1>2. \A p \in Procs : ProcInv(p)
  BY DEF Init, ProcInv
<1> QED
  BY <1>1, <1>2 DEF Init, ProjectInv, HeldInPlace, FinishedRecorded

\* What ProcInv says of a process stays true when another one's step leaves the
\* files of its node, and its job while critical, as they are.
LEMMA Frame ==
  ASSUME NEW q \in Procs, ProcInv(q),
         pc'[q] = pc[q], job'[q] = job[q], noErrors'[q] = noErrors[q],
         fileData'[q] = fileData[q], fd'[q] = fd[q],
         pc[q] # "idle" =>
           /\ tmp'[FileOf(q)] = tmp[FileOf(q)]
           /\ validation'[FileOf(q)] = validation[FileOf(q)]
           /\ results'[Result(q)] = results[Result(q)]
           /\ In(job[q], "critical", NodeOf[q]) => In(job[q], "critical", NodeOf[q])'
  PROVE  ProcInv(q)'
<1>1. FileOf(q)' = FileOf(q) /\ Result(q)' = Result(q)
  BY DEF FileOf, Result
<1>2. CASE pc[q] = "idle"
  BY <1>2 DEF ProcInv
<1>3. CASE pc[q] # "idle"
  <2>1. Old(FileOf(q))' = Old(FileOf(q)) /\ Holds(FileOf(q))' = Holds(FileOf(q))
    BY <1>1, <1>3 DEF Old, Holds
  <2>2. In(job[q], "critical", NodeOf[q]) => In(job[q], "critical", NodeOf[q])'
    BY <1>3
  <2> QED
    BY <1>1, <1>3, <2>1, <2>2 DEF ProcInv
<1> QED
  BY <1>2, <1>3

\* So a step of one process has only its own ProcInv to establish.
LEMMA Others ==
  ASSUME TypeOK, OnePerNode, \A q \in Procs : ProcInv(q), NEW p \in Procs, ProcInv(p)',
         \A q \in Procs \ {p} :
           /\ pc'[q] = pc[q] /\ job'[q] = job[q] /\ noErrors'[q] = noErrors[q]
           /\ fileData'[q] = fileData[q] /\ fd'[q] = fd[q],
         \A f \in Files \ {FileOf(p)} : tmp'[f] = tmp[f] /\ validation'[f] = validation[f],
         \A r \in (Jobs \X Nodes) \ {Result(p)} : results'[r] = results[r],
         \A j \in Jobs : \A n \in Nodes \ {NodeOf[p]} :
           In(j, "critical", n) => In(j, "critical", n)'
  PROVE  \A q \in Procs : ProcInv(q)'
<1> SUFFICES ASSUME NEW q \in Procs, q # p PROVE ProcInv(q)'
  OBVIOUS
<1>1. NodeOf[p] # NodeOf[q] /\ FileOf(p) # FileOf(q) /\ Result(p) # Result(q)
  BY OtherFiles
<1>2. ASSUME pc[q] # "idle"
      PROVE /\ job[q] \in Jobs /\ NodeOf[q] \in Nodes \ {NodeOf[p]}
            /\ FileOf(q) \in Files \ {FileOf(p)}
            /\ Result(q) \in (Jobs \X Nodes) \ {Result(p)}
  BY <1>1, <1>2, RunningProcess
<1>3. pc[q] # "idle" =>
        /\ tmp'[FileOf(q)] = tmp[FileOf(q)]
        /\ validation'[FileOf(q)] = validation[FileOf(q)]
        /\ results'[Result(q)] = results[Result(q)]
        /\ In(job[q], "critical", NodeOf[q]) => In(job[q], "critical", NodeOf[q])'
  BY <1>2
<1> QED
  BY <1>3, Frame

\* What a rename of a job's file does.
LEMMA Moved ==
  ASSUME TypeOK, NEW j \in Jobs, NEW d, NEW n, MoveJob(j, d, n)
  PROVE  /\ dir'[j] = d /\ by'[j] = n
         /\ \A i \in Jobs \ {j} : dir'[i] = dir[i] /\ by'[i] = by[i]
BY DEF TypeOK, MoveJob

\* Where a finished job's files are.
LEMMA FinishedPlace ==
  ASSUME FinishedRecorded, NEW j \in Jobs, dir[j] = "finished"
  PROVE  <<by[j], SetOf[j]>> \in Files /\ <<j, by[j]>> \in Jobs \X Nodes
BY ProjectAssumption DEF FinishedRecorded, Files

\* A process that keeps its job keeps its files, which keep their contents
\* where validation does not change.
LEMMA SameFiles ==
  ASSUME NEW p \in Procs, job'[p] = job[p], validation' = validation
  PROVE  /\ FileOf(p)' = FileOf(p) /\ Result(p)' = Result(p)
         /\ Old(FileOf(p))' = Old(FileOf(p)) /\ Holds(FileOf(p))' = Holds(FileOf(p))
BY DEF FileOf, Result, Old, Holds

\* Steps that leave results, validation files and job files alone.
LEMMA Quiet ==
  ASSUME ProjectInv, UNCHANGED <<dir, by, results, validation>>
  PROVE  ValidationWhole' /\ HeldInPlace' /\ FinishedRecorded'
BY DEF ProjectInv, ValidationWhole, HeldInPlace, FinishedRecorded, Holds

\* What a validation file includes, where none is torn.
LEMMA HoldsIsOld ==
  ASSUME ValidationWhole, NEW f \in Files
  PROVE  Holds(f) = Old(f)
BY DEF ValidationWhole, Holds, Old

LEMMA ExitProcInv ==
  ASSUME TypeOK, NEW p \in Procs, Exit(p)
  PROVE  ProcInv(p)'
BY DEF ProcInv, Exit, TypeOK

LEMMA InvRenameThrows ==
  ASSUME TypeOK, ProjectInv, OnePerNode, CriticalKept, NEW p \in Procs, RenameThrows(p)
  PROVE  ProjectInv'
<1>1. /\ job[p] \in Jobs /\ NodeOf[p] \in Nodes
      /\ FileOf(p) \in Files /\ Result(p) \in Jobs \X Nodes
  BY RunningProcess DEF RenameThrows
<1>2. ValidationWhole /\ HeldInPlace /\ FinishedRecorded /\ \A q \in Procs : ProcInv(q)
  BY DEF ProjectInv
<1>3. ProcInv(p)'
  BY ExitProcInv DEF RenameThrows
<1>4. /\ \A q \in Procs \ {p} :
           /\ pc'[q] = pc[q] /\ job'[q] = job[q] /\ noErrors'[q] = noErrors[q]
           /\ fileData'[q] = fileData[q] /\ fd'[q] = fd[q]
      /\ \A f \in Files \ {FileOf(p)} : tmp'[f] = tmp[f] /\ validation'[f] = validation[f]
      /\ \A r \in (Jobs \X Nodes) \ {Result(p)} : results'[r] = results[r]
  BY <1>1 DEF RenameThrows, fileVars, opVars, Goto, Exit, TypeOK
<1>5. \A i \in Jobs : \A n \in Nodes \ {NodeOf[p]} :
        In(i, "critical", n) => In(i, "critical", n)'
  BY <1>1 DEF RenameThrows, In, MoveJob, TypeOK, fileVars
<1>6. \A q \in Procs : ProcInv(q)'
  BY <1>2, <1>3, <1>4, <1>5, Others
<1>7. ValidationWhole' /\ HeldInPlace' /\ FinishedRecorded'
  BY <1>2, Quiet DEF RenameThrows, fileVars
<1> QED
  BY <1>6, <1>7 DEF ProjectInv

LEMMA InvCrash ==
  ASSUME TypeOK, ProjectInv, OnePerNode, CriticalKept, NEW p \in Procs, Crash(p)
  PROVE  ProjectInv'
<1>1. /\ job[p] \in Jobs /\ NodeOf[p] \in Nodes
      /\ FileOf(p) \in Files /\ Result(p) \in Jobs \X Nodes
  BY RunningProcess DEF Crash
<1>2. ValidationWhole /\ HeldInPlace /\ FinishedRecorded /\ \A q \in Procs : ProcInv(q)
  BY DEF ProjectInv
<1>3. ProcInv(p)'
  BY ExitProcInv DEF Crash
<1>4. /\ \A q \in Procs \ {p} :
           /\ pc'[q] = pc[q] /\ job'[q] = job[q] /\ noErrors'[q] = noErrors[q]
           /\ fileData'[q] = fileData[q] /\ fd'[q] = fd[q]
      /\ \A f \in Files \ {FileOf(p)} : tmp'[f] = tmp[f] /\ validation'[f] = validation[f]
      /\ \A r \in (Jobs \X Nodes) \ {Result(p)} : results'[r] = results[r]
  BY <1>1 DEF Crash, fileVars, opVars, Goto, Exit, TypeOK
<1>5. \A i \in Jobs : \A n \in Nodes \ {NodeOf[p]} :
        In(i, "critical", n) => In(i, "critical", n)'
  BY <1>1 DEF Crash, In, MoveJob, TypeOK, fileVars
<1>6. \A q \in Procs : ProcInv(q)'
  BY <1>2, <1>3, <1>4, <1>5, Others
<1>7. ValidationWhole' /\ HeldInPlace' /\ FinishedRecorded'
  BY <1>2, Quiet DEF Crash, fileVars
<1> QED
  BY <1>6, <1>7 DEF ProjectInv

LEMMA InvCompute ==
  ASSUME TypeOK, ProjectInv, OnePerNode, CriticalKept, NEW p \in Procs, Compute(p)
  PROVE  ProjectInv'
<1>1. /\ job[p] \in Jobs /\ NodeOf[p] \in Nodes
      /\ FileOf(p) \in Files /\ Result(p) \in Jobs \X Nodes
  BY RunningProcess DEF Compute
<1>2. ValidationWhole /\ HeldInPlace /\ FinishedRecorded /\ \A q \in Procs : ProcInv(q)
  BY DEF ProjectInv
<1>a. /\ job'[p] = job[p] /\ validation' = validation
      /\ noErrors[p] \in BOOLEAN /\ ProcInv(p)
  BY <1>2 DEF Compute, TypeOK, fileVars
<1>b. /\ FileOf(p)' = FileOf(p) /\ Result(p)' = Result(p)
      /\ Old(FileOf(p))' = Old(FileOf(p)) /\ Holds(FileOf(p))' = Holds(FileOf(p))
  BY <1>a, SameFiles
<1>c. In(job[p], "critical", NodeOf[p]) => In(job[p], "critical", NodeOf[p])'
  BY <1>a DEF Compute, In, fileVars
<1>3. ProcInv(p)'
  BY <1>1, <1>a, <1>b, <1>c DEF Compute, ProcInv, Goto, TypeOK, fileVars, opVars
<1>4. /\ \A q \in Procs \ {p} :
           /\ pc'[q] = pc[q] /\ job'[q] = job[q] /\ noErrors'[q] = noErrors[q]
           /\ fileData'[q] = fileData[q] /\ fd'[q] = fd[q]
      /\ \A f \in Files \ {FileOf(p)} : tmp'[f] = tmp[f] /\ validation'[f] = validation[f]
      /\ \A r \in (Jobs \X Nodes) \ {Result(p)} : results'[r] = results[r]
  BY <1>1 DEF Compute, fileVars, opVars, Goto, Exit, TypeOK
<1>5. \A i \in Jobs : \A n \in Nodes \ {NodeOf[p]} :
        In(i, "critical", n) => In(i, "critical", n)'
  BY <1>1 DEF Compute, In, MoveJob, TypeOK, fileVars
<1>6. \A q \in Procs : ProcInv(q)'
  BY <1>2, <1>3, <1>4, <1>5, Others
<1>7. ValidationWhole' /\ HeldInPlace' /\ FinishedRecorded'
  BY <1>2, Quiet DEF Compute, fileVars
<1> QED
  BY <1>6, <1>7 DEF ProjectInv

LEMMA InvCheckAgain ==
  ASSUME TypeOK, ProjectInv, OnePerNode, CriticalKept, NEW p \in Procs, CheckAgain(p)
  PROVE  ProjectInv'
<1>1. /\ job[p] \in Jobs /\ NodeOf[p] \in Nodes
      /\ FileOf(p) \in Files /\ Result(p) \in Jobs \X Nodes
  BY RunningProcess DEF CheckAgain
<1>2. ValidationWhole /\ HeldInPlace /\ FinishedRecorded /\ \A q \in Procs : ProcInv(q)
  BY DEF ProjectInv
<1>3. ProcInv(p)'
  <2>1. CASE TargetsFree(p)
    <3>1. /\ job'[p] = job[p] /\ validation' = validation
          /\ noErrors[p] \in BOOLEAN /\ ProcInv(p)
      BY <1>2, <2>1 DEF CheckAgain, TypeOK, fileVars
    <3>2. /\ FileOf(p)' = FileOf(p) /\ Result(p)' = Result(p)
          /\ Old(FileOf(p))' = Old(FileOf(p)) /\ Holds(FileOf(p))' = Holds(FileOf(p))
      BY <3>1, SameFiles
    <3> QED
      BY <1>1, <2>1, <3>1, <3>2 DEF CheckAgain, ProcInv, Goto, TypeOK, fileVars
  <2>2. CASE ~TargetsFree(p)
    BY <2>2, ExitProcInv DEF CheckAgain
  <2> QED
    BY <2>1, <2>2
<1>4. /\ \A q \in Procs \ {p} :
           /\ pc'[q] = pc[q] /\ job'[q] = job[q] /\ noErrors'[q] = noErrors[q]
           /\ fileData'[q] = fileData[q] /\ fd'[q] = fd[q]
      /\ \A f \in Files \ {FileOf(p)} : tmp'[f] = tmp[f] /\ validation'[f] = validation[f]
      /\ \A r \in (Jobs \X Nodes) \ {Result(p)} : results'[r] = results[r]
  BY <1>1 DEF CheckAgain, fileVars, opVars, Goto, Exit, TypeOK
<1>5. \A i \in Jobs : \A n \in Nodes \ {NodeOf[p]} :
        In(i, "critical", n) => In(i, "critical", n)'
  BY <1>1 DEF CheckAgain, In, MoveJob, TypeOK, fileVars
<1>6. \A q \in Procs : ProcInv(q)'
  BY <1>2, <1>3, <1>4, <1>5, Others
<1>7. ValidationWhole' /\ HeldInPlace' /\ FinishedRecorded'
  BY <1>2, Quiet DEF CheckAgain, fileVars
<1> QED
  BY <1>6, <1>7 DEF ProjectInv

LEMMA InvReadValidation ==
  ASSUME TypeOK, ProjectInv, OnePerNode, CriticalKept, NEW p \in Procs, ReadValidation(p)
  PROVE  ProjectInv'
<1>1. /\ job[p] \in Jobs /\ NodeOf[p] \in Nodes
      /\ FileOf(p) \in Files /\ Result(p) \in Jobs \X Nodes
  BY RunningProcess DEF ReadValidation
<1>2. ValidationWhole /\ HeldInPlace /\ FinishedRecorded /\ \A q \in Procs : ProcInv(q)
  BY DEF ProjectInv
<1>3. ProcInv(p)'
  <2>1. CASE job[p] \in Old(FileOf(p))
    BY <2>1, ExitProcInv DEF ReadValidation
  <2>2. CASE job[p] \notin Old(FileOf(p))
    BY <1>1, <1>2, <2>2 DEF ReadValidation, ProcInv, FileOf, Result, In, Old, Holds, Goto, TypeOK, fileVars, opVars
  <2> QED
    BY <2>1, <2>2
<1>4. /\ \A q \in Procs \ {p} :
           /\ pc'[q] = pc[q] /\ job'[q] = job[q] /\ noErrors'[q] = noErrors[q]
           /\ fileData'[q] = fileData[q] /\ fd'[q] = fd[q]
      /\ \A f \in Files \ {FileOf(p)} : tmp'[f] = tmp[f] /\ validation'[f] = validation[f]
      /\ \A r \in (Jobs \X Nodes) \ {Result(p)} : results'[r] = results[r]
  BY <1>1 DEF ReadValidation, fileVars, opVars, Goto, Exit, TypeOK
<1>5. \A i \in Jobs : \A n \in Nodes \ {NodeOf[p]} :
        In(i, "critical", n) => In(i, "critical", n)'
  BY <1>1 DEF ReadValidation, In, MoveJob, TypeOK, fileVars
<1>6. \A q \in Procs : ProcInv(q)'
  BY <1>2, <1>3, <1>4, <1>5, Others
<1>7. ValidationWhole' /\ HeldInPlace' /\ FinishedRecorded'
  BY <1>2, Quiet DEF ReadValidation, fileVars
<1> QED
  BY <1>6, <1>7 DEF ProjectInv

LEMMA InvWriteBegin ==
  ASSUME TypeOK, ProjectInv, OnePerNode, CriticalKept, NEW p \in Procs, WriteBegin(p)
  PROVE  ProjectInv'
<1>1. /\ job[p] \in Jobs /\ NodeOf[p] \in Nodes
      /\ FileOf(p) \in Files /\ Result(p) \in Jobs \X Nodes
  BY RunningProcess DEF WriteBegin
<1>2. ValidationWhole /\ HeldInPlace /\ FinishedRecorded /\ \A q \in Procs : ProcInv(q)
  BY DEF ProjectInv
<1>a. /\ job'[p] = job[p] /\ validation' = validation
      /\ noErrors[p] \in BOOLEAN /\ ProcInv(p)
  BY <1>2 DEF WriteBegin, TypeOK, fileVars
<1>b. /\ FileOf(p)' = FileOf(p) /\ Result(p)' = Result(p)
      /\ Old(FileOf(p))' = Old(FileOf(p)) /\ Holds(FileOf(p))' = Holds(FileOf(p))
  BY <1>a, SameFiles
<1>c. In(job[p], "critical", NodeOf[p]) => In(job[p], "critical", NodeOf[p])'
  BY <1>a DEF WriteBegin, In, fileVars
<1>3. ProcInv(p)'
  BY <1>1, <1>a, <1>b, <1>c DEF WriteBegin, ProcInv, Goto, TypeOK, fileVars, opVars
<1>4. /\ \A q \in Procs \ {p} :
           /\ pc'[q] = pc[q] /\ job'[q] = job[q] /\ noErrors'[q] = noErrors[q]
           /\ fileData'[q] = fileData[q] /\ fd'[q] = fd[q]
      /\ \A f \in Files \ {FileOf(p)} : tmp'[f] = tmp[f] /\ validation'[f] = validation[f]
      /\ \A r \in (Jobs \X Nodes) \ {Result(p)} : results'[r] = results[r]
  BY <1>1 DEF WriteBegin, fileVars, opVars, Goto, Exit, TypeOK
<1>5. \A i \in Jobs : \A n \in Nodes \ {NodeOf[p]} :
        In(i, "critical", n) => In(i, "critical", n)'
  BY <1>1 DEF WriteBegin, In, MoveJob, TypeOK, fileVars
<1>6. \A q \in Procs : ProcInv(q)'
  BY <1>2, <1>3, <1>4, <1>5, Others
<1>7. ValidationWhole' /\ HeldInPlace' /\ FinishedRecorded'
  BY <1>2, Quiet DEF WriteBegin, fileVars
<1> QED
  BY <1>6, <1>7 DEF ProjectInv

\* The process that writes a _tmp file is the only one.
LEMMA WriteEndEffect ==
  ASSUME TypeOK, ProjectInv, OnePerNode, NEW p \in Procs, WriteEnd(p)
  PROVE  /\ noErrors[p] /\ fileData[p] = Old(FileOf(p)) \cup {job[p]}
         /\ tmp' = [tmp EXCEPT ![FileOf(p)] = fileData[p]] /\ validation' = validation
<1>1. /\ fd[p] = "tmp" /\ noErrors[p] /\ tmp[FileOf(p)] = Torn
      /\ fileData[p] = Old(FileOf(p)) \cup {job[p]}
  BY DEF WriteEnd, ProjectInv, ProcInv
<1>2. Written(p) = {fileData[p]}
  <2>1. ASSUME NEW q \in Procs \ {p} PROVE FileOf(q) # FileOf(p)
    BY <2>1, OtherFiles
  <2> QED
    BY <1>1, <2>1 DEF Written, Shared, Target
<1> QED
  BY <1>1, <1>2 DEF WriteEnd

LEMMA InvWriteEnd ==
  ASSUME TypeOK, ProjectInv, OnePerNode, CriticalKept, NEW p \in Procs, WriteEnd(p)
  PROVE  ProjectInv'
<1>1. /\ job[p] \in Jobs /\ NodeOf[p] \in Nodes
      /\ FileOf(p) \in Files /\ Result(p) \in Jobs \X Nodes
  BY RunningProcess DEF WriteEnd
<1>2. ValidationWhole /\ HeldInPlace /\ FinishedRecorded /\ \A q \in Procs : ProcInv(q)
  BY DEF ProjectInv
<1>3. ProcInv(p)'
  <2>1. /\ job'[p] = job[p] /\ pc'[p] = "ready" /\ fd'[p] = "none" /\ noErrors'[p] = noErrors[p]
        /\ tmp'[FileOf(p)] = Old(FileOf(p)) \cup {job[p]} /\ validation' = validation
    <3>1. /\ job'[p] = job[p] /\ pc'[p] = "ready" /\ fd'[p] = "none" /\ noErrors'[p] = noErrors[p]
      BY <1>1 DEF WriteEnd, Goto, TypeOK
    <3>2. tmp'[FileOf(p)] = Old(FileOf(p)) \cup {job[p]} /\ validation' = validation
      <4>1. tmp \in [Files -> {NoFile, Torn} \cup Contents]
        BY DEF TypeOK
      <4> QED
        BY <4>1, <1>1, WriteEndEffect
    <3> QED
      BY <3>1, <3>2
  <2>2. FileOf(p)' = FileOf(p) /\ Old(FileOf(p))' = Old(FileOf(p))
    BY <2>1, SameFiles
  <2> QED
    BY <2>1, <2>2 DEF ProcInv
<1>4. /\ \A q \in Procs \ {p} :
           /\ pc'[q] = pc[q] /\ job'[q] = job[q] /\ noErrors'[q] = noErrors[q]
           /\ fileData'[q] = fileData[q] /\ fd'[q] = fd[q]
      /\ \A f \in Files \ {FileOf(p)} : tmp'[f] = tmp[f] /\ validation'[f] = validation[f]
      /\ \A r \in (Jobs \X Nodes) \ {Result(p)} : results'[r] = results[r]
  BY <1>1, WriteEndEffect DEF WriteEnd, fileVars, opVars, Goto, Exit, TypeOK
<1>5. \A i \in Jobs : \A n \in Nodes \ {NodeOf[p]} :
        In(i, "critical", n) => In(i, "critical", n)'
  BY <1>1 DEF WriteEnd, In, MoveJob, TypeOK, fileVars
<1>6. \A q \in Procs : ProcInv(q)'
  BY <1>2, <1>3, <1>4, <1>5, Others
<1>7. ValidationWhole' /\ HeldInPlace' /\ FinishedRecorded'
  BY <1>2, WriteEndEffect, Quiet DEF WriteEnd
<1> QED
  BY <1>6, <1>7 DEF ProjectInv

LEMMA InvSaveBegin ==
  ASSUME TypeOK, ProjectInv, OnePerNode, CriticalKept, NEW p \in Procs, SaveBegin(p)
  PROVE  ProjectInv'
<1>1. /\ job[p] \in Jobs /\ NodeOf[p] \in Nodes
      /\ FileOf(p) \in Files /\ Result(p) \in Jobs \X Nodes
  BY RunningProcess DEF SaveBegin
<1>2. ValidationWhole /\ HeldInPlace /\ FinishedRecorded /\ \A q \in Procs : ProcInv(q)
  BY DEF ProjectInv
<1>a. /\ job'[p] = job[p] /\ validation' = validation
      /\ noErrors[p] \in BOOLEAN /\ ProcInv(p)
  BY <1>2 DEF SaveBegin, TypeOK, fileVars
<1>b. /\ FileOf(p)' = FileOf(p) /\ Result(p)' = Result(p)
      /\ Old(FileOf(p))' = Old(FileOf(p)) /\ Holds(FileOf(p))' = Holds(FileOf(p))
  BY <1>a, SameFiles
<1>c. In(job[p], "critical", NodeOf[p]) => In(job[p], "critical", NodeOf[p])'
  BY <1>a DEF SaveBegin, In, fileVars
<1>3. ProcInv(p)'
  BY <1>1, <1>a, <1>b, <1>c DEF SaveBegin, ProcInv, Goto, TypeOK, fileVars, opVars
<1>4. /\ \A q \in Procs \ {p} :
           /\ pc'[q] = pc[q] /\ job'[q] = job[q] /\ noErrors'[q] = noErrors[q]
           /\ fileData'[q] = fileData[q] /\ fd'[q] = fd[q]
      /\ \A f \in Files \ {FileOf(p)} : tmp'[f] = tmp[f] /\ validation'[f] = validation[f]
      /\ \A r \in (Jobs \X Nodes) \ {Result(p)} : results'[r] = results[r]
  BY <1>1 DEF SaveBegin, fileVars, opVars, Goto, Exit, TypeOK
<1>5. \A i \in Jobs : \A n \in Nodes \ {NodeOf[p]} :
        In(i, "critical", n) => In(i, "critical", n)'
  BY <1>1 DEF SaveBegin, In, MoveJob, TypeOK, fileVars
<1>6. \A q \in Procs : ProcInv(q)'
  BY <1>2, <1>3, <1>4, <1>5, Others
<1>7. ValidationWhole' /\ HeldInPlace' /\ FinishedRecorded'
  <2>1. ValidationWhole' /\ HeldInPlace'
    BY <1>2 DEF SaveBegin, ValidationWhole, HeldInPlace, Holds
  <2>2. In(job[p], "critical", NodeOf[p])
    BY <1>2 DEF SaveBegin, ProcInv
  <2>3. ASSUME NEW j \in Jobs, dir[j] = "finished" PROVE results'[<<j, by[j]>>] = results[<<j, by[j]>>]
    <3>1. <<j, by[j]>> \in Jobs \X Nodes /\ <<j, by[j]>> # Result(p)
      BY <1>2, <2>2, <2>3, FinishedPlace DEF Result, In
    <3> QED
      BY <1>1, <3>1 DEF SaveBegin, TypeOK
  <2> QED
    BY <1>2, <2>1, <2>3 DEF SaveBegin, FinishedRecorded, Holds
<1> QED
  BY <1>6, <1>7 DEF ProjectInv

LEMMA InvSaveEnd ==
  ASSUME TypeOK, ProjectInv, OnePerNode, CriticalKept, NEW p \in Procs, SaveEnd(p)
  PROVE  ProjectInv'
<1>1. /\ job[p] \in Jobs /\ NodeOf[p] \in Nodes
      /\ FileOf(p) \in Files /\ Result(p) \in Jobs \X Nodes
  BY RunningProcess DEF SaveEnd
<1>2. ValidationWhole /\ HeldInPlace /\ FinishedRecorded /\ \A q \in Procs : ProcInv(q)
  BY DEF ProjectInv
<1>a. /\ job'[p] = job[p] /\ validation' = validation
      /\ noErrors[p] \in BOOLEAN /\ ProcInv(p)
  BY <1>2 DEF SaveEnd, TypeOK, fileVars
<1>b. /\ FileOf(p)' = FileOf(p) /\ Result(p)' = Result(p)
      /\ Old(FileOf(p))' = Old(FileOf(p)) /\ Holds(FileOf(p))' = Holds(FileOf(p))
  BY <1>a, SameFiles
<1>c. In(job[p], "critical", NodeOf[p]) => In(job[p], "critical", NodeOf[p])'
  BY <1>a DEF SaveEnd, In, fileVars
<1>3. ProcInv(p)'
  BY <1>1, <1>a, <1>b, <1>c DEF SaveEnd, ProcInv, Goto, TypeOK, fileVars, opVars
<1>4. /\ \A q \in Procs \ {p} :
           /\ pc'[q] = pc[q] /\ job'[q] = job[q] /\ noErrors'[q] = noErrors[q]
           /\ fileData'[q] = fileData[q] /\ fd'[q] = fd[q]
      /\ \A f \in Files \ {FileOf(p)} : tmp'[f] = tmp[f] /\ validation'[f] = validation[f]
      /\ \A r \in (Jobs \X Nodes) \ {Result(p)} : results'[r] = results[r]
  BY <1>1 DEF SaveEnd, fileVars, opVars, Goto, Exit, TypeOK
<1>5. \A i \in Jobs : \A n \in Nodes \ {NodeOf[p]} :
        In(i, "critical", n) => In(i, "critical", n)'
  BY <1>1 DEF SaveEnd, In, MoveJob, TypeOK, fileVars
<1>6. \A q \in Procs : ProcInv(q)'
  BY <1>2, <1>3, <1>4, <1>5, Others
<1>7. ValidationWhole' /\ HeldInPlace' /\ FinishedRecorded'
  <2>1. ValidationWhole' /\ HeldInPlace'
    BY <1>2 DEF SaveEnd, ValidationWhole, HeldInPlace, Holds
  <2>2. In(job[p], "critical", NodeOf[p])
    BY <1>2 DEF SaveEnd, ProcInv
  <2>3. ASSUME NEW j \in Jobs, dir[j] = "finished" PROVE results'[<<j, by[j]>>] = results[<<j, by[j]>>]
    <3>1. <<j, by[j]>> \in Jobs \X Nodes /\ <<j, by[j]>> # Result(p)
      BY <1>2, <2>2, <2>3, FinishedPlace DEF Result, In
    <3> QED
      BY <1>1, <3>1 DEF SaveEnd, TypeOK
  <2> QED
    BY <1>2, <2>1, <2>3 DEF SaveEnd, FinishedRecorded, Holds
<1> QED
  BY <1>6, <1>7 DEF ProjectInv

LEMMA InvGrab ==
  ASSUME TypeOK, ProjectInv, OnePerNode, CriticalKept, NEW p \in Procs, Grab(p)
  PROVE  ProjectInv'
<1>1. /\ job[p] \in Jobs /\ NodeOf[p] \in Nodes
      /\ FileOf(p) \in Files /\ Result(p) \in Jobs \X Nodes
  BY RunningProcess DEF Grab
<1>2. ValidationWhole /\ HeldInPlace /\ FinishedRecorded /\ \A q \in Procs : ProcInv(q)
  BY DEF ProjectInv
<1>a. /\ job'[p] = job[p] /\ validation' = validation
      /\ noErrors[p] \in BOOLEAN /\ ProcInv(p)
  BY <1>2 DEF Grab, TypeOK, fileVars
<1>b. /\ FileOf(p)' = FileOf(p) /\ Result(p)' = Result(p)
      /\ Old(FileOf(p))' = Old(FileOf(p)) /\ Holds(FileOf(p))' = Holds(FileOf(p))
  BY <1>a, SameFiles
<1>c. In(job[p], "working", NodeOf[p])'
  BY <1>1, <1>a, Moved DEF Grab, In
<1>3. ProcInv(p)'
  BY <1>1, <1>a, <1>b, <1>c DEF Grab, ProcInv, Goto, TypeOK, fileVars, opVars
<1>4. /\ \A q \in Procs \ {p} :
           /\ pc'[q] = pc[q] /\ job'[q] = job[q] /\ noErrors'[q] = noErrors[q]
           /\ fileData'[q] = fileData[q] /\ fd'[q] = fd[q]
      /\ \A f \in Files \ {FileOf(p)} : tmp'[f] = tmp[f] /\ validation'[f] = validation[f]
      /\ \A r \in (Jobs \X Nodes) \ {Result(p)} : results'[r] = results[r]
  BY <1>1 DEF Grab, fileVars, opVars, Goto, Exit, TypeOK
<1>5. \A i \in Jobs : \A n \in Nodes \ {NodeOf[p]} :
        In(i, "critical", n) => In(i, "critical", n)'
  BY <1>1 DEF Grab, In, MoveJob, TypeOK, fileVars
<1>6. \A q \in Procs : ProcInv(q)'
  BY <1>2, <1>3, <1>4, <1>5, Others
<1>7. ValidationWhole' /\ HeldInPlace' /\ FinishedRecorded'
  <2>1. ValidationWhole' /\ \A f \in Files : Holds(f)' = Holds(f)
    BY <1>2 DEF Grab, ValidationWhole, Holds, fileVars
  <2>2. /\ dir'[job[p]] = ("working") /\ by'[job[p]] = NodeOf[p]
        /\ \A i \in Jobs \ {job[p]} : dir'[i] = dir[i] /\ by'[i] = by[i]
    BY <1>1, Moved DEF Grab
  <2>3. dir[job[p]] = "jobs"
    BY DEF Grab, In
  <2>4. HeldInPlace'
    <3> SUFFICES ASSUME NEW f \in Files, NEW j \in Holds(f)
                 PROVE  f = <<by'[j], SetOf[j]>> /\ dir'[j] \in {"critical", "finished"}
      BY <2>1 DEF HeldInPlace
    <3>1. j \in Jobs
      BY DEF Holds, TypeOK, Contents
    <3>2. f = <<by[j], SetOf[j]>> /\ dir[j] \in {"critical", "finished"}
      BY <1>2 DEF HeldInPlace
    <3> QED
      BY <2>2, <2>3, <3>1, <3>2
  <2>5. FinishedRecorded'
    BY <1>2, <2>1, <2>2, FinishedPlace DEF Grab, FinishedRecorded
  <2> QED
    BY <2>1, <2>4, <2>5
<1> QED
  BY <1>6, <1>7 DEF ProjectInv

LEMMA InvEnterCritical ==
  ASSUME TypeOK, ProjectInv, OnePerNode, CriticalKept, NEW p \in Procs, EnterCritical(p)
  PROVE  ProjectInv'
<1>1. /\ job[p] \in Jobs /\ NodeOf[p] \in Nodes
      /\ FileOf(p) \in Files /\ Result(p) \in Jobs \X Nodes
  BY RunningProcess DEF EnterCritical
<1>2. ValidationWhole /\ HeldInPlace /\ FinishedRecorded /\ \A q \in Procs : ProcInv(q)
  BY DEF ProjectInv
<1>d. job[p] \notin Holds(FileOf(p))
  BY <1>1, <1>2 DEF EnterCritical, HeldInPlace, In
<1>a. /\ job'[p] = job[p] /\ validation' = validation
      /\ noErrors[p] \in BOOLEAN /\ ProcInv(p)
  BY <1>2 DEF EnterCritical, TypeOK, fileVars
<1>b. /\ FileOf(p)' = FileOf(p) /\ Result(p)' = Result(p)
      /\ Old(FileOf(p))' = Old(FileOf(p)) /\ Holds(FileOf(p))' = Holds(FileOf(p))
  BY <1>a, SameFiles
<1>c. In(job[p], "critical", NodeOf[p])'
  BY <1>1, <1>a, Moved DEF EnterCritical, In
<1>3. ProcInv(p)'
  BY <1>1, <1>a, <1>b, <1>c, <1>d DEF EnterCritical, ProcInv, Goto, TypeOK, fileVars, opVars
<1>4. /\ \A q \in Procs \ {p} :
           /\ pc'[q] = pc[q] /\ job'[q] = job[q] /\ noErrors'[q] = noErrors[q]
           /\ fileData'[q] = fileData[q] /\ fd'[q] = fd[q]
      /\ \A f \in Files \ {FileOf(p)} : tmp'[f] = tmp[f] /\ validation'[f] = validation[f]
      /\ \A r \in (Jobs \X Nodes) \ {Result(p)} : results'[r] = results[r]
  BY <1>1 DEF EnterCritical, fileVars, opVars, Goto, Exit, TypeOK
<1>5. \A i \in Jobs : \A n \in Nodes \ {NodeOf[p]} :
        In(i, "critical", n) => In(i, "critical", n)'
  BY <1>1 DEF EnterCritical, In, MoveJob, TypeOK, fileVars
<1>6. \A q \in Procs : ProcInv(q)'
  BY <1>2, <1>3, <1>4, <1>5, Others
<1>7. ValidationWhole' /\ HeldInPlace' /\ FinishedRecorded'
  <2>1. ValidationWhole' /\ \A f \in Files : Holds(f)' = Holds(f)
    BY <1>2 DEF EnterCritical, ValidationWhole, Holds, fileVars
  <2>2. /\ dir'[job[p]] = ("critical") /\ by'[job[p]] = NodeOf[p]
        /\ \A i \in Jobs \ {job[p]} : dir'[i] = dir[i] /\ by'[i] = by[i]
    BY <1>1, Moved DEF EnterCritical
  <2>3. dir[job[p]] = "working"
    BY DEF EnterCritical, In
  <2>4. HeldInPlace'
    <3> SUFFICES ASSUME NEW f \in Files, NEW j \in Holds(f)
                 PROVE  f = <<by'[j], SetOf[j]>> /\ dir'[j] \in {"critical", "finished"}
      BY <2>1 DEF HeldInPlace
    <3>1. j \in Jobs
      BY DEF Holds, TypeOK, Contents
    <3>2. f = <<by[j], SetOf[j]>> /\ dir[j] \in {"critical", "finished"}
      BY <1>2 DEF HeldInPlace
    <3> QED
      BY <2>2, <2>3, <3>1, <3>2
  <2>5. FinishedRecorded'
    BY <1>2, <2>1, <2>2, FinishedPlace DEF EnterCritical, FinishedRecorded
  <2> QED
    BY <2>1, <2>4, <2>5
<1> QED
  BY <1>6, <1>7 DEF ProjectInv

LEMMA InvFinish ==
  ASSUME TypeOK, ProjectInv, OnePerNode, CriticalKept, NEW p \in Procs, Finish(p)
  PROVE  ProjectInv'
<1>1. /\ job[p] \in Jobs /\ NodeOf[p] \in Nodes
      /\ FileOf(p) \in Files /\ Result(p) \in Jobs \X Nodes
  BY RunningProcess DEF Finish
<1>2. ValidationWhole /\ HeldInPlace /\ FinishedRecorded /\ \A q \in Procs : ProcInv(q)
  BY DEF ProjectInv
<1>3. ProcInv(p)'
  BY ExitProcInv DEF Finish
<1>4. /\ \A q \in Procs \ {p} :
           /\ pc'[q] = pc[q] /\ job'[q] = job[q] /\ noErrors'[q] = noErrors[q]
           /\ fileData'[q] = fileData[q] /\ fd'[q] = fd[q]
      /\ \A f \in Files \ {FileOf(p)} : tmp'[f] = tmp[f] /\ validation'[f] = validation[f]
      /\ \A r \in (Jobs \X Nodes) \ {Result(p)} : results'[r] = results[r]
  BY <1>1 DEF Finish, fileVars, opVars, Goto, Exit, TypeOK
<1>5. \A i \in Jobs : \A n \in Nodes \ {NodeOf[p]} :
        In(i, "critical", n) => In(i, "critical", n)'
  BY <1>1 DEF Finish, In, MoveJob, TypeOK, fileVars
<1>6. \A q \in Procs : ProcInv(q)'
  BY <1>2, <1>3, <1>4, <1>5, Others
<1>7. ValidationWhole' /\ HeldInPlace' /\ FinishedRecorded'
  <2>1. ValidationWhole' /\ \A f \in Files : Holds(f)' = Holds(f)
    BY <1>2 DEF Finish, ValidationWhole, Holds, fileVars
  <2>2. /\ dir'[job[p]] = (IF noErrors[p] THEN "finished" ELSE "wrong_finished") /\ by'[job[p]] = NodeOf[p]
        /\ \A i \in Jobs \ {job[p]} : dir'[i] = dir[i] /\ by'[i] = by[i]
    BY <1>1, Moved DEF Finish
  <2>3. /\ In(job[p], "critical", NodeOf[p]) /\ noErrors[p] \in BOOLEAN
        /\ noErrors[p] => results[Result(p)] = "whole" /\ job[p] \in Holds(FileOf(p))
        /\ ~noErrors[p] => job[p] \notin Holds(FileOf(p))
    BY <1>2 DEF Finish, ProcInv, TypeOK
  <2>4. HeldInPlace'
    <3> SUFFICES ASSUME NEW f \in Files, NEW j \in Holds(f)
                 PROVE  f = <<by'[j], SetOf[j]>> /\ dir'[j] \in {"critical", "finished"}
      BY <2>1 DEF HeldInPlace
    <3>1. j \in Jobs
      BY DEF Holds, TypeOK, Contents
    <3>2. f = <<by[j], SetOf[j]>> /\ dir[j] \in {"critical", "finished"}
      BY <1>2 DEF HeldInPlace
    <3>3. CASE j = job[p]
      BY <2>2, <2>3, <3>2, <3>3 DEF In, FileOf
    <3>4. CASE j # job[p]
      BY <2>2, <3>1, <3>2, <3>4
    <3> QED
      BY <3>3, <3>4
  <2>5. FinishedRecorded'
    <3> SUFFICES ASSUME NEW j \in Jobs, dir'[j] = "finished"
                 PROVE  /\ by'[j] \in Nodes /\ results'[<<j, by'[j]>>] = "whole"
                        /\ j \in Holds(<<by[j], SetOf[j]>>)'
      BY DEF FinishedRecorded
    <3>1. Holds(<<by[j], SetOf[j]>>)' = Holds(<<by'[j], SetOf[j]>>) /\ results' = results
      BY DEF Finish, Holds
    <3>2. CASE j = job[p]
      BY <1>1, <2>2, <2>3, <3>1, <3>2 DEF Result, FileOf
    <3>3. CASE j # job[p]
      BY <1>2, <2>2, <3>1, <3>3 DEF FinishedRecorded
    <3> QED
      BY <3>2, <3>3
  <2> QED
    BY <2>1, <2>4, <2>5
<1> QED
  BY <1>6, <1>7 DEF ProjectInv

\* The rename of the _tmp file adds the job to the node's validation file.
LEMMA CommitEffect ==
  ASSUME TypeOK, ProjectInv, OnePerNode, NEW p \in Procs, CommitValidation(p)
  PROVE  /\ noErrors[p] /\ results[Result(p)] = "whole"
         /\ In(job[p], "critical", NodeOf[p]) /\ job[p] \notin Holds(FileOf(p))
         /\ tmp' = [tmp EXCEPT ![FileOf(p)] = NoFile]
         /\ validation' = [validation EXCEPT ![FileOf(p)] = Old(FileOf(p)) \cup {job[p]}]
         /\ validation'[FileOf(p)] # Torn
         /\ Holds(FileOf(p))' = Old(FileOf(p)) \cup {job[p]}
         /\ \A f \in Files \ {FileOf(p)} : Holds(f)' = Holds(f)
         /\ UNCHANGED <<dir, by, results, job, noErrors, fileData, fd>>
         /\ pc' = [pc EXCEPT ![p] = "committed"]
<1>1. /\ job[p] \in Jobs /\ NodeOf[p] \in Nodes
      /\ FileOf(p) \in Files /\ Result(p) \in Jobs \X Nodes
  BY RunningProcess DEF CommitValidation
<1>2. ValidationWhole /\ HeldInPlace /\ FinishedRecorded /\ \A q \in Procs : ProcInv(q)
  BY DEF ProjectInv
<1>3. /\ noErrors[p] /\ results[Result(p)] = "whole"
      /\ In(job[p], "critical", NodeOf[p]) /\ job[p] \notin Holds(FileOf(p))
      /\ tmp[FileOf(p)] = Old(FileOf(p)) \cup {job[p]}
  BY <1>2 DEF CommitValidation, ProcInv
<1>4. Old(FileOf(p)) \in Contents
  BY <1>1, <1>2 DEF Old, ValidationWhole, TypeOK, Contents
<1>5. /\ tmp[FileOf(p)] \in Contents
      /\ tmp[FileOf(p)] # NoFile /\ tmp[FileOf(p)] # Torn
  BY <1>1, <1>3, <1>4, ContentsAreNoMark DEF Contents
<1>6. /\ validation' = [validation EXCEPT ![FileOf(p)] = Old(FileOf(p)) \cup {job[p]}]
      /\ UNCHANGED <<dir, by, results, job, noErrors, fileData>>
      /\ pc' = [pc EXCEPT ![p] = "committed"]
      /\ tmp' = [tmp EXCEPT ![FileOf(p)] = NoFile]
  BY <1>3, <1>5 DEF CommitValidation, Goto
<1>7. fd' = fd
  <2>1. ASSUME NEW q \in Procs PROVE fd'[q] = fd[q]
    <3>1. CASE q = p
      BY <1>2, <1>5, <3>1 DEF CommitValidation, ProcInv
    <3>2. CASE q # p
      BY <1>5, <3>2, OtherFiles DEF CommitValidation
    <3> QED
      BY <3>1, <3>2
  <2> QED
    BY <1>5, <2>1 DEF CommitValidation, TypeOK
<1>8. /\ Holds(FileOf(p))' = Old(FileOf(p)) \cup {job[p]}
      /\ \A f \in Files \ {FileOf(p)} : Holds(f)' = Holds(f)
  BY <1>1, <1>3, <1>5, <1>6 DEF Holds, TypeOK, FileOf
<1>9. validation'[FileOf(p)] # Torn
  BY <1>1, <1>3, <1>5, <1>6 DEF TypeOK
<1> QED
  BY <1>3, <1>6, <1>7, <1>8, <1>9

LEMMA CommitGrows ==
  ASSUME TypeOK, ProjectInv, OnePerNode, NEW p \in Procs, CommitValidation(p)
  PROVE  \A f \in Files : Holds(f) \subseteq Holds(f)'
<1>1. FileOf(p) \in Files /\ FileOf(p)' = FileOf(p)
  BY CommitEffect, RunningProcess DEF CommitValidation, FileOf
<1>2. Holds(FileOf(p)) = Old(FileOf(p))
  BY <1>1, HoldsIsOld DEF ProjectInv
<1>3. ASSUME NEW f \in Files, f # FileOf(p) PROVE Holds(f)' = Holds(f)
  BY <1>3, CommitEffect
<1>4. Holds(FileOf(p)) \subseteq Holds(FileOf(p))'
  BY <1>2, CommitEffect
<1>5. ASSUME NEW f \in Files, f = FileOf(p) PROVE Holds(f)' = Holds(FileOf(p))'
  BY <1>1, <1>5 DEF Holds
<1> QED
  BY <1>3, <1>4, <1>5

LEMMA InvCommitValidation ==
  ASSUME TypeOK, ProjectInv, OnePerNode, CriticalKept, NEW p \in Procs, CommitValidation(p)
  PROVE  ProjectInv'
<1>1. /\ job[p] \in Jobs /\ NodeOf[p] \in Nodes
      /\ FileOf(p) \in Files /\ Result(p) \in Jobs \X Nodes
  BY RunningProcess DEF CommitValidation
<1>2. ValidationWhole /\ HeldInPlace /\ FinishedRecorded /\ \A q \in Procs : ProcInv(q)
  BY DEF ProjectInv
<1>3. ProcInv(p)'
  <2>1. FileOf(p)' = FileOf(p) /\ Result(p)' = Result(p)
    BY CommitEffect DEF FileOf, Result
  <2> QED
    BY <1>1, <1>2, CommitEffect, <2>1 DEF ProcInv, In, TypeOK, CommitValidation
<1>4. /\ \A q \in Procs \ {p} :
           /\ pc'[q] = pc[q] /\ job'[q] = job[q] /\ noErrors'[q] = noErrors[q]
           /\ fileData'[q] = fileData[q] /\ fd'[q] = fd[q]
      /\ \A f \in Files \ {FileOf(p)} : tmp'[f] = tmp[f] /\ validation'[f] = validation[f]
      /\ \A r \in (Jobs \X Nodes) \ {Result(p)} : results'[r] = results[r]
  BY <1>1, CommitEffect DEF TypeOK
<1>5. \A i \in Jobs : \A n \in Nodes \ {NodeOf[p]} :
        In(i, "critical", n) => In(i, "critical", n)'
  BY CommitEffect DEF In, MoveJob, TypeOK, fileVars
<1>6. \A q \in Procs : ProcInv(q)'
  BY <1>2, <1>3, <1>4, <1>5, Others
<1>7. ValidationWhole' /\ HeldInPlace' /\ FinishedRecorded'
  <2>1. ValidationWhole'
    BY <1>1, <1>2, CommitEffect DEF ValidationWhole, TypeOK
  <2>2. HeldInPlace'
    <3>1. /\ Holds(FileOf(p))' = Holds(FileOf(p)) \cup {job[p]}
          /\ by[job[p]] = NodeOf[p] /\ dir[job[p]] = "critical"
          /\ dir' = dir /\ by' = by
      BY <1>1, <1>2, CommitEffect, HoldsIsOld DEF In
    <3>2. ASSUME NEW f \in Files, f # FileOf(p) PROVE Holds(f)' = Holds(f)
      BY <3>2, CommitEffect
    <3>3. FileOf(p)' = FileOf(p)
      BY CommitEffect DEF FileOf
    <3>4. ASSUME NEW f \in Files, f = FileOf(p) PROVE Holds(f)' = Holds(FileOf(p)) \cup {job[p]}
      BY <3>1, <3>3, <3>4 DEF Holds
    <3>5. FileOf(p) = <<by[job[p]], SetOf[job[p]]>>
      BY <3>1 DEF FileOf
    <3> QED
      BY <1>2, <3>1, <3>2, <3>4, <3>5 DEF HeldInPlace
  <2>3. FinishedRecorded'
    <3>1. \A f \in Files : Holds(f) \subseteq Holds(f)'
      BY CommitGrows
    <3>2. ASSUME NEW j \in Jobs, dir[j] = "finished" PROVE <<by[j], SetOf[j]>> \in Files
      BY <1>2, <3>2, ProjectAssumption DEF FinishedRecorded, Files
    <3> QED
      BY <1>2, CommitEffect, <3>1, <3>2 DEF FinishedRecorded
  <2> QED
    BY <2>1, <2>2, <2>3
<1> QED
  BY <1>6, <1>7 DEF ProjectInv

LEMMA InvStart ==
  ASSUME TypeOK, ProjectInv, OnePerNode, CriticalKept,
         NEW p \in Procs, NEW j \in Jobs, Start(p, j)
  PROVE  ProjectInv'
<1>2. ValidationWhole /\ HeldInPlace /\ FinishedRecorded /\ \A q \in Procs : ProcInv(q)
  BY DEF ProjectInv
<1>3. ProcInv(p)'
  BY <1>2 DEF Start, ProcInv, Goto, TypeOK
<1>4. /\ \A q \in Procs \ {p} :
           /\ pc'[q] = pc[q] /\ job'[q] = job[q] /\ noErrors'[q] = noErrors[q]
           /\ fileData'[q] = fileData[q] /\ fd'[q] = fd[q]
      /\ \A f \in Files \ {FileOf(p)} : tmp'[f] = tmp[f] /\ validation'[f] = validation[f]
      /\ \A r \in (Jobs \X Nodes) \ {Result(p)} : results'[r] = results[r]
  BY DEF Start, fileVars, opVars, Goto, Exit, TypeOK
<1>5. \A i \in Jobs : \A n \in Nodes \ {NodeOf[p]} :
        In(i, "critical", n) => In(i, "critical", n)'
  BY DEF Start, In, fileVars
<1>6. \A q \in Procs : ProcInv(q)'
  BY <1>2, <1>3, <1>4, <1>5, Others
<1>7. ValidationWhole' /\ HeldInPlace' /\ FinishedRecorded'
  BY <1>2, Quiet DEF Start, fileVars
<1> QED
  BY <1>6, <1>7 DEF ProjectInv

LEMMA InvReset ==
  ASSUME TypeOK, ProjectInv, OnePerNode, CriticalKept, NEW j \in Jobs, Reset(j)
  PROVE  ProjectInv'
<1>1. ValidationWhole /\ HeldInPlace /\ FinishedRecorded /\ \A q \in Procs : ProcInv(q)
  BY DEF ProjectInv
<1>2. dir[j] \notin {"critical", "finished"}
  BY ProjectAssumption DEF Reset, CriticalKept
<1>3. /\ \A i \in Jobs \ {j} : dir'[i] = dir[i] /\ by'[i] = by[i]
      /\ dir'[j] = "jobs"
      /\ UNCHANGED <<results, validation, tmp, pc, job, noErrors, fileData, fd>>
  BY DEF Reset, MoveJob, TypeOK, procVars
<1>4. \A f \in Files : Holds(f)' = Holds(f)
  BY <1>3 DEF Holds
<1>6. ASSUME NEW q \in Procs PROVE ProcInv(q)'
  <2>1. pc[q] # "idle" /\ In(job[q], "critical", NodeOf[q]) => In(job[q], "critical", NodeOf[q])'
    BY <1>2, <1>3, RunningProcess DEF In
  <2> QED
    BY <1>1, <1>3, <2>1, Frame
<1>7. ValidationWhole' /\ HeldInPlace' /\ FinishedRecorded'
  <2>1. ValidationWhole' /\ HeldInPlace'
    <3>1. ASSUME NEW f \in Files, NEW i \in Holds(f) PROVE i \in Jobs
      BY <3>1 DEF Holds, TypeOK, Contents
    <3> QED
      BY <1>1, <1>2, <1>3, <1>4, <3>1 DEF ValidationWhole, HeldInPlace
  <2>2. FinishedRecorded'
    BY <1>1, <1>2, <1>3 DEF FinishedRecorded, Holds
  <2> QED
    BY <2>1, <2>2
<1> QED
  BY <1>6, <1>7 DEF ProjectInv

LEMMA InvQuiet ==
  ASSUME ProjectInv, UNCHANGED <<fileVars, procVars>>
  PROVE  ProjectInv'
<1>1. ValidationWhole' /\ HeldInPlace' /\ FinishedRecorded'
  BY Quiet DEF fileVars
<1>2. ASSUME NEW q \in Procs PROVE ProcInv(q)'
  BY Frame DEF ProjectInv, In, fileVars, procVars
<1> QED
  BY <1>1, <1>2 DEF ProjectInv

LEMMA InvStep ==
  ASSUME TypeOK, ProjectInv, OnePerNode, CriticalKept, [Next]_vars
  PROVE  ProjectInv'
<1>1. ASSUME NEW p \in Procs, Grab(p) PROVE ProjectInv'
  BY <1>1, InvGrab
<1>2. ASSUME NEW p \in Procs, RenameThrows(p) PROVE ProjectInv'
  BY <1>2, InvRenameThrows
<1>3. ASSUME NEW p \in Procs, Compute(p) PROVE ProjectInv'
  BY <1>3, InvCompute
<1>4. ASSUME NEW p \in Procs, ReadValidation(p) PROVE ProjectInv'
  BY <1>4, InvReadValidation
<1>5. ASSUME NEW p \in Procs, WriteBegin(p) PROVE ProjectInv'
  BY <1>5, InvWriteBegin
<1>6. ASSUME NEW p \in Procs, WriteEnd(p) PROVE ProjectInv'
  BY <1>6, InvWriteEnd
<1>7. ASSUME NEW p \in Procs, CheckAgain(p) PROVE ProjectInv'
  BY <1>7, InvCheckAgain
<1>8. ASSUME NEW p \in Procs, EnterCritical(p) PROVE ProjectInv'
  BY <1>8, InvEnterCritical
<1>9. ASSUME NEW p \in Procs, SaveBegin(p) PROVE ProjectInv'
  BY <1>9, InvSaveBegin
<1>10. ASSUME NEW p \in Procs, SaveEnd(p) PROVE ProjectInv'
  BY <1>10, InvSaveEnd
<1>11. ASSUME NEW p \in Procs, CommitValidation(p) PROVE ProjectInv'
  BY <1>11, InvCommitValidation
<1>12. ASSUME NEW p \in Procs, Finish(p) PROVE ProjectInv'
  BY <1>12, InvFinish
<1>13. ASSUME NEW p \in Procs, Crash(p) PROVE ProjectInv'
  BY <1>13, InvCrash
<1>14. ASSUME NEW p \in Procs, NEW j \in Jobs, Start(p, j) PROVE ProjectInv'
  BY <1>14, InvStart
<1>15. ASSUME NEW j \in Jobs, Reset(j) PROVE ProjectInv'
  BY <1>15, InvReset
<1>16. ASSUME Collect \/ Collecting PROVE ProjectInv'
  BY <1>16, InvQuiet DEF Collect, Collecting, CollectResults, CollectValidation
<1>17. ASSUME UNCHANGED vars PROVE ProjectInv'
  BY <1>17, InvQuiet DEF vars
<1> QED
  BY <1>1, <1>2, <1>3, <1>4, <1>5, <1>6, <1>7, <1>8, <1>9, <1>10, <1>11, <1>12, <1>13, <1>14, <1>15, <1>16, <1>17 DEF Next, ProcStep, Quiescent

----------------------------------------------------------------------------
(* Theorems.                                                               *)

\* The inductive invariant of a project with one process per node whose
\* critical jobs are not reset.
THEOREM ProjectHolds ==
  ASSUME OnePerNode, CriticalKept
  PROVE  Spec => []ProjectInv
<1>1. TypeOK /\ ProjectInv /\ [Next]_vars => ProjectInv'
  BY InvStep
<1> QED
  BY ProjectInvInit, <1>1, ProjectTypeOK, PTL DEF Spec

\* A finished job has its results and is in its node's validation file.
THEOREM FinishedIsRecorded ==
  ASSUME OnePerNode, CriticalKept
  PROVE  Spec => []FinishedRecorded
<1>1. ProjectInv => FinishedRecorded
  BY DEF ProjectInv
<1> QED
  BY <1>1, ProjectHolds, PTL

\* No crash leaves a validation file half written.
THEOREM ValidationStaysWhole ==
  ASSUME OnePerNode, CriticalKept
  PROVE  Spec => []ValidationWhole
<1>1. ProjectInv => ValidationWhole
  BY DEF ProjectInv
<1> QED
  BY <1>1, ProjectHolds, PTL

\* What a step does to the validation files.
LEMMA HoldsStep ==
  ASSUME TypeOK, ProjectInv, OnePerNode, [Next]_vars
  PROVE  \/ \A f \in Files : Holds(f)' = Holds(f)
         \/ \E p \in Procs : CommitValidation(p)
<1>1. ASSUME NEW p \in Procs, WriteEnd(p) PROVE \A f \in Files : Holds(f)' = Holds(f)
  BY <1>1, WriteEndEffect DEF Holds
<1>2. ASSUME NEW p \in Procs, ProcStep(p), ~WriteEnd(p), ~CommitValidation(p)
      PROVE  \A f \in Files : Holds(f)' = Holds(f)
  BY <1>2 DEF ProcStep, Grab, RenameThrows, Compute, ReadValidation, WriteBegin, CheckAgain,
       EnterCritical, SaveBegin, SaveEnd, Finish, Holds, fileVars
<1>3. ASSUME NEW p \in Procs, Crash(p) \/ \E j \in Jobs : Start(p, j)
      PROVE  \A f \in Files : Holds(f)' = Holds(f)
  BY <1>3 DEF Crash, Start, Holds, fileVars
<1>4. ASSUME (\E j \in Jobs : Reset(j)) \/ Collect \/ Collecting \/ UNCHANGED vars
      PROVE  \A f \in Files : Holds(f)' = Holds(f)
  BY <1>4 DEF Reset, Collect, Collecting, CollectResults, CollectValidation, Holds, vars, fileVars
<1> QED
  BY <1>1, <1>2, <1>3, <1>4 DEF Next, Quiescent

\* Nothing is taken out of a validation file.
THEOREM ValidationOnlyGrows ==
  ASSUME OnePerNode, CriticalKept
  PROVE  Spec => ValidationGrows
<1>1. TypeOK /\ ProjectInv /\ [Next]_vars => [\A f \in Files : Holds(f) \subseteq Holds(f)']_vars
  <2> SUFFICES ASSUME TypeOK, ProjectInv, [Next]_vars
               PROVE  \A f \in Files : Holds(f) \subseteq Holds(f)'
    OBVIOUS
  <2>1. ASSUME NEW p \in Procs, CommitValidation(p)
        PROVE  \A f \in Files : Holds(f) \subseteq Holds(f)'
    BY <2>1, CommitGrows
  <2> QED
    BY <2>1, HoldsStep
<1> QED
  BY <1>1, ProjectTypeOK, ProjectHolds, PTL DEF Spec, ValidationGrows

\* The two kinds of steps of OnceLedger.
LEMMA CommitCounts ==
  ASSUME TypeOK, ProjectInv, OnePerNode, NEW p \in Procs, CommitValidation(p)
  PROVE  \E j \in Jobs : \E n \in Nodes : Ledger!Count(j, n)
<1>1. job[p] \in Jobs /\ NodeOf[p] \in Nodes /\ FileOf(p) \in Files
  BY RunningProcess DEF CommitValidation
<1>2. FileOf(p) = <<NodeOf[p], SetOf[job[p]]>>
  BY DEF FileOf
<1>3. ASSUME NEW n \in Nodes PROVE job[p] \notin Holds(<<n, SetOf[job[p]]>>)
  <2> SUFFICES ASSUME job[p] \in Holds(<<n, SetOf[job[p]]>>) PROVE FALSE
    OBVIOUS
  <2>1. <<n, SetOf[job[p]]>> \in Files
    BY <1>1, ProjectAssumption DEF Files
  <2>2. n = by[job[p]]
    BY <2>1 DEF ProjectInv, HeldInPlace
  <2> QED
    BY <1>2, <2>2, CommitEffect DEF In
<1>4. ASSUME NEW j \in Jobs, NEW n \in Nodes
      PROVE  j \in Holds(<<n, SetOf[j]>>)' <=>
               j \in Holds(<<n, SetOf[j]>>) \/ (j = job[p] /\ n = NodeOf[p])
  <2>1. <<n, SetOf[j]>> \in Files
    BY ProjectAssumption DEF Files
  <2>2. CASE <<n, SetOf[j]>> = FileOf(p)
    <3>1. Holds(<<n, SetOf[j]>>)' = Holds(FileOf(p)) \cup {job[p]}
      <4>1. Holds(FileOf(p))' = Holds(FileOf(p)) \cup {job[p]}
        BY <1>1, CommitEffect, HoldsIsOld DEF ProjectInv
      <4>2. FileOf(p)' = FileOf(p)
        BY CommitEffect DEF FileOf
      <4> QED
        BY <2>2, <4>1, <4>2 DEF Holds
    <3> QED
      BY <1>2, <2>2, <3>1
  <2>3. CASE <<n, SetOf[j]>> # FileOf(p)
    BY <1>2, <2>1, <2>3, CommitEffect
  <2> QED
    BY <2>2, <2>3
<1>5. UNCHANGED dir
  BY CommitEffect
<1>6. {n \in Nodes : job[p] \in Holds(<<n, SetOf[job[p]]>>)} = {}
  BY <1>3
<1>7. ASSUME NEW j \in Jobs
      PROVE  {n \in Nodes : j \in Holds(<<n, SetOf[j]>>)'}
               = IF j = job[p] THEN {NodeOf[p]} ELSE {n \in Nodes : j \in Holds(<<n, SetOf[j]>>)}
  BY <1>1, <1>3, <1>4
<1> DEFINE counts == [j \in Jobs |-> {n \in Nodes : j \in Holds(<<n, SetOf[j]>>)}]
<1>8. counts[job[p]] = {} /\ counts' = [counts EXCEPT ![job[p]] = {NodeOf[p]}]
  BY <1>1, <1>6, <1>7
<1>9. {j \in Jobs : dir'[j] = "finished"} = {j \in Jobs : dir[j] = "finished"}
  BY <1>5
<1> QED
  BY <1>1, <1>8, <1>9 DEF Ledger!Count

\* Every step is a step of the ledger or leaves it alone.
LEMMA LedgerStep ==
  ASSUME TypeOK, ProjectInv, OnePerNode, CriticalKept, [Next]_vars
  PROVE  [Ledger!Next]_(Ledger!vars)
<1>1. CASE \E p \in Procs : CommitValidation(p)
  <2>1. PICK p \in Procs : CommitValidation(p)
    BY <1>1
  <2> QED
    BY <2>1, CommitCounts DEF Ledger!Next
<1>2. CASE \E p \in Procs : Finish(p)
  <2>1. PICK p \in Procs : Finish(p)
    BY <1>2
  <2>2. job[p] \in Jobs /\ NodeOf[p] \in Nodes /\ FileOf(p) \in Files
    BY <2>1, RunningProcess DEF Finish
  <2>3. /\ dir'[job[p]] = IF noErrors[p] THEN "finished" ELSE "wrong_finished"
        /\ \A i \in Jobs \ {job[p]} : dir'[i] = dir[i]
    BY <2>1, <2>2, Moved DEF Finish
  <2>4. \A f : Holds(f)' = Holds(f)
    BY <2>1 DEF Finish, Holds
  <2>5. /\ dir[job[p]] = "critical"
        /\ noErrors[p] => job[p] \in Holds(FileOf(p))
    BY <2>1 DEF Finish, In, ProjectInv, ProcInv
  <2>6. noErrors[p] => \E j \in Jobs : Ledger!Finish(j)
    BY <2>2, <2>3, <2>4, <2>5 DEF Ledger!Finish, FileOf
  <2>7. ~noErrors[p] => UNCHANGED Ledger!vars
    BY <2>2, <2>3, <2>4, <2>5 DEF Ledger!vars
  <2>8. noErrors[p] => Ledger!Next
    BY <2>6 DEF Ledger!Next
  <2> QED
    BY <2>7, <2>8
<1>3. CASE ~(\E p \in Procs : CommitValidation(p)) /\ ~(\E p \in Procs : Finish(p))
  <2>1. \A f \in Files : Holds(f)' = Holds(f)
    BY <1>3, HoldsStep
  <2>2. \A j \in Jobs, n \in Nodes : Holds(<<n, SetOf[j]>>)' = Holds(<<n, SetOf[j]>>)
    BY <2>1, ProjectAssumption DEF Files
  <2>3. \A j \in Jobs : dir'[j] = "finished" <=> dir[j] = "finished"
    <3>1. ASSUME NEW p \in Procs, Grab(p) \/ EnterCritical(p)
          PROVE  \A j \in Jobs : dir'[j] = "finished" <=> dir[j] = "finished"
      BY <3>1 DEF Grab, EnterCritical, MoveJob, In, TypeOK
    <3>2. ASSUME NEW p \in Procs, ProcStep(p), ~Grab(p), ~EnterCritical(p), ~Finish(p)
          PROVE  dir' = dir
      BY <3>2 DEF ProcStep, RenameThrows, Compute, ReadValidation, WriteBegin, WriteEnd,
           CheckAgain, SaveBegin, SaveEnd, CommitValidation, fileVars
    <3>3. ASSUME NEW p \in Procs, Crash(p) \/ \E j \in Jobs : Start(p, j)
          PROVE  dir' = dir
      BY <3>3 DEF Crash, Start, fileVars
    <3>4. ASSUME NEW j \in Jobs, Reset(j)
          PROVE  \A i \in Jobs : dir'[i] = "finished" <=> dir[i] = "finished"
      BY <3>4, ProjectAssumption DEF Reset, MoveJob, TypeOK
    <3>5. ASSUME Collect \/ Collecting \/ UNCHANGED vars
          PROVE  dir' = dir
      BY <3>5 DEF Collect, Collecting, CollectResults, CollectValidation, vars, fileVars
    <3> QED
      BY <1>3, <3>1, <3>2, <3>3, <3>4, <3>5 DEF Next, Quiescent
  <2> QED
    BY <2>2, <2>3 DEF Ledger!vars
<1> QED
  BY <1>1, <1>2, <1>3

\* Each job is added to one validation file once, before it is finished.
THEOREM ProjectImplementsLedger ==
  ASSUME OnePerNode, CriticalKept
  PROVE  Spec => CountsOnce
<1>1. Init => Ledger!Init
  <2> SUFFICES ASSUME Init PROVE Ledger!Init
    OBVIOUS
  <2>1. \A j \in Jobs, n \in Nodes : Holds(<<n, SetOf[j]>>) = {}
    BY ProjectAssumption DEF Init, Holds, Files
  <2> QED
    BY <2>1 DEF Init, Ledger!Init
<1>2. TypeOK /\ ProjectInv /\ [Next]_vars => [Ledger!Next]_(Ledger!vars)
  BY LedgerStep
<1> QED
  BY <1>1, <1>2, ProjectTypeOK, ProjectHolds, PTL DEF Spec, CountsOnce, Ledger!Spec
----------------------------------------------------------------------------
(***************************************************************************)
(* CheckSum, the sum that collectAndProcessResults compares: of finite     *)
(* sets of entries it does not depend on the order of summation, grows     *)
(* with every entry, and is the same for any two sets that have each of    *)
(* the same jobs once.                                                     *)
(*                                                                         *)
(* CheckSum folds over the subsets of its argument, by taking some element *)
(* away. An induction over a finite set is done here by a minimal          *)
(* counterexample: strict inclusion is well founded on its subsets.        *)
(***************************************************************************)

\* A set of subsets of a finite set has a minimal member.
LEMMA MinimalSubset ==
  ASSUME NEW S, IsFiniteSet(S), NEW B, B \subseteq SUBSET S, B # {}
  PROVE  \E U \in B : \A V \in B : V \subseteq U => V = U
<1>1. IsWellFoundedOn(StrictSubsetOrdering(S), SUBSET S)
  BY FS_StrictSubsetOrderingWellFounded, FS_FiniteSubsetsOfFinite
<1>2. \E x \in B : \A y \in B : ~ (<<y, x>> \in StrictSubsetOrdering(S))
  BY <1>1, WFMin
<1> QED
  BY <1>2 DEF StrictSubsetOrdering

----------------------------------------------------------------------------
(* The fold.                                                               *)

First(s) == CHOOSE x \in s : TRUE
Rest(s)  == s \ {First(s)}
\* The equation the fold solves on the subsets of S.
Sums(g, S) ==
  g = [s \in SUBSET S |-> IF s = {} THEN 0 ELSE Weight[First(s)[1]] + g[s \ {First(s)}]]

LEMMA CheckSumIsFold ==
  ASSUME NEW S PROVE CheckSum(S) = (CHOOSE g : Sums(g, S))[S]
BY DEF CheckSum, MapThenSumSet, MapThenFoldSet, Sums, First

LEMMA SumsAt ==
  ASSUME NEW S, NEW g, Sums(g, S), NEW s \in SUBSET S
  PROVE  g[s] = IF s = {} THEN 0 ELSE Weight[First(s)[1]] + g[Rest(s)]
BY DEF Sums, Rest

LEMMA FirstIn ==
  ASSUME NEW s, s # {} PROVE First(s) \in s /\ Rest(s) \subseteq s /\ Rest(s) # s
BY DEF First, Rest

\* Two solutions agree where both are defined.
LEMMA SumsAgree ==
  ASSUME NEW S, NEW T, IsFiniteSet(S), S \subseteq T,
         NEW g, Sums(g, S), NEW h, Sums(h, T)
  PROVE  \A s \in SUBSET S : g[s] = h[s]
<1> DEFINE B == {s \in SUBSET S : g[s] # h[s]}
<1> SUFFICES ASSUME B # {} PROVE FALSE
  OBVIOUS
<1>1. PICK U \in B : \A V \in B : V \subseteq U => V = U
  <2>1. B \subseteq SUBSET S
    OBVIOUS
  <2> HIDE DEF B
  <2> QED
    BY <2>1, MinimalSubset
<1>2. /\ g[U] = IF U = {} THEN 0 ELSE Weight[First(U)[1]] + g[Rest(U)]
      /\ h[U] = IF U = {} THEN 0 ELSE Weight[First(U)[1]] + h[Rest(U)]
  BY SumsAt
<1>3. U # {}
  BY <1>2
<1>4. Rest(U) \in SUBSET S /\ Rest(U) \notin B
  BY <1>1, <1>3, FirstIn
<1> QED
  BY <1>2, <1>3, <1>4

LEMMA CheckSumIsSolution ==
  ASSUME NEW S, \E g : Sums(g, S)
  PROVE  \E g : Sums(g, S) /\ CheckSum(S) = g[S]
<1> DEFINE h == CHOOSE g : Sums(g, S)
<1>1. Sums(h, S)
  OBVIOUS
<1> QED
  BY <1>1, CheckSumIsFold

\* Where there are solutions, CheckSum follows the equation.
LEMMA CheckSumFollows ==
  ASSUME NEW S, IsFiniteSet(S), S # {}, \E g : Sums(g, S), \E g : Sums(g, Rest(S))
  PROVE  CheckSum(S) = Weight[First(S)[1]] + CheckSum(Rest(S))
<1>1. PICK g : Sums(g, S) /\ CheckSum(S) = g[S]
  BY CheckSumIsSolution
<1>2. PICK h : Sums(h, Rest(S)) /\ CheckSum(Rest(S)) = h[Rest(S)]
  BY CheckSumIsSolution
<1>3. Rest(S) \subseteq S /\ IsFiniteSet(Rest(S))
  BY FirstIn, FS_Subset
<1>4. h[Rest(S)] = g[Rest(S)]
  BY <1>1, <1>2, <1>3, SumsAgree
<1> QED
  BY <1>1, <1>2, <1>4, SumsAt

\* There is a solution on a finite set.
LEMMA SumsExist ==
  ASSUME NEW S, IsFiniteSet(S) PROVE \E g : Sums(g, S)
<1> DEFINE B == {s \in SUBSET S : ~ \E g : Sums(g, s)}
<1> SUFFICES ASSUME B # {} PROVE FALSE
  BY FS_Subset
<1>1. PICK U \in B : \A V \in B : V \subseteq U => V = U
  <2>1. B \subseteq SUBSET S
    OBVIOUS
  <2> HIDE DEF B
  <2> QED
    BY <2>1, MinimalSubset
<1>2. \A V \in SUBSET U : V # U => \E g : Sums(g, V)
  BY <1>1
<1> DEFINE g == [s \in SUBSET U |-> IF s = {} THEN 0 ELSE Weight[First(s)[1]] + CheckSum(Rest(s))]
<1>3. ASSUME NEW s \in SUBSET U, s # {} PROVE g[Rest(s)] = CheckSum(Rest(s))
  <2>1. Rest(s) \in SUBSET U /\ Rest(s) # U /\ IsFiniteSet(Rest(s))
    BY <1>3, FirstIn, FS_Subset
  <2>2. CASE Rest(s) = {}
    <3>1. PICK h : Sums(h, Rest(s)) /\ CheckSum(Rest(s)) = h[Rest(s)]
      BY <1>2, <2>1, CheckSumIsSolution
    <3> QED
      BY <2>1, <2>2, <3>1, SumsAt
  <2>3. CASE Rest(s) # {}
    <3>1. Rest(Rest(s)) \in SUBSET U /\ Rest(Rest(s)) # U
      BY <2>1, <2>3, FirstIn
    <3>2. CheckSum(Rest(s)) = Weight[First(Rest(s))[1]] + CheckSum(Rest(Rest(s)))
      BY <1>2, <2>1, <2>3, <3>1, CheckSumFollows
    <3> QED
      BY <2>1, <2>3, <3>2
  <2> QED
    BY <2>2, <2>3
<1>4. g = [s \in SUBSET U |-> IF s = {} THEN 0 ELSE Weight[First(s)[1]] + g[Rest(s)]]
  BY <1>3
<1>5. Sums(g, U)
  BY <1>4 DEF Sums, Rest
<1> QED
  BY <1>5
\* CheckSum takes the elements of a finite set one by one.
LEMMA CheckSumTakesFirst ==
  ASSUME NEW S, IsFiniteSet(S)
  PROVE  /\ S = {} => CheckSum(S) = 0
         /\ S # {} => CheckSum(S) = Weight[First(S)[1]] + CheckSum(Rest(S))
<1>1. ASSUME S = {} PROVE CheckSum(S) = 0
  <2>1. PICK g : Sums(g, S) /\ CheckSum(S) = g[S]
    BY SumsExist, CheckSumIsSolution
  <2> QED
    BY <1>1, <2>1, SumsAt
<1>2. ASSUME S # {} PROVE CheckSum(S) = Weight[First(S)[1]] + CheckSum(Rest(S))
  <2>1. IsFiniteSet(Rest(S))
    BY <1>2, FirstIn, FS_Subset
  <2> QED
    BY <1>2, <2>1, SumsExist, CheckSumFollows
<1> QED
  BY <1>1, <1>2

----------------------------------------------------------------------------
(* The order of summation.                                                 *)

\* A finite set of entries of jobs: of results files, or of the places of
\* jobs in validation files.
Entries(S) == IsFiniteSet(S) /\ \A x \in S : x[1] \in Jobs

LEMMA EntriesSubset ==
  ASSUME NEW T, Entries(T), NEW S \in SUBSET T PROVE Entries(S)
BY FS_Subset DEF Entries

LEMMA WeightPositive ==
  ASSUME NEW S, Entries(S), NEW x \in S
  PROVE  Weight[x[1]] \in Nat /\ Weight[x[1]] > 0
BY ProjectAssumption DEF Entries

LEMMA CheckSumNat ==
  ASSUME NEW S, Entries(S) PROVE CheckSum(S) \in Nat
<1> DEFINE B == {s \in SUBSET S : CheckSum(s) \notin Nat}
<1> SUFFICES ASSUME B # {} PROVE FALSE
  OBVIOUS
<1>1. PICK U \in B : \A V \in B : V \subseteq U => V = U
  <2>1. B \subseteq SUBSET S /\ IsFiniteSet(S)
    BY DEF Entries
  <2> HIDE DEF B
  <2> QED
    BY <2>1, MinimalSubset
<1>2. Entries(U) /\ IsFiniteSet(U)
  BY EntriesSubset DEF Entries
<1>3. U # {}
  BY <1>2, CheckSumTakesFirst
<1>4. Rest(U) \in SUBSET S /\ Rest(U) \notin B
  BY <1>1, <1>3, FirstIn
<1>5. CheckSum(Rest(U)) \in Nat
  BY <1>4
<1>6. Weight[First(U)[1]] \in Nat
  BY <1>2, <1>3, FirstIn, WeightPositive
<1>7. CheckSum(U) = Weight[First(U)[1]] + CheckSum(Rest(U))
  BY <1>2, <1>3, CheckSumTakesFirst
<1> QED
  BY <1>5, <1>6, <1>7

\* Any entry can be taken first.
TakesAny(S) == \A x \in S : CheckSum(S) = Weight[x[1]] + CheckSum(S \ {x})
LEMMA CheckSumTakesAny ==
  ASSUME NEW S, Entries(S) PROVE TakesAny(S)
<1> DEFINE B == {s \in SUBSET S : ~TakesAny(s)}
<1> SUFFICES ASSUME B # {} PROVE FALSE
  OBVIOUS
<1>1. PICK U \in B : \A V \in B : V \subseteq U => V = U
  <2>1. B \subseteq SUBSET S /\ IsFiniteSet(S)
    BY DEF Entries
  <2> HIDE DEF B
  <2> QED
    BY <2>1, MinimalSubset
<1>2. \A V \in SUBSET U : V # U => TakesAny(V)
  BY <1>1
<1>3. Entries(U) /\ \A V \in SUBSET U : Entries(V) /\ CheckSum(V) \in Nat
  BY EntriesSubset, CheckSumNat
<1>4. PICK x \in U : CheckSum(U) # Weight[x[1]] + CheckSum(U \ {x})
  BY DEF TakesAny
<1> DEFINE f == First(U)
<1>5. f \in U /\ CheckSum(U) = Weight[f[1]] + CheckSum(U \ {f})
  <2>1. IsFiniteSet(U) /\ U # {}
    BY <1>3 DEF Entries
  <2> QED
    BY <2>1, CheckSumTakesFirst, FirstIn DEF Rest
<1> HIDE DEF f
<1>6. x # f
  BY <1>4, <1>5
<1>7. CheckSum(U \ {f}) = Weight[x[1]] + CheckSum((U \ {f}) \ {x})
  <2>1. TakesAny(U \ {f})
    BY <1>2, <1>5
  <2> QED
    BY <1>6, <2>1 DEF TakesAny
<1>8. CheckSum(U \ {x}) = Weight[f[1]] + CheckSum((U \ {x}) \ {f})
  <2>1. TakesAny(U \ {x})
    BY <1>2
  <2> QED
    BY <1>5, <1>6, <2>1 DEF TakesAny
<1>9. (U \ {f}) \ {x} = (U \ {x}) \ {f}
  OBVIOUS
<1>10. Weight[x[1]] \in Nat /\ Weight[f[1]] \in Nat /\ CheckSum((U \ {x}) \ {f}) \in Nat
  BY <1>3, <1>5, WeightPositive
<1> QED
  BY <1>4, <1>5, <1>7, <1>8, <1>9, <1>10

----------------------------------------------------------------------------
(* What a checksum tells.                                                  *)

\* Fewer entries have a smaller checksum.
GrowsTo(T) == \A S \in SUBSET T : S # T => CheckSum(S) < CheckSum(T)
LEMMA CheckSumGrows ==
  ASSUME NEW T, Entries(T) PROVE GrowsTo(T)
<1> DEFINE B == {s \in SUBSET T : ~GrowsTo(s)}
<1> SUFFICES ASSUME B # {} PROVE FALSE
  OBVIOUS
<1>1. PICK U \in B : \A V \in B : V \subseteq U => V = U
  <2>1. B \subseteq SUBSET T /\ IsFiniteSet(T)
    BY DEF Entries
  <2> HIDE DEF B
  <2> QED
    BY <2>1, MinimalSubset
<1>2. \A V \in SUBSET U : V # U => GrowsTo(V)
  BY <1>1
<1>3. Entries(U) /\ \A V \in SUBSET U : Entries(V) /\ CheckSum(V) \in Nat
  BY EntriesSubset, CheckSumNat
<1>4. PICK S \in SUBSET U : S # U /\ ~(CheckSum(S) < CheckSum(U))
  BY DEF GrowsTo
<1>5. PICK x \in U : x \notin S
  BY <1>4
<1>6. CheckSum(U) = Weight[x[1]] + CheckSum(U \ {x})
  BY <1>3, CheckSumTakesAny DEF TakesAny
<1>7. CheckSum(S) <= CheckSum(U \ {x})
  <2>1. S \in SUBSET (U \ {x}) /\ GrowsTo(U \ {x})
    BY <1>2, <1>5
  <2>2. CheckSum(S) \in Nat
    BY <1>3
  <2>3. S # U \ {x} => CheckSum(S) < CheckSum(U \ {x})
    BY <2>1 DEF GrowsTo
  <2>4. CheckSum(U \ {x}) \in Nat
    BY <1>3
  <2>5. CASE S = U \ {x}
    BY <2>2, <2>5
  <2> QED
    BY <2>2, <2>3, <2>4, <2>5
<1>8. Weight[x[1]] \in Nat /\ Weight[x[1]] > 0
  BY <1>3, WeightPositive
<1>9. CheckSum(S) \in Nat /\ CheckSum(U \ {x}) \in Nat
  BY <1>3
<1> QED
  BY <1>4, <1>6, <1>7, <1>8, <1>9

\* S has one entry of each job in J and no other.
OnceEach(S, J) ==
  /\ Entries(S)
  /\ \A x \in S : x[1] \in J
  /\ \A j \in J : \E x \in S : x[1] = j
  /\ \A x, y \in S : x[1] = y[1] => x = y

LEMMA OnceEachRest ==
  ASSUME NEW S, NEW J, OnceEach(S, J), NEW x \in S
  PROVE  OnceEach(S \ {x}, J \ {x[1]})
BY EntriesSubset DEF OnceEach

\* The checksum of a set with one entry of each of some jobs is that of any
\* other.
SameSum(J) == \A S, T : OnceEach(S, J) /\ OnceEach(T, J) => CheckSum(S) = CheckSum(T)
LEMMA CheckSumOfJobs ==
  ASSUME NEW J \in SUBSET Jobs PROVE SameSum(J)
<1> DEFINE B == {j \in SUBSET Jobs : ~SameSum(j)}
<1> SUFFICES ASSUME B # {} PROVE FALSE
  OBVIOUS
<1>1. PICK U \in B : \A V \in B : V \subseteq U => V = U
  <2>1. B \subseteq SUBSET Jobs /\ IsFiniteSet(Jobs)
    BY ProjectAssumption
  <2> HIDE DEF B
  <2> QED
    BY <2>1, MinimalSubset
<1>2. PICK S, T : OnceEach(S, U) /\ OnceEach(T, U) /\ CheckSum(S) # CheckSum(T)
  BY DEF SameSum
<1>3. CASE U = {}
  <2>1. S = {} /\ T = {}
    BY <1>2, <1>3 DEF OnceEach
  <2> QED
    BY <1>2, <2>1
<1>4. CASE U # {}
  <2>1. PICK j \in U : TRUE
    BY <1>4
  <2>2. PICK x \in S, y \in T : x[1] = j /\ y[1] = j
    BY <1>2, <2>1 DEF OnceEach
  <2>3. SameSum(U \ {j})
    BY <1>1, <2>1
  <2>4. OnceEach(S \ {x}, U \ {j}) /\ OnceEach(T \ {y}, U \ {j})
    BY <1>2, <2>2, OnceEachRest
  <2>5. CheckSum(S \ {x}) = CheckSum(T \ {y})
    BY <2>3, <2>4 DEF SameSum
  <2>6. /\ CheckSum(S) = Weight[x[1]] + CheckSum(S \ {x})
        /\ CheckSum(T) = Weight[y[1]] + CheckSum(T \ {y})
    BY <1>2, CheckSumTakesAny DEF OnceEach, TakesAny
  <2> QED
    BY <1>2, <2>2, <2>5, <2>6
<1> QED
  BY <1>3, <1>4

----------------------------------------------------------------------------
(* What the collector accepts.                                             *)

\* Nothing runs beside the collector, and its verdict is about the files
\* that are still there.
CollectorInv ==
  /\ collector # "idle" => \A p \in Procs : pc[p] = "idle"
  /\ collector = "accepted" => Accepts
  /\ collector = "rejected" => ~Accepts

\* The verdict depends on the results and validation files.
LEMMA SameVerdict ==
  ASSUME UNCHANGED <<results, validation>>
  PROVE  Accepts' = Accepts
<1>1. Recorded' = Recorded /\ \A f : Holds(f)' = Holds(f)
  BY DEF Recorded, Holds
<1>2. Counted' = Counted
  BY <1>1 DEF Counted
<1>3. CheckSum(Recorded)' = CheckSum(Recorded) /\ CheckSum(Counted)' = CheckSum(Counted)
  BY <1>1, <1>2
<1> QED
  BY <1>1, <1>3 DEF Accepts, NoDuplicates

LEMMA CollectorStep ==
  ASSUME CollectorInv, [Next]_vars
  PROVE  CollectorInv'
<1>1. CASE collector = "idle"
  <2>1. CASE Collect
    BY <2>1 DEF Collect, CollectorInv, procVars
  <2>2. CASE ~Collect
    <3>1. \A p \in Procs : ProcStep(p) => collector' = collector
      BY DEF ProcStep, Grab, RenameThrows, Compute, ReadValidation, WriteBegin, WriteEnd,
           CheckAgain, EnterCritical, SaveBegin, SaveEnd, CommitValidation, Finish, opVars
    <3>2. \A p \in Procs : Crash(p) \/ (\E j \in Jobs : Start(p, j)) => collector' = collector
      BY DEF Crash, Start, opVars
    <3>3. (\E j \in Jobs : Reset(j)) \/ Collecting \/ UNCHANGED vars => collector' = collector
      BY <1>1 DEF Reset, Collecting, CollectResults, CollectValidation, vars, opVars
    <3>4. collector' = collector
      BY <2>2, <3>1, <3>2, <3>3 DEF Next, Quiescent
    <3> QED
      BY <1>1, <3>4 DEF CollectorInv
  <2> QED
    BY <2>1, <2>2
<1>2. CASE collector # "idle"
  <2>1. \A p \in Procs : ~ProcStep(p)
    BY <1>2 DEF CollectorInv, ProcStep, Grab, RenameThrows, Compute, ReadValidation, WriteBegin,
         WriteEnd, CheckAgain, EnterCritical, SaveBegin, SaveEnd, CommitValidation, Finish
  <2>2. \A p \in Procs : ~Crash(p) /\ \A j \in Jobs : ~Start(p, j)
    BY <1>2 DEF CollectorInv, Crash, Start
  <2>3. ~Collect /\ \A j \in Jobs : ~Reset(j)
    BY <1>2 DEF Collect, Reset
  <2>4. Collecting \/ UNCHANGED vars
    BY <2>1, <2>2, <2>3 DEF Next, Quiescent
  <2>5. UNCHANGED <<pc, results, validation>>
    BY <2>4 DEF Collecting, CollectResults, CollectValidation, vars, fileVars, procVars
  <2>6. Accepts' = Accepts
    BY <2>5, SameVerdict
  <2>7. CASE Collecting
    BY <1>2, <2>5, <2>6, <2>7 DEF Collecting, CollectResults, CollectValidation, CollectorInv
  <2>8. CASE UNCHANGED vars
    BY <2>5, <2>6, <2>8 DEF vars, opVars, CollectorInv
  <2> QED
    BY <2>4, <2>7, <2>8
<1> QED
  BY <1>1, <1>2

\* The collector's verdict stands.
LEMMA VerdictStands == Spec => []CollectorInv
<1>1. Init => CollectorInv
  BY DEF Init, CollectorInv
<1>2. CollectorInv /\ [Next]_vars => CollectorInv'
  BY CollectorStep
<1> QED
  BY <1>1, <1>2, PTL DEF Spec

\* Both sets of entries are finite.
LEMMA CollectedEntries ==
  /\ Entries(Recorded) /\ Entries(Counted)
  /\ IsFiniteSet(Nodes) /\ IsFiniteSet(Files)
<1>1. IsFiniteSet(Jobs) /\ IsFiniteSet(Nodes) /\ IsFiniteSet(Sets)
  BY ProjectAssumption
<1>2. IsFiniteSet(Files)
  BY <1>1, FS_Product DEF Files
<1>3. IsFiniteSet(Jobs \X Nodes) /\ IsFiniteSet(Jobs \X Files)
  BY <1>1, <1>2, FS_Product
<1>4. Recorded \subseteq Jobs \X Nodes /\ Counted \subseteq Jobs \X Files
  BY DEF Recorded, Counted
<1>5. IsFiniteSet(Recorded) /\ IsFiniteSet(Counted)
  BY <1>3, <1>4, FS_Subset
<1> QED
  BY <1>1, <1>2, <1>4, <1>5 DEF Entries

\* Without duplicates each job that is in a validation file is in one.
LEMMA CountedOnce ==
  ASSUME NoDuplicates, \A j \in Jobs : \E f \in Files : j \in Holds(f)
  PROVE  OnceEach(Counted, Jobs)
<1>1. \A x \in Counted : x[1] \in Jobs /\ x[2] \in Files /\ x = <<x[1], x[2]>>
  BY DEF Counted
<1>2. \A j \in Jobs : \E x \in Counted : x[1] = j
  <2> SUFFICES ASSUME NEW j \in Jobs PROVE \E x \in Counted : x[1] = j
    OBVIOUS
  <2>1. PICK f \in Files : j \in Holds(f)
    OBVIOUS
  <2>2. <<j, f>> \in Counted
    BY <2>1 DEF Counted
  <2> QED
    BY <2>2
<1>3. \A x, y \in Counted : x[1] = y[1] => x = y
  <2> SUFFICES ASSUME NEW x \in Counted, NEW y \in Counted, x[1] = y[1] PROVE x = y
    OBVIOUS
  <2>1. x[1] \in Holds(x[2]) /\ x[1] \in Holds(y[2])
    BY DEF Counted
  <2>2. x[2] = y[2]
    BY <1>1, <2>1 DEF NoDuplicates
  <2> QED
    BY <1>1, <2>2
<1> QED
  BY <1>1, <1>2, <1>3, CollectedEntries DEF OnceEach

\* Equal checksums leave no room for a second result of a job: one result of
\* each job alone has the checksum of the validation data.
LEMMA RecordedOnce ==
  ASSUME Accepts PROVE OnceEach(Recorded, Jobs)
<1>1. OnceEach(Counted, Jobs)
  BY CountedOnce DEF Accepts
<1> DEFINE node(j) == CHOOSE n \in Nodes : <<j, n>> \in Recorded
           picked  == {<<j, node(j)>> : j \in Jobs}
<1>2. \A j \in Jobs : <<j, node(j)>> \in Recorded
  BY DEF Accepts
<1> HIDE DEF node
<1>3. picked \in SUBSET Recorded
  BY <1>2
<1>4. Entries(picked)
  BY <1>3, CollectedEntries, EntriesSubset
<1>5. OnceEach(picked, Jobs)
  <2>1. \A x \in picked : x[1] \in Jobs /\ x = <<x[1], node(x[1])>>
    OBVIOUS
  <2>2. \A j \in Jobs : \E x \in picked : x[1] = j
    <3> SUFFICES ASSUME NEW j \in Jobs PROVE \E x \in picked : x[1] = j
      OBVIOUS
    <3>1. <<j, node(j)>> \in picked
      OBVIOUS
    <3>2. <<j, node(j)>>[1] = j
      OBVIOUS
    <3> HIDE DEF picked
    <3> QED
      BY <3>1, <3>2
  <2> HIDE DEF picked
  <2> QED
    BY <1>4, <2>1, <2>2 DEF OnceEach
<1> HIDE DEF picked
<1>6. CheckSum(picked) = CheckSum(Recorded)
  <2>1. CheckSum(picked) = CheckSum(Counted)
    BY <1>1, <1>5, CheckSumOfJobs DEF SameSum
  <2> QED
    BY <2>1 DEF Accepts
<1>7. picked = Recorded
  <2> SUFFICES ASSUME picked # Recorded PROVE FALSE
    OBVIOUS
  <2>1. CheckSum(picked) < CheckSum(Recorded)
    BY <1>3, CollectedEntries, CheckSumGrows DEF GrowsTo
  <2>2. CheckSum(picked) \in Nat
    BY <1>4, CheckSumNat
  <2> QED
    BY <1>6, <2>1, <2>2
<1> QED
  BY <1>5, <1>7

LEMMA AcceptsOnce ==
  ASSUME Accepts, NEW j \in Jobs
  PROVE  /\ Cardinality({n \in Nodes : <<j, n>> \in Recorded}) = 1
         /\ Cardinality({f \in Files : j \in Holds(f)}) = 1
<1>1. PICK n \in Nodes : <<j, n>> \in Recorded
  BY DEF Accepts
<1>2. {m \in Nodes : <<j, m>> \in Recorded} = {n}
  <2>1. ASSUME NEW m \in Nodes, <<j, m>> \in Recorded PROVE m = n
    <3>1. <<j, m>>[1] = <<j, n>>[1]
      OBVIOUS
    <3>2. <<j, m>> = <<j, n>>
      BY <1>1, <2>1, <3>1, RecordedOnce DEF OnceEach
    <3> QED
      BY <3>2
  <2> QED
    BY <1>1, <2>1
<1>3. PICK f \in Files : j \in Holds(f)
  BY DEF Accepts
<1>4. {g \in Files : j \in Holds(g)} = {f}
  BY <1>3 DEF Accepts, NoDuplicates
<1> QED
  BY <1>2, <1>4, FS_Singleton

\* What the collector accepts has each job once in the results and once in
\* the validation data, whatever crashed, was reset or ran beside it.
THEOREM AcceptedIsExact == Spec => []AcceptedExact
<1>1. CollectorInv => AcceptedExact
  BY AcceptsOnce DEF CollectorInv, AcceptedExact
<1> QED
  BY <1>1, VerdictStands, PTL
----------------------------------------------------------------------------
(* A finished project is accepted.                                         *)

\* There are results of a job only of the node its file is named after, once
\* it is critical: that node alone entered the critical section with it.
ResultsInPlace ==
  \A j \in Jobs, n \in Nodes :
    results[<<j, n>>] # "none" => by[j] = n /\ dir[j] \in {"critical", "finished"}

\* A process whose job failed leaves no results of it.
ErrorsSaveNothing ==
  \A p \in Procs :
    pc[p] \in {"critical", "saving", "committed"} /\ ~noErrors[p] => results[Result(p)] = "none"

SavedInv == ResultsInPlace /\ ErrorsSaveNothing

\* What SavedInv looks at in the other processes.
LEMMA OthersSaveNothing ==
  ASSUME TypeOK, OnePerNode, ErrorsSaveNothing, NEW p \in Procs,
         \A q \in Procs \ {p} :
           pc'[q] = pc[q] /\ job'[q] = job[q] /\ noErrors'[q] = noErrors[q],
         \A r \in (Jobs \X Nodes) \ {Result(p)} : results'[r] = results[r],
         pc'[p] \in {"critical", "saving", "committed"} /\ ~noErrors'[p] =>
           results'[Result(p)'] = "none"
  PROVE  ErrorsSaveNothing'
<1> SUFFICES ASSUME NEW q \in Procs, q # p,
                    pc'[q] \in {"critical", "saving", "committed"}, ~noErrors'[q]
             PROVE  results'[Result(q)'] = "none"
  BY DEF ErrorsSaveNothing
<1>1. pc[q] \in {"critical", "saving", "committed"} /\ ~noErrors[q]
  OBVIOUS
<1>2. Result(q)' = Result(q)
  BY DEF Result
<1>3. Result(q) \in (Jobs \X Nodes) \ {Result(p)}
  BY <1>1, OtherFiles, RunningProcess
<1> QED
  BY <1>1, <1>2, <1>3 DEF ErrorsSaveNothing

\* A job's file moves: from a folder where there are no results of it, or to
\* one where there may be.
LEMMA MovedResults ==
  ASSUME TypeOK, ResultsInPlace, NEW j \in Jobs, NEW d, NEW n, MoveJob(j, d, n),
         results' = results,
         \/ dir[j] \notin {"critical", "finished"}
         \/ n = by[j] /\ d = "finished"
         \/ \A m \in Nodes : results[<<j, m>>] = "none"
  PROVE  ResultsInPlace'
<1>1. /\ dir'[j] = d /\ by'[j] = n
      /\ \A i \in Jobs \ {j} : dir'[i] = dir[i] /\ by'[i] = by[i]
  BY Moved
<1> QED
  BY <1>1 DEF ResultsInPlace

LEMMA SavedGrab ==
  ASSUME TypeOK, SavedInv, OnePerNode, NEW p \in Procs, Grab(p)
  PROVE  SavedInv'
<1>1. job[p] \in Jobs
  BY RunningProcess DEF Grab
<1>2. ResultsInPlace'
  BY <1>1, MovedResults DEF Grab, SavedInv
<1>3. ErrorsSaveNothing'
  BY OthersSaveNothing DEF Grab, Goto, TypeOK, SavedInv
<1> QED
  BY <1>2, <1>3 DEF SavedInv

LEMMA SavedEnterCritical ==
  ASSUME TypeOK, SavedInv, OnePerNode, NEW p \in Procs, EnterCritical(p)
  PROVE  SavedInv'
<1>1. job[p] \in Jobs /\ NodeOf[p] \in Nodes /\ dir[job[p]] = "working"
  BY RunningProcess DEF EnterCritical, In
<1>2. ResultsInPlace'
  BY <1>1, MovedResults DEF EnterCritical, SavedInv
<1>3. results'[Result(p)'] = "none"
  BY <1>1 DEF EnterCritical, SavedInv, ResultsInPlace, Result
<1>4. ErrorsSaveNothing'
  BY <1>3, OthersSaveNothing DEF EnterCritical, Goto, TypeOK, SavedInv
<1> QED
  BY <1>2, <1>4 DEF SavedInv

LEMMA SavedFinish ==
  ASSUME TypeOK, SavedInv, OnePerNode, NEW p \in Procs, Finish(p)
  PROVE  SavedInv'
<1>1. job[p] \in Jobs /\ NodeOf[p] \in Nodes /\ by[job[p]] = NodeOf[p] /\ noErrors[p] \in BOOLEAN
  BY RunningProcess DEF Finish, In, TypeOK
<1>2. ~noErrors[p] => \A m \in Nodes : results[<<job[p], m>>] = "none"
  <2>1. ~noErrors[p] => results[<<job[p], NodeOf[p]>>] = "none"
    BY DEF Finish, SavedInv, ErrorsSaveNothing, Result
  <2>2. \A m \in Nodes : m # NodeOf[p] => results[<<job[p], m>>] = "none"
    BY <1>1 DEF SavedInv, ResultsInPlace
  <2> QED
    BY <2>1, <2>2
<1>3. ResultsInPlace'
  <2>1. CASE noErrors[p]
    <3>1. MoveJob(job[p], "finished", NodeOf[p]) /\ results' = results
      BY <2>1 DEF Finish
    <3> QED
      BY <1>1, <3>1, MovedResults DEF SavedInv
  <2>2. CASE ~noErrors[p]
    <3>1. MoveJob(job[p], "wrong_finished", NodeOf[p]) /\ results' = results
      BY <2>2 DEF Finish
    <3> QED
      BY <1>1, <1>2, <2>2, <3>1, MovedResults DEF SavedInv
  <2> QED
    BY <1>1, <2>1, <2>2
<1>4. ErrorsSaveNothing'
  BY OthersSaveNothing DEF Finish, Exit, TypeOK, SavedInv
<1> QED
  BY <1>3, <1>4 DEF SavedInv

\* A process writes its own results, while its job is critical.
LEMMA SavedResults ==
  ASSUME TypeOK, ProjectInv, SavedInv, OnePerNode, NEW p \in Procs,
         SaveBegin(p) \/ SaveEnd(p)
  PROVE  SavedInv'
<1>1. /\ job[p] \in Jobs /\ NodeOf[p] \in Nodes /\ Result(p) \in Jobs \X Nodes
      /\ pc[p] \in {"critical", "saving"}
  BY RunningProcess DEF SaveBegin, SaveEnd
<1>2. In(job[p], "critical", NodeOf[p])
  BY <1>1 DEF ProjectInv, ProcInv
<1>3. /\ \A r \in (Jobs \X Nodes) \ {Result(p)} : results'[r] = results[r]
      /\ ~noErrors[p] => results' = results
      /\ UNCHANGED <<dir, by, job, noErrors>>
  BY <1>1 DEF SaveBegin, SaveEnd, TypeOK
<1>4. ResultsInPlace'
  <2> SUFFICES ASSUME NEW j \in Jobs, NEW n \in Nodes, results'[<<j, n>>] # "none"
               PROVE  by[j] = n /\ dir[j] \in {"critical", "finished"}
    BY <1>3 DEF ResultsInPlace
  <2>1. CASE <<j, n>> = Result(p)
    BY <1>2, <2>1 DEF Result, In
  <2>2. CASE <<j, n>> # Result(p)
    BY <1>3, <2>2 DEF SavedInv, ResultsInPlace
  <2> QED
    BY <2>1, <2>2
<1>5. ~noErrors'[p] => results'[Result(p)'] = "none"
  BY <1>1, <1>3 DEF SavedInv, ErrorsSaveNothing, Result
<1>6. \A q \in Procs \ {p} : pc'[q] = pc[q]
  BY DEF SaveBegin, SaveEnd, Goto, TypeOK
<1>7. ErrorsSaveNothing'
  BY <1>3, <1>5, <1>6, OthersSaveNothing DEF SavedInv
<1> QED
  BY <1>4, <1>7 DEF SavedInv

\* Every other step of a process leaves the results alone, and none of them
\* leads into the critical section.
LEMMA SavedQuiet ==
  ASSUME TypeOK, ProjectInv, SavedInv, OnePerNode, NEW p \in Procs,
         \/ ProcStep(p) /\ ~Grab(p) /\ ~EnterCritical(p) /\ ~Finish(p)
                        /\ ~SaveBegin(p) /\ ~SaveEnd(p)
         \/ Crash(p)
         \/ \E j \in Jobs : Start(p, j)
  PROVE  SavedInv'
<1>1. UNCHANGED <<dir, by, results>>
  BY DEF ProcStep, RenameThrows, Compute, ReadValidation, WriteBegin, WriteEnd, CheckAgain,
       CommitValidation, Crash, Start, fileVars
<1>2. \A q \in Procs \ {p} : pc'[q] = pc[q] /\ job'[q] = job[q] /\ noErrors'[q] = noErrors[q]
  BY DEF ProcStep, RenameThrows, Compute, ReadValidation, WriteBegin, WriteEnd, CheckAgain,
       CommitValidation, Crash, Start, Exit, Goto, TypeOK
<1>3. pc'[p] \in {"critical", "saving", "committed"} => noErrors'[p]
  <2>1. ASSUME Exit(p) PROVE noErrors'[p]
    BY <2>1 DEF Exit, TypeOK
  <2>2. ASSUME CommitValidation(p) PROVE noErrors'[p]
    <3>1. noErrors[p]
      BY <2>2 DEF CommitValidation, ProjectInv, ProcInv
    <3> QED
      BY <2>1, <2>2, <3>1 DEF CommitValidation
  <2>3. ASSUME Start(p, CHOOSE j \in Jobs : Start(p, j)) PROVE pc'[p] \notin {"critical", "saving", "committed"}
    BY <2>3 DEF Start, Goto, TypeOK
  <2>4. ASSUME \E j \in Jobs : Start(p, j) PROVE pc'[p] \notin {"critical", "saving", "committed"}
    BY <2>3, <2>4
  <2>5. ASSUME Compute(p) \/ ReadValidation(p) \/ WriteBegin(p) \/ WriteEnd(p) \/ CheckAgain(p), ~Exit(p)
        PROVE  pc'[p] \notin {"critical", "saving", "committed"}
    BY <2>5 DEF Compute, ReadValidation, WriteBegin, WriteEnd, CheckAgain, Goto, TypeOK
  <2> QED
    BY <2>1, <2>2, <2>4, <2>5 DEF ProcStep, RenameThrows, Crash
<1>4. ResultsInPlace'
  BY <1>1 DEF SavedInv, ResultsInPlace
<1>5. ErrorsSaveNothing'
  BY <1>1, <1>2, <1>3, OthersSaveNothing DEF SavedInv
<1> QED
  BY <1>4, <1>5 DEF SavedInv

LEMMA SavedReset ==
  ASSUME TypeOK, SavedInv, CriticalKept, NEW j \in Jobs, Reset(j)
  PROVE  SavedInv'
<1>1. dir[j] \notin {"critical", "finished"}
  BY ProjectAssumption DEF Reset, CriticalKept
<1>2. ResultsInPlace'
  BY <1>1, MovedResults DEF Reset, SavedInv
<1>3. ErrorsSaveNothing'
  BY DEF Reset, SavedInv, ErrorsSaveNothing, procVars, Result
<1> QED
  BY <1>2, <1>3 DEF SavedInv

LEMMA SavedStep ==
  ASSUME TypeOK, ProjectInv, SavedInv, OnePerNode, CriticalKept, [Next]_vars
  PROVE  SavedInv'
<1>1. ASSUME NEW p \in Procs, ProcStep(p) PROVE SavedInv'
  BY <1>1, SavedGrab, SavedEnterCritical, SavedFinish, SavedResults, SavedQuiet
<1>2. ASSUME NEW p \in Procs, Crash(p) \/ \E j \in Jobs : Start(p, j) PROVE SavedInv'
  BY <1>2, SavedQuiet
<1>3. ASSUME NEW j \in Jobs, Reset(j) PROVE SavedInv'
  BY <1>3, SavedReset
<1>4. ASSUME Collect \/ Collecting \/ UNCHANGED vars PROVE SavedInv'
  <2>1. UNCHANGED <<dir, by, results, pc, job, noErrors>>
    BY <1>4 DEF Collect, Collecting, CollectResults, CollectValidation, vars, fileVars, procVars
  <2> QED
    BY <2>1 DEF SavedInv, ResultsInPlace, ErrorsSaveNothing, Result
<1> QED
  BY <1>1, <1>2, <1>3, <1>4 DEF Next, Quiescent

LEMMA SavedHolds ==
  ASSUME OnePerNode, CriticalKept
  PROVE  Spec => []SavedInv
<1>1. Init => SavedInv
  BY DEF Init, SavedInv, ResultsInPlace, ErrorsSaveNothing
<1>2. TypeOK /\ ProjectInv /\ SavedInv /\ [Next]_vars => SavedInv'
  BY SavedStep
<1> QED
  BY <1>1, <1>2, ProjectTypeOK, ProjectHolds, PTL DEF Spec

\* With every job finished, the results have each job once.
LEMMA FinishedResults ==
  ASSUME FinishedRecorded, ResultsInPlace, \A j \in Jobs : dir[j] = "finished"
  PROVE  OnceEach(Recorded, Jobs)
<1>1. \A x \in Recorded : x[1] \in Jobs /\ x = <<x[1], by[x[1]]>>
  BY DEF Recorded, ResultsInPlace
<1>2. \A j \in Jobs : \E x \in Recorded : x[1] = j
  <2> SUFFICES ASSUME NEW j \in Jobs PROVE \E x \in Recorded : x[1] = j
    OBVIOUS
  <2>1. <<j, by[j]>> \in Recorded
    BY DEF FinishedRecorded, Recorded
  <2> QED
    BY <2>1
<1>3. \A x, y \in Recorded : x[1] = y[1] => x = y
  BY <1>1
<1> QED
  BY <1>1, <1>2, <1>3, CollectedEntries DEF OnceEach

\* So it passes each of the collector's checks.
LEMMA FinishedAccepts ==
  ASSUME TypeOK, ProjectInv, SavedInv, \A j \in Jobs : dir[j] = "finished"
  PROVE  Accepts
<1>1. FinishedRecorded /\ HeldInPlace
  BY DEF ProjectInv
<1>2. NoDuplicates
  BY <1>1 DEF NoDuplicates, HeldInPlace
<1>3. \A j \in Jobs : \E f \in Files : j \in Holds(f)
  BY <1>1, FinishedPlace DEF FinishedRecorded
<1>4. OnceEach(Recorded, Jobs)
  BY <1>1, FinishedResults DEF SavedInv
<1>5. CheckSum(Recorded) = CheckSum(Counted)
  BY <1>2, <1>3, <1>4, CountedOnce, CheckSumOfJobs DEF SameSum
<1>6. \A j \in Jobs : \E n \in Nodes : <<j, n>> \in Recorded
  BY <1>1, FinishedPlace DEF FinishedRecorded, Recorded
<1> QED
  BY <1>2, <1>3, <1>5, <1>6 DEF Accepts

\* A project whose jobs all finished is not rejected: with one process per
\* node and critical jobs left alone, no crash or reset makes its files
\* disagree.
THEOREM FinishedIsAccepted ==
  ASSUME OnePerNode, CriticalKept
  PROVE  Spec => []FinishedAccepted
<1>1. TypeOK /\ ProjectInv /\ SavedInv /\ CollectorInv => FinishedAccepted
  BY FinishedAccepts DEF CollectorInv, FinishedAccepted
<1> QED
  BY <1>1, ProjectTypeOK, ProjectHolds, SavedHolds, VerdictStands, PTL
=============================================================================
