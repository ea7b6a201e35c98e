--------------------------- MODULE ComputeProject ---------------------------
(***************************************************************************)
(* A supercomputing project: a shared folder in which processes on many    *)
(* nodes claim jobs by renaming job files, add validation data to a file   *)
(* of their node and job set, and write one results file per job, while    *)
(* processes die at any point, the operator resets unfinished jobs and at  *)
(* last collects everything.                                               *)
(*                                                                         *)
(* A job stands for its tops (initializeComputeProject gives no top to two *)
(* jobs). The file system is external: rename is atomic and replaces its   *)
(* target, an open descriptor follows its file through a rename, and a     *)
(* file that is being written is Torn until its last byte is there.        *)
(***************************************************************************)
EXTENDS Integers, FiniteSets, FiniteSetsExt

CONSTANTS
  Jobs, Sets,
  SetOf,        \* jobIdx / JOB_SET_SIZE
  Nodes,        \* compute identifiers: method and host name
  Procs,
  NodeOf,       \* the node a process runs on
  Weight,       \* a job's validation checksum
  MayCrash,     \* a process may be killed at any point
  MayErr,       \* the pipeline may report an unrecoverable error
  ResetDirs,    \* the folders resetUnfinishedJobs is used on
  Tasks,        \* the batch tasks submitted for each job, also a bound on them
  NoFile, Torn, NoJob, NoNode

Dirs == {"jobs", "working", "critical", "finished", "wrong_finished"}
Files == Nodes \X Sets
Contents == SUBSET Jobs   \* of a whole validation file: the jobs added to it

ASSUME ProjectAssumption ==
  /\ IsFiniteSet(Jobs) /\ IsFiniteSet(Nodes) /\ IsFiniteSet(Sets)
  /\ SetOf \in [Jobs -> Sets] /\ NodeOf \in [Procs -> Nodes]
  /\ Weight \in [Jobs -> Nat \ {0}]
  /\ MayCrash \in BOOLEAN /\ MayErr \in BOOLEAN /\ Tasks \in Nat \ {0}
  /\ ResetDirs \subseteq {"working", "critical", "wrong_finished"}
  /\ NoJob \notin Jobs /\ NoNode \notin Nodes
  /\ \A c \in Contents : c # NoFile /\ c # Torn
  /\ NoFile # Torn

VARIABLES
  dir, by,              \* per job: the folder of its file, and the node in the file's name
  results,              \* per job and node: its file in results/
  wrongResults,         \* the jobs and nodes with a file in wrong_results/
  validation, tmp,      \* per node and set: the .validation and .validation_tmp file
  pc, job, noErrors,    \* per process: where in processJob it is, and its locals
  fileData,             \* per process: the ValidationFileData it has in memory
  fd,                   \* per process: where the file it is writing is now
  tasks,                \* per job: batch tasks not started yet
  collector             \* collectAndProcessResults

procVars == <<pc, job, noErrors, fileData, fd>>
fileVars == <<dir, by, results, wrongResults, validation, tmp>>
opVars   == <<tasks, collector>>
vars == <<fileVars, procVars, opVars>>

TypeOK ==
  /\ dir \in [Jobs -> Dirs] /\ by \in [Jobs -> Nodes \cup {NoNode}]
  /\ results \in [Jobs \X Nodes -> {"none", "torn", "whole"}]
  /\ wrongResults \subseteq Jobs \X Nodes
  /\ validation \in [Files -> {NoFile, Torn} \cup Contents]
  /\ tmp \in [Files -> {NoFile, Torn} \cup Contents]
  /\ pc \in [Procs -> {"idle", "checked", "computing", "computed", "read",
                       "writing", "ready", "checkedAgain", "critical",
                       "saving", "saved", "committed"}]
  /\ job \in [Procs -> Jobs \cup {NoJob}]
  /\ \A p \in Procs : pc[p] # "idle" => job[p] \in Jobs
  /\ noErrors \in [Procs -> BOOLEAN]
  /\ fileData \in [Procs -> Contents]
  /\ fd \in [Procs -> {"none", "tmp", "validation", "gone"}]
  /\ tasks \in [Jobs -> 0 .. Tasks]
  /\ collector \in {"idle", "results", "validation", "accepted", "rejected"}

Init ==
  /\ dir = [j \in Jobs |-> "jobs"] /\ by = [j \in Jobs |-> NoNode]
  /\ results = [r \in Jobs \X Nodes |-> "none"] /\ wrongResults = {}
  /\ validation = [f \in Files |-> NoFile] /\ tmp = [f \in Files |-> NoFile]
  /\ pc = [p \in Procs |-> "idle"] /\ job = [p \in Procs |-> NoJob]
  /\ noErrors = [p \in Procs |-> TRUE]
  /\ fileData = [p \in Procs |-> {}] /\ fd = [p \in Procs |-> "none"]
  /\ tasks = [j \in Jobs |-> Tasks] /\ collector = "idle"

\* std::filesystem::rename of a job's file within the project.
In(j, d, n) == dir[j] = d /\ by[j] = n
MoveJob(j, d, n) ==
  /\ dir' = [dir EXCEPT ![j] = d]
  /\ by' = [by EXCEPT ![j] = n]

Goto(p, label) == pc' = [pc EXCEPT ![p] = label]
FileOf(p) == <<NodeOf[p], SetOf[job[p]]>>
Result(p) == <<job[p], NodeOf[p]>>
\* The end of a process, whether it returns, aborts, throws or is killed:
\* nothing it had in memory remains.
Exit(p) ==
  /\ pc' = [pc EXCEPT ![p] = "idle"] /\ job' = [job EXCEPT ![p] = NoJob]
  /\ noErrors' = [noErrors EXCEPT ![p] = TRUE]
  /\ fileData' = [fileData EXCEPT ![p] = {}] /\ fd' = [fd EXCEPT ![p] = "none"]

----------------------------------------------------------------------------
(* processJob.                                                             *)

\* A batch task starts. The four checkNotExists of the working, critical,
\* finished and results file end it, or it goes on.
NothingThere(j, n) ==
  /\ \A d \in {"working", "critical", "finished"} : ~In(j, d, n)
  /\ results[<<j, n>>] = "none"
Start(p, j) ==
  /\ pc[p] = "idle" /\ tasks[j] > 0 /\ collector = "idle"
  /\ tasks' = [tasks EXCEPT ![j] = @ - 1]
  /\ IF NothingThere(j, NodeOf[p])
     THEN Goto(p, "checked") /\ job' = [job EXCEPT ![p] = j]
     ELSE UNCHANGED <<pc, job>>
  /\ UNCHANGED <<fileVars, noErrors, fileData, fd, collector>>

Grab(p) ==
  /\ pc[p] = "checked" /\ dir[job[p]] = "jobs"
  /\ MoveJob(job[p], "working", NodeOf[p])
  /\ Goto(p, "computing")
  /\ UNCHANGED <<results, wrongResults, validation, tmp, job, noErrors, fileData, fd, opVars>>

SourceThere(p) ==
  \/ pc[p] = "checked" /\ dir[job[p]] = "jobs"
  \/ pc[p] = "checkedAgain" /\ In(job[p], "working", NodeOf[p])
  \/ pc[p] = "committed" /\ In(job[p], "critical", NodeOf[p])
\* rename throws: the source is not there, and the process ends.
RenameThrows(p) ==
  /\ pc[p] \in {"checked", "checkedAgain", "committed"} /\ ~SourceThere(p)
  /\ Exit(p) /\ UNCHANGED <<fileVars, opVars>>

\* pcoeffPipeline and its errorBufFunc.
Compute(p) ==
  /\ pc[p] = "computing"
  /\ \E ok \in BOOLEAN :
       /\ ok \/ MayErr
       /\ noErrors' = [noErrors EXCEPT ![p] = ok]
       /\ Goto(p, IF ok THEN "computed" ELSE "ready")
  /\ UNCHANGED <<fileVars, job, fileData, fd, opVars>>

\* addValidationDataToFile: read the node's file if there is one, and add this
\* job's tops; addTop aborts when one is there already.
\* Mutant: the existing validation file is not read.
OldIgnored(f) == {}
Old(f) == IF validation[f] = NoFile THEN {} ELSE validation[f]
ReadValidation(p) ==
  /\ pc[p] = "computed" /\ validation[FileOf(p)] # Torn
  /\ IF job[p] \in Old(FileOf(p))
     THEN Exit(p)
     ELSE /\ fileData' = [fileData EXCEPT ![p] = Old(FileOf(p)) \cup {job[p]}]
          /\ Goto(p, "read")
          /\ UNCHANGED <<job, noErrors, fd>>
  /\ UNCHANGED <<fileVars, opVars>>

\* Mutant: the validation file is updated in place.
WriteInPlace(p) ==
  /\ pc[p] = "read"
  /\ fd' = [fd EXCEPT ![p] = "validation"] /\ validation' = [validation EXCEPT ![FileOf(p)] = Torn]
  /\ Goto(p, "writing")
  /\ UNCHANGED <<dir, by, results, wrongResults, tmp, job, noErrors, fileData, opVars>>
\* checkCreate of the _tmp file, which does not truncate an older one.
WriteBegin(p) ==
  /\ pc[p] = "read"
  /\ fd' = [fd EXCEPT ![p] = "tmp"] /\ tmp' = [tmp EXCEPT ![FileOf(p)] = Torn]
  /\ Goto(p, "writing")
  /\ UNCHANGED <<dir, by, results, wrongResults, validation, job, noErrors, fileData, opVars>>

\* The last byte, fsync and close. Two writers of one file leave the data of
\* either or a mixture.
Target(p) == IF fd[p] = "tmp" THEN tmp ELSE validation
Shared(p) == \/ Target(p)[FileOf(p)] # Torn
             \/ \E q \in Procs \ {p} : pc[q] = "writing" /\ fd[q] = fd[p] /\ FileOf(q) = FileOf(p)
Written(p) == {fileData[p]} \cup IF Shared(p) THEN {Torn, Target(p)[FileOf(p)]} ELSE {}
WriteEnd(p) ==
  /\ pc[p] = "writing"
  /\ \E data \in Written(p) :
       /\ tmp' = IF fd[p] = "tmp" THEN [tmp EXCEPT ![FileOf(p)] = data] ELSE tmp
       /\ validation' = IF fd[p] = "validation"
                        THEN [validation EXCEPT ![FileOf(p)] = data] ELSE validation
  /\ fd' = [fd EXCEPT ![p] = "none"] /\ fileData' = [fileData EXCEPT ![p] = {}]
  /\ Goto(p, "ready")
  /\ UNCHANGED <<dir, by, results, wrongResults, job, noErrors, opVars>>

\* The files this process is about to make must not exist.
TargetsFree(p) ==
  /\ ~In(job[p], "critical", NodeOf[p])
  /\ IF noErrors[p]
     THEN ~In(job[p], "finished", NodeOf[p]) /\ results[Result(p)] = "none"
     ELSE ~In(job[p], "wrong_finished", NodeOf[p]) /\ Result(p) \notin wrongResults
CheckAgain(p) ==
  /\ pc[p] = "ready"
  /\ IF TargetsFree(p) THEN Goto(p, "checkedAgain") /\ UNCHANGED <<job, noErrors, fileData, fd>>
                       ELSE Exit(p)
  /\ UNCHANGED <<fileVars, opVars>>

\* Mutant: the job's file is copied into critical/, wherever it is by now.
EnterCriticalAnyway(p) ==
  /\ pc[p] = "checkedAgain"
  /\ MoveJob(job[p], "critical", NodeOf[p])
  /\ Goto(p, "critical")
  /\ UNCHANGED <<results, wrongResults, validation, tmp, job, noErrors, fileData, fd, opVars>>
EnterCritical(p) ==
  /\ pc[p] = "checkedAgain" /\ In(job[p], "working", NodeOf[p])
  /\ MoveJob(job[p], "critical", NodeOf[p])
  /\ Goto(p, "critical")
  /\ UNCHANGED <<results, wrongResults, validation, tmp, job, noErrors, fileData, fd, opVars>>

\* saveResults: the file is created, then written, synced and closed.
SaveBegin(p) ==
  /\ pc[p] = "critical"
  /\ IF noErrors[p]
     THEN results' = [results EXCEPT ![Result(p)] = "torn"] /\ UNCHANGED wrongResults
     ELSE wrongResults' = wrongResults \cup {Result(p)} /\ UNCHANGED results
  /\ Goto(p, "saving")
  /\ UNCHANGED <<dir, by, validation, tmp, job, noErrors, fileData, fd, opVars>>
\* Mutant: the job goes to finished/ without the rename of the validation file.
SaveEndUncommitted(p) ==
  /\ pc[p] = "saving"
  /\ results' = IF noErrors[p] THEN [results EXCEPT ![Result(p)] = "whole"] ELSE results
  /\ Goto(p, "committed")
  /\ UNCHANGED <<dir, by, wrongResults, validation, tmp, job, noErrors, fileData, fd, opVars>>
SaveEnd(p) ==
  /\ pc[p] = "saving"
  /\ results' = IF noErrors[p] THEN [results EXCEPT ![Result(p)] = "whole"] ELSE results
  /\ Goto(p, IF noErrors[p] THEN "saved" ELSE "committed")
  /\ UNCHANGED <<dir, by, wrongResults, validation, tmp, job, noErrors, fileData, fd, opVars>>

\* rename(validationFileNameTmp, validationFileName). A process that is
\* writing the _tmp file goes on writing it under its new name.
CommitValidation(p) ==
  /\ pc[p] = "saved"
  /\ IF tmp[FileOf(p)] = NoFile
     THEN Exit(p) /\ UNCHANGED <<validation, tmp>>
     ELSE /\ validation' = [validation EXCEPT ![FileOf(p)] = tmp[FileOf(p)]]
          /\ tmp' = [tmp EXCEPT ![FileOf(p)] = NoFile]
          /\ fd' = [q \in Procs |-> IF fd[q] = "none" \/ FileOf(q) # FileOf(p) THEN fd[q]
                                    ELSE IF fd[q] = "tmp" THEN "validation" ELSE "gone"]
          /\ Goto(p, "committed") /\ UNCHANGED <<job, noErrors, fileData>>
  /\ UNCHANGED <<dir, by, results, wrongResults, opVars>>

Finish(p) ==
  /\ pc[p] = "committed" /\ In(job[p], "critical", NodeOf[p])
  /\ MoveJob(job[p], IF noErrors[p] THEN "finished" ELSE "wrong_finished", NodeOf[p])
  /\ Exit(p)
  /\ UNCHANGED <<results, wrongResults, validation, tmp, opVars>>

\* Killed by a time limit, a node failure or abort().
Crash(p) ==
  /\ MayCrash /\ pc[p] # "idle"
  /\ Exit(p) /\ UNCHANGED <<fileVars, opVars>>

----------------------------------------------------------------------------
(* The operator's commands.                                                *)

\* resetUnfinishedJobs, for one job, and the new task it prints; nobody asks
\* whether the job is still running.
Reset(j) ==
  /\ dir[j] \in ResetDirs /\ tasks[j] < Tasks /\ collector = "idle"
  /\ MoveJob(j, "jobs", NoNode) /\ tasks' = [tasks EXCEPT ![j] = @ + 1]
  /\ UNCHANGED <<results, wrongResults, validation, tmp, procVars, collector>>

\* collectAndProcessResults is started when no job waits or runs.
Collect ==
  /\ collector = "idle" /\ \A p \in Procs : pc[p] = "idle"
  /\ \A j \in Jobs : dir[j] \notin {"jobs", "working"}
  /\ collector' = "results" /\ UNCHANGED <<fileVars, procVars, tasks>>

\* checkRead asks for more until it has everything, also at the end of a
\* file that is too short, where read returns 0.
CollectResults ==
  /\ collector = "results"
  /\ collector' = IF \E r \in Jobs \X Nodes : results[r] = "torn" THEN "results" ELSE "validation"
  /\ UNCHANGED <<fileVars, procVars, tasks>>

Recorded == {r \in Jobs \X Nodes : results[r] = "whole"}
Holds(f) == IF validation[f] \in {NoFile, Torn} THEN {} ELSE validation[f]
Counted  == {x \in Jobs \X Files : x[1] \in Holds(x[2])}
CheckSum(S) == MapThenSumSet(LAMBDA x : Weight[x[1]], S)
\* Mutant: mergeIntoThis does not look for duplicates.
DuplicatesIgnored == TRUE
\* mergeIntoThis, checkHasAllTops, the checksums and getResultingSums.
NoDuplicates == \A f, g \in Files : f # g => Holds(f) \cap Holds(g) = {}
Accepts ==
  /\ NoDuplicates
  /\ \A j \in Jobs : \E f \in Files : j \in Holds(f)
  /\ CheckSum(Recorded) = CheckSum(Counted)
  /\ \A j \in Jobs : \E n \in Nodes : <<j, n>> \in Recorded
CollectValidation ==
  /\ collector = "validation" /\ \A f \in Files : validation[f] # Torn
  /\ collector' = IF Accepts THEN "accepted" ELSE "rejected"
  /\ UNCHANGED <<fileVars, procVars, tasks>>

Collecting == CollectResults \/ CollectValidation
ProcStep(p) ==
  \/ Grab(p) \/ RenameThrows(p) \/ Compute(p) \/ ReadValidation(p)
  \/ WriteBegin(p) \/ WriteEnd(p) \/ CheckAgain(p) \/ EnterCritical(p)
  \/ SaveBegin(p) \/ SaveEnd(p) \/ CommitValidation(p) \/ Finish(p)

\* Nobody runs; the operator may have nothing left to do.
Quiescent == (\A p \in Procs : pc[p] = "idle") /\ UNCHANGED vars

Next ==
  \/ \E p \in Procs : ProcStep(p) \/ Crash(p) \/ \E j \in Jobs : Start(p, j)
  \/ \E j \in Jobs : Reset(j)
  \/ Collect \/ Collecting \/ Quiescent

Spec == Init /\ [][Next]_vars

\* A running process goes on, and so does the collector once it is started.
FairSpec == Spec /\ (\A p \in Procs : WF_vars(ProcStep(p))) /\ WF_vars(Collecting)

----------------------------------------------------------------------------
(* Properties.                                                             *)

\* A validation file is never seen half written, wherever a process dies: it
\* is written under another name and renamed.
ValidationWhole == \A f \in Files : validation[f] # Torn

\* A job in finished/ has a whole results file of that node, and that node's
\* validation file of its set includes it.
FinishedRecorded ==
  \A j \in Jobs : dir[j] = "finished" =>
    /\ by[j] \in Nodes
    /\ results[<<j, by[j]>>] = "whole"
    /\ j \in Holds(<<by[j], SetOf[j]>>)

\* While critical jobs are left alone, each job is added to one validation
\* file once, before it is finished, through crashes and resets.
Ledger == INSTANCE OnceLedger WITH
  countedBy <- [j \in Jobs |-> {n \in Nodes : j \in Holds(<<n, SetOf[j]>>)}],
  finished  <- {j \in Jobs : dir[j] = "finished"}
CountsOnce == Ledger!Spec

\* What a validation file includes is never taken out of it again.
ValidationGrows == [][\A f \in Files : Holds(f) \subseteq Holds(f)']_vars

\* What the collector accepts has each job once in the results and once in the
\* validation data, whatever crashed, was reset or ran twice.
AcceptedExact ==
  collector = "accepted" =>
    \A j \in Jobs :
      /\ Cardinality({n \in Nodes : <<j, n>> \in Recorded}) = 1
      /\ Cardinality({f \in Files : j \in Holds(f)}) = 1

\* A project whose jobs all finished is not rejected.
FinishedAccepted ==
  collector = "rejected" => \E j \in Jobs : dir[j] # "finished"

\* A collector that was started gives a verdict.
CollectorAnswers == collector = "results" ~> collector \in {"accepted", "rejected"}

----------------------------------------------------------------------------
(* Why FinishedRecorded and CountsOnce hold, with one process at a time on *)
(* each node and no resets of critical jobs.                               *)

OnePerNode   == \A p, q \in Procs : NodeOf[p] = NodeOf[q] => p = q
CriticalKept == "critical" \notin ResetDirs

\* A process in its critical section owns its job's file, and what it is
\* about to commit is the node's file with its job added.
ProcInv(p) ==
  /\ fd[p] = IF pc[p] = "writing" THEN "tmp" ELSE "none"
  /\ pc[p] \in {"computed", "read", "writing", "saved"} => noErrors[p]
  /\ pc[p] \in {"read", "writing"} => fileData[p] = Old(FileOf(p)) \cup {job[p]}
  /\ pc[p] = "writing" => tmp[FileOf(p)] = Torn
  /\ pc[p] \in {"ready", "checkedAgain", "critical", "saving", "saved"} /\ noErrors[p] =>
       tmp[FileOf(p)] = Old(FileOf(p)) \cup {job[p]}
  /\ pc[p] \in {"critical", "saving", "saved", "committed"} => In(job[p], "critical", NodeOf[p])
  /\ pc[p] \in {"critical", "saving", "saved"} => job[p] \notin Holds(FileOf(p))
  /\ pc[p] = "saved" => results[Result(p)] = "whole"
  /\ pc[p] = "committed" =>
       IF noErrors[p] THEN results[Result(p)] = "whole" /\ job[p] \in Holds(FileOf(p))
                      ELSE job[p] \notin Holds(FileOf(p))

\* Validation data is only of jobs that are in critical/ or finished/, in the
\* file of the node and set it belongs to.
HeldInPlace ==
  \A f \in Files : \A j \in Holds(f) :
    f = <<by[j], SetOf[j]>> /\ dir[j] \in {"critical", "finished"}

\* The inductive invariant.
ProjectInv ==
  /\ ValidationWhole /\ HeldInPlace /\ FinishedRecorded
  /\ \A p \in Procs : ProcInv(p)
=============================================================================
