----------------------------- MODULE OnceLedger -----------------------------
(***************************************************************************)
(* What a compute project promises about its validation files: each job's  *)
(* contribution is added to one node's sums once, is never taken out, and  *)
(* a job is finished only after that.                                      *)
(***************************************************************************)
CONSTANTS Jobs, Nodes
VARIABLES
  countedBy, \* per job: the nodes whose validation data includes it
  finished   \* the jobs reported as finished

vars == <<countedBy, finished>>

Init == countedBy = [j \in Jobs |-> {}] /\ finished = {}

Count(j, n) ==
  /\ countedBy[j] = {}
  /\ countedBy' = [countedBy EXCEPT ![j] = {n}]
  /\ UNCHANGED finished

Finish(j) ==
  /\ countedBy[j] # {} /\ j \notin finished
  /\ finished' = finished \cup {j}
  /\ UNCHANGED countedBy

Next == \E j \in Jobs : (\E n \in Nodes : Count(j, n)) \/ Finish(j)
Spec == Init /\ [][Next]_vars
=============================================================================
