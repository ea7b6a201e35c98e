----------------------- MODULE MCContinuousValidator -----------------------
(* Small instances of ContinuousValidator for TLC.                         *)
EXTENDS ContinuousValidator, TLC

CONSTANTS j1, j2, j3, j4, j5

\* j1 has an error the ends reveal, j2 one that only a sample can hit, j3 and
\* j5 none; j4 is too short to be shared with the workers.
MCJobs    == {j1, j2, j3, j4, j5}
MCBad     == {j1, j2}
MCBadEnds == {j1}
MCShort   == {j4}

WorkerSymmetry == Permutations(Workers)
============================================================================
