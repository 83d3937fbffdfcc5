------------------------------ MODULE MCJobLock ------------------------------
(* Interchangeable runs of one job.                                        *)
EXTENDS JobLock, TLC

RunSymmetry == Permutations(Runs)
=============================================================================
