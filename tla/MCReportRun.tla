----------------------------- MODULE MCReportRun -----------------------------
EXTENDS ReportRun, TLC

CONSTANTS r1, r2

(* The second registration changes nothing the assignment depends on.      *)
SelectionDef == 0 :> 0 @@ 1 :> 1 @@ 2 :> 1

Symmetry == Permutations({r1, r2})
=============================================================================
