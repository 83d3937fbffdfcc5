---------------------------- MODULE MCRollupJob ----------------------------
(* One or two orders, two days and part of a third.                        *)
EXTENDS RollupJob
=============================================================================
