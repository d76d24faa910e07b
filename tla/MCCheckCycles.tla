-------------------------- MODULE MCCheckCycles --------------------------
(* The instance of CheckCycles that the runs check.                        *)
EXTENDS CheckCycles
=============================================================================
