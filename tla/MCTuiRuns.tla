------------------------------ MODULE MCTuiRuns ------------------------------
(* The instance of TuiRuns that TLC checks: two runs in two sessions. *)
EXTENDS TuiRuns
=============================================================================
