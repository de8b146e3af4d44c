--------------------------- MODULE MCDaemonInstance ---------------------------
(* The instance of DaemonInstance that TLC checks: daemons are interchangeable. *)
EXTENDS DaemonInstance, TLC

Symmetry == Permutations(Daemons)
=============================================================================
