-------------------------- MODULE MCDaemonSession --------------------------
(* The instance of DaemonSession that TLC checks: more lines than the ring holds. *)
EXTENDS DaemonSession
=============================================================================
