---------------------------- MODULE MCDaemonPool ----------------------------
(* The instance of DaemonPool that TLC checks: more requests than slots. *)
EXTENDS DaemonPool
=============================================================================
