---------------------------- MODULE MCDaemonServer ----------------------------
(* The instance of DaemonServer that TLC checks: more sessions than the registry keeps. *)
EXTENDS DaemonServer
=============================================================================
