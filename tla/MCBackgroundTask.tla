--------------------------- MODULE MCBackgroundTask ---------------------------
(* The instance of BackgroundTask that TLC checks: two stop calls. *)
EXTENDS BackgroundTask
=============================================================================
