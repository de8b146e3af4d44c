------------------------------ MODULE MCCronJobs ------------------------------
(* The instance of CronJobs that TLC checks: two schedulers and a command. *)
EXTENDS CronJobs
=============================================================================
