---------------------------- MODULE MCSwarmTeam ----------------------------
(* The instance of SwarmTeam that TLC checks: more members than slots. *)
EXTENDS SwarmTeam
=============================================================================
