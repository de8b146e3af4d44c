---------------------------- MODULE MCExecSessions ----------------------------
(* The instance of ExecSessions that TLC checks: a table of one session. *)
EXTENDS ExecSessions

\* The second session prints one chunk that is told apart.
ChunksOf == <<2, 1>>
=============================================================================
