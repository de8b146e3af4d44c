--------------------------- MODULE MCSessionStore ---------------------------
(* The instance of SessionStore that TLC checks: an agent that edits, and a second
   process that rewinds the session or appends to it. *)
EXTENDS SessionStore

CONSTANTS agent, other

TwoProcesses == {agent, other}
JobsOfTwo == [p \in TwoProcesses |->
    IF p = agent THEN {"message", "once", "checkpoint"} ELSE {"once", "rewind"}]
=============================================================================
