------------------------------ MODULE WorkQueue ------------------------------
(***************************************************************************)
(* What a swarm team promises of its slots: at most Slots members hold     *)
(* one, the others wait in the order of their arrival, and none waits      *)
(* while a slot is free.                                                   *)
(***************************************************************************)
EXTENDS Naturals, Sequences, FiniteSets

CONSTANTS Workers, Slots

VARIABLES holders,  \* the members with a slot
          waiting   \* those without one, the first to come first

queueVars == <<holders, waiting>>

QueueInit == holders = {} /\ waiting = <<>>

Full == Cardinality(holders) >= Slots

\* A member comes: it is served, unless every slot is taken.
Serve(w) ==
    /\ ~Full /\ w \notin holders
    /\ holders' = holders \union {w}
    /\ UNCHANGED waiting

Queue(w) ==
    /\ Full
    /\ waiting' = Append(waiting, w)
    /\ UNCHANGED holders

\* A member goes: its slot is the first one's who waits.
Free(w) ==
    /\ waiting = <<>> /\ w \in holders
    /\ holders' = holders \ {w}
    /\ UNCHANGED waiting

Pass(w) ==
    /\ waiting # <<>> /\ w \in holders
    /\ holders' = (holders \ {w}) \union {Head(waiting)}
    /\ waiting' = Tail(waiting)

QueueNext == \E w \in Workers : Serve(w) \/ Queue(w) \/ Free(w) \/ Pass(w)

QueueSpec == QueueInit /\ [][QueueNext]_queueVars
=============================================================================
