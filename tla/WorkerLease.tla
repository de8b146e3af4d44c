----------------------------- MODULE WorkerLease -----------------------------
(***************************************************************************)
(* What the worker pool promises its callers, whatever becomes of workers, *)
(* retries, kills and drains: a request that is served holds one of Size   *)
(* leases from its first worker to its last, has one worker at a time, and *)
(* leaves when its worker is gone, never to return.                        *)
(***************************************************************************)
EXTENDS Naturals, FiniteSets

CONSTANTS Requests, Size

VARIABLE lease   \* of each request: "out", "idle" (a lease, no worker), "busy" or "left"

LeaseInit == lease = [r \in Requests |-> "out"]

Becomes(r, from, to) == lease[r] \in from /\ lease' = [lease EXCEPT ![r] = to]

Grant(r) ==
    /\ Cardinality({q \in Requests : lease[q] \in {"idle", "busy"}}) < Size
    /\ Becomes(r, {"out"}, "idle")

Start(r) == Becomes(r, {"idle"}, "busy")
End(r) == Becomes(r, {"busy"}, "idle")

\* A request may also leave without a lease.
Leave(r) == Becomes(r, {"out", "idle"}, "left")

LeaseNext == \E r \in Requests : Grant(r) \/ Start(r) \/ End(r) \/ Leave(r)

LeaseSpec == LeaseInit /\ [][LeaseNext]_lease
=============================================================================
