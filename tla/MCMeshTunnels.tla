--------------------------- MODULE MCMeshTunnels ---------------------------
(***************************************************************************)
(* Instances of MeshTunnels for TLC.  Goroutines are interchangeable where *)
(* no liveness is checked.                                                 *)
(***************************************************************************)
EXTENDS MeshTunnels, TLC

CallerSymmetry == Permutations(Callers)

\* The requests with the operations that store addresses, from any stored
\* addresses.  Bound: a deleted stack is not deployed again.  Teardown, which
\* clears and closes what discovery stores and closes, and a restart, which
\* ends every request, are left out.
RequestsInit ==
    \E a \in [Keys -> Addrs \cup {Unknown}] :
        /\ era = 0 /\ address = a
        /\ tunnels = [k \in Keys |-> NoTunnel]
        /\ slot = [n \in Nodes |-> Nobody]
        /\ caller = [c \in Callers |-> Resting]
        /\ discovery = Quiet /\ teardown = "rest" /\ forwards = FALSE

RequestsNext ==
    \/ \E c \in Callers : \/ \E k \in Keys : Ask(c, k)
                         \/ Render(c) \/ TakeSlot(c) \/ HealthRead(c)
                         \/ Proceed(c)
    \/ \E a \in Addrs, ks \in SUBSET Nodes : era = 0 /\ Discover(a, ks)
    \/ \E k \in Keys : DiscoverWrite(k) \/ GrowIdle(k)
    \/ DiscoverClose \/ DeleteStack \/ StopForwards \/ Reap

RequestsSpec == RequestsInit /\ [][RequestsNext]_vars /\ Fairness
============================================================================
