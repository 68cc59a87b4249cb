---------------------------- MODULE MeshTunnels ----------------------------
(***************************************************************************)
(* The cache of Nebula tunnels to the agents of one stack                  *)
(* (internal/mesh/mesh.go, Manager), the goroutines that ask it for one:   *)
(* the agent endpoints, port forwards, and whoever renders the program     *)
(* (Engine.agentURLFields); and what happens to the stored addresses       *)
(* under it: discovery, the teardown after a destroy, AgentHealth's write  *)
(* and DeleteStack.                                                        *)
(*                                                                         *)
(* The engine's lock admits one operation at a time (StackEngine), so one  *)
(* "discovery" suffices; a teardown runs after the lock is released.       *)
(* The keys of the cache are the stack's own and one for each node.        *)
(***************************************************************************)
EXTENDS Naturals

CONSTANTS
    Shared,     \* the key of the stack: the tunnel of its first agent
    Nodes,      \* the keys stack:0, stack:1, ...
    Callers,    \* goroutines that want a tunnel, or render the program
    Nobody,
    Addrs,      \* agent_real_ip values an operation may discover
    Unknown,    \* agent_real_ip is NULL
    MaxTries,   \* connection attempts of GetTunnelForNode, 3 in the code
    MaxEra      \* bound: how often the stack is deleted

Keys == Nodes \cup {Shared}

ASSUME KeysAssumption == Shared \notin Nodes
ASSUME NobodyAssumption == Nobody \notin Callers
ASSUME UnknownAssumption == Unknown \notin Addrs
ASSUME BoundsAssumption == MaxTries \in Nat \ {0} /\ MaxEra \in Nat

VARIABLES
    era,        \* which PKI the stack has: a new one after each DeleteStack
    address,    \* agent_real_ip of stack_connections and stack_node_certs
    tunnels,    \* Manager.tunnels: at most one tunnel for a key
    slot,       \* Manager.connecting: who may connect to a node
    caller,     \* the goroutines
    discovery,  \* discoverAgentAddress of the operation under way
    teardown,   \* the end of runOperation after a successful destroy
    forwards    \* hasActiveForwards: the stack has a port forward

vars == <<era, address, tunnels, slot, caller, discovery, teardown, forwards>>
store == <<era, address>>
operations == <<discovery, teardown>>

Tunnel(c, a, e, idle, pinned) ==
    [by |-> c, to |-> a, era |-> e, idle |-> idle, pinned |-> pinned]
NoTunnel == Tunnel(Nobody, Unknown, 0, FALSE, FALSE)
Tunnels == [by : Callers, to : Addrs \cup {Unknown}, era : 0..MaxEra,
            idle : BOOLEAN, pinned : BOOLEAN]
Cached(k) == tunnels[k] # NoTunnel
Passive(t) == t # NoTunnel /\ t.to = Unknown

Caller(at, k, a, e, tries) ==
    [at |-> at, key |-> k, to |-> a, era |-> e, tries |-> tries]
Resting == Caller("rest", Shared, Unknown, 0, 0)
CallerStates ==
    [at : {"rest", "wait", "recheck", "load", "connect", "insert", "got",
           "render", "health"},
     key : Keys, to : Addrs \cup {Unknown}, era : 0..MaxEra,
     tries : 0..MaxTries - 1]
Discovery(at, ks, a) == [at |-> at, left |-> ks, to |-> a]
Quiet == Discovery("rest", {}, Unknown)

TypeOK ==
    /\ era \in 0..MaxEra
    /\ address \in [Keys -> Addrs \cup {Unknown}]
    /\ tunnels \in [Keys -> Tunnels \cup {NoTunnel}]
    /\ slot \in [Nodes -> Callers \cup {Nobody}]
    /\ caller \in [Callers -> CallerStates]
    /\ discovery \in [at : {"rest", "write"}, left : SUBSET Keys,
                      to : Addrs \cup {Unknown}]
    /\ teardown \in {"rest", "clear", "close"}
    /\ forwards \in BOOLEAN

Init ==
    /\ era = 0
    /\ address = [k \in Keys |-> Unknown]
    /\ tunnels = [k \in Keys |-> NoTunnel]
    /\ slot = [n \in Nodes |-> Nobody]
    /\ caller = [c \in Callers |-> Resting]
    /\ discovery = Quiet
    /\ teardown = "rest"
    /\ forwards = FALSE

----------------------------------------------------------------------------
Become(c, state) == caller' = [caller EXCEPT ![c] = state]
Leave(c) == Become(c, Resting)
Receive(c, k) == Become(c, Caller("got", k, Unknown, 0, 0))
Goto(c, from, to) ==
    LET r == caller[c]
    IN  r.at = from /\ Become(c, Caller(to, r.key, r.to, r.era, r.tries))

\* Every way out of GetTunnelForNode after the slot was taken gives it back.
ReleaseSlot(c) ==
    slot' = [n \in Nodes |-> IF slot[n] = c THEN Nobody ELSE slot[n]]

Aged(t, idle) == Tunnel(t.by, t.to, t.era, idle, t.pinned)
Pinned(t) == Tunnel(t.by, t.to, t.era, t.idle, TRUE)
Use(k) == tunnels' = [tunnels EXCEPT ![k] = Aged(@, FALSE)]
CloseTunnel(k) == tunnels' = [tunnels EXCEPT ![k] = NoTunnel]

\* GetTunnel and GetTunnelForNode look in the cache first.
Ask(c, k) ==
    /\ caller[c].at = "rest"
    /\ \/ /\ Cached(k)
          /\ Use(k)
          /\ Receive(c, k)
       \/ /\ ~Cached(k)
          /\ Become(c, Caller(IF k \in Nodes THEN "wait" ELSE "load", k,
                              Unknown, 0, 0))
          /\ UNCHANGED tunnels
    /\ UNCHANGED <<store, slot, operations, forwards>>

\* agentURLFields starts a passive tunnel while no address is known; the
\* row was read before, and a cached tunnel of any kind is pinned instead.
Render(c) ==
    /\ caller[c].at = "rest"
    /\ address[Shared] = Unknown
    /\ Become(c, Caller("render", Shared, Unknown, era, 0))
    /\ UNCHANGED <<store, tunnels, slot, operations, forwards>>

StartPassive(c) ==
    /\ caller[c].at = "render"
    /\ \/ /\ Cached(Shared)
          /\ tunnels' = [tunnels EXCEPT ![Shared] = Pinned(Aged(@, FALSE))]
          /\ Leave(c)
       \/ /\ ~Cached(Shared)
          /\ Goto(c, "render", "connect")
          /\ UNCHANGED tunnels
    /\ UNCHANGED <<store, slot, operations, forwards>>

TakeSlot(c) ==
    /\ Goto(c, "wait", "recheck")
    /\ slot[caller[c].key] = Nobody
    /\ slot' = [slot EXCEPT ![caller[c].key] = c]
    /\ UNCHANGED <<store, tunnels, operations, forwards>>

RecheckKeepingSlot(c) ==
    LET k == caller[c].key
    IN  \/ /\ caller[c].at = "recheck" /\ Receive(c, k) /\ Cached(k)
           /\ Use(k)
           /\ UNCHANGED <<store, slot, operations, forwards>>
        \/ /\ Goto(c, "recheck", "load") /\ ~Cached(k)
           /\ UNCHANGED <<store, tunnels, slot, operations, forwards>>

\* Another goroutine may have connected while this one waited.
Recheck(c) ==
    LET k == caller[c].key
    IN  \/ /\ caller[c].at = "recheck" /\ Receive(c, k) /\ Cached(k)
           /\ Use(k) /\ ReleaseSlot(c)
           /\ UNCHANGED <<store, operations, forwards>>
        \/ /\ Goto(c, "recheck", "load") /\ ~Cached(k)
           /\ UNCHANGED <<store, tunnels, slot, operations, forwards>>

LoadKeepingSlot(c) ==
    /\ caller[c].at = "load"
    /\ LET k == caller[c].key
       IN  IF address[k] = Unknown THEN Leave(c)
           ELSE Become(c, Caller("connect", k, address[k], era, 0))
    /\ UNCHANGED <<store, tunnels, slot, operations, forwards>>

Load(c) ==
    /\ caller[c].at = "load"
    /\ LET k == caller[c].key
       IN  \/ /\ address[k] # Unknown
              /\ Become(c, Caller("connect", k, address[k], era, 0))
              /\ UNCHANGED slot
           \/ address[k] = Unknown /\ Leave(c) /\ ReleaseSlot(c)
    /\ UNCHANGED <<store, tunnels, operations, forwards>>

\* Nebula starts and, for a node, the probe gets through; or a try failed.
Connect(c) ==
    /\ Goto(c, "connect", "insert")
    /\ UNCHANGED <<store, tunnels, slot, operations, forwards>>

Tries(k) == IF k \in Nodes THEN MaxTries ELSE 1

ConnectFailsOnceMore(c) ==
    /\ caller[c].at = "connect"
    /\ LET r == caller[c]
           used == r.tries + 1
       IN  \/ /\ used <= Tries(r.key)
              /\ Become(c, Caller(r.at, r.key, r.to, r.era, used))
              /\ UNCHANGED slot
           \/ used > Tries(r.key) /\ Leave(c) /\ ReleaseSlot(c)
    /\ UNCHANGED <<store, tunnels, operations, forwards>>

ConnectFails(c) ==
    /\ caller[c].at = "connect"
    /\ LET r == caller[c]
           used == r.tries + 1
       IN  \/ /\ used < Tries(r.key)
              /\ Become(c, Caller(r.at, r.key, r.to, r.era, used))
              /\ UNCHANGED slot
           \/ used >= Tries(r.key) /\ Leave(c) /\ ReleaseSlot(c)
    /\ UNCHANGED <<store, tunnels, operations, forwards>>

Made(c, pinned) == Tunnel(c, caller[c].to, caller[c].era, FALSE, pinned)

InsertBlind(c) ==
    /\ caller[c].at = "insert"
    /\ LET k == caller[c].key
           passive == caller[c].to = Unknown
       IN  /\ tunnels' = [tunnels EXCEPT ![k] = Made(c, passive)]
           /\ IF passive THEN Leave(c) ELSE Receive(c, k)
    /\ ReleaseSlot(c)
    /\ UNCHANGED <<store, operations, forwards>>

\* Whoever finds a tunnel of its key in the cache drops its own.
Insert(c) ==
    /\ caller[c].at = "insert"
    /\ LET k == caller[c].key
           passive == caller[c].to = Unknown
           found == IF passive THEN Pinned(tunnels[k]) ELSE tunnels[k]
       IN  /\ tunnels' = [tunnels EXCEPT ![k] = IF Cached(k) THEN found
                                               ELSE Made(c, passive)]
           /\ IF passive THEN Leave(c) ELSE Receive(c, k)
    /\ ReleaseSlot(c)
    /\ UNCHANGED <<store, operations, forwards>>

----------------------------------------------------------------------------
\* What a caller does with its tunnel: a request or a shell, which leaves
\* nothing behind, or a port forward; or AgentHealth, which reads the stored
\* address and writes it back.
StartForward == forwards' = TRUE
Serve(c) ==
    /\ caller[c].at = "got"
    /\ Leave(c)
    /\ UNCHANGED forwards \/ StartForward
    /\ UNCHANGED <<store, tunnels, slot, operations>>

HealthRead(c) ==
    /\ caller[c].at = "got"
    /\ Become(c, Caller("health", Shared, address[Shared], era, 0))
    /\ UNCHANGED <<store, tunnels, slot, operations, forwards>>

HealthWrite(c) ==
    /\ caller[c].at = "health"
    /\ \/ address' = [address EXCEPT ![Shared] = caller[c].to]
       \/ caller[c].era # era /\ UNCHANGED address   \* the row is gone
    /\ Leave(c)
    /\ UNCHANGED <<era, tunnels, slot, operations, forwards>>

StopForwards ==
    /\ forwards
    /\ forwards' = FALSE
    /\ UNCHANGED <<store, tunnels, slot, caller, operations>>

----------------------------------------------------------------------------
\* discoverAgentAddress: the addresses one by one, in an order that differs
\* between its branches, then CloseTunnel for the stack's key.
Discover(a, ks) ==
    /\ discovery = Quiet
    /\ discovery' = Discovery("write", ks \cup {Shared}, a)
    /\ UNCHANGED <<store, tunnels, slot, caller, teardown, forwards>>

DiscoverWrite(k) ==
    /\ k \in discovery.left
    /\ discovery' = Discovery("write", discovery.left \ {k}, discovery.to)
    /\ address' = [address EXCEPT ![k] = discovery.to]
    /\ UNCHANGED <<era, tunnels, slot, caller, teardown, forwards>>

DiscoverClose ==
    /\ discovery.at = "write" /\ discovery.left = {}
    /\ discovery' = Quiet
    /\ CloseTunnel(Shared)
    /\ UNCHANGED <<store, slot, caller, teardown, forwards>>

Teardown ==
    /\ \/ /\ teardown = "rest" /\ discovery = Quiet
          /\ teardown' = "clear"
          /\ UNCHANGED <<address, tunnels>>
       \/ /\ teardown = "clear" /\ teardown' = "close"
          /\ address' = [address EXCEPT ![Shared] = Unknown]
          /\ UNCHANGED tunnels
       \/ /\ teardown = "close" /\ teardown' = "rest"
          /\ CloseTunnel(Shared)
          /\ UNCHANGED address
    /\ UNCHANGED <<era, slot, caller, discovery, forwards>>

\* DeleteStack, which an operation under way refuses: rows and PKI go.
DeleteStack ==
    /\ discovery = Quiet
    /\ era < MaxEra
    /\ era' = era + 1
    /\ address' = [k \in Keys |-> Unknown]
    /\ UNCHANGED <<tunnels, slot, caller, operations, forwards>>

----------------------------------------------------------------------------
\* Five minutes pass without a use of the tunnel.
GrowIdle(k) ==
    /\ Cached(k) /\ ~tunnels[k].idle
    /\ tunnels' = [tunnels EXCEPT ![k] = Aged(@, TRUE)]
    /\ UNCHANGED <<store, slot, caller, operations, forwards>>

\* One tick of the reaper; a forward of any key keeps all of the stack's.
Reap ==
    /\ \E k \in Keys : tunnels[k].idle /\ ~tunnels[k].pinned
    /\ tunnels' = [k \in Keys |->
                     IF tunnels[k].idle /\ ~tunnels[k].pinned
                     THEN IF forwards THEN Aged(tunnels[k], FALSE)
                                   ELSE NoTunnel
                     ELSE tunnels[k]]
    /\ UNCHANGED <<store, slot, caller, operations, forwards>>

\* The process restarts: tunnels, forwards and goroutines are gone.
Restart ==
    /\ tunnels' = [k \in Keys |-> NoTunnel]
    /\ slot' = [n \in Nodes |-> Nobody]
    /\ caller' = [c \in Callers |-> Resting]
    /\ discovery' = Quiet /\ teardown' = "rest" /\ forwards' = FALSE
    /\ UNCHANGED store

----------------------------------------------------------------------------
Proceed(c) ==
    \/ StartPassive(c) \/ Recheck(c) \/ Load(c) \/ Connect(c)
    \/ ConnectFails(c) \/ Insert(c) \/ Serve(c) \/ HealthWrite(c)

Next ==
    \/ \E c \in Callers : \/ \E k \in Keys : Ask(c, k)
                         \/ Render(c) \/ TakeSlot(c) \/ HealthRead(c)
                         \/ Proceed(c)
    \/ \E k \in Keys : DiscoverWrite(k) \/ GrowIdle(k)
    \/ \E a \in Addrs, ks \in SUBSET Nodes : Discover(a, ks)
    \/ StopForwards \/ DiscoverClose \/ Teardown \/ DeleteStack \/ Reap \/ Restart

Spec == Init /\ [][Next]_vars

\* A channel of capacity one serves its waiters in turn; everything else a
\* goroutine does here ends by itself (a probe after 12 seconds).
Fairness ==
    \A c \in Callers : WF_vars(Proceed(c)) /\ SF_vars(TakeSlot(c))

----------------------------------------------------------------------------
\* "prevents multiple goroutines from running the retry loop simultaneously
\* for the same node" (GetTunnelForNode): a slot is taken exactly while its
\* holder is between taking it and returning, whichever way it returns.
SlotHasHolder ==
    \A c \in Callers, n \in Nodes :
        slot[n] = c <=> /\ caller[c].key = n
                        /\ caller[c].at \in {"recheck", "load", "connect",
                                             "insert"}

\* A cached tunnel is never replaced by another; it leaves the cache when an
\* operation ended, or when it is idle and neither pinned by a deployment
\* nor in use by a port forward of the stack.
KeptWhileUsed ==
    [][\A k \in Keys :
          LET t == tunnels[k]
              gone == tunnels'[k] = NoTunnel
              same == tunnels'[k].by = t.by /\ tunnels'[k].to = t.to
                      /\ tunnels'[k].era = t.era
          IN  t # NoTunnel => \/ same
                              \/ gone /\ t.idle /\ ~t.pinned /\ ~forwards
                              \/ gone /\ k = Shared /\ operations' # operations
                              \/ Restart]_vars

\* Every request for a tunnel is answered: nobody waits for ever for the
\* slot of a node, and no retry loop is endless.
CallsEnd == \A c \in Callers : caller[c].at # "rest" ~> caller[c].at = "rest"

\* "After deploy completes, CloseTunnel removes it. Post-deploy, passive
\* tunnels are skipped entirely" (docs/application-catalog-architecture.md):
\* once an address is stored and nothing is under way, none is cached.
NoPassiveOnceKnown ==
    address[Shared] # Unknown /\ discovery = Quiet /\ teardown = "rest"
       /\ (\A c \in Callers : caller[c].at = "rest")
    => ~Passive(tunnels[Shared])

\* A stack created again under the name of a deleted one "starts completely
\* fresh" (stacks.go, DeleteStack): no tunnel outlives the PKI it was made of.
FreshAfterDelete ==
    (\A c \in Callers : caller[c].at = "rest")
    => \A k \in Keys : Cached(k) => tunnels[k].era = era
============================================================================
