----------------------------- MODULE PortForward -----------------------------
(***************************************************************************)
(* Port forwards (internal/mesh/forward.go, api/port_forward.go) and the   *)
(* proxy that finds them by host name (api/forward_proxy.go): requests     *)
(* that start and stop forwards, each forward's accept loop, and the       *)
(* connections through it.  Tunnels are MeshTunnels' subject; here asking  *)
(* for one takes a while and may fail.                                     *)
(***************************************************************************)
CONSTANTS
    Forwards,       \* POST /stacks/{name}/forward requests
    Stops,          \* DELETE /stacks/{name}/forward/{id} requests
    Conns,          \* connections of clients
    Ports,          \* free ports of 127.0.0.1
    None

ASSUME NoneAssumption == None \notin Forwards \cup Ports

VARIABLES
    start,      \* where each POST request is
    listed,     \* ForwardManager.forwards
    socket,     \* the port each forward's listener is bound to
    localPort,  \* PortForward.LocalPort
    cancelled,  \* forwards whose context is cancelled
    loop,       \* acceptLoop: not yet or no more running, or accepting
    conn,       \* connections: place, forward, the forward a proxied request
                \* names, the directions that were copied to their end
    stop        \* DELETE requests: place, forward

vars == <<start, listed, socket, localPort, cancelled, loop, conn, stop>>

Conn(place, f, named, ended) == [at |-> place, fwd |-> f, named |-> named, ended |-> ended]
Stopping(place, f) == [at |-> place, fwd |-> f]
NoConn == Conn("idle", None, None, {})
Closed(c) == Conn("closed", conn[c].fwd, conn[c].named, {})

\* connWg and active: the connections that have a goroutine.
Handled(f) == {c \in Conns : conn[c].fwd = f /\ conn[c].at \in {"tunnel", "dial", "copy"}}
Get(f) == f \in listed
List == [f \in listed |-> localPort[f]]   \* what GET /stacks/{name}/forward shows
Listener(p) == {f \in Forwards : socket[f] = p}

TypeOK ==
    /\ start \in [Forwards -> {"idle", "tunnel", "listen", "insert", "done", "failed"}]
    /\ listed \subseteq Forwards /\ cancelled \subseteq Forwards
    /\ socket \in [Forwards -> Ports \cup {None}]
    /\ localPort \in [Forwards -> Ports \cup {None}]
    /\ loop \in [Forwards -> {"none", "accepting", "ended"}]
    /\ conn \in [Conns -> [at : {"idle", "found", "backlog", "accepted", "tunnel",
                                 "dial", "copy", "closed"},
                           fwd : Forwards \cup {None}, named : Forwards \cup {None},
                           ended : SUBSET {"out", "in"}]]
    /\ stop \in [Stops -> [at : {"idle", "cancel", "close", "drain", "clean", "timeout"},
                           fwd : Forwards \cup {None}]]
    /\ \A f, g \in Forwards : socket[f] = socket[g] /\ socket[f] # None => f = g
    /\ \A f \in Forwards : loop[f] = "accepting" => start[f] = "done"

Init ==
    /\ start = [f \in Forwards |-> "idle"] /\ listed = {} /\ cancelled = {}
    /\ socket = [f \in Forwards |-> None] /\ localPort = [f \in Forwards |-> None]
    /\ loop = [f \in Forwards |-> "none"] /\ conn = [c \in Conns |-> NoConn]
    /\ stop = [s \in Stops |-> Stopping("idle", None)]

----------------------------------------------------------------------------
\* StartPortForward: the tunnel first, then the port, then the map.
Request(f) ==
    /\ start[f] = "idle"
    /\ start' = [start EXCEPT ![f] = "tunnel"]
    /\ UNCHANGED <<listed, socket, localPort, cancelled, loop, conn, stop>>
Verify(f) ==
    /\ start[f] = "tunnel"
    /\ \E place \in {"listen", "failed"} : start' = [start EXCEPT ![f] = place]
    /\ UNCHANGED <<listed, socket, localPort, cancelled, loop, conn, stop>>

\* The port is the request's or any free one; it may be taken.
Bind(f, p) ==
    /\ start' = [start EXCEPT ![f] = "insert"]
    /\ socket' = [socket EXCEPT ![f] = p]
    /\ localPort' = [localPort EXCEPT ![f] = p]
ListenShared(f) ==
    /\ start[f] = "listen"
    /\ \E p \in Ports : Bind(f, p)
    /\ UNCHANGED <<listed, cancelled, loop, conn, stop>>
Listen(f) ==
    /\ start[f] = "listen"
    /\ \/ \E p \in Ports : Listener(p) = {} /\ Bind(f, p)
       \/ start' = [start EXCEPT ![f] = "failed"] /\ UNCHANGED <<socket, localPort>>
    /\ UNCHANGED <<listed, cancelled, loop, conn, stop>>

Insert(f) ==
    /\ start[f] = "insert"
    /\ start' = [start EXCEPT ![f] = "done"]
    /\ listed' = listed \cup {f}
    /\ loop' = [loop EXCEPT ![f] = "accepting"]
    /\ UNCHANGED <<socket, localPort, cancelled, conn, stop>>

----------------------------------------------------------------------------
\* A client dials a port: the system queues the connection for whoever
\* listens there, even before the accept loop runs, or refuses it.
Reach(c, p, named) ==
    \/ \E f \in Listener(p) : conn' = [conn EXCEPT ![c] = Conn("backlog", f, named, {})]
    \/ Listener(p) = {} /\ conn' = [conn EXCEPT ![c] = Conn("closed", None, named, {})]
Dial(c) ==
    /\ conn[c].at = "idle"
    /\ \E p \in Ports : Reach(c, p, None)
    /\ UNCHANGED <<start, listed, socket, localPort, cancelled, loop, stop>>

\* ForwardSubdomainProxy looks the forward up and dials its port later.
Lookup(c, f) ==
    /\ conn[c].at = "idle"
    /\ conn' = [conn EXCEPT ![c] = IF Get(f) THEN Conn("found", None, f, {})
                                   ELSE Conn("closed", None, f, {})]
    /\ UNCHANGED <<start, listed, socket, localPort, cancelled, loop, stop>>
Proxy(c) ==
    /\ conn[c].at = "found"
    /\ Reach(c, localPort[conn[c].named], conn[c].named)
    /\ UNCHANGED <<start, listed, socket, localPort, cancelled, loop, stop>>

----------------------------------------------------------------------------
\* acceptLoop: a connection is in the loop's hand before connWg counts it.
\* Any error ends the loop and leaves the listener open.
Accept(c) ==
    LET f == conn[c].fwd IN
    /\ conn[c].at = "backlog" /\ loop[f] = "accepting"
    /\ \A d \in Conns : conn[d].at = "accepted" => conn[d].fwd # f
    /\ conn' = [conn EXCEPT ![c].at = "accepted"]
    /\ UNCHANGED <<start, listed, socket, localPort, cancelled, loop, stop>>
AcceptFails(f) ==
    /\ loop[f] = "accepting"
    /\ \A c \in Conns : conn[c].at = "accepted" => conn[c].fwd # f
    /\ loop' = [loop EXCEPT ![f] = "ended"]
    /\ UNCHANGED <<start, listed, socket, localPort, cancelled, conn, stop>>
Count(c) ==
    /\ conn[c].at = "accepted"
    /\ conn' = [conn EXCEPT ![c].at = "tunnel"]
    /\ UNCHANGED <<start, listed, socket, localPort, cancelled, loop, stop>>

\* handleConn: a fresh tunnel for each connection, then the remote port.  A
\* dial fails at once under a cancelled context; one under way may be through.
BeginDialBlind(c) ==
    /\ conn[c].at = "tunnel"
    /\ \/ conn' = [conn EXCEPT ![c].at = "dial"]
       \/ conn' = [conn EXCEPT ![c] = Closed(c)]
    /\ UNCHANGED <<start, listed, socket, localPort, cancelled, loop, stop>>
BeginDial(c) ==
    /\ conn[c].at = "tunnel"
    /\ \/ /\ conn[c].fwd \notin cancelled
          /\ conn' = [conn EXCEPT ![c].at = "dial"]
       \/ conn' = [conn EXCEPT ![c] = Closed(c)]
    /\ UNCHANGED <<start, listed, socket, localPort, cancelled, loop, stop>>
EndDial(c) ==
    /\ conn[c].at = "dial"
    /\ \/ conn' = [conn EXCEPT ![c].at = "copy"]
       \/ conn' = [conn EXCEPT ![c] = Closed(c)]
    /\ UNCHANGED <<start, listed, socket, localPort, cancelled, loop, stop>>

\* Each direction ends by itself, and nobody tells the other: both sides
\* stay open until both have.  A cancellation only ends the keep-alive.
EndCopy(c, direction) ==
    /\ conn[c].at = "copy" /\ direction \notin conn[c].ended
    /\ conn' = [conn EXCEPT ![c].ended = @ \cup {direction}]
    /\ UNCHANGED <<start, listed, socket, localPort, cancelled, loop, stop>>
Hang(c) ==
    /\ conn[c].at = "copy" /\ conn[c].ended = {"out", "in"}
    /\ conn' = [conn EXCEPT ![c] = Closed(c)]
    /\ UNCHANGED <<start, listed, socket, localPort, cancelled, loop, stop>>

----------------------------------------------------------------------------
\* Stop: out of the map, the context, the listener with what was queued on
\* it, then the connections have three seconds.
Goto(s, place) == stop' = [stop EXCEPT ![s].at = place]
AskStopTwice(s, f) ==
    /\ stop[s].at = "idle" /\ start[f] = "done"
    /\ stop' = [stop EXCEPT ![s] = Stopping("cancel", f)]
    /\ UNCHANGED <<start, listed, socket, localPort, cancelled, loop, conn>>
AskStop(s, f) ==
    /\ stop[s].at = "idle" /\ Get(f)
    /\ stop' = [stop EXCEPT ![s] = Stopping("cancel", f)]
    /\ listed' = listed \ {f}
    /\ UNCHANGED <<start, socket, localPort, cancelled, loop, conn>>
CancelForward(s) ==
    /\ stop[s].at = "cancel" /\ Goto(s, "close")
    /\ cancelled' = cancelled \cup {stop[s].fwd}
    /\ UNCHANGED <<start, listed, socket, localPort, loop, conn>>
CloseListener(s) ==
    LET f == stop[s].fwd IN
    /\ stop[s].at = "close" /\ Goto(s, "drain")
    /\ socket' = [socket EXCEPT ![f] = None]
    /\ loop' = [loop EXCEPT ![f] = "ended"]
    /\ conn' = [c \in Conns |-> IF conn[c].fwd = f /\ conn[c].at = "backlog"
                                THEN Closed(c) ELSE conn[c]]
    /\ UNCHANGED <<start, listed, localPort, cancelled>>

\* connWg.Wait, or the timeout; either way nothing is closed.
DrainForEver(s) ==
    /\ stop[s].at = "drain"
    /\ Handled(stop[s].fwd) = {} /\ Goto(s, "clean")
    /\ UNCHANGED <<start, listed, socket, localPort, cancelled, loop, conn>>
Drain(s) ==
    /\ stop[s].at = "drain"
    /\ \/ Handled(stop[s].fwd) = {} /\ Goto(s, "clean")
       \/ Handled(stop[s].fwd) # {} /\ Goto(s, "timeout")
    /\ UNCHANGED <<start, listed, socket, localPort, cancelled, loop, conn>>

StartStep(f) == Verify(f) \/ Listen(f) \/ Insert(f)
StopStep(s) == CancelForward(s) \/ CloseListener(s) \/ Drain(s)
Next ==
    \/ \E f \in Forwards : Request(f) \/ StartStep(f) \/ AcceptFails(f)
    \/ \E c \in Conns : \/ Dial(c) \/ \E f \in Forwards : Lookup(c, f)
                        \/ Proxy(c) \/ Accept(c) \/ Count(c)
                        \/ BeginDial(c) \/ EndDial(c) \/ Hang(c)
                        \/ \E direction \in {"out", "in"} : EndCopy(c, direction)
    \/ \E s \in Stops : StopStep(s) \/ \E f \in Forwards : AskStop(s, f)

Spec == Init /\ [][Next]_vars

\* The handler of a DELETE is scheduled and its timer fires; no connection
\* needs to end.
Fairness == \A s \in Stops : WF_vars(StopStep(s))
FairSpec == Spec /\ Fairness

----------------------------------------------------------------------------
\* A clean drain is clean for good: once Stop has returned because nothing
\* was connected, nothing comes through any more, not even a connection that
\* had been accepted and was not counted yet (forward.go:131, 202).
CleanIsClean ==
    \A s \in Stops : stop[s].at = "clean" =>
        \A c \in Conns : conn[c].fwd = stop[s].fwd => conn[c].at \notin {"dial", "copy"}

\* A bound port is one that GET shows, with its forward, so that it can be
\* stopped, or that a request is putting there or taking away
\* (forward.go:80-102, 116-126); and what GET shows is bound and has not been
\* stopped.
ListenersListed ==
    \A f \in Forwards :
        /\ socket[f] # None =>
              \/ Get(f) /\ List[f] = socket[f]
              \/ start[f] = "insert"
              \/ \E s \in Stops : stop[s] \in {Stopping("cancel", f), Stopping("close", f)}
        /\ Get(f) => socket[f] # None /\ f \notin cancelled

\* DELETE returns although browsers keep their connections open
\* (forward.go:112).
StopReturns == \A s \in Stops : stop[s].at # "idle" ~> stop[s].at \in {"clean", "timeout"}

\* "Active connections are given 3 seconds to drain before being
\* force-closed" (forward.go:112).
ForceClosed ==
    \A s \in Stops : stop[s].at = "timeout" => Handled(stop[s].fwd) = {}

\* The middleware "routes to the correct local port forward"
\* (docs/deployment.md:348): a request through the proxy ends up in the
\* forward it names.
RightForward ==
    \A c \in Conns : conn[c].named # None /\ conn[c].fwd # None => conn[c].fwd = conn[c].named
=============================================================================
