------------------------- MODULE PortForward_proofs -------------------------
(***************************************************************************)
(* What PortForward guarantees for any number of forwards, connections,    *)
(* requests and ports.  A forward's place between Start and Stop decides   *)
(* its listener, its context and its entry in the map (PlaceInv); the rest *)
(* follows from that.                                                      *)
(***************************************************************************)
EXTENDS PortForward, TLAPS

\* Nothing of a forward exists before it is bound.
Unbound == {"idle", "tunnel", "listen", "failed"}

PlaceInv ==
    /\ \A f \in Forwards :
          /\ start[f] \in Unbound => socket[f] = None
          /\ start[f] # "done" => f \notin listed /\ f \notin cancelled
          /\ start[f] = "insert" => socket[f] # None
          /\ start[f] \in {"insert", "done"} => localPort[f] # None
          /\ socket[f] # None => socket[f] = localPort[f]
          /\ f \in listed => socket[f] # None /\ f \notin cancelled
          /\ start[f] = "done" => f \in listed \/ \E s \in Stops : stop[s].fwd = f
    /\ \A s \in Stops :
          /\ stop[s].at = "idle" <=> stop[s].fwd = None
          /\ stop[s].fwd # None => start[stop[s].fwd] = "done" /\ stop[s].fwd \notin listed
          /\ stop[s].at \in {"close", "drain", "clean", "timeout"} => stop[s].fwd \in cancelled
          /\ stop[s].at \in {"drain", "clean", "timeout"} => socket[stop[s].fwd] = None
    /\ \A s, t \in Stops : stop[s].fwd = stop[t].fwd /\ stop[s].fwd # None => s = t

IInv == TypeOK /\ PlaceInv /\ CleanIsClean

----------------------------------------------------------------------------
\* Types, and one listener on a port.
LEMMA ConnTyped ==
  ASSUME TypeOK, NEW c \in Conns,
         UNCHANGED <<start, listed, socket, localPort, cancelled, loop, stop>>,
         \/ \E place \in {"accepted", "tunnel", "dial", "copy"} :
               conn' = [conn EXCEPT ![c].at = place]
         \/ conn' = [conn EXCEPT ![c] = Closed(c)]
         \/ \E d \in {"out", "in"} : conn' = [conn EXCEPT ![c].ended = @ \cup {d}]
  PROVE  TypeOK'
<1>1. CASE \E place \in {"accepted", "tunnel", "dial", "copy"} :
             conn' = [conn EXCEPT ![c].at = place]
  <2>1. PICK place \in {"accepted", "tunnel", "dial", "copy"} :
           conn' = [conn EXCEPT ![c].at = place]
    BY <1>1
  <2>2. conn[c].fwd \in Forwards \cup {None} /\ conn[c].named \in Forwards \cup {None}
        /\ conn[c].ended \in SUBSET {"out", "in"}
    BY DEF TypeOK
  <2>3. [conn[c] EXCEPT !.at = place] = Conn(place, conn[c].fwd, conn[c].named, conn[c].ended)
    BY DEF TypeOK, Conn
  <2>4. QED
    BY <2>1, <2>2, <2>3 DEF TypeOK, Conn
<1>2. CASE conn' = [conn EXCEPT ![c] = Closed(c)]
  BY <1>2 DEF TypeOK, Closed, Conn
<1>3. CASE \E d \in {"out", "in"} : conn' = [conn EXCEPT ![c].ended = @ \cup {d}]
  BY <1>3, SMTT(30) DEF TypeOK
<1>4. QED
  BY <1>1, <1>2, <1>3

LEMMA TypeStep == TypeOK /\ PlaceInv /\ [Next]_vars => TypeOK'
<1> SUFFICES ASSUME TypeOK, PlaceInv, [Next]_vars PROVE TypeOK'
  OBVIOUS
<1>1. ASSUME NEW f \in Forwards, Request(f)
      PROVE  TypeOK'
  BY <1>1, NoneAssumption DEF Request, TypeOK
<1>2. ASSUME NEW f \in Forwards, Verify(f)
      PROVE  TypeOK'
  BY <1>2, NoneAssumption DEF Verify, TypeOK
<1>3. ASSUME NEW f \in Forwards, Listen(f)
      PROVE  TypeOK'
  <2>1. ASSUME NEW p \in Ports, Listener(p) = {}, Bind(f, p)
        PROVE  TypeOK'
    <3>1. \A g \in Forwards : socket[g] # p
      BY <2>1 DEF Listener
    <3>2. /\ start' = [start EXCEPT ![f] = "insert"]
          /\ socket' = [socket EXCEPT ![f] = p]
          /\ localPort' = [localPort EXCEPT ![f] = p]
          /\ UNCHANGED <<listed, cancelled, loop, conn, stop>>
          /\ start[f] = "listen"
      BY <1>3, <2>1 DEF Listen, Bind
    <3>3. \A g, h \in Forwards : socket'[g] = socket'[h] /\ socket'[g] # None => g = h
      BY <3>1, <3>2 DEF TypeOK
    <3>4. \A g \in Forwards : loop'[g] = "accepting" => start'[g] = "done"
      BY <3>2 DEF TypeOK
    <3>5. QED
      BY <3>2, <3>3, <3>4 DEF TypeOK
  <2>2. ASSUME start' = [start EXCEPT ![f] = "failed"], UNCHANGED <<socket, localPort>>
        PROVE  TypeOK'
    BY <1>3, <2>2 DEF Listen, TypeOK
  <2>3. QED
    BY <1>3, <2>1, <2>2 DEF Listen, TypeOK
<1>4. ASSUME NEW f \in Forwards, Insert(f)
      PROVE  TypeOK'
  BY <1>4, NoneAssumption DEF Insert, TypeOK
<1>5. ASSUME NEW f \in Forwards, AcceptFails(f)
      PROVE  TypeOK'
  BY <1>5, NoneAssumption DEF AcceptFails, TypeOK
<1>6. ASSUME NEW c \in Conns, Dial(c)
      PROVE  TypeOK'
  BY <1>6, NoneAssumption DEF Dial, Reach, Listener, TypeOK, Conn
<1>7. ASSUME NEW c \in Conns, NEW f \in Forwards, Lookup(c, f)
      PROVE  TypeOK'
  BY <1>7, NoneAssumption DEF Lookup, TypeOK, Conn
<1>8. ASSUME NEW c \in Conns, Proxy(c)
      PROVE  TypeOK'
  BY <1>8, NoneAssumption DEF Proxy, Reach, Listener, TypeOK, Conn
<1>9. ASSUME NEW c \in Conns, Accept(c)
      PROVE  TypeOK'
  BY <1>9, ConnTyped DEF Accept
<1>10. ASSUME NEW c \in Conns, Count(c)
      PROVE  TypeOK'
  BY <1>10, ConnTyped DEF Count
<1>11. ASSUME NEW c \in Conns, BeginDial(c)
      PROVE  TypeOK'
  BY <1>11, ConnTyped DEF BeginDial
<1>12. ASSUME NEW c \in Conns, EndDial(c)
      PROVE  TypeOK'
  BY <1>12, ConnTyped DEF EndDial
<1>13. ASSUME NEW c \in Conns, Hang(c)
      PROVE  TypeOK'
  BY <1>13, ConnTyped DEF Hang
<1>14. ASSUME NEW c \in Conns, NEW d \in {"out", "in"}, EndCopy(c, d)
      PROVE  TypeOK'
  BY <1>14, ConnTyped DEF EndCopy
<1>15. ASSUME NEW s \in Stops, CancelForward(s)
      PROVE  TypeOK'
  <2>1. stop[s].fwd \in Forwards
    BY <1>15 DEF CancelForward, PlaceInv, TypeOK, Goto
  <2>2. QED
    BY <1>15, <2>1 DEF CancelForward, TypeOK, Goto
<1>16. ASSUME NEW s \in Stops, CloseListener(s)
      PROVE  TypeOK'
  BY <1>16, NoneAssumption, ZenonT(60) DEF CloseListener, TypeOK, Closed, Conn, Goto
<1>17. ASSUME NEW s \in Stops, Drain(s)
      PROVE  TypeOK'
  BY <1>17, NoneAssumption DEF Drain, TypeOK, Goto
<1>18. ASSUME NEW s \in Stops, NEW f \in Forwards, AskStop(s, f)
      PROVE  TypeOK'
  BY <1>18, NoneAssumption DEF AskStop, TypeOK, Stopping
<1>19. CASE UNCHANGED vars
  BY <1>19 DEF vars, TypeOK
<1>20. QED
  BY <1>1, <1>2, <1>3, <1>4, <1>5, <1>6, <1>7, <1>8, <1>9, <1>10, <1>11, <1>12, <1>13, <1>14, <1>15, <1>16, <1>17, <1>18, <1>19 DEF Next, StartStep, StopStep

----------------------------------------------------------------------------
\* A forward's places.
LEMMA PlaceStep == TypeOK /\ PlaceInv /\ [Next]_vars => PlaceInv'
<1> SUFFICES ASSUME TypeOK, PlaceInv, [Next]_vars PROVE PlaceInv'
  OBVIOUS
<1> USE DEF TypeOK, PlaceInv, Unbound, Stopping, Goto
<1>1. ASSUME NEW f \in Forwards, Request(f)
      PROVE  PlaceInv'
  BY <1>1, NoneAssumption DEF Request
<1>2. ASSUME NEW f \in Forwards, Verify(f)
      PROVE  PlaceInv'
  BY <1>2, NoneAssumption DEF Verify
<1>3. ASSUME NEW f \in Forwards, Listen(f)
      PROVE  PlaceInv'
  BY <1>3, NoneAssumption DEF Listen, Bind, Listener
<1>4. ASSUME NEW f \in Forwards, Insert(f)
      PROVE  PlaceInv'
  BY <1>4, NoneAssumption DEF Insert
<1>5. ASSUME NEW f \in Forwards, AcceptFails(f)
      PROVE  PlaceInv'
  BY <1>5, NoneAssumption DEF AcceptFails
<1>6. ASSUME NEW c \in Conns, Dial(c)
      PROVE  PlaceInv'
  BY <1>6, NoneAssumption DEF Dial, Reach, Listener
<1>7. ASSUME NEW c \in Conns, NEW f \in Forwards, Lookup(c, f)
      PROVE  PlaceInv'
  BY <1>7, NoneAssumption DEF Lookup
<1>8. ASSUME NEW c \in Conns, Proxy(c)
      PROVE  PlaceInv'
  BY <1>8, NoneAssumption DEF Proxy, Reach, Listener
<1>9. ASSUME NEW c \in Conns, Accept(c)
      PROVE  PlaceInv'
  BY <1>9, NoneAssumption DEF Accept
<1>10. ASSUME NEW c \in Conns, Count(c)
      PROVE  PlaceInv'
  BY <1>10, NoneAssumption DEF Count
<1>11. ASSUME NEW c \in Conns, BeginDial(c)
      PROVE  PlaceInv'
  BY <1>11, NoneAssumption DEF BeginDial
<1>12. ASSUME NEW c \in Conns, EndDial(c)
      PROVE  PlaceInv'
  BY <1>12, NoneAssumption DEF EndDial
<1>13. ASSUME NEW c \in Conns, Hang(c)
      PROVE  PlaceInv'
  BY <1>13, NoneAssumption DEF Hang
<1>14. ASSUME NEW c \in Conns, NEW d \in {"out", "in"}, EndCopy(c, d)
      PROVE  PlaceInv'
  BY <1>14, NoneAssumption DEF EndCopy
<1>15. ASSUME NEW s \in Stops, CancelForward(s)
      PROVE  PlaceInv'
  BY <1>15, NoneAssumption DEF CancelForward
<1>16. ASSUME NEW s \in Stops, CloseListener(s)
      PROVE  PlaceInv'
  BY <1>16, NoneAssumption DEF CloseListener
<1>17. ASSUME NEW s \in Stops, Drain(s)
      PROVE  PlaceInv'
  <2>1. PICK place \in {"clean", "timeout"} :
           stop[s].at = "drain" /\ stop' = [stop EXCEPT ![s].at = place]
    BY <1>17 DEF Drain
  <2>2. UNCHANGED <<start, listed, socket, localPort, cancelled>>
    BY <1>17 DEF Drain
  <2>3. \A t \in Stops : stop'[t].fwd = stop[t].fwd /\ (t # s => stop'[t].at = stop[t].at)
    BY <2>1
  <2>4. stop'[s].at = place
    BY <2>1
  <2>5. QED
    BY <2>1, <2>2, <2>3, <2>4
<1>18. ASSUME NEW s \in Stops, NEW f \in Forwards, AskStop(s, f)
      PROVE  PlaceInv'
  <2>1. /\ stop[s].at = "idle" /\ stop[s].fwd = None /\ f \in listed
        /\ stop'[s].at = "cancel" /\ stop'[s].fwd = f
        /\ \A t \in Stops : t # s => stop'[t] = stop[t]
        /\ listed' = listed \ {f}
        /\ UNCHANGED <<start, socket, localPort, cancelled>>
    BY <1>18 DEF AskStop, Get
  <2>2. f # None /\ start[f] = "done" /\ \A t \in Stops : stop[t].fwd # f
    BY <2>1, NoneAssumption
  <2>3. \A g \in Forwards : start[g] = "done" =>
           g \in listed' \/ \E t \in Stops : stop'[t].fwd = g
    <3>1. SUFFICES ASSUME NEW g \in Forwards, start[g] = "done", g \notin listed, g # f
                   PROVE  \E t \in Stops : stop'[t].fwd = g
      BY <2>1
    <3>2. PICK t \in Stops : stop[t].fwd = g
      BY <3>1
    <3>3. t # s
      BY <2>1, <3>1, <3>2, NoneAssumption
    <3>4. QED
      BY <2>1, <3>2, <3>3
  <2>4. \A t, u \in Stops : stop'[t].fwd = stop'[u].fwd /\ stop'[t].fwd # None => t = u
    BY <2>1, <2>2
  <2>5. \A t \in Stops :
          /\ stop'[t].at = "idle" <=> stop'[t].fwd = None
          /\ stop'[t].fwd # None => start[stop'[t].fwd] = "done" /\ stop'[t].fwd \notin listed'
          /\ stop'[t].at \in {"close", "drain", "clean", "timeout"} => stop'[t].fwd \in cancelled
          /\ stop'[t].at \in {"drain", "clean", "timeout"} => socket[stop'[t].fwd] = None
    BY <2>1, <2>2
  <2>6. QED
    BY <2>1, <2>3, <2>4, <2>5
<1>19. CASE UNCHANGED vars
  BY <1>19 DEF vars
<1>20. QED
  BY <1>1, <1>2, <1>3, <1>4, <1>5, <1>6, <1>7, <1>8, <1>9, <1>10, <1>11, <1>12, <1>13, <1>14, <1>15, <1>16, <1>17, <1>18, <1>19, SMTT(60) DEF Next, StartStep, StopStep

----------------------------------------------------------------------------
\* Connections: what comes after a clean drain finds its context cancelled.
LEMMA CleanStep == TypeOK /\ PlaceInv /\ CleanIsClean /\ [Next]_vars => CleanIsClean'
<1> SUFFICES ASSUME TypeOK, PlaceInv, CleanIsClean, [Next]_vars PROVE CleanIsClean'
  OBVIOUS
<1> USE DEF TypeOK, CleanIsClean
<1>1. ASSUME NEW f \in Forwards, Request(f)
      PROVE  CleanIsClean'
  BY <1>1 DEF Request
<1>2. ASSUME NEW f \in Forwards, Verify(f)
      PROVE  CleanIsClean'
  BY <1>2 DEF Verify
<1>3. ASSUME NEW f \in Forwards, Listen(f)
      PROVE  CleanIsClean'
  BY <1>3 DEF Listen, Bind, Listener
<1>4. ASSUME NEW f \in Forwards, Insert(f)
      PROVE  CleanIsClean'
  BY <1>4 DEF Insert
<1>5. ASSUME NEW f \in Forwards, AcceptFails(f)
      PROVE  CleanIsClean'
  BY <1>5 DEF AcceptFails
<1>6. ASSUME NEW c \in Conns, Dial(c)
      PROVE  CleanIsClean'
  BY <1>6 DEF Dial, Reach, Listener, Conn
<1>7. ASSUME NEW c \in Conns, NEW f \in Forwards, Lookup(c, f)
      PROVE  CleanIsClean'
  BY <1>7 DEF Lookup, Conn
<1>8. ASSUME NEW c \in Conns, Proxy(c)
      PROVE  CleanIsClean'
  BY <1>8 DEF Proxy, Reach, Listener, Conn
<1>9. ASSUME NEW c \in Conns, Accept(c)
      PROVE  CleanIsClean'
  BY <1>9 DEF Accept
<1>10. ASSUME NEW c \in Conns, Count(c)
      PROVE  CleanIsClean'
  BY <1>10 DEF Count
<1>11. ASSUME NEW c \in Conns, BeginDial(c)
      PROVE  CleanIsClean'
  <2>1. SUFFICES ASSUME NEW s \in Stops, stop[s].at = "clean",
                        NEW d \in Conns, conn'[d].fwd = stop[s].fwd
                 PROVE  conn'[d].at \notin {"dial", "copy"}
    BY <1>11 DEF BeginDial
  <2>2. stop[s].fwd \in cancelled
    BY <2>1 DEF PlaceInv
  <2>3. CASE d # c
    <3>1. conn'[d] = conn[d]
      BY <1>11, <2>3 DEF BeginDial
    <3>2. QED
      BY <2>1, <3>1
  <2>4. CASE d = c
    <3>1. conn'[c].fwd = conn[c].fwd
      BY <1>11 DEF BeginDial, Closed, Conn
    <3>2. conn[c].fwd \in cancelled
      BY <2>1, <2>2, <2>4, <3>1
    <3>3. conn' = [conn EXCEPT ![c] = Closed(c)]
      BY <1>11, <3>2 DEF BeginDial
    <3>4. QED
      BY <2>4, <3>3 DEF Closed, Conn
  <2>5. QED
    BY <2>3, <2>4
<1>12. ASSUME NEW c \in Conns, EndDial(c)
      PROVE  CleanIsClean'
  BY <1>12 DEF EndDial, Closed, Conn
<1>13. ASSUME NEW c \in Conns, Hang(c)
      PROVE  CleanIsClean'
  BY <1>13 DEF Hang, Closed, Conn
<1>14. ASSUME NEW c \in Conns, NEW d \in {"out", "in"}, EndCopy(c, d)
      PROVE  CleanIsClean'
  BY <1>14 DEF EndCopy
<1>15. ASSUME NEW s \in Stops, CancelForward(s)
      PROVE  CleanIsClean'
  BY <1>15 DEF CancelForward, Goto
<1>16. ASSUME NEW s \in Stops, CloseListener(s)
      PROVE  CleanIsClean'
  BY <1>16 DEF CloseListener, Goto, Closed, Conn
<1>17. ASSUME NEW s \in Stops, Drain(s)
      PROVE  CleanIsClean'
  BY <1>17 DEF Drain, Handled, Goto
<1>18. ASSUME NEW s \in Stops, NEW f \in Forwards, AskStop(s, f)
      PROVE  CleanIsClean'
  BY <1>18 DEF AskStop, Stopping
<1>19. CASE UNCHANGED vars
  BY <1>19 DEF vars
<1>20. QED
  BY <1>1, <1>2, <1>3, <1>4, <1>5, <1>6, <1>7, <1>8, <1>9, <1>10, <1>11, <1>12, <1>13, <1>14, <1>15, <1>16, <1>17, <1>18, <1>19 DEF Next, StartStep, StopStep

----------------------------------------------------------------------------
\* IInv holds of the initial states and is kept by every step.
THEOREM Inductive == Spec => []IInv
<1>1. Init => IInv
  BY NoneAssumption DEF Init, IInv, TypeOK, PlaceInv, CleanIsClean, Unbound, Conn, NoConn, Stopping
<1>2. IInv /\ [Next]_vars => IInv'
  BY TypeStep, PlaceStep, CleanStep DEF IInv
<1>3. QED
  BY <1>1, <1>2, PTL DEF Spec

\* Every variable keeps its type, and no two forwards share a port
\* (forward.go:72).
THEOREM TypeCorrect == Spec => []TypeOK
<1>1. IInv => TypeOK
  BY DEF IInv
<1>2. QED
  BY <1>1, Inductive, PTL

\* Once Stop has returned because nothing was connected, nothing of the
\* forward is dialled or copied any more (forward.go:131, 202).
THEOREM CleanDrain == Spec => []CleanIsClean
<1>1. IInv => CleanIsClean
  BY DEF IInv
<1>2. QED
  BY <1>1, Inductive, PTL

\* Every bound port is shown with its forward, or about to be, or on its way
\* out (forward.go:80-126).
THEOREM Listed == Spec => []ListenersListed
<1>1. IInv => ListenersListed
  <2> SUFFICES ASSUME IInv, NEW f \in Forwards
               PROVE  /\ socket[f] # None =>
                            \/ Get(f) /\ List[f] = socket[f]
                            \/ start[f] = "insert"
                            \/ \E s \in Stops : stop[s] \in {Stopping("cancel", f), Stopping("close", f)}
                      /\ Get(f) => socket[f] # None /\ f \notin cancelled
    BY DEF ListenersListed
  <2> USE DEF IInv, TypeOK, PlaceInv
  <2>1. f \in listed => socket[f] = localPort[f] /\ List[f] = localPort[f]
    BY DEF List
  <2>2. ASSUME socket[f] # None, f \notin listed, start[f] # "insert"
        PROVE  \E s \in Stops : stop[s] \in {Stopping("cancel", f), Stopping("close", f)}
    <3>1. start[f] = "done"
      BY <2>2 DEF Unbound
    <3>2. PICK s \in Stops : stop[s].fwd = f
      BY <2>2, <3>1
    <3>3. stop[s].at \in {"cancel", "close"}
      BY <2>2, <3>2, NoneAssumption
    <3>4. stop[s] = [at |-> stop[s].at, fwd |-> stop[s].fwd]
      OBVIOUS
    <3>5. QED
      BY <3>2, <3>3, <3>4 DEF Stopping
  <2>3. QED
    BY <2>1, <2>2 DEF Get
<1>2. QED
  BY <1>1, Inductive, PTL
=============================================================================
