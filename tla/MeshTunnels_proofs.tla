------------------------- MODULE MeshTunnels_proofs -------------------------
(***************************************************************************)
(* Theorems about MeshTunnels, for any nodes, goroutines, addresses and    *)
(* number of tries: the slot of a node is held by exactly the goroutine    *)
(* that is connecting to it, and cached tunnels stay while they are used.  *)
(***************************************************************************)
EXTENDS MeshTunnels, TLAPS

At == {"rest", "wait", "recheck", "load", "connect", "insert", "got",
       "render", "health"}

\* The places between taking a slot and returning.
InSlot == {"recheck", "load", "connect", "insert"}

\* A goroutine that waits for a slot wants a node; one that renders, the
\* tunnel of the stack, for which there is no slot.
KeyInv ==
    \A c \in Callers :
        /\ caller[c].at = "wait" => caller[c].key \in Nodes
        /\ caller[c].at = "render" => caller[c].key = Shared

IInv == TypeOK /\ KeyInv /\ SlotHasHolder

----------------------------------------------------------------------------
\* Lemmas about the records.
LEMMA CallerFields ==
    ASSUME NEW at, NEW k, NEW a, NEW e, NEW t
    PROVE  /\ Caller(at, k, a, e, t).at = at
           /\ Caller(at, k, a, e, t).key = k
BY DEF Caller

LEMMA CallerIn ==
    ASSUME NEW at \in At, NEW k \in Keys, NEW a \in Addrs \cup {Unknown},
           NEW e \in 0..MaxEra, NEW t \in 0..MaxTries - 1
    PROVE  Caller(at, k, a, e, t) \in CallerStates
BY DEF Caller, CallerStates, At

LEMMA ConstantTypes ==
    0 \in 0..MaxEra /\ 0 \in 0..MaxTries - 1 /\ Shared \in Keys
BY BoundsAssumption DEF Keys

LEMMA RestingIs == Resting \in CallerStates /\ Resting.at = "rest"
BY CallerIn, CallerFields, ConstantTypes DEF Resting, At

LEMMA ReceiveIn ==
    ASSUME NEW k \in Keys
    PROVE  Caller("got", k, Unknown, 0, 0) \in CallerStates
BY CallerIn, ConstantTypes DEF At

LEMMA CallerOf ==
    ASSUME TypeOK, NEW c \in Callers
    PROVE  /\ caller[c] \in CallerStates
           /\ caller[c].at \in At
           /\ caller[c].key \in Keys
           /\ caller[c].to \in Addrs \cup {Unknown}
           /\ caller[c].era \in 0..MaxEra
           /\ caller[c].tries \in 0..MaxTries - 1
<1>1. caller[c] \in CallerStates BY DEF TypeOK
<1> QED BY <1>1 DEF CallerStates, At

LEMMA Becoming ==
    ASSUME TypeOK, NEW c \in Callers, NEW state \in CallerStates,
           Become(c, state)
    PROVE  /\ caller' \in [Callers -> CallerStates]
           /\ caller'[c] = state
           /\ \A d \in Callers \ {c} : caller'[d] = caller[d]
BY DEF Become, TypeOK

LEMMA Going ==
    ASSUME TypeOK, NEW c \in Callers, NEW from, NEW to \in At,
           Goto(c, from, to)
    PROVE  /\ caller[c].at = from
           /\ caller' \in [Callers -> CallerStates]
           /\ caller'[c].at = to /\ caller'[c].key = caller[c].key
           /\ \A d \in Callers \ {c} : caller'[d] = caller[d]
<1> DEFINE r == caller[c]
           state == Caller(to, r.key, r.to, r.era, r.tries)
<1>1. state \in CallerStates BY CallerOf, CallerIn
<1>2. Become(c, state) /\ r.at = from BY DEF Goto
<1> HIDE DEF state
<1>3. /\ caller' \in [Callers -> CallerStates]
      /\ caller'[c] = state
      /\ \A d \in Callers \ {c} : caller'[d] = caller[d]
  BY <1>1, <1>2, Becoming
<1>4. state.at = to /\ state.key = r.key BY CallerFields DEF state
<1> QED BY <1>2, <1>3, <1>4

LEMMA Leaving ==
    ASSUME TypeOK, NEW c \in Callers, Leave(c)
    PROVE  /\ caller' \in [Callers -> CallerStates]
           /\ caller'[c].at = "rest"
           /\ \A d \in Callers \ {c} : caller'[d] = caller[d]
BY RestingIs, Becoming DEF Leave

LEMMA Receiving ==
    ASSUME TypeOK, NEW c \in Callers, NEW k \in Keys, Receive(c, k)
    PROVE  /\ caller' \in [Callers -> CallerStates]
           /\ caller'[c].at = "got"
           /\ \A d \in Callers \ {c} : caller'[d] = caller[d]
BY ReceiveIn, CallerFields, Becoming DEF Receive

LEMMA TunnelIn ==
    ASSUME NEW c \in Callers, NEW a \in Addrs \cup {Unknown},
           NEW e \in 0..MaxEra, NEW i \in BOOLEAN, NEW p \in BOOLEAN
    PROVE  Tunnel(c, a, e, i, p) \in Tunnels
BY DEF Tunnel, Tunnels

\* Using, ageing or pinning a cached tunnel leaves it the same tunnel.
LEMMA TunnelOf ==
    ASSUME NEW t \in Tunnels, NEW i \in BOOLEAN
    PROVE  /\ Aged(t, i) \in Tunnels /\ Pinned(t) \in Tunnels
           /\ Aged(t, i).by = t.by /\ Aged(t, i).to = t.to
           /\ Aged(t, i).era = t.era
           /\ Pinned(t).by = t.by /\ Pinned(t).to = t.to
           /\ Pinned(t).era = t.era
<1>1. /\ t.by \in Callers /\ t.to \in Addrs \cup {Unknown}
      /\ t.era \in 0..MaxEra /\ t.idle \in BOOLEAN /\ t.pinned \in BOOLEAN
  BY DEF Tunnels
<1> QED BY <1>1 DEF Aged, Pinned, Tunnel, Tunnels

LEMMA CachedTunnel ==
    ASSUME TypeOK, NEW k \in Keys, Cached(k)
    PROVE  tunnels[k] \in Tunnels
BY DEF TypeOK, Cached

LEMMA NoTunnelIsNone == NoTunnel \notin Tunnels
BY NobodyAssumption DEF NoTunnel, Tunnel, Tunnels

----------------------------------------------------------------------------
\* What Init establishes.
LEMMA InitIInv == Init => IInv
<1> SUFFICES ASSUME Init PROVE IInv OBVIOUS
<1>1. TypeOK
  <2>1. caller \in [Callers -> CallerStates] BY RestingIs DEF Init
  <2>2. discovery \in [at : {"rest", "write"}, left : SUBSET Keys,
                       to : Addrs \cup {Unknown}]
    BY DEF Init, Quiet, Discovery
  <2> QED BY <2>1, <2>2, ConstantTypes DEF Init, TypeOK
<1>2. KeyInv
  BY RestingIs DEF Init, KeyInv
<1>3. SlotHasHolder
  BY NobodyAssumption, RestingIs DEF Init, SlotHasHolder
<1> QED BY <1>1, <1>2, <1>3 DEF IInv

----------------------------------------------------------------------------
\* A goroutine's step either leaves the slots and its claim to them alone,
\* or takes a free one, or gives its own back.
Claims(r, n) == r.key = n /\ r.at \in InSlot

\* The others stay where they are.
Alone(c) == \A d \in Callers \ {c} : caller'[d] = caller[d]

LEMMA SlotKept ==
    ASSUME IInv, NEW c \in Callers, Alone(c), slot' = slot,
           \A n \in Nodes : Claims(caller'[c], n) <=> Claims(caller[c], n)
    PROVE  SlotHasHolder' /\ slot' \in [Nodes -> Callers \cup {Nobody}]
<1>1. \A d \in Callers, n \in Nodes :
          Claims(caller'[d], n) <=> Claims(caller[d], n)
  BY DEF Alone
<1>2. \A d \in Callers, n \in Nodes : slot[n] = d <=> Claims(caller[d], n)
  BY DEF IInv, SlotHasHolder, Claims, InSlot
<1>3. \A d \in Callers, n \in Nodes : slot'[n] = d <=> Claims(caller'[d], n)
  BY <1>1, <1>2
<1>4. SlotHasHolder' BY <1>3 DEF SlotHasHolder, Claims, InSlot
<1> QED BY <1>4 DEF IInv, TypeOK

LEMMA SlotReleased ==
    ASSUME IInv, NEW c \in Callers, Alone(c), ReleaseSlot(c),
           caller'[c].at \notin InSlot
    PROVE  SlotHasHolder' /\ slot' \in [Nodes -> Callers \cup {Nobody}]
<1>1. \A d \in Callers, n \in Nodes : slot[n] = d <=> Claims(caller[d], n)
  BY DEF IInv, SlotHasHolder, Claims, InSlot
<1>2. \A n \in Nodes : slot[n] \in Callers \cup {Nobody}
  BY DEF IInv, TypeOK
<1>3. \A n \in Nodes :
          slot'[n] = IF slot[n] = c THEN Nobody ELSE slot[n]
  BY DEF ReleaseSlot
<1>4. ASSUME NEW d \in Callers, NEW n \in Nodes
      PROVE  slot'[n] = d <=> Claims(caller'[d], n)
  <2>1. CASE d = c
    BY <1>3, <2>1, NobodyAssumption DEF Claims
  <2>2. CASE d # c
    BY <1>1, <1>3, <2>2, NobodyAssumption DEF Alone
  <2> QED BY <2>1, <2>2
<1>5. SlotHasHolder' BY <1>4 DEF SlotHasHolder, Claims, InSlot
<1>6. slot' \in [Nodes -> Callers \cup {Nobody}]
  BY <1>2 DEF ReleaseSlot
<1> QED BY <1>5, <1>6

LEMMA SlotTaken ==
    ASSUME IInv, NEW c \in Callers, TakeSlot(c)
    PROVE  SlotHasHolder' /\ slot' \in [Nodes -> Callers \cup {Nobody}]
<1> DEFINE k == caller[c].key
<1>1. /\ caller[c].at = "wait" /\ caller'[c].at = "recheck"
      /\ caller'[c].key = k /\ Alone(c)
  BY Going DEF TakeSlot, IInv, At, Alone
<1>2. k \in Nodes BY <1>1 DEF IInv, KeyInv
<1>3. slot[k] = Nobody /\ slot' = [slot EXCEPT ![k] = c]
  BY DEF TakeSlot
<1>4. slot \in [Nodes -> Callers \cup {Nobody}] BY DEF IInv, TypeOK
<1>5. \A d \in Callers, n \in Nodes : slot[n] = d <=> Claims(caller[d], n)
  BY DEF IInv, SlotHasHolder, Claims, InSlot
<1>6. \A n \in Nodes : slot'[n] = IF n = k THEN c ELSE slot[n]
  BY <1>2, <1>3, <1>4
<1> HIDE DEF k
<1>7. ASSUME NEW d \in Callers, NEW n \in Nodes
      PROVE  slot'[n] = d <=> Claims(caller'[d], n)
  <2>1. CASE d = c
    <3>1. ~Claims(caller[c], n) BY <1>1 DEF Claims, InSlot
    <3>2. Claims(caller'[c], n) <=> n = k
      BY <1>1 DEF Claims, InSlot, k
    <3> QED BY <1>5, <1>6, <2>1, <3>1, <3>2
  <2>2. CASE d # c
    <3>1. caller'[d] = caller[d] BY <1>1, <2>2 DEF Alone
    <3>2. CASE n = k
      BY <1>2, <1>3, <1>5, <1>6, <2>2, <3>1, <3>2, NobodyAssumption
    <3>3. CASE n # k
      BY <1>5, <1>6, <3>1, <3>3
    <3> QED BY <3>2, <3>3
  <2> QED BY <2>1, <2>2
<1>8. SlotHasHolder' BY <1>7 DEF SlotHasHolder, Claims, InSlot
<1> QED BY <1>2, <1>3, <1>4, <1>8

----------------------------------------------------------------------------
LEMMA TunnelSet ==
    ASSUME TypeOK, NEW k \in Keys, NEW t \in Tunnels \cup {NoTunnel},
           tunnels' = [tunnels EXCEPT ![k] = t]
    PROVE  tunnels' \in [Keys -> Tunnels \cup {NoTunnel}]
BY DEF TypeOK

\* A goroutine's step keeps the invariant if it keeps what is its own.
LEMMA CallerKeeps ==
    ASSUME IInv, NEW c \in Callers, Alone(c),
           caller' \in [Callers -> CallerStates],
           caller'[c].at = "wait" => caller'[c].key \in Nodes,
           caller'[c].at = "render" => caller'[c].key = Shared,
           slot' \in [Nodes -> Callers \cup {Nobody}], SlotHasHolder',
           tunnels' \in [Keys -> Tunnels \cup {NoTunnel}],
           address' \in [Keys -> Addrs \cup {Unknown}],
           forwards' \in BOOLEAN, UNCHANGED <<era, operations>>
    PROVE  IInv'
<1>1. TypeOK' BY DEF IInv, TypeOK, operations
<1>2. KeyInv' BY DEF IInv, KeyInv, Alone
<1> QED BY <1>1, <1>2 DEF IInv

LEMMA AskStep ==
    ASSUME IInv, NEW c \in Callers, NEW k \in Keys, Ask(c, k) PROVE IInv'
<1> USE DEF IInv
<1>1. CASE Cached(k) /\ Use(k) /\ Receive(c, k)
  <2>1. /\ caller' \in [Callers -> CallerStates] /\ Alone(c)
        /\ caller'[c].at = "got"
    BY <1>1, Receiving DEF Alone
  <2>2. tunnels' \in [Keys -> Tunnels \cup {NoTunnel}]
    BY <1>1, CachedTunnel, TunnelOf, TunnelSet DEF Use
  <2>3. \A n \in Nodes : Claims(caller'[c], n) <=> Claims(caller[c], n)
    BY <2>1 DEF Ask, Claims, InSlot
  <2>4. SlotHasHolder' /\ slot' \in [Nodes -> Callers \cup {Nobody}]
    BY <2>1, <2>3, SlotKept DEF Ask
  <2> QED BY <2>1, <2>2, <2>4, CallerKeeps DEF Ask, store, operations, TypeOK
<1>2. CASE ~Cached(k)
  <2> DEFINE to == IF k \in Nodes THEN "wait" ELSE "load"
  <2>1. /\ Become(c, Caller(to, k, Unknown, 0, 0)) /\ UNCHANGED tunnels
        /\ caller[c].at = "rest"
    BY <1>2 DEF Ask
  <2>2. Caller(to, k, Unknown, 0, 0) \in CallerStates
    BY CallerIn, ConstantTypes DEF At
  <2>3. /\ caller' \in [Callers -> CallerStates] /\ Alone(c)
        /\ caller'[c].at = to /\ caller'[c].key = k
    BY <2>1, <2>2, CallerFields, Becoming DEF Alone
  <2>4. \A n \in Nodes : Claims(caller'[c], n) <=> Claims(caller[c], n)
    BY <2>1, <2>3 DEF Claims, InSlot
  <2>5. SlotHasHolder' /\ slot' \in [Nodes -> Callers \cup {Nobody}]
    BY <2>3, <2>4, SlotKept DEF Ask
  <2>6. caller'[c].at = "wait" => caller'[c].key \in Nodes
    BY <2>3
  <2>7. caller'[c].at # "render" BY <2>3
  <2>8. /\ tunnels' \in [Keys -> Tunnels \cup {NoTunnel}]
        /\ address' \in [Keys -> Addrs \cup {Unknown}]
        /\ forwards' \in BOOLEAN /\ UNCHANGED <<era, operations>>
    BY <2>1 DEF Ask, store, operations, TypeOK
  <2> QED BY <2>3, <2>5, <2>6, <2>7, <2>8, CallerKeeps
<1> QED BY <1>1, <1>2 DEF Ask

\* Rendering reads the row and starts a passive tunnel.
LEMMA RenderStep ==
    ASSUME IInv, NEW c \in Callers, Render(c) \/ StartPassive(c) PROVE IInv'
<1> USE DEF IInv
<1>1. /\ address' \in [Keys -> Addrs \cup {Unknown}]
      /\ forwards' \in BOOLEAN /\ UNCHANGED <<era, operations, slot>>
  BY DEF Render, StartPassive, store, operations, TypeOK
<1>2. CASE Render(c)
  <2>1. Caller("render", Shared, Unknown, era, 0) \in CallerStates
    BY CallerIn, ConstantTypes DEF At, TypeOK
  <2>2. /\ caller' \in [Callers -> CallerStates] /\ Alone(c)
        /\ caller'[c].at = "render" /\ caller'[c].key = Shared
    BY <1>2, <2>1, CallerFields, Becoming DEF Alone, Render
  <2>3. \A n \in Nodes : Claims(caller'[c], n) <=> Claims(caller[c], n)
    BY <1>2, <2>2 DEF Claims, InSlot, Render
  <2>4. SlotHasHolder' /\ slot' \in [Nodes -> Callers \cup {Nobody}]
    BY <1>1, <2>2, <2>3, SlotKept
  <2> QED BY <1>1, <1>2, <2>2, <2>4, CallerKeeps DEF Render, TypeOK
<1>3. CASE StartPassive(c) /\ Leave(c) /\ Cached(Shared)
  <2>1. /\ caller' \in [Callers -> CallerStates] /\ Alone(c)
        /\ caller'[c].at = "rest" /\ caller[c].at = "render"
    BY <1>3, Leaving DEF Alone, StartPassive
  <2>2. \A n \in Nodes : Claims(caller'[c], n) <=> Claims(caller[c], n)
    BY <2>1 DEF Claims, InSlot
  <2>3. SlotHasHolder' /\ slot' \in [Nodes -> Callers \cup {Nobody}]
    BY <1>1, <2>1, <2>2, SlotKept
  <2>4. tunnels[Shared] \in Tunnels
    BY <1>3, CachedTunnel, ConstantTypes
  <2>5. Pinned(Aged(tunnels[Shared], FALSE)) \in Tunnels
    BY <2>4, TunnelOf
  <2>6. tunnels' \in [Keys -> Tunnels \cup {NoTunnel}]
    BY <1>3, <2>5, TunnelSet, ConstantTypes DEF StartPassive
  <2> QED BY <1>1, <2>1, <2>3, <2>6, CallerKeeps
<1>4. CASE StartPassive(c) /\ Goto(c, "render", "connect") /\ ~Cached(Shared)
  <2>1. /\ caller' \in [Callers -> CallerStates] /\ Alone(c)
        /\ caller'[c].at = "connect" /\ caller'[c].key = caller[c].key
        /\ caller[c].at = "render"
    BY <1>4, Going DEF Alone, At
  <2>2. caller[c].key = Shared BY <2>1 DEF KeyInv
  <2>3. \A n \in Nodes : Claims(caller'[c], n) <=> Claims(caller[c], n)
    BY <2>1, <2>2, KeysAssumption DEF Claims
  <2>4. SlotHasHolder' /\ slot' \in [Nodes -> Callers \cup {Nobody}]
    BY <1>1, <2>1, <2>3, SlotKept
  <2> QED BY <1>1, <1>4, <2>1, <2>4, CallerKeeps DEF StartPassive, TypeOK
<1> QED BY <1>2, <1>3, <1>4 DEF StartPassive

\* Taking the slot, and looking in the cache again.
LEMMA SlotStep ==
    ASSUME IInv, NEW c \in Callers, TakeSlot(c) \/ Recheck(c) PROVE IInv'
<1> USE DEF IInv
<1>1. /\ address' \in [Keys -> Addrs \cup {Unknown}]
      /\ forwards' \in BOOLEAN /\ UNCHANGED <<era, operations>>
  BY DEF TakeSlot, Recheck, store, operations, TypeOK
<1>2. CASE TakeSlot(c)
  <2>1. /\ caller' \in [Callers -> CallerStates] /\ Alone(c)
        /\ caller'[c].at = "recheck"
    BY <1>2, Going DEF Alone, TakeSlot, At
  <2>2. SlotHasHolder' /\ slot' \in [Nodes -> Callers \cup {Nobody}]
    BY <1>2, SlotTaken
  <2> QED BY <1>1, <1>2, <2>1, <2>2, CallerKeeps DEF TakeSlot, TypeOK
<1> DEFINE k == caller[c].key
<1>3. k \in Keys BY CallerOf
<1>4. CASE Recheck(c) /\ Receive(c, k) /\ Cached(k) /\ Use(k) /\ ReleaseSlot(c)
  <2>1. /\ caller' \in [Callers -> CallerStates] /\ Alone(c)
        /\ caller'[c].at = "got"
    BY <1>3, <1>4, Receiving DEF Alone
  <2>2. SlotHasHolder' /\ slot' \in [Nodes -> Callers \cup {Nobody}]
    BY <1>4, <2>1, SlotReleased DEF InSlot
  <2>3. tunnels' \in [Keys -> Tunnels \cup {NoTunnel}]
    BY <1>3, <1>4, CachedTunnel, TunnelOf, TunnelSet DEF Use
  <2> QED BY <1>1, <2>1, <2>2, <2>3, CallerKeeps
<1>5. CASE Goto(c, "recheck", "load") /\ UNCHANGED <<tunnels, slot>>
  <2>1. /\ caller' \in [Callers -> CallerStates] /\ Alone(c)
        /\ caller'[c].at = "load" /\ caller'[c].key = caller[c].key
        /\ caller[c].at = "recheck"
    BY <1>5, Going DEF Alone, At
  <2>2. SlotHasHolder' /\ slot' \in [Nodes -> Callers \cup {Nobody}]
    BY <1>5, <2>1, SlotKept DEF Claims, InSlot
  <2> QED BY <1>1, <1>5, <2>1, <2>2, CallerKeeps DEF TypeOK
<1> QED BY <1>2, <1>4, <1>5 DEF Recheck

\* Reading the address and the certificates.
LEMMA LoadStep ==
    ASSUME IInv, NEW c \in Callers, Load(c) PROVE IInv'
<1> USE DEF IInv
<1> DEFINE k == caller[c].key
<1>1. /\ tunnels' \in [Keys -> Tunnels \cup {NoTunnel}]
      /\ address' \in [Keys -> Addrs \cup {Unknown}]
      /\ forwards' \in BOOLEAN /\ UNCHANGED <<era, operations>>
  BY DEF Load, store, operations, TypeOK
<1>2. CASE /\ caller[c].at = "load"
           /\ Become(c, Caller("connect", k, address[k], era, 0))
           /\ UNCHANGED slot
  <2>1. k \in Keys /\ address[k] \in Addrs \cup {Unknown} /\ era \in 0..MaxEra
    BY CallerOf DEF TypeOK
  <2>2. Caller("connect", k, address[k], era, 0) \in CallerStates
    BY <2>1, CallerIn, ConstantTypes DEF At
  <2>3. /\ caller' \in [Callers -> CallerStates] /\ Alone(c)
        /\ caller'[c].at = "connect" /\ caller'[c].key = k
    BY <1>2, <2>2, CallerFields, Becoming DEF Alone
  <2>4. SlotHasHolder' /\ slot' \in [Nodes -> Callers \cup {Nobody}]
    BY <1>2, <2>3, SlotKept DEF Claims, InSlot
  <2> QED BY <1>1, <2>3, <2>4, CallerKeeps
<1>3. CASE Leave(c) /\ ReleaseSlot(c)
  <2>1. /\ caller' \in [Callers -> CallerStates] /\ Alone(c)
        /\ caller'[c].at = "rest"
    BY <1>3, Leaving DEF Alone
  <2>2. SlotHasHolder' /\ slot' \in [Nodes -> Callers \cup {Nobody}]
    BY <1>3, <2>1, SlotReleased DEF InSlot
  <2> QED BY <1>1, <2>1, <2>2, CallerKeeps
<1> QED BY <1>2, <1>3 DEF Load

\* Tries that failed leave one more to make, or end the call.
LEMMA ConnectStep ==
    ASSUME IInv, NEW c \in Callers, Connect(c) \/ ConnectFails(c) PROVE IInv'
<1> USE DEF IInv
<1> DEFINE r == caller[c]
           used == r.tries + 1
<1>1. /\ tunnels' \in [Keys -> Tunnels \cup {NoTunnel}]
      /\ address' \in [Keys -> Addrs \cup {Unknown}]
      /\ forwards' \in BOOLEAN /\ UNCHANGED <<era, operations>>
  BY DEF Connect, ConnectFails, store, operations, TypeOK
<1>2. CASE Goto(c, "connect", "insert") /\ UNCHANGED slot
  <2>1. /\ caller' \in [Callers -> CallerStates] /\ Alone(c)
        /\ caller'[c].at = "insert" /\ caller'[c].key = r.key
        /\ r.at = "connect"
    BY <1>2, Going DEF Alone, At
  <2>2. SlotHasHolder' /\ slot' \in [Nodes -> Callers \cup {Nobody}]
    BY <1>2, <2>1, SlotKept DEF Claims, InSlot
  <2> QED BY <1>1, <2>1, <2>2, CallerKeeps
<1>3. CASE /\ r.at = "connect" /\ used < Tries(r.key)
           /\ Become(c, Caller(r.at, r.key, r.to, r.era, used))
           /\ UNCHANGED slot
  <2>1. used \in 0..MaxTries - 1
    <3>1. r.tries \in Nat BY CallerOf, BoundsAssumption
    <3> HIDE DEF r
    <3> QED BY <1>3, <3>1, BoundsAssumption DEF Tries
  <2>2. Caller(r.at, r.key, r.to, r.era, used) \in CallerStates
    BY <2>1, CallerOf, CallerIn
  <2>3. /\ caller' \in [Callers -> CallerStates] /\ Alone(c)
        /\ caller'[c].at = "connect" /\ caller'[c].key = r.key
    BY <1>3, <2>2, CallerFields, Becoming DEF Alone
  <2>4. SlotHasHolder' /\ slot' \in [Nodes -> Callers \cup {Nobody}]
    BY <1>3, <2>3, SlotKept DEF Claims
  <2> QED BY <1>1, <2>3, <2>4, CallerKeeps
<1>4. CASE Leave(c) /\ ReleaseSlot(c)
  <2>1. /\ caller' \in [Callers -> CallerStates] /\ Alone(c)
        /\ caller'[c].at = "rest"
    BY <1>4, Leaving DEF Alone
  <2>2. SlotHasHolder' /\ slot' \in [Nodes -> Callers \cup {Nobody}]
    BY <1>4, <2>1, SlotReleased DEF InSlot
  <2> QED BY <1>1, <2>1, <2>2, CallerKeeps
<1> QED BY <1>2, <1>3, <1>4 DEF Connect, ConnectFails

\* The tunnel goes into the cache unless one is there.
LEMMA InsertStep ==
    ASSUME IInv, NEW c \in Callers, Insert(c) PROVE IInv'
<1> USE DEF IInv
<1> DEFINE k == caller[c].key
           passive == caller[c].to = Unknown
           found == IF passive THEN Pinned(tunnels[k]) ELSE tunnels[k]
<1>1. /\ address' \in [Keys -> Addrs \cup {Unknown}]
      /\ forwards' \in BOOLEAN /\ UNCHANGED <<era, operations>>
  BY DEF Insert, store, operations, TypeOK
<1>2. k \in Keys BY CallerOf
<1>3. Leave(c) \/ Receive(c, k) BY DEF Insert
<1>4. /\ caller' \in [Callers -> CallerStates] /\ Alone(c)
      /\ caller'[c].at \in {"rest", "got"}
  BY <1>2, <1>3, Leaving, Receiving DEF Alone
<1>5. SlotHasHolder' /\ slot' \in [Nodes -> Callers \cup {Nobody}]
  BY <1>4, SlotReleased DEF InSlot, Insert
<1>6. CASE Cached(k)
  <2>1. found \in Tunnels BY <1>2, <1>6, CachedTunnel, TunnelOf
  <2>2. tunnels' = [tunnels EXCEPT ![k] = found] BY <1>6 DEF Insert
  <2>3. tunnels' \in [Keys -> Tunnels \cup {NoTunnel}]
    BY <1>2, <2>1, <2>2, TunnelSet
  <2> QED BY <1>1, <1>4, <1>5, <2>3, CallerKeeps
<1>7. CASE ~Cached(k)
  <2>1. Made(c, passive) \in Tunnels BY CallerOf, TunnelIn DEF Made
  <2>2. tunnels' = [tunnels EXCEPT ![k] = Made(c, passive)]
    BY <1>7 DEF Insert
  <2>3. tunnels' \in [Keys -> Tunnels \cup {NoTunnel}]
    BY <1>2, <2>1, <2>2, TunnelSet
  <2> QED BY <1>1, <1>4, <1>5, <2>3, CallerKeeps
<1> QED BY <1>6, <1>7

\* What is done with a tunnel.
LEMMA UseStep ==
    ASSUME IInv, NEW c \in Callers, Serve(c) \/ HealthRead(c) \/ HealthWrite(c)
    PROVE  IInv'
<1> USE DEF IInv
<1>1. /\ tunnels' \in [Keys -> Tunnels \cup {NoTunnel}]
      /\ forwards' \in BOOLEAN /\ UNCHANGED <<era, operations, slot>>
  BY DEF Serve, StartForward, HealthRead, HealthWrite, store, operations, TypeOK
<1>2. caller[c].at \in {"got", "health"}
  BY DEF Serve, StartForward, HealthRead, HealthWrite
<1>3. caller[c].to \in Addrs \cup {Unknown} BY CallerOf
<1>4. address' \in [Keys -> Addrs \cup {Unknown}]
  BY <1>3 DEF Serve, StartForward, HealthRead, HealthWrite, store, TypeOK
<1>5. /\ caller' \in [Callers -> CallerStates] /\ Alone(c)
      /\ caller'[c].at \in {"rest", "health"}
  <2>1. CASE Leave(c) BY <2>1, Leaving DEF Alone
  <2>2. CASE HealthRead(c)
    <3>1. Caller("health", Shared, address[Shared], era, 0) \in CallerStates
      BY CallerIn, ConstantTypes DEF At, TypeOK
    <3> QED BY <2>2, <3>1, CallerFields, Becoming DEF Alone, HealthRead
  <2> QED BY <2>1, <2>2 DEF Serve, StartForward, HealthWrite
<1>6. SlotHasHolder' /\ slot' \in [Nodes -> Callers \cup {Nobody}]
  BY <1>1, <1>2, <1>5, SlotKept DEF Claims, InSlot
<1> QED BY <1>1, <1>4, <1>5, <1>6, CallerKeeps

----------------------------------------------------------------------------
\* Everybody else leaves the goroutines and their slots alone.
LEMMA OthersStep ==
    ASSUME IInv, UNCHANGED <<caller, slot>>, TypeOK' PROVE IInv'
BY DEF IInv, KeyInv, SlotHasHolder

LEMMA OperationStep ==
    ASSUME IInv,
           \/ \E k \in Keys : DiscoverWrite(k)
           \/ \E a \in Addrs, ks \in SUBSET Nodes : Discover(a, ks)
           \/ DiscoverClose \/ Teardown \/ DeleteStack
    PROVE  IInv'
<1> USE DEF IInv
<1> DEFINE Discoveries == [at : {"rest", "write"}, left : SUBSET Keys,
                           to : Addrs \cup {Unknown}]
<1>1. CASE \E k \in Keys : DiscoverWrite(k)
  <2> PICK k \in Keys : DiscoverWrite(k) BY <1>1
  <2>1. /\ discovery.left \in SUBSET Keys
        /\ discovery.to \in Addrs \cup {Unknown}
    BY DEF TypeOK
  <2>2. discovery' \in Discoveries
    BY <2>1 DEF DiscoverWrite, Discovery
  <2>3. address' \in [Keys -> Addrs \cup {Unknown}]
    BY <2>1 DEF DiscoverWrite, TypeOK
  <2> QED BY <2>2, <2>3, OthersStep DEF DiscoverWrite, TypeOK
<1>2. CASE \E a \in Addrs, ks \in SUBSET Nodes : Discover(a, ks)
  <2> PICK a \in Addrs, ks \in SUBSET Nodes : Discover(a, ks) BY <1>2
  <2>1. discovery' \in Discoveries
    BY DEF Discover, Discovery, Keys
  <2> QED BY <2>1, OthersStep DEF Discover, TypeOK, store
<1>3. Quiet \in Discoveries BY DEF Quiet, Discovery
<1> HIDE DEF Discoveries
<1>4. CASE DiscoverClose
  <2>1. tunnels' \in [Keys -> Tunnels \cup {NoTunnel}]
    BY <1>4, TunnelSet, ConstantTypes DEF DiscoverClose, CloseTunnel
  <2> QED BY <1>3, <1>4, <2>1, OthersStep
          DEF DiscoverClose, TypeOK, store, Discoveries
<1>5. CASE Teardown
  <2>1. /\ tunnels' \in [Keys -> Tunnels \cup {NoTunnel}]
        /\ address' \in [Keys -> Addrs \cup {Unknown}]
        /\ teardown' \in {"rest", "clear", "close"}
    BY <1>5, TunnelSet, ConstantTypes DEF Teardown, CloseTunnel, TypeOK
  <2> QED BY <1>5, <2>1, OthersStep DEF Teardown, TypeOK
<1>6. CASE DeleteStack
  <2>1. era' \in 0..MaxEra
    BY <1>6, BoundsAssumption DEF DeleteStack, TypeOK
  <2> QED BY <1>6, <2>1, OthersStep DEF DeleteStack, TypeOK, operations
<1> QED BY <1>1, <1>2, <1>4, <1>5, <1>6

LEMMA IdleStep ==
    ASSUME IInv,
           (\E k \in Keys : GrowIdle(k)) \/ Reap \/ StopForwards \/ Restart
    PROVE  IInv'
<1> USE DEF IInv
<1>1. CASE \E k \in Keys : GrowIdle(k)
  <2> PICK k \in Keys : GrowIdle(k) BY <1>1
  <2>1. tunnels' \in [Keys -> Tunnels \cup {NoTunnel}]
    BY CachedTunnel, TunnelOf, TunnelSet DEF GrowIdle
  <2> QED BY <2>1, OthersStep DEF GrowIdle, TypeOK, store, operations
<1>2. CASE Reap
  <2>1. ASSUME NEW k \in Keys, tunnels[k].idle
        PROVE  Aged(tunnels[k], FALSE) \in Tunnels
    <3>1. tunnels[k] # NoTunnel BY <2>1 DEF NoTunnel, Tunnel
    <3>2. tunnels[k] \in Tunnels BY <3>1, CachedTunnel DEF Cached
    <3> QED BY <3>2, TunnelOf
  <2>2. tunnels' \in [Keys -> Tunnels \cup {NoTunnel}]
    BY <1>2, <2>1 DEF Reap, TypeOK
  <2> QED BY <1>2, <2>2, OthersStep DEF Reap, TypeOK, store, operations
<1>3. CASE StopForwards
  BY <1>3, OthersStep DEF StopForwards, TypeOK, store, operations
<1>4. CASE Restart
  <2>1. discovery' \in [at : {"rest", "write"}, left : SUBSET Keys,
                        to : Addrs \cup {Unknown}]
    BY <1>4 DEF Restart, Quiet, Discovery
  <2>2. caller' \in [Callers -> CallerStates]
    BY <1>4, RestingIs DEF Restart
  <2>3. TypeOK' BY <1>4, <2>1, <2>2 DEF Restart, TypeOK, store
  <2>4. KeyInv' BY <1>4, RestingIs DEF Restart, KeyInv
  <2>5. SlotHasHolder'
    BY <1>4, RestingIs, NobodyAssumption DEF Restart, SlotHasHolder
  <2> QED BY <2>3, <2>4, <2>5
<1> QED BY <1>1, <1>2, <1>3, <1>4

LEMMA NextIInv == IInv /\ [Next]_vars => IInv'
<1> SUFFICES ASSUME IInv, [Next]_vars PROVE IInv' OBVIOUS
<1>1. CASE UNCHANGED vars
  BY <1>1 DEF IInv, TypeOK, KeyInv, SlotHasHolder, vars
<1>2. ASSUME NEW c \in Callers,
             \/ \E k \in Keys : Ask(c, k)
             \/ Render(c) \/ TakeSlot(c) \/ HealthRead(c) \/ Proceed(c)
      PROVE  IInv'
  BY <1>2, AskStep, RenderStep, SlotStep, LoadStep, ConnectStep, InsertStep,
     UseStep DEF Proceed
<1> QED BY <1>1, <1>2, OperationStep, IdleStep DEF Next

\* Every variable of the tunnel cache keeps its type: in particular no retry
\* loop counts past the last try (GetTunnelForNode).
THEOREM MeshTypeCorrect == Spec => []TypeOK
<1>1. IInv => TypeOK BY DEF IInv
<1> QED BY <1>1, InitIInv, NextIInv, PTL DEF Spec

\* The slot of a node (Manager.connecting) is taken exactly while one
\* goroutine is between taking it and returning: never by two, and no error
\* or early return keeps it.
THEOREM SlotHeldByConnector == Spec => []SlotHasHolder
<1>1. IInv => SlotHasHolder BY DEF IInv
<1> QED BY <1>1, InitIInv, NextIInv, PTL DEF Spec

----------------------------------------------------------------------------
\* What may become of a cached tunnel, key by key.
Same(t, u) == u.by = t.by /\ u.to = t.to /\ u.era = t.era

Kept(k) ==
    LET t == tunnels[k]
        gone == tunnels'[k] = NoTunnel
    IN  t # NoTunnel => \/ Same(t, tunnels'[k])
                        \/ gone /\ t.idle /\ ~t.pinned /\ ~forwards
                        \/ gone /\ k = Shared /\ operations' # operations
                        \/ Restart

LEMMA Untouched ==
    ASSUME NEW k \in Keys, tunnels'[k] = tunnels[k] PROVE Kept(k)
BY DEF Kept, Same

\* A step that replaces the tunnel of one key by the same tunnel.
LEMMA Replaced ==
    ASSUME TypeOK, NEW k \in Keys, NEW u,
           tunnels' = [tunnels EXCEPT ![k] = u],
           Cached(k) => Same(tunnels[k], u)
    PROVE  \A j \in Keys : Kept(j)
<1> TAKE j \in Keys
<1>1. CASE j = k BY <1>1 DEF Kept, Cached, TypeOK
<1>2. CASE j # k
  <2>1. tunnels'[j] = tunnels[j] BY <1>2 DEF TypeOK
  <2> QED BY <2>1, Untouched
<1> QED BY <1>1, <1>2

LEMMA SameTunnel ==
    ASSUME TypeOK, NEW k \in Keys, Cached(k), NEW i \in BOOLEAN
    PROVE  /\ Same(tunnels[k], tunnels[k])
           /\ Same(tunnels[k], Aged(tunnels[k], i))
           /\ Same(tunnels[k], Pinned(tunnels[k]))
           /\ Same(tunnels[k], Pinned(Aged(tunnels[k], i)))
BY CachedTunnel, TunnelOf DEF Same

LEMMA KeptByCaller ==
    ASSUME TypeOK, NEW c \in Callers,
           \/ \E k \in Keys : Ask(c, k)
           \/ Render(c) \/ TakeSlot(c) \/ HealthRead(c) \/ Proceed(c)
    PROVE  \A k \in Keys : Kept(k)
<1>1. CASE UNCHANGED tunnels BY <1>1, Untouched
<1>2. ASSUME NEW k \in Keys, Cached(k), Use(k)
      PROVE  \A j \in Keys : Kept(j)
  BY <1>2, Replaced, SameTunnel DEF Use
<1>3. CASE Recheck(c)
  <2>1. caller[c].key \in Keys BY CallerOf
  <2> QED BY <1>1, <1>2, <1>3, <2>1 DEF Recheck
<1>4. CASE StartPassive(c) /\ Cached(Shared)
  <2>1. tunnels' =
          [tunnels EXCEPT ![Shared] = Pinned(Aged(tunnels[Shared], FALSE))]
    BY <1>4 DEF StartPassive
  <2> QED BY <1>4, <2>1, Replaced, SameTunnel, ConstantTypes
<1>5. CASE Insert(c)
  <2> DEFINE k == caller[c].key
             passive == caller[c].to = Unknown
             found == IF passive THEN Pinned(tunnels[k]) ELSE tunnels[k]
             u == IF Cached(k) THEN found ELSE Made(c, passive)
  <2>1. k \in Keys BY CallerOf
  <2>2. tunnels' = [tunnels EXCEPT ![k] = u] BY <1>5 DEF Insert
  <2>3. Cached(k) => Same(tunnels[k], u) BY <2>1, SameTunnel
  <2> QED BY <2>1, <2>2, <2>3, Replaced
<1> QED
  BY <1>1, <1>2, <1>3, <1>4, <1>5
  DEF Ask, Render, StartPassive, TakeSlot, Load, Connect, ConnectFails,
      Serve, HealthRead, HealthWrite, Proceed

LEMMA KeptByOthers ==
    ASSUME TypeOK,
           \/ \E k \in Keys : DiscoverWrite(k) \/ GrowIdle(k)
           \/ \E a \in Addrs, ks \in SUBSET Nodes : Discover(a, ks)
           \/ StopForwards \/ DiscoverClose \/ Teardown \/ DeleteStack
           \/ Reap \/ Restart
    PROVE  \A k \in Keys : Kept(k)
<1>1. CASE UNCHANGED tunnels BY <1>1, Untouched
<1>2. ASSUME NEW k \in Keys, GrowIdle(k) PROVE \A j \in Keys : Kept(j)
  BY <1>2, Replaced, SameTunnel DEF GrowIdle
<1>3. CASE CloseTunnel(Shared) /\ operations' # operations
  <2> TAKE j \in Keys
  <2>1. CASE j = Shared
    BY <1>3, <2>1 DEF Kept, CloseTunnel, TypeOK
  <2>2. CASE j # Shared
    BY <1>3, <2>2, Untouched DEF CloseTunnel, TypeOK
  <2> QED BY <2>1, <2>2
<1>4. CASE DiscoverClose
  <2>1. discovery' # discovery
    BY <1>4 DEF DiscoverClose, Quiet, Discovery
  <2> QED BY <1>3, <1>4, <2>1 DEF DiscoverClose, operations
<1>5. CASE Teardown
  BY <1>1, <1>3, <1>5 DEF Teardown, operations
<1>6. CASE Reap
  <2> TAKE j \in Keys
  <2>1. tunnels'[j] = IF tunnels[j].idle /\ ~tunnels[j].pinned
                      THEN IF forwards THEN Aged(tunnels[j], FALSE)
                                       ELSE NoTunnel
                      ELSE tunnels[j]
    BY <1>6 DEF Reap
  <2>2. CASE ~(tunnels[j].idle /\ ~tunnels[j].pinned)
    BY <2>1, <2>2, Untouched
  <2>3. CASE tunnels[j].idle /\ ~tunnels[j].pinned /\ forwards
    BY <2>1, <2>3, SameTunnel DEF Kept, Cached
  <2>4. CASE tunnels[j].idle /\ ~tunnels[j].pinned /\ ~forwards
    BY <2>1, <2>4 DEF Kept
  <2> QED BY <2>2, <2>3, <2>4 DEF TypeOK
<1>7. CASE Restart BY <1>7 DEF Kept
<1> QED
  BY <1>1, <1>2, <1>4, <1>5, <1>6, <1>7
  DEF DiscoverWrite, Discover, StopForwards, DeleteStack

\* A tunnel somebody got from the cache is not taken away or replaced while
\* it is pinned, in use or not idle, save when an operation ends.
THEOREM TunnelsKept == Spec => KeptWhileUsed
<1>1. ASSUME TypeOK, [Next]_vars PROVE [\A k \in Keys : Kept(k)]_vars
  <2>1. CASE Next
    BY <1>1, <2>1, KeptByCaller, KeptByOthers DEF Next
  <2> QED BY <1>1, <2>1
<1>2. TypeOK /\ [Next]_vars => [\A k \in Keys : Kept(k)]_vars BY <1>1
<1>3. TypeOK /\ [Next]_vars =>
        [\A k \in Keys :
          LET t == tunnels[k]
              gone == tunnels'[k] = NoTunnel
              same == tunnels'[k].by = t.by /\ tunnels'[k].to = t.to
                      /\ tunnels'[k].era = t.era
          IN  t # NoTunnel => \/ same
                              \/ gone /\ t.idle /\ ~t.pinned /\ ~forwards
                              \/ gone /\ k = Shared /\ operations' # operations
                              \/ Restart]_vars
  BY <1>2 DEF Kept, Same
<1> QED BY <1>3, MeshTypeCorrect, PTL DEF Spec, KeptWhileUsed

============================================================================
