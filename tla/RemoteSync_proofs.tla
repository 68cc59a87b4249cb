-------------------------- MODULE RemoteSync_proofs --------------------------
(***************************************************************************)
(* What RemoteSync guarantees for any number of servers and requests.      *)
(* MixInv: where no removal was disturbed, node certificates are of the CA *)
(* they are kept with, and requests between the two tables know which CA   *)
(* is in the first.  AloneInv: a request that nothing disturbs finds what  *)
(* it left.  HealInv: from an undisturbed up on only claims run, and every *)
(* upload under way carries what is deployed.                              *)
(***************************************************************************)
EXTENDS RemoteSync, TLAPS

Owns(i) == OneCA(i.ca, i.node)

\* While a PKI is removed nobody else removes, creates or reads it.
RemovingAlone ==
    \A r, x \in Active :
        /\ rq[r].srv = rq[x].srv /\ rq[r].at \in Removing
        /\ rq[x].at \in Removing \cup Creating \cup Reading
        => x = r
\* Requests between the two tables know which CA is in the first.
BetweenTables ==
    \A r \in Active :
        /\ rq[r].at = "nodes" => conn[rq[r].srv] = rq[r].num
        /\ rq[r].at = "importnodes" => conn[rq[r].srv] = rq[r].id.ca
        /\ rq[r].at = "dropnodes" => conn[rq[r].srv] = None
        /\ rq[r].at = "render" => OneCA(conn[rq[r].srv], rq[r].id.node)
        /\ rq[r].at = "mesh" => conn[rq[r].srv] = rq[r].id.ca /\ rq[r].id.ca # None
KeptTogether ==
    \A sv \in Servers :
        \/ OneCA(conn[sv], nodes[sv])
        \/ \E r \in Active : rq[r].srv = sv /\ rq[r].at = "dropnodes"
OwnCopies ==
    /\ \A r \in Active : rq[r].at # "render" => Owns(rq[r].id)
    /\ \A u \in uploads : Owns(u.id)
    /\ Owns(bucket.mesh) /\ Owns(deployed.id)
MixInv == ~torn => RemovingAlone /\ BetweenTables /\ KeptTogether /\ OwnCopies

\* Where requests of each kind can be.
PlaceInv ==
    \A r \in Active :
        /\ rq[r].num # None
        /\ rq[r].kind = "claim" <=> rq[r].at \in {"claim", "fetch", "import", "importnodes"}
        /\ rq[r].at \in {"run", "render", "busy"} => rq[r].kind \in OpKinds
        /\ rq[r].at \in {"create", "nodes"} => rq[r].kind \in OpKinds \cup {"put"}
        /\ rq[r].at = "check" => rq[r].kind \in OpKinds \cup {"put", "put_off"}
        /\ rq[r].at \in {"drop", "dropnodes"} => rq[r].kind \notin OpKinds
        /\ rq[r].at \in {"import", "importnodes"} => rq[r].id # NoAgent

\* Nothing but its own configuration is under way or has arrived.
Sent(r) ==
    /\ \A u \in uploads : u = Yaml(rq[r].srv, rq[r].cfg)
    /\ bucket.yaml = rq[r].cfg \/ Yaml(rq[r].srv, rq[r].cfg) \in uploads

\* A request that is alone finds what it left.
FindsOwn(r) ==
    /\ rq[r].kind = "up" /\ rq[r].at = "render" => rq[r].id.node = nodes[rq[r].srv]
    /\ rq[r].kind = "up" /\ rq[r].at \in {"busy", "sync"} =>
           rq[r].id = Rendered(rq[r].srv, nodes[rq[r].srv])
    /\ rq[r].kind = "up" /\ rq[r].at \in {"sync", "mesh"} =>
           /\ deployed.id = Rendered(rq[r].srv, nodes[rq[r].srv])
           /\ deployed.cfg = rq[r].cfg /\ bucket.state
    /\ rq[r].kind = "up" /\ rq[r].at = "mesh" =>
           /\ conn[rq[r].srv] # None /\ rq[r].id.ca = conn[rq[r].srv]
           /\ rq[r].good => Sent(r)
    /\ rq[r].good /\ rq[r].at \in {"claim", "fetch", "import"} => conn[rq[r].srv] = None
    /\ rq[r].good /\ rq[r].at = "import" /\ healed /\ deployed.id # NoAgent =>
           rq[r].id.ca = deployed.id.ca
AloneInv ==
    \A r \in Active : rq[r].alone => FindsOwn(r) /\ \A x \in Active : x = r

Fits(i) == i.ca = deployed.id.ca /\ deployed.id.node \in {i.node, i.ca}

HealInv ==
    healed =>
        /\ \A r \in Active : rq[r].kind = "claim"
        /\ bucket.state
        /\ \A u \in uploads : u.what = "yaml" => u.cfg = deployed.cfg
        /\ bucket.yaml = deployed.cfg \/ \E u \in uploads : u.what = "yaml"
        /\ deployed.id # NoAgent =>
              /\ \A u \in uploads : u.what = "mesh" => Fits(u.id)
              /\ Fits(bucket.mesh) \/ \E u \in uploads : u.what = "mesh"

IInv == TypeOK /\ MixInv /\ PlaceInv /\ AloneInv /\ HealInv

----------------------------------------------------------------------------
\* The requests that steps make, and those that are left.
LEMMA NumberFacts ==
    /\ None \in Numbers /\ NoAgent \in Identities
    /\ \A c, n \in Numbers : Identity(c, n) \in Identities
    /\ begun \in Numbers /\ begun < MaxRequests => begun + 1 \in Numbers /\ begun + 1 # None
BY ConstantsAssumption DEF None, Numbers, NoAgent, Identities, Identity

LEMMA FreeFacts ==
    Free.at = "free" /\ \A q \in AllRequests : q # Free /\ q.at # "free"
BY DEF AllRequests, Free

LEMMA OwnFacts ==
  /\ Owns(NoAgent) /\ \A sv \in Servers, c \in Numbers : Owns(Yaml(sv, c).id)
  /\ \A sv \in Servers, i \in Identities : Mesh(sv, i).id = i
  /\ \A c, n \in Numbers : OneCA(c, n) <=> Owns(Identity(c, n))
  /\ \A c \in Numbers : Owns(Identity(c, c))
  /\ \A i \in Identities : Owns(i) /\ i # NoAgent => i.ca # None
BY DEF Owns, OneCA, NoAgent, Identity, Identities, Yaml, Mesh

LEMMA RqTyped ==
  ASSUME Types, NEW r \in Requests, NEW q \in AllRequests \cup {Free},
         rq' = [rq EXCEPT ![r] = q]
  PROVE  rq' \in [Requests -> AllRequests \cup {Free}]
BY DEF Types

LEMMA GotoTyped ==
  ASSUME Types, NEW r \in Active, NEW place, Goto(r, place),
         place \in {"check", "create", "nodes", "run", "busy", "sync", "fetch", "claim",
                    "import", "importnodes", "drop", "dropnodes"}
  PROVE  rq' \in [Requests -> AllRequests \cup {Free}]
<1>1. rq[r] \in AllRequests
  BY DEF Types, Active
<1>2. [rq[r] EXCEPT !.at = place] \in AllRequests
  BY <1>1 DEF AllRequests
<1>3. QED
  BY <1>2, RqTyped DEF Goto, Step, Active

LEMMA AnswerTyped ==
  ASSUME Types, NEW r \in Requests, Answer(r)
  PROVE  rq' \in [Requests -> AllRequests \cup {Free}]
BY RqTyped DEF Answer, Step

LEMMA RequestTyped ==
  ASSUME Types, begun < MaxRequests, NEW sv \in Servers, NEW kind \in AllKinds,
         NEW place \in {"check", "drop", "claim"}, NEW c \in Numbers, NEW g \in BOOLEAN
  PROVE  /\ Request(place, sv, kind, begun + 1) \in AllRequests
         /\ [Request(place, sv, kind, begun + 1) EXCEPT !.cfg = c] \in AllRequests
         /\ [Request(place, sv, kind, begun + 1) EXCEPT !.cfg = c, !.good = g] \in AllRequests
BY NumberFacts DEF Request, AllRequests, Types

LEMMA DisturbedTyped ==
  ASSUME Types
  PROVE  \A x \in Requests : Disturbed(x) \in AllRequests \cup {Free}
<1>1. ASSUME NEW q \in AllRequests
      PROVE  [q EXCEPT !.alone = FALSE] \in AllRequests
  BY DEF AllRequests
<1>2. \A x \in Active : rq[x] \in AllRequests
  BY DEF Active, Types
<1>3. QED
  BY <1>1, <1>2 DEF Disturbed

LEMMA BeginTyped ==
  ASSUME Types, NEW r \in Requests, NEW q \in AllRequests, Begin(r, q)
  PROVE  /\ rq' \in [Requests -> AllRequests \cup {Free}]
         /\ begun' \in Numbers /\ healed' \in BOOLEAN
<1>1. [q EXCEPT !.alone = (Active = {})] \in AllRequests
  BY DEF AllRequests
<1>2. QED
  BY <1>1, DisturbedTyped, NumberFacts DEF Begin, Types

LEMMA RequestFields ==
  ASSUME Types, NEW r \in Active
  PROVE  /\ rq[r] \in AllRequests /\ rq[r].srv \in Servers /\ rq[r].kind \in AllKinds
         /\ rq[r].num \in Numbers /\ rq[r].cfg \in Numbers /\ rq[r].id \in Identities
         /\ rq[r].id.ca \in Numbers /\ rq[r].id.node \in Numbers
         /\ rq[r].alone \in BOOLEAN /\ rq[r].good \in BOOLEAN
<1>1. rq[r] \in AllRequests
  BY DEF Types, Active
<1>2. QED
  BY <1>1 DEF AllRequests, Identities

LEMMA TableFields ==
  ASSUME Types
  PROVE  conn \in [Servers -> Numbers] /\ nodes \in [Servers -> Numbers]
BY DEF Types

LEMMA UploadFields ==
  /\ \A u \in Uploads : u.cfg \in Numbers /\ u.id \in Identities
  /\ \A sv \in Servers, c \in Numbers : Yaml(sv, c) \in Uploads
  /\ \A sv \in Servers, i \in Identities : Mesh(sv, i) \in Uploads
BY NumberFacts DEF Uploads, Yaml, Mesh

\* How a step changes the requests: one of them, or all that are disturbed.
LEMMA Stays ==
  ASSUME Types, NEW r \in Requests, NEW q, rq' = [rq EXCEPT ![r] = q]
  PROVE  /\ \A x \in Requests : x # r => rq'[x] = rq[x]
         /\ rq'[r] = q
BY DEF Types

Others(r) == \A x \in Active : x # r => rq'[x] = rq[x]
Leaves(r) == Active' = Active \ {r} /\ Others(r) /\ rq'[r] = Free
Keeps(r) ==
    /\ Active' = Active /\ Others(r)
    /\ rq'[r].srv = rq[r].srv /\ rq'[r].kind = rq[r].kind /\ rq'[r].num = rq[r].num
    /\ rq'[r].cfg = rq[r].cfg /\ rq'[r].alone = rq[r].alone
Goes(r, place) ==
    /\ Keeps(r) /\ rq'[r].at = place
    /\ rq'[r].id = rq[r].id /\ rq'[r].good = rq[r].good

\* Unless it tears something, no other request works on the PKI of the server.
Calm(r, places) ==
    ~torn' => ~torn /\ \A x \in Active : x # r /\ rq[x].srv = rq'[r].srv => rq[x].at \notin places

LEMMA GoneTo ==
  ASSUME Types, NEW r \in Active, NEW place, Goto(r, place), place # "free"
  PROVE  Goes(r, place)
<1>1. rq[r] \in AllRequests /\ r \in Requests
  BY RequestFields DEF Active
<1>2. rq'[r] = [rq[r] EXCEPT !.at = place] /\ \A x \in Requests : x # r => rq'[x] = rq[x]
  BY <1>1, Stays DEF Goto, Step
<1>3. rq'[r] # Free
  BY <1>1, <1>2, FreeFacts DEF AllRequests
<1>4. QED
  BY <1>1, <1>2, <1>3 DEF AllRequests, Active, Goes, Keeps, Others

LEMMA Answered ==
  ASSUME Types, NEW r \in Requests, Answer(r)
  PROVE  Leaves(r)
BY Stays DEF Answer, Step, Active, Leaves, Others

\* Where each step of a request leaves it.
LEMMA CheckMoves ==
  ASSUME Types, NEW r \in Requests, Check(r)
  PROVE  /\ r \in Active /\ rq[r].at = "check" /\ UNCHANGED <<conn, nodes>>
         /\ \/ /\ Goes(r, "create") /\ rq[r].kind # "put_off"
               /\ Calm(r, Removing)
            \/ /\ Goes(r, "drop") /\ rq[r].kind = "put_off"
               /\ Calm(r, Removing \cup Creating \cup Reading)
            \/ Goes(r, "run") /\ rq[r].kind \in OpKinds /\ torn' = torn
            \/ Leaves(r) /\ torn' = torn
<1>1. r \in Active
  BY DEF Check, Active
<1>2. ASSUME NEW place, NEW places, GotoPKI(r, place, places), place # "free"
      PROVE  Goes(r, place) /\ Calm(r, places)
  <2>1. Goes(r, place)
    BY <1>1, <1>2, GoneTo DEF GotoPKI
  <2>2. torn' = (torn \/ At(rq[r].srv, places) \ {r} # {})
    BY <1>2 DEF GotoPKI
  <2>3. QED
    BY <2>1, <2>2 DEF Calm, Goes, Keeps, At, On
<1>3. QED
  BY <1>1, <1>2, GoneTo, Answered DEF Check, tables

LEMMA CreateMoves ==
  ASSUME Types, NEW r \in Requests, Create(r)
  PROVE  /\ r \in Active /\ rq[r].at = "create" /\ UNCHANGED <<torn, nodes>>
         /\ \/ Goes(r, "nodes") /\ conn[rq[r].srv] = None
               /\ conn' = [conn EXCEPT ![rq[r].srv] = rq[r].num]
            \/ Goes(r, "run") /\ rq[r].kind \in OpKinds /\ conn' = conn
            \/ Leaves(r) /\ conn' = conn
<1>1. r \in Active
  BY DEF Create, Active
<1>2. QED
  BY <1>1, GoneTo, Answered DEF Create, GiveUp, tables

LEMMA CreateNodesMoves ==
  ASSUME Types, NEW r \in Requests, CreateNodes(r)
  PROVE  /\ r \in Active /\ rq[r].at = "nodes" /\ UNCHANGED <<torn, conn>>
         /\ \/ /\ nodes[rq[r].srv] = None
               /\ nodes' = [nodes EXCEPT ![rq[r].srv] = rq[r].num]
               /\ \/ Goes(r, "sync") /\ rq[r].kind = "put"
                  \/ Goes(r, "run") /\ rq[r].kind # "put"
            \/ Goes(r, "run") /\ rq[r].kind \in OpKinds /\ nodes' = nodes
            \/ Leaves(r) /\ nodes' = nodes
<1>1. r \in Active
  BY DEF CreateNodes, Active
<1>2. QED
  BY <1>1, GoneTo, Answered DEF CreateNodes, GiveUp, tables

LEMMA DropMoves ==
  ASSUME Types, NEW r \in Requests, Drop(r)
  PROVE  /\ r \in Active /\ rq[r].at = "drop" /\ Goes(r, "dropnodes")
         /\ conn' = [conn EXCEPT ![rq[r].srv] = None] /\ UNCHANGED <<torn, nodes>>
<1>1. r \in Active
  BY DEF Drop, Active
<1>2. QED
  BY <1>1, GoneTo DEF Drop, tables

LEMMA SucceedMoves ==
  ASSUME Types, NEW r \in Requests, Succeed(r)
  PROVE  /\ r \in Active /\ rq[r].at = "busy" /\ Goes(r, "sync")
         /\ UNCHANGED <<torn, conn, nodes>>
<1>1. r \in Active
  BY DEF Succeed, Active
<1>2. QED
  BY <1>1, GoneTo DEF Succeed, tables

LEMMA ClaimMoves ==
  ASSUME Types, NEW r \in Requests, Claim(r)
  PROVE  /\ r \in Active /\ rq[r].at = "claim" /\ Goes(r, "fetch")
         /\ UNCHANGED <<torn, conn, nodes>>
<1>1. r \in Active
  BY DEF Claim, Active
<1>2. QED
  BY <1>1, GoneTo DEF Claim, tables

LEMMA ImportMoves ==
  ASSUME Types, NEW r \in Requests, Import(r)
  PROVE  /\ r \in Active /\ rq[r].at = "import" /\ UNCHANGED <<torn, nodes>>
         /\ \/ Goes(r, "importnodes") /\ conn[rq[r].srv] = None
               /\ conn' = [conn EXCEPT ![rq[r].srv] = rq[r].id.ca]
            \/ Leaves(r) /\ conn' = conn /\ conn[rq[r].srv] # None
<1>1. r \in Active
  BY DEF Import, Active
<1>2. QED
  BY <1>1, GoneTo, Answered DEF Import, tables

LEMMA LeaveMoves ==
  ASSUME Types, NEW r \in Requests
  PROVE  /\ Fail(r) => r \in Active /\ rq[r].at = "busy" /\ Leaves(r)
                       /\ UNCHANGED <<torn, conn, nodes>>
         /\ SyncMesh(r) => r \in Active /\ rq[r].at = "mesh" /\ Leaves(r)
                           /\ UNCHANGED <<torn, conn, nodes>>
         /\ FetchFails(r) => r \in Active /\ rq[r].at = "fetch" /\ Leaves(r)
                             /\ UNCHANGED <<torn, conn, nodes>>
         /\ DropNodes(r) =>
               /\ r \in Active /\ rq[r].at = "dropnodes" /\ Leaves(r)
               /\ nodes' = [nodes EXCEPT ![rq[r].srv] = None] /\ UNCHANGED <<torn, conn>>
         /\ ImportNodes(r) =>
               /\ r \in Active /\ rq[r].at = "importnodes" /\ Leaves(r)
               /\ nodes' = [nodes EXCEPT ![rq[r].srv] = IF @ = None THEN rq[r].id.node ELSE @]
               /\ UNCHANGED <<torn, conn>>
BY Answered DEF DropNodes, Fail, SyncMesh, FetchFails, ImportNodes, Active, tables

LEMMA ReadNodesMoves ==
  ASSUME Types, NEW r \in Requests, ReadNodes(r)
  PROVE  /\ r \in Active /\ rq[r].at = "run" /\ Keeps(r) /\ UNCHANGED <<conn, nodes>>
         /\ rq'[r].at = "render" /\ rq'[r].id = Identity(None, nodes[rq[r].srv])
         /\ rq'[r].good = rq[r].good /\ Calm(r, Removing)
<1>1. r \in Active /\ rq[r].at = "run"
  BY DEF ReadNodes, Active
<1>2. rq[r] \in AllRequests
  BY <1>1, RequestFields
<1>3. /\ rq'[r] = [rq[r] EXCEPT !.at = "render", !.id = Identity(None, nodes[rq[r].srv])]
      /\ \A x \in Requests : x # r => rq'[x] = rq[x]
  BY Stays DEF ReadNodes, Step
<1>4. rq'[r] # Free
  BY <1>2, <1>3, FreeFacts DEF AllRequests
<1>5. /\ Keeps(r) /\ rq'[r].at = "render" /\ rq'[r].good = rq[r].good
      /\ rq'[r].id = Identity(None, nodes[rq[r].srv])
  BY <1>1, <1>2, <1>3, <1>4 DEF AllRequests, Active, Keeps, Others
<1>6. torn' = (torn \/ At(rq[r].srv, Removing) # {})
  BY DEF ReadNodes
<1>7. Calm(r, Removing)
  BY <1>5, <1>6 DEF Calm, Keeps, At, On
<1>8. QED
  BY <1>1, <1>5, <1>7 DEF ReadNodes, tables

LEMMA SyncMoves ==
  ASSUME Types, NEW r \in Requests, Sync(r)
  PROVE  /\ r \in Active /\ rq[r].at = "sync" /\ UNCHANGED <<conn, nodes>>
         /\ \/ Leaves(r) /\ conn[rq[r].srv] = None /\ torn' = torn
            \/ /\ Keeps(r) /\ rq'[r].at = "mesh" /\ conn[rq[r].srv] # None
               /\ rq'[r].id = Identity(conn[rq[r].srv], None)
               /\ rq'[r].good = (uploads = {}) /\ healed' = healed
               /\ Calm(r, Removing)
<1>1. r \in Active /\ rq[r].at = "sync"
  BY DEF Sync, Active
<1>2. rq[r] \in AllRequests
  BY <1>1, RequestFields
<1>3. CASE conn[rq[r].srv] = None
  BY <1>1, <1>3, Answered DEF Sync, tables
<1>4. CASE conn[rq[r].srv] # None
  <2>1. /\ rq'[r] = [rq[r] EXCEPT !.at = "mesh", !.id = Identity(conn[rq[r].srv], None),
                                  !.good = (uploads = {})]
        /\ \A x \in Requests : x # r => rq'[x] = rq[x]
        /\ torn' = (torn \/ At(rq[r].srv, Removing) # {}) /\ healed' = healed
    BY <1>4, Stays DEF Sync, Step
  <2>2. rq'[r] # Free
    BY <1>2, <2>1, FreeFacts DEF AllRequests
  <2>3. /\ Keeps(r) /\ rq'[r].at = "mesh" /\ rq'[r].good = (uploads = {})
        /\ rq'[r].id = Identity(conn[rq[r].srv], None)
    BY <1>1, <1>2, <2>1, <2>2 DEF AllRequests, Active, Keeps, Others
  <2>4. Calm(r, Removing)
    BY <2>1, <2>3 DEF Calm, Keeps, At, On
  <2>5. QED
    BY <1>1, <1>4, <2>1, <2>3, <2>4 DEF Sync, tables
<1>5. QED
  BY <1>3, <1>4

LEMMA RenderMoves ==
  ASSUME Types, NEW r \in Requests, Render(r)
  PROVE  /\ r \in Active /\ rq[r].at = "render" /\ Keeps(r)
         /\ UNCHANGED <<torn, conn, nodes>>
         /\ rq'[r].at = "busy" /\ rq'[r].id = Rendered(rq[r].srv, rq[r].id.node)
         /\ rq'[r].good = rq[r].good
         /\ \A x \in Active : rq[x].at # "busy"
<1>1. r \in Active /\ rq[r].at = "render"
  BY DEF Render, Active
<1>2. rq[r] \in AllRequests
  BY <1>1, RequestFields
<1>3. /\ rq'[r] = [rq[r] EXCEPT !.at = "busy", !.id = Rendered(rq[r].srv, rq[r].id.node)]
      /\ \A x \in Requests : x # r => rq'[x] = rq[x]
  BY Stays DEF Render, Step
<1>4. rq'[r] # Free
  BY <1>2, <1>3, FreeFacts DEF AllRequests
<1>5. QED
  BY <1>1, <1>2, <1>3, <1>4 DEF Render, AllRequests, Active, Keeps, Others, tables

LEMMA FetchMoves ==
  ASSUME Types, NEW r \in Requests, Fetch(r)
  PROVE  /\ r \in Active /\ rq[r].at = "fetch" /\ UNCHANGED <<conn, nodes>>
         /\ \/ Leaves(r) /\ torn' = torn
            \/ /\ Keeps(r) /\ rq'[r].at = "import" /\ rq'[r].id = bucket.mesh
               /\ bucket.mesh # NoAgent
               /\ rq'[r].good = (rq[r].good /\ healed /\ uploads = {})
               /\ Calm(r, Removing)
<1>1. r \in Active /\ rq[r].at = "fetch"
  BY DEF Fetch, Active
<1>2. rq[r] \in AllRequests
  BY <1>1, RequestFields
<1>3. CASE bucket.mesh = NoAgent
  BY <1>1, <1>3, Answered DEF Fetch, tables
<1>4. CASE bucket.mesh # NoAgent
  <2>1. /\ rq'[r] = [rq[r] EXCEPT !.at = "import", !.id = bucket.mesh,
                       !.good = @ /\ healed /\ uploads = {}]
        /\ \A x \in Requests : x # r => rq'[x] = rq[x]
        /\ torn' = (torn \/ At(rq[r].srv, Removing) # {})
    BY <1>4, Stays DEF Fetch, Step
  <2>2. rq'[r] # Free
    BY <1>2, <2>1, FreeFacts DEF AllRequests
  <2>3. /\ Keeps(r) /\ rq'[r].at = "import" /\ rq'[r].id = bucket.mesh
        /\ rq'[r].good = (rq[r].good /\ healed /\ uploads = {})
    BY <1>1, <1>2, <2>1, <2>2 DEF AllRequests, Active, Keeps, Others
  <2>4. Calm(r, Removing)
    BY <2>1, <2>3 DEF Calm, Keeps, At, On
  <2>5. QED
    BY <1>1, <1>4, <2>3, <2>4 DEF Fetch, tables
<1>5. QED
  BY <1>3, <1>4

LEMMA CrashMoves ==
  ASSUME Types, NEW sv \in Servers, Crash(sv)
  PROVE  /\ Active' = Active \ On(sv)
         /\ \A x \in Active' : rq'[x] = rq[x]
         /\ \A u \in uploads' : u \in uploads
         /\ ~healed' /\ UNCHANGED <<conn, nodes>>
         /\ ~torn' => ~torn /\ \A x \in On(sv) : rq[x].at \notin Removing
<1>1. torn' = (torn \/ At(sv, Removing) # {})
  BY DEF Crash
<1>2. ~torn' => ~torn /\ \A x \in On(sv) : rq[x].at \notin Removing
  BY <1>1 DEF At
<1>3. QED
  BY <1>2 DEF Crash, Active, tables

\* Those disturbed differ in one field.
LEMMA DisturbedFacts ==
  ASSUME Types, NEW r \in Active
  PROVE  /\ Disturbed(r) # Free /\ ~Disturbed(r).alone
         /\ Disturbed(r).at = rq[r].at /\ Disturbed(r).srv = rq[r].srv
         /\ Disturbed(r).kind = rq[r].kind /\ Disturbed(r).num = rq[r].num
         /\ Disturbed(r).cfg = rq[r].cfg /\ Disturbed(r).id = rq[r].id
         /\ Disturbed(r).good = rq[r].good
<1>1. rq[r] \in AllRequests
  BY RequestFields
<1>2. Disturbed(r) = [rq[r] EXCEPT !.alone = FALSE]
  BY DEF Disturbed
<1>3. Disturbed(r) \in AllRequests
  BY <1>1, <1>2 DEF AllRequests
<1>4. QED
  BY <1>1, <1>2, <1>3, FreeFacts DEF AllRequests

LEMMA DeleteRemoteMoves ==
  ASSUME Types, DeleteRemote
  PROVE  /\ Active' = Active /\ \A x \in Active : rq'[x] = Disturbed(x)
         /\ ~healed' /\ UNCHANGED <<torn, conn, nodes>>
<1>1. \A x \in Requests : rq'[x] = Disturbed(x)
  BY DEF DeleteRemote
<1>2. \A x \in Requests : Disturbed(x) # Free <=> x \in Active
  BY DisturbedFacts DEF Disturbed
<1>3. Active' = Active
  BY <1>1, <1>2 DEF Active
<1>4. QED
  BY <1>1, <1>3 DEF DeleteRemote, Active, tables

LEMMA LoseMoves ==
  ASSUME Types, NEW u \in uploads, Lose(u)
  PROVE  /\ Active' = Active /\ \A x \in Active : rq'[x] = Disturbed(x)
         /\ ~healed' /\ UNCHANGED <<torn, conn, nodes>>
<1>1. \A x \in Requests : rq'[x] = Disturbed(x)
  BY DEF Lose
<1>2. \A x \in Requests : Disturbed(x) # Free <=> x \in Active
  BY DisturbedFacts DEF Disturbed
<1>3. Active' = Active
  BY <1>1, <1>2 DEF Active
<1>4. QED
  BY <1>1, <1>3 DEF Lose, Active, tables

\* A request has begun, and the others are disturbed.
LEMMA Begun ==
  ASSUME Types, NEW r \in Requests, NEW q \in AllRequests, Begin(r, q)
  PROVE  /\ r \notin Active /\ Active' = Active \cup {r}
         /\ \A x \in Active : rq'[x] = Disturbed(x)
         /\ rq'[r] # Free
         /\ rq'[r].at = q.at /\ rq'[r].srv = q.srv /\ rq'[r].kind = q.kind
         /\ rq'[r].num = q.num /\ rq'[r].cfg = q.cfg /\ rq'[r].id = q.id
         /\ rq'[r].good = q.good /\ rq'[r].alone = (Active = {})
         /\ begun' = begun + 1 /\ begun + 1 # None
         /\ healed' = (healed /\ q.kind = "claim")
<1>1. rq[r] = Free /\ rq'[r] = [q EXCEPT !.alone = (Active = {})]
      /\ \A x \in Requests : x # r => rq'[x] = Disturbed(x)
  BY DEF Begin
<1>2. [q EXCEPT !.alone = (Active = {})] \in AllRequests
  BY DEF AllRequests
<1>3. \A x \in Requests : x \notin Active => Disturbed(x) = Free
  BY DEF Disturbed
<1>4. Active' = Active \cup {r}
  BY <1>1, <1>2, <1>3, FreeFacts, DisturbedFacts DEF Active
<1>5. r \notin Active
  BY <1>1 DEF Active
<1>6. \A x \in Active : rq'[x] = Disturbed(x)
  BY <1>1, <1>5 DEF Active
<1>7. begun + 1 # None
  BY NumberFacts DEF Begin, Types
<1>8. QED
  BY <1>1, <1>2, <1>4, <1>5, <1>6, <1>7, FreeFacts DEF AllRequests, Begin

LEMMA PutBegins ==
  ASSUME Types, NEW r \in Requests, NEW sv \in Servers, NEW k \in Kinds, Put(r, sv, k)
  PROVE  \E q \in AllRequests :
           /\ Begin(r, q) /\ q.num = begun + 1 /\ q.id = NoAgent
           /\ q.at = "check" /\ q.srv = sv /\ q.kind \in {"put", "put_off"} /\ ~q.good
<1>1. Request("check", sv, k, begun + 1) \in AllRequests
  BY ZenonT(30), RequestTyped, NumberFacts DEF Put, Begin, AllKinds
<1>2. QED
  BY SMTT(60), <1>1 DEF Put, Request

LEMMA OperateBegins ==
  ASSUME Types, NEW r \in Requests, NEW sv \in Servers, NEW k \in Kinds, Operate(r, sv, k)
  PROVE  \E q \in AllRequests :
           /\ Begin(r, q) /\ q.num = begun + 1 /\ q.id = NoAgent
           /\ q.at = "check" /\ q.srv = sv /\ q.kind \in OpKinds /\ ~q.good
<1>1. [Request("check", sv, k, begun + 1) EXCEPT !.cfg = cfg[sv]] \in AllRequests
  BY ZenonT(30), RequestTyped DEF Operate, Begin, Types, AllKinds, OpKinds
<1>2. QED
  BY <1>1 DEF Operate, Request

LEMMA DeleteBegins ==
  ASSUME Types, NEW r \in Requests, NEW sv \in Servers, DeleteStack(r, sv)
  PROVE  \E q \in AllRequests :
           /\ Begin(r, q) /\ q.num = begun + 1 /\ q.id = NoAgent
           /\ q.at = "drop" /\ q.srv = sv /\ q.kind = "delete" /\ ~q.good
           /\ Calm(r, Removing \cup Creating \cup Reading)
<1>1. Request("drop", sv, "delete", begun + 1) \in AllRequests
  BY RequestTyped, NumberFacts DEF DeleteStack, Begin, AllKinds
<1>2. Begin(r, Request("drop", sv, "delete", begun + 1))
  BY DEF DeleteStack
<1>3. rq'[r].srv = sv
  BY <1>1, <1>2, Begun DEF Request
<1>4. torn' = (torn \/ At(sv, Removing \cup Creating \cup Reading) # {})
  BY DEF DeleteStack
<1>5. Calm(r, Removing \cup Creating \cup Reading)
  BY <1>3, <1>4 DEF Calm, At, On
<1>6. QED
  BY <1>1, <1>2, <1>5 DEF Request

LEMMA UnlockBegins ==
  ASSUME Types, NEW r \in Requests, NEW sv \in Servers, Unlock(r, sv)
  PROVE  \E q \in AllRequests :
           /\ Begin(r, q) /\ q.num = begun + 1 /\ q.id = NoAgent
           /\ q.at = "claim" /\ q.srv = sv /\ q.kind = "claim" /\ q.good = (conn[sv] = None)
<1>1. "claim" \in AllKinds /\ bucket.yaml \in Numbers /\ (conn[sv] = None) \in BOOLEAN
  BY DEF Types, AllKinds
<1>2. [Request("claim", sv, "claim", begun + 1) EXCEPT
          !.cfg = bucket.yaml, !.good = (conn[sv] = None)] \in AllRequests
  BY <1>1, RequestTyped DEF Unlock, Begin
<1>3. QED
  BY <1>2 DEF Unlock, Request


\* Whoever has stored or read a CA and not yet its certificates finds the CA there.
LEMMA Held ==
  ASSUME Types, PlaceInv, MixInv, ~torn
  PROVE  \A x \in Active :
            rq[x].at \in {"nodes", "importnodes", "mesh"} => conn[rq[x].srv] # None
<1> SUFFICES ASSUME NEW x \in Active, rq[x].at \in {"nodes", "importnodes", "mesh"}
             PROVE  conn[rq[x].srv] # None
  OBVIOUS
<1>1. CASE rq[x].at = "nodes"
  BY <1>1 DEF PlaceInv, MixInv, BetweenTables
<1>2. CASE rq[x].at = "importnodes"
  <2>1. Owns(rq[x].id) /\ rq[x].id # NoAgent /\ rq[x].id \in Identities
    BY <1>2, RequestFields DEF PlaceInv, MixInv, OwnCopies
  <2>2. QED
    BY <1>2, <2>1, OwnFacts DEF MixInv, BetweenTables
<1>3. CASE rq[x].at = "mesh"
  BY <1>3 DEF MixInv, BetweenTables
<1>4. QED
  BY <1>1, <1>2, <1>3

\* What an operation renders and what it uploads is of one CA.
LEMMA OwnCAs ==
  ASSUME Types, MixInv, ~torn, NEW r \in Active
  PROVE  /\ rq[r].at = "render" => Owns(Rendered(rq[r].srv, rq[r].id.node))
         /\ rq[r].at = "mesh" => Owns(Identity(rq[r].id.ca, nodes[rq[r].srv]))
<1>1. conn[rq[r].srv] \in Numbers /\ nodes[rq[r].srv] \in Numbers /\ rq[r].srv \in Servers
  BY TableFields, RequestFields
<1>2. ASSUME rq[r].at = "render" PROVE Owns(Rendered(rq[r].srv, rq[r].id.node))
  <2>1. OneCA(conn[rq[r].srv], rq[r].id.node) /\ rq[r].id.node \in Numbers
    BY <1>2, RequestFields DEF MixInv, BetweenTables
  <2>2. QED
    BY <1>1, <2>1, OwnFacts DEF Rendered
<1>3. ASSUME rq[r].at = "mesh" PROVE Owns(Identity(rq[r].id.ca, nodes[rq[r].srv]))
  <2>1. conn[rq[r].srv] = rq[r].id.ca
    BY <1>3 DEF MixInv, BetweenTables
  <2>2. ~ \E x \in Active : rq[x].srv = rq[r].srv /\ rq[x].at = "dropnodes"
    BY <1>3 DEF MixInv, RemovingAlone, Removing, Reading
  <2>3. OneCA(conn[rq[r].srv], nodes[rq[r].srv])
    BY <1>1, <2>2 DEF MixInv, KeptTogether
  <2>4. QED
    BY <1>1, <2>1, <2>3, OwnFacts
<1>4. QED
  BY <1>2, <1>3

LEMMA FindsStill ==
  ASSUME NEW x \in Active, FindsOwn(x), rq'[x] = rq[x],
         UNCHANGED <<conn, nodes, access, deployed>>, bucket'.state = bucket.state,
         healed' => healed, Sent(x) => Sent(x)'
  PROVE  FindsOwn(x)'
BY DEF FindsOwn, Rendered

\* What one request does concerns no other that is alone.
LEMMA AloneOthers ==
  ASSUME AloneInv, NEW r \in Active
  PROVE  \A x \in Active : rq[x].alone => x = r
BY DEF AloneInv
LEMMA TypesStep == Types /\ [Next]_vars => Types'
<1> SUFFICES ASSUME Types, [Next]_vars PROVE Types'
  OBVIOUS
<1> USE DEF Types, tables, Active
<1>1. ASSUME NEW r \in Requests, NEW sv \in Servers, NEW k \in Kinds, Put(r, sv, k)
      PROVE  Types'
  <2>1. Request("check", sv, k, begun + 1) \in AllRequests
    BY <1>1, RequestTyped DEF Put, Begin, AllKinds, OpKinds
  <2>2. rq' \in [Requests -> AllRequests \cup {Free}] /\ begun' \in Numbers /\ healed' \in BOOLEAN
    BY <1>1, <2>1, BeginTyped DEF Put
  <2>3. begun + 1 \in Numbers
    BY <1>1, NumberFacts DEF Put, Begin
  <2>4. uploads' \subseteq Uploads
    BY <1>1, <2>3, UploadFields DEF Put
  <2>5. QED
    BY SMTT(60), <1>1, <2>2, <2>3, <2>4 DEF Put
<1>2. ASSUME NEW r \in Requests, NEW sv \in Servers, NEW k \in Kinds, Operate(r, sv, k)
      PROVE  Types'
  <2>1. [Request("check", sv, k, begun + 1) EXCEPT !.cfg = cfg[sv]] \in AllRequests
    BY ZenonT(30), <1>2, RequestTyped DEF Operate, Begin, Types, AllKinds, OpKinds
  <2>2. rq' \in [Requests -> AllRequests \cup {Free}] /\ begun' \in Numbers /\ healed' \in BOOLEAN
    BY <1>2, <2>1, BeginTyped DEF Operate
  <2>3. QED
    BY ZenonT(30), <1>2, <2>2, NumberFacts DEF Operate, Begin, Types, Uploads, Yaml
<1>3. ASSUME NEW r \in Requests, NEW sv \in Servers, DeleteStack(r, sv)
      PROVE  Types'
  <2>1. Request("drop", sv, "delete", begun + 1) \in AllRequests
    BY <1>3, RequestTyped DEF DeleteStack, Begin, AllKinds, OpKinds
  <2>2. rq' \in [Requests -> AllRequests \cup {Free}] /\ begun' \in Numbers /\ healed' \in BOOLEAN
    BY <1>3, <2>1, BeginTyped DEF DeleteStack
  <2>3. QED
    BY SMTT(60), <1>3, <2>2, NumberFacts DEF DeleteStack, Begin, Types, Uploads, Yaml
<1>4. ASSUME NEW r \in Requests, NEW sv \in Servers, Unlock(r, sv)
      PROVE  Types'
  <2>1. [Request("claim", sv, "claim", begun + 1) EXCEPT !.cfg = bucket.yaml, !.good = (conn[sv] = None)] \in AllRequests
    <3>1. begun < MaxRequests /\ bucket.yaml \in Numbers
      BY <1>4 DEF Unlock, Begin, Types
    <3>2. "claim" \in AllKinds
      BY DEF AllKinds, OpKinds
    <3>3. (conn[sv] = None) \in BOOLEAN
      OBVIOUS
    <3>4. QED
      BY <1>4, <3>1, <3>2, <3>3, RequestTyped, ZenonT(30)
  <2>2. rq' \in [Requests -> AllRequests \cup {Free}] /\ begun' \in Numbers /\ healed' \in BOOLEAN
    BY <1>4, <2>1, BeginTyped DEF Unlock
  <2>3. QED
    BY <1>4, <2>2, NumberFacts DEF Unlock, Begin, Types, Uploads, Yaml
<1>5. ASSUME NEW r \in Requests, Check(r)
      PROVE  Types'
  BY <1>5, NumberFacts, RequestFields, GotoTyped, AnswerTyped DEF Check, GotoPKI
<1>6. ASSUME NEW r \in Requests, Create(r)
      PROVE  Types'
  BY <1>6, NumberFacts, RequestFields, GotoTyped, AnswerTyped DEF Create, GiveUp
<1>7. ASSUME NEW r \in Requests, CreateNodes(r)
      PROVE  Types'
  BY <1>7, NumberFacts, RequestFields, GotoTyped, AnswerTyped DEF CreateNodes, GiveUp
<1>8. ASSUME NEW r \in Requests, Drop(r)
      PROVE  Types'
  BY <1>8, NumberFacts, RequestFields, GotoTyped, AnswerTyped DEF Drop
<1>9. ASSUME NEW r \in Requests, DropNodes(r)
      PROVE  Types'
  BY <1>9, NumberFacts, RequestFields, GotoTyped, AnswerTyped DEF DropNodes
<1>10. ASSUME NEW r \in Requests, Render(r)
      PROVE  Types'
  <2>1. rq[r] \in AllRequests /\ Rendered(rq[r].srv, rq[r].id.node) \in Identities
    BY <1>10, RequestFields, NumberFacts DEF Render, Rendered
  <2>2. [rq[r] EXCEPT !.at = "busy", !.id = Rendered(rq[r].srv, rq[r].id.node)] \in AllRequests
    BY <2>1 DEF AllRequests
  <2>3. rq' \in [Requests -> AllRequests \cup {Free}]
    BY <1>10, <2>2, RqTyped DEF Render, Step
  <2>4. QED
    BY <1>10, <2>3 DEF Render
<1>11. ASSUME NEW r \in Requests, Succeed(r)
      PROVE  Types'
  <2>1. rq' \in [Requests -> AllRequests \cup {Free}]
    BY <1>11, GotoTyped DEF Succeed
  <2>2. deployed' \in [id : Identities, cfg : Numbers]
    BY <1>11, RequestFields, NumberFacts DEF Succeed
  <2>3. QED
    BY <1>11, <2>1, <2>2 DEF Succeed
<1>12. ASSUME NEW r \in Requests, Fail(r)
      PROVE  Types'
  BY <1>12, NumberFacts, RequestFields, GotoTyped, AnswerTyped DEF Fail
<1>13. ASSUME NEW r \in Requests, Sync(r)
      PROVE  Types'
  <2>1. uploads' \subseteq Uploads
    BY <1>13, RequestFields, UploadFields, NumberFacts DEF Sync, Configuration
  <2>2. healed' \in BOOLEAN
    BY <1>13, RequestFields DEF Sync
  <2>3. rq' \in [Requests -> AllRequests \cup {Free}]
    <3>1. rq[r] \in AllRequests /\ Identity(conn[rq[r].srv], None) \in Identities
      BY <1>13, RequestFields, NumberFacts DEF Sync
    <3>2. [rq[r] EXCEPT !.at = "mesh", !.id = Identity(conn[rq[r].srv], None),
             !.good = (uploads = {})] \in AllRequests
      BY <3>1 DEF AllRequests
    <3>3. QED
      BY <1>13, <3>2, RqTyped, AnswerTyped DEF Sync, Step
  <2>4. QED
    BY <1>13, <2>1, <2>2, <2>3 DEF Sync
<1>14. ASSUME NEW r \in Requests, Claim(r)
      PROVE  Types'
  BY <1>14, NumberFacts, RequestFields, GotoTyped, AnswerTyped DEF Claim, ClaimRow
<1>15. ASSUME NEW r \in Requests, Fetch(r)
      PROVE  Types'
  <2>1. rq[r] \in AllRequests
    BY <1>15, RequestFields DEF Fetch
  <2>2. rq' \in [Requests -> AllRequests \cup {Free}]
    <3>1. [rq[r] EXCEPT !.at = "import", !.id = bucket.mesh,
              !.good = @ /\ healed /\ uploads = {}] \in AllRequests
      BY <2>1 DEF AllRequests
    <3>2. QED
      BY <1>15, <3>1, RqTyped, AnswerTyped DEF Fetch, Step
  <2>3. QED
    BY <1>15, <2>2 DEF Fetch
<1>16. ASSUME NEW r \in Requests, FetchFails(r)
      PROVE  Types'
  <2>1. faults' \in 0..MaxFaults
    BY <1>16, ConstantsAssumption DEF FetchFails
  <2>2. QED
    BY <1>16, <2>1, AnswerTyped DEF FetchFails
<1>17. ASSUME NEW r \in Requests, Import(r)
      PROVE  Types'
  BY <1>17, NumberFacts, RequestFields, GotoTyped, AnswerTyped DEF Import
<1>18. ASSUME NEW r \in Requests, ImportNodes(r)
      PROVE  Types'
  BY <1>18, NumberFacts, RequestFields, GotoTyped, AnswerTyped DEF ImportNodes
<1>19. ASSUME NEW u \in uploads, Deliver(u)
      PROVE  Types'
  <2>1. bucket' \in [state : BOOLEAN, yaml : Numbers, mesh : Identities]
    BY <1>19, UploadFields DEF Deliver, DeliverConfig, DeliverMesh
  <2>2. QED
    BY <1>19, <2>1 DEF Deliver
<1>20. ASSUME NEW u \in uploads, Lose(u)
      PROVE  Types'
  <2>1. faults' \in 0..MaxFaults
    BY <1>20, ConstantsAssumption DEF Lose
  <2>2. rq' \in [Requests -> AllRequests \cup {Free}]
    BY <1>20, DisturbedTyped DEF Lose
  <2>3. QED
    BY <1>20, <2>1, <2>2 DEF Lose
<1>21. ASSUME NEW sv \in Servers, Crash(sv)
      PROVE  Types'
  <2>1. rq' \in [Requests -> AllRequests \cup {Free}]
    BY <1>21 DEF Crash
  <2>2. faults' \in 0..MaxFaults
    BY <1>21, ConstantsAssumption DEF Crash
  <2>3. QED
    BY <1>21, <2>1, <2>2 DEF Crash
<1>22. ASSUME DeleteRemote
      PROVE  Types'
  <2>1. rq' \in [Requests -> AllRequests \cup {Free}]
    BY <1>22, DisturbedTyped DEF DeleteRemote
  <2>2. begun' \in Numbers
    BY <1>22, NumberFacts DEF DeleteRemote
  <2>3. QED
    BY <1>22, <2>1, <2>2 DEF DeleteRemote
<1>23. CASE UNCHANGED vars
  BY <1>23 DEF vars, tables
<1>24. ASSUME NEW r \in Requests, ReadNodes(r)
      PROVE  Types'
  <2>1. rq[r] \in AllRequests /\ Identity(None, nodes[rq[r].srv]) \in Identities
    BY <1>24, RequestFields, NumberFacts DEF ReadNodes
  <2>2. [rq[r] EXCEPT !.at = "render", !.id = Identity(None, nodes[rq[r].srv])] \in AllRequests
    BY <2>1 DEF AllRequests
  <2>3. rq' \in [Requests -> AllRequests \cup {Free}]
    BY <1>24, <2>2, RqTyped DEF ReadNodes, Step
  <2>4. QED
    BY <1>24, <2>3 DEF ReadNodes
<1>25. ASSUME NEW r \in Requests, SyncMesh(r)
      PROVE  Types'
  <2>1. uploads' \subseteq Uploads
    BY <1>25, RequestFields, UploadFields, NumberFacts DEF SyncMesh
  <2>2. healed' \in BOOLEAN
    BY <1>25, RequestFields DEF SyncMesh, Healing
  <2>3. QED
    BY <1>25, <2>1, <2>2, AnswerTyped DEF SyncMesh
<1>26. QED
  BY <1>1, <1>2, <1>3, <1>4, <1>5, <1>6, <1>7, <1>8, <1>9, <1>10, <1>11,
     <1>12, <1>13, <1>14, <1>15, <1>16, <1>17, <1>18, <1>19, <1>20, <1>21,
     <1>22, <1>23, <1>24, <1>25 DEF Next, RequestStep

\* Only Operate and Render add to the operations, and both look first.
LEMMA ExclusiveStep == TypeOK /\ [Next]_vars => Exclusive'
<1> SUFFICES ASSUME TypeOK, [Next]_vars PROVE Exclusive'
  OBVIOUS
<1> USE DEF TypeOK, Exclusive
<1>1. ASSUME NEW r \in Requests, NEW sv \in Servers, NEW k \in Kinds, Put(r, sv, k)
      PROVE  Exclusive'
  <2>1. PICK q \in AllRequests :
           /\ Begin(r, q) /\ q.num = begun + 1 /\ q.id = NoAgent
           /\ q.at = "check" /\ q.srv = sv /\ q.kind \in {"put", "put_off"} /\ ~q.good
    BY <1>1, PutBegins
  <2>2. QED
    BY <1>1, <2>1, Begun, DisturbedFacts, RequestFields, NumberFacts DEF Put, RunningOps, On, OpKinds
<1>2. ASSUME NEW r \in Requests, NEW sv \in Servers, NEW k \in Kinds, Operate(r, sv, k)
      PROVE  Exclusive'
  <2>1. PICK q \in AllRequests :
           /\ Begin(r, q) /\ q.num = begun + 1 /\ q.id = NoAgent
           /\ q.at = "check" /\ q.srv = sv /\ q.kind \in OpKinds /\ ~q.good
    BY <1>2, OperateBegins
  <2>2. QED
    BY <1>2, <2>1, Begun, DisturbedFacts, RequestFields, NumberFacts DEF Operate, RunningOps, On, OpKinds
<1>3. ASSUME NEW r \in Requests, NEW sv \in Servers, DeleteStack(r, sv)
      PROVE  Exclusive'
  <2>1. PICK q \in AllRequests :
           /\ Begin(r, q) /\ q.num = begun + 1 /\ q.id = NoAgent
           /\ q.at = "drop" /\ q.srv = sv /\ q.kind = "delete" /\ ~q.good
           /\ Calm(r, Removing \cup Creating \cup Reading)
    BY <1>3, DeleteBegins
  <2>2. QED
    BY <1>3, <2>1, Begun, DisturbedFacts, RequestFields, NumberFacts DEF DeleteStack, RunningOps, On, OpKinds
<1>4. ASSUME NEW r \in Requests, NEW sv \in Servers, Unlock(r, sv)
      PROVE  Exclusive'
  <2>1. PICK q \in AllRequests :
           /\ Begin(r, q) /\ q.num = begun + 1 /\ q.id = NoAgent
           /\ q.at = "claim" /\ q.srv = sv /\ q.kind = "claim" /\ q.good = (conn[sv] = None)
    BY <1>4, UnlockBegins
  <2>2. QED
    BY <1>4, <2>1, Begun, DisturbedFacts, RequestFields, NumberFacts DEF Unlock, RunningOps, On, OpKinds
<1>5. ASSUME NEW r \in Requests, Check(r)
      PROVE  Exclusive'
  BY <1>5, CheckMoves, RequestFields DEF Goes, Keeps, Leaves, Others
<1>6. ASSUME NEW r \in Requests, Create(r)
      PROVE  Exclusive'
  BY <1>6, CreateMoves, RequestFields DEF Goes, Keeps, Leaves, Others
<1>7. ASSUME NEW r \in Requests, CreateNodes(r)
      PROVE  Exclusive'
  BY <1>7, CreateNodesMoves, RequestFields DEF Goes, Keeps, Leaves, Others
<1>8. ASSUME NEW r \in Requests, Drop(r)
      PROVE  Exclusive'
  BY <1>8, DropMoves, RequestFields DEF Goes, Keeps, Leaves, Others
<1>9. ASSUME NEW r \in Requests, DropNodes(r)
      PROVE  Exclusive'
  BY <1>9, LeaveMoves, RequestFields DEF Leaves, Others
<1>10. ASSUME NEW r \in Requests, Render(r)
      PROVE  Exclusive'
  BY <1>10, RenderMoves, RequestFields DEF Goes, Keeps, Leaves, Others
<1>11. ASSUME NEW r \in Requests, Succeed(r)
      PROVE  Exclusive'
  BY <1>11, SucceedMoves, RequestFields DEF Goes, Keeps, Leaves, Others
<1>12. ASSUME NEW r \in Requests, Fail(r)
      PROVE  Exclusive'
  BY <1>12, LeaveMoves, RequestFields DEF Leaves, Others
<1>13. ASSUME NEW r \in Requests, Sync(r)
      PROVE  Exclusive'
  BY <1>13, SyncMoves, RequestFields DEF Keeps, Leaves, Others
<1>14. ASSUME NEW r \in Requests, Claim(r)
      PROVE  Exclusive'
  BY <1>14, ClaimMoves, RequestFields DEF Goes, Keeps, Leaves, Others
<1>15. ASSUME NEW r \in Requests, Fetch(r)
      PROVE  Exclusive'
  BY <1>15, FetchMoves, RequestFields DEF Goes, Keeps, Leaves, Others
<1>16. ASSUME NEW r \in Requests, FetchFails(r)
      PROVE  Exclusive'
  BY <1>16, LeaveMoves, RequestFields DEF Leaves, Others
<1>17. ASSUME NEW r \in Requests, Import(r)
      PROVE  Exclusive'
  BY <1>17, ImportMoves, RequestFields DEF Goes, Keeps, Leaves, Others
<1>18. ASSUME NEW r \in Requests, ImportNodes(r)
      PROVE  Exclusive'
  BY <1>18, LeaveMoves, RequestFields DEF Leaves, Others
<1>19. ASSUME NEW u \in uploads, Deliver(u)
      PROVE  Exclusive'
  <2>1. rq' = rq /\ Active' = Active /\ UNCHANGED <<torn, conn, nodes>>
    BY <1>19 DEF Deliver, Active, tables
  <2>2. QED
    BY <1>19, <2>1, RequestFields
<1>20. ASSUME NEW u \in uploads, Lose(u)
      PROVE  Exclusive'
  BY <1>20, LoseMoves, RequestFields, DisturbedFacts
<1>21. ASSUME NEW sv \in Servers, Crash(sv)
      PROVE  Exclusive'
  BY <1>21, CrashMoves, RequestFields DEF On
<1>22. ASSUME DeleteRemote
      PROVE  Exclusive'
  BY <1>22, DeleteRemoteMoves, RequestFields, DisturbedFacts
<1>23. CASE UNCHANGED vars
  <2>1. Active' = Active
    BY <1>23 DEF vars, Active
  <2>2. QED
    BY <1>23, <2>1 DEF vars, tables
<1>24. ASSUME NEW r \in Requests, ReadNodes(r)
      PROVE  Exclusive'
  BY <1>24, ReadNodesMoves, RequestFields DEF Keeps, Others
<1>25. ASSUME NEW r \in Requests, SyncMesh(r)
      PROVE  Exclusive'
  BY <1>25, LeaveMoves, RequestFields DEF Leaves, Others
<1>26. QED
  BY <1>1, <1>2, <1>3, <1>4, <1>5, <1>6, <1>7, <1>8, <1>9, <1>10, <1>11,
     <1>12, <1>13, <1>14, <1>15, <1>16, <1>17, <1>18, <1>19, <1>20, <1>21,
     <1>22, <1>23, <1>24, <1>25 DEF Next, RequestStep

LEMMA PlaceStep == Types /\ PlaceInv /\ [Next]_vars => PlaceInv'
<1> SUFFICES ASSUME Types, PlaceInv, [Next]_vars PROVE PlaceInv'
  OBVIOUS
<1> USE DEF PlaceInv, OpKinds
<1>1. ASSUME NEW r \in Requests, NEW sv \in Servers, NEW k \in Kinds, Put(r, sv, k)
      PROVE  PlaceInv'
  <2>1. PICK q \in AllRequests :
           /\ Begin(r, q) /\ q.num = begun + 1 /\ q.id = NoAgent
           /\ q.at = "check" /\ q.srv = sv /\ q.kind \in {"put", "put_off"} /\ ~q.good
    BY <1>1, PutBegins
  <2>2. QED
    BY <1>1, <2>1, Begun, DisturbedFacts, RequestFields, NumberFacts DEF Put
<1>2. ASSUME NEW r \in Requests, NEW sv \in Servers, NEW k \in Kinds, Operate(r, sv, k)
      PROVE  PlaceInv'
  <2>1. PICK q \in AllRequests :
           /\ Begin(r, q) /\ q.num = begun + 1 /\ q.id = NoAgent
           /\ q.at = "check" /\ q.srv = sv /\ q.kind \in OpKinds /\ ~q.good
    BY <1>2, OperateBegins
  <2>2. QED
    BY <1>2, <2>1, Begun, DisturbedFacts, RequestFields, NumberFacts DEF Operate
<1>3. ASSUME NEW r \in Requests, NEW sv \in Servers, DeleteStack(r, sv)
      PROVE  PlaceInv'
  <2>1. PICK q \in AllRequests :
           /\ Begin(r, q) /\ q.num = begun + 1 /\ q.id = NoAgent
           /\ q.at = "drop" /\ q.srv = sv /\ q.kind = "delete" /\ ~q.good
           /\ Calm(r, Removing \cup Creating \cup Reading)
    BY <1>3, DeleteBegins
  <2>2. QED
    BY <1>3, <2>1, Begun, DisturbedFacts, RequestFields, NumberFacts DEF DeleteStack
<1>4. ASSUME NEW r \in Requests, NEW sv \in Servers, Unlock(r, sv)
      PROVE  PlaceInv'
  <2>1. PICK q \in AllRequests :
           /\ Begin(r, q) /\ q.num = begun + 1 /\ q.id = NoAgent
           /\ q.at = "claim" /\ q.srv = sv /\ q.kind = "claim" /\ q.good = (conn[sv] = None)
    BY <1>4, UnlockBegins
  <2>2. QED
    BY <1>4, <2>1, Begun, DisturbedFacts, RequestFields, NumberFacts DEF Unlock
<1>5. ASSUME NEW r \in Requests, Check(r)
      PROVE  PlaceInv'
  BY <1>5, CheckMoves, RequestFields DEF Goes, Keeps, Leaves, Others
<1>6. ASSUME NEW r \in Requests, Create(r)
      PROVE  PlaceInv'
  BY <1>6, CreateMoves, RequestFields DEF Goes, Keeps, Leaves, Others
<1>7. ASSUME NEW r \in Requests, CreateNodes(r)
      PROVE  PlaceInv'
  BY <1>7, CreateNodesMoves, RequestFields DEF Goes, Keeps, Leaves, Others
<1>8. ASSUME NEW r \in Requests, Drop(r)
      PROVE  PlaceInv'
  BY <1>8, DropMoves, RequestFields DEF Goes, Keeps, Leaves, Others
<1>9. ASSUME NEW r \in Requests, DropNodes(r)
      PROVE  PlaceInv'
  BY <1>9, LeaveMoves, RequestFields DEF Leaves, Others
<1>10. ASSUME NEW r \in Requests, Render(r)
      PROVE  PlaceInv'
  BY <1>10, RenderMoves, RequestFields DEF Goes, Keeps, Leaves, Others
<1>11. ASSUME NEW r \in Requests, Succeed(r)
      PROVE  PlaceInv'
  BY <1>11, SucceedMoves, RequestFields DEF Goes, Keeps, Leaves, Others
<1>12. ASSUME NEW r \in Requests, Fail(r)
      PROVE  PlaceInv'
  BY <1>12, LeaveMoves, RequestFields DEF Leaves, Others
<1>13. ASSUME NEW r \in Requests, Sync(r)
      PROVE  PlaceInv'
  BY <1>13, SyncMoves, RequestFields DEF Keeps, Leaves, Others
<1>14. ASSUME NEW r \in Requests, Claim(r)
      PROVE  PlaceInv'
  BY <1>14, ClaimMoves, RequestFields DEF Goes, Keeps, Leaves, Others
<1>15. ASSUME NEW r \in Requests, Fetch(r)
      PROVE  PlaceInv'
  BY <1>15, FetchMoves, RequestFields DEF Goes, Keeps, Leaves, Others
<1>16. ASSUME NEW r \in Requests, FetchFails(r)
      PROVE  PlaceInv'
  BY <1>16, LeaveMoves, RequestFields DEF Leaves, Others
<1>17. ASSUME NEW r \in Requests, Import(r)
      PROVE  PlaceInv'
  BY <1>17, ImportMoves, RequestFields DEF Goes, Keeps, Leaves, Others
<1>18. ASSUME NEW r \in Requests, ImportNodes(r)
      PROVE  PlaceInv'
  BY <1>18, LeaveMoves, RequestFields DEF Leaves, Others
<1>19. ASSUME NEW u \in uploads, Deliver(u)
      PROVE  PlaceInv'
  <2>1. rq' = rq /\ Active' = Active /\ UNCHANGED <<torn, conn, nodes>>
    BY <1>19 DEF Deliver, Active, tables
  <2>2. QED
    BY <1>19, <2>1, RequestFields
<1>20. ASSUME NEW u \in uploads, Lose(u)
      PROVE  PlaceInv'
  BY <1>20, LoseMoves, RequestFields, DisturbedFacts
<1>21. ASSUME NEW sv \in Servers, Crash(sv)
      PROVE  PlaceInv'
  BY <1>21, CrashMoves, RequestFields DEF On
<1>22. ASSUME DeleteRemote
      PROVE  PlaceInv'
  BY <1>22, DeleteRemoteMoves, RequestFields, DisturbedFacts
<1>23. CASE UNCHANGED vars
  <2>1. Active' = Active
    BY <1>23 DEF vars, Active
  <2>2. QED
    BY <1>23, <2>1 DEF vars, tables
<1>24. ASSUME NEW r \in Requests, ReadNodes(r)
      PROVE  PlaceInv'
  BY <1>24, ReadNodesMoves, RequestFields DEF Keeps, Others
<1>25. ASSUME NEW r \in Requests, SyncMesh(r)
      PROVE  PlaceInv'
  BY <1>25, LeaveMoves, RequestFields DEF Leaves, Others
<1>26. QED
  BY <1>1, <1>2, <1>3, <1>4, <1>5, <1>6, <1>7, <1>8, <1>9, <1>10, <1>11,
     <1>12, <1>13, <1>14, <1>15, <1>16, <1>17, <1>18, <1>19, <1>20, <1>21,
     <1>22, <1>23, <1>24, <1>25 DEF Next, RequestStep

\* The four parts of MixInv, each of which needs the others.
LEMMA RemovingStep == Types /\ PlaceInv /\ MixInv /\ ~torn' /\ [Next]_vars => RemovingAlone'
<1> SUFFICES ASSUME Types, PlaceInv, MixInv, ~torn', [Next]_vars PROVE RemovingAlone'
  OBVIOUS
<1> USE DEF PlaceInv, MixInv, RemovingAlone, Removing, Creating, Reading, OpKinds
<1>1. ASSUME NEW r \in Requests, NEW sv \in Servers, NEW k \in Kinds, Put(r, sv, k)
      PROVE  RemovingAlone'
  <2>1. PICK q \in AllRequests :
           /\ Begin(r, q) /\ q.num = begun + 1 /\ q.id = NoAgent
           /\ q.at = "check" /\ q.srv = sv /\ q.kind \in {"put", "put_off"} /\ ~q.good
    BY <1>1, PutBegins
  <2>2. QED
    BY <1>1, <2>1, Begun, DisturbedFacts, RequestFields, NumberFacts DEF Put, Calm, tables
<1>2. ASSUME NEW r \in Requests, NEW sv \in Servers, NEW k \in Kinds, Operate(r, sv, k)
      PROVE  RemovingAlone'
  <2>1. PICK q \in AllRequests :
           /\ Begin(r, q) /\ q.num = begun + 1 /\ q.id = NoAgent
           /\ q.at = "check" /\ q.srv = sv /\ q.kind \in OpKinds /\ ~q.good
    BY <1>2, OperateBegins
  <2>2. QED
    BY <1>2, <2>1, Begun, DisturbedFacts, RequestFields, NumberFacts DEF Operate, Calm, tables
<1>3. ASSUME NEW r \in Requests, NEW sv \in Servers, DeleteStack(r, sv)
      PROVE  RemovingAlone'
  <2>1. PICK q \in AllRequests :
           /\ Begin(r, q) /\ q.num = begun + 1 /\ q.id = NoAgent
           /\ q.at = "drop" /\ q.srv = sv /\ q.kind = "delete" /\ ~q.good
           /\ Calm(r, Removing \cup Creating \cup Reading)
    BY <1>3, DeleteBegins
  <2>2. QED
    BY <1>3, <2>1, Begun, DisturbedFacts, RequestFields, NumberFacts DEF DeleteStack, Calm, tables
<1>4. ASSUME NEW r \in Requests, NEW sv \in Servers, Unlock(r, sv)
      PROVE  RemovingAlone'
  <2>1. PICK q \in AllRequests :
           /\ Begin(r, q) /\ q.num = begun + 1 /\ q.id = NoAgent
           /\ q.at = "claim" /\ q.srv = sv /\ q.kind = "claim" /\ q.good = (conn[sv] = None)
    BY <1>4, UnlockBegins
  <2>2. QED
    BY <1>4, <2>1, Begun, DisturbedFacts, RequestFields, NumberFacts DEF Unlock, Calm, tables
<1>5. ASSUME NEW r \in Requests, Check(r)
      PROVE  RemovingAlone'
  BY <1>5, CheckMoves, RequestFields DEF Goes, Keeps, Leaves, Others, Calm
<1>6. ASSUME NEW r \in Requests, Create(r)
      PROVE  RemovingAlone'
  BY <1>6, CreateMoves, RequestFields DEF Goes, Keeps, Leaves, Others, Calm
<1>7. ASSUME NEW r \in Requests, CreateNodes(r)
      PROVE  RemovingAlone'
  BY <1>7, CreateNodesMoves, RequestFields DEF Goes, Keeps, Leaves, Others, Calm
<1>8. ASSUME NEW r \in Requests, Drop(r)
      PROVE  RemovingAlone'
  BY <1>8, DropMoves, RequestFields DEF Goes, Keeps, Leaves, Others, Calm
<1>9. ASSUME NEW r \in Requests, DropNodes(r)
      PROVE  RemovingAlone'
  BY <1>9, LeaveMoves, RequestFields DEF Leaves, Others, Calm
<1>10. ASSUME NEW r \in Requests, Render(r)
      PROVE  RemovingAlone'
  BY <1>10, RenderMoves, RequestFields DEF Goes, Keeps, Leaves, Others, Calm
<1>11. ASSUME NEW r \in Requests, Succeed(r)
      PROVE  RemovingAlone'
  BY <1>11, SucceedMoves, RequestFields DEF Goes, Keeps, Leaves, Others, Calm
<1>12. ASSUME NEW r \in Requests, Fail(r)
      PROVE  RemovingAlone'
  BY <1>12, LeaveMoves, RequestFields DEF Leaves, Others, Calm
<1>13. ASSUME NEW r \in Requests, Sync(r)
      PROVE  RemovingAlone'
  BY <1>13, SyncMoves, RequestFields DEF Keeps, Leaves, Others, Calm
<1>14. ASSUME NEW r \in Requests, Claim(r)
      PROVE  RemovingAlone'
  BY <1>14, ClaimMoves, RequestFields DEF Goes, Keeps, Leaves, Others, Calm
<1>15. ASSUME NEW r \in Requests, Fetch(r)
      PROVE  RemovingAlone'
  BY <1>15, FetchMoves, RequestFields DEF Goes, Keeps, Leaves, Others, Calm
<1>16. ASSUME NEW r \in Requests, FetchFails(r)
      PROVE  RemovingAlone'
  BY <1>16, LeaveMoves, RequestFields DEF Leaves, Others, Calm
<1>17. ASSUME NEW r \in Requests, Import(r)
      PROVE  RemovingAlone'
  BY <1>17, ImportMoves, RequestFields DEF Goes, Keeps, Leaves, Others, Calm
<1>18. ASSUME NEW r \in Requests, ImportNodes(r)
      PROVE  RemovingAlone'
  BY <1>18, LeaveMoves, RequestFields DEF Leaves, Others, Calm
<1>19. ASSUME NEW u \in uploads, Deliver(u)
      PROVE  RemovingAlone'
  <2>1. rq' = rq /\ Active' = Active /\ UNCHANGED <<torn, conn, nodes>>
    BY <1>19 DEF Deliver, Active, tables
  <2>2. QED
    BY <1>19, <2>1, RequestFields DEF Calm
<1>20. ASSUME NEW u \in uploads, Lose(u)
      PROVE  RemovingAlone'
  BY <1>20, LoseMoves, RequestFields, DisturbedFacts DEF Calm
<1>21. ASSUME NEW sv \in Servers, Crash(sv)
      PROVE  RemovingAlone'
  BY <1>21, CrashMoves, RequestFields DEF On, Calm
<1>22. ASSUME DeleteRemote
      PROVE  RemovingAlone'
  BY <1>22, DeleteRemoteMoves, RequestFields, DisturbedFacts DEF Calm
<1>23. CASE UNCHANGED vars
  <2>1. Active' = Active
    BY <1>23 DEF vars, Active
  <2>2. QED
    BY <1>23, <2>1 DEF vars, tables
<1>24. ASSUME NEW r \in Requests, ReadNodes(r)
      PROVE  RemovingAlone'
  BY <1>24, ReadNodesMoves, RequestFields DEF Keeps, Others, Calm
<1>25. ASSUME NEW r \in Requests, SyncMesh(r)
      PROVE  RemovingAlone'
  BY <1>25, LeaveMoves, RequestFields DEF Leaves, Others, Calm
<1>26. QED
  BY <1>1, <1>2, <1>3, <1>4, <1>5, <1>6, <1>7, <1>8, <1>9, <1>10, <1>11,
     <1>12, <1>13, <1>14, <1>15, <1>16, <1>17, <1>18, <1>19, <1>20, <1>21,
     <1>22, <1>23, <1>24, <1>25 DEF Next, RequestStep

LEMMA BetweenStep == Types /\ PlaceInv /\ MixInv /\ ~torn' /\ [Next]_vars => BetweenTables'
<1> SUFFICES ASSUME Types, PlaceInv, MixInv, ~torn', [Next]_vars PROVE BetweenTables'
  OBVIOUS
<1> USE DEF PlaceInv, MixInv, RemovingAlone, BetweenTables, Removing, Creating, Reading
<1>1. ASSUME NEW r \in Requests, NEW sv \in Servers, NEW k \in Kinds, Put(r, sv, k)
      PROVE  BetweenTables'
  <2>1. PICK q \in AllRequests :
           /\ Begin(r, q) /\ q.num = begun + 1 /\ q.id = NoAgent
           /\ q.at = "check" /\ q.srv = sv /\ q.kind \in {"put", "put_off"} /\ ~q.good
    BY <1>1, PutBegins
  <2>2. QED
    BY <1>1, <2>1, Begun, DisturbedFacts, RequestFields, NumberFacts DEF Put, tables, Calm
<1>2. ASSUME NEW r \in Requests, NEW sv \in Servers, NEW k \in Kinds, Operate(r, sv, k)
      PROVE  BetweenTables'
  <2>1. PICK q \in AllRequests :
           /\ Begin(r, q) /\ q.num = begun + 1 /\ q.id = NoAgent
           /\ q.at = "check" /\ q.srv = sv /\ q.kind \in OpKinds /\ ~q.good
    BY <1>2, OperateBegins
  <2>2. QED
    BY <1>2, <2>1, Begun, DisturbedFacts, RequestFields, NumberFacts DEF Operate, tables, Calm
<1>3. ASSUME NEW r \in Requests, NEW sv \in Servers, DeleteStack(r, sv)
      PROVE  BetweenTables'
  <2>1. PICK q \in AllRequests :
           /\ Begin(r, q) /\ q.num = begun + 1 /\ q.id = NoAgent
           /\ q.at = "drop" /\ q.srv = sv /\ q.kind = "delete" /\ ~q.good
           /\ Calm(r, Removing \cup Creating \cup Reading)
    BY <1>3, DeleteBegins
  <2>2. QED
    BY <1>3, <2>1, Begun, DisturbedFacts, RequestFields, NumberFacts DEF DeleteStack, tables, Calm
<1>4. ASSUME NEW r \in Requests, NEW sv \in Servers, Unlock(r, sv)
      PROVE  BetweenTables'
  <2>1. PICK q \in AllRequests :
           /\ Begin(r, q) /\ q.num = begun + 1 /\ q.id = NoAgent
           /\ q.at = "claim" /\ q.srv = sv /\ q.kind = "claim" /\ q.good = (conn[sv] = None)
    BY <1>4, UnlockBegins
  <2>2. QED
    BY <1>4, <2>1, Begun, DisturbedFacts, RequestFields, NumberFacts DEF Unlock, tables, Calm
<1>5. ASSUME NEW r \in Requests, Check(r)
      PROVE  BetweenTables'
  BY <1>5, CheckMoves, RequestFields DEF Goes, Keeps, Leaves, Others, Calm
<1>6. ASSUME NEW r \in Requests, Create(r)
      PROVE  BetweenTables'
  <2>1. ~torn /\ r \in Active /\ rq[r].srv \in Servers
    BY <1>6, CreateMoves, RequestFields
  <2>2. CASE ~Goes(r, "nodes")
    BY <1>6, <2>1, <2>2, CreateMoves DEF Goes, Keeps, Leaves, Others
  <2>3. CASE Goes(r, "nodes")
    <3>1. rq[r].at = "create" /\ conn[rq[r].srv] = None /\ conn' = [conn EXCEPT ![rq[r].srv] = rq[r].num]
      BY <1>6, <2>1, <2>3, CreateMoves DEF Goes, Keeps, Leaves
    <3>2. \A x \in Active : rq[x].at \in {"nodes", "importnodes", "mesh"} => rq[x].srv # rq[r].srv
      BY <2>1, <3>1, Held
    <3>3. \A x \in Active : rq[x].at = "render" /\ rq[x].srv = rq[r].srv => rq[x].id.node = None
      BY <2>1, <3>1 DEF OneCA
    <3>4. QED
      BY <2>1, <2>3, <3>1, <3>2, <3>3, RequestFields, TableFields DEF Goes, Keeps, Others, OneCA
  <2>4. QED
    BY <2>2, <2>3
<1>7. ASSUME NEW r \in Requests, CreateNodes(r)
      PROVE  BetweenTables'
  BY <1>7, CreateNodesMoves, RequestFields DEF Goes, Keeps, Leaves, Others, Calm
<1>8. ASSUME NEW r \in Requests, Drop(r)
      PROVE  BetweenTables'
  BY <1>8, DropMoves, RequestFields, TableFields DEF Goes, Keeps, Leaves, Others, Calm
<1>9. ASSUME NEW r \in Requests, DropNodes(r)
      PROVE  BetweenTables'
  BY <1>9, LeaveMoves, RequestFields DEF Leaves, Others, Calm
<1>10. ASSUME NEW r \in Requests, Render(r)
      PROVE  BetweenTables'
  BY <1>10, RenderMoves, RequestFields DEF Goes, Keeps, Leaves, Others, Calm
<1>11. ASSUME NEW r \in Requests, Succeed(r)
      PROVE  BetweenTables'
  BY <1>11, SucceedMoves, RequestFields DEF Goes, Keeps, Leaves, Others, Calm
<1>12. ASSUME NEW r \in Requests, Fail(r)
      PROVE  BetweenTables'
  BY <1>12, LeaveMoves, RequestFields DEF Leaves, Others, Calm
<1>13. ASSUME NEW r \in Requests, Sync(r)
      PROVE  BetweenTables'
  <2>1. CASE Leaves(r)
    BY <1>13, <2>1, SyncMoves DEF Leaves, Others, Calm
  <2>2. CASE ~Leaves(r)
    <3>1. /\ r \in Active /\ Keeps(r) /\ ~torn /\ UNCHANGED conn /\ rq'[r].at = "mesh"
          /\ conn[rq[r].srv] # None /\ rq'[r].id = Identity(conn[rq[r].srv], None)
      <4>1. Calm(r, Removing) => ~torn
        BY DEF Calm
      <4>2. QED
        BY <1>13, <2>2, <4>1, SyncMoves, Zenon
    <3>2. rq'[r].id.ca = conn[rq[r].srv]
      BY <3>1 DEF Identity
    <3>3. QED
      BY <3>1, <3>2 DEF Keeps, Others
  <2>3. QED
    BY <2>1, <2>2
<1>14. ASSUME NEW r \in Requests, Claim(r)
      PROVE  BetweenTables'
  BY <1>14, ClaimMoves, RequestFields DEF Goes, Keeps, Leaves, Others, Calm
<1>15. ASSUME NEW r \in Requests, Fetch(r)
      PROVE  BetweenTables'
  BY <1>15, FetchMoves, RequestFields DEF Goes, Keeps, Leaves, Others, Calm
<1>16. ASSUME NEW r \in Requests, FetchFails(r)
      PROVE  BetweenTables'
  BY <1>16, LeaveMoves, RequestFields DEF Leaves, Others, Calm
<1>17. ASSUME NEW r \in Requests, Import(r)
      PROVE  BetweenTables'
  <2>1. ~torn /\ r \in Active /\ rq[r].srv \in Servers
    BY <1>17, ImportMoves, RequestFields
  <2>2. CASE ~Goes(r, "importnodes")
    BY <1>17, <2>1, <2>2, ImportMoves DEF Goes, Keeps, Leaves, Others
  <2>3. CASE Goes(r, "importnodes")
    <3>1. rq[r].at = "import" /\ conn[rq[r].srv] = None /\ conn' = [conn EXCEPT ![rq[r].srv] = rq[r].id.ca]
      BY <1>17, <2>1, <2>3, ImportMoves DEF Goes, Keeps, Leaves
    <3>2. \A x \in Active : rq[x].at \in {"nodes", "importnodes", "mesh"} => rq[x].srv # rq[r].srv
      BY <2>1, <3>1, Held
    <3>3. \A x \in Active : rq[x].at = "render" /\ rq[x].srv = rq[r].srv => rq[x].id.node = None
      BY <2>1, <3>1 DEF OneCA
    <3>4. QED
      BY <2>1, <2>3, <3>1, <3>2, <3>3, RequestFields, TableFields DEF Goes, Keeps, Others, OneCA
  <2>4. QED
    BY <2>2, <2>3
<1>18. ASSUME NEW r \in Requests, ImportNodes(r)
      PROVE  BetweenTables'
  BY <1>18, LeaveMoves, RequestFields DEF Leaves, Others, Calm
<1>19. ASSUME NEW u \in uploads, Deliver(u)
      PROVE  BetweenTables'
  <2>1. rq' = rq /\ Active' = Active /\ UNCHANGED <<torn, conn, nodes>>
    BY <1>19 DEF Deliver, Active, tables
  <2>2. QED
    BY <1>19, <2>1, RequestFields DEF Calm
<1>20. ASSUME NEW u \in uploads, Lose(u)
      PROVE  BetweenTables'
  BY <1>20, LoseMoves, RequestFields, DisturbedFacts DEF Calm
<1>21. ASSUME NEW sv \in Servers, Crash(sv)
      PROVE  BetweenTables'
  BY <1>21, CrashMoves, RequestFields DEF On, Calm
<1>22. ASSUME DeleteRemote
      PROVE  BetweenTables'
  BY <1>22, DeleteRemoteMoves, RequestFields, DisturbedFacts DEF Calm
<1>23. CASE UNCHANGED vars
  <2>1. Active' = Active
    BY <1>23 DEF vars, Active
  <2>2. QED
    BY <1>23, <2>1 DEF vars, tables
<1>24. ASSUME NEW r \in Requests, ReadNodes(r)
      PROVE  BetweenTables'
  <2>1. /\ r \in Active /\ Keeps(r) /\ ~torn /\ UNCHANGED <<conn, nodes>>
        /\ rq'[r].at = "render" /\ rq'[r].id.node = nodes[rq[r].srv]
        /\ \A x \in Active : x # r /\ rq[x].srv = rq[r].srv => rq[x].at \notin Removing
    <3>1. /\ r \in Active /\ Keeps(r) /\ UNCHANGED <<conn, nodes>> /\ Calm(r, Removing)
          /\ rq'[r].at = "render" /\ rq'[r].id = Identity(None, nodes[rq[r].srv])
      BY <1>24, ReadNodesMoves, Zenon
    <3>2. rq'[r].id.node = nodes[rq[r].srv] /\ rq'[r].srv = rq[r].srv
      BY <3>1 DEF Identity, Keeps
    <3>3. QED
      BY <3>1, <3>2 DEF Calm
  <2>2. rq[r].srv \in Servers /\ rq[r].at = "run"
    BY <1>24, ReadNodesMoves, RequestFields
  <2>3. OneCA(conn[rq[r].srv], nodes[rq[r].srv])
    BY <2>1, <2>2 DEF KeptTogether
  <2>4. QED
    BY <2>1, <2>2, <2>3 DEF Keeps, Others
<1>25. ASSUME NEW r \in Requests, SyncMesh(r)
      PROVE  BetweenTables'
  BY <1>25, LeaveMoves, RequestFields DEF Leaves, Others, Calm
<1>26. QED
  BY <1>1, <1>2, <1>3, <1>4, <1>5, <1>6, <1>7, <1>8, <1>9, <1>10, <1>11,
     <1>12, <1>13, <1>14, <1>15, <1>16, <1>17, <1>18, <1>19, <1>20, <1>21,
     <1>22, <1>23, <1>24, <1>25 DEF Next, RequestStep

LEMMA TogetherStep == Types /\ PlaceInv /\ MixInv /\ ~torn' /\ [Next]_vars => KeptTogether'
<1> SUFFICES ASSUME Types, PlaceInv, MixInv, ~torn', [Next]_vars PROVE KeptTogether'
  OBVIOUS
<1> USE DEF PlaceInv, MixInv, RemovingAlone, BetweenTables, KeptTogether, Removing, Creating, Reading
<1>1. ASSUME NEW r \in Requests, NEW sv \in Servers, NEW k \in Kinds, Put(r, sv, k)
      PROVE  KeptTogether'
  <2>1. PICK q \in AllRequests :
           /\ Begin(r, q) /\ q.num = begun + 1 /\ q.id = NoAgent
           /\ q.at = "check" /\ q.srv = sv /\ q.kind \in {"put", "put_off"} /\ ~q.good
    BY <1>1, PutBegins
  <2>2. QED
    BY <1>1, <2>1, Begun, DisturbedFacts, RequestFields, NumberFacts DEF Put, tables, Calm
<1>2. ASSUME NEW r \in Requests, NEW sv \in Servers, NEW k \in Kinds, Operate(r, sv, k)
      PROVE  KeptTogether'
  <2>1. PICK q \in AllRequests :
           /\ Begin(r, q) /\ q.num = begun + 1 /\ q.id = NoAgent
           /\ q.at = "check" /\ q.srv = sv /\ q.kind \in OpKinds /\ ~q.good
    BY <1>2, OperateBegins
  <2>2. QED
    BY <1>2, <2>1, Begun, DisturbedFacts, RequestFields, NumberFacts DEF Operate, tables, Calm
<1>3. ASSUME NEW r \in Requests, NEW sv \in Servers, DeleteStack(r, sv)
      PROVE  KeptTogether'
  <2>1. PICK q \in AllRequests :
           /\ Begin(r, q) /\ q.num = begun + 1 /\ q.id = NoAgent
           /\ q.at = "drop" /\ q.srv = sv /\ q.kind = "delete" /\ ~q.good
           /\ Calm(r, Removing \cup Creating \cup Reading)
    BY <1>3, DeleteBegins
  <2>2. QED
    BY <1>3, <2>1, Begun, DisturbedFacts, RequestFields, NumberFacts DEF DeleteStack, tables, Calm
<1>4. ASSUME NEW r \in Requests, NEW sv \in Servers, Unlock(r, sv)
      PROVE  KeptTogether'
  <2>1. PICK q \in AllRequests :
           /\ Begin(r, q) /\ q.num = begun + 1 /\ q.id = NoAgent
           /\ q.at = "claim" /\ q.srv = sv /\ q.kind = "claim" /\ q.good = (conn[sv] = None)
    BY <1>4, UnlockBegins
  <2>2. QED
    BY <1>4, <2>1, Begun, DisturbedFacts, RequestFields, NumberFacts DEF Unlock, tables, Calm
<1>5. ASSUME NEW r \in Requests, Check(r)
      PROVE  KeptTogether'
  BY <1>5, CheckMoves, RequestFields DEF Goes, Keeps, Leaves, Others, OneCA, Calm
<1>6. ASSUME NEW r \in Requests, Create(r)
      PROVE  KeptTogether'
  <2> SUFFICES ASSUME NEW s \in Servers
               PROVE  \/ OneCA(conn'[s], nodes'[s])
                      \/ \E x \in Active' : rq'[x].srv = s /\ rq'[x].at = "dropnodes"
    OBVIOUS
  <2>1. ~torn /\ r \in Active /\ rq[r].srv \in Servers
    BY <1>6, CreateMoves, RequestFields
  <2>2. CASE s # rq[r].srv
    BY <1>6, <2>1, <2>2, CreateMoves, TableFields DEF Goes, Keeps, Leaves, Others
  <2>3. CASE s = rq[r].srv
    <3>1. \A x \in Active : rq[x].srv = s => rq[x].at # "dropnodes"
      BY <1>6, <2>1, <2>3, CreateMoves
    <3>2. OneCA(conn[s], nodes[s])
      BY <2>1, <3>1
    <3>3. QED
      BY <1>6, <2>3, <3>1, <3>2, CreateMoves, TableFields, RequestFields DEF OneCA
  <2>4. QED
    BY <2>2, <2>3
<1>7. ASSUME NEW r \in Requests, CreateNodes(r)
      PROVE  KeptTogether'
  <2> SUFFICES ASSUME NEW s \in Servers
               PROVE  \/ OneCA(conn'[s], nodes'[s])
                      \/ \E x \in Active' : rq'[x].srv = s /\ rq'[x].at = "dropnodes"
    OBVIOUS
  <2>1. ~torn /\ r \in Active /\ rq[r].srv \in Servers
    BY <1>7, CreateNodesMoves, RequestFields
  <2>2. CASE s # rq[r].srv
    BY <1>7, <2>1, <2>2, CreateNodesMoves, TableFields DEF Goes, Keeps, Leaves, Others
  <2>3. CASE s = rq[r].srv
    <3>1. conn[s] = rq[r].num
      BY <1>7, <2>1, <2>3, CreateNodesMoves
    <3>2. \A x \in Active : rq[x].srv = s => rq[x].at # "dropnodes"
      BY <1>7, <2>1, <2>3, CreateNodesMoves
    <3>3. OneCA(conn[s], nodes[s])
      BY <2>1, <3>2
    <3>4. QED
      BY <1>7, <2>3, <3>1, <3>3, CreateNodesMoves, TableFields, RequestFields DEF OneCA
  <2>4. QED
    BY <2>2, <2>3
<1>8. ASSUME NEW r \in Requests, Drop(r)
      PROVE  KeptTogether'
  <2> SUFFICES ASSUME NEW s \in Servers
               PROVE  \/ OneCA(conn'[s], nodes'[s])
                      \/ \E x \in Active' : rq'[x].srv = s /\ rq'[x].at = "dropnodes"
    OBVIOUS
  <2>1. ~torn /\ r \in Active /\ rq[r].srv \in Servers
    BY <1>8, DropMoves, RequestFields
  <2>2. CASE s # rq[r].srv
    BY <1>8, <2>1, <2>2, DropMoves, TableFields DEF Goes, Keeps, Leaves, Others
  <2>3. CASE s = rq[r].srv
    BY <1>8, <2>1, <2>3, DropMoves DEF Goes, Keeps
  <2>4. QED
    BY <2>2, <2>3
<1>9. ASSUME NEW r \in Requests, DropNodes(r)
      PROVE  KeptTogether'
  <2> SUFFICES ASSUME NEW s \in Servers
               PROVE  \/ OneCA(conn'[s], nodes'[s])
                      \/ \E x \in Active' : rq'[x].srv = s /\ rq'[x].at = "dropnodes"
    OBVIOUS
  <2>1. ~torn /\ r \in Active /\ rq[r].srv \in Servers
    BY <1>9, LeaveMoves, RequestFields
  <2>2. CASE s # rq[r].srv
    BY <1>9, <2>1, <2>2, LeaveMoves, TableFields DEF Goes, Keeps, Leaves, Others
  <2>3. CASE s = rq[r].srv
    BY <1>9, <2>1, <2>3, LeaveMoves, TableFields DEF OneCA
  <2>4. QED
    BY <2>2, <2>3
<1>10. ASSUME NEW r \in Requests, Render(r)
      PROVE  KeptTogether'
  BY <1>10, RenderMoves, RequestFields DEF Goes, Keeps, Leaves, Others, OneCA, Calm
<1>11. ASSUME NEW r \in Requests, Succeed(r)
      PROVE  KeptTogether'
  BY <1>11, SucceedMoves, RequestFields DEF Goes, Keeps, Leaves, Others, OneCA, Calm
<1>12. ASSUME NEW r \in Requests, Fail(r)
      PROVE  KeptTogether'
  BY <1>12, LeaveMoves, RequestFields DEF Leaves, Others, OneCA, Calm
<1>13. ASSUME NEW r \in Requests, Sync(r)
      PROVE  KeptTogether'
  BY <1>13, SyncMoves, RequestFields DEF Keeps, Leaves, Others, OneCA, Calm
<1>14. ASSUME NEW r \in Requests, Claim(r)
      PROVE  KeptTogether'
  BY <1>14, ClaimMoves, RequestFields DEF Goes, Keeps, Leaves, Others, OneCA, Calm
<1>15. ASSUME NEW r \in Requests, Fetch(r)
      PROVE  KeptTogether'
  BY <1>15, FetchMoves, RequestFields DEF Goes, Keeps, Leaves, Others, OneCA, Calm
<1>16. ASSUME NEW r \in Requests, FetchFails(r)
      PROVE  KeptTogether'
  BY <1>16, LeaveMoves, RequestFields DEF Leaves, Others, OneCA, Calm
<1>17. ASSUME NEW r \in Requests, Import(r)
      PROVE  KeptTogether'
  <2> SUFFICES ASSUME NEW s \in Servers
               PROVE  \/ OneCA(conn'[s], nodes'[s])
                      \/ \E x \in Active' : rq'[x].srv = s /\ rq'[x].at = "dropnodes"
    OBVIOUS
  <2>1. ~torn /\ r \in Active /\ rq[r].srv \in Servers
    BY <1>17, ImportMoves, RequestFields
  <2>2. CASE s # rq[r].srv
    BY <1>17, <2>1, <2>2, ImportMoves, TableFields DEF Goes, Keeps, Leaves, Others
  <2>3. CASE s = rq[r].srv
    <3>1. \A x \in Active : rq[x].srv = s => rq[x].at # "dropnodes"
      BY <1>17, <2>1, <2>3, ImportMoves
    <3>2. OneCA(conn[s], nodes[s])
      BY <2>1, <3>1
    <3>3. QED
      BY <1>17, <2>3, <3>1, <3>2, ImportMoves, TableFields, RequestFields DEF OneCA
  <2>4. QED
    BY <2>2, <2>3
<1>18. ASSUME NEW r \in Requests, ImportNodes(r)
      PROVE  KeptTogether'
  <2> SUFFICES ASSUME NEW s \in Servers
               PROVE  \/ OneCA(conn'[s], nodes'[s])
                      \/ \E x \in Active' : rq'[x].srv = s /\ rq'[x].at = "dropnodes"
    OBVIOUS
  <2>1. ~torn /\ r \in Active /\ rq[r].srv \in Servers
    BY <1>18, LeaveMoves, RequestFields
  <2>2. CASE s # rq[r].srv
    BY <1>18, <2>1, <2>2, LeaveMoves, TableFields DEF Goes, Keeps, Leaves, Others
  <2>3. CASE s = rq[r].srv
    <3>1. conn[s] = rq[r].id.ca /\ OneCA(rq[r].id.ca, rq[r].id.node)
      BY <1>18, <2>1, <2>3, LeaveMoves DEF OwnCopies, Owns
    <3>2. \A x \in Active : rq[x].srv = s => rq[x].at # "dropnodes"
      BY <1>18, <2>1, <2>3, LeaveMoves
    <3>3. OneCA(conn[s], nodes[s])
      BY <2>1, <3>2
    <3>4. QED
      BY <1>18, <2>3, <3>1, <3>3, LeaveMoves, TableFields, RequestFields DEF OneCA
  <2>4. QED
    BY <2>2, <2>3
<1>19. ASSUME NEW u \in uploads, Deliver(u)
      PROVE  KeptTogether'
  <2>1. rq' = rq /\ Active' = Active /\ UNCHANGED <<torn, conn, nodes>>
    BY <1>19 DEF Deliver, Active, tables
  <2>2. QED
    BY <1>19, <2>1, RequestFields DEF OneCA, Calm
<1>20. ASSUME NEW u \in uploads, Lose(u)
      PROVE  KeptTogether'
  BY <1>20, LoseMoves, RequestFields, DisturbedFacts DEF OneCA, Calm
<1>21. ASSUME NEW sv \in Servers, Crash(sv)
      PROVE  KeptTogether'
  BY <1>21, CrashMoves, RequestFields DEF On, OneCA, Calm, On
<1>22. ASSUME DeleteRemote
      PROVE  KeptTogether'
  BY <1>22, DeleteRemoteMoves, RequestFields, DisturbedFacts DEF OneCA, Calm
<1>23. CASE UNCHANGED vars
  <2>1. Active' = Active
    BY <1>23 DEF vars, Active
  <2>2. QED
    BY <1>23, <2>1 DEF vars, tables
<1>24. ASSUME NEW r \in Requests, ReadNodes(r)
      PROVE  KeptTogether'
  BY <1>24, ReadNodesMoves, RequestFields DEF Keeps, Others, OneCA, Calm
<1>25. ASSUME NEW r \in Requests, SyncMesh(r)
      PROVE  KeptTogether'
  BY <1>25, LeaveMoves, RequestFields DEF Leaves, Others, OneCA, Calm
<1>26. QED
  BY <1>1, <1>2, <1>3, <1>4, <1>5, <1>6, <1>7, <1>8, <1>9, <1>10, <1>11,
     <1>12, <1>13, <1>14, <1>15, <1>16, <1>17, <1>18, <1>19, <1>20, <1>21,
     <1>22, <1>23, <1>24, <1>25 DEF Next, RequestStep

LEMMA CopiesStep == Types /\ PlaceInv /\ MixInv /\ ~torn' /\ [Next]_vars => OwnCopies'
<1> SUFFICES ASSUME Types, PlaceInv, MixInv, ~torn', [Next]_vars PROVE OwnCopies'
  OBVIOUS
<1> USE DEF PlaceInv, MixInv, OwnCopies
<1>1. ASSUME NEW r \in Requests, NEW sv \in Servers, NEW k \in Kinds, Put(r, sv, k)
      PROVE  OwnCopies'
  <2>1. PICK q \in AllRequests :
           /\ Begin(r, q) /\ q.num = begun + 1 /\ q.id = NoAgent
           /\ q.at = "check" /\ q.srv = sv /\ q.kind \in {"put", "put_off"} /\ ~q.good
    BY <1>1, PutBegins
  <2>2. ~torn /\ UNCHANGED <<bucket, deployed>> /\ uploads' = uploads \cup {Yaml(sv, begun + 1)}
    BY <1>1, <2>1 DEF Put, tables, Calm
  <2>3. Owns(Yaml(sv, begun + 1).id)
    BY OwnFacts DEF Yaml
  <2>4. QED
    BY <2>1, <2>2, <2>3, Begun, DisturbedFacts, OwnFacts
<1>2. ASSUME NEW r \in Requests, NEW sv \in Servers, NEW k \in Kinds, Operate(r, sv, k)
      PROVE  OwnCopies'
  <2>1. PICK q \in AllRequests :
           /\ Begin(r, q) /\ q.num = begun + 1 /\ q.id = NoAgent
           /\ q.at = "check" /\ q.srv = sv /\ q.kind \in OpKinds /\ ~q.good
    BY <1>2, OperateBegins
  <2>2. ~torn /\ UNCHANGED <<uploads, bucket, deployed>>
    BY <1>2, <2>1 DEF Operate, tables, Calm
  <2>3. QED
    BY <2>1, <2>2, Begun, DisturbedFacts, OwnFacts
<1>3. ASSUME NEW r \in Requests, NEW sv \in Servers, DeleteStack(r, sv)
      PROVE  OwnCopies'
  <2>1. PICK q \in AllRequests :
           /\ Begin(r, q) /\ q.num = begun + 1 /\ q.id = NoAgent
           /\ q.at = "drop" /\ q.srv = sv /\ q.kind = "delete" /\ ~q.good
           /\ Calm(r, Removing \cup Creating \cup Reading)
    BY <1>3, DeleteBegins
  <2>2. ~torn /\ UNCHANGED <<uploads, bucket, deployed>>
    BY <1>3, <2>1 DEF DeleteStack, tables, Calm
  <2>3. QED
    BY <2>1, <2>2, Begun, DisturbedFacts, OwnFacts
<1>4. ASSUME NEW r \in Requests, NEW sv \in Servers, Unlock(r, sv)
      PROVE  OwnCopies'
  <2>1. PICK q \in AllRequests :
           /\ Begin(r, q) /\ q.num = begun + 1 /\ q.id = NoAgent
           /\ q.at = "claim" /\ q.srv = sv /\ q.kind = "claim" /\ q.good = (conn[sv] = None)
    BY <1>4, UnlockBegins
  <2>2. ~torn /\ UNCHANGED <<uploads, bucket, deployed>>
    BY <1>4, <2>1 DEF Unlock, tables, Calm
  <2>3. QED
    BY <2>1, <2>2, Begun, DisturbedFacts, OwnFacts
<1>5. ASSUME NEW r \in Requests, Check(r)
      PROVE  OwnCopies'
  <2>1. ~torn /\ UNCHANGED <<uploads, bucket, deployed>>
    BY <1>5, CheckMoves DEF Check, tables, Calm
  <2>2. QED
    BY <1>5, <2>1, CheckMoves DEF Goes, Keeps, Leaves, Others
<1>6. ASSUME NEW r \in Requests, Create(r)
      PROVE  OwnCopies'
  <2>1. ~torn /\ UNCHANGED <<uploads, bucket, deployed>>
    BY <1>6, CreateMoves DEF Create, tables, Calm
  <2>2. QED
    BY <1>6, <2>1, CreateMoves DEF Goes, Keeps, Leaves, Others
<1>7. ASSUME NEW r \in Requests, CreateNodes(r)
      PROVE  OwnCopies'
  <2>1. ~torn /\ UNCHANGED <<uploads, bucket, deployed>>
    BY <1>7, CreateNodesMoves DEF CreateNodes, tables, Calm
  <2>2. QED
    BY <1>7, <2>1, CreateNodesMoves DEF Goes, Keeps, Leaves, Others
<1>8. ASSUME NEW r \in Requests, Drop(r)
      PROVE  OwnCopies'
  <2>1. ~torn /\ UNCHANGED <<uploads, bucket, deployed>>
    BY <1>8, DropMoves DEF Drop, tables, Calm
  <2>2. QED
    BY <1>8, <2>1, DropMoves DEF Goes, Keeps, Others
<1>9. ASSUME NEW r \in Requests, DropNodes(r)
      PROVE  OwnCopies'
  <2>1. ~torn /\ UNCHANGED <<uploads, bucket, deployed>>
    BY <1>9, LeaveMoves DEF DropNodes, tables, Calm
  <2>2. QED
    BY <1>9, <2>1, LeaveMoves DEF Leaves, Others
<1>10. ASSUME NEW r \in Requests, Render(r)
      PROVE  OwnCopies'
  <2>1. ~torn /\ UNCHANGED <<uploads, bucket, deployed>>
    BY <1>10, RenderMoves DEF Render, tables, Calm
  <2>2. Owns(Rendered(rq[r].srv, rq[r].id.node))
    BY <1>10, <2>1, RenderMoves, OwnCAs
  <2>3. QED
    BY SMTT(30), <1>10, <2>1, <2>2, RenderMoves DEF Keeps, Others
<1>11. ASSUME NEW r \in Requests, Succeed(r)
      PROVE  OwnCopies'
  <2>1. ~torn /\ UNCHANGED <<uploads>>
    BY <1>11, SucceedMoves DEF Succeed, tables, Calm
  <2>2. bucket'.mesh = bucket.mesh
    BY <1>11 DEF Succeed, Types
  <2>3. Owns(deployed'.id)
    BY <1>11, <2>1, SucceedMoves, OwnFacts DEF Succeed
  <2>4. QED
    BY <1>11, <2>1, <2>2, <2>3, SucceedMoves DEF Goes, Keeps, Others
<1>12. ASSUME NEW r \in Requests, Fail(r)
      PROVE  OwnCopies'
  <2>1. ~torn /\ UNCHANGED <<uploads, bucket, deployed>>
    BY <1>12, LeaveMoves DEF Fail, tables, Calm
  <2>2. QED
    BY <1>12, <2>1, LeaveMoves DEF Leaves, Others
<1>13. ASSUME NEW r \in Requests, Sync(r)
      PROVE  OwnCopies'
  <2>1. ~torn /\ UNCHANGED <<bucket, deployed>>
    BY <1>13, SyncMoves DEF Sync, tables, Calm
  <2>2. \A u \in uploads' : Owns(u.id)
    <3>1. \A u \in Configuration(r) : Owns(u.id)
      BY <1>13, SyncMoves, RequestFields, OwnFacts DEF Configuration
    <3>2. QED
      BY <1>13, <2>1, <3>1 DEF Sync
  <2>3. CASE Leaves(r)
    BY <1>13, <2>1, <2>2, <2>3, SyncMoves DEF Leaves, Others
  <2>4. CASE ~Leaves(r)
    <3>1. /\ r \in Active /\ Keeps(r) /\ rq'[r].at = "mesh"
          /\ rq'[r].id = Identity(conn[rq[r].srv], None)
      BY <1>13, <2>4, SyncMoves
    <3>2. Owns(Identity(conn[rq[r].srv], None))
      BY DEF Owns, OneCA, Identity
    <3>3. QED
      BY <2>1, <2>2, <3>1, <3>2 DEF Keeps, Others
  <2>5. QED
    BY <2>3, <2>4
<1>14. ASSUME NEW r \in Requests, Claim(r)
      PROVE  OwnCopies'
  <2>1. ~torn /\ UNCHANGED <<uploads, bucket, deployed>>
    BY <1>14, ClaimMoves DEF Claim, tables, Calm
  <2>2. QED
    BY <1>14, <2>1, ClaimMoves DEF Goes, Keeps, Others
<1>15. ASSUME NEW r \in Requests, Fetch(r)
      PROVE  OwnCopies'
  <2>1. ~torn /\ UNCHANGED <<uploads, bucket, deployed>>
    BY <1>15, FetchMoves DEF Fetch, tables, Calm
  <2>2. QED
    BY SMTT(30), <1>15, <2>1, FetchMoves DEF Goes, Keeps, Leaves, Others
<1>16. ASSUME NEW r \in Requests, FetchFails(r)
      PROVE  OwnCopies'
  <2>1. ~torn /\ UNCHANGED <<uploads, bucket, deployed>>
    BY <1>16, LeaveMoves DEF FetchFails, tables, Calm
  <2>2. QED
    BY <1>16, <2>1, LeaveMoves DEF Leaves, Others
<1>17. ASSUME NEW r \in Requests, Import(r)
      PROVE  OwnCopies'
  <2>1. ~torn /\ UNCHANGED <<uploads, bucket, deployed>>
    BY <1>17, ImportMoves DEF Import, tables, Calm
  <2>2. QED
    BY <1>17, <2>1, ImportMoves DEF Goes, Keeps, Leaves, Others
<1>18. ASSUME NEW r \in Requests, ImportNodes(r)
      PROVE  OwnCopies'
  <2>1. ~torn /\ UNCHANGED <<uploads, bucket, deployed>>
    BY <1>18, LeaveMoves DEF ImportNodes, tables, Calm
  <2>2. QED
    BY <1>18, <2>1, LeaveMoves DEF Leaves, Others
<1>19. ASSUME NEW u \in uploads, Deliver(u)
      PROVE  OwnCopies'
  <2>1. rq' = rq /\ Active' = Active /\ ~torn /\ deployed' = deployed
    BY <1>19 DEF Deliver, Active, tables
  <2>2. bucket'.mesh \in {bucket.mesh, u.id}
    BY <1>19 DEF Deliver, DeliverConfig, DeliverMesh, Types
  <2>3. QED
    BY <1>19, <2>1, <2>2 DEF Deliver
<1>20. ASSUME NEW u \in uploads, Lose(u)
      PROVE  OwnCopies'
  <2>1. ~torn /\ UNCHANGED <<bucket, deployed>> /\ uploads' \subseteq uploads
    BY <1>20, LoseMoves DEF Lose
  <2>2. QED
    BY <1>20, <2>1, LoseMoves, DisturbedFacts
<1>21. ASSUME NEW sv \in Servers, Crash(sv)
      PROVE  OwnCopies'
  <2>1. ~torn /\ UNCHANGED <<bucket, deployed>>
    BY <1>21, CrashMoves DEF Crash, tables
  <2>2. QED
    BY <1>21, <2>1, CrashMoves
<1>22. ASSUME DeleteRemote
      PROVE  OwnCopies'
  <2>1. ~torn /\ UNCHANGED <<uploads, deployed>> /\ bucket'.mesh = bucket.mesh
    BY <1>22 DEF DeleteRemote, Types, tables
  <2>2. QED
    BY <1>22, <2>1, DeleteRemoteMoves, DisturbedFacts
<1>23. CASE UNCHANGED vars
  <2>1. Active' = Active
    BY <1>23 DEF vars, Active
  <2>2. QED
    BY <1>23, <2>1 DEF vars, tables
<1>24. ASSUME NEW r \in Requests, ReadNodes(r)
      PROVE  OwnCopies'
  <2>1. ~torn /\ UNCHANGED <<uploads, bucket, deployed>>
    BY <1>24, ReadNodesMoves DEF ReadNodes, tables, Calm
  <2>2. QED
    BY <1>24, <2>1, ReadNodesMoves DEF Keeps, Others
<1>25. ASSUME NEW r \in Requests, SyncMesh(r)
      PROVE  OwnCopies'
  <2>1. ~torn /\ UNCHANGED <<bucket, deployed>> /\ r \in Active
    BY <1>25, LeaveMoves DEF SyncMesh, tables
  <2>2. Owns(Identity(rq[r].id.ca, nodes[rq[r].srv]))
    BY <1>25, <2>1, LeaveMoves, OwnCAs
  <2>3. \A u \in uploads' : Owns(u.id)
    BY <1>25, <2>1, <2>2 DEF SyncMesh, Mesh
  <2>4. QED
    BY <1>25, <2>1, <2>3, LeaveMoves DEF Leaves, Others
<1>26. QED
  BY <1>1, <1>2, <1>3, <1>4, <1>5, <1>6, <1>7, <1>8, <1>9, <1>10, <1>11,
     <1>12, <1>13, <1>14, <1>15, <1>16, <1>17, <1>18, <1>19, <1>20, <1>21,
     <1>22, <1>23, <1>24, <1>25 DEF Next, RequestStep

\* A request that is alone is the only one that takes steps.
LEMMA AloneStep == Types /\ PlaceInv /\ AloneInv /\ HealInv /\ [Next]_vars => AloneInv'
<1> SUFFICES ASSUME Types, PlaceInv, AloneInv, HealInv, [Next]_vars PROVE AloneInv'
  OBVIOUS
<1> USE DEF PlaceInv, AloneInv, OpKinds
<1>1. ASSUME NEW r \in Requests, NEW sv \in Servers, NEW k \in Kinds, Put(r, sv, k)
      PROVE  AloneInv'
  <2>1. PICK q \in AllRequests :
           /\ Begin(r, q) /\ q.num = begun + 1 /\ q.id = NoAgent
           /\ q.at = "check" /\ q.srv = sv /\ q.kind \in {"put", "put_off"} /\ ~q.good
    BY <1>1, PutBegins
  <2>2. Active' = Active \cup {r} /\ \A x \in Active : ~rq'[x].alone
    BY <2>1, Begun, DisturbedFacts
  <2>3. rq'[r].alone => \A x \in Active' : x = r
    BY <2>1, <2>2, Begun
  <2>4. FindsOwn(r)'
    BY <2>1, Begun DEF FindsOwn
  <2>5. QED
    BY <2>2, <2>3, <2>4
<1>2. ASSUME NEW r \in Requests, NEW sv \in Servers, NEW k \in Kinds, Operate(r, sv, k)
      PROVE  AloneInv'
  <2>1. PICK q \in AllRequests :
           /\ Begin(r, q) /\ q.num = begun + 1 /\ q.id = NoAgent
           /\ q.at = "check" /\ q.srv = sv /\ q.kind \in OpKinds /\ ~q.good
    BY <1>2, OperateBegins
  <2>2. Active' = Active \cup {r} /\ \A x \in Active : ~rq'[x].alone
    BY <2>1, Begun, DisturbedFacts
  <2>3. rq'[r].alone => \A x \in Active' : x = r
    BY <2>1, <2>2, Begun
  <2>4. FindsOwn(r)'
    BY <2>1, Begun DEF FindsOwn
  <2>5. QED
    BY <2>2, <2>3, <2>4
<1>3. ASSUME NEW r \in Requests, NEW sv \in Servers, DeleteStack(r, sv)
      PROVE  AloneInv'
  <2>1. PICK q \in AllRequests :
           /\ Begin(r, q) /\ q.num = begun + 1 /\ q.id = NoAgent
           /\ q.at = "drop" /\ q.srv = sv /\ q.kind = "delete" /\ ~q.good
           /\ Calm(r, Removing \cup Creating \cup Reading)
    BY <1>3, DeleteBegins
  <2>2. Active' = Active \cup {r} /\ \A x \in Active : ~rq'[x].alone
    BY <2>1, Begun, DisturbedFacts
  <2>3. rq'[r].alone => \A x \in Active' : x = r
    BY <2>1, <2>2, Begun
  <2>4. FindsOwn(r)'
    BY <2>1, Begun DEF FindsOwn
  <2>5. QED
    BY <2>2, <2>3, <2>4
<1>4. ASSUME NEW r \in Requests, NEW sv \in Servers, Unlock(r, sv)
      PROVE  AloneInv'
  <2>1. PICK q \in AllRequests :
           /\ Begin(r, q) /\ q.num = begun + 1 /\ q.id = NoAgent
           /\ q.at = "claim" /\ q.srv = sv /\ q.kind = "claim" /\ q.good = (conn[sv] = None)
    BY <1>4, UnlockBegins
  <2>2. Active' = Active \cup {r} /\ \A x \in Active : ~rq'[x].alone
    BY <2>1, Begun, DisturbedFacts
  <2>3. rq'[r].alone => \A x \in Active' : x = r
    BY <2>1, <2>2, Begun
  <2>4. FindsOwn(r)'
    BY <1>4, <2>1, Begun DEF FindsOwn, Unlock, tables
  <2>5. QED
    BY <2>2, <2>3, <2>4
<1>5. ASSUME NEW r \in Requests, Check(r)
      PROVE  AloneInv'
  <2>1. r \in Active /\ \A x \in Active : rq[x].alone => x = r
    BY <1>5, CheckMoves, AloneOthers
  <2>2. CASE Leaves(r)
    BY <2>1, <2>2 DEF Leaves, Others
  <2>3. CASE ~Leaves(r)
    <3>1. Keeps(r)
      BY <1>5, <2>3, CheckMoves DEF Goes
    <3>2. ASSUME rq[r].alone PROVE FindsOwn(r)'
      BY <1>5, <2>3, <3>1, <3>2, CheckMoves DEF FindsOwn, Goes, Keeps
    <3>3. QED
      BY <2>1, <3>1, <3>2 DEF Keeps, Others
  <2>4. QED
    BY <2>2, <2>3
<1>6. ASSUME NEW r \in Requests, Create(r)
      PROVE  AloneInv'
  <2>1. r \in Active /\ \A x \in Active : rq[x].alone => x = r
    BY <1>6, CreateMoves, AloneOthers
  <2>2. CASE Leaves(r)
    BY <2>1, <2>2 DEF Leaves, Others
  <2>3. CASE ~Leaves(r)
    <3>1. Keeps(r)
      BY <1>6, <2>3, CreateMoves DEF Goes
    <3>2. ASSUME rq[r].alone PROVE FindsOwn(r)'
      BY <1>6, <2>3, <3>1, <3>2, CreateMoves DEF FindsOwn, Goes, Keeps
    <3>3. QED
      BY <2>1, <3>1, <3>2 DEF Keeps, Others
  <2>4. QED
    BY <2>2, <2>3
<1>7. ASSUME NEW r \in Requests, CreateNodes(r)
      PROVE  AloneInv'
  <2>1. r \in Active /\ \A x \in Active : rq[x].alone => x = r
    BY <1>7, CreateNodesMoves, AloneOthers
  <2>2. CASE Leaves(r)
    BY <2>1, <2>2 DEF Leaves, Others
  <2>3. CASE ~Leaves(r)
    <3>1. Keeps(r)
      BY <1>7, <2>3, CreateNodesMoves DEF Goes
    <3>2. ASSUME rq[r].alone PROVE FindsOwn(r)'
      BY <1>7, <2>3, <3>1, <3>2, CreateNodesMoves DEF FindsOwn, Goes, Keeps
    <3>3. QED
      BY <2>1, <3>1, <3>2 DEF Keeps, Others
  <2>4. QED
    BY <2>2, <2>3
<1>8. ASSUME NEW r \in Requests, Drop(r)
      PROVE  AloneInv'
  <2>1. r \in Active /\ Keeps(r) /\ \A x \in Active : rq[x].alone => x = r
    BY <1>8, DropMoves, AloneOthers DEF Goes
  <2>2. ASSUME rq[r].alone PROVE FindsOwn(r)'
    BY <1>8, <2>1, <2>2, DropMoves DEF FindsOwn, Goes, Keeps
  <2>3. QED
    BY <2>1, <2>2 DEF Keeps, Others
<1>9. ASSUME NEW r \in Requests, DropNodes(r)
      PROVE  AloneInv'
  <2>1. r \in Active /\ Leaves(r)
    BY <1>9, LeaveMoves
  <2>2. \A x \in Active' : x \in Active /\ ~rq'[x].alone
    BY <2>1, AloneOthers DEF Leaves, Others
  <2>3. QED
    BY <2>2
<1>10. ASSUME NEW r \in Requests, Render(r)
      PROVE  AloneInv'
  <2>1. r \in Active /\ Keeps(r) /\ \A x \in Active : rq[x].alone => x = r
    BY <1>10, RenderMoves, AloneOthers
  <2>2. ASSUME rq[r].alone PROVE FindsOwn(r)'
    <3>1. UNCHANGED <<conn, nodes, access>>
      BY <1>10 DEF Render, tables
    <3>2. rq[r].kind \in OpKinds /\ rq[r].at = "render"
      BY <1>10, <2>1, RenderMoves
    <3>3. rq[r].kind = "up" => rq[r].id.node = nodes[rq[r].srv]
      BY <2>1, <2>2, <3>2 DEF FindsOwn
    <3>4. rq'[r].at = "busy" /\ rq'[r].id = Rendered(rq[r].srv, rq[r].id.node)
      BY <1>10, RenderMoves
    <3>5. QED
      BY <2>1, <3>1, <3>2, <3>3, <3>4 DEF FindsOwn, Keeps, Rendered
  <2>3. QED
    BY <2>1, <2>2 DEF Keeps, Others
<1>11. ASSUME NEW r \in Requests, Succeed(r)
      PROVE  AloneInv'
  <2>1. r \in Active /\ Keeps(r) /\ \A x \in Active : rq[x].alone => x = r
    BY <1>11, SucceedMoves, AloneOthers DEF Goes
  <2>2. ASSUME rq[r].alone PROVE FindsOwn(r)'
    <3>1. UNCHANGED <<conn, nodes, access>>
      BY <1>11 DEF Succeed, tables
    <3>2. rq[r].kind = "up" => rq[r].id = Rendered(rq[r].srv, nodes[rq[r].srv])
      BY <1>11, <2>1, <2>2, SucceedMoves DEF FindsOwn
    <3>3. /\ bucket'.state
          /\ rq[r].kind = "up" => deployed'.id = rq[r].id /\ deployed'.cfg = rq[r].cfg
      BY <1>11, <2>1 DEF Succeed, Types
    <3>4. /\ rq'[r].kind = rq[r].kind /\ rq'[r].srv = rq[r].srv /\ rq'[r].cfg = rq[r].cfg
          /\ rq'[r].id = rq[r].id /\ rq'[r].at = "sync" /\ rq[r].at = "busy"
          /\ rq[r].kind \in OpKinds
      BY <1>11, <2>1, SucceedMoves DEF Goes, Keeps
    <3>5. QED
      BY <3>1, <3>2, <3>3, <3>4 DEF FindsOwn, Rendered
  <2>3. QED
    BY <2>1, <2>2 DEF Keeps, Others
<1>12. ASSUME NEW r \in Requests, Fail(r)
      PROVE  AloneInv'
  <2>1. r \in Active /\ Leaves(r)
    BY <1>12, LeaveMoves
  <2>2. \A x \in Active' : x \in Active /\ ~rq'[x].alone
    BY <2>1, AloneOthers DEF Leaves, Others
  <2>3. QED
    BY <2>2
<1>13. ASSUME NEW r \in Requests, Sync(r)
      PROVE  AloneInv'
  <2>1. r \in Active /\ rq[r].at = "sync" /\ \A x \in Active : rq[x].alone => x = r
    BY <1>13, SyncMoves, AloneOthers
  <2>2. CASE Leaves(r)
    BY <2>1, <2>2 DEF Leaves, Others
  <2>3. CASE ~Leaves(r)
    <3>1. /\ Keeps(r) /\ rq'[r].at = "mesh" /\ conn[rq[r].srv] # None
          /\ rq'[r].id = Identity(conn[rq[r].srv], None)
          /\ rq'[r].good = (uploads = {})
      BY <1>13, <2>3, SyncMoves
    <3>2. ASSUME rq[r].alone PROVE FindsOwn(r)'
      <4>1. UNCHANGED <<conn, nodes, access, bucket, deployed>>
        BY <1>13 DEF Sync, tables
      <4>2. rq[r].kind = "up" => /\ deployed.id = Rendered(rq[r].srv, nodes[rq[r].srv])
                                 /\ deployed.cfg = rq[r].cfg /\ bucket.state
        BY <2>1, <3>2 DEF FindsOwn
      <4>3. rq'[r].id.ca = conn[rq[r].srv]
        BY <3>1 DEF Identity
      <4>4. rq[r].kind = "up" /\ rq'[r].good => Sent(r)'
        <5>1. uploads' = uploads \cup Configuration(r)
          BY <1>13 DEF Sync
        <5>2. rq[r].kind = "up" => Configuration(r) = {Yaml(rq[r].srv, rq[r].cfg)}
          BY DEF Configuration
        <5>3. QED
          BY <3>1, <5>1, <5>2 DEF Sent, Keeps, Yaml
      <4>5. rq'[r].kind = rq[r].kind /\ rq'[r].srv = rq[r].srv /\ rq'[r].cfg = rq[r].cfg
        BY <3>1 DEF Keeps
      <4>6. rq[r].kind # "claim"
        BY <2>1
      <4>7. QED
        BY <3>1, <4>1, <4>2, <4>3, <4>4, <4>5 DEF FindsOwn, Rendered
    <3>3. QED
      BY <2>1, <3>1, <3>2 DEF Keeps, Others
  <2>4. QED
    BY <2>2, <2>3
<1>14. ASSUME NEW r \in Requests, Claim(r)
      PROVE  AloneInv'
  <2>1. r \in Active /\ Keeps(r) /\ \A x \in Active : rq[x].alone => x = r
    BY <1>14, ClaimMoves, AloneOthers DEF Goes
  <2>2. ASSUME rq[r].alone PROVE FindsOwn(r)'
    BY <1>14, <2>1, <2>2, ClaimMoves DEF FindsOwn, Goes, Keeps
  <2>3. QED
    BY <2>1, <2>2 DEF Keeps, Others
<1>15. ASSUME NEW r \in Requests, Fetch(r)
      PROVE  AloneInv'
  <2>1. r \in Active /\ \A x \in Active : rq[x].alone => x = r
    BY <1>15, FetchMoves, AloneOthers
  <2>2. CASE Leaves(r)
    BY <2>1, <2>2 DEF Leaves, Others
  <2>3. CASE ~Leaves(r)
    <3>1. Keeps(r)
      BY <1>15, <2>3, FetchMoves DEF Goes
    <3>2. ASSUME rq[r].alone PROVE FindsOwn(r)'
      <4>1. /\ rq'[r].at = "import" /\ rq'[r].id = bucket.mesh
            /\ rq'[r].good = (rq[r].good /\ healed /\ uploads = {})
            /\ rq[r].at = "fetch" /\ UNCHANGED conn
        BY <1>15, <2>3, FetchMoves
      <4>2. UNCHANGED <<deployed, healed>>
        BY <1>15 DEF Fetch
      <4>3. rq[r].good => conn[rq[r].srv] = None
        BY <2>1, <3>2, <4>1 DEF FindsOwn
      <4>4. healed /\ uploads = {} /\ deployed.id # NoAgent => bucket.mesh.ca = deployed.id.ca
        BY DEF HealInv, Fits
      <4>5. QED
        BY <3>1, <4>1, <4>2, <4>3, <4>4 DEF FindsOwn, Keeps
    <3>3. QED
      BY <2>1, <3>1, <3>2 DEF Keeps, Others
  <2>4. QED
    BY <2>2, <2>3
<1>16. ASSUME NEW r \in Requests, FetchFails(r)
      PROVE  AloneInv'
  <2>1. r \in Active /\ Leaves(r)
    BY <1>16, LeaveMoves
  <2>2. \A x \in Active' : x \in Active /\ ~rq'[x].alone
    BY <2>1, AloneOthers DEF Leaves, Others
  <2>3. QED
    BY <2>2
<1>17. ASSUME NEW r \in Requests, Import(r)
      PROVE  AloneInv'
  <2>1. r \in Active /\ \A x \in Active : rq[x].alone => x = r
    BY <1>17, ImportMoves, AloneOthers
  <2>2. CASE Leaves(r)
    BY <2>1, <2>2 DEF Leaves, Others
  <2>3. CASE ~Leaves(r)
    <3>1. Keeps(r)
      BY <1>17, <2>3, ImportMoves DEF Goes
    <3>2. ASSUME rq[r].alone PROVE FindsOwn(r)'
      BY <1>17, <2>3, <3>1, <3>2, ImportMoves DEF FindsOwn, Goes, Keeps
    <3>3. QED
      BY <2>1, <3>1, <3>2 DEF Keeps, Others
  <2>4. QED
    BY <2>2, <2>3
<1>18. ASSUME NEW r \in Requests, ImportNodes(r)
      PROVE  AloneInv'
  <2>1. r \in Active /\ Leaves(r)
    BY <1>18, LeaveMoves
  <2>2. \A x \in Active' : x \in Active /\ ~rq'[x].alone
    BY <2>1, AloneOthers DEF Leaves, Others
  <2>3. QED
    BY <2>2
<1>19. ASSUME NEW u \in uploads, Deliver(u)
      PROVE  AloneInv'
  <2>1. /\ \A x \in Active' : x \in Active /\ rq'[x] = rq[x]
        /\ UNCHANGED <<conn, nodes, access, deployed>>
        /\ bucket'.state = bucket.state /\ (healed' => healed)
    BY <1>19 DEF Deliver, DeliverConfig, DeliverMesh, tables, Active, Types
  <2>2. ASSUME NEW x \in Active', Sent(x) PROVE Sent(x)'
    <3>1. u = Yaml(rq[x].srv, rq[x].cfg) /\ u.what = "yaml" /\ u.cfg = rq[x].cfg
      BY <2>2 DEF Sent, Yaml
    <3>2. bucket'.yaml = rq[x].cfg /\ uploads' \subseteq uploads
      BY <1>19, <3>1 DEF Deliver, DeliverConfig, DeliverMesh, Types
    <3>3. QED
      BY <2>1, <2>2, <3>2 DEF Sent
  <2>3. \A x \in Active' : rq'[x].alone => FindsOwn(x)'
    BY <2>1, <2>2, FindsStill
  <2>4. QED
    BY <2>1, <2>3
<1>20. ASSUME NEW u \in uploads, Lose(u)
      PROVE  AloneInv'
  BY <1>20, LoseMoves, DisturbedFacts
<1>21. ASSUME NEW sv \in Servers, Crash(sv)
      PROVE  AloneInv'
  <2>1. /\ \A x \in Active' : x \in Active /\ x \notin On(sv) /\ rq'[x] = rq[x]
        /\ UNCHANGED <<conn, nodes, access, deployed, bucket>> /\ (healed' => healed)
    BY <1>21, CrashMoves DEF Crash, tables
  <2>2. ASSUME NEW x \in Active', Sent(x) PROVE Sent(x)'
    <3>1. rq[x].srv # sv /\ Yaml(rq[x].srv, rq[x].cfg).srv = rq[x].srv
      BY <2>1 DEF On, Yaml
    <3>2. uploads' = {u \in uploads : u.srv # sv}
      BY <1>21 DEF Crash
    <3>3. QED
      BY <2>1, <2>2, <3>1, <3>2 DEF Sent
  <2>3. \A x \in Active' : rq'[x].alone => FindsOwn(x)'
    BY <2>1, <2>2, FindsStill
  <2>4. QED
    BY <2>1, <2>3
<1>22. ASSUME DeleteRemote
      PROVE  AloneInv'
  BY <1>22, DeleteRemoteMoves, DisturbedFacts
<1>23. CASE UNCHANGED vars
  <2>1. /\ \A x \in Active' : x \in Active /\ rq'[x] = rq[x]
        /\ UNCHANGED <<conn, nodes, access, deployed, bucket, uploads>> /\ (healed' => healed)
    BY <1>23 DEF vars, tables, Active
  <2>2. \A x \in Active' : Sent(x) => Sent(x)'
    BY <2>1 DEF Sent
  <2>3. \A x \in Active' : rq'[x].alone => FindsOwn(x)'
    BY SMTT(30), <2>1, <2>2, FindsStill
  <2>4. QED
    BY <2>1, <2>3
<1>24. ASSUME NEW r \in Requests, ReadNodes(r)
      PROVE  AloneInv'
  <2>1. /\ r \in Active /\ Keeps(r) /\ UNCHANGED nodes
        /\ \A x \in Active : rq[x].alone => x = r
    BY <1>24, ReadNodesMoves, AloneOthers
  <2>2. rq[r].kind \in OpKinds /\ rq'[r].at = "render" /\ rq'[r].id.node = nodes[rq[r].srv]
    <3>1. rq[r].at = "run" /\ rq'[r].at = "render" /\ rq'[r].id = Identity(None, nodes[rq[r].srv])
      BY <1>24, ReadNodesMoves, Zenon
    <3>2. QED
      BY <2>1, <3>1 DEF Identity
  <2>3. FindsOwn(r)'
    BY <2>1, <2>2 DEF FindsOwn, Keeps
  <2>4. QED
    BY <2>1, <2>3 DEF Keeps, Others
<1>25. ASSUME NEW r \in Requests, SyncMesh(r)
      PROVE  AloneInv'
  <2>1. r \in Active /\ Leaves(r)
    BY <1>25, LeaveMoves
  <2>2. \A x \in Active' : x \in Active /\ ~rq'[x].alone
    BY <2>1, AloneOthers DEF Leaves, Others
  <2>3. QED
    BY <2>2
<1>26. QED
  BY <1>1, <1>2, <1>3, <1>4, <1>5, <1>6, <1>7, <1>8, <1>9, <1>10, <1>11,
     <1>12, <1>13, <1>14, <1>15, <1>16, <1>17, <1>18, <1>19, <1>20, <1>21,
     <1>22, <1>23, <1>24, <1>25 DEF Next, RequestStep

\* Only an undisturbed up heals; every request but a claim ends it.
LEMMA HealStep == Types /\ PlaceInv /\ AloneInv /\ HealInv /\ [Next]_vars => HealInv'
<1> SUFFICES ASSUME Types, PlaceInv, AloneInv, HealInv, [Next]_vars PROVE HealInv'
  OBVIOUS
<1> USE DEF PlaceInv, HealInv, Fits, OpKinds
<1>1. ASSUME NEW r \in Requests, NEW sv \in Servers, NEW k \in Kinds, Put(r, sv, k)
      PROVE  HealInv'
  <2>1. PICK q \in AllRequests :
           /\ Begin(r, q) /\ q.num = begun + 1 /\ q.id = NoAgent
           /\ q.at = "check" /\ q.srv = sv /\ q.kind \in {"put", "put_off"} /\ ~q.good
    BY <1>1, PutBegins
  <2>2. ~healed'
    BY <2>1, Begun
  <2>3. QED
    BY <2>2
<1>2. ASSUME NEW r \in Requests, NEW sv \in Servers, NEW k \in Kinds, Operate(r, sv, k)
      PROVE  HealInv'
  <2>1. PICK q \in AllRequests :
           /\ Begin(r, q) /\ q.num = begun + 1 /\ q.id = NoAgent
           /\ q.at = "check" /\ q.srv = sv /\ q.kind \in OpKinds /\ ~q.good
    BY <1>2, OperateBegins
  <2>2. ~healed'
    BY <2>1, Begun
  <2>3. QED
    BY <2>2
<1>3. ASSUME NEW r \in Requests, NEW sv \in Servers, DeleteStack(r, sv)
      PROVE  HealInv'
  <2>1. PICK q \in AllRequests :
           /\ Begin(r, q) /\ q.num = begun + 1 /\ q.id = NoAgent
           /\ q.at = "drop" /\ q.srv = sv /\ q.kind = "delete" /\ ~q.good
           /\ Calm(r, Removing \cup Creating \cup Reading)
    BY <1>3, DeleteBegins
  <2>2. ~healed'
    BY <2>1, Begun
  <2>3. QED
    BY <2>2
<1>4. ASSUME NEW r \in Requests, NEW sv \in Servers, Unlock(r, sv)
      PROVE  HealInv'
  <2>1. PICK q \in AllRequests :
           /\ Begin(r, q) /\ q.num = begun + 1 /\ q.id = NoAgent
           /\ q.at = "claim" /\ q.srv = sv /\ q.kind = "claim" /\ q.good = (conn[sv] = None)
    BY <1>4, UnlockBegins
  <2>2. UNCHANGED <<uploads, bucket, deployed>>
    BY <1>4 DEF Unlock
  <2>3. \A x \in Active' : x = r \/ (rq'[x].kind = rq[x].kind /\ x \in Active)
    BY <2>1, Begun, DisturbedFacts
  <2>4. rq'[r].kind = "claim"
    BY <2>1, Begun
  <2>5. healed' => healed
    BY <1>4 DEF Unlock, Begin
  <2>6. QED
    BY <2>2, <2>3, <2>4, <2>5
<1>5. ASSUME NEW r \in Requests, Check(r)
      PROVE  HealInv'
  <2>1. UNCHANGED <<uploads, bucket, deployed, healed>>
    BY <1>5 DEF Check, tables
  <2>2. QED
    BY <1>5, <2>1, CheckMoves DEF Goes, Keeps, Leaves, Others
<1>6. ASSUME NEW r \in Requests, Create(r)
      PROVE  HealInv'
  <2>1. UNCHANGED <<uploads, bucket, deployed, healed>>
    BY <1>6 DEF Create, tables
  <2>2. QED
    BY <1>6, <2>1, CreateMoves DEF Goes, Keeps, Leaves, Others
<1>7. ASSUME NEW r \in Requests, CreateNodes(r)
      PROVE  HealInv'
  <2>1. UNCHANGED <<uploads, bucket, deployed, healed>>
    BY <1>7 DEF CreateNodes, tables
  <2>2. QED
    BY <1>7, <2>1, CreateNodesMoves DEF Goes, Keeps, Leaves, Others
<1>8. ASSUME NEW r \in Requests, Drop(r)
      PROVE  HealInv'
  <2>1. UNCHANGED <<uploads, bucket, deployed, healed>>
    BY <1>8 DEF Drop, tables
  <2>2. QED
    BY <1>8, <2>1, DropMoves DEF Goes, Keeps, Others
<1>9. ASSUME NEW r \in Requests, DropNodes(r)
      PROVE  HealInv'
  <2>1. UNCHANGED <<uploads, bucket, deployed, healed>>
    BY <1>9 DEF DropNodes, tables
  <2>2. QED
    BY <1>9, <2>1, LeaveMoves DEF Leaves, Others
<1>10. ASSUME NEW r \in Requests, Render(r)
      PROVE  HealInv'
  <2>1. UNCHANGED <<uploads, bucket, deployed, healed>>
    BY <1>10 DEF Render, tables
  <2>2. QED
    BY <1>10, <2>1, RenderMoves DEF Goes, Keeps, Leaves, Others
<1>11. ASSUME NEW r \in Requests, Succeed(r)
      PROVE  HealInv'
  <2>1. ~healed'
    BY <1>11, SucceedMoves DEF Succeed
  <2>2. QED
    BY <2>1
<1>12. ASSUME NEW r \in Requests, Fail(r)
      PROVE  HealInv'
  <2>1. UNCHANGED <<uploads, bucket, deployed, healed>>
    BY <1>12 DEF Fail, tables
  <2>2. QED
    BY <1>12, <2>1, LeaveMoves DEF Leaves, Others
<1>13. ASSUME NEW r \in Requests, Sync(r)
      PROVE  HealInv'
  <2> SUFFICES ASSUME healed' PROVE HealInv'
    OBVIOUS
  <2>1. r \in Active /\ rq[r].at = "sync" /\ UNCHANGED <<bucket, deployed>>
    BY <1>13, SyncMoves DEF Sync
  <2>2. conn[rq[r].srv] = None
    <3>1. healed => rq[r].kind = "claim"
      BY <2>1
    <3>2. QED
      BY <1>13, <2>1, <3>1, SyncMoves
  <2>3. rq[r].kind = "up" /\ rq[r].alone /\ uploads = {} /\ Leaves(r)
    BY <1>13, <2>1, <2>2, SyncMoves DEF Sync
  <2>4. Active' = {} /\ FindsOwn(r)
    BY <2>1, <2>3 DEF AloneInv, Leaves
  <2>5. deployed.id = NoAgent /\ deployed.cfg = rq[r].cfg /\ bucket.state
    BY <2>1, <2>2, <2>3, <2>4 DEF FindsOwn, Rendered
  <2>6. uploads' = {Yaml(rq[r].srv, rq[r].cfg)}
    BY <1>13, <2>3 DEF Sync, Configuration
  <2>7. QED
    BY <2>1, <2>4, <2>5, <2>6 DEF Yaml
<1>14. ASSUME NEW r \in Requests, Claim(r)
      PROVE  HealInv'
  <2>1. UNCHANGED <<uploads, bucket, deployed, healed>>
    BY <1>14 DEF Claim, tables
  <2>2. QED
    BY <1>14, <2>1, ClaimMoves DEF Goes, Keeps, Others
<1>15. ASSUME NEW r \in Requests, Fetch(r)
      PROVE  HealInv'
  <2>1. UNCHANGED <<uploads, bucket, deployed, healed>>
    BY <1>15 DEF Fetch, tables
  <2>2. QED
    BY <1>15, <2>1, FetchMoves DEF Goes, Keeps, Leaves, Others
<1>16. ASSUME NEW r \in Requests, FetchFails(r)
      PROVE  HealInv'
  <2>1. UNCHANGED <<uploads, bucket, deployed, healed>>
    BY <1>16 DEF FetchFails, tables
  <2>2. QED
    BY <1>16, <2>1, LeaveMoves DEF Leaves, Others
<1>17. ASSUME NEW r \in Requests, Import(r)
      PROVE  HealInv'
  <2>1. UNCHANGED <<uploads, bucket, deployed, healed>>
    BY <1>17 DEF Import, tables
  <2>2. QED
    BY <1>17, <2>1, ImportMoves DEF Goes, Keeps, Leaves, Others
<1>18. ASSUME NEW r \in Requests, ImportNodes(r)
      PROVE  HealInv'
  <2>1. UNCHANGED <<uploads, bucket, deployed, healed>>
    BY <1>18 DEF ImportNodes, tables
  <2>2. QED
    BY <1>18, <2>1, LeaveMoves DEF Leaves, Others
<1>19. ASSUME NEW u \in uploads, Deliver(u)
      PROVE  HealInv'
  <2>1. /\ rq' = rq /\ Active' = Active /\ UNCHANGED <<deployed, healed>>
        /\ uploads' = uploads \ {u}
    BY <1>19 DEF Deliver, Active
  <2>2. CASE u.what = "yaml" /\ bucket' = [bucket EXCEPT !.yaml = u.cfg]
    <3>1. bucket'.state = bucket.state /\ bucket'.mesh = bucket.mesh /\ bucket'.yaml = u.cfg
      BY <2>2 DEF Types
    <3>2. QED
      BY <2>1, <2>2, <3>1
  <2>3. CASE u.what = "mesh" /\ bucket' = [bucket EXCEPT !.mesh = u.id]
    <3>1. bucket'.state = bucket.state /\ bucket'.yaml = bucket.yaml /\ bucket'.mesh = u.id
      BY <2>3 DEF Types
    <3>2. QED
      BY <2>1, <2>3, <3>1
  <2>4. QED
    BY <1>19, <2>2, <2>3 DEF Deliver, DeliverConfig, DeliverMesh
<1>20. ASSUME NEW u \in uploads, Lose(u)
      PROVE  HealInv'
  BY <1>20 DEF Lose
<1>21. ASSUME NEW sv \in Servers, Crash(sv)
      PROVE  HealInv'
  BY <1>21 DEF Crash
<1>22. ASSUME DeleteRemote
      PROVE  HealInv'
  BY <1>22 DEF DeleteRemote
<1>23. CASE UNCHANGED vars
  <2>1. Active' = Active
    BY <1>23 DEF vars, Active
  <2>2. QED
    BY <1>23, <2>1 DEF vars, tables
<1>24. ASSUME NEW r \in Requests, ReadNodes(r)
      PROVE  HealInv'
  <2>1. UNCHANGED <<uploads, bucket, deployed, healed>>
    BY <1>24 DEF ReadNodes, tables
  <2>2. QED
    BY <1>24, <2>1, ReadNodesMoves DEF Keeps, Others
<1>25. ASSUME NEW r \in Requests, SyncMesh(r)
      PROVE  HealInv'
  <2> SUFFICES ASSUME healed' PROVE HealInv'
    OBVIOUS
  <2>1. r \in Active /\ rq[r].at = "mesh" /\ Leaves(r) /\ UNCHANGED <<bucket, deployed>>
    BY <1>25, LeaveMoves DEF SyncMesh
  <2>2. rq[r].kind = "up" /\ rq[r].alone /\ rq[r].good
    BY <1>25 DEF SyncMesh, Healing
  <2>3. Active' = {} /\ FindsOwn(r)
    BY <2>1, <2>2 DEF AloneInv, Leaves
  <2>4. /\ deployed.id = Rendered(rq[r].srv, nodes[rq[r].srv])
        /\ deployed.cfg = rq[r].cfg /\ bucket.state /\ Sent(r)
        /\ conn[rq[r].srv] # None /\ rq[r].id.ca = conn[rq[r].srv]
    BY <2>1, <2>2, <2>3 DEF FindsOwn
  <2> DEFINE mesh == Mesh(rq[r].srv, Identity(rq[r].id.ca, nodes[rq[r].srv]))
  <2>5. uploads' = uploads \cup {mesh} /\ mesh.what = "mesh"
    BY <1>25 DEF SyncMesh, Mesh
  <2>6. /\ \A u \in uploads : u.what = "yaml" /\ u.cfg = deployed.cfg
        /\ bucket.yaml = deployed.cfg \/ \E u \in uploads : u.what = "yaml"
    BY <2>4 DEF Sent, Yaml
  <2>7. deployed.id # NoAgent => Fits(mesh.id)
    BY <2>4 DEF Rendered, Identity, Mesh
  <2>8. mesh \in uploads' /\ \A u \in uploads' : u \in uploads \/ u = mesh
    BY <2>5
  <2>9. \A u \in uploads : u \in uploads'
    BY <2>5
  <2> HIDE DEF mesh
  <2>10. QED
    BY <2>1, <2>3, <2>4, <2>5, <2>6, <2>7, <2>8, <2>9
<1>26. QED
  BY <1>1, <1>2, <1>3, <1>4, <1>5, <1>6, <1>7, <1>8, <1>9, <1>10, <1>11,
     <1>12, <1>13, <1>14, <1>15, <1>16, <1>17, <1>18, <1>19, <1>20, <1>21,
     <1>22, <1>23, <1>24, <1>25 DEF Next, RequestStep

THEOREM Inductive == Spec => []IInv
<1>1. Init => IInv
  <2> SUFFICES ASSUME Init PROVE IInv
    OBVIOUS
  <2> USE DEF Init, Active
  <2>1. Active = {} /\ uploads = {} /\ ~healed
    OBVIOUS
  <2>2. Types
    <3>1. begun \in Numbers /\ faults \in 0..MaxFaults
      BY ConstantsAssumption DEF Numbers
    <3>2. bucket \in [state : BOOLEAN, yaml : Numbers, mesh : Identities]
      BY NumberFacts
    <3>3. deployed \in [id : Identities, cfg : Numbers]
      BY NumberFacts
    <3>4. QED
      BY <3>1, <3>2, <3>3, NumberFacts DEF Types
  <2>3. Owns(NoAgent) /\ OneCA(None, None)
    BY DEF Owns, OneCA, NoAgent, Identity
  <2>4. MixInv
    BY <2>1, <2>3 DEF MixInv, RemovingAlone, BetweenTables, KeptTogether, OwnCopies
  <2>5. QED
    BY <2>1, <2>2, <2>4 DEF IInv, TypeOK, Exclusive, PlaceInv, AloneInv, HealInv
<1>2. IInv /\ [Next]_vars => IInv'
  <2> SUFFICES ASSUME IInv, [Next]_vars PROVE IInv'
    OBVIOUS
  <2>1. TypeOK'
    BY TypesStep, ExclusiveStep DEF IInv, TypeOK
  <2>2. MixInv'
    BY RemovingStep, BetweenStep, TogetherStep, CopiesStep DEF IInv, TypeOK, MixInv
  <2>3. PlaceInv' /\ AloneInv' /\ HealInv'
    BY PlaceStep, AloneStep, HealStep DEF IInv, TypeOK
  <2>4. QED
    BY <2>1, <2>2, <2>3 DEF IInv
<1>3. QED
  BY <1>1, <1>2, PTL DEF Spec

\* All data keeps its type, a server works on one operation at a time, and one
\* server at a time on the deployment (engine.go:129, Pulumi's lock).
THEOREM TypeCorrect == Spec => []TypeOK
<1>1. IInv => TypeOK
  BY DEF IInv
<1>2. QED
  BY <1>1, Inductive, PTL

\* Node certificates are never kept, uploaded or deployed with another CA than
\* their own, whichever saves, claims and operations race (stacks.go:199,
\* generateNebulaPKI, ensureNebulaPKI), unless removals were part of it.
THEOREM MixedNowhere == Spec => []NeverMixed
<1>1. IInv => NeverMixed
  <2> SUFFICES ASSUME IInv, ~torn PROVE NeverMixed
    BY DEF NeverMixed
  <2>1. ASSUME NEW sv \in Servers, conn[sv] # None PROVE OneCA(conn[sv], nodes[sv])
    BY <2>1 DEF IInv, MixInv, KeptTogether, BetweenTables
  <2>2. QED
    BY <2>1 DEF IInv, MixInv, OwnCopies, Owns, NeverMixed
<1>2. QED
  BY <1>1, Inductive, PTL

\* After an undisturbed up, whatever went wrong before, the bucket has the
\* configuration that was applied and the PKI that the agents trust.
THEOREM UpHeals == Spec => []HealedByUp
<1>1. IInv => HealedByUp
  BY DEF IInv, HealInv, Fits, HealedByUp
<1>2. QED
  BY <1>1, Inductive, PTL

\* A claim that is not disturbed, by a server that keeps no PKI of the name,
\* gives it the CA of the agents once an up has healed the bucket.
THEOREM InTouch == Spec => ClaimedInTouch
<1> DEFINE Touch ==
      \A r \in Active : rq[r].at = "import" /\ rq'[r].at # "import" /\ faults' = faults =>
          (rq[r].good /\ rq[r].alone /\ healed /\ ~torn /\ deployed.id # NoAgent =>
               conn'[rq[r].srv] = deployed.id.ca)
<1>1. IInv /\ [Next]_vars => [Touch]_vars
  <2> SUFFICES ASSUME IInv, [Next]_vars, NEW r \in Active, rq[r].at = "import",
                      rq'[r].at # "import", faults' = faults, rq[r].good, rq[r].alone,
                      healed, ~torn, deployed.id # NoAgent
               PROVE  conn'[rq[r].srv] = deployed.id.ca
    OBVIOUS
  <2>1. Types /\ FindsOwn(r) /\ \A x \in Active : x = r
    BY DEF IInv, TypeOK, AloneInv
  <2>2. conn[rq[r].srv] = None /\ rq[r].id.ca = deployed.id.ca
    BY <2>1 DEF FindsOwn
  <2>3. CASE Import(r)
    <3>1. conn' = [conn EXCEPT ![rq[r].srv] = rq[r].id.ca]
      BY <2>2, <2>3 DEF Import
    <3>2. QED
      BY <2>1, <2>2, <3>1, RequestFields, TableFields
  <2>4. CASE ~Import(r)
    <3>1. \A x \in Requests : ~Import(x) /\ (rq[x] # Free => x = r)
      BY <2>1, <2>4 DEF Import, Active
    <3>2. rq[r] \in AllRequests /\ r \in Requests /\ rq[r] # Free
      BY <2>1, RequestFields DEF Active
    <3>3. ASSUME NEW x \in Requests, NEW q, Begin(x, q) PROVE FALSE
      <4>1. x # r /\ rq'[r] = Disturbed(r)
        BY <3>2, <3>3 DEF Begin
      <4>2. QED
        BY <2>1, <4>1, DisturbedFacts
    <3>4. \A x \in Requests, sv \in Servers :
             /\ ~DeleteStack(x, sv) /\ ~Unlock(x, sv)
             /\ \A k \in Kinds : ~Put(x, sv, k) /\ ~Operate(x, sv, k)
      BY <3>3 DEF Put, Operate, DeleteStack, Unlock
    <3>5. ~DeleteRemote
      BY <2>1, DeleteRemoteMoves, DisturbedFacts
    <3>6. ASSUME NEW x \in Requests PROVE ~RequestStep(x)
      <4>1. rq[x] = Free \/ rq[x].at = "import"
        BY <3>1
      <4>2. ~(Check(x) \/ Create(x) \/ CreateNodes(x) \/ Drop(x) \/ DropNodes(x))
        BY <4>1 DEF Check, Create, CreateNodes, Drop, DropNodes
      <4>3. ~(ReadNodes(x) \/ Render(x) \/ Succeed(x) \/ Fail(x) \/ Sync(x)
                \/ SyncMesh(x) \/ Claim(x))
        BY <4>1 DEF ReadNodes, Render, Succeed, Fail, Sync, SyncMesh, Claim
      <4>4. ~(Fetch(x) \/ FetchFails(x) \/ Import(x) \/ ImportNodes(x))
        BY <3>1, <4>1 DEF Fetch, FetchFails, ImportNodes
      <4>5. QED
        BY <3>4, <4>2, <4>3, <4>4 DEF RequestStep
    <3>7. ~(\E u \in uploads : Lose(u)) /\ ~(\E sv \in Servers : Crash(sv))
      BY <2>1 DEF Lose, Crash, Types
    <3>8. rq' = rq
      BY <3>5, <3>6, <3>7 DEF Next, Deliver, vars
    <3>9. QED
      BY <3>8
  <2>5. QED
    BY <2>3, <2>4
<1>2. QED
  BY <1>1, Inductive, PTL DEF ClaimedInTouch, Spec
==============================================================================
