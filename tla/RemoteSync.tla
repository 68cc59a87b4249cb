----------------------------- MODULE RemoteSync -----------------------------
(***************************************************************************)
(* One stack, managed by several servers that share an S3 bucket: the one  *)
(* that created it uploads its configuration and Nebula PKI (PutStack,     *)
(* runOperation), others discover and claim it and download both           *)
(* (DiscoverRemoteStacks, UnlockRemoteStack, PutStack with claim).         *)
(*                                                                         *)
(* A PKI is a number, of the order in which the CAs were generated; node   *)
(* certificates are known by the CA that signed them.  Uploads run in      *)
(* goroutines of their own: they arrive in any order, or never.            *)
(***************************************************************************)
EXTENDS Naturals

CONSTANTS
    Servers,
    Creators,       \* the servers on which the stack may be created
    Requests,       \* how many requests may be under way
    Kinds,          \* of requests, a subset of AllKinds
    MaxRequests,    \* bound: requests begun
    MaxFaults       \* bound: lost uploads, failed downloads, crashes

AllKinds == {"put", "put_off", "delete", "claim", "up", "refresh", "destroy"}
OpKinds == {"up", "refresh", "destroy"}

ASSUME ConstantsAssumption ==
    /\ Creators \subseteq Servers /\ Kinds \subseteq AllKinds
    /\ MaxRequests \in Nat /\ MaxFaults \in Nat

\* 0 is no PKI, and no configuration.
None == 0
Numbers == 0..MaxRequests
Identity(ca, node) == [ca |-> ca, node |-> node]
Identities == [ca : Numbers, node : Numbers]
NoAgent == Identity(None, None)

VARIABLES
    rows,       \* servers whose stacks table has the stack
    cfg,        \* the configuration in that row
    access,     \* servers whose blueprint of the stack has agent access
    conn,       \* stack_connections: the CA
    nodes,      \* stack_node_certs: the CA that signed them
    bucket,     \* S3: is there a state, the configuration, the PKI
    deployed,   \* the agents' PKI, and the configuration applied
    rq,         \* requests
    uploads,    \* goroutines of syncConfigToS3 and syncMeshToS3
    begun,      \* requests so far, numbering configurations and PKIs
    torn,       \* a removal of a PKI was cut off, or overlapped its creation
                \* or its reading
    healed,     \* an undisturbed up has succeeded, nothing has changed since
    faults

tables == <<rows, cfg, access, conn, nodes>>
vars == <<tables, bucket, deployed, rq, uploads, begun, torn, healed, faults>>

Request(at, srv, kind, n) ==
    [at |-> at, srv |-> srv, kind |-> kind, num |-> n, cfg |-> None,
     id |-> NoAgent, alone |-> FALSE, good |-> FALSE]
Free == [at |-> "free"]
AllRequests ==
    [at : {"check", "create", "nodes", "run", "render", "busy", "sync", "mesh",
           "fetch", "claim", "import", "importnodes", "drop", "dropnodes"},
     srv : Servers, kind : AllKinds, num : Numbers, cfg : Numbers,
     id : Identities, alone : BOOLEAN, good : BOOLEAN]
Yaml(sv, c) == [srv |-> sv, what |-> "yaml", cfg |-> c, id |-> NoAgent]
Mesh(sv, i) == [srv |-> sv, what |-> "mesh", cfg |-> None, id |-> i]

Uploads == [srv : Servers, what : {"yaml", "mesh"}, cfg : Numbers, id : Identities]

Active == {r \in Requests : rq[r] # Free}
On(sv) == {r \in Active : rq[r].srv = sv}
At(sv, places) == {r \in On(sv) : rq[r].at \in places}
RunningOps(sv) == {r \in On(sv) : rq[r].kind \in OpKinds}
Removing == {"drop", "dropnodes"}
Creating == {"create", "nodes", "import", "importnodes"}
Reading == {"render", "mesh"}

Types ==
    /\ rows \subseteq Servers /\ access \subseteq Servers
    /\ cfg \in [Servers -> Numbers]
    /\ conn \in [Servers -> Numbers] /\ nodes \in [Servers -> Numbers]
    /\ bucket \in [state : BOOLEAN, yaml : Numbers, mesh : Identities]
    /\ deployed \in [id : Identities, cfg : Numbers]
    /\ rq \in [Requests -> AllRequests \cup {Free}]
    /\ uploads \subseteq Uploads
    /\ begun \in Numbers /\ torn \in BOOLEAN /\ healed \in BOOLEAN
    /\ faults \in 0..MaxFaults

\* One operation on a server, and one on the stack.
Exclusive ==
    \A r, x \in Active :
        \/ rq[r].srv = rq[x].srv /\ {rq[r].kind, rq[x].kind} \subseteq OpKinds
        \/ rq[r].at = "busy" /\ rq[x].at = "busy"
        => r = x

TypeOK == Types /\ Exclusive

Init ==
    /\ rows = {} /\ access = {} /\ cfg = [sv \in Servers |-> None]
    /\ conn = [sv \in Servers |-> None] /\ nodes = [sv \in Servers |-> None]
    /\ bucket = [state |-> FALSE, yaml |-> None, mesh |-> NoAgent]
    /\ deployed = [id |-> NoAgent, cfg |-> None]
    /\ rq = [r \in Requests |-> Free] /\ uploads = {}
    /\ begun = 0 /\ torn = FALSE /\ healed = FALSE /\ faults = 0

----------------------------------------------------------------------------
\* A request that begins disturbs those under way; only a claim leaves what
\* an operation uploaded as it is.
Disturbed(r) == IF r \in Active THEN [rq[r] EXCEPT !.alone = FALSE] ELSE Free
Begin(r, request) ==
    /\ rq[r] = Free /\ begun < MaxRequests /\ request.kind \in Kinds
    /\ begun' = begun + 1
    /\ rq' = [x \in Requests |->
                IF x = r THEN [request EXCEPT !.alone = (Active = {})]
                ELSE Disturbed(x)]
    /\ healed' = (healed /\ request.kind = "claim")

\* A request goes to its next place, or is answered.
Step(r, request) == rq' = [rq EXCEPT ![r] = request]
Goto(r, place) == Step(r, [rq[r] EXCEPT !.at = place])
Answer(r) == Step(r, Free)
GotoPKI(r, place, others) ==
    /\ Goto(r, place)
    /\ torn' = (torn \/ At(rq[r].srv, others) \ {r} # {})

\* PutStack: the row and the upload of its configuration come first.
Put(r, sv, kind) ==
    /\ kind \in {"put", "put_off"} /\ sv \in Creators \cup rows
    /\ Begin(r, Request("check", sv, kind, begun + 1))
    /\ rows' = rows \cup {sv} /\ cfg' = [cfg EXCEPT ![sv] = begun + 1]
    /\ access' = IF kind = "put" THEN access \cup {sv} ELSE access \ {sv}
    /\ uploads' = uploads \cup {Yaml(sv, begun + 1)}
    /\ UNCHANGED <<conn, nodes, bucket, deployed, torn, faults>>

\* runOperation reads the row; the engine admits one operation per server.
OperateUnlocked(r, sv, kind) ==
    /\ kind \in OpKinds /\ sv \in rows
    /\ Begin(r, [Request("check", sv, kind, begun + 1) EXCEPT !.cfg = cfg[sv]])
    /\ UNCHANGED <<tables, bucket, deployed, uploads, torn, faults>>
Operate(r, sv, kind) ==
    /\ kind \in OpKinds /\ sv \in rows /\ RunningOps(sv) = {}
    /\ Begin(r, [Request("check", sv, kind, begun + 1) EXCEPT !.cfg = cfg[sv]])
    /\ UNCHANGED <<tables, bucket, deployed, uploads, torn, faults>>

\* DeleteStack leaves everything in the bucket.
DeleteStack(r, sv) ==
    /\ sv \in rows /\ RunningOps(sv) = {}
    /\ Begin(r, Request("drop", sv, "delete", begun + 1))
    /\ rows' = rows \ {sv}
    /\ torn' = (torn \/ At(sv, Removing \cup Creating \cup Reading) # {})
    /\ UNCHANGED <<cfg, access, conn, nodes, bucket, deployed, uploads, faults>>

\* DiscoverRemoteStacks lists what has a state and is not known here.
Discoverable(sv) == bucket.state /\ sv \notin rows

\* UnlockRemoteStack decrypts the state and reads the configuration.  For the
\* history: is there no PKI here that a former stack of the name left behind?
Unlock(r, sv) ==
    /\ Discoverable(sv)
    /\ Begin(r, [Request("claim", sv, "claim", begun + 1) EXCEPT
                   !.cfg = bucket.yaml, !.good = (conn[sv] = None)])
    /\ UNCHANGED <<tables, bucket, deployed, uploads, torn, faults>>

\* DeleteRemoteStack takes the state and leaves configuration and PKI.
DeleteRemote ==
    /\ bucket.state /\ begun < MaxRequests /\ begun' = begun + 1
    /\ bucket' = [bucket EXCEPT !.state = FALSE] /\ healed' = FALSE
    /\ rq' = [r \in Requests |-> Disturbed(r)]
    /\ UNCHANGED <<tables, deployed, uploads, torn, faults>>

----------------------------------------------------------------------------
\* generateNebulaPKI of PutStack and, for every operation, of
\* ensureNebulaPKI: the CA in one table, the node certificates in another.
Check(r) ==
    LET sv == rq[r].srv IN
    /\ rq[r] # Free /\ rq[r].at = "check"
    /\ CASE sv \in access /\ conn[sv] = None /\ rq[r].kind # "put_off" ->
                GotoPKI(r, "create", Removing)
         [] rq[r].kind = "put_off" /\ conn[sv] # None ->
                GotoPKI(r, "drop", Removing \cup Creating \cup Reading)
         [] OTHER -> /\ IF rq[r].kind \in OpKinds THEN Goto(r, "run") ELSE Answer(r)
                     /\ UNCHANGED torn
    /\ UNCHANGED <<tables, bucket, deployed, uploads, begun, healed, faults>>

\* When a row of that name exists, PutStack fails and an operation goes on.
GiveUp(r) == IF rq[r].kind \in OpKinds THEN Goto(r, "run") ELSE Answer(r)
Create(r) ==
    LET sv == rq[r].srv IN
    /\ rq[r] # Free /\ rq[r].at = "create"
    /\ IF conn[sv] = None
       THEN conn' = [conn EXCEPT ![sv] = rq[r].num] /\ Goto(r, "nodes")
       ELSE GiveUp(r) /\ UNCHANGED conn
    /\ UNCHANGED <<rows, cfg, access, nodes, bucket, deployed, uploads, begun, torn,
                   healed, faults>>
CreateNodes(r) ==
    LET sv == rq[r].srv IN
    /\ rq[r] # Free /\ rq[r].at = "nodes"
    /\ IF nodes[sv] = None
       THEN /\ nodes' = [nodes EXCEPT ![sv] = rq[r].num]
            /\ Goto(r, IF rq[r].kind = "put" THEN "sync" ELSE "run")
       ELSE GiveUp(r) /\ UNCHANGED nodes
    /\ UNCHANGED <<rows, cfg, access, conn, bucket, deployed, uploads, begun, torn,
                   healed, faults>>

\* Agent access switched off, or the stack deleted: one table, the other.
Drop(r) ==
    /\ rq[r] # Free /\ rq[r].at = "drop" /\ Goto(r, "dropnodes")
    /\ conn' = [conn EXCEPT ![rq[r].srv] = None]
    /\ UNCHANGED <<rows, cfg, access, nodes, bucket, deployed, uploads, begun, torn,
                   healed, faults>>
DropNodes(r) ==
    /\ rq[r] # Free /\ rq[r].at = "dropnodes" /\ Answer(r)
    /\ nodes' = [nodes EXCEPT ![rq[r].srv] = None]
    /\ UNCHANGED <<rows, cfg, access, conn, bucket, deployed, uploads, begun, torn,
                   healed, faults>>

----------------------------------------------------------------------------
\* The operation reads the node certificates, then the connection, and
\* renders the agents' identity from the former or else from the latter.
\* Pulumi's lock in the bucket keeps servers apart.
ReadNodes(r) ==
    /\ rq[r] # Free /\ rq[r].at = "run"
    /\ Step(r, [rq[r] EXCEPT !.at = "render", !.id = Identity(None, nodes[rq[r].srv])])
    /\ torn' = (torn \/ At(rq[r].srv, Removing) # {})
    /\ UNCHANGED <<tables, bucket, deployed, uploads, begun, healed, faults>>
Rendered(sv, node) ==
    IF sv \notin access \/ conn[sv] = None THEN NoAgent
    ELSE Identity(conn[sv], IF node = None THEN conn[sv] ELSE node)
Render(r) ==
    /\ rq[r] # Free /\ rq[r].at = "render"
    /\ \A x \in Active : rq[x].at # "busy"
    /\ Step(r, [rq[r] EXCEPT !.at = "busy", !.id = Rendered(rq[r].srv, rq[r].id.node)])
    /\ UNCHANGED <<tables, bucket, deployed, uploads, begun, torn, healed, faults>>
Succeed(r) ==
    /\ rq[r] # Free /\ rq[r].at = "busy" /\ Goto(r, "sync")
    /\ bucket' = [bucket EXCEPT !.state = TRUE]
    /\ deployed' = CASE rq[r].kind = "up" -> [id |-> rq[r].id, cfg |-> rq[r].cfg]
                     [] rq[r].kind = "destroy" -> [id |-> NoAgent, cfg |-> None]
                     [] OTHER -> deployed
    /\ UNCHANGED <<tables, uploads, begun, torn, healed, faults>>
Fail(r) ==
    /\ rq[r] # Free /\ rq[r].at = "busy" /\ Answer(r)
    /\ UNCHANGED <<tables, bucket, deployed, uploads, begun, torn, healed, faults>>

\* PutStack uploads a PKI it has created; an operation that succeeded uploads
\* the configuration it began with, and the PKI there is now: the connection
\* is read first, then the node certificates.
Healing(r) == rq[r].kind = "up" /\ rq[r].alone /\ rq[r].good
Configuration(r) == IF rq[r].kind = "put" THEN {} ELSE {Yaml(rq[r].srv, rq[r].cfg)}
Sync(r) ==
    LET sv == rq[r].srv IN
    /\ rq[r] # Free /\ rq[r].at = "sync"
    /\ uploads' = uploads \cup Configuration(r)
    /\ IF conn[sv] = None
       THEN Answer(r) /\ healed' = (rq[r].kind = "up" /\ rq[r].alone /\ uploads = {})
                      /\ UNCHANGED torn
       ELSE /\ Step(r, [rq[r] EXCEPT !.at = "mesh", !.id = Identity(conn[sv], None),
                                     !.good = (uploads = {})])
            /\ torn' = (torn \/ At(sv, Removing) # {})
            /\ UNCHANGED healed
    /\ UNCHANGED <<tables, bucket, deployed, begun, faults>>
NotSent(r) ==
    /\ rq[r] # Free /\ rq[r].at = "mesh" /\ Answer(r)
    /\ healed' = Healing(r)
    /\ UNCHANGED <<tables, bucket, deployed, uploads, begun, torn, faults>>
SyncMesh(r) ==
    LET sv == rq[r].srv IN
    /\ rq[r] # Free /\ rq[r].at = "mesh" /\ Answer(r)
    /\ uploads' = uploads \cup {Mesh(sv, Identity(rq[r].id.ca, nodes[sv]))}
    /\ healed' = Healing(r)
    /\ UNCHANGED <<tables, bucket, deployed, begun, torn, faults>>

\* S3 answers a PUT, or it fails, which is only logged.
DeliverConfig(u) == u.what = "yaml" /\ bucket' = [bucket EXCEPT !.yaml = u.cfg]
DeliverMesh(u) == u.what = "mesh" /\ bucket' = [bucket EXCEPT !.mesh = u.id]
Deliver(u) ==
    /\ DeliverConfig(u) \/ DeliverMesh(u)
    /\ uploads' = uploads \ {u}
    /\ UNCHANGED <<tables, deployed, rq, begun, torn, healed, faults>>
Lose(u) ==
    /\ faults < MaxFaults /\ faults' = faults + 1
    /\ uploads' = uploads \ {u} /\ healed' = FALSE
    /\ rq' = [r \in Requests |-> Disturbed(r)]
    /\ UNCHANGED <<tables, bucket, deployed, begun, torn>>

----------------------------------------------------------------------------
\* PutStack with claim: the row, whatever blueprint this server has under the
\* name, with or without agent access; then the PKI is fetched from the
\* bucket, where it may be missing; the request may fail, which is only logged.
ClaimRow(r, sv) ==
    /\ rows' = rows \cup {sv} /\ cfg' = [cfg EXCEPT ![sv] = rq[r].cfg]
    /\ access' \in {access \cup {sv}, access \ {sv}}
ClaimCreating(r) ==
    LET sv == rq[r].srv IN
    /\ rq[r] # Free /\ rq[r].at = "claim" /\ Goto(r, "fetch")
    /\ ClaimRow(r, sv)
    /\ conn' = [conn EXCEPT ![sv] = IF @ = None THEN rq[r].num ELSE @]
    /\ UNCHANGED <<nodes, bucket, deployed, uploads, begun, torn, healed, faults>>
Claim(r) ==
    LET sv == rq[r].srv IN
    /\ rq[r] # Free /\ rq[r].at = "claim" /\ Goto(r, "fetch")
    /\ ClaimRow(r, sv)
    /\ UNCHANGED <<conn, nodes, bucket, deployed, uploads, begun, torn, healed, faults>>
Fetch(r) ==
    /\ rq[r] # Free /\ rq[r].at = "fetch"
    /\ IF bucket.mesh = NoAgent THEN Answer(r) /\ UNCHANGED torn
       ELSE /\ Step(r, [rq[r] EXCEPT !.at = "import", !.id = bucket.mesh,
                          !.good = @ /\ healed /\ uploads = {}])
            /\ torn' = (torn \/ At(rq[r].srv, Removing) # {})
    /\ UNCHANGED <<tables, bucket, deployed, uploads, begun, healed, faults>>
FetchFails(r) ==
    /\ rq[r] # Free /\ rq[r].at = "fetch" /\ Answer(r)
    /\ faults < MaxFaults /\ faults' = faults + 1
    /\ UNCHANGED <<tables, bucket, deployed, uploads, begun, torn, healed>>

\* The node certificates are stored only if the connection was.
ImportAnyway(r) ==
    LET sv == rq[r].srv IN
    /\ rq[r] # Free /\ rq[r].at = "import" /\ Goto(r, "importnodes")
    /\ conn' = [conn EXCEPT ![sv] = IF @ = None THEN rq[r].id.ca ELSE @]
    /\ UNCHANGED <<rows, cfg, access, nodes, bucket, deployed, uploads, begun, torn,
                   healed, faults>>
Import(r) ==
    LET sv == rq[r].srv IN
    /\ rq[r] # Free /\ rq[r].at = "import"
    /\ IF conn[sv] = None
       THEN conn' = [conn EXCEPT ![sv] = rq[r].id.ca] /\ Goto(r, "importnodes")
       ELSE Answer(r) /\ UNCHANGED conn
    /\ UNCHANGED <<rows, cfg, access, nodes, bucket, deployed, uploads, begun, torn,
                   healed, faults>>
ImportNodes(r) ==
    LET sv == rq[r].srv IN
    /\ rq[r] # Free /\ rq[r].at = "importnodes" /\ Answer(r)
    /\ nodes' = [nodes EXCEPT ![sv] = IF @ = None THEN rq[r].id.node ELSE @]
    /\ UNCHANGED <<rows, cfg, access, conn, bucket, deployed, uploads, begun, torn,
                   healed, faults>>

\* A restart ends the server's requests and uploads.
Crash(sv) ==
    /\ On(sv) # {} \/ \E u \in uploads : u.srv = sv
    /\ faults < MaxFaults /\ faults' = faults + 1
    /\ rq' = [r \in Requests |-> IF r \in On(sv) THEN Free ELSE rq[r]]
    /\ uploads' = {u \in uploads : u.srv # sv}
    /\ torn' = (torn \/ At(sv, Removing) # {}) /\ healed' = FALSE
    /\ UNCHANGED <<tables, bucket, deployed, begun>>

RequestStep(r) ==
    \/ \E sv \in Servers : \/ \E k \in Kinds : Put(r, sv, k) \/ Operate(r, sv, k)
                           \/ DeleteStack(r, sv) \/ Unlock(r, sv)
    \/ Check(r) \/ Create(r) \/ CreateNodes(r) \/ Drop(r) \/ DropNodes(r)
    \/ ReadNodes(r) \/ Render(r) \/ Succeed(r) \/ Fail(r) \/ Sync(r) \/ SyncMesh(r)
    \/ Claim(r) \/ Fetch(r) \/ FetchFails(r) \/ Import(r) \/ ImportNodes(r)

Next ==
    \/ \E r \in Requests : RequestStep(r)
    \/ \E u \in uploads : Deliver(u) \/ Lose(u)
    \/ \E sv \in Servers : Crash(sv)
    \/ DeleteRemote

Spec == Init /\ [][Next]_vars

----------------------------------------------------------------------------
OneCA(ca, node) == node \in {None, ca}

\* Node certificates are always of the CA they are kept with: on a server, in
\* the bucket and on the instances, however saves, claims and operations
\* race, unless a removal, which is not atomic either, is part of the race.
NeverMixed ==
    ~torn => /\ \A sv \in Servers : conn[sv] # None => OneCA(conn[sv], nodes[sv])
             /\ OneCA(bucket.mesh.ca, bucket.mesh.node)
             /\ OneCA(deployed.id.ca, deployed.id.node)

\* Whatever was lost, reordered or forgotten before, one undisturbed up puts
\* what the agents have and what was applied into the bucket (stacks.go:655).
HealedByUp ==
    healed /\ uploads = {} =>
        /\ bucket.state /\ bucket.yaml = deployed.cfg
        /\ deployed.id # NoAgent =>
              /\ bucket.mesh.ca = deployed.id.ca
              /\ deployed.id.node \in {bucket.mesh.node, bucket.mesh.ca}

\* Then a claim gives its server the CA that the agents trust (stacks.go:199),
\* unless the server has kept one of a former stack of the name.
ClaimedInTouch ==
    [][\A r \in Active : rq[r].at = "import" /\ rq'[r].at # "import" /\ faults' = faults =>
          (rq[r].good /\ rq[r].alone /\ healed /\ ~torn /\ deployed.id # NoAgent =>
               conn'[rq[r].srv] = deployed.id.ca)]_vars

\* A claim that could not fetch the PKI "still succeeds (just without mesh)"
\* (stacks.go:200): the bucket, once it has the agents' PKI, keeps it.
ClaimWithoutMesh ==
    [][deployed.id # NoAgent /\ bucket.mesh.ca = deployed.id.ca
          /\ bucket'.mesh # bucket.mesh => bucket'.mesh.ca = deployed'.id.ca]_vars
=============================================================================
