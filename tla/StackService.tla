---------------------------- MODULE StackService ----------------------------
(***************************************************************************)
(* The requests that share a stack with its operations: PutStack,          *)
(* GetStackInfo and DeleteStack (internal/api/stacks.go), and the parts of *)
(* an operation that write the same tables, generateNebulaPKI,             *)
(* discoverAgentAddress and the teardown after a destroy.  None of these   *)
(* requests takes the engine's lock; each runs step by step among the      *)
(* steps of StackEngine.                                                   *)
(*                                                                         *)
(* The blueprint of every stack has agent access, so that each stack has a *)
(* row in stack_connections and rows in stack_node_certs.                  *)
(***************************************************************************)
EXTENDS StackEngine, Sequences

CONSTANTS
    Readers,    \* GetStackInfo requests
    Removers,   \* DeleteStack requests
    Window      \* operations GetStackInfo reads, 20 in the code

ASSUME WindowAssumption == Window \in Nat \ {0}

VARIABLES
    row,        \* stacks with a row in the stacks table
    conn,       \* stack_connections: no row, no agent_real_ip, or one
    nodes,      \* stacks with an agent_real_ip in stack_node_certs
    log,        \* operation IDs in the order of their rows (started_at)
    reader,     \* the GetStackInfo requests
    remover     \* the DeleteStack requests

svars == <<row, conn, nodes, log, reader, remover>>
tables == <<row, conn, nodes, log>>

Idle == [at |-> "idle"]
ConnStates == {"none", "blank", "address"}

\* What a request has in its hands.  ended is a history field: the operations
\* of the stack that had come to their end when the read began.
Reads == [at : {"state", "conn", "clear", "nodes"}, stack : Stacks,
          deployed : BOOLEAN, counted : BOOLEAN, ended : SUBSET Ops]
Removals == [at : {"get", "row", "ops", "state", "conn", "nodes"},
             stack : Stacks, found : BOOLEAN]

SvcTypeOK ==
    /\ TypeOK
    /\ row \in SUBSET Stacks
    /\ conn \in [Stacks -> ConnStates]
    /\ nodes \in SUBSET Stacks
    /\ log \in Seq(Ops)
    /\ reader \in [Readers -> {Idle} \cup Reads]
    /\ remover \in [Removers -> {Idle} \cup Removals]

SvcInit ==
    /\ Init
    /\ row = {}
    /\ conn = [s \in Stacks |-> "none"]
    /\ nodes = {}
    /\ log = <<>>
    /\ reader = [r \in Readers |-> Idle]
    /\ remover = [d \in Removers |-> Idle]

----------------------------------------------------------------------------
\* Writes to stack_connections: an UPDATE does nothing without its row.
EnsurePKI(s) ==
    conn' = [conn EXCEPT ![s] = IF @ = "none" THEN "blank" ELSE @]
StoreAddress(s) ==
    conn' = [conn EXCEPT ![s] = IF @ = "none" THEN @ ELSE "address"]
ClearAgentConnection(s) ==
    conn' = [conn EXCEPT ![s] = IF @ = "none" THEN @ ELSE "blank"]

\* PutStack on a new name.
PutStack(s) ==
    /\ server = "up"
    /\ s \notin row
    /\ row' = row \cup {s}
    /\ EnsurePKI(s)
    /\ UNCHANGED <<vars, nodes, log, reader, remover>>

\* loadStackConfig finds the row, then the operation's row is created.
SvcBegin(o, s, k) ==
    /\ s \in row
    /\ Begin(o, s, k)
    /\ log' = Append(log, o)
    /\ UNCHANGED <<row, conn, nodes, reader, remover>>

\* resolveStack renders the program, which needs the mesh identity.
SvcResolve(o) ==
    /\ Resolve(o)
    /\ EnsurePKI(stk[o])
    /\ UNCHANGED <<row, nodes, log, reader, remover>>

\* The outputs name an address only if something is deployed, and cannot be
\* read under a cancelled context; the status does not depend on it.
SvcDiscover(o) ==
    /\ Discover(o)
    /\ \/ /\ infra[stk[o]] # "absent" /\ o \notin cancelled
          /\ StoreAddress(stk[o])
          /\ nodes' = nodes \cup {s \in {stk[o]} : conn[s] # "none"}
       \/ /\ infra[stk[o]] # "present" \/ o \in cancelled
          /\ UNCHANGED <<conn, nodes>>
    /\ UNCHANGED <<row, log, reader, remover>>

SvcTeardown(o) ==
    /\ Teardown(o)
    /\ ClearAgentConnection(stk[o])
    /\ UNCHANGED <<row, nodes, log, reader, remover>>

\* The steps of an operation that leave these tables alone.
SvcOther(o) ==
    /\ \/ TryLock(o) \/ Reject(o) \/ Register(o) \/ RecoverPending(o)
       \/ FailEarly(o) \/ Call(o) \/ Refused(o) \/ Checkpoint(o)
       \/ CallReturns(o) \/ Unregister(o) \/ Unlock(o) \/ Finish(o)
    /\ UNCHANGED svars

----------------------------------------------------------------------------
\* ListForStack, latest last: what the operations table says of a stack.
History(s) ==
    LET here == SelectSeq(log, LAMBDA o : stk[o] = s /\ record[o] # "absent")
        kept == SubSeq(here, Len(here) - (IF Len(here) < Window THEN Len(here)
                                          ELSE Window) + 1, Len(here))
    IN  [i \in DOMAIN kept |-> [id |-> kept[i], kind |-> kind[kept[i]],
                                status |-> record[kept[i]]]]

\* computeDeployedState: a successful up with no successful destroy after it.
Deployed(h) ==
    \E i \in DOMAIN h :
        /\ h[i].kind = "up" /\ h[i].status = "succeeded"
        /\ \A j \in i..Len(h) :
              ~(h[j].kind = "destroy" /\ h[j].status = "succeeded")

StatusOf(h) == IF h = <<>> THEN "not deployed" ELSE h[Len(h)].status
Ended(s) == {o \in Ops : stk[o] = s /\ pc[o] \in Over}

ReadHistory(r, s) ==
    /\ server = "up"
    /\ reader[r].at = "idle"
    /\ s \in row
    /\ LET h == History(s)
       IN  reader' = [reader EXCEPT ![r] =
              [at |-> IF StatusOf(h) \in {"succeeded", "failed"}
                      THEN "state" ELSE "conn",
               stack |-> s, deployed |-> Deployed(h), counted |-> FALSE,
               ended |-> Ended(s)]]
    /\ UNCHANGED <<vars, tables, remover>>

\* GetStackState: resources in the state mean "deployed", whatever the
\* history says.  It resolves the stack, and may fail.
ReadStateOnly(r) ==
    /\ reader[r].at = "state"
    /\ reader' = [reader EXCEPT ![r].at = "conn", ![r].counted = TRUE]
    /\ EnsurePKI(reader[r].stack)
    /\ UNCHANGED <<vars, row, nodes, log, remover>>

ReadState(r) ==
    /\ reader[r].at = "state"
    /\ \/ /\ reader' = [reader EXCEPT
                ![r].at = "conn",
                ![r].counted = TRUE,
                ![r].deployed = @ \/ infra[reader[r].stack] # "absent"]
          /\ EnsurePKI(reader[r].stack)
       \/ /\ reader' = [reader EXCEPT ![r].at = "conn"]
          /\ UNCHANGED conn
    /\ UNCHANGED <<vars, row, nodes, log, remover>>

\* The lazy clearing is a write of its own, after the row was read.
ReadConn(r) ==
    /\ reader[r].at = "conn"
    /\ reader' = [reader EXCEPT ![r].at =
          IF ~reader[r].deployed /\ conn[reader[r].stack] = "address"
          THEN "clear" ELSE "nodes"]
    /\ UNCHANGED <<vars, tables, remover>>

LazyClear(r) ==
    /\ reader[r].at = "clear"
    /\ reader' = [reader EXCEPT ![r].at = "nodes"]
    /\ ClearAgentConnection(reader[r].stack)
    /\ UNCHANGED <<vars, row, nodes, log, remover>>

\* The node addresses are read last, and the answer is sent.
ReadNodes(r) ==
    /\ reader[r].at = "nodes"
    /\ reader' = [reader EXCEPT ![r] = Idle]
    /\ UNCHANGED <<vars, tables, remover>>

GetStackInfo(r) == \/ \E s \in Stacks : ReadHistory(r, s)
           \/ ReadState(r) \/ ReadConn(r) \/ LazyClear(r)
           \/ ReadNodes(r)

----------------------------------------------------------------------------
\* DeleteStack: a check of IsRunning, then one statement after another.  An
\* error ends it before the row is deleted and is logged, if that, later on.
\* The stack's hooks go with its operations; they are AppDeployer's.
CheckIdle(d, s) ==
    /\ server = "up"
    /\ remover[d].at = "idle"
    /\ s \notin running
    /\ remover' = [remover EXCEPT ![d] =
                     [at |-> "get", stack |-> s, found |-> FALSE]]
    /\ UNCHANGED <<vars, tables, reader>>

RemoverGoes(d, from, to) ==
    /\ remover[d].at = from
    /\ remover' = [remover EXCEPT ![d] = IF to = "idle" THEN Idle
                                         ELSE [@ EXCEPT !.at = to]]

GetRow(d) ==
    /\ remover[d].at = "get"
    /\ remover' = [remover EXCEPT ![d] =
                     [@ EXCEPT !.at = "row", !.found = remover[d].stack \in row]]
    /\ UNCHANGED <<vars, tables, reader>>

DeleteRow(d) ==
    /\ RemoverGoes(d, "row", "ops")
    /\ row' = row \ {remover[d].stack}
    /\ UNCHANGED <<vars, conn, nodes, log, reader>>

GiveUp(d) ==
    /\ RemoverGoes(d, "get", "idle") \/ RemoverGoes(d, "row", "idle")
    /\ UNCHANGED <<vars, tables, reader>>

DeleteOps(d) ==
    /\ RemoverGoes(d, "ops", IF remover[d].found THEN "state" ELSE "conn")
    /\ \/ record' = [o \in Ops |-> IF stk[o] = remover[d].stack
                                   THEN "absent" ELSE record[o]]
       \/ UNCHANGED record
    /\ UNCHANGED <<server, engine, pc, request, cancelled, attempt, result,
                   cloud, tables, reader>>

\* When Pulumi's state goes, Pulumi knows of nothing, and what is in the cloud
\* is on its own.  The files are looked for in the local state directory and
\* under the blueprint's name, so there may be nothing to remove.
RemoveStackState(d) ==
    /\ RemoverGoes(d, "state", "conn")
    /\ \/ infra' = [infra EXCEPT ![remover[d].stack] = "absent"]
       \/ UNCHANGED infra
    /\ UNCHANGED <<server, engine, pc, request, cancelled, attempt, result,
                   record, last, tables, reader>>

DeleteConn(d) ==
    /\ RemoverGoes(d, "conn", "nodes")
    /\ \/ conn' = [conn EXCEPT ![remover[d].stack] = "none"]
       \/ UNCHANGED conn
    /\ UNCHANGED <<vars, row, nodes, log, reader>>

DeleteNodes(d) ==
    /\ RemoverGoes(d, "nodes", "idle")
    /\ nodes' \in {nodes \ {remover[d].stack}, nodes}
    /\ UNCHANGED <<vars, row, conn, log, reader>>

DeleteStack(d) == \/ \E s \in Stacks : CheckIdle(d, s)
             \/ GetRow(d) \/ DeleteRow(d) \/ GiveUp(d) \/ DeleteOps(d)
             \/ RemoveStackState(d) \/ DeleteConn(d) \/ DeleteNodes(d)

----------------------------------------------------------------------------
SvcCrash ==
    /\ Crash
    /\ reader' = [r \in Readers |-> Idle]
    /\ remover' = [d \in Removers |-> Idle]
    /\ UNCHANGED tables

SvcNext ==
    \/ \E s \in Stacks : PutStack(s)
    \/ \E o \in Ops, s \in Stacks, k \in Kinds : SvcBegin(o, s, k)
    \/ \E o \in Ops : \/ SvcResolve(o) \/ SvcDiscover(o) \/ SvcTeardown(o)
                      \/ SvcOther(o)
    \/ \E r \in Readers : GetStackInfo(r)
    \/ \E d \in Removers : DeleteStack(d)
    \/ (\E s \in Stacks : Cancel(s)) /\ UNCHANGED svars
    \/ Startup /\ UNCHANGED svars
    \/ SvcCrash

SvcSpec == SvcInit /\ [][SvcNext]_<<vars, svars>>

----------------------------------------------------------------------------
\* No operation of its stack was under way since the read began: those that
\* have arrived had ended by then.
Undisturbed(r) ==
    \A o \in Ops : stk[o] = reader[r].stack => pc[o] = "idle" \/ o \in reader[r].ended

\* A GetStackInfo that read the state while no operation of its stack was under
\* way answers "not deployed" only of a stack with no resources: even after a
\* crash, operations that ran in another order than their rows, rows out of its
\* window, and beside a DeleteStack or after one.
QuietAnswerTrue ==
    \A r \in Readers :
        reader[r].at \in {"conn", "clear", "nodes"}
           /\ reader[r].counted /\ Undisturbed(r) /\ ~reader[r].deployed
        => infra[reader[r].stack] = "absent"

\* Such a read never clears the address of a live agent either.
QuietReadKeepsAddress ==
    [][\A s \in Stacks :
          conn[s] = "address" /\ conn'[s] = "blank" /\ infra[s] # "absent"
          => \/ \E r \in Readers :
                   /\ reader[r].at = "clear" /\ reader'[r].at = "nodes"
                   /\ ~(reader[r].counted /\ Undisturbed(r))
             \/ \E o \in Ops : pc[o] = "teardown" /\ pc'[o] = "posthooks"]_<<vars, svars>>

\* What beside deletions remains of the engine's promises: operations own a
\* stack in turn, and only a deletion changes what is known of it otherwise.
SerialButForDeletions == Serial!ForgetfulSpec

\* A success reported last is what the cloud has, or nothing is known of it.
TrueUntilDeleted ==
    \A s \in Stacks, o \in Ops :
        last[s] = o /\ record[o] = "succeeded" => infra[s] \in {Goal(kind[o]), "absent"}

\* A row that reached its final status is deleted, or never changes.
FinalUntilDeleted ==
    [][\A o \in Ops :
          record[o] \in Statuses => record'[o] \in {record[o], "absent"}]_<<vars, svars>>

\* "If infrastructure is not deployed, any stored agent runtime fields (IPs,
\* lighthouse) are stale" (stacks.go, GetStackInfo): reading a stack never
\* clears the address of a deployed one.
ReadKeepsLiveAddress ==
    [][\A s \in Stacks :
          conn[s] = "address" /\ conn'[s] = "blank"
             /\ (\E r \in Readers : reader'[r] # reader[r])
          => infra[s] # "present"]_<<vars, svars>>

\* A stack that is not deployed shows no node with an agent address
\* (docs/api.md on "deployed" and on "nodes").
NodesFollowDeployment ==
    \A r \in Readers :
        reader[r].at = "nodes" /\ reader[r].counted /\ Undisturbed(r)
           /\ ~reader[r].deployed
        => reader[r].stack \notin nodes

\* "Prevent deletion while an operation is running" (stacks.go, DeleteStack).
NoDeleteWhileRunning ==
    [][\A s \in Stacks :
          s \in row /\ s \notin row' => s \notin running]_<<vars, svars>>
============================================================================
