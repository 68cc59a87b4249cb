---------------------------- MODULE GroupDeploy ----------------------------
(***************************************************************************)
(* Deployment groups (internal/api/group_deploy.go, deployment_groups.go,  *)
(* internal/db/deployment_groups.go): one group of a primary stack and its *)
(* workers, created member by member, deployed in phases that feed each    *)
(* other's results into the stacks' configurations, and destroyed by a     *)
(* goroutine that outlives its request.                                    *)
(*                                                                         *)
(* Every phase runs Engine.Up through trackedUp: it ends in a conflict     *)
(* when another handler's operation holds the stack (StackEngine has the   *)
(* lock itself), and at once when the handler's context was cancelled.  A  *)
(* failed operation leaves the stack as it was or as it was meant to be.   *)
(***************************************************************************)
EXTENDS Naturals, Sequences, FiniteSets

CONSTANTS
    NumWorkers,     \* workers of the group
    NodeCount,      \* nodeCount of each worker
    Deploys,        \* POST /groups/{id}/deploy requests
    Destroys,       \* POST /groups/{id}/destroy requests
    Nobody,
    Down,           \* a stack with no resources
    MaxAttempts,    \* tries of the DRG attachment, 3 in the code
    MaxCrashes,     \* bound: restarts of the server
    OutputsMayFail, \* GetStackOutputs or the OCI API may answer an error
    WritesMayFail,  \* updateStackConfig may fail; it is only logged
    HasApps         \* the group selects applications

Primary == 0
Workers == 1..NumWorkers
Members == {Primary} \cup Workers
Handlers == Deploys \cup Destroys
Nodes == UNION {{<<w, k>> : k \in 1..NodeCount[w]} : w \in Workers}

ASSUME CountAssumption ==
    /\ NumWorkers \in Nat \ {0} /\ NodeCount \in [Workers -> Nat \ {0}]
    /\ MaxAttempts \in Nat \ {0} /\ MaxCrashes \in Nat
ASSUME NobodyAssumption == Nobody \notin Handlers
ASSUME HandlersAssumption == Deploys \cap Destroys = {}
ASSUME FlagsAssumption ==
    {OutputsMayFail, WritesMayFail, HasApps} \subseteq BOOLEAN

VARIABLES
    status,     \* deployment_groups.status, "absent" without a row
    given,      \* deployment_groups.app_config is not empty
    creating,   \* CreateGroup is under way
    members,    \* stack_group_membership
    row,        \* the configuration in each member's stacks row
    cloud,      \* the configuration last applied to each stack
    busy,       \* whose operation runs on each stack
    cancels,    \* groupCancels[groupID]
    mapNil,     \* groupCancels was not made yet
    mutex,      \* groupMu can be taken
    pc,         \* the request handlers
    job,        \* the goroutine of a DestroyGroup
    cut,        \* the handler's context is cancelled
    mem,        \* the configurations the handler works on
    todo,       \* members still to be treated in the phase
    failed,     \* failedWorkers, failedRoutes
    known,      \* deploy: which outputs were read: see Known
    tries,      \* attempt of phase 4
    alone,      \* no other handler has been active in the handler's time
    crashes

vars == <<status, given, creating, members, row, cloud, busy, cancels, mapNil, mutex,
          pc, job, cut, mem, todo, failed, known, tries, alone, crashes>>
group == <<given, creating, members>>
registry == <<cancels, mapNil, mutex>>
history == <<alone, crashes>>

(***************************************************************************)
(* Configurations.  The primary's: poolReady, the tenancies its policies   *)
(* admit, the VCNs attached to its DRG and the private addresses behind    *)
(* its load balancer, in the order of the listeners.  A worker's: the DRG  *)
(* of the primary, its route to it, and nlbAgentPort, counted from the     *)
(* first port after the primary's own.                                     *)
(***************************************************************************)
PrimaryConfig(p, a, v, i) == [pool |-> p, admits |-> a, vcns |-> v, ips |-> i]
WorkerConfig(p, d, r, n) ==
    [pool |-> p, drg |-> d, attached |-> r, port |-> n]
NewConfig == [m \in Members |-> IF m = Primary
                                THEN PrimaryConfig(FALSE, {}, {}, <<>>)
                                ELSE WorkerConfig(FALSE, FALSE, FALSE, 0)]
PrimaryConfigs ==
    [pool : BOOLEAN, admits : SUBSET Workers, vcns : SUBSET Workers, ips : Seq(Nodes)]
WorkerConfigs == [pool : BOOLEAN, drg : BOOLEAN, attached : BOOLEAN, port : Nat]
Configs == PrimaryConfigs \cup WorkerConfigs
ConfigsOf(m) == IF m = Primary THEN PrimaryConfigs ELSE WorkerConfigs
ASSUME DownAssumption == Down \notin Configs

\* What a deployment found out: the primary's outputs, the workers whose
\* outputs phase 4 read and those whose addresses phase 3.5 resolved.
Known(o, r, a) == [outputs |-> o, read |-> r, resolved |-> a]

DeployPhases == {"resolve", "up1", "up15", "up2", "workers", "up4", "wait4",
                 "route", "up5", "wait6", "apps"}
Deploying(h) == pc[h] \in DeployPhases
Destroying(h) == pc[h] = "begun" \/ job[h] \in {"workers", "primary"}
Panicked(h) == pc[h] \in {"panicked", "aborted"}
Over == {"done", "aborted"}
InFlight(h) == \/ pc[h] \notin {"idle"} \cup Over
               \/ h \in Destroys /\ Destroying(h)

TypeOK ==
    /\ status \in {"absent", "configuring", "deploying", "deployed", "partial",
                   "failed", "destroying", "destroyed", "deleted"}
    /\ given \in BOOLEAN /\ creating \in BOOLEAN /\ members \subseteq Members
    /\ row \in [Members -> Configs] /\ cloud \in [Members -> Configs \cup {Down}]
    /\ \A m \in Members : row[m] \in ConfigsOf(m) /\ cloud[m] \in ConfigsOf(m) \cup {Down}
    /\ busy \in [Members -> Handlers \cup {Nobody}]
    /\ cancels \in Handlers \cup {Nobody}
    /\ mapNil \in BOOLEAN /\ mutex \in BOOLEAN
    /\ pc \in [Handlers -> DeployPhases \cup
               {"idle", "register", "begun", "wait", "leave", "panicked"} \cup Over]
    /\ job \in [Destroys -> {"none", "workers", "primary", "done"}]
    /\ cut \in [Handlers -> BOOLEAN]
    /\ mem \in [Handlers -> [Members -> Configs]]
    /\ \A h \in Handlers, m \in Members : mem[h][m] \in ConfigsOf(m)
    /\ todo \in [Handlers -> SUBSET Members]
    /\ failed \in [Handlers -> SUBSET Workers]
    /\ known \in [Handlers -> [outputs : BOOLEAN, read : SUBSET Workers,
                               resolved : SUBSET Workers]]
    /\ tries \in [Handlers -> 0..MaxAttempts]
    /\ alone \in [Handlers -> BOOLEAN] /\ crashes \in 0..MaxCrashes

Init ==
    /\ status = "absent" /\ given \in BOOLEAN
    /\ creating = FALSE /\ members = {}
    /\ row = NewConfig /\ cloud = [m \in Members |-> Down]
    /\ busy = [m \in Members |-> Nobody]
    /\ cancels = Nobody /\ mapNil = TRUE /\ mutex = TRUE
    /\ pc = [h \in Handlers |-> "idle"] /\ job = [h \in Destroys |-> "none"]
    /\ cut = [h \in Handlers |-> FALSE]
    /\ mem = [h \in Handlers |-> NewConfig]
    /\ todo = [h \in Handlers |-> {}] /\ failed = [h \in Handlers |-> {}]
    /\ known = [h \in Handlers |-> Known(FALSE, {}, {})]
    /\ tries = [h \in Handlers |-> 0]
    /\ alone = [h \in Handlers |-> FALSE] /\ crashes = 0

----------------------------------------------------------------------------
\* CreateGroup writes the group's row, then every member in the order of
\* the request, here the primary first; an error in between leaves what was
\* written.
CreateGroup ==
    /\ status = "absent"
    /\ status' = "configuring"
    /\ creating' = TRUE
    /\ UNCHANGED <<given, members, row, cloud, busy, registry, pc, job, cut, mem,
                   todo, failed, known, tries, history>>

AddMember(m) ==
    /\ creating /\ m \notin members /\ \A n \in Members : n < m => n \in members
    /\ members' = members \cup {m}
    /\ row' = [row EXCEPT ![m] = NewConfig[m]]
    /\ creating' = (members' # Members)
    /\ UNCHANGED <<status, given, cloud, busy, registry, pc, job, cut, mem,
                   todo, failed, known, tries, history>>

CreateFails ==
    /\ creating
    /\ creating' = FALSE
    /\ UNCHANGED <<status, given, members, row, cloud, busy, registry, pc, job, cut,
                   mem, todo, failed, known, tries, history>>

\* DeleteGroup never asks whether the group is being deployed.
DeleteGroup ==
    /\ status \notin {"absent", "deleted"} /\ ~creating
    /\ status' = "deleted"
    /\ members' = {}
    /\ UNCHANGED <<given, creating, row, cloud, busy, registry, pc, job, cut, mem,
                   todo, failed, known, tries, history>>

----------------------------------------------------------------------------
Goto(h, place) == pc' = [pc EXCEPT ![h] = place]

\* UpdateStatus changes no row once the group is deleted.
SetStatus(s) == status' = IF status = "deleted" THEN status ELSE s
FinishSilently(h, s) == Goto(h, "leave") /\ UNCHANGED status
Finish(h, s) == SetStatus(s) /\ Goto(h, "leave")

\* updateStackConfig for a set of members; an error is logged and ignored.
Save(h, ms, configs) ==
    \E ok \in IF WritesMayFail THEN SUBSET ms ELSE {ms} :
        row' = [m \in Members |-> IF m \in ok THEN configs[m] ELSE row[m]]
ConfigUnset(h, m, c) == UNCHANGED mem
Config(h, m, c) == mem' = [mem EXCEPT ![h] = [@ EXCEPT ![m] = c]]

\* trackedUp and trackedDestroy on stack m: what "target" is meant to be.
Begin(h, m) ==
    /\ busy[m] = Nobody /\ ~cut[h]
    /\ busy' = [busy EXCEPT ![m] = h]
End(h, m, target, ok) ==
    \/ /\ busy[m] = h
       /\ busy' = [busy EXCEPT ![m] = Nobody]
       /\ \E c \in IF ok THEN {target} ELSE {cloud[m], target} :
              cloud' = [cloud EXCEPT ![m] = c]
    \/ /\ busy[m] # h /\ ~ok
       /\ cut[h] \/ busy[m] # Nobody
       /\ UNCHANGED <<busy, cloud>>

Up(h, m, ok) == End(h, m, mem[h][m], ok)

\* Outputs cannot be read under a cancelled context.
MayMiss(h) == OutputsMayFail \/ cut[h]

\* Which stack a phase of a deployment brings up.
NextWorker(h) == CHOOSE w \in todo[h] : \A v \in todo[h] : w <= v
Subject(h) == IF pc[h] = "up5" THEN {NextWorker(h)}
              ELSE IF pc[h] = "workers" THEN todo[h]
              ELSE IF pc[h] \in {"up1", "up15", "up2", "up4", "apps"}
                   THEN {Primary} ELSE {}

BeginUp(h) ==
    /\ \E m \in Subject(h) : Begin(h, m)
    /\ UNCHANGED <<status, group, row, cloud, registry, pc, job, cut, mem,
                   todo, failed, known, tries, history>>

----------------------------------------------------------------------------
\* DeployGroup registers its cancel function over any other's.
BeginDeploy(h) ==
    /\ pc[h] = "idle" /\ mutex
    /\ status \notin {"absent", "deleted"}
    /\ cancels' = h /\ mapNil' = FALSE
    /\ status' = "deploying"
    /\ Goto(h, "resolve")
    /\ alone' = [x \in Handlers |-> IF x = h THEN \A y \in Handlers : ~InFlight(y)
                                    ELSE alone[x] /\ ~InFlight(x)]
    /\ todo' = [todo EXCEPT ![h] = members]
    /\ UNCHANGED <<group, row, cloud, busy, mutex, job, cut, mem, failed,
                   known, tries, crashes>>

\* The members' configurations are read once.  What phases 4 and 5 will set
\* is cleared, in memory only.
Resolve(h) ==
    /\ pc[h] = "resolve"
    /\ \/ /\ Finish(h, "failed")    \* credentials missing
          /\ UNCHANGED <<mem, todo>>
       \/ /\ Primary \notin todo[h]
          /\ Finish(h, "failed")
          /\ UNCHANGED <<mem, todo>>
       \/ /\ Primary \in todo[h]
          /\ mem' = [mem EXCEPT ![h] = [m \in Members |->
                 IF m = Primary
                 THEN PrimaryConfig(row[m].pool, row[m].admits, {}, <<>>)
                 ELSE WorkerConfig(row[m].pool, row[m].drg, FALSE, 0)]]
          /\ todo' = [todo EXCEPT ![h] = @ \ {Primary}]
          /\ Goto(h, "up1") /\ UNCHANGED status
    /\ UNCHANGED <<group, row, cloud, busy, registry, job, cut, failed, known,
                   tries, history>>

\* Phase 1, then the primary's outputs; poolReady is set for phase 1.5.
Phase1(h) ==
    /\ pc[h] = "up1"
    /\ \E ok \in BOOLEAN :
        /\ Up(h, Primary, ok)
        /\ \/ /\ ok
              /\ LET p == mem[h][Primary]
                     c == PrimaryConfig(TRUE, p.admits, p.vcns, p.ips)
                 IN  /\ Config(h, Primary, c)
                     /\ Save(h, {Primary}, [mem[h] EXCEPT ![Primary] = c])
              /\ Goto(h, "up15") /\ UNCHANGED status
           \/ /\ ~ok \/ MayMiss(h)
              /\ Finish(h, "failed") /\ UNCHANGED <<mem, row>>
    /\ UNCHANGED <<group, registry, job, cut, todo, failed, known, tries,
                   history>>

\* Phase 1.5 continues whatever its result; the outputs are read again, and
\* an error leaves none.  The workers' tenancies are collected for phase 2.
Phase15(h) ==
    /\ pc[h] = "up15"
    /\ \E ok \in BOOLEAN : Up(h, Primary, ok)
    /\ \E o \in {TRUE, ~MayMiss(h)} :
        known' = [known EXCEPT ![h] = Known(o, {}, {})]
    /\ LET p == mem[h][Primary]
           c == PrimaryConfig(p.pool, todo[h], p.vcns, p.ips)
       IN  /\ Config(h, Primary, c)
           /\ Save(h, {Primary}, [mem[h] EXCEPT ![Primary] = c])
    /\ Goto(h, "up2")
    /\ UNCHANGED <<status, group, registry, job, cut, todo, failed, tries,
                   history>>

\* Phase 2; when it succeeds, the primary's outputs are wired into the
\* workers' configurations.
Phase2(h) ==
    /\ pc[h] = "up2"
    /\ \E ok \in BOOLEAN :
        /\ Up(h, Primary, ok)
        /\ \/ /\ ok
              /\ LET wired == [m \in Members |->
                         LET c == mem[h][m]
                         IN  IF m \in todo[h] /\ known[h].outputs
                             THEN WorkerConfig(c.pool, TRUE, c.attached, c.port)
                             ELSE c]
                 IN  /\ mem' = [mem EXCEPT ![h] = wired]
                     /\ Save(h, todo[h], wired)
              /\ Goto(h, "workers") /\ UNCHANGED status
           \/ /\ ~ok /\ Finish(h, "failed") /\ UNCHANGED <<mem, row>>
    /\ UNCHANGED <<group, registry, job, cut, todo, failed, known, tries,
                   history>>

\* Phase 3: one goroutine for each worker.
WorkerUp(h, w) ==
    /\ pc[h] = "workers" /\ w \in todo[h]
    /\ \E ok \in BOOLEAN :
        /\ Up(h, w, ok)
        /\ failed' = [failed EXCEPT ![h] = IF ok THEN @ ELSE @ \cup {w}]
    /\ todo' = [todo EXCEPT ![h] = @ \ {w}]
    /\ UNCHANGED <<status, group, row, registry, pc, job, cut, mem, known,
                   tries, history>>

WorkersOf(h) == mem[h][Primary].admits

\* workerIdx of phase 5.
PositionFromZero(h, w) == Cardinality({v \in WorkersOf(h) : v < w})
Position(h, w) == Cardinality({v \in WorkersOf(h) : v <= w})

\* The addresses phase 4 gives the load balancer: those the OCI API knew,
\* else the one in the worker's outputs; a worker not read is left out.  They
\* are listed worker by worker, node by node.
Listed(read, resolved) == {n \in Nodes : n[1] \in read /\ (n[2] = 1 \/ n[1] \in resolved)}
UpTo(S, n) == {m \in S : m[1] < n[1] \/ (m[1] = n[1] /\ m[2] <= n[2])}
Addresses(read, resolved) ==
    LET S == Listed(read, resolved)
    IN  [i \in 1..Cardinality(S) |-> CHOOSE n \in S : Cardinality(UpTo(S, n)) = i]

\* After wg.Wait: phase 3.5 resolves the workers' addresses, phase 4 reads
\* their outputs; both skip a worker whose outputs cannot be read.
Learned(h, seen, read, resolved) ==
    [m \in Members |->
        LET c == mem[h][m]
        IN  IF m = Primary /\ read # {}
            THEN PrimaryConfig(c.pool, c.admits, read, Addresses(read, resolved))
            ELSE IF m \in seen
            THEN WorkerConfig(TRUE, c.drg, c.attached, c.port)
            ELSE c]

Learn(h, seen, read, resolved) ==
    /\ resolved \subseteq seen
    /\ known' = [known EXCEPT ![h] = Known(@.outputs, read, resolved)]
    /\ mem' = [mem EXCEPT ![h] = Learned(h, seen, read, resolved)]
    /\ Save(h, seen \cup {Primary}, Learned(h, seen, read, resolved))
    /\ todo' = [todo EXCEPT ![h] = WorkersOf(h)]
    /\ tries' = [tries EXCEPT ![h] = 1]
    /\ IF read = {} THEN Finish(h, "partial") ELSE Goto(h, "up4") /\ UNCHANGED status

AfterWorkers(h) ==
    /\ pc[h] = "workers" /\ todo[h] = {}
    /\ \/ /\ failed[h] # {}
          /\ Finish(h, "partial")
          /\ UNCHANGED <<row, mem, todo, known, tries>>
       \/ /\ failed[h] = {}
          /\ LET some == IF MayMiss(h) THEN SUBSET WorkersOf(h) ELSE {WorkersOf(h)}
             IN  \E seen \in some, read \in some, resolved \in some :
                      Learn(h, seen, read, resolved)
    /\ UNCHANGED <<group, cloud, busy, registry, job, cut, failed, history>>

\* Phase 4: up to MaxAttempts times, with a delay that a cancellation ends.
MayRetryOnceMore(h) == tries[h] <= MaxAttempts
MayRetry(h) == tries[h] < MaxAttempts
Phase4(h) ==
    /\ pc[h] = "up4"
    /\ \E ok \in BOOLEAN :
        /\ Up(h, Primary, ok)
        /\ \/ ok /\ Goto(h, "route") /\ UNCHANGED status
           \/ ~ok /\ MayRetry(h) /\ Goto(h, "wait4") /\ UNCHANGED status
           \/ ~ok /\ ~MayRetry(h) /\ Finish(h, "partial")
    /\ UNCHANGED <<group, row, registry, job, cut, mem, todo, failed, known,
                   tries, history>>

Retry4(h) ==
    /\ pc[h] = "wait4"
    /\ tries' = [tries EXCEPT ![h] = @ + 1]
    /\ Goto(h, "up4")
    /\ UNCHANGED <<status, group, row, cloud, busy, registry, job, cut, mem,
                   todo, failed, known, history>>

\* Phase 5, worker by worker: the route to the DRG and its port on the
\* primary's load balancer, the i-th after the primary's for the i-th worker.
Route(h) ==
    /\ pc[h] = "route" /\ todo[h] # {}
    /\ LET w == NextWorker(h)
           c == mem[h][w]
           i == Position(h, w)
       IN \E o \in {TRUE, ~MayMiss(h)} :
            LET new == WorkerConfig(c.pool, c.drg, TRUE,
                                    IF o THEN i ELSE c.port)
            IN  /\ Config(h, w, new)
                /\ Save(h, {w}, [mem[h] EXCEPT ![w] = new])
                /\ known' = [known EXCEPT ![h] =
                                 Known(@.outputs /\ o, @.read, @.resolved)]
    /\ Goto(h, "up5")
    /\ UNCHANGED <<status, group, cloud, busy, registry, job, cut, todo,
                   failed, tries, history>>

Phase5(h) ==
    /\ pc[h] = "up5"
    /\ LET w == NextWorker(h)
       IN \E ok \in BOOLEAN :
            /\ Up(h, w, ok)
            /\ failed' = [failed EXCEPT ![h] = IF ok THEN @ ELSE @ \cup {w}]
            /\ todo' = [todo EXCEPT ![h] = @ \ {w}]
    /\ IF todo'[h] # {} THEN Goto(h, "route") /\ UNCHANGED status
       ELSE IF failed'[h] # {} THEN Finish(h, "partial")
       ELSE IF HasApps THEN Goto(h, "wait6") /\ UNCHANGED status
       ELSE Finish(h, "deployed")
    /\ UNCHANGED <<group, row, registry, job, cut, mem, known, tries, history>>

\* Phase 6 waits for the agents or for a cancellation.
Wait6(h) ==
    /\ pc[h] = "wait6"
    /\ \/ cut[h] /\ Finish(h, "deployed")
       \/ Goto(h, "apps") /\ UNCHANGED status
    /\ UNCHANGED <<group, row, cloud, busy, registry, job, cut, mem, todo,
                   failed, known, tries, history>>

\* Whatever the applications do, the group is deployed.
Apps(h) ==
    /\ pc[h] = "apps"
    /\ \E ok \in BOOLEAN : End(h, Primary, cloud[Primary], ok)
    /\ Finish(h, "deployed")
    /\ UNCHANGED <<group, row, registry, job, cut, mem, todo, failed, known,
                   tries, history>>

\* The handler itself may panic, which skips the status: on a tenancy's
\* identifier of less than twelve characters, on such a pool's in phases 1
\* and 3.5, and in phase 6 when the deployer writes a generated secret into
\* the map of a group without application settings.
DeployPanics(h) ==
    /\ \/ pc[h] = "resolve" /\ todo[h] # {} /\ UNCHANGED <<row, cloud, busy>>
       \/ pc[h] = "up1" /\ Up(h, Primary, TRUE) /\ UNCHANGED row
       \/ /\ pc[h] = "workers" /\ todo[h] = {} /\ failed[h] = {}
          /\ \E seen \in SUBSET WorkersOf(h) : Save(h, seen, Learned(h, seen, {}, {}))
          /\ UNCHANGED <<cloud, busy>>
       \/ /\ pc[h] = "apps" /\ ~given /\ busy[Primary] = h
          /\ \E ok \in BOOLEAN : End(h, Primary, cloud[Primary], ok)
          /\ UNCHANGED row
    /\ Goto(h, "panicked")
    /\ UNCHANGED <<status, group, registry, job, cut, mem, todo, failed, known,
                   tries, history>>

\* The deferred calls: the entry of groupCancels is removed, whosever it is;
\* what the handler knew is gone with it.
ForgetNothing(h) == UNCHANGED cancels
ForgetCancel(h) == cancels' = Nobody

Leave(h) ==
    /\ pc[h] \in {"leave", "panicked"} /\ mutex
    /\ ForgetCancel(h)
    /\ cut' = [cut EXCEPT ![h] = TRUE]
    /\ Goto(h, IF pc[h] = "leave" THEN "done" ELSE "aborted")
    /\ mem' = [mem EXCEPT ![h] = NewConfig]
    /\ known' = [known EXCEPT ![h] = Known(FALSE, {}, {})]
    /\ tries' = [tries EXCEPT ![h] = 0]
    /\ alone' = [alone EXCEPT ![h] = FALSE]
    /\ IF h \in Deploys THEN /\ todo' = [todo EXCEPT ![h] = {}]
                             /\ failed' = [failed EXCEPT ![h] = {}]
                        ELSE UNCHANGED <<todo, failed>>
    /\ UNCHANGED <<status, group, row, cloud, busy, mapNil, mutex, job, crashes>>

DeployStep(h) ==
    \/ Resolve(h) \/ BeginUp(h) \/ Phase1(h) \/ Phase15(h) \/ Phase2(h)
    \/ (\E w \in Workers : WorkerUp(h, w)) \/ AfterWorkers(h)
    \/ Phase4(h) \/ Retry4(h) \/ Route(h) \/ Phase5(h) \/ Wait6(h) \/ Apps(h)
    \/ DeployPanics(h) \/ Leave(h)

----------------------------------------------------------------------------
\* DestroyGroup asks IsGroupDeploying in one critical section ...
AskDestroy(h) ==
    /\ pc[h] = "idle" /\ mutex
    /\ status \notin {"absent", "deleted"}
    /\ Goto(h, IF cancels = Nobody THEN "register" ELSE "done")
    /\ alone' = [x \in Handlers |-> IF x = h THEN \A y \in Handlers : ~InFlight(y)
                                    ELSE alone[x] /\ ~InFlight(x)]
    /\ UNCHANGED <<status, group, row, cloud, busy, registry, job, cut, mem,
                   todo, failed, known, tries, crashes>>

\* ... and registers in another.  It does not make the map: writing to a nil
\* map panics between Lock and Unlock, and nobody unlocks.
Register(h) ==
    /\ pc[h] = "register" /\ mutex
    /\ \/ /\ mapNil
          /\ mutex' = FALSE
          /\ Goto(h, "done")
          /\ UNCHANGED <<status, cancels>>
       \/ /\ ~mapNil
          /\ cancels' = h
          /\ SetStatus("destroying")
          /\ Goto(h, "begun")
          /\ UNCHANGED mutex
    /\ UNCHANGED <<group, row, cloud, busy, mapNil, job, cut, mem, todo, failed,
                   known, tries, history>>

\* Members without credentials are left out; without a primary nothing is
\* destroyed.  Otherwise a goroutine does the work.
StartJob(h) ==
    /\ pc[h] = "begun"
    /\ \E found \in SUBSET members :
        IF Primary \in found
        THEN /\ job' = [job EXCEPT ![h] = "workers"]
             /\ todo' = [todo EXCEPT ![h] = found \ {Primary}]
             /\ Goto(h, "wait") /\ UNCHANGED status
        ELSE Finish(h, "failed") /\ UNCHANGED <<job, todo>>
    /\ UNCHANGED <<group, row, cloud, busy, registry, cut, mem, failed, known,
                   tries, history>>

\* A short tenancy identifier panics here as in a deployment.
DestroyPanics(h) ==
    /\ pc[h] = "begun" /\ members # {}
    /\ Goto(h, "panicked")
    /\ UNCHANGED <<status, group, row, cloud, busy, registry, job, cut, mem, todo,
                   failed, known, tries, history>>

BeginWorkerDown(h, w) ==
    /\ job[h] = "workers" /\ w \in todo[h]
    /\ Begin(h, w)
    /\ UNCHANGED <<status, group, row, cloud, registry, pc, job, cut, mem, todo,
                   failed, known, tries, history>>

EndWorkerDown(h, w) ==
    /\ job[h] = "workers" /\ w \in todo[h]
    /\ \E ok \in BOOLEAN :
        /\ End(h, w, Down, ok)
        /\ failed' = [failed EXCEPT ![h] = IF ok THEN @ ELSE @ \cup {w}]
    /\ todo' = [todo EXCEPT ![h] = @ \ {w}]
    /\ UNCHANGED <<status, group, row, registry, pc, job, cut, mem, known,
                   tries, history>>

\* Workers that failed to go down are only reported.
WorkersTriedAny(h) == \E w \in Workers : w \notin todo[h]
WorkersTried(h) == todo[h] = {}

BeginPrimaryDown(h) ==
    /\ job[h] = "workers" /\ WorkersTried(h)
    /\ \/ Begin(h, Primary)
       \/ (cut[h] \/ busy[Primary] # Nobody) /\ UNCHANGED busy
    /\ job' = [job EXCEPT ![h] = "primary"]
    /\ UNCHANGED <<status, group, row, cloud, registry, pc, cut, mem, todo,
                   failed, known, tries, history>>

EndPrimaryDown(h) ==
    /\ job[h] = "primary"
    /\ \E ok \in BOOLEAN :
        /\ \/ End(h, Primary, Down, ok)
           \/ busy[Primary] # h /\ ~ok /\ UNCHANGED <<busy, cloud>>
        /\ SetStatus(IF ok THEN "destroyed" ELSE "failed")
    /\ job' = [job EXCEPT ![h] = "done"]
    /\ failed' = [failed EXCEPT ![h] = {}]
    /\ UNCHANGED <<group, row, registry, pc, cut, mem, todo, known, tries,
                   history>>

\* The handler waits for its context, which the goroutine does not cancel.
Answer(h) ==
    /\ pc[h] = "wait" /\ cut[h]
    /\ Goto(h, "leave")
    /\ UNCHANGED <<status, group, row, cloud, busy, registry, job, cut, mem,
                   todo, failed, known, tries, history>>

Disconnect(h) ==
    /\ pc[h] \in {"begun", "wait"} /\ ~cut[h]
    /\ cut' = [cut EXCEPT ![h] = TRUE]
    /\ UNCHANGED <<status, group, row, cloud, busy, registry, pc, job, mem,
                   todo, failed, known, tries, history>>

DestroyStep(h) ==
    \/ Register(h) \/ StartJob(h) \/ DestroyPanics(h)
    \/ (\E w \in Workers : BeginWorkerDown(h, w) \/ EndWorkerDown(h, w))
    \/ BeginPrimaryDown(h) \/ EndPrimaryDown(h) \/ Answer(h) \/ Leave(h)

----------------------------------------------------------------------------
\* CancelGroupDeploy finds the context that registered last.  It also asks
\* Engine.Cancel for every member: an operation under way may then fail.
CancelGroup ==
    /\ mutex /\ cancels # Nobody /\ ~cut[cancels]
    /\ cut' = [cut EXCEPT ![cancels] = TRUE]
    /\ UNCHANGED <<status, group, row, cloud, busy, registry, pc, job, mem,
                   todo, failed, known, tries, history>>

\* The server dies and starts again: MarkStaleDeploying looks for
\* "deploying" only.  An operation that ran did some or all of its work.
Restart ==
    /\ crashes < MaxCrashes /\ status # "absent"
    /\ crashes' = crashes + 1
    /\ status' = IF status = "deploying" THEN "failed" ELSE status
    /\ \E applied \in SUBSET {m \in Members : busy[m] # Nobody} :
        cloud' = [m \in Members |->
                    IF m \notin applied THEN cloud[m]
                    ELSE IF busy[m] \in Destroys THEN Down ELSE mem[busy[m]][m]]
    /\ busy' = [m \in Members |-> Nobody]
    /\ creating' = FALSE
    /\ cancels' = Nobody /\ mapNil' = TRUE /\ mutex' = TRUE
    /\ pc' = [h \in Handlers |-> IF pc[h] = "idle" THEN "idle" ELSE "done"]
    /\ job' = [h \in Destroys |-> IF job[h] = "none" THEN "none" ELSE "done"]
    /\ cut' = [h \in Handlers |-> pc[h] # "idle"]
    /\ mem' = [h \in Handlers |-> NewConfig]
    /\ todo' = [h \in Handlers |-> {}] /\ failed' = [h \in Handlers |-> {}]
    /\ known' = [h \in Handlers |-> Known(FALSE, {}, {})]
    /\ tries' = [h \in Handlers |-> 0]
    /\ alone' = [h \in Handlers |-> FALSE]
    /\ UNCHANGED <<given, members, row>>

Next ==
    \/ CreateGroup \/ (\E m \in Members : AddMember(m)) \/ CreateFails
    \/ DeleteGroup \/ CancelGroup \/ Restart
    \/ \E h \in Deploys : BeginDeploy(h) \/ DeployStep(h)
    \/ \E h \in Destroys : AskDestroy(h) \/ DestroyStep(h) \/ Disconnect(h)

\* Goroutines run and operations end; nobody must send a request, cancel,
\* or disconnect.
Fairness ==
    /\ \A h \in Deploys : WF_vars(DeployStep(h))
    /\ \A h \in Destroys : WF_vars(DestroyStep(h))

Spec == Init /\ [][Next]_vars /\ Fairness

----------------------------------------------------------------------------
\* A group says "deploying" or "destroying" only while somebody deploys or
\* destroys it: the last to write it has not finished.  Two things are left
\* out, for they leave the status behind: a restart, which repairs the first
\* but not the second, and a handler of that kind that panicked.
QuietStatusFinal ==
    /\ status = "deploying" => \E h \in Deploys : Deploying(h) \/ Panicked(h)
    /\ status = "destroying" =>
           crashes > 0 \/ \E h \in Destroys : Destroying(h) \/ Panicked(h)

\* A deployment that is alone brings a worker up only after the primary's
\* policies admit the worker's tenancy (phase 2 before phase 3), and sends
\* it to the load balancer only after its VCN is attached (4 before 5).
WorkersAfterPrimary ==
    [][\A h \in Deploys, w \in Workers :
         busy[w] # h /\ busy'[w] = h /\ alone[h] =>
            /\ w \in cloud[Primary].admits
            /\ pc[h] = "up5" => w \in cloud[Primary].vcns \/ w \notin known[h].read]_vars

\* When a deployment that was alone and read every output reports
\* "deployed", every worker knows the DRG, is attached to it, has its route,
\* and its port at the load balancer leads to it; the rows say what runs.
\* Stated for workers of one node: the ports of phase 5 leave no room for
\* more (group_deploy.go:543).
ReachedThrough(w) ==
    LET first == cloud[w].port
    IN  \A k \in 1..NodeCount[w] :
            /\ first + k - 1 \in DOMAIN cloud[Primary].ips
            /\ cloud[Primary].ips[first + k - 1] = <<w, k>>
Wired(w) ==
    /\ cloud[w] # Down /\ cloud[w].drg /\ cloud[w].attached
    /\ cloud[Primary] # Down /\ w \in cloud[Primary].vcns
    /\ ReachedThrough(w)
ReportsDeployed(h) ==
    /\ Deploying(h) /\ pc'[h] = "leave"
    /\ status # "deployed" /\ status' = "deployed"
DeployedIsWired ==
    [][\A h \in Deploys :
         /\ ReportsDeployed(h) /\ alone[h] /\ known[h].outputs
         /\ \A w \in Workers : NodeCount[w] = 1
         /\ known[h].read = WorkersOf(h) /\ known[h].resolved = WorkersOf(h)
         => \A w \in WorkersOf(h) :
              Wired(w)' /\ (~WritesMayFail => row'[w] = cloud'[w])]_vars

\* The primary goes down only after every worker of the same job was tried,
\* whoever else is at work, and one operation holds a stack at a time.
PrimaryLast ==
    \A h \in Destroys :
        busy[Primary] = h => /\ job[h] = "primary" /\ todo[h] = {}
                            /\ \A w \in Workers : busy[w] # h

\* While a deployment that is alone is in flight, the cancel endpoint finds
\* its context, and a destruction is refused; when nobody is in flight no
\* entry is left that would have every destruction refused.
AloneIsRegistered ==
    /\ \A h \in Deploys : alone[h] /\ Deploying(h) => cancels = h
    /\ cancels # Nobody => \E h \in Handlers : InFlight(h)

\* A deployment ends, whatever fails, is retried or is cancelled, whoever
\* else works on the group.
DeployEnds == \A h \in Deploys : Deploying(h) ~> pc[h] \in Over

\* DestroyGroup answers when its goroutine is through ("Block until the
\* goroutine finishes or client disconnects", group_deploy.go:803).
DestroyAnswers == \A h \in Destroys : job[h] = "done" ~> pc[h] = "done"
============================================================================
