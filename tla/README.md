# A TLA+ verification of pulumi-ui

pulumi-ui is one Go server that runs Pulumi for many stacks: HTTP handlers
start operations, an engine serialises them per stack, SQLite keeps the
history, userspace Nebula tunnels reach the agents on the deployed nodes,
stacks are deployed in groups and run applications, and several servers may
share an S3 bucket. This directory holds TLA+ modules translated from that
source, the TLC configurations that check them, and TLAPS proofs. Paths below
are relative to `src/internal/`.

## Inventory

| Part | State | Operations | What makes it correct | Module |
|---|---|---|---|---|
| Stack operations (`engine/engine.go`, `api/stacks.go` runOperation and StackDeployApps, `db/operations.go`) | `Engine.running`, `Engine.cancels`, one goroutine and one row per operation, Pulumi's state | up, destroy, refresh, preview, deploy-apps, cancel, restart | one operation per stack; lock and context are given back on every path; rows tell what happened, across crashes | `StackEngine`, `SerialStack` |
| Stack records (`api/stacks.go`, `db/stacks.go`, `db/stack_connections.go`, `db/node_certs.go`) | stacks, stack_connections, stack_node_certs, operations | PutStack, GetStackInfo, DeleteStack, discovery, teardown | an answer about a stack is true; reading destroys nothing | `StackService` |
| Mesh tunnels (`mesh/mesh.go`, agentURLFields) | cache of tunnels, one slot per node, reaper | GetTunnel, GetTunnelForNode, GetOrStartPassive, CloseTunnel, Touch, Pin | one tunnel per key; nobody waits for ever; a tunnel in use stays | `MeshTunnels` |
| Port forwards (`mesh/forward.go`, `api/port_forward.go`, `api/forward_proxy.go`) | listeners, accept loops, connections | Start, Stop, List, the proxy | what is bound is listed; a drain means what it says; a stop returns | `PortForward` |
| Group deployment (`api/group_deploy.go`, `api/deployment_groups.go`, `db/deployment_groups.go`) | status row, cancel map, the members' configurations | CreateGroup, DeployGroup, CancelGroupDeploy, DestroyGroup, DeleteGroup | phases feed each other in order; "deployed" is true; a status ends | `GroupDeploy` |
| Applications (`applications/deployer.go`), hooks (`api/hooks.go`, `db/hooks.go`), exec and upload of the agent (`cmd/agent`) | jobs on the nodes, generated secrets, hooks | DeployApps, registerAppHooks, executeHooks | secrets survive; a success is one; hooks are replaced | `AppDeployer` |
| Pulumi backend (`engine/engine.go` recoverPendingOperations, Unlock, MigrateStacks, RemoveStackState; `api/settings.go`, `api/credentials.go`) | checkpoints and lock files in two backends, the choice between them | up, refresh, destroy, Unlock, MigrateState, DeleteStack | no resource is forgotten | `Backend` |
| Instance set-up (`keystore/`, `crypto/`, `api/import_setup.go`, `api/export_setup.go`, `cmd/server`) | encryption key, database file, write pool | Resolve, Register, ImportSetup, ExportSetup, restart | key and database stay together | `Setup` |
| S3 synchronisation (`api/mesh_sync.go`, `api/stack_config_sync.go`, `api/discover.go`, `api/unlock.go`), PKI rows | objects shared by servers; a stack's CA and node certificates | save, operation, discover, unlock, claim, remove | certificates are of one CA; a claim reaches the agents | `RemoteSync` |
| Accounts, passphrases, credentials, SSH keys, sessions, blueprints, agent shell, frontend | single rows, text | CRUD, rendering | unit tests | see "Not modelled" |

Interactions. A handler's goroutine calls the engine directly; everything else
meets through shared state: the two maps of the engine under `mu`, the tables,
the tunnel cache under `Manager.mu`, the group map under `groupMu`, files and
objects under no lock at all. Only operations take the engine's lock.
GetStackInfo, DeleteStack, AgentHealth, the teardown after a destroy, Unlock
and MigrateStacks read and write what operations write without it. Groups and
applications hold configurations in memory for minutes and write them back.
Hard to test, therefore: the order of those reads and writes, a crash between
any two of them, cancellation at every point, a late upload, an answer that
belongs to an earlier question, and waiting for a slot, a lock or a signal.
The hazards, each at its line, are in `PROJECT.json`.

## Modules

| Module | Models | Checked by |
|---|---|---|
| `SerialStack` | what the engine promises: operations own a stack in turn, changes are the owner's, a success is a goal reached; with `Forget`, what remains of it beside deletions | target of `Serialised` and `SerialButForDeletions` |
| `StackEngine` | the goroutine of an operation | `MCStackEngine` |
| `StackService` | StackEngine with the requests that share its tables | `MCStackService` |
| `MeshTunnels` | the tunnel cache and what happens to addresses under it | `MCMeshTunnels` |
| `PortForward` | forwards, connections, stops, the proxy | `MCPortForward` |
| `GroupDeploy` | a group's deployment and destruction | `MCGroupDeploy` |
| `AppDeployer` | the deployer, its two callers, hooks | `MCAppDeployer` |
| `Backend` | checkpoints, locks and migrations | `MCBackend` |
| `Setup` | key, database, import, export, restart | `MCSetup` |
| `RemoteSync` | several servers and a bucket | `MCRemoteSync` |
| `StackEngine_proofs`, `MeshTunnels_proofs`, `PortForward_proofs`, `GroupDeploy_proofs`, `AppDeployer_proofs`, `Backend_proofs`, `Setup_proofs`, `RemoteSync_proofs` | theorems about the module of that name; `StackEngine_proofs` also those about `StackService` | tlapm |

`StackService` EXTENDS `StackEngine`: each of its steps is a step of the engine
with its effect on the tables, or a step of a request that leaves the engine
alone. The other modules stand alone; what they take from each other is stated
where they use it. `MeshTunnels`, `GroupDeploy`, `AppDeployer`, `Backend` and
`RemoteSync` rely on one operation at a time per stack (the theorem
`Excluded`); `GroupDeploy` has that lock as `busy`, `AppDeployer` as `lock`.
`PortForward` treats a tunnel as something that takes a while and may fail,
which is what `MeshTunnels` promises (`CallsEnd`).

### StackEngine: state and code

`pc[o]` is where the goroutine of operation `o` is. `requested` is from
`Ops.Create` through the pre-hooks to `tryLock`; `prepare` to `unlock` hold
the lock, in the order of executeOperation; `teardown` and `posthooks` are the
rest of runOperation; `done` is after `Finish`. A deploy-apps may panic in the
deployer (`applications/deployer.go:234` writes to a map that is nil when the
YAML has no appConfig): the deferred functions run, the router's Recoverer
answers, nothing after the engine call happens, and the goroutine ends at
`panicked` with its row at "running". `unregister` and `unlock` are
the deferred functions, which run last first. `running` and `cancels` are the
engine's maps; `cancelled` is the set of operations whose context is
cancelled, `attempt` Up's loop counter. `record` is the row's status, `infra`
what Pulumi has of the stack (nothing, some, all). `last` is a history
variable, read by no guard.

Pulumi is the environment: while a call runs it may write checkpoints; the call
returns success, an error, an error that Up takes for a transient conflict, or
an error under a cancelled context. Once a context is cancelled before the
call, the automation API starts no process and returns its error; the deployer
does not look at the context. `Crash` may happen at any step; memory is lost,
rows and cloud remain, `Startup` runs MarkStaleRunning. A Pulumi process that
outlives the server by an instant is not modelled: the program it runs is
hosted by the server, so it fails with it.

Simplifications. The load of the config and the creation of the row are one
step (nothing else of the engine is between them). Writes to SQLite succeed.
Hooks and logs have no state here.

### StackService: state and code

`conn` is the stack's row in stack_connections as far as GetStackInfo looks at
it (no row, no address, an address); `nodes` says whether stack_node_certs has
addresses; `log` is the order of the operations' rows. A GetStackInfo reads
history, state, connection row, clears, and reads nodes, each a step;
DeleteStack is a check of IsRunning, the read of the row and its deletes in
their order; an error before the row is gone ends it, later ones are only
logged, so a table may keep its rows, and the state stays when it is not in the
local directory under the blueprint's name or the row was not found. The hooks
that go with the history are left out here: only `AppDeployer` has hooks. What a read has in its
hands is a record: its place, its stack, what it takes for deployed, whether it
could read the state (`counted`), and `ended`, a history field that no step
looks at: the operations of the stack that were over when the read began. Every
stack has agent access. The rows of the history are ordered by creation, while the code orders
by a `started_at` in seconds; it also hides operations older than the stack's
row, so the model shows a reader of a stack that was created again within the
same second as the deletion. `Window` is the 20 rows GetStackInfo reads.

### MeshTunnels: state and code

One stack, whose keys are its own (`Shared`) and one per node. A caller is any
goroutine that asks (an agent endpoint, a forward's connection, the
deployer) or renders the program (an operation's resolveStack, GetStackState).
`slot` is `Manager.connecting`. A tunnel records who made it, for which
address (none: passive) and from which PKI (`era`; DeleteStack makes the next).
Pinning follows insertion without a step between: only CloseTunnel could come
between, and pinning a tunnel that is no longer cached changes nothing.
`Close` does nothing in the code and nothing here: the Nebula instance runs on.
The order of discovery's writes differs between its branches, so any order is
allowed. Time is `GrowIdle`: five minutes without use may pass at any moment.

### PortForward: state and code

`start[f]` is where StartPortForward is (tunnel, listen, insert), `listed` is
ForwardManager.forwards, `socket[f]` the port the listener really has,
`localPort[f]` the number in the record, `loop[f]` the accept loop,
`cancelled` the contexts. A connection is in the kernel's `backlog`, then in
the loop's hand (`accepted`), then counted by connWg (`tunnel`, `dial`,
`copy`); `ended` are the directions io.Copy is through with. `found` is a
request in ForwardSubdomainProxy that has looked the forward up and not dialled
yet. A DELETE goes through the statements of Stop; `clean` and `timeout` are the
two ways it returns. Ports are free again at once, so another forward may take
one. The three seconds of the drain may end at any moment.

### GroupDeploy: state and code

One group. `status`, `members` and `row` are the tables, `cloud[m]` the
configuration last applied to a stack, `mem[h]` the handler's `stackCfg`
maps, `busy[m]` whose operation runs, `cancels`/`mapNil`/`mutex` the map
groupCancels and its lock. `pc[h]` follows the phases of DeployGroup by their
numbers in the code; `job[h]` is the goroutine of a DestroyGroup, which goes
on when its handler is gone. A configuration keeps only what one phase sets
and another needs: the pool's readiness, the tenancies the policies admit, the
VCNs attached, the addresses behind the load balancer in listener order; DRG,
route and agent port of a worker. `End` is the return of trackedUp or
trackedDestroy: success applies the configuration, failure leaves the old or
the new one, a conflict or a cancelled context fails at once. Several groups
do not share anything but `groupMu`, whose only lasting effect is in
`Register`. The OCI calls of phases 3.5 and 4 may each miss a worker.
`DeployPanics` and `DestroyPanics` are the slices of short identifiers
(`api/group_deploy.go:908`, `:978`) and the write to a nil map of settings; such
a handler goes to `panicked`, then through its deferred calls, and writes no
status.

### AppDeployer: state and code

One stack and its group. `row` is the stack's configuration (selection and
appConfig), `settings` the group's. A caller's `cfg` is what it read at the
start; `at` follows executeOperation and DeployApps application by
application. An application's configuration is the secret generated for it.
`file` is the job file on the node, `job` what Nomad has: the registered
version, the version of its latest deployment and that deployment's state.
`hooks[a]` are the rows of the application's hooks. `misled` marks a caller
that took an answer for its own which was not: the poll for the latest
deployment may get the previous version's, and an exec answer without an exit
marker reads as exit code 0. `SuccessIsReal` excepts those, and no other.
An error of the hook store changes no status; the applications it failed for
are in `failed` from then on, and HooksReplaced excepts them.
`stopped` and `clean` are history variables. Health polling, waiting for the
agent and job rendering are one step each.

### Backend: state and code

`state[b][p][s]` is the checkpoint of stack `s` in backend `b` under Pulumi
project `p`: resources, pending creations, and those of them with an ID.
`locks` are Pulumi's own lock files. An up is announcement, creation, record;
`Interrupt` may come between any two, by an error or a cancellation. A stack
has one resource, called after the operation that created it. `Foreign` are
the stacks whose YAML names its own project, where getOrCreateYAMLStack works
under that name and MigrateStacks, RemoveStackState and the selection in
Unlock under the blueprint's. `secret` are the rows with a passphrase: without
one there is no operation (resolveCredentials), and a migration skips the stack.
A DeleteStack is its check, the row, and the local state, three steps (`del`).
A migration handler serves one request after the other, to either backend,
whichever is active.

`lost` are resources the program gave up, which `Tracked` does not count:
dropped by a refresh with a warning, deleted with their stack, and two that the
code's migrations give up. `api/settings.go:272` does not ask which backend is
active, so a migration to the active one overwrites the live state with the
other backend's copy, and one that switches leaves behind the state of a stack
whose passphrase was removed (`api/settings.go:292`). Both are in the model,
at `Import` and `LeftBehind`, and `MCBackendLoss.cfg` shows them.

`Surprise` counts the requests whose overlap is outside `Tracked`: a stack or an
operation that begins while a migration or the stack's deletion runs, a deletion
beside a migration, two migrations at once, a passphrase removed under a
running operation, a backend chosen by hand. `Calm` is the time before the
first. The run stops there (its CONSTRAINT); what such an overlap does is the
hazard at `engine.go:1271`, and nothing is claimed of it.

### Setup: state and code

A database is its users and the keys its rows are encrypted with, in the tables
an import tests (`tested`: oci_accounts, passphrases) and in the others
(`untested`: credentials, ssh_keys, stack_connections, stack_node_certs).
`key` is what the running server encrypts with, read before the database is
opened; `open` is the write pool. An import goes through create, copy, validate,
swap, truncate, write, signal, which are ImportSetup's statements with an
effect. validateKeyMatchesDB accepts any key when the two tested tables are
empty; `guessed` records that it did so with a wrong one. `Swap`, `Truncate` and
`Write` may fail for any reason (`Fault`): the request is answered with an error,
the pool stays closed, and no restart is asked for (`failed`).
`tmp` is the one temporary file all imports share. `Shutdown` and `Exit`
are main's reaction to RestartCh; a supervisor starts the process again.
`KeyFrom` is the store keystore.Resolve is configured with. An export opens the
database file, reads it, and reads the key file; its copy may lack any rows
(those in the WAL), and one whose file is written meanwhile is not `clean`.
`disturbed` says that an import was cut off between the rename and the end of
the key's write, or that two overlapped; nothing is claimed
afterwards, since nothing in the code repairs it.

### RemoteSync: state and code

One stack on several servers. A PKI is the number of the request that
generated it; `conn` has the CA, `nodes` the CA that signed the node
certificates, `bucket` the three objects, `deployed` what the instances run.
Saves, operations, claims and removals go through the tables one statement at
a time; `uploads` are the goroutines of syncConfigToS3 and syncMeshToS3, which
arrive in any order, once or never. An operation reads the node certificates
and then the connection (`run`, `render`), an upload the connection and then the
node certificates (`sync`, `mesh`), as the code does. A claim keeps whatever
blueprint its server has under the name, with agent access or without. `busy` holds Pulumi's lock in the bucket,
which keeps the servers' operations apart. `alone`, `torn` and `healed` are
history variables for the properties' preconditions.

## Runs

| Run | Instance | States | Shows |
|---|---|---|---|
| `engine` | 2 stacks, 2 operations, up, destroy, refresh, deploy-apps, 3 attempts, fairness | 242,842 | TypeOK, MutualExclusion, LockHasHolder, CancelReachesHolder, NoZombieRecord, RecordTellsTruth, OutcomeFinal, CancelStops, LockReleased; StackEngine implements SerialStack |
| `service` | 1 stack, 2 operations, 1 reader, 1 DeleteStack, a window of 1 row | 2,116,921 | QuietAnswerTrue, QuietReadKeepsAddress |
| `tunnels` | 2 callers, 1 node, 2 tries, any stored addresses, discoveries, a deletion, fairness | 192,302 | TypeOK, SlotHasHolder, KeptWhileUsed, CallsEnd |
| `group` | a primary, 2 workers of one node, 1 deployment, 1 destruction, 2 attempts, 1 restart, applications | 1,320,916 | TypeOK, QuietStatusFinal, PrimaryLast, AloneIsRegistered, WorkersAfterPrimary, DeployedIsWired |
| `apps` | 2 applications (one with a secret and a stopping hook, one periodic with a volume), 1 caller of each kind, 1 destroy, 1 crash | 4,319,289 | SuccessIsReal, HooksReplaced, SecretsRemembered |
| `backend` | 2 stacks, 2 operations, a migration handler, 1 crash, no surprise | 1,052,260 | Tracked, RefreshKeepsNamed |
| `setup` | 2 imports, 1 export, 1 user, 2 backups, key in the file, 1 fault, fairness | 778,389 | TypeOK, Readable, ExportsUsable, UsersKept, WritesReturn |
| `sync` | 2 servers, 2 requests at a time, 4 in all, of all kinds, 1 fault, states with more than 2 uploads not continued | 2,156,509 | TypeOK, NeverMixed, HealedByUp, ClaimedInTouch |
| `forwards` | 2 forwards, 2 DELETEs, 2 connections, 2 ports, fairness | 824,744 | TypeOK, CleanIsClean, ListenersListed, StopReturns |
| `read_race` | 1 stack, 2 operations, 1 reader | - | violation: a read clears the address the first up has discovered |
| `group_destroy_hangs` | 1 worker, 1 deployment, 1 destruction, fairness | - | violation: a DestroyGroup is never answered |
| `migration_loses_state` | 2 stacks, one with a project of its own | - | violation: a migrated stack is unknown to the new backend |

Bounds. Two operations are enough for what the engine's properties relate: a
holder and a contender, an operation and its successor; every property of
every passing run but those under fairness is also proved for any number.
`preview` is left out
of `engine`: it takes refresh's path without changing anything. In `service` two
operations give every order of rows against order of execution, a failure
after a success and a crash in either; `MaxAttempts` is 1 there, since `Retry`
matters to the engine alone. `Window` is one row, so that the older of the two
is out of sight as the twenty-first is in the code. `VIEW Seen` leaves out of
the comparison of states what no later step and neither property depends on:
the node addresses, `last`, and the result and context of an operation that
ended. The symmetry over operations is in addition to it. In `tunnels` a second
address would distinguish stale tunnels, about which nothing is claimed; the
second try of a node is the loop. `MaxEra` bounds how often a stack is
deleted. `RequestsSpec` leaves out Teardown, Restart and operations on a stack
that was deleted, which take the run from one minute to five; the three
safety properties are proved with them, and the two MeshTunnels configurations
among the observations have them.

In `group` two workers are the least for which positions, ports and a partial
failure differ; two attempts are a retry and its end. `NodeCount` is one:
phase 5 leaves no room for more (see the observations), and `DeployedIsWired`
is stated for that case. Outputs and writes do not fail there, to keep it
small; a run that has them fail is `group_destroy_hangs`, and
`MCGroupDeployLive.cfg` has the outputs fail. In `apps` the two applications
between them take every branch of the deployer; the group's caller and the
stack's contend for row, lock, file and job. `backend`: two operations are a
creation and its repair or removal, and one handler migrates there and back as
often as it is asked. In `setup` one backup has secrets in tables that an import
tests, the other only in those it does not; three keys are the imported one and two an instance may generate. `sync`: a
save, an up, a claim and one disturbance are four requests; two uploads are what
can arrive in the wrong order. In `forwards` two
forwards contend for two ports and a stopped one's port is taken again.

Operations, requests, stacks and migrations are interchangeable, and the runs
without liveness use that symmetry. Requests are consumed in `group`, `apps`,
`backend`, `setup`, `sync` and `forwards` (each name is one request), so these
may come to rest and deadlock is not checked there; in `engine`, `service`
and `tunnels` idle states always allow a request or a crash, and it is.

StackService, AppDeployer and Backend state a type invariant too (SvcTypeOK,
TypeOK), which is not part of their runs: all three are proved.

Fairness. `StackEngine`: every goroutine is scheduled (WF of its next own
step), the operator restarts the server, and a Pulumi call returns once it is
cancelled, because the automation API kills the process; nothing else bounds a
Pulumi call, so a call that is not cancelled may run for ever, and
LockReleased excepts it. `MeshTunnels`: every goroutine is scheduled and a
connection attempt ends (the probe has a deadline); the slot is a channel of
capacity one whose waiters Go serves in order, hence SF of TakeSlot.
`GroupDeploy`: handlers and jobs are scheduled and the operations in them end;
nobody has to disconnect, cancel or send anything. `Setup`: handlers are
scheduled, main takes the signal, Shutdown has a deadline, and the supervisor
starts the process again; nobody has to register. `PortForward`: only the
handler of a DELETE is scheduled and its timer fires; no connection has to end.

Preconditions that a reader should know. QuietAnswerTrue speaks of reads during
which no operation of the stack was under way (`Undisturbed`), and of those
that could read the state: a read beside an operation describes a moment that
is over. `Undisturbed` is about what is under way, not about what the read was
shown: an operation that is still in its pre-hooks, before the lock, while later
ones come and fail is pushed out of the rows the read gets, and its up may begin
between the read's steps. Such a read is disturbed although its history says that all is over.
What the history gets wrong when the state could not be read is listed under
the hazards. `SecretsRemembered` speaks of requests that come one after the
other and no group deployment; `NeverMixed` excepts races with a removal of the
PKI, `ClaimedInTouch` those with anything but the claim. `NoZombieRecord` and
`QuietStatusFinal` except the row and the status of a handler that panicked;
`Readable` and `ExportsUsable` a database imported untested with a wrong key;
`WritesReturn` an import that failed after it had closed the pool; `Tracked`
what the code gives up (see `lost`) and overlaps (`Calm`); `HooksReplaced`
applications the hook store failed for. `HealedByUp` and `ClaimedInTouch` are
about losses that a later up makes good: until then a late upload does replace
a newer one. `SuccessIsReal` excepts the callers that were misled, and
`AloneIsRegistered` a second deployment of the group. Each exception is a
behaviour the code has; none is reached by leaving it out of the model, and
where a property without its exception says what the repository says, it is
among the observations with its counterexample.

## Findings

Each is a run with a counterexample and a quoted statement, in `PROJECT.json`:
the lazy clearing of a live address (`read_race`), the destruction of a group
that is never answered (`group_destroy_hangs`), and the migration that leaves
behind the state of a stack with its own project (`migration_loses_state`).

## Observations

Configurations outside the runs, kept for reproduction; all but the one marked
have TLC show a violation.

| Configuration | Property | What TLC shows |
|---|---|---|
| `MCStackServiceNodes.cfg` | NodesFollowDeployment | a destroyed stack shows the addresses of its nodes |
| `MCStackServiceDeleteRace.cfg` | NoDeleteWhileRunning | an operation starts under a DeleteStack |
| `MCMeshTunnelsPassive.cfg` | NoPassiveOnceKnown | a passive tunnel inserted after discovery stays |
| `MCMeshTunnelsDelete.cfg` | FreshAfterDelete | tunnels outlive their stack |
| `MCGroupDeployLive.cfg` | DeployEnds | holds: a deployment ends, whatever fails |
| `MCAppDeployerHooks.cfg` | StoppingHookStops | a hook that must not be ignored does not stop the operation |
| `MCAppDeployerSecrets.cfg` | GroupRemembers | a group stores the secrets as they were before phase 6 generated them |
| `MCSetupElsewhere.cfg` | ExportsUsable | with a key from the environment or Consul, an export has an older key file |
| `MCRemoteSyncClaim.cfg` | ClaimWithoutMesh | a claim without the PKI generates another, whose upload replaces the agents' |
| `MCPortForwardForce.cfg` | ForceClosed | connections survive the end of the drain |
| `MCPortForwardWrong.cfg` | RightForward | the proxy dials a port that another forward has taken since |
| `MCStackEnginePanic.cfg` | RunningIsAlive | a deploy-apps panics and its row says "running" until a restart |
| `MCSetupFaith.cfg` | AllReadable | an import accepts a key that its database's rows cannot be read with |
| `MCSetupStuck.cfg` | WritesAlwaysReturn | an import fails after closing the write pool, and nothing opens it again |
| `MCBackendLoss.cfg` | MigrationKeeps | a migration to the active backend overwrites the live state |
| `MCBackendUnlock.cfg` | UnlockClears | a lock in S3 under a stack's own project is out of Unlock's reach |

Four more follow from the models without a configuration: a DestroyGroup as
the first group request since the start locks `groupMu` for good (`Register`);
phase 5 counts ports by worker, not by node, so with several nodes a worker's
port leads to another's; and a restart resets groups that were deploying, not
those that were being destroyed (`QuietStatusFinal` excepts it). The fourth
came out of a proof: a DeleteStack that overtakes a PutStack between its write
of the row and generateNebulaPKI (`api/stacks.go`) leaves a PKI without a
stack. An unlock does not show that stack as known, and a later claim keeps
the PKI it finds, so its server never has the CA the agents trust. It takes
seven requests, out of the reach of `sync`; `ClaimedInTouch` speaks of claims
whose unlock found no PKI (`good`).

## Proofs

`StackEngine_proofs` proves for every set of stacks, every set of operations,
any subset of the kinds and any number of attempts. The only assumptions are
those `StackEngine` names: there is a stack, `None` is not an operation, kinds
are known, there is at least one attempt. The inductive invariant is
`IInv == SharedInv /\ KeptInv`, where `SharedInv == TypeOK /\ LockInv /\
ResultInv /\ RowInv /\ TruthInv` is what also holds beside deletions.

* `LockInv` says of every place of the goroutine whether its stack is in
  `running` and its context in `cancels`. MutualExclusion alone is not
  inductive: releasing the lock keeps it only if no other goroutine is in a
  held place, and acquiring it only if `running` covers every held place.
* `ResultInv`: a goroutine has no result before its call is over and one when
  the handler goes on; only a panic reaches the deferred calls without one.
* `RowInv` ties the row to the place: if it is there, it says `running` while
  the goroutine lives or has panicked, and afterwards only while the server is
  down; it says
  `succeeded` only if the result does.
* `TruthInv` strengthens RecordTellsTruth from the row to the result, and
  adds that only the operation in `last` can change the cloud. It allows that
  nothing is known of the stack any more.
* `KeptInv` is what a deletion takes away: a living goroutine has its row, and
  the goal reached last is still there.

One lemma per part shows that each action keeps it (`TypeStep`, `ResultStep`,
`LockStep`, `RowStep`, `TruthStep`, `KeptStep`), and `Inductive` combines them
by PTL. The state
properties follow from IInv, `Final` (OutcomeFinal) from IInv and the action,
and `Implements` (`Spec => Serialised`) from `InitSerial` and `StepSerial`,
where `owners` is mapped to the goroutines in held places.

The second half of the module is about StackService, for every number of reads,
deletions and operations and any `Window`; it takes the same assumptions. Every
step but two of a deletion is a step of the engine or leaves it alone
(`SvcSteps`), so SharedInv is kept by the engine's lemmas, and by the two
because they only take rows and resources away (`LosingStep`). The invariant
is `SvcIInv == SharedInv /\ SvcTypeOK /\ \A r : ReadInv(r)`. `ReadInv` says of
a read in progress that what it saw ended stays ended, that it goes to clear an
address only if it takes the stack for not deployed, and that after it has read
a state without resources there are none as long as it is undisturbed. That is
inductive by a rely (`Moves`): an operation comes and ends once, and resources
appear only while an operation of the stack is in its Pulumi call. The history's
order, its window and its gaps do not occur in the argument, and need not: an
undisturbed answer is true because of the state, whatever the history says.
`AnswersTrue` and `ReadsKeepAddress` are QuietAnswerTrue and
QuietReadKeepsAddress. Of the engine's own promises, exclusion, lock and
cancellation hold unchanged beside reads and deletions (`ServiceExcludes`);
RecordTellsTruth and OutcomeFinal hold up to what is deleted (`ServiceTruth`,
`ServiceFinal`); and the refinement is one of `Serial!ForgetfulSpec`, in which a
stack may be forgotten at any time, its owner at work or not
(`ServiceImplements`). `ServiceIsEngine` assumes that there are no deletions
and shows that StackService then implements StackEngine itself.

The proof corrected a property. QuietAnswerTrue used to call a read undisturbed
if all operations *in its history* were over. With more operations than the
window has rows that is false, as a third operation in TLC showed: the first is
pushed out of sight before it has taken its lock. Hence `ended`, and the window
of one row in the run.

`MeshTunnels_proofs` proves for every set of nodes, goroutines and addresses
and any number of tries and deletions; it assumes that the stack's key is not
a node's, that `Nobody` is no goroutine and that there is at least one try.
`IInv == TypeOK /\ KeyInv /\ SlotHasHolder`. `KeyInv` is the strengthening: a
goroutine that waits for a slot wants a node (else there would be no slot to
take), and one that renders wants the stack's own tunnel (else it could come
to connect to a node without its slot). A goroutine's step keeps its claim to
a slot, takes a free one or gives its own back (`SlotKept`, `SlotTaken`,
`SlotReleased`); each action is one of the three. `TunnelsKept` (KeptWhileUsed)
goes through the actions that touch the cache, key by key (`Kept`).

`PortForward_proofs` proves for every set of forwards, stops, connections and
ports, and assumes that `None` is neither a forward nor a port. `IInv == TypeOK
/\ PlaceInv /\ CleanIsClean`. Neither ListenersListed nor CleanIsClean is
inductive: that a bound port is listed or being stopped needs to know that a
forward past `insert` is listed until exactly one stop names it, that nothing
is bound before and nothing bound after the listener was closed; and that a
clean drain stays clean needs to know that a stop past `cancel` has its context
cancelled, since a connection in the accept loop's hand may still be counted
and reach its dial. `PlaceInv` says both, of every place of `start` and
`stop`. `CleanStep` uses it in one action only, BeginDial.

`GroupDeploy_proofs` proves for every number of workers and nodes, every set of
deployments and destructions, any attempts and restarts, and whatever outputs
and writes may fail. It assumes that the two kinds of request are different
ones, `Nobody` is neither, and `Down` is no configuration. The invariant is
about three things no property names:

* `PlacesInv`, `HoldInv`: where a request can be, and that a destruction holds a
  worker only while that worker is still to do. PrimaryLast is HoldInv read at
  the moment the primary is held.
* `RegInv`: who is alone is alone *now*, and is the registered one. Without the
  first half nothing about the cloud is inductive, since any other request may
  change it.
* `TodoInv`, `ConfigInv`, `CloudInv`: what a deployment has in memory at each
  phase, and that a deployment that is alone finds in the cloud what it has in
  memory. DeployedIsWired is ConfigInv and CloudInv at the last phase, with
  nothing left to do.

A step of one request keeps what another remembers (`PhaseApart`), so CloudInv
needs a deployment's own steps only (the lemmas `...Keeps`). Addresses behind
the load balancer are positions in a rank order, and `Learned` and `Learn` say
what one read of the outputs adds to it; the lemmas at the head of the module
show that the order has no gaps, for any set of nodes.

`AppDeployer_proofs` proves for every number of applications and crashes, any
callers and destroys, and any subset of the applications that are periodic,
have secrets, volumes or hooks. It takes no assumption beyond the module's.
`HoldersInv` says that whoever touches files, jobs or hooks holds the engine's
lock, so one deployment's progress is not disturbed by another
(`OthersKeep`). `HookInv` and `RunsInv` are that progress: the applications
already done have exactly the hook rendered for them, and run what was
rendered unless they are in `failed`; HooksReplaced and SuccessIsReal are the
two at the end, when nothing is left. SecretsRemembered needs `KnowsInv`: while
requests come one after the other, the configuration in the hand of the
deployment at work knows every secret a file or a job has, and the row does
when none is at work. The row alone is not inductive, because jobs are
registered before the caller writes the row.

`Backend_proofs` proves for any stacks, operations, migrations, crashes and
surprises. `OpsInv` is the engine's exclusion. `NamedInv` says that only creations of ended
operations have an ID, which is why a refresh may clear the others
(RefreshKeepsNamed). `CalmInv`, before the first surprise: operations have a
passphrase, a stack being deleted has neither an operation nor a migration
beside it, and a removed one leaves behind only what was given up (`RowsInv`); a migration away from the active backend has copied what
it counts as moved and nobody has changed it since (`CopiesInv`); operations
work on the active backend (`AnnouncedInv`); and what exists is in its state or
in `lost` (`HeldInv`). A migration to the active backend needs no copies to be
right: what its import drops goes into `lost`, which is where the theorem says
no more than the code does. Tracked holds in the run, whose
stacks have no project of their own, and is false with one
(`migration_loses_state`); so `StaysTracked` and `MigratesAll` assume
`Foreign = {}`, and `Held` proves without it what remains true: a stack stored
under its blueprint's project is tracked whatever the others do.

`Setup_proofs` proves for any users, imports, exports and backups. `ImportInv`
gives, for each statement of ImportSetup, what it has done to database, key
file and temporary file, and that no second import is under way unless
something was disturbed; `KeyInv` that the key file is the running server's and
decrypts the database, but for `untested` rows once a key was `guessed`, except
between the rename and the write; `ExportInv` the
same for the archive of an export, from the moment it opens the database file. `AlwaysReadable` and `AlwaysUsable` assume
`KeyFrom = "file"`, as the run does: the second is false for a key from the
environment or Consul (`MCSetupElsewhere.cfg`), the first says nothing of
them. `UsersNeverLost` needs neither.

`RemoteSync_proofs` proves for any servers and any number of requests.
`MixInv` extends NeverMixed to what requests hold between two statements: each
knows which CA the first table has, and a server whose tables differ has a
removal between them. A request that has read one table and not yet the
other is of the same kind (`BetweenTables`): nobody replaces a PKI under it but
a removal, and a removal beside a reading is `torn` (`RemovingAlone`). `AloneInv` gives what a request alone finds of its own
earlier statements, and `HealInv` what stays true after an undisturbed up:
only claims run, and every upload still under way carries what is deployed. A
healed bucket is inductive only with that last part, since an upload may
arrive at any time.

Only model-checked:

* everything under fairness (CancelStops, LockReleased, CallsEnd, DeployEnds,
  WritesReturn, StopReturns), which TLAPS cannot prove;
* the properties of the observations, which are false.

## Not modelled

* Rendering, validation and agent injection (`blueprints/`, `agentinject/`,
  `cloud/oci/schema.go`): text transformations under unit test.
* Passphrases, credentials, SSH keys, accounts, sessions: CRUD on single rows;
  the check-then-delete of a passphrase is listed as a hazard.
* The contents of certificates and the numbering of subnets: RemoteSync knows a
  certificate by its CA.
* The SQLite writer is a bounded retry loop; its exhaustion (a write that fails
  after twelve tries and is ignored by its caller) is modelled only where a
  group saves configurations (`WritesMayFail`).
* ForwardManager.StopAll: nothing calls it.
* Agent shell, health and Nomad queries keep no state. Several servers that
  share one Consul key do not coordinate, and are left out of `Setup`.
* The SSE log, the export of a stack as YAML and user-defined hooks write rows
  nobody else reads. The frontend is outside the server.
