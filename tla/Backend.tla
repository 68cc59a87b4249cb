------------------------------ MODULE Backend ------------------------------
(***************************************************************************)
(* Where Pulumi's state lives: the local and the S3 backend, their choice  *)
(* (backendURL, PutSettings, PutCredentials), the checkpoints operations   *)
(* write and the locks they take, their repair after an interruption       *)
(* (recoverPendingOperations, Unlock), their migration (MigrateState,      *)
(* Engine.MigrateStacks) and their removal (RemoveStackState).             *)
(*                                                                         *)
(* A stack consists of one cloud resource, which Pulumi announces in the   *)
(* checkpoint as a pending creation before it asks the provider, and moves *)
(* to the resources once the provider has answered with its ID.  The engine*)
(* lock (StackEngine) keeps operations on a stack apart.                   *)
(***************************************************************************)
EXTENDS Naturals

CONSTANTS
    Stacks,
    Foreign,        \* whose YAML names another Pulumi project than the
                    \* blueprint they are listed under
    Ops,            \* up, refresh and destroy requests
    Migrations,     \* handlers of POST /settings/migrate-state, each serving
                    \* one request after the other
    None,
    AmbientKeys,    \* the process's own environment has the S3 keys
    MaxCrashes,     \* bound: restarts
    MaxSurprises    \* bound: requests that overlap, choices by hand

ASSUME SetsAssumption == Foreign \subseteq Stacks /\ None \notin Stacks
ASSUME BoundsAssumption ==
    AmbientKeys \in BOOLEAN /\ MaxCrashes \in Nat /\ MaxSurprises \in Nat

Backends == {"local", "s3"}
Projects == {"blueprint", "own"}
Kinds == {"up", "refresh", "destroy"}
\* A resource is called after the operation that created it.
Ids == Ops

VARIABLES
    chosen,     \* config/backend-type
    keys,       \* the S3 settings are complete
    rows,       \* the stacks table
    secret,     \* the rows that have a passphrase
    del,        \* DELETE /stacks/{name}, a request per stack
    state,      \* the checkpoint of each stack, per backend and project
    locks,      \* Pulumi's lock files: backend, project, stack
    cloud,      \* the resources that exist
    op,         \* operations: place, stack, kind, backend
    mig,        \* migrations: place, target, listed, open, and the export
    lost,       \* resources given up: a refresh found them without an ID, their
                \* stack was deleted, a migration overwrote the checkpoint
                \* that names them or left it behind
    surprises,  \* how often a request overlapped a migration or a deletion, a
                \* running stack's passphrase was taken away, or the backend
                \* was chosen by hand
    crashes

vars == <<chosen, keys, rows, secret, del, state, locks, cloud, op, mig, lost,
          surprises, crashes>>
settings == <<chosen, keys>>

\* "known": resources; "pending": creations announced; "named": with an ID.
Checkpoint == [known : SUBSET Ids, pending : SUBSET Ids, named : SUBSET Ids]
State(k, p, n) == [known |-> k, pending |-> p, named |-> n]
Empty == State({}, {}, {})
Migration(place, to, list) ==
    [place |-> place, to |-> to, list |-> list, todo |-> list, moved |-> {},
     cur |-> None, buffer |-> Empty]

Resting == Migration("idle", "s3", {})

Project(s) == IF s \in Foreign THEN "own" ELSE "blueprint"
Other(b) == IF b = "s3" THEN "local" ELSE "s3"
\* backendURL falls back to the local backend when S3 is not configured.
Backend == IF chosen = "s3" /\ keys THEN "s3" ELSE "local"
Active(s) == state[Backend][Project(s)][s]
Running == {op[o].stk : o \in Ops} \ {None}
Migrating == \E m \in Migrations : mig[m].place # "idle"
Calm == surprises = 0
Op(place, s, k, b) == [at |-> place, stk |-> s, kind |-> k, url |-> b]
Idle == Op("idle", None, "none", "local")
Done == Op("done", None, "none", "local")
Places == {"resolve", "run", "create", "save", "recovered"}
AllOps ==
    [at : Places \cup {"idle", "done"}, stk : Stacks \cup {None},
     kind : Kinds \cup {"none"}, url : Backends]
AllMigrations ==
    [place : {"idle", "check", "export", "import"}, to : Backends,
     list : SUBSET Stacks, todo : SUBSET Stacks, moved : SUBSET Stacks,
     cur : Stacks \cup {None}, buffer : Checkpoint]

TypeOK ==
    /\ chosen \in Backends /\ keys \in BOOLEAN
    /\ rows \subseteq Stacks /\ secret \subseteq rows
    /\ del \in [Stacks -> {"idle", "checked", "deleted"}]
    /\ state \in [Backends -> [Projects -> [Stacks -> Checkpoint]]]
    /\ locks \subseteq Backends \X Projects \X Stacks
    /\ cloud \in [Stacks -> SUBSET Ids]
    /\ op \in [Ops -> AllOps] /\ mig \in [Migrations -> AllMigrations]
    /\ \A o \in Ops : op[o] \in {Idle, Done} \/ (op[o].at \in Places /\ op[o].stk # None)
    /\ \A m \in Migrations :
          /\ mig[m].todo \subseteq mig[m].list
          /\ mig[m].moved \subseteq mig[m].list \ mig[m].todo
          /\ mig[m].place = "import" => mig[m].cur \in mig[m].list \ mig[m].todo
    /\ lost \subseteq Ids
    /\ crashes \in 0..MaxCrashes /\ surprises \in 0..MaxSurprises

Init ==
    /\ chosen = "local" /\ keys = FALSE /\ rows = {} /\ secret = {}
    /\ del = [s \in Stacks |-> "idle"]
    /\ state = [b \in Backends |-> [p \in Projects |-> [s \in Stacks |-> Empty]]]
    /\ locks = {} /\ cloud = [s \in Stacks |-> {}]
    /\ op = [o \in Ops |-> Idle]
    /\ mig = [m \in Migrations |-> Resting]
    /\ lost = {} /\ surprises = 0 /\ crashes = 0

----------------------------------------------------------------------------
\* Counts a request that p says to be a surprise.
Surprise(p) ==
    /\ p => surprises < MaxSurprises
    /\ surprises' = IF p THEN surprises + 1 ELSE surprises

\* PUT /stacks/{name} stores what the request says of the passphrase, if that
\* is that there is none.
PutStack(s, has) ==
    /\ rows' = rows \cup {s}
    /\ secret' = IF has THEN secret \cup {s} ELSE secret \ {s}
    /\ Surprise(IF s \in rows THEN s \in Running /\ ~has ELSE Migrating \/ del[s] # "idle")
    /\ UNCHANGED <<settings, state, cloud, op, mig, lost, crashes, locks, del>>

\* DeleteStack refuses while an operation runs; then it deletes the row, and
\* then the state of the local backend under the blueprint's name, of which
\* an error is only logged.
CheckIdle(s) ==
    /\ s \in rows /\ s \notin Running /\ del[s] = "idle"
    /\ del' = [del EXCEPT ![s] = "checked"]
    /\ Surprise(Migrating)
    /\ UNCHANGED <<settings, rows, state, cloud, op, mig, lost, crashes, locks, secret>>
DeleteRow(s) ==
    /\ del[s] = "checked" /\ del' = [del EXCEPT ![s] = "deleted"]
    /\ rows' = rows \ {s} /\ secret' = secret \ {s}
    /\ lost' = lost \cup cloud[s]
    /\ UNCHANGED <<settings, state, cloud, op, mig, surprises, crashes, locks>>
RemoveStackState(s) ==
    /\ del[s] = "deleted" /\ del' = [del EXCEPT ![s] = "idle"]
    /\ \/ state' = [state EXCEPT !["local"]["blueprint"][s] = Empty]
       \/ UNCHANGED state
    /\ UNCHANGED <<settings, rows, cloud, op, mig, lost, surprises, crashes, locks, secret>>

\* PutSettings, and PutCredentials, which does not look at the keys.
ChooseBackend ==
    /\ chosen' = Other(chosen) /\ Surprise(TRUE)
    /\ UNCHANGED <<keys, rows, state, cloud, op, mig, lost, crashes, locks, secret, del>>
PutKeys ==
    /\ ~keys /\ keys' = TRUE
    /\ Surprise(chosen # "local")
    /\ UNCHANGED <<chosen, rows, state, cloud, op, mig, lost, crashes, locks, secret, del>>

----------------------------------------------------------------------------
\* Operations.  Without a passphrase there is none (resolveCredentials); the
\* backend is looked up once, when the stack is resolved.
Mine(o) == state[op[o].url][Project(op[o].stk)][op[o].stk]
Write(o, c) == state' = [state EXCEPT ![op[o].url][Project(op[o].stk)][op[o].stk] = c]
Taken(o) == <<op[o].url, Project(op[o].stk), op[o].stk>>
Release(o) == locks' = locks \ {Taken(o)}
Goto(o, place) == op' = [op EXCEPT ![o].at = place]
End(o) == op' = [op EXCEPT ![o] = Done]

Begin(o, s, k) ==
    /\ op[o] = Idle /\ s \in secret /\ s \notin Running
    /\ op' = [op EXCEPT ![o] = Op("resolve", s, k, "local")]
    /\ Surprise(Migrating \/ del[s] # "idle")
    /\ UNCHANGED <<settings, rows, state, cloud, mig, lost, crashes, locks,
                   secret, del>>
Resolve(o) ==
    /\ op[o].at = "resolve"
    /\ op' = [op EXCEPT ![o].at = "run", ![o].url = Backend]
    /\ UNCHANGED <<settings, rows, state, cloud, mig, lost, surprises,
                   crashes, locks, secret, del>>

\* stack.Up: nothing to do, or a creation announced, asked for, recorded.
\* Pulumi refuses to work on a locked stack, and locks it while it works.
Announce(o) ==
    /\ op[o].at = "run" /\ op[o].kind = "up" /\ Taken(o) \notin locks
    /\ IF Mine(o).known # {} THEN End(o) /\ UNCHANGED <<state, locks>>
       ELSE /\ Write(o, State({}, Mine(o).pending \cup {o}, Mine(o).named))
            /\ locks' = locks \cup {Taken(o)} /\ Goto(o, "create")
    /\ UNCHANGED <<settings, rows, cloud, mig, lost, surprises, crashes, secret, del>>
Create(o) ==
    /\ op[o].at = "create" /\ Goto(o, "save")
    /\ cloud' = [cloud EXCEPT ![op[o].stk] = @ \cup {o}]
    /\ UNCHANGED <<settings, rows, state, mig, lost, surprises, crashes,
                   locks, secret, del>>
Record(o) ==
    /\ op[o].at = "save" /\ End(o) /\ Release(o)
    /\ Write(o, State({o}, Mine(o).pending \ {o}, Mine(o).named))
    /\ UNCHANGED <<settings, rows, cloud, mig, lost, surprises, crashes, secret, del>>

\* Interrupted by a cancellation or an error, such as another's lock: what
\* was announced stays pending, with the ID if the provider had answered.
Interrupt(o) ==
    /\ op[o] \notin {Idle, Done} /\ End(o)
    /\ IF op[o].at \in {"create", "save"} THEN Release(o) ELSE UNCHANGED locks
    /\ \/ UNCHANGED state
       \/ /\ op[o].at = "save"
          /\ Write(o, State(Mine(o).known, Mine(o).pending \cup {o}, Mine(o).named \cup {o}))
    /\ UNCHANGED <<settings, rows, cloud, mig, lost, surprises, crashes, secret, del>>

\* recoverPendingOperations: what has an ID becomes a resource, the rest is
\* dropped with a warning.
PromotedNone(c) == State(c.known, {}, {})
Promoted(c) == State(c.known \cup (c.pending \cap c.named), {}, {})
Recover(o) ==
    /\ op[o].at = "run" /\ op[o].kind = "refresh" /\ Goto(o, "recovered")
    /\ Write(o, Promoted(Mine(o)))
    /\ lost' = lost \cup (Mine(o).pending \ Mine(o).named)
    /\ UNCHANGED <<settings, rows, cloud, mig, surprises, crashes, locks, secret, del>>
Refresh(o) ==
    /\ op[o].at = "recovered" /\ Taken(o) \notin locks /\ End(o)
    /\ Write(o, [Mine(o) EXCEPT !.known = @ \cap cloud[op[o].stk]])
    /\ UNCHANGED <<settings, rows, cloud, mig, lost, surprises, crashes,
                   locks, secret, del>>

Destroy(o) ==
    /\ op[o].at = "run" /\ op[o].kind = "destroy" /\ Taken(o) \notin locks /\ End(o)
    /\ cloud' = [cloud EXCEPT ![op[o].stk] = @ \ Mine(o).known]
    /\ Write(o, [Mine(o) EXCEPT !.known = {}])
    /\ UNCHANGED <<settings, rows, mig, lost, surprises, crashes, locks, secret, del>>

\* Unlock removes the local lock files of all projects, and asks Pulumi to
\* cancel under the project names it knows, which may fail unnoticed.  It
\* does not ask whether an operation runs.
Reached(s, selected) ==
    {l \in locks : \/ l[1] = "local" /\ l[3] = s
                   \/ selected /\ l = <<Backend, "blueprint", s>>}
Unlock(s) ==
    /\ \E selected \in BOOLEAN : Reached(s, selected) # {} /\ locks' = locks \ Reached(s, selected)
    /\ UNCHANGED <<settings, rows, state, cloud, op, mig, lost, surprises,
                   crashes, secret, del>>

OpStep(o) ==
    \/ \E s \in Stacks, k \in Kinds : Begin(o, s, k)
    \/ Resolve(o) \/ Announce(o) \/ Create(o) \/ Record(o) \/ Interrupt(o)
    \/ Recover(o) \/ Refresh(o) \/ Destroy(o)

----------------------------------------------------------------------------
\* MigrateState lists the stacks that have a passphrase, "stacks without
\* passphrases ... have no state" (settings.go:293); with none the backend is
\* just switched.  It does not ask which backend is the active one.
Names(c) == c.known \cup c.pending
LeftBehind(to, list) ==
    UNION {Names(Active(s)) \ Names(state[to][Project(s)][s]) : s \in rows \ list}
Step(m, r) == mig' = [mig EXCEPT ![m] = r]
List(m, to) ==
    /\ mig[m].place = "idle" /\ keys
    /\ IF secret = {} THEN /\ chosen' = to /\ lost' = lost \cup LeftBehind(to, {})
                           /\ UNCHANGED mig
       ELSE /\ UNCHANGED <<chosen, lost>>
            /\ Step(m, Migration("check", to, secret))
    /\ Surprise(Migrating \/ \E s \in Stacks : del[s] # "idle")
    /\ UNCHANGED <<keys, rows, state, cloud, op, crashes, locks, secret, del>>

\* MigrateStacks asks once whether any of them is busy.
CheckNone(m) ==
    /\ mig[m].place = "check"
    /\ Step(m, [mig[m] EXCEPT !.place = "export"])
    /\ UNCHANGED <<settings, rows, state, cloud, op, lost, surprises,
                   crashes, locks, secret, del>>
Check(m) ==
    /\ mig[m].place = "check"
    /\ Step(m, IF mig[m].list \cap Running # {} THEN Resting
               ELSE [mig[m] EXCEPT !.place = "export"])
    /\ UNCHANGED <<settings, rows, state, cloud, op, lost, surprises,
                   crashes, locks, secret, del>>

\* Both backends are opened under the blueprint's project name.  The S3 keys
\* are passed only when the target is S3.
MayOpenSource(m) == mig[m].to = "s3" \/ AmbientKeys
Export(m, s) ==
    /\ mig[m].place = "export" /\ s \in mig[m].todo
    /\ \/ /\ MayOpenSource(m)
          /\ Step(m, [mig[m] EXCEPT !.place = "import", !.todo = @ \ {s}, !.cur = s,
                        !.buffer = state[Other(mig[m].to)]["blueprint"][s]])
       \/ Step(m, [mig[m] EXCEPT !.todo = @ \ {s}])      \* SKIP
    /\ UNCHANGED <<settings, rows, state, cloud, op, lost, surprises,
                   crashes, locks, secret, del>>

Import(m) ==
    /\ mig[m].place = "import"
    /\ LET s == mig[m].cur
           next == [mig[m] EXCEPT !.place = "export", !.cur = None, !.buffer = Empty]
           dropped == Names(state[mig[m].to]["blueprint"][s]) \ Names(mig[m].buffer)
       IN  \/ /\ state' = [state EXCEPT ![mig[m].to]["blueprint"][s] = mig[m].buffer]
              /\ lost' = IF mig[m].to = Backend THEN lost \cup dropped ELSE lost
              /\ Step(m, [next EXCEPT !.moved = @ \cup {s}])
           \/ Step(m, next) /\ UNCHANGED <<state, lost>>     \* FAIL
    /\ UNCHANGED <<settings, rows, cloud, op, surprises, crashes, locks, secret, del>>

\* The backend is switched when every stack of the list was migrated.
Switch(m) ==
    /\ mig[m].place = "export" /\ mig[m].todo = {}
    /\ IF mig[m].moved = mig[m].list
       THEN chosen' = mig[m].to /\ lost' = lost \cup LeftBehind(mig[m].to, mig[m].list)
       ELSE UNCHANGED <<chosen, lost>>
    /\ Step(m, Resting)
    /\ UNCHANGED <<keys, rows, state, cloud, op, surprises, crashes, locks, secret, del>>

\* A crash leaves the locks of whatever ran.
Crash ==
    /\ crashes < MaxCrashes /\ crashes' = crashes + 1
    /\ Running # {} \/ Migrating \/ \E s \in Stacks : del[s] # "idle"
    /\ del' = [s \in Stacks |-> "idle"]
    /\ \E held \in SUBSET {Taken(o) : o \in {u \in Ops : op[u].at \in {"run", "recovered"}}} :
          locks' = locks \cup held
    /\ op' = [o \in Ops |-> IF op[o] = Idle THEN Idle ELSE Done]
    /\ mig' = [m \in Migrations |-> Resting]
    /\ UNCHANGED <<settings, rows, state, cloud, lost, surprises, secret>>

MigrationStep(m) ==
    \/ \E to \in Backends : List(m, to)
    \/ Check(m) \/ Import(m) \/ Switch(m)
    \/ \E s \in Stacks : Export(m, s)

Next ==
    \/ \E s \in Stacks : \/ \E has \in BOOLEAN : PutStack(s, has)
                         \/ CheckIdle(s) \/ DeleteRow(s) \/ RemoveStackState(s) \/ Unlock(s)
    \/ \E o \in Ops : OpStep(o)
    \/ \E m \in Migrations : MigrationStep(m)
    \/ ChooseBackend \/ PutKeys \/ Crash

Spec == Init /\ [][Next]_vars

----------------------------------------------------------------------------
\* What exists in the cloud and was not given up is in the active backend's
\* state of its stack, if only as a pending creation: through interrupted
\* operations, crashes, failed and repeated migrations in both directions.
\* It is given up (lost) by a refresh that finds it without an ID, with its
\* stack, and by the code's migrations in two ways: settings.go:272 does not
\* ask whether the target is the backend already active, and such a migration
\* overwrites the live state with the other backend's; and a stack whose
\* passphrase was removed is left behind (settings.go:292).
\* Not covered (Calm): a stack or an operation that begins while a migration
\* or the stack's deletion runs, a deletion beside a migration, two migrations
\* at once, a passphrase removed under a running operation, a switch by hand.
Tracked ==
    Calm => \A s \in rows \ Running : cloud[s] \ lost \subseteq Names(Active(s))

\* "Migrates all stack state" (settings.go:228) would mean that a migration
\* gives nothing up, only a refresh and a deletion do; the two ways above
\* refute it.
MigrationKeeps == [][Calm /\ lost' # lost => op' # op \/ del' # del]_vars

\* A refresh forgets no creation whose ID is known, and leaves none pending
\* (engine.go:1063).
RefreshKeepsNamed ==
    [][\A o \in Ops : op[o].at = "run" /\ op'[o].at = "recovered" =>
          /\ Mine(o)'.pending = {}
          /\ cloud[op[o].stk] \cap (Mine(o).known \cup Mine(o).named)
                \subseteq Mine(o)'.known]_vars

\* "MigrateState migrates all stack state from local backend to S3 (or vice
\* versa)" (settings.go:228): after the switch the resources of every stack on
\* the list are known to the new backend as they were to the old one.
MigratesAllState ==
    [][\A m \in Migrations :
         Calm /\ mig[m].place = "export" /\ mig'[m].place = "idle"
              /\ chosen' # chosen =>
            \A s \in mig[m].list : Active(s).known \subseteq Active(s)'.known]_vars

\* "Unlock clears a stuck Pulumi state lock ... left by a crashed operation"
\* (docs/api.md:475): the lock that keeps a stack's operations out is one
\* that Unlock, when all goes well, removes.
UnlockClears ==
    \A s \in rows \ Running : <<Backend, Project(s), s>> \in locks =>
                              <<Backend, Project(s), s>> \in Reached(s, TRUE)
=============================================================================
