---------------------------- MODULE AppDeployer ----------------------------
(***************************************************************************)
(* The application deployer (internal/applications/deployer.go) with its   *)
(* two callers, StackDeployApps (api/stacks.go) and phase 6 of a group's   *)
(* deployment (api/group_deploy.go), and the lifecycle hooks (api/hooks.go,*)
(* db/hooks.go) of one stack.                                              *)
(*                                                                         *)
(* What an application is configured with is the secret the deployer       *)
(* generates for it: 0 when the field is empty, else the n-th minted.  The *)
(* agent stores a job file and runs commands; Nomad registers the file as  *)
(* a new version of the job and deploys it in its own time.                *)
(***************************************************************************)
EXTENDS Integers, Sequences

CONSTANTS
    NumApps,        \* workload applications of the blueprint's catalog
    Generated,      \* with an empty field that isSecretField accepts
    Mounted,        \* with volumes
    Batch,          \* periodic jobs: no evaluation, no deployment
    Hooked,         \* with a pre-destroy hook
    Stopping,       \* whose hook has continueOnError = false
    StackCallers,   \* POST /stacks/{name}/deploy-apps
    GroupCallers,   \* deployments of the stack's group, up to phase 6
    Destroyers,     \* POST /stacks/{name}/destroy
    Nobody,
    MaxCrashes      \* bound: restarts of the server

Apps == 1..NumApps
Callers == StackCallers \cup GroupCallers
Requests == Callers \cup Destroyers
Absent == -1

ASSUME AppsAssumption ==
    /\ NumApps \in Nat \ {0} /\ Stopping \subseteq Hooked
    /\ {Generated, Mounted, Batch, Hooked} \subseteq SUBSET Apps
ASSUME RequestsAssumption ==
    /\ Nobody \notin Requests
    /\ StackCallers \cap GroupCallers = {} /\ Callers \cap Destroyers = {}
ASSUME BoundsAssumption == MaxCrashes \in Nat

VARIABLES
    row,        \* the stack's config: selection and appConfig
    settings,   \* the group's app_config
    lock,       \* who holds the engine's lock on the stack
    cancelled,  \* whose context was cancelled
    at,         \* where each request is
    cfg,        \* the config a caller works on
    todo,       \* applications, or hooks, still to be treated
    failed,     \* applications that failed; once all have been deployed,
                \* those the hook store failed for
    result,     \* the status of a request
    file,       \* the job file on the agent's node
    job,        \* registered version, version of the latest deployment, state
    hooks,      \* registered hooks of each application, by their secret
    minted,     \* secrets generated so far
    misled,     \* callers that took another answer for theirs
    stopped,    \* destroyers a hook of which failed that must not be ignored
    clean,      \* no two requests overlapped, no crash, no group deployment
    crashes

vars == <<row, settings, lock, cancelled, at, cfg, todo, failed, result, file,
          job, hooks, minted, misled, stopped, clean, crashes>>
world == <<file, job, hooks>>

Secrets == [Apps -> Nat]
NoSecrets == [a \in Apps |-> 0]
\* "given": appConfig is a map, not nil.
RowOf(apps, given, s) == [apps |-> apps, given |-> given, secrets |-> s]
Rows == [apps : SUBSET Apps, given : BOOLEAN, secrets : Secrets]
Unread == RowOf({}, FALSE, NoSecrets)
NoJob == [spec |-> Absent, dep |-> Absent, st |-> "none"]

Places == {"idle", "load", "save", "lock", "agent", "upload", "volumes",
           "register", "poll", "hooks", "create", "unlock", "store", "pre",
           "down", "done"}
Active(r) == at[r] \notin {"idle", "done"}
Quiet == \A r \in Requests : ~Active(r)

Jobs == [spec : Nat \cup {Absent}, dep : Nat \cup {Absent},
         st : {"none", "running", "successful", "failed"}]

TypeOK ==
    /\ row \in Rows
    /\ settings \in [given : BOOLEAN, secrets : Secrets]
    /\ lock \in Requests \cup {Nobody} /\ cancelled \subseteq Requests
    /\ at \in [Requests -> Places] /\ cfg \in [Callers -> Rows]
    /\ todo \in [Requests -> SUBSET Apps] /\ failed \in [Callers -> SUBSET Apps]
    /\ result \in [Requests -> {"none", "succeeded", "failed", "cancelled", "conflict"}]
    /\ file \in [Apps -> Nat \cup {Absent}] /\ job \in [Apps -> Jobs]
    /\ hooks \in [Apps -> Seq(Nat)] /\ minted \in Nat
    /\ misled \subseteq Callers /\ stopped \subseteq Destroyers
    /\ clean \in BOOLEAN /\ crashes \in 0..MaxCrashes

\* Nothing was deployed yet, or an earlier request deployed everything.
Init ==
    /\ \E deployed \in BOOLEAN, given \in BOOLEAN :
        LET s == [a \in Apps |-> IF deployed /\ a \in Generated THEN 1 ELSE 0]
        IN  /\ deployed => given
            /\ row = RowOf(Apps, given, s)
            /\ settings = [given |-> given, secrets |-> NoSecrets]
            /\ file = [a \in Apps |-> IF deployed THEN s[a] ELSE Absent]
            /\ job = [a \in Apps |-> IF deployed
                          THEN [spec |-> s[a], dep |-> s[a], st |-> "successful"]
                          ELSE NoJob]
            /\ hooks = [a \in Apps |-> IF deployed /\ a \in Hooked
                                        THEN <<s[a]>> ELSE <<>>]
            /\ minted = IF deployed THEN 1 ELSE 0
    /\ lock = Nobody /\ cancelled = {}
    /\ at = [r \in Requests |-> "idle"] /\ cfg = [c \in Callers |-> Unread]
    /\ todo = [r \in Requests |-> {}] /\ failed = [c \in Callers |-> {}]
    /\ result = [r \in Requests |-> "none"]
    /\ misled = {} /\ stopped = {}
    /\ clean = TRUE /\ crashes = 0

----------------------------------------------------------------------------
Goto(r, place) == at' = [at EXCEPT ![r] = place]

\* The end of a caller's request, and with it of what it worked on.
Leave(c) ==
    /\ Goto(c, "done")
    /\ cfg' = [cfg EXCEPT ![c] = Unread]
    /\ todo' = [todo EXCEPT ![c] = {}] /\ failed' = [failed EXCEPT ![c] = {}]
    /\ misled' = misled \ {c} /\ cancelled' = cancelled \ {c}
Start(r, place) ==
    /\ at[r] = "idle" /\ Goto(r, place)
    /\ clean' = (clean /\ Quiet /\ r \notin GroupCallers)

\* loadStackConfig: the config as it is now, for the whole request.
RequestDeploy(c) ==
    /\ c \in StackCallers /\ Start(c, "lock")
    /\ cfg' = [cfg EXCEPT ![c] = row]
    /\ UNCHANGED <<row, settings, lock, cancelled, todo, failed, result, world,
                   minted, misled, stopped, crashes>>

\* DeployGroup reads the group's settings first.  Until phase 6 it rewrites
\* the stack's row several times, without applications (updateStackConfig).
RequestGroup(c) ==
    /\ c \in GroupCallers /\ Start(c, "save")
    /\ cfg' = [cfg EXCEPT ![c] = RowOf(Apps, settings.given, settings.secrets)]
    /\ row' = RowOf({}, FALSE, NoSecrets)
    /\ UNCHANGED <<settings, lock, cancelled, todo, failed, result, world,
                   minted, misled, stopped, crashes>>

SaveSelection(c) ==
    /\ at[c] = "save" /\ Goto(c, "lock")
    /\ row' = cfg[c]
    /\ UNCHANGED <<settings, lock, cancelled, cfg, todo, failed, result, world,
                   minted, misled, stopped, clean, crashes>>

\* tryLock; a conflict ends the deployment but not the request.
Lock(r, place) ==
    /\ at[r] = "lock"
    /\ \/ lock = Nobody /\ lock' = r /\ Goto(r, place) /\ UNCHANGED result
       \/ /\ lock # Nobody /\ UNCHANGED lock
          /\ result' = [result EXCEPT ![r] = "conflict"]
          /\ Goto(r, IF r \in Callers THEN "store" ELSE "done")

BeginApps(c) ==
    /\ c \in Callers /\ Lock(c, "agent")
    /\ UNCHANGED <<row, settings, cancelled, cfg, todo, failed, world, minted,
                   misled, stopped, clean, crashes>>

Return(c, status) ==
    /\ result' = [result EXCEPT ![c] = IF status = "failed" /\ c \in cancelled
                                       THEN "cancelled" ELSE status]
    /\ Goto(c, "unlock")

\* waitForAgent: until the agent answers, for 10 minutes, or until cancelled.
Agent(c) ==
    /\ at[c] = "agent"
    /\ \/ /\ c \notin cancelled /\ cfg[c].apps # {}
          /\ todo' = [todo EXCEPT ![c] = cfg[c].apps]
          /\ Goto(c, "upload") /\ UNCHANGED result
       \/ /\ c \notin cancelled /\ cfg[c].apps = {}
          /\ Return(c, "succeeded") /\ UNCHANGED todo
       \/ Return(c, "failed") /\ UNCHANGED todo
    /\ UNCHANGED <<row, settings, lock, cancelled, cfg, failed, world, minted,
                   misled, stopped, clean, crashes>>

----------------------------------------------------------------------------
\* The loop over the selected applications, in the catalog's order.
App(c) == CHOOSE a \in todo[c] : \A b \in todo[c] : a <= b
NextApp(c, ok) ==
    /\ todo' = [todo EXCEPT ![c] = @ \ {App(c)}]
    /\ failed' = [failed EXCEPT ![c] = IF ok THEN @ ELSE @ \cup {App(c)}]
    /\ Goto(c, "upload")
Stay(c, place) == Goto(c, place) /\ UNCHANGED <<todo, failed>>

\* The agent truncates the file first and then copies the body into it.
Stored(a, s) == file' = [file EXCEPT ![a] = s]

\* uploadJobFile: an empty secret is generated and stored in the map the
\* caller passed, even if the upload then fails and leaves half a file.
MustMint(c) == App(c) \in Generated /\ cfg[c].secrets[App(c)] = 0

Upload(c) ==
    /\ at[c] = "upload" /\ todo[c] # {}
    /\ LET a == App(c)
           s == IF MustMint(c) THEN minted + 1 ELSE cfg[c].secrets[a]
       IN  \/ /\ NextApp(c, FALSE)      \* no tunnel
              /\ UNCHANGED <<cfg, minted, file>>
           \/ /\ MustMint(c) => cfg[c].given
              /\ cfg' = [cfg EXCEPT ![c].secrets[a] = s]
              /\ minted' = IF MustMint(c) THEN s ELSE minted
              /\ \/ /\ c \notin cancelled /\ Stored(a, s)
                    /\ Stay(c, IF a \in Mounted THEN "volumes" ELSE "register")
                 \/ Stored(a, Absent) /\ NextApp(c, FALSE)
                 \/ UNCHANGED file /\ NextApp(c, FALSE)
    /\ UNCHANGED <<row, settings, lock, cancelled, result, job, hooks, misled,
                   stopped, clean, crashes>>

\* Writing the secret to a nil map panics: the deferred calls unlock, and
\* nothing after the deployment is done, not even Ops.Finish.
Panic(c) ==
    /\ at[c] = "upload" /\ todo[c] # {}
    /\ MustMint(c) /\ ~cfg[c].given
    /\ lock' = Nobody
    /\ Leave(c)
    /\ UNCHANGED <<row, settings, result, world, minted, stopped, clean, crashes>>

\* ExecOnAgent fails under a cancelled context and when the connection does.
\* It takes an answer without an exit marker, which is what the agent sends
\* when it cannot start the command, for exit code 0.
ExecOnAgent(c) ==
    {"error"} \cup (IF c \in cancelled THEN {} ELSE {"exit 0", "no marker"})

\* ensureVolumes; an existing volume is left alone.
Volumes(c) ==
    /\ at[c] = "volumes"
    /\ \E answer \in ExecOnAgent(c) :
          IF answer = "error" THEN NextApp(c, FALSE) ELSE Stay(c, "register")
    /\ UNCHANGED <<row, settings, lock, cancelled, cfg, result, world, minted,
                   misled, stopped, clean, crashes>>

\* deployWorkload: "nomad job run -detach".  An answer that names no
\* evaluation is a batch job's: there is nothing to wait for.  An error may
\* come although the job was registered.
Registered(a) == job' = [job EXCEPT ![a].spec = file[a],
                                    ![a].st = IF a \in Batch THEN "successful" ELSE @,
                                    ![a].dep = IF a \in Batch THEN file[a] ELSE @]
Register(c) ==
    /\ at[c] = "register"
    /\ LET a == App(c)
       IN \E answer \in ExecOnAgent(c) :
           \/ /\ answer = "exit 0" /\ Registered(a)
              /\ IF a \in Batch THEN NextApp(c, TRUE) ELSE Stay(c, "poll")
              /\ UNCHANGED misled
           \/ /\ answer = "error" /\ NextApp(c, FALSE)
              /\ Registered(a) \/ UNCHANGED job
              /\ UNCHANGED misled
           \/ /\ answer = "no marker" /\ NextApp(c, TRUE)
              /\ misled' = misled \cup {c}
              /\ UNCHANGED job
    /\ UNCHANGED <<row, settings, lock, cancelled, cfg, result, file, hooks,
                   minted, stopped, clean, crashes>>

\* The poll asks for the job's latest deployment, not for this version's.
Poll(c) ==
    /\ at[c] = "poll"
    /\ LET j == job[App(c)]
       IN  \/ /\ c \notin cancelled /\ j.st \in {"successful", "failed"}
              /\ NextApp(c, j.st = "successful")
              /\ misled' = IF j.dep # j.spec THEN misled \cup {c} ELSE misled
           \/ NextApp(c, FALSE) /\ UNCHANGED misled     \* timeout, cancelled
    /\ UNCHANGED <<row, settings, lock, cancelled, cfg, result, world, minted,
                   stopped, clean, crashes>>

\* Any failure ends the deployment before the hooks are registered.
AfterAppsBlind(c) ==
    /\ at[c] = "upload" /\ todo[c] = {}
    /\ todo' = [todo EXCEPT ![c] = Hooked \cap cfg[c].apps] /\ UNCHANGED result
    /\ Goto(c, "hooks")
    /\ UNCHANGED <<row, settings, lock, cancelled, cfg, failed, world, minted,
                   misled, stopped, clean, crashes>>

AfterApps(c) ==
    /\ at[c] = "upload" /\ todo[c] = {}
    /\ IF failed[c] # {} THEN Return(c, "failed") /\ UNCHANGED todo
       ELSE /\ todo' = [todo EXCEPT ![c] = Hooked \cap cfg[c].apps]
            /\ Goto(c, "hooks") /\ UNCHANGED result
    /\ UNCHANGED <<row, settings, lock, cancelled, cfg, failed, world, minted,
                   misled, stopped, clean, crashes>>

\* registerAppHooks: those of the same source go, then the new one comes.  An
\* error of the hook store is sent to the log and changes no status: the old
\* hook stays, or none is left.
DropNothing(a) == UNCHANGED hooks
DropHooks(a) == hooks' = [hooks EXCEPT ![a] = <<>>]
NextHook(c, ok) ==
    /\ todo' = [todo EXCEPT ![c] = @ \ {App(c)}]
    /\ failed' = [failed EXCEPT ![c] = IF ok THEN @ ELSE @ \cup {App(c)}]
    /\ Goto(c, "hooks")

ClearHooks(c) ==
    /\ at[c] = "hooks"
    /\ \/ /\ todo[c] = {} /\ Return(c, "succeeded")
          /\ UNCHANGED <<todo, failed, hooks>>
       \/ /\ todo[c] # {} /\ DropHooks(App(c)) /\ Goto(c, "create")
          /\ UNCHANGED <<todo, failed, result>>
       \/ /\ todo[c] # {} /\ NextHook(c, FALSE)
          /\ UNCHANGED <<hooks, result>>
    /\ UNCHANGED <<row, settings, lock, cancelled, cfg, file, job, minted, misled,
                   stopped, clean, crashes>>

CreateHook(c) ==
    /\ at[c] = "create"
    /\ \/ /\ NextHook(c, TRUE)
          /\ hooks' = [hooks EXCEPT ![App(c)] = Append(@, cfg[c].secrets[App(c)])]
       \/ NextHook(c, FALSE) /\ UNCHANGED hooks
    /\ UNCHANGED <<row, settings, lock, cancelled, cfg, result, file, job, minted,
                   misled, stopped, clean, crashes>>

Unlock(r) ==
    /\ at[r] = "unlock" /\ lock' = Nobody /\ cancelled' = cancelled \ {r}
    /\ Goto(r, IF r \in Callers THEN "store" ELSE "done")
    /\ UNCHANGED <<row, settings, cfg, todo, failed, result, world,
                   minted, misled, stopped, clean, crashes>>

\* StackDeployApps writes its whole config back, whatever the result; a
\* group reads the row again, in which it had saved the settings before the
\* secrets were generated.
StoreSucceeded(c) ==
    /\ at[c] = "store" /\ Leave(c)
    /\ IF c \in StackCallers /\ result[c] = "succeeded"
       THEN row' = cfg[c] /\ UNCHANGED settings
       ELSE UNCHANGED <<row, settings>>
    /\ UNCHANGED <<lock, result, world, minted, stopped, clean, crashes>>

Store(c) ==
    /\ at[c] = "store" /\ Leave(c)
    /\ IF c \in StackCallers THEN row' = cfg[c] /\ UNCHANGED settings
       ELSE /\ UNCHANGED row
            /\ settings' = IF result[c] = "succeeded" /\ row.given
                           THEN [given |-> TRUE, secrets |-> row.secrets]
                           ELSE settings
    /\ UNCHANGED <<lock, result, world, minted, stopped, clean, crashes>>

CallerStep(c) ==
    \/ SaveSelection(c) \/ BeginApps(c) \/ Agent(c) \/ Upload(c) \/ Panic(c)
    \/ Volumes(c) \/ Register(c) \/ Poll(c) \/ AfterApps(c) \/ ClearHooks(c)
    \/ CreateHook(c) \/ Unlock(c) \/ Store(c)

----------------------------------------------------------------------------
\* Those that a destroy runs, in order of priority.
ListByTrigger == {a \in Apps : hooks[a] # <<>>}

\* runOperation("destroy"): executeHooks reads the hooks in order of
\* priority and runs them on the node through the agent.
RequestDestroy(d) ==
    /\ d \in Destroyers /\ Start(d, "pre")
    /\ todo' = [todo EXCEPT ![d] = ListByTrigger]
    /\ UNCHANGED <<row, settings, lock, cancelled, cfg, failed, result, world,
                   minted, misled, stopped, crashes>>

\* A failed hook with continueOnError = false keeps the remaining hooks from
\* running, and nothing else.
PreHook(d) ==
    /\ d \in Destroyers /\ at[d] = "pre"
    /\ \/ todo[d] = {} /\ Goto(d, "lock") /\ UNCHANGED <<todo, stopped>>
       \/ /\ todo[d] # {}
          /\ \E ok \in BOOLEAN :
                IF ok \/ App(d) \notin Stopping
                THEN /\ todo' = [todo EXCEPT ![d] = @ \ {App(d)}]
                     /\ UNCHANGED <<at, stopped>>
                ELSE /\ Goto(d, "lock")
                     /\ stopped' = stopped \cup {d}
                     /\ todo' = [todo EXCEPT ![d] = {}]
    /\ UNCHANGED <<row, settings, lock, cancelled, cfg, failed, result, world,
                   minted, misled, clean, crashes>>

BeginDown(d) ==
    /\ d \in Destroyers /\ Lock(d, "down")
    /\ UNCHANGED <<row, settings, cancelled, cfg, todo, failed, world, minted,
                   misled, stopped, clean, crashes>>

\* Engine.Destroy: with the instances go the files and the jobs on them.
Down(d) ==
    /\ at[d] = "down"
    /\ \/ /\ Return(d, "succeeded")
          /\ file' = [a \in Apps |-> Absent] /\ job' = [a \in Apps |-> NoJob]
       \/ Return(d, "failed") /\ UNCHANGED <<file, job>>
    /\ UNCHANGED <<row, settings, lock, cancelled, cfg, todo, failed, hooks,
                   minted, misled, stopped, clean, crashes>>

DestroyerStep(d) == PreHook(d) \/ BeginDown(d) \/ Down(d) \/ Unlock(d)

----------------------------------------------------------------------------
\* StackCancel reaches whoever holds the lock.
Cancel ==
    /\ lock # Nobody /\ at[lock] # "unlock"
    /\ cancelled' = cancelled \cup {lock}
    /\ UNCHANGED <<row, settings, lock, at, cfg, todo, failed, result, world,
                   minted, misled, stopped, clean, crashes>>

\* Nomad's scheduler: a deployment of the registered version, and its end.
Schedule(a) ==
    /\ job[a].spec # job[a].dep
    /\ job' = [job EXCEPT ![a].dep = job[a].spec, ![a].st = "running"]
    /\ UNCHANGED <<row, settings, lock, cancelled, at, cfg, todo, failed, result,
                   file, hooks, minted, misled, stopped, clean, crashes>>

Settle(a) ==
    /\ job[a].st = "running"
    /\ \E st \in {"successful", "failed"} : job' = [job EXCEPT ![a].st = st]
    /\ UNCHANGED <<row, settings, lock, cancelled, at, cfg, todo, failed, result,
                   file, hooks, minted, misled, stopped, clean, crashes>>

Crash ==
    /\ crashes < MaxCrashes /\ ~Quiet
    /\ crashes' = crashes + 1 /\ clean' = FALSE
    /\ lock' = Nobody /\ cancelled' = {}
    /\ at' = [r \in Requests |-> IF Active(r) THEN "done" ELSE at[r]]
    /\ cfg' = [c \in Callers |-> Unread] /\ misled' = {}
    /\ todo' = [r \in Requests |-> {}] /\ failed' = [c \in Callers |-> {}]
    /\ UNCHANGED <<row, settings, result, world, minted, stopped>>

Next ==
    \/ \E c \in Callers : RequestDeploy(c) \/ RequestGroup(c) \/ CallerStep(c)
    \/ \E d \in Destroyers : RequestDestroy(d) \/ DestroyerStep(d)
    \/ \E a \in Apps : Schedule(a) \/ Settle(a)
    \/ Cancel \/ Crash

Spec == Init /\ [][Next]_vars

----------------------------------------------------------------------------
\* A deployment that reports success, and was not misled by an answer that
\* was not its own, left every selected application registered and deployed
\* with the settings this deployment rendered (deployer.go:103-109).
SuccessIsReal ==
    [][\A c \in Callers :
         result[c] # "succeeded" /\ result'[c] = "succeeded" /\ c \notin misled =>
            \A a \in cfg[c].apps :
               /\ job[a].spec = cfg[c].secrets[a] /\ job[a].dep = job[a].spec
               /\ job[a].st = "successful"]_vars

\* Re-deployments replace an application's hooks: at most one is registered
\* at any time ("idempotent re-deploy", deployer.go:587), and a success
\* leaves exactly the one that its settings render, unless the hook store
\* failed for that application: the status does not tell.
HooksReplaced ==
    /\ \A a \in Apps : Len(hooks[a]) <= 1
    /\ \A c \in Callers : at[c] = "unlock" /\ result[c] = "succeeded" =>
           \A a \in (Hooked \cap cfg[c].apps) \ failed[c] :
              hooks[a] = <<cfg[c].secrets[a]>>

\* While requests come one after the other, whether they succeed or fail,
\* the stack's row has the secret every registered job runs with, so that
\* the next deployment renders the same.
SecretsRemembered ==
    clean /\ Quiet =>
        \A a \in Generated : job[a].spec \in {Absent, row.secrets[a]}

\* "Persist any auto-generated secrets back to the group's appConfig"
\* (group_deploy.go:624): after a group's deployment succeeded, its settings
\* have the secrets its jobs run with.
GroupRemembers ==
    \A c \in GroupCallers : at[c] = "done" /\ result[c] = "succeeded" /\ Quiet =>
        \A a \in Generated : job[a].spec \in {Absent, settings.secrets[a]}

\* A hook that is not to be ignored ("continueOnError: don't block operation
\* on failure", blueprints/applications.go:25) stops the operation it fails.
StoppingHookStops == \A d \in stopped : result[d] # "succeeded"
============================================================================
