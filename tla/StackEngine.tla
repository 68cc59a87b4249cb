---------------------------- MODULE StackEngine ----------------------------
(***************************************************************************)
(* Life cycle of the operations a user starts on stacks: the request       *)
(* goroutine of StackHandler.runOperation and StackDeployApps              *)
(* (internal/api/stacks.go), the engine call it makes                      *)
(* (internal/engine/engine.go: executeOperation, Up, Destroy, Refresh,     *)
(* Preview, DeployApps, Cancel) and the row of the operations table it     *)
(* keeps (internal/db/operations.go).  The server may die at any step.     *)
(*                                                                         *)
(* An operation ID stands for its goroutine.  Pulumi and the cloud are an  *)
(* environment that writes a checkpoint while a call runs and may answer   *)
(* in every way the code distinguishes.  Hooks, logs and the event stream  *)
(* have no effect on this state: the time hooks take is the time spent in  *)
(* "requested" and "posthooks".                                            *)
(***************************************************************************)
EXTENDS Naturals

CONSTANTS
    Stacks,       \* stack names
    Ops,          \* operation IDs, one request each
    None,         \* no operation
    Kinds,        \* the operations requested
    MaxAttempts   \* Up's maxRetries, 3 in the code

AllKinds == {"up", "destroy", "refresh", "preview", "deploy-apps"}

ASSUME StacksAssumption == Stacks # {}
ASSUME NoneAssumption == None \notin Ops
ASSUME KindsAssumption == Kinds \subseteq AllKinds
ASSUME AttemptsAssumption == MaxAttempts \in Nat \ {0}

VARIABLES
    server,     \* "up" | "down": the process
    running,    \* Engine.running, the stacks with an operation in flight
    cancels,    \* Engine.cancels, whose context Cancel would cancel
    pc,         \* where the goroutine of an operation is
    stk, kind,  \* the request: its stack and operation
    cancelled,  \* operations whose opCtx is cancelled
    attempt,    \* Up's loop counter
    result,     \* the status string the engine call returns
    record,     \* status of the row in the operations table
    infra,      \* what Pulumi has in the cloud for a stack
    last        \* history: the last operation that began to change a stack

vars == <<server, running, cancels, pc, stk, kind, cancelled, attempt,
          result, record, infra, last>>
request == <<stk, kind>>
engine == <<running, cancels>>
cloud == <<infra, last>>

----------------------------------------------------------------------------
\* The places of a goroutine.  Deferred calls run in the order
\* "unregister", "unlock" (last deferred first), after a panic too.
Held == {"prepare", "resolve", "recover", "ready", "exec", "discover",
         "unregister", "unlock"}
Registered == Held \ {"prepare", "unlock"}
Live == Held \cup {"requested", "teardown", "posthooks"}
Over == {"done", "dead", "panicked"}
Places == Live \cup {"idle"} \cup Over

Statuses == {"succeeded", "failed", "cancelled", "conflict"}
Mutators == {"up", "destroy"}
Goal(k) == IF k = "up" THEN "present" ELSE "absent"

TypeOK ==
    /\ server \in {"up", "down"}
    /\ running \in SUBSET Stacks
    /\ cancels \in [Stacks -> Ops \cup {None}]
    /\ pc \in [Ops -> Places]
    /\ stk \in [Ops -> Stacks]
    /\ kind \in [Ops -> AllKinds]
    /\ cancelled \in SUBSET Ops
    /\ attempt \in [Ops -> 1..MaxAttempts]
    /\ result \in [Ops -> Statuses \cup {"none"}]
    /\ record \in [Ops -> Statuses \cup {"absent", "running"}]
    /\ infra \in [Stacks -> {"absent", "partial", "present"}]
    /\ last \in [Stacks -> Ops \cup {None}]

AnyStack == CHOOSE s \in Stacks : TRUE

\* A first start over an empty database.  The request of an operation that
\* has not arrived is arbitrary: Begin writes it.
Init ==
    /\ server = "up"
    /\ running = {}
    /\ cancels = [s \in Stacks |-> None]
    /\ pc = [o \in Ops |-> "idle"]
    /\ stk = [o \in Ops |-> AnyStack]
    /\ kind = [o \in Ops |-> "preview"]
    /\ cancelled = {}
    /\ attempt = [o \in Ops |-> 1]
    /\ result = [o \in Ops |-> "none"]
    /\ record = [o \in Ops |-> "absent"]
    /\ infra = [s \in Stacks |-> "absent"]
    /\ last = [s \in Stacks |-> None]

Goto(o, from, to) ==
    /\ pc[o] = from
    /\ pc' = [pc EXCEPT ![o] = to]

Return(o, status) == result' = [result EXCEPT ![o] = status]

----------------------------------------------------------------------------
\* A request arrives: its row is created before any lock is taken.
Begin(o, s, k) ==
    /\ server = "up"
    /\ Goto(o, "idle", "requested")
    /\ stk' = [stk EXCEPT ![o] = s]
    /\ kind' = [kind EXCEPT ![o] = k]
    /\ record' = [record EXCEPT ![o] = "running"]
    /\ UNCHANGED <<server, engine, cancelled, attempt, result, cloud>>

\* tryLock, both answers.
Acquire(o) ==
    /\ Goto(o, "requested", "prepare")
    /\ stk[o] \notin running
    /\ running' = running \cup {stk[o]}
    /\ UNCHANGED <<server, cancels, request, cancelled, attempt, result,
                   record, cloud>>

ConflictUnlocks(o) ==
    /\ Goto(o, "requested", "posthooks")
    /\ stk[o] \in running
    /\ Return(o, "conflict")
    /\ running' = running \ {stk[o]}
    /\ UNCHANGED <<server, cancels, request, cancelled, attempt, record, cloud>>

Conflict(o) ==
    /\ Goto(o, "requested", "posthooks")
    /\ stk[o] \in running
    /\ Return(o, "conflict")
    /\ UNCHANGED <<server, engine, request, cancelled, attempt, record, cloud>>

TryLockBlind(o) ==
    /\ Goto(o, "requested", "prepare")
    /\ running' = running \cup {stk[o]}
    /\ UNCHANGED <<server, cancels, request, cancelled, attempt, result,
                   record, cloud>>

TryLock(o) == Acquire(o) \/ Conflict(o)

\* Registry lookup and environment: an early return, with nothing but the
\* lock to give back, or the context's registration under mu.
RejectKeepingLock(o) ==
    /\ Goto(o, "prepare", "posthooks")
    /\ Return(o, "failed")
    /\ UNCHANGED <<server, engine, request, cancelled, attempt, record, cloud>>

Reject(o) ==
    /\ Goto(o, "prepare", "unlock")
    /\ Return(o, "failed")
    /\ UNCHANGED <<server, engine, request, cancelled, attempt, record, cloud>>

Register(o) ==
    /\ Goto(o, "prepare", IF kind[o] = "deploy-apps" THEN "ready"
                                                     ELSE "resolve")
    /\ cancels' = [cancels EXCEPT ![stk[o]] = o]
    /\ UNCHANGED <<server, running, request, cancelled, attempt, result,
                   record, cloud>>

\* resolveStack, then what Refresh does before its Pulumi call.  Both run
\* under opCtx, so a cancellation may be why they fail: still "failed".
Resolve(o) ==
    /\ Goto(o, "resolve", IF kind[o] = "refresh" THEN "recover" ELSE "ready")
    /\ UNCHANGED <<server, engine, request, cancelled, attempt, result,
                   record, cloud>>

RecoverPending(o) ==
    /\ Goto(o, "recover", "ready")
    /\ UNCHANGED <<server, engine, request, cancelled, attempt, result,
                   record, cloud>>

FailEarly(o) ==
    /\ Goto(o, "resolve", "unregister") \/ Goto(o, "recover", "unregister")
    /\ Return(o, "failed")
    /\ UNCHANGED <<server, engine, request, cancelled, attempt, record, cloud>>

----------------------------------------------------------------------------
\* The Pulumi call (for deploy-apps, the deployer's).  Pulumi starts no
\* process under a cancelled context; the deployer does not look.
Call(o) ==
    /\ Goto(o, "ready", "exec")
    /\ o \notin cancelled \/ kind[o] = "deploy-apps"
    /\ last' = IF kind[o] \in Mutators THEN [last EXCEPT ![stk[o]] = o]
                                       ELSE last
    /\ UNCHANGED <<server, engine, request, cancelled, attempt, result,
                   record, infra>>

Refused(o) ==
    /\ Goto(o, "ready", "unregister")
    /\ o \in cancelled /\ kind[o] # "deploy-apps"
    /\ Return(o, "cancelled")
    /\ UNCHANGED <<server, engine, request, cancelled, attempt, record, cloud>>

\* Pulumi writes a checkpoint after each resource it creates or deletes.
Checkpoint(o) ==
    /\ pc[o] = "exec" /\ kind[o] \in Mutators
    /\ infra[stk[o]] # "partial"
    /\ infra' = [infra EXCEPT ![stk[o]] = "partial"]
    /\ UNCHANGED <<server, engine, pc, request, cancelled, attempt, result,
                   record, last>>

\* The call returns no error; a Cancel that came too late changes nothing.
Succeed(o) ==
    /\ Goto(o, "exec", IF kind[o] \in {"up", "refresh"} THEN "discover"
                                                        ELSE "unregister")
    /\ Return(o, "succeeded")
    /\ infra' = IF kind[o] \in Mutators
                THEN [infra EXCEPT ![stk[o]] = Goal(kind[o])]
                ELSE infra
    /\ UNCHANGED <<server, engine, request, cancelled, attempt, record, last>>

Interrupted(o) ==
    /\ Goto(o, "exec", "unregister")
    /\ o \in cancelled
    /\ Return(o, "cancelled")
    /\ UNCHANGED <<server, engine, request, cancelled, attempt, record, cloud>>

Fail(o) ==
    /\ Goto(o, "exec", "unregister")
    /\ o \notin cancelled
    /\ Return(o, "failed")
    /\ UNCHANGED <<server, engine, request, cancelled, attempt, record, cloud>>

\* Up goes round again on a transient conflict, while attempts are left.  If
\* the loop ran out of attempts here, its end would read as success.
RetryToTheEnd(o) ==
    /\ kind[o] = "up" /\ o \notin cancelled
    /\ IF attempt[o] < MaxAttempts
       THEN /\ Goto(o, "exec", "ready")
            /\ attempt' = [attempt EXCEPT ![o] = @ + 1]
            /\ UNCHANGED result
       ELSE /\ Goto(o, "exec", "discover")
            /\ Return(o, "succeeded")
            /\ UNCHANGED attempt
    /\ UNCHANGED <<server, engine, request, cancelled, record, cloud>>

RetryOnceMore(o) ==
    /\ Goto(o, "exec", "ready")
    /\ kind[o] = "up" /\ o \notin cancelled
    /\ attempt[o] <= MaxAttempts
    /\ attempt' = [attempt EXCEPT ![o] = @ + 1]
    /\ UNCHANGED <<server, engine, request, cancelled, result, record, cloud>>

Retry(o) ==
    /\ Goto(o, "exec", "ready")
    /\ kind[o] = "up" /\ o \notin cancelled
    /\ attempt[o] < MaxAttempts
    /\ attempt' = [attempt EXCEPT ![o] = @ + 1]
    /\ UNCHANGED <<server, engine, request, cancelled, result, record, cloud>>

\* The deployer writes a generated secret to a map that is nil when the
\* stack's YAML has no appConfig.  The deferred calls run, the router's
\* Recoverer answers, and what the handler does after the call never happens.
Panic(o) ==
    /\ Goto(o, "exec", "unregister")
    /\ kind[o] = "deploy-apps"
    /\ UNCHANGED <<server, engine, request, cancelled, attempt, result,
                   record, cloud>>

CallReturns(o) == \/ Succeed(o) \/ Interrupted(o) \/ Fail(o) \/ Retry(o)
                  \/ Panic(o)

----------------------------------------------------------------------------
\* discoverAgentAddress: its effect on the agent's address is StackService's.
Discover(o) ==
    /\ Goto(o, "discover", "unregister")
    /\ UNCHANGED <<server, engine, request, cancelled, attempt, result,
                   record, cloud>>

\* The deferred calls: forget and cancel the context, then unlock.
ForgetNothing(o) ==
    /\ Goto(o, "unregister", "unlock")
    /\ cancelled' = cancelled \cup {o}
    /\ UNCHANGED <<server, engine, request, attempt, result, record, cloud>>

Unregister(o) ==
    /\ Goto(o, "unregister", "unlock")
    /\ cancels' = [cancels EXCEPT ![stk[o]] = None]
    /\ cancelled' = cancelled \cup {o}
    /\ UNCHANGED <<server, running, request, attempt, result, record, cloud>>

\* A call that panicked has no result, and its goroutine ends here.
Unlock(o) ==
    /\ Goto(o, "unlock",
            CASE result[o] = "none" -> "panicked"
              [] kind[o] = "destroy" /\ result[o] = "succeeded" -> "teardown"
              [] OTHER -> "posthooks")
    /\ running' = running \ {stk[o]}
    /\ UNCHANGED <<server, cancels, request, cancelled, attempt, result,
                   record, cloud>>

TeardownWhenFree(o) ==
    /\ Goto(o, "teardown", "posthooks")
    /\ stk[o] \notin running
    /\ UNCHANGED <<server, engine, request, cancelled, attempt, result,
                   record, cloud>>

\* After a destroy the handler forgets the agent (see StackService).
Teardown(o) ==
    /\ Goto(o, "teardown", "posthooks")
    /\ UNCHANGED <<server, engine, request, cancelled, attempt, result,
                   record, cloud>>

\* The row gets the status; a row deleted meanwhile is not written.
Finish(o) ==
    /\ Goto(o, "posthooks", "done")
    /\ record' = IF record[o] = "absent" THEN record
                                         ELSE [record EXCEPT ![o] = result[o]]
    /\ UNCHANGED <<server, engine, request, cancelled, attempt, result, cloud>>

----------------------------------------------------------------------------
\* The /cancel endpoint.
Cancel(s) ==
    /\ server = "up"
    /\ cancels[s] # None
    /\ cancelled' = cancelled \cup {cancels[s]}
    /\ UNCHANGED <<server, engine, pc, request, attempt, result, record, cloud>>

\* The process dies: memory is lost, the database and the cloud remain.
Crash ==
    /\ server = "up"
    /\ server' = "down"
    /\ running' = {}
    /\ cancels' = [s \in Stacks |-> None]
    /\ pc' = [o \in Ops |-> IF pc[o] \in Live \cup {"panicked"} THEN "dead"
                                                              ELSE pc[o]]
    /\ cancelled' = {}
    /\ attempt' = [o \in Ops |-> 1]
    /\ UNCHANGED <<request, result, record, cloud>>

\* Startup, with MarkStaleRunning before the first request is served.
StartupAsIs ==
    /\ server = "down"
    /\ server' = "up"
    /\ UNCHANGED <<engine, pc, request, cancelled, attempt, result, record,
                   cloud>>

StartupFailAll ==
    /\ server = "down"
    /\ server' = "up"
    /\ record' = [o \in Ops |-> IF record[o] # "absent" THEN "failed"
                                                        ELSE "absent"]
    /\ UNCHANGED <<engine, pc, request, cancelled, attempt, result, cloud>>

Startup ==
    /\ server = "down"
    /\ server' = "up"
    /\ record' = [o \in Ops |-> IF record[o] = "running" THEN "failed"
                                                         ELSE record[o]]
    /\ UNCHANGED <<engine, pc, request, cancelled, attempt, result, cloud>>

----------------------------------------------------------------------------
\* The steps the goroutine takes by itself, Pulumi's answer apart.
Advance(o) ==
    \/ TryLock(o) \/ Reject(o) \/ Register(o)
    \/ Resolve(o) \/ RecoverPending(o) \/ FailEarly(o)
    \/ Call(o) \/ Refused(o)
    \/ Discover(o) \/ Unregister(o) \/ Unlock(o) \/ Teardown(o) \/ Finish(o)

Next ==
    \/ \E o \in Ops, s \in Stacks, k \in Kinds : Begin(o, s, k)
    \/ \E o \in Ops : Advance(o) \/ Checkpoint(o) \/ CallReturns(o)
    \/ \E s \in Stacks : Cancel(s)
    \/ Crash
    \/ Startup

Spec == Init /\ [][Next]_vars

\* The scheduler runs every goroutine and an operator restarts the server.
\* A Pulumi call has no timeout: it returns for certain only once cancelled.
Fairness ==
    /\ WF_vars(Startup)
    /\ \A o \in Ops : /\ WF_vars(Advance(o))
                      /\ WF_vars(o \in cancelled /\ CallReturns(o))

FairSpec == Spec /\ Fairness

----------------------------------------------------------------------------
\* Two operations never hold the same stack (docs/api.md, rule 4).
MutualExclusion ==
    \A o, p \in Ops :
        pc[o] \in Held /\ pc[p] \in Held /\ stk[o] = stk[p] => o = p

\* Engine.running holds exactly the stacks some goroutine will release.
LockHasHolder ==
    running = {stk[o] : o \in {p \in Ops : pc[p] \in Held}}

\* Cancel reaches the operation in flight, from its registration to the end
\* of its work, and never an operation of another stack or an ended one.
CancelReachesHolder ==
    \A s \in Stacks, o \in Ops :
        cancels[s] = o <=> pc[o] \in Registered /\ stk[o] = s

\* A row says "running" exactly while a goroutine works on it, unless the
\* server is down: a restart leaves no operation running for ever.  The one
\* exception is a deploy-apps that panicked, whose row waits for a restart.
NoZombieRecord ==
    server = "up" =>
        \A o \in Ops : record[o] = "running" <=> pc[o] \in Live \cup {"panicked"}

\* Without the exception it does not hold (see README): such a row says
\* "running" although no goroutine is left to finish it.
RunningIsAlive ==
    server = "up" =>
        \A o \in Ops : record[o] = "running" => pc[o] \in Live

\* What the last up or destroy reported is what it left in the cloud, as no
\* other operation touches the stack in between and no error reads as success.
RecordTellsTruth ==
    \A s \in Stacks, o \in Ops :
        last[s] = o /\ record[o] = "succeeded" => infra[s] = Goal(kind[o])

\* A row that reached its final status never changes, across restarts too.
OutcomeFinal ==
    [][\A o \in Ops : record[o] \in Statuses => record'[o] = record[o]]_vars

\* Cancelling ends an operation: no retry or wait outlives it.
CancelStops ==
    \A o \in Ops : o \in cancelled ~> pc[o] \in Over

\* A stack is held only while a Pulumi call runs: every path out releases it.
LockReleased ==
    \A s \in Stacks :
        s \in running ~> \/ s \notin running
                         \/ \E o \in Ops : pc[o] = "exec" /\ stk[o] = s

----------------------------------------------------------------------------
\* The engine serialises the work on each stack (see SerialStack).
owners == [s \in Stacks |->
             {o \in Ops : pc[o] \in Held /\ stk[o] = s}]
reported == {o \in Ops : result[o] = "succeeded"}

Serial == INSTANCE SerialStack WITH work <- kind, Works <- AllKinds

\* Every behaviour of the goroutines is one of operations that own a stack in
\* turn, each change by the owner and each success a goal reached.
Serialised == Serial!Spec
============================================================================
