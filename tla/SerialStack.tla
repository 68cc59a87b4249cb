----------------------------- MODULE SerialStack -----------------------------
(***************************************************************************)
(* What the engine promises of each stack, whatever the goroutines do:     *)
(* operations own a stack one at a time, only the owner changes what is in *)
(* the cloud, an operation that reports success leaves its goal there, and *)
(* the report is never taken back.  Ownership is lost when it is released  *)
(* or when the process dies, and the cloud is then whatever it was.        *)
(***************************************************************************)
CONSTANTS Stacks, Ops, Works    \* Works: the kinds of operation

VARIABLES
    owners,      \* stack -> the set of operations that own it
    work,        \* operation -> what it was asked to do
    infra,       \* stack -> what is in the cloud
    reported     \* the operations that claim success

vars == <<owners, work, infra, reported>>

Mutating == {"up", "destroy"}

\* What an operation that succeeded leaves in the cloud.
Achieved(k, before) == CASE k = "up" -> "present"
                         [] k = "destroy" -> "absent"
                         [] OTHER -> before

Init ==
    /\ owners = [s \in Stacks |-> {}]
    /\ work \in [Ops -> Works]
    /\ infra = [s \in Stacks |-> "absent"]
    /\ reported = {}

\* The request is fixed before its operation owns anything.
Ask(o) ==
    /\ \A s \in Stacks : o \notin owners[s]
    /\ o \notin reported
    /\ \E k \in Works : work' = [work EXCEPT ![o] = k]
    /\ UNCHANGED <<owners, infra, reported>>

Own(s, o) ==
    /\ owners[s] = {}
    /\ owners' = [owners EXCEPT ![s] = {o}]
    /\ UNCHANGED <<work, infra, reported>>

Change(s, o) ==
    /\ owners[s] = {o}
    /\ work[o] \in Mutating
    /\ infra' = [infra EXCEPT ![s] = "partial"]
    /\ UNCHANGED <<owners, work, reported>>

Achieve(s, o) ==
    /\ owners[s] = {o}
    /\ o \notin reported
    /\ reported' = reported \cup {o}
    /\ infra' = [infra EXCEPT ![s] = Achieved(work[o], @)]
    /\ UNCHANGED <<owners, work>>

Release(s, o) ==
    /\ owners[s] = {o}
    /\ owners' = [owners EXCEPT ![s] = {}]
    /\ UNCHANGED <<work, infra, reported>>

Die ==
    /\ owners' = [s \in Stacks |-> {}]
    /\ UNCHANGED <<work, infra, reported>>

Next ==
    \/ \E o \in Ops : Ask(o)
    \/ \E s \in Stacks, o \in Ops :
          Own(s, o) \/ Change(s, o) \/ Achieve(s, o) \/ Release(s, o)
    \/ Die

Spec == Init /\ [][Next]_vars

\* The same with requests that throw away what is known of a stack, at any
\* time, whoever owns it.
Forget(s) ==
    /\ infra' = [infra EXCEPT ![s] = "absent"]
    /\ UNCHANGED <<owners, work, reported>>

ForgetfulSpec == Init /\ [][Next \/ \E s \in Stacks : Forget(s)]_vars
==============================================================================
