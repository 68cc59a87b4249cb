------------------------ MODULE AppDeployer_proofs ------------------------
(***************************************************************************)
(* Theorems about AppDeployer, for every number of applications, requests  *)
(* and restarts: the types, that hooks are replaced and never pile up,     *)
(* that the row remembers the secrets the jobs run with, and that a        *)
(* success is one.                                                         *)
(*                                                                         *)
(* Whoever changes the files, the jobs or the hooks holds the engine's     *)
(* lock (HoldersInv), so that what a deployment has built so far (HookInv, *)
(* RunsInv) is disturbed by no other request (OthersKeep).                 *)
(***************************************************************************)
EXTENDS AppDeployer, TLAPS, FiniteSetTheorems, FunctionTheorems

----------------------------------------------------------------------------
\* The loop takes one of the applications that are left, the first.
LEMMA AppChosen ==
  ASSUME NEW c, todo[c] \subseteq Apps, todo[c] # {}
  PROVE  App(c) \in todo[c]
<1> DEFINE T == todo[c]
<1> DEFINE upTo(a) == {b \in T : b <= a}
<1> DEFINE rank == [a \in T |-> Cardinality(upTo(a))]
<1>1. IsFiniteSet(T) /\ Cardinality(T) \in Nat /\ Cardinality(T) # 0 /\ T \subseteq Nat
  <2>1. IsFiniteSet(Apps) /\ Apps \subseteq Nat
    BY AppsAssumption, FS_Interval DEF Apps
  <2>2. QED
    BY <2>1, FS_Subset, FS_CardinalityType, FS_EmptySet
<1> HIDE DEF T
<1>2. ASSUME NEW a \in T
      PROVE  /\ upTo(a) \subseteq T /\ a \in upTo(a) /\ IsFiniteSet(upTo(a))
             /\ Cardinality(upTo(a)) \in 1..Cardinality(T)
  <2>1. upTo(a) \subseteq T /\ a \in upTo(a)
    BY <1>1
  <2>2. IsFiniteSet(upTo(a)) /\ Cardinality(upTo(a)) <= Cardinality(T)
    BY <1>1, <2>1, FS_Subset
  <2>3. Cardinality(upTo(a)) \in Nat /\ Cardinality(upTo(a)) # 0
    BY <2>1, <2>2, FS_CardinalityType, FS_EmptySet
  <2> HIDE DEF upTo
  <2>4. QED
    BY <1>1, <2>1, <2>2, <2>3
<1>3. ASSUME NEW a \in T, NEW b \in T, a < b
      PROVE  Cardinality(upTo(a)) # Cardinality(upTo(b))
  <2>1. \A x \in T : x <= a => x <= b
    BY <1>1, <1>3
  <2>2. upTo(a) \subseteq upTo(b)
    BY <2>1
  <2>3. b \notin upTo(a)
    BY <1>1, <1>3
  <2> HIDE DEF upTo
  <2>4. QED
    BY <1>2, <2>2, <2>3, FS_Subset
<1>4. rank \in Injection(T, 1..Cardinality(T))
  <2>1. \A a, b \in T : a # b => Cardinality(upTo(a)) # Cardinality(upTo(b))
    BY <1>1, <1>3
  <2> HIDE DEF upTo
  <2>2. QED
    BY <1>2, <2>1 DEF Injection, IsInjective
<1>5. IsFiniteSet(1..Cardinality(T)) /\ Cardinality(1..Cardinality(T)) = Cardinality(T)
  BY <1>1, FS_Interval
<1>6. rank \in Surjection(T, 1..Cardinality(T))
  BY <1>4, <1>5, FS_Injection
<1>7. PICK a \in T : Cardinality(upTo(a)) = 1
  <2>1. 1 \in 1..Cardinality(T)
    BY <1>1
  <2> HIDE DEF upTo
  <2>2. QED
    BY <1>6, <2>1 DEF Surjection
<1>8. upTo(a) = {a}
  <2>1. IsFiniteSet(upTo(a)) /\ a \in upTo(a)
    BY <1>2
  <2> HIDE DEF upTo
  <2>2. \E x : upTo(a) = {x}
    BY <1>7, <2>1, FS_Singleton
  <2>3. QED
    BY <2>1, <2>2
<1>9. \A b \in T : a <= b
  BY <1>1, <1>8
<1>10. QED
  BY <1>9 DEF App, T

----------------------------------------------------------------------------
\* The inductive invariant.

Holding == {"agent", "upload", "volumes", "register", "poll", "hooks", "create",
            "unlock", "down"}
Trying == {"upload", "volumes", "register", "poll"}
Hooking == {"hooks", "create"}

\* Who is past tryLock and before its unlock holds the stack.
HoldersInv ==
    /\ \A r \in Requests : at[r] \in Holding => lock = r
    /\ \A c \in Callers : at[c] \notin {"pre", "down"}
    /\ \A c \in StackCallers : at[c] # "save"
    /\ \A d \in Destroyers :
          at[d] \in {"idle", "pre", "lock", "down", "unlock", "done"}

\* What a deployment has left to do is of its selection.
TodoInv(c) ==
    /\ at[c] \in Trying => todo[c] \subseteq cfg[c].apps
    /\ at[c] \in {"volumes", "register", "poll", "create"} => todo[c] # {}
    /\ at[c] \in Hooking => todo[c] \subseteq Hooked \cap cfg[c].apps

\* The applications a deployment is through with have the hook it rendered,
\* unless the store failed; the one it is about to give a hook has none.
HookOf(c, a) == hooks[a] = <<cfg[c].secrets[a]>>
HookInv(c) ==
    /\ at[c] = "create" => hooks[App(c)] = <<>>
    /\ at[c] \in Hooking =>
          \A a \in (Hooked \cap cfg[c].apps) \ (todo[c] \cup failed[c]) : HookOf(c, a)
    /\ at[c] = "unlock" /\ result[c] = "succeeded" =>
          \A a \in (Hooked \cap cfg[c].apps) \ failed[c] : HookOf(c, a)
OneHook == \A a \in Apps : hooks[a] = <<>> \/ \E s \in Nat : hooks[a] = <<s>>

\* The applications a deployment is through with and did not count as failed
\* run what it rendered; the file it registers is the one it has uploaded.
Runs(c, a) ==
    /\ job[a].spec = cfg[c].secrets[a] /\ job[a].dep = job[a].spec
    /\ job[a].st = "successful"
RunsInv(c) ==
    /\ at[c] \in {"volumes", "register"} => file[App(c)] = cfg[c].secrets[App(c)]
    /\ at[c] = "poll" => job[App(c)].spec = cfg[c].secrets[App(c)]
    /\ at[c] \in Trying /\ c \notin misled =>
          \A a \in cfg[c].apps \ (todo[c] \cup failed[c]) : Runs(c, a)
    /\ at[c] \in Hooking /\ c \notin misled => \A a \in cfg[c].apps : Runs(c, a)

CallerInv(c) == TodoInv(c) /\ HookInv(c) /\ RunsInv(c)

\* While requests come one after the other, s has every secret the agent and
\* Nomad have; there is never a file or a job without one.
Knows(s) ==
    \A a \in Generated : /\ file[a] # 0 /\ file[a] \in {Absent, s[a]}
                         /\ job[a].spec # 0 /\ job[a].spec \in {Absent, s[a]}
AloneInv ==
    clean => /\ \A r, q \in Requests : Active(r) /\ Active(q) => r = q
             /\ \A c \in GroupCallers : ~Active(c)
\* The config in the hand of the deployment that is at work knows them, else
\* the row does.  Without a map to mint into, the two are the same.
KnowsInv ==
    clean => /\ \A c \in StackCallers : Active(c) =>
                    /\ Knows(cfg[c].secrets)
                    /\ ~cfg[c].given => cfg[c].secrets = row.secrets
             /\ (\A c \in StackCallers : ~Active(c)) => Knows(row.secrets)

IInv ==
    /\ TypeOK /\ HoldersInv /\ OneHook /\ AloneInv /\ KnowsInv
    /\ \A c \in Callers : CallerInv(c)

----------------------------------------------------------------------------
\* The types, by the part of the system they belong to.
RowTyped == row \in Rows /\ settings \in [given : BOOLEAN, secrets : Secrets]
LockTyped == lock \in Requests \cup {Nobody} /\ at \in [Requests -> Places]
WorkTyped ==
    /\ cfg \in [Callers -> Rows] /\ todo \in [Requests -> SUBSET Apps]
    /\ failed \in [Callers -> SUBSET Apps]
ResultTyped ==
    result \in [Requests -> {"none", "succeeded", "failed", "cancelled", "conflict"}]
WorldTyped ==
    /\ file \in [Apps -> Nat \cup {Absent}] /\ job \in [Apps -> Jobs]
    /\ hooks \in [Apps -> Seq(Nat)] /\ minted \in Nat
NoteTyped ==
    /\ cancelled \subseteq Requests /\ misled \subseteq Callers
    /\ stopped \subseteq Destroyers /\ clean \in BOOLEAN /\ crashes \in 0..MaxCrashes

LEMMA Types ==
  ASSUME TypeOK
  PROVE  RowTyped /\ LockTyped /\ WorkTyped /\ ResultTyped /\ WorldTyped /\ NoteTyped
BY DEF TypeOK, RowTyped, LockTyped, WorkTyped, ResultTyped, WorldTyped, NoteTyped

LEMMA TypesNext ==
  ASSUME RowTyped', LockTyped', WorkTyped', ResultTyped', WorldTyped', NoteTyped'
  PROVE  TypeOK'
BY DEF TypeOK, RowTyped, LockTyped, WorkTyped, ResultTyped, WorldTyped, NoteTyped

\* What a request is, and that no two kinds mix.
LEMMA RequestFacts ==
    /\ StackCallers \subseteq Callers /\ GroupCallers \subseteq Callers
    /\ Callers \subseteq Requests /\ Destroyers \subseteq Requests
    /\ \A c \in Callers : c \notin Destroyers /\ (c \in StackCallers <=> c \notin GroupCallers)
    /\ \A r \in Requests : r # Nobody /\ (r \in Callers \/ r \in Destroyers)
BY RequestsAssumption DEF Requests, Callers

LEMMA AppFacts ==
    /\ Generated \subseteq Apps /\ Hooked \subseteq Apps /\ Batch \subseteq Apps
    /\ Absent \notin Nat /\ \A a \in Apps : a \in Nat
BY AppsAssumption DEF Apps, Absent

LEMMA RowFields ==
  ASSUME NEW apps \in SUBSET Apps, NEW given \in BOOLEAN, NEW s \in Secrets
  PROVE  /\ RowOf(apps, given, s) \in Rows /\ RowOf(apps, given, s).apps = apps
         /\ RowOf(apps, given, s).given = given /\ RowOf(apps, given, s).secrets = s
BY DEF RowOf, Rows

LEMMA FieldsOfRows ==
  ASSUME NEW x \in Rows
  PROVE  x.apps \subseteq Apps /\ x.given \in BOOLEAN /\ x.secrets \in Secrets
BY DEF Rows

\* The config an upload continues with: one secret changed, the rest kept.
LEMMA Reminted ==
  ASSUME NEW x \in Rows, NEW a \in Apps, NEW s \in Nat
  PROVE  /\ [x EXCEPT !.secrets[a] = s] \in Rows
         /\ [x EXCEPT !.secrets[a] = s].apps = x.apps
         /\ [x EXCEPT !.secrets[a] = s].given = x.given
         /\ [x EXCEPT !.secrets[a] = s].secrets = [x.secrets EXCEPT ![a] = s]
BY DEF Rows, Secrets

LEMMA UnreadTyped == NoSecrets \in Secrets /\ Unread \in Rows /\ NoJob \in Jobs
BY AppFacts DEF Unread, NoSecrets, Rows, RowOf, Secrets, NoJob, Jobs

----------------------------------------------------------------------------
\* One request's step and the others.

StepOf(r) ==
    \/ r \in Callers /\ (RequestDeploy(r) \/ RequestGroup(r) \/ CallerStep(r))
    \/ r \in Destroyers /\ (RequestDestroy(r) \/ DestroyerStep(r))

SamePlace(y) == at'[y] = at[y] /\ result'[y] = result[y]
SameWork(y) ==
    /\ cfg'[y] = cfg[y] /\ todo'[y] = todo[y] /\ failed'[y] = failed[y]
    /\ (y \in misled' <=> y \in misled)

LEMMA SameApp ==
  ASSUME NEW c, todo'[c] = todo[c]
  PROVE  App(c)' = App(c)
<1>1. \A S, T : S = T => (CHOOSE a \in S : \A b \in S : a <= b)
                       = (CHOOSE a \in T : \A b \in T : a <= b)
  OBVIOUS
<1>2. QED
  BY <1>1, Zenon DEF App

LEMMA OthersSame ==
  ASSUME TypeOK, NEW r \in Requests, StepOf(r), NEW y \in Requests, y # r
  PROVE  SamePlace(y) /\ (y \in Callers => SameWork(y))
<1>1. LockTyped /\ WorkTyped /\ ResultTyped
  BY Types
<1> USE <1>1 DEF SamePlace, SameWork, LockTyped, WorkTyped, ResultTyped, Goto
<1>2. CASE RequestDeploy(r)
  BY <1>2 DEF RequestDeploy, Start
<1>3. CASE RequestGroup(r)
  BY <1>3 DEF RequestGroup, Start
<1>4. CASE SaveSelection(r)
  BY <1>4 DEF SaveSelection
<1>5. CASE BeginApps(r)
  BY <1>5 DEF BeginApps, Lock
<1>6. CASE Agent(r)
  BY <1>6 DEF Agent, Return
<1>7. CASE Upload(r)
  BY <1>7 DEF Upload, NextApp, Stay, Stored
<1>8. CASE Panic(r)
  BY <1>8 DEF Panic, Leave
<1>9. CASE Volumes(r)
  BY <1>9 DEF Volumes, NextApp, Stay
<1>10. CASE Register(r)
  BY <1>10 DEF Register, NextApp, Stay, Registered
<1>11. CASE Poll(r)
  BY <1>11 DEF Poll, NextApp
<1>12. CASE AfterApps(r)
  BY <1>12 DEF AfterApps, Return
<1>13. CASE ClearHooks(r)
  BY <1>13 DEF ClearHooks, NextHook, Return, DropHooks
<1>14. CASE CreateHook(r)
  BY <1>14 DEF CreateHook, NextHook, Goto
<1>15. CASE Unlock(r)
  BY <1>15 DEF Unlock
<1>16. CASE Store(r)
  BY <1>16 DEF Store, Leave
<1>17. CASE RequestDestroy(r)
  BY <1>17 DEF RequestDestroy, Start
<1>18. CASE PreHook(r)
  BY <1>18 DEF PreHook
<1>19. CASE BeginDown(r)
  BY <1>19 DEF BeginDown, Lock
<1>20. CASE Down(r)
  BY <1>20 DEF Down, Return
<1>21. QED
  BY <1>2, <1>3, <1>4, <1>5, <1>6, <1>7, <1>8, <1>9, <1>10, <1>11, <1>12, <1>13,
     <1>14, <1>15, <1>16, <1>17, <1>18, <1>19, <1>20
     DEF StepOf, CallerStep, DestroyerStep

\* Only who holds the stack writes files, jobs and hooks.
LEMMA HolderWrites ==
  ASSUME NEW r \in Requests, StepOf(r)
  PROVE  UNCHANGED world \/ at[r] \in Holding
<1>1. CASE RequestDeploy(r)
  BY <1>1 DEF RequestDeploy, world
<1>2. CASE RequestGroup(r)
  BY <1>2 DEF RequestGroup, world
<1>3. CASE SaveSelection(r)
  BY <1>3 DEF SaveSelection, world
<1>4. CASE BeginApps(r)
  BY <1>4 DEF BeginApps, world
<1>5. CASE Agent(r)
  BY <1>5 DEF Agent, world
<1>6. CASE Upload(r)
  BY <1>6 DEF Upload, Holding
<1>7. CASE Panic(r)
  BY <1>7 DEF Panic, world
<1>8. CASE Volumes(r)
  BY <1>8 DEF Volumes, world
<1>9. CASE Register(r)
  BY <1>9 DEF Register, Holding
<1>10. CASE Poll(r)
  BY <1>10 DEF Poll, world
<1>11. CASE AfterApps(r)
  BY <1>11 DEF AfterApps, world
<1>12. CASE ClearHooks(r)
  BY <1>12 DEF ClearHooks, Holding
<1>13. CASE CreateHook(r)
  BY <1>13 DEF CreateHook, Holding
<1>14. CASE Unlock(r)
  BY <1>14 DEF Unlock, world
<1>15. CASE Store(r)
  BY <1>15 DEF Store, world
<1>16. CASE RequestDestroy(r)
  BY <1>16 DEF RequestDestroy, world
<1>17. CASE PreHook(r)
  BY <1>17 DEF PreHook, world
<1>18. CASE BeginDown(r)
  BY <1>18 DEF BeginDown, world
<1>19. CASE Down(r)
  BY <1>19 DEF Down, Holding
<1>20. QED
  BY <1>1, <1>2, <1>3, <1>4, <1>5, <1>6, <1>7, <1>8, <1>9, <1>10, <1>11, <1>12,
     <1>13, <1>14, <1>15, <1>16, <1>17, <1>18, <1>19
     DEF StepOf, CallerStep, DestroyerStep

\* What a deployment has built stays when others make a step.
LEMMA OthersKeep ==
  ASSUME HoldersInv, NEW r \in Requests, NEW c \in Callers, c # r, CallerInv(c),
         SamePlace(c), SameWork(c), UNCHANGED world \/ at[r] \in Holding
  PROVE  CallerInv(c)'
<1>1. App(c)' = App(c)
  BY SameApp DEF SameWork
<1>2. at'[c] = at[c] /\ result'[c] = result[c] /\ cfg'[c] = cfg[c]
      /\ todo'[c] = todo[c] /\ failed'[c] = failed[c] /\ (c \in misled' <=> c \in misled)
  BY DEF SamePlace, SameWork
<1>3. TodoInv(c)'
  BY <1>2 DEF CallerInv, TodoInv
<1>4. CASE UNCHANGED world
  <2>1. file' = file /\ job' = job /\ hooks' = hooks
    BY <1>4 DEF world
  <2>2. HookInv(c)'
    BY <1>1, <1>2, <2>1 DEF CallerInv, HookInv, HookOf
  <2>3. RunsInv(c)'
    BY <1>1, <1>2, <2>1 DEF CallerInv, RunsInv, Runs
  <2>4. QED
    BY <1>3, <2>2, <2>3 DEF CallerInv
<1>5. CASE at[r] \in Holding
  <2>1. at[c] \notin Holding
    BY <1>5, RequestFacts DEF HoldersInv
  <2>2. HookInv(c)' /\ RunsInv(c)'
    BY <1>2, <2>1 DEF HookInv, RunsInv, Holding, Trying, Hooking
  <2>3. QED
    BY <1>3, <2>2 DEF CallerInv
<1>6. QED
  BY <1>4, <1>5


\* The secret an upload renders: the field's, else a new one.
Given(c) == IF MustMint(c) THEN minted + 1 ELSE cfg[c].secrets[App(c)]

LEMMA GivenTyped ==
  ASSUME WorkTyped, WorldTyped, NEW c \in Callers, todo[c] # {}
  PROVE  App(c) \in todo[c] /\ App(c) \in Apps /\ Given(c) \in Nat
         /\ cfg[c].secrets[App(c)] \in Nat
<1>1. todo[c] \subseteq Apps
  BY RequestFacts DEF WorkTyped
<1>2. App(c) \in todo[c] /\ App(c) \in Apps
  BY <1>1, AppChosen
<1>3. cfg[c].secrets[App(c)] \in Nat
  BY <1>2, FieldsOfRows DEF WorkTyped, Secrets
<1>4. QED
  BY <1>2, <1>3 DEF Given, WorldTyped

LEMMA ChosenTyped ==
  ASSUME TypeOK, NEW c \in Callers, TodoInv(c),
         at[c] \in {"volumes", "register", "poll", "create"}
  PROVE  todo[c] # {} /\ App(c) \in todo[c] /\ App(c) \in Apps
BY Types, GivenTyped DEF TodoInv

LEMMA NextTyped ==
  ASSUME WorkTyped, NEW c, App(c) \in Apps, NextApp(c, TRUE) \/ NextApp(c, FALSE)
  PROVE  /\ todo' \in [Requests -> SUBSET Apps]
         /\ failed' \in [Callers -> SUBSET Apps]
BY DEF NextApp, WorkTyped

LEMMA RegisteredTyped ==
  ASSUME WorldTyped, NEW a \in Apps, Registered(a)
  PROVE  /\ job' \in [Apps -> Jobs]
         /\ job'[a].spec = file[a]
         /\ a \in Batch => job'[a].dep = file[a] /\ job'[a].st = "successful"
         /\ \A b \in Apps : b # a => job'[b] = job[b]
BY ZenonT(30) DEF WorldTyped, Registered, Jobs

LEMMA StepTyped ==
  ASSUME TypeOK, NEW r \in Requests, StepOf(r), r \in Callers => TodoInv(r)
  PROVE  TypeOK'
<1>1. /\ RowTyped /\ LockTyped /\ WorkTyped /\ ResultTyped /\ WorldTyped /\ NoteTyped
      /\ TypeOK /\ r \in Requests /\ (r \in Callers => TodoInv(r))
  BY Types
<1>2. ASSUME RequestDeploy(r), r \in Callers
      PROVE  TypeOK'
  <2>1. RowTyped'
    BY <1>1, <1>2 DEF RequestDeploy, RowTyped
  <2>2. LockTyped'
    BY <1>1, <1>2 DEF RequestDeploy, Start, Goto, Places, LockTyped
  <2>3. WorkTyped'
    BY <1>1, <1>2 DEF RequestDeploy, RowTyped, WorkTyped
  <2>4. ResultTyped'
    BY <1>1, <1>2 DEF RequestDeploy, Start, ResultTyped
  <2>5. WorldTyped'
    BY <1>1, <1>2 DEF RequestDeploy, WorldTyped, world
  <2>6. NoteTyped'
    BY <1>1, <1>2 DEF RequestDeploy, Start, NoteTyped
  <2>7. QED
    BY <2>1, <2>2, <2>3, <2>4, <2>5, <2>6, TypesNext
<1>3. ASSUME RequestGroup(r), r \in Callers
      PROVE  TypeOK'
  <2>1. RowTyped'
    <3>1. RowOf({}, FALSE, NoSecrets) \in Rows
      BY UnreadTyped, RowFields
    <3>2. QED
      BY <1>1, <3>1, <1>3 DEF RequestGroup, RowTyped
  <2>2. LockTyped'
    BY <1>1, <1>3 DEF RequestGroup, Start, Goto, Places, LockTyped
  <2>3. WorkTyped'
    <3>1. RowOf(Apps, settings.given, settings.secrets) \in Rows
      BY <1>1, RowFields DEF RowTyped
    <3>2. QED
      BY <1>1, <3>1, <1>3 DEF RequestGroup, WorkTyped
  <2>4. ResultTyped'
    BY <1>1, <1>3 DEF RequestGroup, Start, ResultTyped
  <2>5. WorldTyped'
    BY <1>1, <1>3 DEF RequestGroup, WorldTyped, world
  <2>6. NoteTyped'
    BY <1>1, <1>3 DEF RequestGroup, Start, NoteTyped
  <2>7. QED
    BY <2>1, <2>2, <2>3, <2>4, <2>5, <2>6, TypesNext
<1>4. ASSUME SaveSelection(r), r \in Callers
      PROVE  TypeOK'
  <2>1. RowTyped'
    BY <1>1, <1>4 DEF SaveSelection, RowTyped, WorkTyped
  <2>2. LockTyped'
    BY <1>1, <1>4 DEF SaveSelection, Goto, Places, LockTyped
  <2>3. WorkTyped'
    BY <1>1, <1>4 DEF SaveSelection, WorkTyped
  <2>4. ResultTyped'
    BY <1>1, <1>4 DEF SaveSelection, ResultTyped
  <2>5. WorldTyped'
    BY <1>1, <1>4 DEF SaveSelection, WorldTyped, world
  <2>6. NoteTyped'
    BY <1>1, <1>4 DEF SaveSelection, NoteTyped
  <2>7. QED
    BY <2>1, <2>2, <2>3, <2>4, <2>5, <2>6, TypesNext
<1>5. ASSUME BeginApps(r), r \in Callers
      PROVE  TypeOK'
  <2>1. RowTyped'
    BY <1>1, <1>5 DEF BeginApps, RowTyped
  <2>2. LockTyped'
    BY <1>1, <1>5 DEF BeginApps, Lock, Goto, Places, LockTyped
  <2>3. WorkTyped'
    BY <1>1, <1>5 DEF BeginApps, Lock, WorkTyped
  <2>4. ResultTyped'
    BY <1>1, <1>5 DEF BeginApps, Lock, ResultTyped
  <2>5. WorldTyped'
    BY <1>1, <1>5 DEF BeginApps, WorldTyped, world
  <2>6. NoteTyped'
    BY <1>1, <1>5 DEF BeginApps, Lock, NoteTyped
  <2>7. QED
    BY <2>1, <2>2, <2>3, <2>4, <2>5, <2>6, TypesNext
<1>6. ASSUME Agent(r), r \in Callers
      PROVE  TypeOK'
  <2>1. RowTyped'
    BY <1>1, <1>6 DEF Agent, RowTyped
  <2>2. LockTyped'
    BY <1>1, <1>6 DEF Agent, Return, Goto, Places, LockTyped
  <2>3. WorkTyped'
    <3>1. cfg[r].apps \in SUBSET Apps
      BY <1>1, <1>6, FieldsOfRows DEF WorkTyped
    <3>2. QED
      BY <1>1, <3>1, <1>6 DEF Agent, WorkTyped
  <2>4. ResultTyped'
    BY <1>1, <1>6 DEF Agent, Return, ResultTyped
  <2>5. WorldTyped'
    BY <1>1, <1>6 DEF Agent, WorldTyped, world
  <2>6. NoteTyped'
    BY <1>1, <1>6 DEF Agent, Return, NoteTyped
  <2>7. QED
    BY <2>1, <2>2, <2>3, <2>4, <2>5, <2>6, TypesNext
<1>7. ASSUME Upload(r), r \in Callers
      PROVE  TypeOK'
  <2>1. RowTyped'
    BY <1>1, <1>7 DEF Upload, RowTyped
  <2>2. LockTyped'
    BY <1>1, <1>7 DEF Upload, NextApp, Stay, Stored, Goto, Places, LockTyped
  <2>3. WorkTyped'
    <3>1. App(r) \in Apps /\ Given(r) \in Nat
      BY <1>1, <1>7, GivenTyped, RequestFacts DEF Upload, WorkTyped
    <3>2. cfg' = cfg \/ cfg' = [cfg EXCEPT ![r] = [cfg[r] EXCEPT !.secrets[App(r)] = Given(r)]]
      BY <1>7 DEF Upload, Given
    <3>3. [cfg[r] EXCEPT !.secrets[App(r)] = Given(r)] \in Rows
      BY <1>1, <3>1, <1>7, Reminted DEF WorkTyped
    <3>4. cfg' \in [Callers -> Rows]
      BY <1>1, <3>2, <3>3 DEF WorkTyped
    <3>5. QED
      BY <1>1, <3>1, <3>4, <1>7 DEF Upload, NextApp, Stay, WorkTyped
  <2>4. ResultTyped'
    BY <1>1, <1>7 DEF Upload, NextApp, Stay, Stored, ResultTyped
  <2>5. WorldTyped'
    <3>1. App(r) \in Apps /\ Given(r) \in Nat
      BY <1>1, <1>7, GivenTyped, RequestFacts DEF Upload, WorkTyped
    <3>2. file' = file \/ \E s \in {Given(r), Absent} : file' = [file EXCEPT ![App(r)] = s]
      BY <1>7 DEF Upload, Stored, Given
    <3>3. minted' \in {minted, Given(r)} /\ job' = job /\ hooks' = hooks
      BY <1>7 DEF Upload, Given
    <3>4. QED
      BY <1>1, <3>1, <3>2, <3>3 DEF WorldTyped
  <2>6. NoteTyped'
    BY <1>1, <1>7 DEF Upload, NextApp, Stay, Stored, NoteTyped
  <2>7. QED
    BY <2>1, <2>2, <2>3, <2>4, <2>5, <2>6, TypesNext
<1>8. ASSUME Panic(r), r \in Callers
      PROVE  TypeOK'
  <2>1. RowTyped'
    BY <1>1, <1>8 DEF Panic, RowTyped
  <2>2. LockTyped'
    BY <1>1, <1>8 DEF Panic, Leave, Goto, Places, LockTyped
  <2>3. WorkTyped'
    BY <1>1, <1>8, UnreadTyped DEF Panic, Leave, WorkTyped
  <2>4. ResultTyped'
    BY <1>1, <1>8 DEF Panic, Leave, ResultTyped
  <2>5. WorldTyped'
    BY <1>1, <1>8 DEF Panic, WorldTyped, world
  <2>6. NoteTyped'
    BY <1>1, <1>8 DEF Panic, Leave, NoteTyped
  <2>7. QED
    BY <2>1, <2>2, <2>3, <2>4, <2>5, <2>6, TypesNext
<1>9. ASSUME Volumes(r), r \in Callers
      PROVE  TypeOK'
  <2>1. RowTyped'
    BY <1>1, <1>9 DEF Volumes, RowTyped
  <2>2. LockTyped'
    BY <1>1, <1>9 DEF Volumes, NextApp, Stay, Goto, Places, LockTyped
  <2>3. WorkTyped'
    <3>1. App(r) \in Apps
      BY <1>1, <1>9, ChosenTyped DEF Volumes
    <3>2. \/ todo' = todo /\ failed' = failed
          \/ NextApp(r, TRUE) \/ NextApp(r, FALSE)
      BY <1>9 DEF Volumes, Stay
    <3>3. QED
      BY <1>1, <3>1, <3>2, <1>9, NextTyped DEF Volumes, WorkTyped
  <2>4. ResultTyped'
    BY <1>1, <1>9 DEF Volumes, NextApp, Stay, ResultTyped
  <2>5. WorldTyped'
    BY <1>1, <1>9 DEF Volumes, WorldTyped, world
  <2>6. NoteTyped'
    BY <1>1, <1>9 DEF Volumes, NextApp, Stay, NoteTyped
  <2>7. QED
    BY <2>1, <2>2, <2>3, <2>4, <2>5, <2>6, TypesNext
<1>10. ASSUME Register(r), r \in Callers
      PROVE  TypeOK'
  <2>1. RowTyped'
    BY <1>1, <1>10 DEF Register, RowTyped
  <2>2. LockTyped'
    BY <1>1, <1>10 DEF Register, NextApp, Stay, Goto, Places, LockTyped
  <2>3. WorkTyped'
    <3>1. App(r) \in Apps
      BY <1>1, <1>10, ChosenTyped DEF Register
    <3>2. \/ todo' = todo /\ failed' = failed
          \/ NextApp(r, TRUE) \/ NextApp(r, FALSE)
      BY <1>10 DEF Register, Stay
    <3>3. QED
      BY <1>1, <3>1, <3>2, <1>10, NextTyped DEF Register, WorkTyped
  <2>4. ResultTyped'
    BY <1>1, <1>10 DEF Register, NextApp, Stay, ResultTyped
  <2>5. WorldTyped'
    <3>1. App(r) \in Apps
      BY <1>1, <1>10, ChosenTyped DEF Register
    <3>2. job' = job \/ Registered(App(r))
      BY <1>10 DEF Register
    <3>3. job' \in [Apps -> Jobs]
      BY <1>1, <3>1, <3>2, RegisteredTyped DEF WorldTyped
    <3>4. QED
      BY <1>1, <3>3, <1>10 DEF Register, WorldTyped
  <2>6. NoteTyped'
    BY <1>1, <1>10 DEF Register, NoteTyped
  <2>7. QED
    BY <2>1, <2>2, <2>3, <2>4, <2>5, <2>6, TypesNext
<1>11. ASSUME Poll(r), r \in Callers
      PROVE  TypeOK'
  <2>1. RowTyped'
    BY <1>1, <1>11 DEF Poll, RowTyped
  <2>2. LockTyped'
    BY <1>1, <1>11 DEF Poll, NextApp, Goto, Places, LockTyped
  <2>3. WorkTyped'
    <3>1. App(r) \in Apps
      BY <1>1, <1>11, ChosenTyped DEF Poll
    <3>2. \/ todo' = todo /\ failed' = failed
          \/ NextApp(r, TRUE) \/ NextApp(r, FALSE)
      BY <1>11 DEF Poll, Stay
    <3>3. QED
      BY <1>1, <3>1, <3>2, <1>11, NextTyped DEF Poll, WorkTyped
  <2>4. ResultTyped'
    BY <1>1, <1>11 DEF Poll, NextApp, ResultTyped
  <2>5. WorldTyped'
    BY <1>1, <1>11 DEF Poll, WorldTyped, world
  <2>6. NoteTyped'
    BY <1>1, <1>11 DEF Poll, NextApp, NoteTyped
  <2>7. QED
    BY <2>1, <2>2, <2>3, <2>4, <2>5, <2>6, TypesNext
<1>12. ASSUME AfterApps(r), r \in Callers
      PROVE  TypeOK'
  <2>1. RowTyped'
    BY <1>1, <1>12 DEF AfterApps, RowTyped
  <2>2. LockTyped'
    BY <1>1, <1>12 DEF AfterApps, Return, Goto, Places, LockTyped
  <2>3. WorkTyped'
    BY <1>1, <1>12, AppFacts DEF AfterApps, WorkTyped
  <2>4. ResultTyped'
    BY <1>1, <1>12 DEF AfterApps, Return, ResultTyped
  <2>5. WorldTyped'
    BY <1>1, <1>12 DEF AfterApps, WorldTyped, world
  <2>6. NoteTyped'
    BY <1>1, <1>12 DEF AfterApps, Return, NoteTyped
  <2>7. QED
    BY <2>1, <2>2, <2>3, <2>4, <2>5, <2>6, TypesNext
<1>13. ASSUME ClearHooks(r), r \in Callers
      PROVE  TypeOK'
  <2>1. RowTyped'
    BY <1>1, <1>13 DEF ClearHooks, RowTyped
  <2>2. LockTyped'
    BY <1>1, <1>13 DEF ClearHooks, NextHook, Return, DropHooks, Goto, Places, LockTyped
  <2>3. WorkTyped'
    <3>1. todo[r] # {} => App(r) \in Apps
      BY <1>1, <1>13, GivenTyped
    <3>2. cfg' = cfg
      BY <1>13 DEF ClearHooks
    <3>3. CASE UNCHANGED <<todo, failed>>
      BY <1>1, <3>2, <3>3 DEF WorkTyped
    <3>4. CASE todo[r] # {} /\ NextHook(r, FALSE)
      BY <1>1, <3>1, <3>2, <3>4 DEF NextHook, WorkTyped
    <3>5. QED
      BY <1>13, <3>3, <3>4 DEF ClearHooks
  <2>4. ResultTyped'
    BY <1>1, <1>13 DEF ClearHooks, NextHook, Return, DropHooks, ResultTyped
  <2>5. WorldTyped'
    <3>1. hooks' = hooks \/ hooks' = [hooks EXCEPT ![App(r)] = <<>>]
      BY <1>13 DEF ClearHooks, DropHooks
    <3>2. hooks' \in [Apps -> Seq(Nat)]
      <4>1. <<>> \in Seq(Nat)
        OBVIOUS
      <4>2. QED
        BY <1>1, <3>1, <4>1 DEF WorldTyped
    <3>3. QED
      BY <1>1, <3>2, <1>13 DEF ClearHooks, WorldTyped
  <2>6. NoteTyped'
    BY <1>1, <1>13 DEF ClearHooks, NextHook, Return, DropHooks, NoteTyped
  <2>7. QED
    BY <2>1, <2>2, <2>3, <2>4, <2>5, <2>6, TypesNext
<1>14. ASSUME CreateHook(r), r \in Callers
      PROVE  TypeOK'
  <2>1. RowTyped'
    BY <1>1, <1>14 DEF CreateHook, RowTyped
  <2>2. LockTyped'
    BY <1>1, <1>14 DEF CreateHook, NextHook, Goto, Places, LockTyped
  <2>3. WorkTyped'
    <3>1. App(r) \in Apps
      BY <1>1, <1>14, ChosenTyped DEF CreateHook
    <3>2. QED
      BY <1>1, <3>1, <1>14 DEF CreateHook, NextHook, WorkTyped
  <2>4. ResultTyped'
    BY <1>1, <1>14 DEF CreateHook, ResultTyped
  <2>5. WorldTyped'
    <3>1. App(r) \in Apps
      BY <1>1, <1>14, ChosenTyped DEF CreateHook
    <3>2. cfg[r].secrets[App(r)] \in Nat
      BY <1>1, <3>1, <1>14, FieldsOfRows DEF WorkTyped, Secrets
    <3>3. \/ hooks' = [hooks EXCEPT ![App(r)] = Append(hooks[App(r)], cfg[r].secrets[App(r)])]
          \/ hooks' = hooks
      BY <1>1, <3>1, <1>14 DEF CreateHook, WorldTyped
    <3>4. Append(hooks[App(r)], cfg[r].secrets[App(r)]) \in Seq(Nat)
      BY <1>1, <3>1, <3>2 DEF WorldTyped
    <3>5. hooks' \in [Apps -> Seq(Nat)]
      BY <1>1, <3>1, <3>3, <3>4 DEF WorldTyped
    <3>6. QED
      BY <1>1, <3>5, <1>14 DEF CreateHook, WorldTyped
  <2>6. NoteTyped'
    BY <1>1, <1>14 DEF CreateHook, NoteTyped
  <2>7. QED
    BY <2>1, <2>2, <2>3, <2>4, <2>5, <2>6, TypesNext
<1>15. ASSUME Unlock(r), r \in Requests
      PROVE  TypeOK'
  <2>1. RowTyped'
    BY <1>1, <1>15 DEF Unlock, RowTyped
  <2>2. LockTyped'
    BY <1>1, <1>15 DEF Unlock, Goto, Places, LockTyped
  <2>3. WorkTyped'
    BY <1>1, <1>15 DEF Unlock, WorkTyped
  <2>4. ResultTyped'
    BY <1>1, <1>15 DEF Unlock, ResultTyped
  <2>5. WorldTyped'
    BY <1>1, <1>15 DEF Unlock, WorldTyped, world
  <2>6. NoteTyped'
    BY <1>1, <1>15 DEF Unlock, NoteTyped
  <2>7. QED
    BY <2>1, <2>2, <2>3, <2>4, <2>5, <2>6, TypesNext
<1>16. ASSUME Store(r), r \in Callers
      PROVE  TypeOK'
  <2>1. RowTyped'
    <3>1. row' \in Rows
      BY <1>1, <1>16 DEF Store, RowTyped, WorkTyped
    <3>2. row.secrets \in Secrets
      BY <1>1, FieldsOfRows DEF RowTyped
    <3>3. settings' \in [given : BOOLEAN, secrets : Secrets]
      <4>1. settings' = settings \/ settings' = [given |-> TRUE, secrets |-> row.secrets]
        BY <1>16 DEF Store
      <4>2. [given |-> TRUE, secrets |-> row.secrets] \in [given : BOOLEAN, secrets : Secrets]
        BY <3>2
      <4>3. settings \in [given : BOOLEAN, secrets : Secrets]
        BY <1>1 DEF RowTyped
      <4>4. QED
        BY <4>1, <4>2, <4>3
    <3>4. QED
      BY <3>1, <3>3 DEF RowTyped
  <2>2. LockTyped'
    BY <1>1, <1>16 DEF Store, Leave, Goto, Places, LockTyped
  <2>3. WorkTyped'
    BY <1>1, <1>16, UnreadTyped DEF Store, Leave, WorkTyped
  <2>4. ResultTyped'
    BY <1>1, <1>16 DEF Store, Leave, ResultTyped
  <2>5. WorldTyped'
    BY <1>1, <1>16 DEF Store, WorldTyped, world
  <2>6. NoteTyped'
    BY <1>1, <1>16 DEF Store, Leave, NoteTyped
  <2>7. QED
    BY <2>1, <2>2, <2>3, <2>4, <2>5, <2>6, TypesNext
<1>17. ASSUME RequestDestroy(r), r \in Destroyers
      PROVE  TypeOK'
  <2>1. RowTyped'
    BY <1>1, <1>17 DEF RequestDestroy, RowTyped
  <2>2. LockTyped'
    BY <1>1, <1>17 DEF RequestDestroy, Start, Goto, Places, LockTyped
  <2>3. WorkTyped'
    BY <1>1, <1>17 DEF RequestDestroy, ListByTrigger, WorkTyped
  <2>4. ResultTyped'
    BY <1>1, <1>17 DEF RequestDestroy, Start, ResultTyped
  <2>5. WorldTyped'
    BY <1>1, <1>17 DEF RequestDestroy, WorldTyped, world
  <2>6. NoteTyped'
    BY <1>1, <1>17 DEF RequestDestroy, Start, NoteTyped
  <2>7. QED
    BY <2>1, <2>2, <2>3, <2>4, <2>5, <2>6, TypesNext
<1>18. ASSUME PreHook(r), r \in Destroyers
      PROVE  TypeOK'
  <2>1. RowTyped'
    BY <1>1, <1>18 DEF PreHook, RowTyped
  <2>2. LockTyped'
    BY <1>1, <1>18 DEF PreHook, Goto, Places, LockTyped
  <2>3. WorkTyped'
    BY <1>1, <1>18 DEF PreHook, WorkTyped
  <2>4. ResultTyped'
    BY <1>1, <1>18 DEF PreHook, ResultTyped
  <2>5. WorldTyped'
    BY <1>1, <1>18 DEF PreHook, WorldTyped, world
  <2>6. NoteTyped'
    BY <1>1, <1>18 DEF PreHook, NoteTyped
  <2>7. QED
    BY <2>1, <2>2, <2>3, <2>4, <2>5, <2>6, TypesNext
<1>19. ASSUME BeginDown(r), r \in Destroyers
      PROVE  TypeOK'
  <2>1. RowTyped'
    BY <1>1, <1>19 DEF BeginDown, RowTyped
  <2>2. LockTyped'
    BY <1>1, <1>19 DEF BeginDown, Lock, Goto, Places, LockTyped
  <2>3. WorkTyped'
    BY <1>1, <1>19 DEF BeginDown, Lock, WorkTyped
  <2>4. ResultTyped'
    BY <1>1, <1>19 DEF BeginDown, Lock, ResultTyped
  <2>5. WorldTyped'
    BY <1>1, <1>19 DEF BeginDown, WorldTyped, world
  <2>6. NoteTyped'
    BY <1>1, <1>19 DEF BeginDown, Lock, NoteTyped
  <2>7. QED
    BY <2>1, <2>2, <2>3, <2>4, <2>5, <2>6, TypesNext
<1>20. ASSUME Down(r), r \in Destroyers
      PROVE  TypeOK'
  <2>1. RowTyped'
    BY <1>1, <1>20 DEF Down, RowTyped
  <2>2. LockTyped'
    BY <1>1, <1>20 DEF Down, Return, Goto, Places, LockTyped
  <2>3. WorkTyped'
    BY <1>1, <1>20 DEF Down, Return, WorkTyped
  <2>4. ResultTyped'
    BY <1>1, <1>20 DEF Down, Return, ResultTyped
  <2>5. WorldTyped'
    BY <1>1, <1>20, UnreadTyped DEF Down, WorldTyped
  <2>6. NoteTyped'
    BY <1>1, <1>20 DEF Down, Return, NoteTyped
  <2>7. QED
    BY <2>1, <2>2, <2>3, <2>4, <2>5, <2>6, TypesNext
<1>21. QED
  BY <1>1, <1>2, <1>3, <1>4, <1>5, <1>6, <1>7, <1>8, <1>9, <1>10, <1>11, <1>12,
     <1>13, <1>14, <1>15, <1>16, <1>17, <1>18, <1>19, <1>20
     DEF StepOf, CallerStep, DestroyerStep

----------------------------------------------------------------------------
\* What else happens: Nomad's scheduler, a cancellation, a restart.
LEMMA Steps ==
  ASSUME [Next]_vars
  PROVE  \/ \E r \in Requests : StepOf(r)
         \/ \E a \in Apps : Schedule(a) \/ Settle(a)
         \/ Cancel \/ Crash \/ UNCHANGED vars
BY RequestFacts DEF Next, StepOf

LEMMA Scheduled ==
  ASSUME WorldTyped, NEW a \in Apps, Schedule(a) \/ Settle(a)
  PROVE  /\ job' \in [Apps -> Jobs]
         /\ \A b \in Apps : /\ job'[b].spec = job[b].spec
                            /\ job[b].dep = job[b].spec /\ job[b].st = "successful" =>
                                  job'[b] = job[b]
<1>1. CASE Schedule(a)
  BY <1>1, ZenonT(30) DEF Schedule, WorldTyped, Jobs
<1>2. CASE Settle(a)
  <2>1. PICK st \in {"successful", "failed"} : job' = [job EXCEPT ![a].st = st]
    BY <1>2 DEF Settle
  <2>2. job[a].st = "running"
    BY <1>2 DEF Settle
  <2>3. QED
    BY <2>1, <2>2 DEF WorldTyped, Jobs
<1>3. QED
  BY <1>1, <1>2

LEMMA RestartTyped ==
  ASSUME TypeOK, Crash
  PROVE  TypeOK'
<1>1. RowTyped /\ LockTyped /\ WorkTyped /\ ResultTyped /\ WorldTyped /\ NoteTyped
  BY Types
<1>2. RowTyped' /\ ResultTyped' /\ WorldTyped'
  BY <1>1 DEF Crash, RowTyped, ResultTyped, WorldTyped, world
<1>3. LockTyped' /\ WorkTyped'
  BY <1>1, UnreadTyped DEF Crash, LockTyped, WorkTyped, Places
<1>4. NoteTyped'
  <2>1. crashes' \in 0..MaxCrashes
    BY <1>1, BoundsAssumption DEF Crash, NoteTyped
  <2>2. QED
    BY <1>1, <2>1 DEF Crash, NoteTyped
<1>5. QED
  BY <1>2, <1>3, <1>4, TypesNext

LEMMA TypeStep ==
  ASSUME TypeOK, \A c \in Callers : CallerInv(c), [Next]_vars
  PROVE  TypeOK'
<1>1. ASSUME NEW r \in Requests, StepOf(r)
      PROVE  TypeOK'
  BY <1>1, StepTyped DEF CallerInv
<1>2. ASSUME NEW a \in Apps, Schedule(a) \/ Settle(a)
      PROVE  TypeOK'
  <2>1. job' \in [Apps -> Jobs]
    BY <1>2, Types, Scheduled
  <2>2. QED
    BY <1>2, <2>1 DEF Schedule, Settle, TypeOK
<1>3. CASE Cancel
  BY <1>3 DEF Cancel, TypeOK, world
<1>4. CASE UNCHANGED vars
  BY <1>4 DEF vars, TypeOK
<1>5. QED
  BY <1>1, <1>2, <1>3, <1>4, RestartTyped, Steps

----------------------------------------------------------------------------
\* The engine's lock.
LEMMA OwnHold ==
  ASSUME TypeOK, HoldersInv, NEW r \in Requests, StepOf(r)
  PROVE  /\ at'[r] \in Holding => lock' = r
         /\ lock' # lock => lock = r \/ lock = Nobody
         /\ r \in Callers => at'[r] \notin {"pre", "down"}
         /\ r \in StackCallers => at'[r] # "save"
         /\ r \in Destroyers => at'[r] \in {"idle", "pre", "lock", "down", "unlock", "done"}
<1>1. LockTyped
  BY Types
<1> USE <1>1, RequestFacts DEF HoldersInv, Holding, LockTyped, Goto
<1>2. ASSUME RequestDeploy(r), r \in Callers
      PROVE  /\ at'[r] \in Holding => lock' = r
             /\ lock' # lock => lock = r \/ lock = Nobody
             /\ r \in Callers => at'[r] \notin {"pre", "down"}
             /\ r \in StackCallers => at'[r] # "save"
             /\ r \in Destroyers => at'[r] \in {"idle", "pre", "lock", "down", "unlock", "done"}
  BY <1>2 DEF RequestDeploy, Start
<1>3. ASSUME RequestGroup(r), r \in Callers
      PROVE  /\ at'[r] \in Holding => lock' = r
             /\ lock' # lock => lock = r \/ lock = Nobody
             /\ r \in Callers => at'[r] \notin {"pre", "down"}
             /\ r \in StackCallers => at'[r] # "save"
             /\ r \in Destroyers => at'[r] \in {"idle", "pre", "lock", "down", "unlock", "done"}
  BY <1>3 DEF RequestGroup, Start
<1>4. ASSUME SaveSelection(r), r \in Callers
      PROVE  /\ at'[r] \in Holding => lock' = r
             /\ lock' # lock => lock = r \/ lock = Nobody
             /\ r \in Callers => at'[r] \notin {"pre", "down"}
             /\ r \in StackCallers => at'[r] # "save"
             /\ r \in Destroyers => at'[r] \in {"idle", "pre", "lock", "down", "unlock", "done"}
  BY <1>4 DEF SaveSelection
<1>5. ASSUME BeginApps(r), r \in Callers
      PROVE  /\ at'[r] \in Holding => lock' = r
             /\ lock' # lock => lock = r \/ lock = Nobody
             /\ r \in Callers => at'[r] \notin {"pre", "down"}
             /\ r \in StackCallers => at'[r] # "save"
             /\ r \in Destroyers => at'[r] \in {"idle", "pre", "lock", "down", "unlock", "done"}
  BY <1>5 DEF BeginApps, Lock
<1>6. ASSUME Agent(r), r \in Callers
      PROVE  /\ at'[r] \in Holding => lock' = r
             /\ lock' # lock => lock = r \/ lock = Nobody
             /\ r \in Callers => at'[r] \notin {"pre", "down"}
             /\ r \in StackCallers => at'[r] # "save"
             /\ r \in Destroyers => at'[r] \in {"idle", "pre", "lock", "down", "unlock", "done"}
  BY <1>6 DEF Agent, Return
<1>7. ASSUME Upload(r), r \in Callers
      PROVE  /\ at'[r] \in Holding => lock' = r
             /\ lock' # lock => lock = r \/ lock = Nobody
             /\ r \in Callers => at'[r] \notin {"pre", "down"}
             /\ r \in StackCallers => at'[r] # "save"
             /\ r \in Destroyers => at'[r] \in {"idle", "pre", "lock", "down", "unlock", "done"}
  BY <1>7 DEF Upload, NextApp, Stay, Stored
<1>8. ASSUME Panic(r), r \in Callers
      PROVE  /\ at'[r] \in Holding => lock' = r
             /\ lock' # lock => lock = r \/ lock = Nobody
             /\ r \in Callers => at'[r] \notin {"pre", "down"}
             /\ r \in StackCallers => at'[r] # "save"
             /\ r \in Destroyers => at'[r] \in {"idle", "pre", "lock", "down", "unlock", "done"}
  BY <1>8 DEF Panic, Leave
<1>9. ASSUME Volumes(r), r \in Callers
      PROVE  /\ at'[r] \in Holding => lock' = r
             /\ lock' # lock => lock = r \/ lock = Nobody
             /\ r \in Callers => at'[r] \notin {"pre", "down"}
             /\ r \in StackCallers => at'[r] # "save"
             /\ r \in Destroyers => at'[r] \in {"idle", "pre", "lock", "down", "unlock", "done"}
  BY <1>9 DEF Volumes, NextApp, Stay
<1>10. ASSUME Register(r), r \in Callers
      PROVE  /\ at'[r] \in Holding => lock' = r
             /\ lock' # lock => lock = r \/ lock = Nobody
             /\ r \in Callers => at'[r] \notin {"pre", "down"}
             /\ r \in StackCallers => at'[r] # "save"
             /\ r \in Destroyers => at'[r] \in {"idle", "pre", "lock", "down", "unlock", "done"}
  BY <1>10 DEF Register, NextApp, Stay
<1>11. ASSUME Poll(r), r \in Callers
      PROVE  /\ at'[r] \in Holding => lock' = r
             /\ lock' # lock => lock = r \/ lock = Nobody
             /\ r \in Callers => at'[r] \notin {"pre", "down"}
             /\ r \in StackCallers => at'[r] # "save"
             /\ r \in Destroyers => at'[r] \in {"idle", "pre", "lock", "down", "unlock", "done"}
  BY <1>11 DEF Poll, NextApp
<1>12. ASSUME AfterApps(r), r \in Callers
      PROVE  /\ at'[r] \in Holding => lock' = r
             /\ lock' # lock => lock = r \/ lock = Nobody
             /\ r \in Callers => at'[r] \notin {"pre", "down"}
             /\ r \in StackCallers => at'[r] # "save"
             /\ r \in Destroyers => at'[r] \in {"idle", "pre", "lock", "down", "unlock", "done"}
  BY <1>12 DEF AfterApps, Return
<1>13. ASSUME ClearHooks(r), r \in Callers
      PROVE  /\ at'[r] \in Holding => lock' = r
             /\ lock' # lock => lock = r \/ lock = Nobody
             /\ r \in Callers => at'[r] \notin {"pre", "down"}
             /\ r \in StackCallers => at'[r] # "save"
             /\ r \in Destroyers => at'[r] \in {"idle", "pre", "lock", "down", "unlock", "done"}
  BY <1>13 DEF ClearHooks, NextHook, Return, DropHooks
<1>14. ASSUME CreateHook(r), r \in Callers
      PROVE  /\ at'[r] \in Holding => lock' = r
             /\ lock' # lock => lock = r \/ lock = Nobody
             /\ r \in Callers => at'[r] \notin {"pre", "down"}
             /\ r \in StackCallers => at'[r] # "save"
             /\ r \in Destroyers => at'[r] \in {"idle", "pre", "lock", "down", "unlock", "done"}
  BY <1>14 DEF CreateHook, NextHook, Goto
<1>15. ASSUME Unlock(r), r \in Requests
      PROVE  /\ at'[r] \in Holding => lock' = r
             /\ lock' # lock => lock = r \/ lock = Nobody
             /\ r \in Callers => at'[r] \notin {"pre", "down"}
             /\ r \in StackCallers => at'[r] # "save"
             /\ r \in Destroyers => at'[r] \in {"idle", "pre", "lock", "down", "unlock", "done"}
  BY <1>15 DEF Unlock
<1>16. ASSUME Store(r), r \in Callers
      PROVE  /\ at'[r] \in Holding => lock' = r
             /\ lock' # lock => lock = r \/ lock = Nobody
             /\ r \in Callers => at'[r] \notin {"pre", "down"}
             /\ r \in StackCallers => at'[r] # "save"
             /\ r \in Destroyers => at'[r] \in {"idle", "pre", "lock", "down", "unlock", "done"}
  BY <1>16 DEF Store, Leave
<1>17. ASSUME RequestDestroy(r), r \in Destroyers
      PROVE  /\ at'[r] \in Holding => lock' = r
             /\ lock' # lock => lock = r \/ lock = Nobody
             /\ r \in Callers => at'[r] \notin {"pre", "down"}
             /\ r \in StackCallers => at'[r] # "save"
             /\ r \in Destroyers => at'[r] \in {"idle", "pre", "lock", "down", "unlock", "done"}
  BY <1>17 DEF RequestDestroy, Start
<1>18. ASSUME PreHook(r), r \in Destroyers
      PROVE  /\ at'[r] \in Holding => lock' = r
             /\ lock' # lock => lock = r \/ lock = Nobody
             /\ r \in Callers => at'[r] \notin {"pre", "down"}
             /\ r \in StackCallers => at'[r] # "save"
             /\ r \in Destroyers => at'[r] \in {"idle", "pre", "lock", "down", "unlock", "done"}
  BY <1>18 DEF PreHook
<1>19. ASSUME BeginDown(r), r \in Destroyers
      PROVE  /\ at'[r] \in Holding => lock' = r
             /\ lock' # lock => lock = r \/ lock = Nobody
             /\ r \in Callers => at'[r] \notin {"pre", "down"}
             /\ r \in StackCallers => at'[r] # "save"
             /\ r \in Destroyers => at'[r] \in {"idle", "pre", "lock", "down", "unlock", "done"}
  BY <1>19 DEF BeginDown, Lock
<1>20. ASSUME Down(r), r \in Destroyers
      PROVE  /\ at'[r] \in Holding => lock' = r
             /\ lock' # lock => lock = r \/ lock = Nobody
             /\ r \in Callers => at'[r] \notin {"pre", "down"}
             /\ r \in StackCallers => at'[r] # "save"
             /\ r \in Destroyers => at'[r] \in {"idle", "pre", "lock", "down", "unlock", "done"}
  BY <1>20 DEF Down, Return
<1>21. QED
  BY <1>2, <1>3, <1>4, <1>5, <1>6, <1>7, <1>8, <1>9, <1>10, <1>11, <1>12, <1>13,
     <1>14, <1>15, <1>16, <1>17, <1>18, <1>19, <1>20
     DEF StepOf, CallerStep, DestroyerStep

LEMMA HoldersStep ==
  ASSUME TypeOK, HoldersInv, [Next]_vars
  PROVE  HoldersInv'
<1>1. ASSUME NEW r \in Requests, StepOf(r)
      PROVE  HoldersInv'
  <2>1. \A y \in Requests : y # r => at'[y] = at[y]
    BY <1>1, OthersSame DEF SamePlace
  <2>2. /\ at'[r] \in Holding => lock' = r
        /\ lock' # lock => lock = r \/ lock = Nobody
        /\ r \in Callers => at'[r] \notin {"pre", "down"}
        /\ r \in StackCallers => at'[r] # "save"
        /\ r \in Destroyers => at'[r] \in {"idle", "pre", "lock", "down", "unlock", "done"}
    BY <1>1, OwnHold
  <2>3. ASSUME NEW y \in Requests, at'[y] \in Holding
        PROVE  lock' = y
    BY <2>1, <2>2, <2>3, RequestFacts DEF HoldersInv
  <2>4. QED
    BY <2>1, <2>2, <2>3, RequestFacts DEF HoldersInv
<1>2. ASSUME NEW a \in Apps, Schedule(a) \/ Settle(a)
      PROVE  HoldersInv'
  BY <1>2 DEF Schedule, Settle, HoldersInv
<1>3. CASE Cancel
  BY <1>3 DEF Cancel, HoldersInv
<1>4. CASE Crash
  <2>1. \A r \in Requests : at'[r] \in {"idle", "done"}
    BY <1>4 DEF Crash, Active
  <2>2. QED
    BY <2>1, RequestFacts DEF HoldersInv, Holding
<1>5. CASE UNCHANGED vars
  BY <1>5 DEF vars, HoldersInv
<1>6. QED
  BY <1>1, <1>2, <1>3, <1>4, <1>5, Steps

----------------------------------------------------------------------------
\* The loop over the applications.
LEMMA Advanced ==
  ASSUME LockTyped, WorkTyped, NEW c \in Callers
  PROVE  /\ NextApp(c, TRUE) \/ NextApp(c, FALSE) =>
               at'[c] = "upload" /\ todo'[c] = todo[c] \ {App(c)}
         /\ NextApp(c, TRUE) => failed'[c] = failed[c]
         /\ NextApp(c, FALSE) => failed'[c] = failed[c] \cup {App(c)}
         /\ \A place : Stay(c, place) => /\ at'[c] = place /\ todo'[c] = todo[c]
                                         /\ failed'[c] = failed[c]
BY RequestFacts DEF NextApp, Stay, Goto, LockTyped, WorkTyped

\* The loop leaves application a behind, as failed or as one that runs what
\* was rendered for it.
LEMMA AppLeft ==
  ASSUME NEW c \in Callers, CallerInv(c), at[c] \in Trying, NEW a \in todo[c],
         at'[c] = "upload", todo'[c] = todo[c] \ {a},
         cfg'[c].apps = cfg[c].apps, c \in misled => c \in misled',
         \A b \in cfg[c].apps : b # a => /\ cfg'[c].secrets[b] = cfg[c].secrets[b]
                                         /\ job'[b] = job[b],
         \/ failed'[c] = failed[c] \cup {a}
         \/ /\ failed'[c] = failed[c]
            /\ c \notin misled' => /\ job'[a].spec = cfg'[c].secrets[a]
                                   /\ job'[a].dep = job'[a].spec
                                   /\ job'[a].st = "successful"
  PROVE  CallerInv(c)'
<1>1. TodoInv(c)' /\ HookInv(c)'
  BY DEF CallerInv, TodoInv, HookInv, Trying, Hooking
<1>2. ASSUME c \notin misled', NEW b \in cfg[c].apps \ (todo'[c] \cup failed'[c])
      PROVE  /\ job'[b].spec = cfg'[c].secrets[b] /\ job'[b].dep = job'[b].spec
             /\ job'[b].st = "successful"
  <2>1. CASE b = a
    BY <1>2, <2>1
  <2>2. CASE b # a
    <3>1. b \in cfg[c].apps \ (todo[c] \cup failed[c]) /\ c \notin misled
      BY <1>2, <2>2
    <3>2. Runs(c, b)
      BY <3>1 DEF CallerInv, RunsInv
    <3>3. QED
      BY <2>2, <3>1, <3>2 DEF Runs
  <2>3. QED
    BY <2>1, <2>2
<1>3. RunsInv(c)'
  BY <1>2 DEF RunsInv, Runs, Trying, Hooking
<1>4. QED
  BY <1>1, <1>3 DEF CallerInv

\* The loop goes on with application a.
LEMMA AppStays ==
  ASSUME NEW c \in Callers, CallerInv(c), at[c] \in Trying, NEW a \in todo[c], a = App(c),
         at'[c] \in {"volumes", "register", "poll"}, todo'[c] = todo[c],
         failed'[c] = failed[c],
         cfg'[c].apps = cfg[c].apps, c \in misled => c \in misled',
         \A b \in cfg[c].apps : b # a => /\ cfg'[c].secrets[b] = cfg[c].secrets[b]
                                         /\ job'[b] = job[b],
         at'[c] # "poll" => file'[a] = cfg'[c].secrets[a],
         at'[c] = "poll" => job'[a].spec = cfg'[c].secrets[a]
  PROVE  CallerInv(c)'
<1>1. TodoInv(c)' /\ HookInv(c)'
  BY DEF CallerInv, TodoInv, HookInv, Trying, Hooking
<1>2. ASSUME c \notin misled', NEW b \in cfg[c].apps \ (todo'[c] \cup failed'[c])
      PROVE  /\ job'[b].spec = cfg'[c].secrets[b] /\ job'[b].dep = job'[b].spec
             /\ job'[b].st = "successful"
  <2>1. b \in cfg[c].apps \ (todo[c] \cup failed[c]) /\ c \notin misled /\ b # a
    BY <1>2
  <2>2. Runs(c, b)
    BY <2>1 DEF CallerInv, RunsInv
  <2>3. QED
    BY <2>1, <2>2 DEF Runs
<1>3. App(c)' = a
  BY SameApp
<1>4. RunsInv(c)'
  BY <1>2, <1>3 DEF RunsInv, Runs, Trying, Hooking
<1>5. QED
  BY <1>1, <1>4 DEF CallerInv

\* Nothing is said of a caller that is not between waitForAgent and unlock.
LEMMA Aside ==
  ASSUME NEW c \in Callers,
         at'[c] \in {"idle", "save", "lock", "agent", "store", "done"}
  PROVE  CallerInv(c)'
BY DEF CallerInv, TodoInv, HookInv, RunsInv, Trying, Hooking

\* Nor of one that is about to unlock and has not succeeded.
LEMMA AsideFailed ==
  ASSUME NEW c \in Callers, at'[c] = "unlock", result'[c] # "succeeded"
  PROVE  CallerInv(c)'
BY DEF CallerInv, TodoInv, HookInv, RunsInv, Trying, Hooking

\* The deployer ends, with a failure or a cancellation.
LEMMA Failing ==
  ASSUME LockTyped, ResultTyped, NEW c \in Callers, Return(c, "failed")
  PROVE  CallerInv(c)'
<1>1. at'[c] = "unlock" /\ result'[c] \in {"failed", "cancelled"}
  BY RequestFacts DEF Return, Goto, LockTyped, ResultTyped
<1>2. QED
  BY <1>1, AsideFailed

LEMMA Succeeding ==
  ASSUME LockTyped, ResultTyped, NEW c \in Callers, Return(c, "succeeded")
  PROVE  at'[c] = "unlock" /\ result'[c] = "succeeded"
BY RequestFacts DEF Return, Goto, LockTyped, ResultTyped


\* The ways an upload ends: without a tunnel, with the file, with half of it,
\* without it.
LEMMA UploadEnds ==
  ASSUME NEW c, Upload(c)
  PROVE  \/ cfg' = cfg /\ file' = file /\ minted' = minted /\ NextApp(c, FALSE)
         \/ /\ cfg' = [cfg EXCEPT ![c] = [cfg[c] EXCEPT !.secrets[App(c)] = Given(c)]]
            /\ MustMint(c) => cfg[c].given
            /\ \/ /\ Stored(App(c), Given(c))
                  /\ Stay(c, IF App(c) \in Mounted THEN "volumes" ELSE "register")
               \/ Stored(App(c), Absent) /\ NextApp(c, FALSE)
               \/ file' = file /\ NextApp(c, FALSE)
BY DEF Upload, Given

\* An application the hook store failed for: its hook is the old one, or none.
LEMMA HookLeft ==
  ASSUME LockTyped, WorkTyped, NEW c \in Callers, at[c] \in Hooking, CallerInv(c),
         App(c) \in todo[c], App(c) \in Apps, NextHook(c, FALSE),
         todo[c] \subseteq Hooked \cap cfg[c].apps,
         \A a \in (Hooked \cap cfg[c].apps) \ (todo[c] \cup failed[c]) : HookOf(c, a),
         UNCHANGED <<cfg, misled, file, job, hooks>>
  PROVE  CallerInv(c)'
<1>1. /\ at'[c] = "hooks" /\ todo'[c] = todo[c] \ {App(c)}
      /\ failed'[c] = failed[c] \cup {App(c)}
  BY RequestFacts DEF NextHook, Goto, LockTyped, WorkTyped
<1>2. TodoInv(c)' /\ RunsInv(c)'
  BY <1>1 DEF CallerInv, TodoInv, RunsInv, Runs, Trying, Hooking
<1>3. HookInv(c)'
  BY <1>1 DEF HookInv, HookOf, Hooking
<1>4. QED
  BY <1>2, <1>3 DEF CallerInv

\* What the caller's own step does to what it has built.
LEMMA OwnKeep ==
  ASSUME TypeOK, HoldersInv, NEW r \in Callers, StepOf(r), CallerInv(r), OneHook
  PROVE  CallerInv(r)' /\ OneHook'
<1>1. /\ LockTyped /\ WorkTyped /\ ResultTyped /\ WorldTyped /\ TypeOK
      /\ r \in Requests /\ r \in Callers /\ TodoInv(r) /\ CallerInv(r) /\ OneHook
  BY Types, RequestFacts DEF CallerInv
<1>2. CASE RequestDeploy(r) \/ RequestGroup(r) \/ SaveSelection(r) \/ Panic(r)
           \/ BeginApps(r) \/ Unlock(r) \/ Store(r)
  <2>1. at'[r] \in {"idle", "save", "lock", "agent", "store", "done"}
    BY <1>1, <1>2 DEF RequestDeploy, RequestGroup, SaveSelection, Panic, BeginApps,
       Unlock, Store, Start, Lock, Leave, Goto, LockTyped
  <2>2. hooks' = hooks
    BY <1>2 DEF RequestDeploy, RequestGroup, SaveSelection, Panic, BeginApps, Unlock,
       Store, world
  <2>3. QED
    BY <1>1, <2>1, <2>2, Aside DEF OneHook
<1>3. CASE Agent(r)
  <2>1. OneHook'
    BY <1>1, <1>3 DEF Agent, world, OneHook
  <2>2. CASE Return(r, "failed")
    BY <1>1, <2>1, <2>2, Failing
  <2>3. CASE cfg[r].apps = {} /\ Return(r, "succeeded")
    <3>1. at'[r] = "unlock" /\ cfg' = cfg
      BY <1>1, <1>3, <2>3, Succeeding DEF Agent
    <3>2. QED
      BY <2>1, <2>3, <3>1 DEF CallerInv, TodoInv, HookInv, RunsInv, Trying, Hooking
  <2>4. CASE /\ todo' = [todo EXCEPT ![r] = cfg[r].apps] /\ Goto(r, "upload")
    <3>1. at'[r] = "upload" /\ todo'[r] = cfg[r].apps /\ cfg' = cfg
      BY <1>1, <1>3, <2>4 DEF Agent, Goto, LockTyped, WorkTyped
    <3>2. QED
      BY <2>1, <3>1 DEF CallerInv, TodoInv, HookInv, RunsInv, Trying, Hooking
  <2>5. QED
    BY <1>3, <2>2, <2>3, <2>4 DEF Agent
<1>4. CASE Upload(r)
  <2>1. /\ at[r] \in Trying /\ App(r) \in todo[r] /\ App(r) \in Apps
        /\ Given(r) \in Nat /\ cfg[r].secrets[App(r)] \in Nat
    BY <1>1, <1>4, GivenTyped DEF Upload, Trying
  <2>2. hooks' = hooks /\ job' = job /\ misled' = misled
    BY <1>4 DEF Upload
  <2>3. OneHook'
    BY <1>1, <2>2 DEF OneHook
  <2>4. CASE cfg' = cfg /\ NextApp(r, FALSE)
    <3>1. /\ at'[r] = "upload" /\ todo'[r] = todo[r] \ {App(r)}
          /\ failed'[r] = failed[r] \cup {App(r)}
      BY <1>1, <2>4, Advanced
    <3>2. QED
      BY <1>1, <2>1, <2>2, <2>3, <2>4, <3>1, AppLeft
  <2>5. CASE cfg' = [cfg EXCEPT ![r] = [cfg[r] EXCEPT !.secrets[App(r)] = Given(r)]]
    <3>1. cfg'[r] = [cfg[r] EXCEPT !.secrets[App(r)] = Given(r)]
      BY <1>1, <2>5 DEF WorkTyped
    <3>2. cfg'[r].apps = cfg[r].apps
          /\ cfg'[r].secrets = [cfg[r].secrets EXCEPT ![App(r)] = Given(r)]
      BY <1>1, <2>1, <3>1, Reminted DEF WorkTyped
    <3>3. cfg[r].secrets \in Secrets /\ cfg[r].apps \subseteq Apps
      BY <1>1, FieldsOfRows DEF WorkTyped
    <3>4. /\ cfg'[r].secrets[App(r)] = Given(r)
          /\ \A b \in cfg[r].apps : b # App(r) =>
                cfg'[r].secrets[b] = cfg[r].secrets[b]
      BY <2>1, <3>2, <3>3 DEF Secrets
    <3>5. CASE NextApp(r, FALSE)
      <4>1. /\ at'[r] = "upload" /\ todo'[r] = todo[r] \ {App(r)}
            /\ failed'[r] = failed[r] \cup {App(r)}
        BY <1>1, <3>5, Advanced
      <4>2. CallerInv(r)'
        BY <1>1, <2>1, <2>2, <3>2, <3>4, <4>1, AppLeft
      <4>3. QED
        BY <2>3, <4>2
    <3>6. CASE /\ Stored(App(r), Given(r))
               /\ Stay(r, IF App(r) \in Mounted THEN "volumes" ELSE "register")
      <4>1. /\ at'[r] \in {"volumes", "register"} /\ todo'[r] = todo[r]
            /\ failed'[r] = failed[r]
        BY <1>1, <3>6, Advanced
      <4>2. file'[App(r)] = Given(r)
        BY <1>1, <2>1, <3>6 DEF Stored, WorldTyped
      <4>3. CallerInv(r)'
        BY <1>1, <2>1, <2>2, <3>2, <3>4, <4>1, <4>2, AppStays
      <4>4. QED
        BY <2>3, <4>3
    <3>7. QED
      BY <1>4, <2>5, <3>5, <3>6, UploadEnds
  <2>6. QED
    BY <1>4, <2>4, <2>5, UploadEnds
<1>5. CASE Volumes(r)
  <2>1. at[r] \in Trying /\ at[r] = "volumes" /\ App(r) \in todo[r]
    BY <1>1, <1>5, ChosenTyped DEF Volumes, Trying
  <2>2. cfg' = cfg /\ misled' = misled /\ file' = file /\ job' = job /\ hooks' = hooks
    BY <1>5 DEF Volumes, world
  <2>3. OneHook'
    BY <1>1, <2>2 DEF OneHook
  <2>4. CASE NextApp(r, FALSE)
    <3>1. /\ at'[r] = "upload" /\ todo'[r] = todo[r] \ {App(r)}
          /\ failed'[r] = failed[r] \cup {App(r)}
      BY <1>1, <2>4, Advanced
    <3>2. QED
      BY <1>1, <2>1, <2>2, <2>3, <3>1, AppLeft
  <2>5. CASE Stay(r, "register")
    <3>1. at'[r] = "register" /\ todo'[r] = todo[r] /\ failed'[r] = failed[r]
      BY <1>1, <2>5, Advanced
    <3>2. file[App(r)] = cfg[r].secrets[App(r)]
      BY <1>1, <2>1 DEF CallerInv, RunsInv
    <3>3. QED
      BY <1>1, <2>1, <2>2, <2>3, <3>1, <3>2, AppStays
  <2>6. QED
    BY <1>5, <2>4, <2>5 DEF Volumes
<1>6. CASE Register(r)
  <2>1. /\ at[r] \in Trying /\ at[r] = "register" /\ App(r) \in todo[r] /\ App(r) \in Apps
        /\ cfg[r].apps \subseteq Apps
    BY <1>1, <1>6, ChosenTyped, FieldsOfRows DEF Register, Trying, WorkTyped
  <2>2. cfg' = cfg /\ file' = file /\ hooks' = hooks
    BY <1>6 DEF Register
  <2>3. OneHook'
    BY <1>1, <2>2 DEF OneHook
  <2>4. file[App(r)] = cfg[r].secrets[App(r)]
    BY <1>1, <2>1 DEF CallerInv, RunsInv
  <2>5. Registered(App(r)) =>
            /\ job'[App(r)].spec = cfg[r].secrets[App(r)]
            /\ App(r) \in Batch => /\ job'[App(r)].dep = cfg[r].secrets[App(r)]
                                   /\ job'[App(r)].st = "successful"
            /\ \A b \in cfg[r].apps : b # App(r) => job'[b] = job[b]
    BY <1>1, <2>1, <2>4, RegisteredTyped
  <2>6. CASE Registered(App(r)) /\ App(r) \in Batch /\ NextApp(r, TRUE) /\ misled' = misled
    <3>1. at'[r] = "upload" /\ todo'[r] = todo[r] \ {App(r)} /\ failed'[r] = failed[r]
      BY <1>1, <2>6, Advanced
    <3>2. QED
      BY <1>1, <2>1, <2>2, <2>3, <2>5, <2>6, <3>1, AppLeft
  <2>7. CASE Registered(App(r)) /\ Stay(r, "poll") /\ misled' = misled
    <3>1. at'[r] = "poll" /\ todo'[r] = todo[r] /\ failed'[r] = failed[r]
      BY <1>1, <2>7, Advanced
    <3>2. QED
      BY <1>1, <2>1, <2>2, <2>3, <2>5, <2>7, <3>1, AppStays
  <2>8. CASE NextApp(r, FALSE) /\ misled' = misled /\ (Registered(App(r)) \/ job' = job)
    <3>1. /\ at'[r] = "upload" /\ todo'[r] = todo[r] \ {App(r)}
          /\ failed'[r] = failed[r] \cup {App(r)}
      BY <1>1, <2>8, Advanced
    <3>2. QED
      BY <1>1, <2>1, <2>2, <2>3, <2>5, <2>8, <3>1, AppLeft
  <2>9. CASE NextApp(r, TRUE) /\ misled' = misled \cup {r} /\ job' = job
    <3>1. at'[r] = "upload" /\ todo'[r] = todo[r] \ {App(r)} /\ failed'[r] = failed[r]
      BY <1>1, <2>9, Advanced
    <3>2. QED
      BY <1>1, <2>1, <2>2, <2>3, <2>9, <3>1, AppLeft
  <2>10. QED
    BY <1>6, <2>6, <2>7, <2>8, <2>9 DEF Register
<1>7. CASE Poll(r)
  <2>1. at[r] \in Trying /\ at[r] = "poll" /\ App(r) \in todo[r]
    BY <1>1, <1>7, ChosenTyped DEF Poll, Trying
  <2>2. cfg' = cfg /\ file' = file /\ job' = job /\ hooks' = hooks
    BY <1>7 DEF Poll, world
  <2>3. OneHook'
    BY <1>1, <2>2 DEF OneHook
  <2>4. job[App(r)].spec = cfg[r].secrets[App(r)]
    BY <1>1, <2>1 DEF CallerInv, RunsInv
  <2>5. CASE /\ job[App(r)].st = "successful" /\ NextApp(r, TRUE)
             /\ misled' = IF job[App(r)].dep # job[App(r)].spec
                          THEN misled \cup {r} ELSE misled
    <3>1. at'[r] = "upload" /\ todo'[r] = todo[r] \ {App(r)} /\ failed'[r] = failed[r]
      BY <1>1, <2>5, Advanced
    <3>2. r \in misled => r \in misled'
      BY <2>5
    <3>3. r \notin misled' => job[App(r)].dep = job[App(r)].spec
      BY <2>5
    <3>4. QED
      BY <1>1, <2>1, <2>2, <2>3, <2>4, <2>5, <3>1, <3>2, <3>3, AppLeft
  <2>6. CASE NextApp(r, FALSE) /\ misled \subseteq misled'
    <3>1. /\ at'[r] = "upload" /\ todo'[r] = todo[r] \ {App(r)}
          /\ failed'[r] = failed[r] \cup {App(r)}
      BY <1>1, <2>6, Advanced
    <3>2. r \in misled => r \in misled'
      BY <2>6
    <3>3. QED
      BY <1>1, <2>1, <2>2, <2>3, <3>1, <3>2, AppLeft
  <2>7. \/ NextApp(r, FALSE) /\ misled' = misled
        \/ /\ job[App(r)].st \in {"successful", "failed"}
           /\ NextApp(r, job[App(r)].st = "successful")
           /\ misled' = IF job[App(r)].dep # job[App(r)].spec
                        THEN misled \cup {r} ELSE misled
    BY <1>7 DEF Poll
  <2>8. NextApp(r, job[App(r)].st = "successful") =>
           IF job[App(r)].st = "successful" THEN NextApp(r, TRUE) ELSE NextApp(r, FALSE)
    BY DEF NextApp
  <2>9. QED
    BY <2>5, <2>6, <2>7, <2>8
<1>8. CASE AfterApps(r)
  <2>1. /\ at[r] = "upload" /\ todo[r] = {} /\ cfg' = cfg /\ misled' = misled
        /\ failed' = failed /\ file' = file /\ job' = job /\ hooks' = hooks
    BY <1>8 DEF AfterApps, world
  <2>2. OneHook'
    BY <1>1, <2>1 DEF OneHook
  <2>3. CASE Return(r, "failed")
    BY <1>1, <2>2, <2>3, Failing
  <2>4. CASE /\ failed[r] = {} /\ todo' = [todo EXCEPT ![r] = Hooked \cap cfg[r].apps]
             /\ Goto(r, "hooks")
    <3>1. at'[r] = "hooks" /\ todo'[r] = Hooked \cap cfg[r].apps
      BY <1>1, <2>4 DEF Goto, LockTyped, WorkTyped
    <3>2. r \notin misled => \A a \in cfg[r].apps : Runs(r, a)
      BY <1>1, <2>1, <2>4 DEF CallerInv, RunsInv, Trying
    <3>3. TodoInv(r)' /\ HookInv(r)'
      BY <2>1, <3>1 DEF TodoInv, HookInv, Trying, Hooking
    <3>4. RunsInv(r)'
      BY <2>1, <2>4, <3>1, <3>2 DEF RunsInv, Runs, Trying, Hooking
    <3>5. QED
      BY <2>2, <3>3, <3>4 DEF CallerInv
  <2>5. QED
    BY <1>8, <2>3, <2>4 DEF AfterApps
<1>9. CASE ClearHooks(r)
  <2>1. /\ at[r] = "hooks" /\ cfg' = cfg /\ misled' = misled /\ file' = file /\ job' = job
    BY <1>9 DEF ClearHooks
  <2>2. /\ todo[r] \subseteq Hooked \cap cfg[r].apps /\ todo[r] \subseteq Apps
        /\ \A a \in (Hooked \cap cfg[r].apps) \ (todo[r] \cup failed[r]) : HookOf(r, a)
    BY <1>1, <2>1, AppFacts DEF CallerInv, TodoInv, HookInv, Hooking
  <2>3. CASE todo[r] = {} /\ Return(r, "succeeded") /\ UNCHANGED <<todo, failed, hooks>>
    <3>1. at'[r] = "unlock"
      BY <1>1, <2>3, Succeeding
    <3>2. \A a \in (Hooked \cap cfg[r].apps) \ failed[r] : HookOf(r, a)
      BY <2>2, <2>3
    <3>3. TodoInv(r)' /\ RunsInv(r)'
      BY <3>1 DEF TodoInv, RunsInv, Trying, Hooking
    <3>4. HookInv(r)'
      BY <2>1, <2>3, <3>1, <3>2 DEF HookInv, HookOf, Hooking
    <3>5. OneHook'
      BY <1>1, <2>3 DEF OneHook
    <3>6. QED
      BY <3>3, <3>4, <3>5 DEF CallerInv
  <2>4. CASE /\ todo[r] # {} /\ DropHooks(App(r)) /\ Goto(r, "create")
             /\ UNCHANGED <<todo, failed>>
    <3>1. at'[r] = "create" /\ App(r)' = App(r) /\ App(r) \in todo[r] /\ App(r) \in Apps
      BY <1>1, <2>1, <2>2, <2>4, AppChosen, SameApp DEF Goto, LockTyped
    <3>2. /\ hooks'[App(r)] = <<>>
          /\ \A a \in Apps : a # App(r) => hooks'[a] = hooks[a]
      BY <1>1, <2>4, <3>1 DEF DropHooks, WorldTyped
    <3>3. TodoInv(r)' /\ RunsInv(r)'
      BY <1>1, <2>1, <2>2, <2>4, <3>1
         DEF CallerInv, TodoInv, RunsInv, Runs, Trying, Hooking
    <3>4. \A a \in (Hooked \cap cfg[r].apps) \ (todo[r] \cup failed[r]) : HookOf(r, a)'
      BY <2>1, <2>2, <3>1, <3>2, AppFacts DEF HookOf
    <3>5. HookInv(r)'
      BY <2>1, <2>4, <3>1, <3>2, <3>4 DEF HookInv, Hooking
    <3>6. OneHook'
      BY <1>1, <3>2 DEF OneHook
    <3>7. QED
      BY <3>3, <3>5, <3>6 DEF CallerInv
  <2>5. CASE todo[r] # {} /\ NextHook(r, FALSE) /\ hooks' = hooks
    <3>1. OneHook'
      BY <1>1, <2>5 DEF OneHook
    <3>2. App(r) \in todo[r] /\ App(r) \in Apps
      BY <2>2, <2>5, AppChosen
    <3>3. at[r] \in Hooking /\ UNCHANGED <<cfg, misled, file, job, hooks>>
      BY <2>1, <2>5 DEF Hooking
    <3>4. CallerInv(r)'
      BY <1>1, <2>2, <2>5, <3>2, <3>3, HookLeft, Zenon
    <3>5. QED
      BY <3>1, <3>4
  <2>6. QED
    BY <1>9, <2>3, <2>4, <2>5 DEF ClearHooks
<1>10. CASE CreateHook(r)
  <2>1. /\ at[r] = "create" /\ cfg' = cfg /\ misled' = misled /\ file' = file /\ job' = job
    BY <1>10 DEF CreateHook
  <2>2. App(r) \in todo[r] /\ App(r) \in Apps
    BY <1>1, <2>1, ChosenTyped
  <2>3. /\ hooks[App(r)] = <<>> /\ todo[r] \subseteq Hooked \cap cfg[r].apps
        /\ \A a \in (Hooked \cap cfg[r].apps) \ (todo[r] \cup failed[r]) : HookOf(r, a)
    BY <1>1, <2>1 DEF CallerInv, TodoInv, HookInv, Hooking
  <2>4. CASE /\ NextHook(r, TRUE)
             /\ hooks' = [hooks EXCEPT ![App(r)] = Append(@, cfg[r].secrets[App(r)])]
    <3>1. at'[r] = "hooks" /\ todo'[r] = todo[r] \ {App(r)} /\ failed'[r] = failed[r]
      BY <1>1, <2>4, RequestFacts DEF NextHook, Goto, LockTyped, WorkTyped
    <3>2. cfg[r].secrets[App(r)] \in Nat
      BY <1>1, <2>2, FieldsOfRows DEF WorkTyped, Secrets
    <3>3. Append(<<>>, cfg[r].secrets[App(r)]) = <<cfg[r].secrets[App(r)]>>
      BY <3>2
    <3>4. /\ hooks'[App(r)] = <<cfg[r].secrets[App(r)]>>
          /\ \A a \in Apps : a # App(r) => hooks'[a] = hooks[a]
      BY <1>1, <2>2, <2>3, <2>4, <3>3 DEF WorldTyped
    <3>5. TodoInv(r)' /\ RunsInv(r)'
      BY <1>1, <2>1, <2>3, <3>1 DEF CallerInv, TodoInv, RunsInv, Runs, Trying, Hooking
    <3>6. \A a \in (Hooked \cap cfg[r].apps) \ (todo'[r] \cup failed'[r]) : HookOf(r, a)'
      BY <2>1, <2>3, <3>1, <3>4, AppFacts DEF HookOf
    <3>7. HookInv(r)'
      BY <2>1, <3>1, <3>6 DEF HookInv, Hooking
    <3>8. OneHook'
      BY <1>1, <3>2, <3>4 DEF OneHook
    <3>9. QED
      BY <3>5, <3>7, <3>8 DEF CallerInv
  <2>5. CASE NextHook(r, FALSE) /\ hooks' = hooks
    <3>1. OneHook'
      BY <1>1, <2>5 DEF OneHook
    <3>2. at[r] \in Hooking /\ UNCHANGED <<cfg, misled, file, job, hooks>>
      BY <2>1, <2>5 DEF Hooking
    <3>3. CallerInv(r)'
      BY <1>1, <2>2, <2>3, <2>5, <3>2, HookLeft, Zenon
    <3>4. QED
      BY <3>1, <3>3
  <2>6. QED
    BY <1>10, <2>4, <2>5 DEF CreateHook
<1>11. r \notin Destroyers
  BY <1>1, RequestFacts
<1>12. QED
  BY <1>2, <1>3, <1>4, <1>5, <1>6, <1>7, <1>8, <1>9, <1>10, <1>11 DEF StepOf, CallerStep

\* Every step keeps what the callers have built.
LEMMA CallerStepKeeps ==
  ASSUME TypeOK, HoldersInv, OneHook, \A c \in Callers : CallerInv(c), [Next]_vars
  PROVE  OneHook' /\ \A c \in Callers : CallerInv(c)'
<1>1. ASSUME NEW r \in Requests, StepOf(r), NEW c \in Callers
      PROVE  CallerInv(c)'
  <2>1. CASE c = r
    BY <1>1, <2>1, OwnKeep
  <2>2. CASE c # r
    BY <1>1, <2>2, OthersSame, HolderWrites, OthersKeep, RequestFacts
  <2>3. QED
    BY <2>1, <2>2
<1>2. ASSUME NEW d \in Destroyers, StepOf(d)
      PROVE  hooks' = hooks
  BY <1>2, RequestFacts DEF StepOf, DestroyerStep, RequestDestroy, PreHook, BeginDown, Down,
     Unlock, world
<1>3. ASSUME NEW r \in Requests, StepOf(r)
      PROVE  OneHook'
  <2>1. CASE r \in Callers
    BY <1>3, <2>1, OwnKeep
  <2>2. CASE r \in Destroyers
    BY <1>2, <1>3, <2>2 DEF OneHook
  <2>3. QED
    BY <2>1, <2>2, RequestFacts
<1>4. ASSUME NEW a \in Apps, Schedule(a) \/ Settle(a), NEW c \in Callers
      PROVE  CallerInv(c)' /\ OneHook'
  <2>1. /\ at' = at /\ cfg' = cfg /\ todo' = todo /\ failed' = failed /\ file' = file
        /\ misled' = misled /\ result' = result /\ hooks' = hooks
    BY <1>4 DEF Schedule, Settle
  <2>2. App(c)' = App(c)
    BY <2>1, SameApp
  <2>3. \A b \in Apps : /\ job'[b].spec = job[b].spec
                        /\ job[b].dep = job[b].spec /\ job[b].st = "successful" =>
                              job'[b] = job[b]
    BY <1>4, Types, Scheduled
  <2>4. TodoInv(c)' /\ HookInv(c)' /\ OneHook'
    BY <2>1, <2>2 DEF CallerInv, TodoInv, HookInv, HookOf, OneHook
  <2>5. cfg[c].apps \subseteq Apps /\ todo[c] \subseteq Apps
    BY Types, FieldsOfRows, RequestFacts DEF WorkTyped
  <2>6. \A b \in cfg[c].apps : Runs(c, b) => Runs(c, b)'
    BY <2>1, <2>3, <2>5 DEF Runs
  <2>7. at[c] = "poll" => App(c) \in Apps
    BY ChosenTyped DEF CallerInv
  <2>8. RunsInv(c)'
    BY <2>1, <2>2, <2>3, <2>6, <2>7 DEF CallerInv, RunsInv
  <2>9. QED
    BY <2>4, <2>8 DEF CallerInv
<1>5. ASSUME Cancel \/ UNCHANGED vars, NEW c \in Callers
      PROVE  CallerInv(c)'
  <2>1. /\ at' = at /\ cfg' = cfg /\ todo' = todo /\ failed' = failed /\ file' = file
        /\ misled' = misled /\ result' = result /\ hooks' = hooks /\ job' = job
    BY <1>5 DEF Cancel, vars, world
  <2>2. App(c)' = App(c)
    BY <2>1, SameApp
  <2>3. QED
    BY <2>1, <2>2 DEF CallerInv, TodoInv, HookInv, HookOf, RunsInv, Runs
<1>6. ASSUME Crash, NEW c \in Callers
      PROVE  CallerInv(c)'
  <2>1. at'[c] \in {"idle", "done"}
    BY <1>6, RequestFacts DEF Crash, Active
  <2>2. QED
    BY <2>1, Aside
<1>7. (\E a \in Apps : Schedule(a) \/ Settle(a)) \/ Cancel \/ Crash \/ UNCHANGED vars => OneHook'
  <2>1. (\E a \in Apps : Schedule(a) \/ Settle(a)) \/ Cancel \/ Crash \/ UNCHANGED vars
           => hooks' = hooks
    BY DEF Schedule, Settle, Cancel, Crash, vars, world
  <2>2. QED
    BY <2>1 DEF OneHook
<1>8. QED
  BY <1>1, <1>3, <1>4, <1>5, <1>6, <1>7, Steps

----------------------------------------------------------------------------
\* While requests come one after the other nobody is beside the one at work.
LEMMA Solo ==
  ASSUME TypeOK, HoldersInv, AloneInv, NEW r \in Requests, StepOf(r), clean'
  PROVE  /\ clean /\ r \notin GroupCallers
         /\ \A y \in Requests : y # r => ~Active(y) /\ ~Active(y)'
<1>1. (clean' = clean /\ Active(r)) \/ (clean' = (clean /\ Quiet /\ r \notin GroupCallers))
  <2>1. CASE RequestDeploy(r)
    BY <2>1 DEF RequestDeploy, Start
  <2>2. CASE RequestGroup(r)
    BY <2>2 DEF RequestGroup, Start
  <2>3. CASE SaveSelection(r)
    BY <2>3 DEF SaveSelection, Active
  <2>4. CASE BeginApps(r)
    BY <2>4 DEF BeginApps, Active, Lock
  <2>5. CASE Agent(r)
    BY <2>5 DEF Agent, Active
  <2>6. CASE Upload(r)
    BY <2>6 DEF Upload, Active
  <2>7. CASE Panic(r)
    BY <2>7 DEF Panic, Active
  <2>8. CASE Volumes(r)
    BY <2>8 DEF Volumes, Active
  <2>9. CASE Register(r)
    BY <2>9 DEF Register, Active
  <2>10. CASE Poll(r)
    BY <2>10 DEF Poll, Active
  <2>11. CASE AfterApps(r)
    BY <2>11 DEF AfterApps, Active
  <2>12. CASE ClearHooks(r)
    BY <2>12 DEF ClearHooks, NextHook, Active
  <2>13. CASE CreateHook(r)
    BY <2>13 DEF CreateHook, Active
  <2>14. CASE Unlock(r)
    BY <2>14 DEF Unlock, Active
  <2>15. CASE Store(r)
    BY <2>15 DEF Store, Active
  <2>16. CASE RequestDestroy(r)
    BY <2>16 DEF RequestDestroy, Start
  <2>17. CASE PreHook(r)
    BY <2>17 DEF PreHook, Active
  <2>18. CASE BeginDown(r)
    BY <2>18 DEF BeginDown, Active, Lock
  <2>19. CASE Down(r)
    BY <2>19 DEF Down, Active
  <2>20. QED
    BY <2>1, <2>2, <2>3, <2>4, <2>5, <2>6, <2>7, <2>8, <2>9, <2>10, <2>11, <2>12,
       <2>13, <2>14, <2>15, <2>16, <2>17, <2>18, <2>19
       DEF StepOf, CallerStep, DestroyerStep
<1>2. /\ clean /\ r \notin GroupCallers /\ \A y \in Requests : y # r => ~Active(y)
  BY <1>1, RequestFacts DEF AloneInv, Quiet
<1>3. \A y \in Requests : y # r => at'[y] = at[y]
  BY OthersSame DEF SamePlace
<1>4. QED
  BY <1>2, <1>3 DEF Active

\* Of a stack's deployment at work, what it has generated or found.
LEMMA OwnKnows ==
  ASSUME TypeOK, HoldersInv, NEW r \in StackCallers, CallerInv(r), StepOf(r),
         Active(r) => /\ Knows(cfg[r].secrets)
                      /\ ~cfg[r].given => cfg[r].secrets = row.secrets,
         ~Active(r) => Knows(row.secrets)
  PROVE  /\ Active(r)' => /\ Knows(cfg[r].secrets)'
                          /\ ~cfg'[r].given => cfg'[r].secrets = row'.secrets
         /\ ~Active(r)' => Knows(row.secrets)'
<1>1. /\ LockTyped /\ WorkTyped /\ WorldTyped /\ RowTyped /\ TypeOK
      /\ r \in Callers /\ r \in Requests /\ r \notin GroupCallers /\ r \notin Destroyers
      /\ at[r] # "save"
  BY Types, RequestFacts DEF HoldersInv
<1>2. CASE RequestDeploy(r)
  <2>1. cfg'[r] = row /\ row' = row /\ file' = file /\ job' = job
    BY <1>1, <1>2 DEF RequestDeploy, WorkTyped, world
  <2>2. ~Active(r)
    BY <1>2 DEF RequestDeploy, Start, Active
  <2>3. QED
    BY <2>1, <2>2 DEF Knows
<1>3. CASE BeginApps(r) \/ Agent(r) \/ Volumes(r) \/ Poll(r) \/ AfterApps(r)
           \/ ClearHooks(r) \/ CreateHook(r) \/ Unlock(r)
  <2>1. cfg' = cfg /\ row' = row /\ file' = file /\ job' = job /\ Active(r)
    BY <1>3 DEF BeginApps, Lock, Agent, Volumes, Poll, AfterApps, ClearHooks, CreateHook,
       Unlock, Active, world
  <2>2. Active(r)'
    BY <1>1, <1>3 DEF BeginApps, Lock, Agent, Volumes, Poll, AfterApps, ClearHooks,
       CreateHook, NextHook, Unlock, Active, Goto, Return, NextApp, Stay, LockTyped
  <2>3. QED
    BY <2>1, <2>2 DEF Knows
<1>4. CASE Upload(r)
  <2>1. Active(r) /\ row' = row /\ job' = job /\ todo[r] # {}
    BY <1>4 DEF Upload, Active
  <2>2. /\ App(r) \in Apps /\ Given(r) \in Nat /\ cfg[r].secrets[App(r)] \in Nat
    BY <1>1, <2>1, GivenTyped
  <2>3. Active(r)'
    BY <1>1, <1>4 DEF Upload, Active, Goto, NextApp, Stay, LockTyped
  <2>4. CASE cfg' = cfg /\ file' = file
    BY <2>1, <2>3, <2>4 DEF Knows
  <2>5. CASE /\ cfg' = [cfg EXCEPT ![r] = [cfg[r] EXCEPT !.secrets[App(r)] = Given(r)]]
             /\ MustMint(r) => cfg[r].given
    <3>1. cfg'[r] = [cfg[r] EXCEPT !.secrets[App(r)] = Given(r)]
      BY <1>1, <2>5 DEF WorkTyped
    <3>2. cfg'[r].given = cfg[r].given
          /\ cfg'[r].secrets = [cfg[r].secrets EXCEPT ![App(r)] = Given(r)]
      BY <1>1, <2>2, <3>1, Reminted DEF WorkTyped
    <3>3. cfg[r].secrets \in [Apps -> Nat]
      BY <1>1, FieldsOfRows DEF WorkTyped, Secrets
    <3>4. file' = file \/ \E s \in {Given(r), Absent} : file' = [file EXCEPT ![App(r)] = s]
      BY <1>4, UploadEnds DEF Stored
    <3>5. ASSUME NEW a \in Generated
          PROVE  /\ file'[a] # 0 /\ file'[a] \in {Absent, cfg'[r].secrets[a]}
                 /\ job[a].spec # 0 /\ job[a].spec \in {Absent, cfg'[r].secrets[a]}
      <4>1. /\ file[a] # 0 /\ file[a] \in {Absent, cfg[r].secrets[a]}
            /\ job[a].spec # 0 /\ job[a].spec \in {Absent, cfg[r].secrets[a]} /\ a \in Apps
        BY <2>1, AppFacts DEF Knows
      <4>2. CASE a # App(r)
        <5>1. cfg'[r].secrets[a] = cfg[r].secrets[a]
          BY <2>2, <3>2, <3>3, <4>1, <4>2
        <5>2. file'[a] = file[a]
          BY <1>1, <2>2, <3>4, <4>1, <4>2 DEF WorldTyped
        <5>3. QED
          BY <4>1, <5>1, <5>2
      <4>3. CASE a = App(r)
        <5>1. cfg'[r].secrets[a] = Given(r)
          BY <2>2, <3>2, <3>3, <4>1, <4>3
        <5>2. file'[a] \in {file[a], Given(r), Absent}
          BY <1>1, <2>2, <3>4, <4>1, <4>3 DEF WorldTyped
        <5>3. Given(r) # 0 /\ Absent # 0
          BY <1>1, <4>3, AppFacts DEF Given, MustMint, WorldTyped
        <5>4. cfg[r].secrets[a] \in {0, Given(r)}
          BY <4>3 DEF Given, MustMint
        <5>5. QED
          BY <4>1, <5>1, <5>2, <5>3, <5>4
      <4>4. QED
        BY <4>2, <4>3
    <3>6. ASSUME ~cfg[r].given
          PROVE  cfg'[r].secrets = cfg[r].secrets
      <4>1. Given(r) = cfg[r].secrets[App(r)]
        BY <2>5, <3>6 DEF Given
      <4>2. QED
        BY <2>2, <3>2, <3>3, <4>1
    <3>7. Knows(cfg[r].secrets)'
      BY <2>1, <3>5 DEF Knows
    <3>8. QED
      BY <2>1, <2>3, <3>2, <3>6, <3>7
  <2>6. QED
    BY <1>4, <2>4, <2>5, UploadEnds
<1>5. CASE Panic(r)
  <2>1. /\ Active(r) /\ row' = row /\ file' = file /\ job' = job /\ ~cfg[r].given
        /\ at'[r] = "done"
    BY <1>1, <1>5 DEF Panic, Active, world, Leave, Goto, LockTyped
  <2>2. QED
    BY <2>1 DEF Knows, Active
<1>6. CASE Register(r)
  <2>1. /\ Active(r) /\ cfg' = cfg /\ row' = row /\ file' = file
        /\ (job' = job \/ Registered(App(r))) /\ at[r] = "register"
    BY <1>6 DEF Register, Active
  <2>2. Active(r)'
    BY <1>1, <1>6 DEF Register, Active, Goto, NextApp, Stay, LockTyped
  <2>3. App(r) \in Apps
    BY <1>1, <1>6, ChosenTyped DEF Register, CallerInv
  <2>4. \A a \in Apps : job'[a].spec \in {job[a].spec, file[a]}
    BY <1>1, <2>1, <2>3, RegisteredTyped
  <2>5. Knows(cfg[r].secrets)'
    BY <2>1, <2>4, AppFacts DEF Knows
  <2>6. QED
    BY <2>1, <2>2, <2>5
<1>7. CASE Store(r)
  <2>1. /\ Active(r) /\ row' = cfg[r] /\ file' = file /\ job' = job /\ at'[r] = "done"
    BY <1>1, <1>7 DEF Store, Active, world, Leave, Goto, LockTyped
  <2>2. QED
    BY <2>1 DEF Knows, Active
<1>8. ~RequestGroup(r) /\ ~SaveSelection(r)
  BY <1>1 DEF RequestGroup, SaveSelection
<1>9. QED
  BY <1>1, <1>2, <1>3, <1>4, <1>5, <1>6, <1>7, <1>8 DEF StepOf, CallerStep

\* A destroy takes files and jobs away, if anything.
LEMMA DownKnows ==
  ASSUME TypeOK, NEW r \in Destroyers, StepOf(r), Knows(row.secrets)
  PROVE  Knows(row.secrets)'
<1>1. r \notin Callers /\ r \in Requests
  BY RequestFacts
<1>2. row' = row
  BY <1>1 DEF StepOf, DestroyerStep, RequestDestroy, PreHook, BeginDown, Down, Unlock
<1>3. \/ file' = file /\ job' = job
      \/ file' = [a \in Apps |-> Absent] /\ job' = [a \in Apps |-> NoJob]
  BY <1>1 DEF StepOf, DestroyerStep, RequestDestroy, PreHook, BeginDown, Down, Unlock, world
<1>4. QED
  BY <1>2, <1>3, AppFacts DEF Knows, NoJob

LEMMA AloneStep ==
  ASSUME TypeOK, HoldersInv, AloneInv, KnowsInv, \A c \in Callers : CallerInv(c),
         [Next]_vars
  PROVE  AloneInv' /\ KnowsInv'
<1>1. ASSUME NEW r \in Requests, StepOf(r), clean'
      PROVE  AloneInv' /\ KnowsInv'
  <2>1. /\ clean /\ r \notin GroupCallers
        /\ \A y \in Requests : y # r => ~Active(y) /\ ~Active(y)'
    BY <1>1, Solo
  <2>2. AloneInv'
    BY <2>1, RequestFacts DEF AloneInv
  <2>3. CASE r \in StackCallers
    <3>1. /\ Active(r) => /\ Knows(cfg[r].secrets)
                          /\ ~cfg[r].given => cfg[r].secrets = row.secrets
          /\ ~Active(r) => Knows(row.secrets)
      BY <2>1, <2>3, RequestFacts DEF KnowsInv
    <3>2. /\ Active(r)' => /\ Knows(cfg[r].secrets)'
                           /\ ~cfg'[r].given => cfg'[r].secrets = row'.secrets
          /\ ~Active(r)' => Knows(row.secrets)'
      BY <1>1, <2>3, <3>1, OwnKnows, RequestFacts
    <3>3. \A c \in StackCallers : c # r => ~Active(c)'
      BY <2>1, RequestFacts
    <3>4. KnowsInv'
      BY <2>3, <3>2, <3>3 DEF KnowsInv
    <3>5. QED
      BY <2>2, <3>4
  <2>4. CASE r \in Destroyers
    <3>1. \A c \in StackCallers : ~Active(c) /\ ~Active(c)'
      BY <2>1, <2>4, RequestFacts
    <3>2. Knows(row.secrets)
      BY <2>1, <3>1 DEF KnowsInv
    <3>3. Knows(row.secrets)'
      BY <1>1, <2>4, <3>2, DownKnows
    <3>4. KnowsInv'
      BY <3>1, <3>3 DEF KnowsInv
    <3>5. QED
      BY <2>2, <3>4
  <2>5. QED
    BY <2>1, <2>3, <2>4, RequestFacts
<1>2. ASSUME ~clean'
      PROVE  AloneInv' /\ KnowsInv'
  BY <1>2 DEF AloneInv, KnowsInv
<1>3. ASSUME NEW a \in Apps, Schedule(a) \/ Settle(a)
      PROVE  AloneInv' /\ KnowsInv'
  <2>1. /\ at' = at /\ cfg' = cfg /\ row' = row /\ file' = file /\ clean' = clean
    BY <1>3 DEF Schedule, Settle
  <2>2. \A b \in Apps : job'[b].spec = job[b].spec
    BY <1>3, Types, Scheduled
  <2>3. AloneInv'
    BY <2>1 DEF AloneInv, Active
  <2>4. KnowsInv'
    BY <2>1, <2>2, AppFacts DEF KnowsInv, Knows, Active
  <2>5. QED
    BY <2>3, <2>4
<1>4. CASE Cancel \/ UNCHANGED vars
  <2>1. /\ at' = at /\ cfg' = cfg /\ row' = row /\ file' = file /\ clean' = clean
        /\ job' = job
    BY <1>4 DEF Cancel, vars, world
  <2>2. QED
    BY <2>1 DEF AloneInv, KnowsInv, Knows, Active
<1>5. Crash => ~clean'
  BY DEF Crash
<1>6. QED
  BY <1>1, <1>2, <1>3, <1>4, <1>5, Steps

----------------------------------------------------------------------------
LEMMA InitKnows ==
  ASSUME Init
  PROVE  RowTyped /\ WorldTyped /\ Knows(row.secrets) /\ OneHook
<1>1. PICK deployed \in BOOLEAN, given \in BOOLEAN :
        /\ row = RowOf(Apps, given, [a \in Apps |-> IF deployed /\ a \in Generated THEN 1 ELSE 0])
        /\ settings = [given |-> given, secrets |-> NoSecrets]
        /\ file = [a \in Apps |-> IF deployed
                                  THEN IF a \in Generated THEN 1 ELSE 0 ELSE Absent]
        /\ job = [a \in Apps |->
              IF deployed THEN [spec |-> IF a \in Generated THEN 1 ELSE 0,
                                dep |-> IF a \in Generated THEN 1 ELSE 0,
                                st |-> "successful"]
                          ELSE NoJob]
        /\ hooks = [a \in Apps |-> IF deployed /\ a \in Hooked
                      THEN << IF a \in Generated THEN 1 ELSE 0 >> ELSE <<>>]
        /\ minted = IF deployed THEN 1 ELSE 0
  BY DEF Init
<1> DEFINE s == [a \in Apps |-> IF deployed /\ a \in Generated THEN 1 ELSE 0]
<1>2. s \in Secrets
  BY DEF Secrets
<1>3. row \in Rows /\ row.secrets = s
  BY <1>1, <1>2, RowFields
<1>4. RowTyped
  BY <1>1, <1>3, UnreadTyped DEF RowTyped
<1>5. file \in [Apps -> Nat \cup {Absent}] /\ job \in [Apps -> Jobs] /\ minted \in Nat
  BY <1>1, UnreadTyped DEF Jobs
<1>6. hooks \in [Apps -> Seq(Nat)] /\ OneHook
  <2>1. ASSUME NEW a \in Apps
        PROVE  hooks[a] \in Seq(Nat) /\ (hooks[a] = <<>> \/ \E x \in Nat : hooks[a] = <<x>>)
    <3>1. \A x \in Nat : <<x>> \in Seq(Nat)
      OBVIOUS
    <3>2. <<>> \in Seq(Nat)
      OBVIOUS
    <3>3. hooks[a] = <<>> \/ \E x \in Nat : hooks[a] = <<x>>
      <4>1. hooks[a] = <<>> \/ hooks[a] = <<1>> \/ hooks[a] = <<0>>
        BY <1>1
      <4>2. QED
        BY <4>1
    <3>4. QED
      BY <3>1, <3>2, <3>3
  <2>2. hooks = [a \in Apps |-> hooks[a]]
    BY <1>1
  <2>3. QED
    BY <2>1, <2>2 DEF OneHook
<1>7. Knows(row.secrets)
  <2>1. ASSUME NEW a \in Generated
        PROVE  /\ file[a] # 0 /\ file[a] \in {Absent, s[a]}
               /\ job[a].spec # 0 /\ job[a].spec \in {Absent, s[a]}
    <3>1. a \in Apps /\ Absent # 0
      BY AppFacts
    <3>2. QED
      BY <1>1, <3>1 DEF NoJob
  <2>2. QED
    BY <1>3, <2>1 DEF Knows
<1>8. QED
  BY <1>4, <1>5, <1>6, <1>7 DEF WorldTyped

LEMMA InitInv ==
  ASSUME Init
  PROVE  IInv
<1>1. /\ lock = Nobody /\ cancelled = {} /\ misled = {} /\ stopped = {} /\ clean = TRUE
      /\ crashes = 0 /\ at = [r \in Requests |-> "idle"] /\ cfg = [c \in Callers |-> Unread]
      /\ todo = [r \in Requests |-> {}] /\ failed = [c \in Callers |-> {}]
      /\ result = [r \in Requests |-> "none"]
  BY DEF Init
<1>2. TypeOK
  BY <1>1, InitKnows, UnreadTyped, BoundsAssumption DEF TypeOK, RowTyped, WorldTyped, Places
<1>3. \A r \in Requests : at[r] = "idle"
  BY <1>1
<1>4. HoldersInv /\ \A c \in Callers : CallerInv(c)
  BY <1>3, RequestFacts DEF HoldersInv, Holding, CallerInv, TodoInv, HookInv, RunsInv,
     Trying, Hooking
<1>5. AloneInv /\ KnowsInv
  BY <1>3, InitKnows, RequestFacts DEF AloneInv, KnowsInv, Active
<1>6. QED
  BY <1>2, <1>4, <1>5, InitKnows DEF IInv

\* The inductive invariant, for any applications, requests and restarts.
THEOREM Inductive == Spec => []IInv
<1>1. IInv /\ [Next]_vars => IInv'
  BY TypeStep, HoldersStep, CallerStepKeeps, AloneStep DEF IInv
<1>2. QED
  BY <1>1, InitInv, PTL DEF Spec

\* Every variable keeps its type.
THEOREM TypeCorrect == Spec => []TypeOK
<1>1. IInv => TypeOK
  BY DEF IInv
<1>2. QED
  BY <1>1, Inductive, PTL

\* An application never has two hooks registered, and after a success it has
\* exactly the one that was rendered for it (deployer.go:587), unless the hook
\* store failed for it, however deployments, destructions and restarts come
\* between.
THEOREM Replaced == Spec => []HooksReplaced
<1>1. IInv => HooksReplaced
  <2> SUFFICES ASSUME IInv
               PROVE  HooksReplaced
    OBVIOUS
  <2>1. ASSUME NEW a \in Apps
        PROVE  Len(hooks[a]) <= 1
    <3>1. CASE hooks[a] = <<>>
      BY <3>1
    <3>2. ASSUME NEW s \in Nat, hooks[a] = <<s>>
          PROVE  Len(hooks[a]) <= 1
      BY <3>2
    <3>3. QED
      BY <3>1, <3>2 DEF IInv, OneHook
  <2>2. ASSUME NEW c \in Callers, at[c] = "unlock", result[c] = "succeeded"
        PROVE  \A a \in (Hooked \cap cfg[c].apps) \ failed[c] :
                  hooks[a] = <<cfg[c].secrets[a]>>
    BY <2>2 DEF IInv, CallerInv, HookInv, HookOf
  <2>3. QED
    BY <2>1, <2>2 DEF HooksReplaced
<1>2. QED
  BY <1>1, Inductive, PTL

\* While requests come one after the other, the row has the secret of every
\* registered job, whether deployments fail, are cancelled or panic.
THEOREM Remembered == Spec => []SecretsRemembered
<1>1. IInv => SecretsRemembered
  <2> SUFFICES ASSUME IInv, clean, Quiet
               PROVE  \A a \in Generated : job[a].spec \in {Absent, row.secrets[a]}
    BY DEF SecretsRemembered
  <2>1. \A c \in StackCallers : ~Active(c)
    BY RequestFacts DEF Quiet
  <2>2. QED
    BY <2>1 DEF IInv, KnowsInv, Knows
<1>2. QED
  BY <1>1, Inductive, PTL

LEMMA OwnSuccess ==
  ASSUME ResultTyped, NEW c \in Callers, StepOf(c), result[c] # "succeeded",
         result'[c] = "succeeded"
  PROVE  at[c] = "hooks" \/ cfg[c].apps = {}
<1>1. c \in Requests /\ c \notin Destroyers
  BY RequestFacts
<1>2. CASE Agent(c)
  BY <1>1, <1>2 DEF Agent, Return, ResultTyped
<1>3. CASE AfterApps(c)
  BY <1>1, <1>3 DEF AfterApps, Return, ResultTyped
<1>4. CASE ClearHooks(c)
  BY <1>4 DEF ClearHooks
<1>5. CASE BeginApps(c)
  BY <1>1, <1>5 DEF BeginApps, Lock, ResultTyped
<1>6. CASE \/ RequestDeploy(c) \/ RequestGroup(c) \/ SaveSelection(c) \/ Upload(c) \/ Panic(c)
           \/ Volumes(c) \/ Register(c) \/ Poll(c) \/ CreateHook(c) \/ Unlock(c) \/ Store(c)
  BY <1>6 DEF RequestDeploy, RequestGroup, SaveSelection, Upload, Panic, Volumes, Register,
     Poll, CreateHook, Unlock, Store
<1>7. QED
  BY <1>1, <1>2, <1>3, <1>4, <1>5, <1>6 DEF StepOf, CallerStep

\* What a deployment that was not misled reports deployed runs what it has
\* rendered (deployer.go:103), for any selection of applications.
THEOREM Real == Spec => SuccessIsReal
<1>1. IInv /\ [Next]_vars =>
        \A c \in Callers :
          result[c] # "succeeded" /\ result'[c] = "succeeded" /\ c \notin misled =>
            \A a \in cfg[c].apps :
               /\ job[a].spec = cfg[c].secrets[a] /\ job[a].dep = job[a].spec
               /\ job[a].st = "successful"
  <2> SUFFICES ASSUME IInv, [Next]_vars, NEW c \in Callers, result[c] # "succeeded",
                      result'[c] = "succeeded", c \notin misled, NEW a \in cfg[c].apps
               PROVE  Runs(c, a)
    BY DEF Runs
  <2>1. TypeOK /\ ResultTyped /\ CallerInv(c)
    BY Types DEF IInv
  <2>2. PICK r \in Requests : StepOf(r)
    BY Steps DEF Schedule, Settle, Cancel, Crash, vars
  <2>3. r = c
    BY <2>1, <2>2, OthersSame, RequestFacts DEF SamePlace
  <2>4. at[c] = "hooks"
    BY <2>1, <2>2, <2>3, OwnSuccess
  <2>5. QED
    BY <2>1, <2>4 DEF CallerInv, RunsInv, Hooking
<1>2. QED
  BY <1>1, Inductive, PTL DEF SuccessIsReal, Spec
=============================================================================
