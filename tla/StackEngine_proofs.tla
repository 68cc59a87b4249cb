------------------------- MODULE StackEngine_proofs -------------------------
(***************************************************************************)
(* What StackEngine guarantees for every number of stacks, operations and  *)
(* attempts, alone and beside the requests of StackService.  The           *)
(* properties are not inductive one by one: the result's agreement with    *)
(* the goroutine (ResultInv), the lock's hold on the goroutines (LockInv), *)
(* the row's agreement with the goroutine (RowInv) and the cloud's with    *)
(* the last call (TruthInv) each rest on the previous ones.  These hold    *)
(* beside deletions too; what a deletion takes away is in KeptInv.         *)
(***************************************************************************)
EXTENDS StackService, TLAPS

\* The places before the engine call has a result.
Before == {"idle", "requested", "prepare", "resolve", "recover", "ready",
           "exec"}

\* A dead server runs nothing.
DownIsQuiet == server = "down" => \A o \in Ops : pc[o] \notin Live \cup {"panicked"}

LockInv ==
    /\ MutualExclusion
    /\ LockHasHolder
    /\ CancelReachesHolder
    /\ DownIsQuiet

ResultInv ==
    \A o \in Ops :
        /\ pc[o] \in Before => result[o] = "none"
        /\ pc[o] \in Live \ (Before \cup {"unregister", "unlock"}) => result[o] # "none"

RowInv ==
    \A o \in Ops :
        /\ pc[o] \in Live \cup {"panicked"} => record[o] \in {"running", "absent"}
        /\ pc[o] = "idle" => record[o] = "absent"
        /\ server = "up" /\ record[o] = "running" => pc[o] \in Live \cup {"panicked"}
        /\ record[o] = "succeeded" => result[o] = "succeeded"

\* The operation in a Pulumi call that changes things is the last to have
\* begun one, and the last one's success still shows in the cloud, unless
\* nothing is known of the stack.
TruthInv ==
    /\ \A o \in Ops :
          pc[o] = "exec" /\ kind[o] \in Mutators => last[stk[o]] = o
    /\ \A s \in Stacks, o \in Ops :
          last[s] = o =>
             /\ stk[o] = s /\ kind[o] \in Mutators /\ pc[o] # "idle"
             /\ result[o] = "succeeded" => infra[s] \in {Goal(kind[o]), "absent"}

\* Without deletions, a goroutine has its row and a stack its resources.
KeptInv ==
    /\ \A o \in Ops : pc[o] \in Live \cup {"panicked"} => record[o] # "absent"
    /\ \A s \in Stacks, o \in Ops :
          last[s] = o /\ result[o] = "succeeded" => infra[s] = Goal(kind[o])

SharedInv == TypeOK /\ LockInv /\ ResultInv /\ RowInv /\ TruthInv
IInv == SharedInv /\ KeptInv

----------------------------------------------------------------------------
\* Types: Finish needs ResultInv, a goroutine that ends has a result.
LEMMA TypeStep == TypeOK /\ ResultInv /\ [Next]_vars => TypeOK'
<1> SUFFICES ASSUME TypeOK, ResultInv, [Next]_vars PROVE TypeOK'
  OBVIOUS
<1> USE DEF TypeOK, ResultInv, Before, Goto, Return, Places, Over, Live, Held, Statuses, Goal, Mutators,
         AllKinds
<1>1. ASSUME NEW o \in Ops, NEW s \in Stacks, NEW k \in Kinds, Begin(o, s, k)
      PROVE  TypeOK'
  BY <1>1, KindsAssumption, SMTT(60) DEF Begin, engine, request, cloud
<1>2. ASSUME NEW o \in Ops, Acquire(o)
      PROVE  TypeOK'
  BY <1>2, SMTT(60) DEF Acquire, engine, request, cloud
<1>3. ASSUME NEW o \in Ops, Conflict(o)
      PROVE  TypeOK'
  BY <1>3, SMTT(60) DEF Conflict, engine, request, cloud
<1>4. ASSUME NEW o \in Ops, Reject(o)
      PROVE  TypeOK'
  BY <1>4, SMTT(60) DEF Reject, engine, request, cloud
<1>5. ASSUME NEW o \in Ops, Register(o)
      PROVE  TypeOK'
  BY <1>5, SMTT(60) DEF Register, engine, request, cloud
<1>6. ASSUME NEW o \in Ops, Resolve(o) \/ RecoverPending(o) \/ FailEarly(o)
      PROVE  TypeOK'
  BY <1>6, SMTT(60) DEF Resolve, RecoverPending, FailEarly, engine, request, cloud
<1>7. ASSUME NEW o \in Ops, Call(o)
      PROVE  TypeOK'
  BY <1>7, SMTT(60) DEF Call, engine, request, cloud
<1>8. ASSUME NEW o \in Ops, Refused(o)
      PROVE  TypeOK'
  BY <1>8, SMTT(60) DEF Refused, engine, request, cloud
<1>9. ASSUME NEW o \in Ops, Checkpoint(o)
      PROVE  TypeOK'
  BY <1>9, SMTT(60) DEF Checkpoint, engine, request, cloud
<1>10. ASSUME NEW o \in Ops, Succeed(o)
      PROVE  TypeOK'
  BY <1>10, SMTT(60) DEF Succeed, engine, request, cloud
<1>11. ASSUME NEW o \in Ops, Interrupted(o) \/ Fail(o) \/ Panic(o)
      PROVE  TypeOK'
  BY <1>11, SMTT(60) DEF Interrupted, Fail, Panic, engine, request, cloud
<1>12. ASSUME NEW o \in Ops, Retry(o)
      PROVE  TypeOK'
  BY <1>12, AttemptsAssumption, SMTT(60) DEF Retry, engine, request, cloud
<1>13. ASSUME NEW o \in Ops, Discover(o)
      PROVE  TypeOK'
  BY <1>13, SMTT(60) DEF Discover, engine, request, cloud
<1>14. ASSUME NEW o \in Ops, Unregister(o)
      PROVE  TypeOK'
  BY <1>14, SMTT(60) DEF Unregister, engine, request, cloud
<1>15. ASSUME NEW o \in Ops, Unlock(o)
      PROVE  TypeOK'
  BY <1>15, SMTT(60) DEF Unlock, engine, request, cloud
<1>16. ASSUME NEW o \in Ops, Teardown(o)
      PROVE  TypeOK'
  BY <1>16, SMTT(60) DEF Teardown, engine, request, cloud
<1>17. ASSUME NEW o \in Ops, Finish(o)
      PROVE  TypeOK'
  BY <1>17, SMTT(60) DEF Finish, engine, request, cloud
<1>18. ASSUME NEW s \in Stacks, Cancel(s)
      PROVE  TypeOK'
  BY <1>18, SMTT(60) DEF Cancel, engine, request, cloud
<1>19. CASE Crash
  BY <1>19, AttemptsAssumption, SMTT(60) DEF Crash, engine, request, cloud
<1>20. CASE Startup
  BY <1>20, SMTT(60) DEF Startup, engine, request, cloud
<1>21. CASE UNCHANGED vars
  BY <1>21 DEF vars
<1>22. QED
  BY <1>1, <1>2, <1>3, <1>4, <1>5, <1>6, <1>7, <1>8, <1>9, <1>10, <1>11,
     <1>12, <1>13, <1>14, <1>15, <1>16, <1>17, <1>18, <1>19, <1>20, <1>21
  DEF Next, Advance, TryLock, CallReturns

----------------------------------------------------------------------------
\* A goroutine has a result once its work is over.
LEMMA ResultStep == TypeOK /\ ResultInv /\ [Next]_vars => ResultInv'
<1> SUFFICES ASSUME TypeOK, ResultInv, [Next]_vars PROVE ResultInv'
  OBVIOUS
<1> USE DEF TypeOK, ResultInv, Before, Goto, Return, Places, Over, Live, Held, Statuses
<1>1. ASSUME NEW o \in Ops, NEW s \in Stacks, NEW k \in Kinds, Begin(o, s, k)
      PROVE  ResultInv'
  BY <1>1, SMTT(60) DEF Begin, engine, request, cloud
<1>2. ASSUME NEW o \in Ops, Acquire(o)
      PROVE  ResultInv'
  BY <1>2, SMTT(60) DEF Acquire, engine, request, cloud
<1>3. ASSUME NEW o \in Ops, Conflict(o)
      PROVE  ResultInv'
  BY <1>3, SMTT(60) DEF Conflict, engine, request, cloud
<1>4. ASSUME NEW o \in Ops, Reject(o)
      PROVE  ResultInv'
  BY <1>4, SMTT(60) DEF Reject, engine, request, cloud
<1>5. ASSUME NEW o \in Ops, Register(o)
      PROVE  ResultInv'
  BY <1>5, SMTT(60) DEF Register, engine, request, cloud
<1>6. ASSUME NEW o \in Ops, Resolve(o) \/ RecoverPending(o) \/ FailEarly(o)
      PROVE  ResultInv'
  BY <1>6, SMTT(60) DEF Resolve, RecoverPending, FailEarly, engine, request, cloud
<1>7. ASSUME NEW o \in Ops, Call(o)
      PROVE  ResultInv'
  BY <1>7, SMTT(60) DEF Call, engine, request, cloud
<1>8. ASSUME NEW o \in Ops, Refused(o)
      PROVE  ResultInv'
  BY <1>8, SMTT(60) DEF Refused, engine, request, cloud
<1>9. ASSUME NEW o \in Ops, Checkpoint(o)
      PROVE  ResultInv'
  BY <1>9, SMTT(60) DEF Checkpoint, engine, request, cloud
<1>10. ASSUME NEW o \in Ops, Succeed(o)
      PROVE  ResultInv'
  BY <1>10, SMTT(60) DEF Succeed, engine, request, cloud
<1>11. ASSUME NEW o \in Ops, Interrupted(o) \/ Fail(o) \/ Panic(o)
      PROVE  ResultInv'
  BY <1>11, SMTT(60) DEF Interrupted, Fail, Panic, engine, request, cloud
<1>12. ASSUME NEW o \in Ops, Retry(o)
      PROVE  ResultInv'
  BY <1>12, SMTT(60) DEF Retry, engine, request, cloud
<1>13. ASSUME NEW o \in Ops, Discover(o)
      PROVE  ResultInv'
  BY <1>13, SMTT(60) DEF Discover, engine, request, cloud
<1>14. ASSUME NEW o \in Ops, Unregister(o)
      PROVE  ResultInv'
  BY <1>14, SMTT(60) DEF Unregister, engine, request, cloud
<1>15. ASSUME NEW o \in Ops, Unlock(o)
      PROVE  ResultInv'
  BY <1>15, SMTT(60) DEF Unlock, engine, request, cloud
<1>16. ASSUME NEW o \in Ops, Teardown(o)
      PROVE  ResultInv'
  BY <1>16, SMTT(60) DEF Teardown, engine, request, cloud
<1>17. ASSUME NEW o \in Ops, Finish(o)
      PROVE  ResultInv'
  BY <1>17, SMTT(60) DEF Finish, engine, request, cloud
<1>18. ASSUME NEW s \in Stacks, Cancel(s)
      PROVE  ResultInv'
  BY <1>18, SMTT(60) DEF Cancel, engine, request, cloud
<1>19. CASE Crash
  BY <1>19, SMTT(60) DEF Crash, engine, request, cloud
<1>20. CASE Startup
  BY <1>20, SMTT(60) DEF Startup, engine, request, cloud
<1>21. CASE UNCHANGED vars
  BY <1>21 DEF vars
<1>22. QED
  BY <1>1, <1>2, <1>3, <1>4, <1>5, <1>6, <1>7, <1>8, <1>9, <1>10, <1>11,
     <1>12, <1>13, <1>14, <1>15, <1>16, <1>17, <1>18, <1>19, <1>20, <1>21
  DEF Next, Advance, TryLock, CallReturns

----------------------------------------------------------------------------
\* The lock, its holder and the registered context move together.
LEMMA LockStep == TypeOK /\ LockInv /\ [Next]_vars => LockInv'
<1> SUFFICES ASSUME TypeOK, LockInv, [Next]_vars PROVE LockInv'
  OBVIOUS
<1> USE DEF TypeOK, LockInv, MutualExclusion, LockHasHolder, CancelReachesHolder,
        DownIsQuiet, Goto, Return, Places, Over, Live, Held, Registered
<1>1. ASSUME NEW o \in Ops, NEW s \in Stacks, NEW k \in Kinds, Begin(o, s, k)
      PROVE  LockInv'
  BY <1>1, SMTT(60) DEF Begin, engine, request, cloud
<1>2. ASSUME NEW o \in Ops, Acquire(o)
      PROVE  LockInv'
  BY <1>2, SMTT(60) DEF Acquire, engine, request, cloud
<1>3. ASSUME NEW o \in Ops, Conflict(o)
      PROVE  LockInv'
  BY <1>3, SMTT(60) DEF Conflict, engine, request, cloud
<1>4. ASSUME NEW o \in Ops, Reject(o)
      PROVE  LockInv'
  BY <1>4, SMTT(60) DEF Reject, engine, request, cloud
<1>5. ASSUME NEW o \in Ops, Register(o)
      PROVE  LockInv'
  BY <1>5, NoneAssumption, SMTT(60) DEF Register, engine, request, cloud
<1>6. ASSUME NEW o \in Ops, Resolve(o) \/ RecoverPending(o) \/ FailEarly(o)
      PROVE  LockInv'
  BY <1>6, SMTT(60) DEF Resolve, RecoverPending, FailEarly, engine, request, cloud
<1>7. ASSUME NEW o \in Ops, Call(o)
      PROVE  LockInv'
  BY <1>7, SMTT(60) DEF Call, engine, request, cloud
<1>8. ASSUME NEW o \in Ops, Refused(o)
      PROVE  LockInv'
  BY <1>8, SMTT(60) DEF Refused, engine, request, cloud
<1>9. ASSUME NEW o \in Ops, Checkpoint(o)
      PROVE  LockInv'
  BY <1>9, SMTT(60) DEF Checkpoint, engine, request, cloud
<1>10. ASSUME NEW o \in Ops, Succeed(o)
      PROVE  LockInv'
  BY <1>10, SMTT(60) DEF Succeed, engine, request, cloud
<1>11. ASSUME NEW o \in Ops, Interrupted(o) \/ Fail(o) \/ Panic(o)
      PROVE  LockInv'
  <2>1. CASE Interrupted(o)
    BY <2>1, SMTT(60) DEF Interrupted, engine, request, cloud
  <2>2. CASE Fail(o)
    BY <2>2, SMTT(60) DEF Fail, engine, request, cloud
  <2>3. CASE Panic(o)
    BY <2>3, SMTT(60) DEF Panic, engine, request, cloud
  <2>4. QED
    BY <1>11, <2>1, <2>2, <2>3
<1>12. ASSUME NEW o \in Ops, Retry(o)
      PROVE  LockInv'
  BY <1>12, SMTT(60) DEF Retry, engine, request, cloud
<1>13. ASSUME NEW o \in Ops, Discover(o)
      PROVE  LockInv'
  BY <1>13, SMTT(60) DEF Discover, engine, request, cloud
<1>14. ASSUME NEW o \in Ops, Unregister(o)
      PROVE  LockInv'
  BY <1>14, NoneAssumption, SMTT(60) DEF Unregister, engine, request, cloud
<1>15. ASSUME NEW o \in Ops, Unlock(o)
      PROVE  LockInv'
  BY <1>15, SMTT(60) DEF Unlock, engine, request, cloud
<1>16. ASSUME NEW o \in Ops, Teardown(o)
      PROVE  LockInv'
  BY <1>16, SMTT(60) DEF Teardown, engine, request, cloud
<1>17. ASSUME NEW o \in Ops, Finish(o)
      PROVE  LockInv'
  BY <1>17, SMTT(60) DEF Finish, engine, request, cloud
<1>18. ASSUME NEW s \in Stacks, Cancel(s)
      PROVE  LockInv'
  BY <1>18, SMTT(60) DEF Cancel, engine, request, cloud
<1>19. CASE Crash
  BY <1>19, NoneAssumption, SMTT(60) DEF Crash, engine, request, cloud
<1>20. CASE Startup
  BY <1>20, SMTT(60) DEF Startup, engine, request, cloud
<1>21. CASE UNCHANGED vars
  BY <1>21 DEF vars
<1>22. QED
  BY <1>1, <1>2, <1>3, <1>4, <1>5, <1>6, <1>7, <1>8, <1>9, <1>10, <1>11,
     <1>12, <1>13, <1>14, <1>15, <1>16, <1>17, <1>18, <1>19, <1>20, <1>21
  DEF Next, Advance, TryLock, CallReturns

----------------------------------------------------------------------------
\* The row follows the goroutine, if it is still there.
LEMMA RowStep == TypeOK /\ LockInv /\ ResultInv /\ RowInv /\ [Next]_vars => RowInv'
<1> SUFFICES ASSUME TypeOK, LockInv, ResultInv, RowInv, [Next]_vars PROVE RowInv'
  OBVIOUS
<1> USE DEF TypeOK, LockInv, DownIsQuiet, ResultInv, RowInv, Before, Goto, Return, Places, Over, Live, Held,
        Statuses
<1>1. ASSUME NEW o \in Ops, NEW s \in Stacks, NEW k \in Kinds, Begin(o, s, k)
      PROVE  RowInv'
  BY <1>1, SMTT(60) DEF Begin, engine, request, cloud
<1>2. ASSUME NEW o \in Ops, Acquire(o)
      PROVE  RowInv'
  BY <1>2, SMTT(60) DEF Acquire, engine, request, cloud
<1>3. ASSUME NEW o \in Ops, Conflict(o)
      PROVE  RowInv'
  BY <1>3, SMTT(60) DEF Conflict, engine, request, cloud
<1>4. ASSUME NEW o \in Ops, Reject(o)
      PROVE  RowInv'
  BY <1>4, SMTT(60) DEF Reject, engine, request, cloud
<1>5. ASSUME NEW o \in Ops, Register(o)
      PROVE  RowInv'
  BY <1>5, SMTT(60) DEF Register, engine, request, cloud
<1>6. ASSUME NEW o \in Ops, Resolve(o) \/ RecoverPending(o) \/ FailEarly(o)
      PROVE  RowInv'
  BY <1>6, SMTT(60) DEF Resolve, RecoverPending, FailEarly, engine, request, cloud
<1>7. ASSUME NEW o \in Ops, Call(o)
      PROVE  RowInv'
  BY <1>7, SMTT(60) DEF Call, engine, request, cloud
<1>8. ASSUME NEW o \in Ops, Refused(o)
      PROVE  RowInv'
  BY <1>8, SMTT(60) DEF Refused, engine, request, cloud
<1>9. ASSUME NEW o \in Ops, Checkpoint(o)
      PROVE  RowInv'
  BY <1>9, SMTT(60) DEF Checkpoint, engine, request, cloud
<1>10. ASSUME NEW o \in Ops, Succeed(o)
      PROVE  RowInv'
  BY <1>10, SMTT(60) DEF Succeed, engine, request, cloud
<1>11. ASSUME NEW o \in Ops, Interrupted(o) \/ Fail(o) \/ Panic(o)
      PROVE  RowInv'
  BY <1>11, SMTT(60) DEF Interrupted, Fail, Panic, engine, request, cloud
<1>12. ASSUME NEW o \in Ops, Retry(o)
      PROVE  RowInv'
  BY <1>12, SMTT(60) DEF Retry, engine, request, cloud
<1>13. ASSUME NEW o \in Ops, Discover(o)
      PROVE  RowInv'
  BY <1>13, SMTT(60) DEF Discover, engine, request, cloud
<1>14. ASSUME NEW o \in Ops, Unregister(o)
      PROVE  RowInv'
  BY <1>14, SMTT(60) DEF Unregister, engine, request, cloud
<1>15. ASSUME NEW o \in Ops, Unlock(o)
      PROVE  RowInv'
  BY <1>15, SMTT(60) DEF Unlock, engine, request, cloud
<1>16. ASSUME NEW o \in Ops, Teardown(o)
      PROVE  RowInv'
  BY <1>16, SMTT(60) DEF Teardown, engine, request, cloud
<1>17. ASSUME NEW o \in Ops, Finish(o)
      PROVE  RowInv'
  BY <1>17, SMTT(60) DEF Finish, engine, request, cloud
<1>18. ASSUME NEW s \in Stacks, Cancel(s)
      PROVE  RowInv'
  BY <1>18, SMTT(60) DEF Cancel, engine, request, cloud
<1>19. CASE Crash
  BY <1>19, SMTT(60) DEF Crash, engine, request, cloud
<1>20. CASE Startup
  BY <1>20, SMTT(60) DEF Startup, engine, request, cloud
<1>21. CASE UNCHANGED vars
  BY <1>21 DEF vars
<1>22. QED
  BY <1>1, <1>2, <1>3, <1>4, <1>5, <1>6, <1>7, <1>8, <1>9, <1>10, <1>11,
     <1>12, <1>13, <1>14, <1>15, <1>16, <1>17, <1>18, <1>19, <1>20, <1>21
  DEF Next, Advance, TryLock, CallReturns

----------------------------------------------------------------------------
\* The cloud agrees with the last call: nobody else is in one.
LEMMA TruthStep == TypeOK /\ LockInv /\ ResultInv /\ TruthInv /\ [Next]_vars => TruthInv'
<1> SUFFICES ASSUME TypeOK, LockInv, ResultInv, TruthInv, [Next]_vars PROVE TruthInv'
  OBVIOUS
<1> USE DEF TypeOK, LockInv, MutualExclusion, ResultInv, TruthInv, Before, Goto, Return, Places,
        Over, Live, Held, Mutators, Goal, Statuses, AllKinds
<1>1. ASSUME NEW o \in Ops, NEW s \in Stacks, NEW k \in Kinds, Begin(o, s, k)
      PROVE  TruthInv'
  BY <1>1, SMTT(60) DEF Begin, engine, request, cloud
<1>2. ASSUME NEW o \in Ops, Acquire(o)
      PROVE  TruthInv'
  BY <1>2, SMTT(60) DEF Acquire, engine, request, cloud
<1>3. ASSUME NEW o \in Ops, Conflict(o)
      PROVE  TruthInv'
  BY <1>3, SMTT(60) DEF Conflict, engine, request, cloud
<1>4. ASSUME NEW o \in Ops, Reject(o)
      PROVE  TruthInv'
  BY <1>4, SMTT(60) DEF Reject, engine, request, cloud
<1>5. ASSUME NEW o \in Ops, Register(o)
      PROVE  TruthInv'
  BY <1>5, SMTT(60) DEF Register, engine, request, cloud
<1>6. ASSUME NEW o \in Ops, Resolve(o) \/ RecoverPending(o) \/ FailEarly(o)
      PROVE  TruthInv'
  BY <1>6, SMTT(60) DEF Resolve, RecoverPending, FailEarly, engine, request, cloud
<1>7. ASSUME NEW o \in Ops, Call(o)
      PROVE  TruthInv'
  BY <1>7, NoneAssumption, SMTT(60) DEF Call, engine, request, cloud
<1>8. ASSUME NEW o \in Ops, Refused(o)
      PROVE  TruthInv'
  BY <1>8, SMTT(60) DEF Refused, engine, request, cloud
<1>9. ASSUME NEW o \in Ops, Checkpoint(o)
      PROVE  TruthInv'
  BY <1>9, SMTT(60) DEF Checkpoint, engine, request, cloud
<1>10. ASSUME NEW o \in Ops, Succeed(o)
      PROVE  TruthInv'
  BY <1>10, SMTT(60) DEF Succeed, engine, request, cloud
<1>11. ASSUME NEW o \in Ops, Interrupted(o) \/ Fail(o) \/ Panic(o)
      PROVE  TruthInv'
  BY <1>11, SMTT(60) DEF Interrupted, Fail, Panic, engine, request, cloud
<1>12. ASSUME NEW o \in Ops, Retry(o)
      PROVE  TruthInv'
  BY <1>12, SMTT(60) DEF Retry, engine, request, cloud
<1>13. ASSUME NEW o \in Ops, Discover(o)
      PROVE  TruthInv'
  BY <1>13, SMTT(60) DEF Discover, engine, request, cloud
<1>14. ASSUME NEW o \in Ops, Unregister(o)
      PROVE  TruthInv'
  BY <1>14, SMTT(60) DEF Unregister, engine, request, cloud
<1>15. ASSUME NEW o \in Ops, Unlock(o)
      PROVE  TruthInv'
  BY <1>15, SMTT(60) DEF Unlock, engine, request, cloud
<1>16. ASSUME NEW o \in Ops, Teardown(o)
      PROVE  TruthInv'
  BY <1>16, SMTT(60) DEF Teardown, engine, request, cloud
<1>17. ASSUME NEW o \in Ops, Finish(o)
      PROVE  TruthInv'
  BY <1>17, SMTT(60) DEF Finish, engine, request, cloud
<1>18. ASSUME NEW s \in Stacks, Cancel(s)
      PROVE  TruthInv'
  BY <1>18, SMTT(60) DEF Cancel, engine, request, cloud
<1>19. CASE Crash
  BY <1>19, SMTT(60) DEF Crash, engine, request, cloud
<1>20. CASE Startup
  BY <1>20, SMTT(60) DEF Startup, engine, request, cloud
<1>21. CASE UNCHANGED vars
  BY <1>21 DEF vars
<1>22. QED
  BY <1>1, <1>2, <1>3, <1>4, <1>5, <1>6, <1>7, <1>8, <1>9, <1>10, <1>11,
     <1>12, <1>13, <1>14, <1>15, <1>16, <1>17, <1>18, <1>19, <1>20, <1>21
  DEF Next, Advance, TryLock, CallReturns

----------------------------------------------------------------------------
\* The engine takes no row and no resource away.
LEMMA KeptStep == TypeOK /\ LockInv /\ ResultInv /\ TruthInv /\ KeptInv /\ [Next]_vars => KeptInv'
<1> SUFFICES ASSUME TypeOK, LockInv, ResultInv, TruthInv, KeptInv, [Next]_vars PROVE KeptInv'
  OBVIOUS
<1> USE DEF TypeOK, LockInv, MutualExclusion, ResultInv, TruthInv, KeptInv, Before, Goto, Return,
        Places, Over, Live, Held, Mutators, Goal, Statuses, AllKinds
<1>1. ASSUME NEW o \in Ops, NEW s \in Stacks, NEW k \in Kinds, Begin(o, s, k)
      PROVE  KeptInv'
  BY <1>1, SMTT(60) DEF Begin, engine, request, cloud
<1>2. ASSUME NEW o \in Ops, Acquire(o)
      PROVE  KeptInv'
  BY <1>2, SMTT(60) DEF Acquire, engine, request, cloud
<1>3. ASSUME NEW o \in Ops, Conflict(o)
      PROVE  KeptInv'
  BY <1>3, SMTT(60) DEF Conflict, engine, request, cloud
<1>4. ASSUME NEW o \in Ops, Reject(o)
      PROVE  KeptInv'
  BY <1>4, SMTT(60) DEF Reject, engine, request, cloud
<1>5. ASSUME NEW o \in Ops, Register(o)
      PROVE  KeptInv'
  BY <1>5, SMTT(60) DEF Register, engine, request, cloud
<1>6. ASSUME NEW o \in Ops, Resolve(o) \/ RecoverPending(o) \/ FailEarly(o)
      PROVE  KeptInv'
  BY <1>6, SMTT(60) DEF Resolve, RecoverPending, FailEarly, engine, request, cloud
<1>7. ASSUME NEW o \in Ops, Call(o)
      PROVE  KeptInv'
  BY <1>7, NoneAssumption, SMTT(60) DEF Call, engine, request, cloud
<1>8. ASSUME NEW o \in Ops, Refused(o)
      PROVE  KeptInv'
  BY <1>8, SMTT(60) DEF Refused, engine, request, cloud
<1>9. ASSUME NEW o \in Ops, Checkpoint(o)
      PROVE  KeptInv'
  BY <1>9, SMTT(60) DEF Checkpoint, engine, request, cloud
<1>10. ASSUME NEW o \in Ops, Succeed(o)
      PROVE  KeptInv'
  BY <1>10, SMTT(60) DEF Succeed, engine, request, cloud
<1>11. ASSUME NEW o \in Ops, Interrupted(o) \/ Fail(o) \/ Panic(o)
      PROVE  KeptInv'
  BY <1>11, SMTT(60) DEF Interrupted, Fail, Panic, engine, request, cloud
<1>12. ASSUME NEW o \in Ops, Retry(o)
      PROVE  KeptInv'
  BY <1>12, SMTT(60) DEF Retry, engine, request, cloud
<1>13. ASSUME NEW o \in Ops, Discover(o)
      PROVE  KeptInv'
  BY <1>13, SMTT(60) DEF Discover, engine, request, cloud
<1>14. ASSUME NEW o \in Ops, Unregister(o)
      PROVE  KeptInv'
  BY <1>14, SMTT(60) DEF Unregister, engine, request, cloud
<1>15. ASSUME NEW o \in Ops, Unlock(o)
      PROVE  KeptInv'
  BY <1>15, SMTT(60) DEF Unlock, engine, request, cloud
<1>16. ASSUME NEW o \in Ops, Teardown(o)
      PROVE  KeptInv'
  BY <1>16, SMTT(60) DEF Teardown, engine, request, cloud
<1>17. ASSUME NEW o \in Ops, Finish(o)
      PROVE  KeptInv'
  BY <1>17, SMTT(60) DEF Finish, engine, request, cloud
<1>18. ASSUME NEW s \in Stacks, Cancel(s)
      PROVE  KeptInv'
  BY <1>18, SMTT(60) DEF Cancel, engine, request, cloud
<1>19. CASE Crash
  BY <1>19, SMTT(60) DEF Crash, engine, request, cloud
<1>20. CASE Startup
  BY <1>20, SMTT(60) DEF Startup, engine, request, cloud
<1>21. CASE UNCHANGED vars
  BY <1>21 DEF vars
<1>22. QED
  BY <1>1, <1>2, <1>3, <1>4, <1>5, <1>6, <1>7, <1>8, <1>9, <1>10, <1>11,
     <1>12, <1>13, <1>14, <1>15, <1>16, <1>17, <1>18, <1>19, <1>20, <1>21
  DEF Next, Advance, TryLock, CallReturns

----------------------------------------------------------------------------
LEMMA InitIInv == Init => IInv
<1> SUFFICES ASSUME Init PROVE IInv
  OBVIOUS
<1>1. AnyStack \in Stacks
  BY StacksAssumption DEF AnyStack
<1>2. TypeOK
  BY <1>1, AttemptsAssumption, SMTT(30)
  DEF Init, TypeOK, Places, Over, Live, Held, Statuses, AllKinds
<1>3. LockInv
  BY NoneAssumption, SMTT(30) DEF Init, LockInv, MutualExclusion,
     LockHasHolder, CancelReachesHolder, DownIsQuiet, Live, Held, Registered
<1>4. ResultInv /\ RowInv
  BY SMTT(30) DEF Init, ResultInv, RowInv, Before, Live, Held
<1>5. TruthInv /\ KeptInv
  BY NoneAssumption, SMTT(30) DEF Init, TruthInv, KeptInv, Live, Held
<1>6. QED BY <1>2, <1>3, <1>4, <1>5 DEF IInv, SharedInv

LEMMA SharedStep == SharedInv /\ [Next]_vars => SharedInv'
BY TypeStep, ResultStep, LockStep, RowStep, TruthStep DEF SharedInv

\* The inductive invariant holds.
THEOREM Inductive == Spec => []IInv
<1>1. IInv /\ [Next]_vars => IInv'
  BY SharedStep, KeptStep DEF IInv, SharedInv
<1>2. QED BY InitIInv, <1>1, PTL DEF Spec

\* Every variable keeps its type: the maps are total, no status is made up.
THEOREM TypeCorrect == Spec => []TypeOK
<1>1. IInv => TypeOK BY DEF IInv, SharedInv
<1>2. QED BY Inductive, <1>1, PTL

\* Two operations never hold the same stack.
THEOREM Excluded == Spec => []MutualExclusion
<1>1. IInv => MutualExclusion BY DEF IInv, SharedInv, LockInv
<1>2. QED BY Inductive, <1>1, PTL

\* A locked stack has a goroutine that will unlock it.
THEOREM Held_has_holder == Spec => []LockHasHolder
<1>1. IInv => LockHasHolder BY DEF IInv, SharedInv, LockInv
<1>2. QED BY Inductive, <1>1, PTL

\* Cancel reaches the operation in flight and no other.
THEOREM Cancellable == Spec => []CancelReachesHolder
<1>1. IInv => CancelReachesHolder BY DEF IInv, SharedInv, LockInv
<1>2. QED BY Inductive, <1>1, PTL

\* No row is left "running" without a goroutine, but by a deploy-apps that
\* panicked, and then until the next restart.
THEOREM NoZombie == Spec => []NoZombieRecord
<1>1. IInv => NoZombieRecord
  BY DEF IInv, SharedInv, TypeOK, RowInv, KeptInv, NoZombieRecord
<1>2. QED BY Inductive, <1>1, PTL

\* The last report about a stack is true of the cloud.
THEOREM Truthful == Spec => []RecordTellsTruth
<1>1. IInv => RecordTellsTruth
  BY DEF IInv, SharedInv, RowInv, KeptInv, RecordTellsTruth
<1>2. QED BY Inductive, <1>1, PTL

LEMMA FinalStep ==
    ASSUME SharedInv, [Next]_vars, NEW o \in Ops, record[o] \in Statuses
    PROVE  record'[o] = record[o]
<1>1. pc[o] \notin Live /\ pc[o] # "idle" /\ record[o] # "running"
  BY DEF SharedInv, RowInv, Statuses
<1>2. ASSUME NEW p \in Ops, NEW s \in Stacks, NEW k \in Kinds, Begin(p, s, k)
      PROVE  record'[o] = record[o]
  BY <1>1, <1>2 DEF SharedInv, TypeOK, Begin, Goto
<1>3. ASSUME NEW p \in Ops, Finish(p) PROVE record'[o] = record[o]
  BY <1>1, <1>3 DEF SharedInv, TypeOK, Finish, Goto, Live
<1>4. ASSUME NEW p \in Ops, Advance(p), ~Finish(p)
      PROVE  record' = record
  BY <1>4 DEF Advance, TryLock, Acquire, Conflict, Reject, Register,
     Resolve, RecoverPending, FailEarly, Call, Refused, Discover,
     Unregister, Unlock, Teardown
<1>5. ASSUME NEW p \in Ops, Checkpoint(p) \/ CallReturns(p)
      PROVE  record' = record
  BY <1>5 DEF Checkpoint, CallReturns, Succeed, Interrupted, Fail, Retry, Panic
<1>6. ASSUME NEW s \in Stacks, Cancel(s) PROVE record' = record
  BY <1>6 DEF Cancel
<1>7. CASE Crash
  BY <1>7 DEF Crash
<1>8. CASE Startup
  BY <1>1, <1>8 DEF Startup
<1>9. CASE UNCHANGED vars
  BY <1>9 DEF vars
<1>10. QED
  BY <1>2, <1>3, <1>4, <1>5, <1>6, <1>7, <1>8, <1>9 DEF Next

\* A final status is final.
THEOREM Final == Spec => OutcomeFinal
<1>1. IInv /\ [Next]_vars
        => [\A o \in Ops : record[o] \in Statuses => record'[o] = record[o]]_vars
  BY FinalStep DEF IInv
<1>2. QED BY Inductive, <1>1, PTL DEF Spec, OutcomeFinal

----------------------------------------------------------------------------
\* A step that leaves every goroutine on the same side of the lock leaves the
\* owners as they are.
LEMMA SameOwners ==
    ASSUME \A o \in Ops : pc'[o] \in Held <=> pc[o] \in Held,
           stk' = stk
    PROVE  owners' = owners
BY DEF owners

LEMMA InitSerial == Init => Serial!Init
<1> SUFFICES ASSUME Init PROVE Serial!Init
  OBVIOUS
<1>1. \A s \in Stacks : {o \in Ops : pc[o] \in Held /\ stk[o] = s} = {}
  BY Zenon DEF Init, Held
<1>2. owners = [s \in Stacks |-> {}]
  BY <1>1 DEF owners
<1>3. reported = {} /\ kind \in [Ops -> AllKinds]
  BY DEF Init, reported, AllKinds
<1>4. QED BY <1>2, <1>3 DEF Init, Serial!Init

\* Each step of a goroutine is a step of SerialStack or changes nothing there.
LEMMA StepSerial == SharedInv /\ [Next]_vars => [Serial!Next]_(Serial!vars)
<1> SUFFICES ASSUME SharedInv, [Next]_vars
             PROVE  Serial!Next \/ UNCHANGED Serial!vars
  OBVIOUS
<1> USE DEF SharedInv, TypeOK, Goto, Return
<1>1. ASSUME NEW o \in Ops, NEW s \in Stacks, NEW k \in Kinds, Begin(o, s, k)
      PROVE  Serial!Ask(o)
  <2>1. /\ \A t \in Stacks : o \notin owners[t]
        /\ o \notin reported
    BY <1>1 DEF Begin, owners, reported, Held, ResultInv, Before
  <2>2. owners' = owners
    BY <1>1, SMTT(30) DEF Begin, owners, Held
  <2>3. reported' = reported /\ infra' = infra
    BY <1>1 DEF Begin, reported, cloud
  <2>4. k \in AllKinds /\ kind' = [kind EXCEPT ![o] = k]
    BY <1>1, KindsAssumption DEF Begin
  <2>5. QED BY <2>1, <2>2, <2>3, <2>4 DEF Serial!Ask
<1>2. ASSUME NEW o \in Ops, Acquire(o) PROVE Serial!Own(stk[o], o)
  <2>1. owners[stk[o]] = {}
    BY <1>2, SMTT(30) DEF Acquire, owners, LockInv, LockHasHolder
  <2>2. \A s \in Stacks : {p \in Ops : pc'[p] \in Held /\ stk'[p] = s}
                             = IF s = stk[o] THEN {o} ELSE owners[s]
    <3> SUFFICES ASSUME NEW s \in Stacks
                 PROVE  {p \in Ops : pc'[p] \in Held /\ stk'[p] = s}
                          = IF s = stk[o] THEN {o} ELSE owners[s]
      OBVIOUS
    <3>1. owners[s] = {p \in Ops : pc[p] \in Held /\ stk[p] = s}
      BY DEF owners
    <3>2. CASE s = stk[o]
      BY <1>2, <2>1, <3>1, <3>2, SMTT(30) DEF Acquire, request, Held
    <3>3. CASE s # stk[o]
      BY <1>2, <3>1, <3>3, SMTT(30) DEF Acquire, request, Held
    <3>4. QED BY <3>2, <3>3
  <2>3. owners' = [owners EXCEPT ![stk[o]] = {o}]
    BY <2>2, Zenon DEF owners
  <2>4. QED
    BY <1>2, <2>1, <2>3 DEF Acquire, Serial!Own, reported, cloud, request
<1>3. ASSUME NEW o \in Ops, Unlock(o) PROVE Serial!Release(stk[o], o)
  <2>1. owners[stk[o]] = {o}
    BY <1>3, SMTT(30) DEF Unlock, owners, LockInv, MutualExclusion, Held
  <2>2. \A s \in Stacks : {p \in Ops : pc'[p] \in Held /\ stk'[p] = s}
                             = IF s = stk[o] THEN {} ELSE owners[s]
    <3> SUFFICES ASSUME NEW s \in Stacks
                 PROVE  {p \in Ops : pc'[p] \in Held /\ stk'[p] = s}
                          = IF s = stk[o] THEN {} ELSE owners[s]
      OBVIOUS
    <3>1. owners[s] = {p \in Ops : pc[p] \in Held /\ stk[p] = s}
      BY DEF owners
    <3>2. CASE s = stk[o]
      BY <1>3, <2>1, <3>1, <3>2, SMTT(30) DEF Unlock, request, Held
    <3>3. CASE s # stk[o]
      BY <1>3, <3>1, <3>3, SMTT(30) DEF Unlock, request, Held
    <3>4. QED BY <3>2, <3>3
  <2>3. owners' = [owners EXCEPT ![stk[o]] = {}]
    BY <2>2, Zenon DEF owners
  <2>4. QED
    BY <1>3, <2>1, <2>3 DEF Unlock, Serial!Release, reported, cloud, request
<1>4. ASSUME NEW o \in Ops, pc[o] = "exec" PROVE owners[stk[o]] = {o}
  BY <1>4, SMTT(30) DEF owners, LockInv, MutualExclusion, Held
<1>5. ASSUME NEW o \in Ops, Checkpoint(o) PROVE Serial!Change(stk[o], o)
  <2>1. owners' = owners
    BY <1>5, SameOwners DEF Checkpoint, request
  <2>2. QED
    BY <1>4, <1>5, <2>1
    DEF Checkpoint, Serial!Change, Serial!Mutating, Mutators, reported, request
<1>6. ASSUME NEW o \in Ops, Succeed(o) PROVE Serial!Achieve(stk[o], o)
  <2>1. owners' = owners
    BY <1>6, SameOwners DEF Succeed, request, Held
  <2>2. o \notin reported /\ reported' = reported \cup {o}
    BY <1>6 DEF Succeed, reported, ResultInv, Before
  <2>3. infra' = [infra EXCEPT ![stk[o]] = Serial!Achieved(kind[o], @)]
    <3>1. CASE kind[o] \in Mutators
      <4>1. Serial!Achieved(kind[o], infra[stk[o]]) = Goal(kind[o])
        BY <3>1 DEF Serial!Achieved, Mutators, Goal
      <4>2. QED BY <1>6, <3>1, <4>1 DEF Succeed
    <3>2. CASE kind[o] \notin Mutators
      <4>1. Serial!Achieved(kind[o], infra[stk[o]]) = infra[stk[o]]
        BY <3>2, Zenon DEF Serial!Achieved, Mutators
      <4>2. QED BY <1>6, <3>2, <4>1 DEF Succeed
    <3>3. QED BY <3>1, <3>2
  <2>4. QED
    BY <1>4, <1>6, <2>1, <2>2, <2>3 DEF Succeed, Goto, Serial!Achieve, request
<1>7. ASSUME Crash PROVE Serial!Die
  <2>1. \A s \in Stacks : {o \in Ops : pc'[o] \in Held /\ stk'[o] = s} = {}
    BY <1>7, SMTT(30) DEF Crash, Live, Held
  <2>2. owners' = [s \in Stacks |-> {}]
    BY <2>1, Zenon DEF owners
  <2>3. UNCHANGED <<kind, infra, reported>>
    BY <1>7 DEF Crash, reported, cloud, request
  <2>4. QED BY <2>2, <2>3 DEF Serial!Die
<1>8. ASSUME NEW o \in Ops, Conflict(o) \/ Reject(o) \/ Register(o) \/ Resolve(o)
               \/ RecoverPending(o) \/ FailEarly(o) \/ Call(o) \/ Refused(o)
               \/ Interrupted(o) \/ Fail(o) \/ Retry(o) \/ Panic(o) \/ Discover(o)
               \/ Unregister(o) \/ Teardown(o) \/ Finish(o)
      PROVE  UNCHANGED Serial!vars
  <2> USE DEF Conflict, Reject, Register, Resolve, RecoverPending, FailEarly,
              Call, Refused, Interrupted, Fail, Retry, Panic, Discover, Unregister,
              Teardown, Finish
  <2>1. owners' = owners
    BY <1>8, SameOwners, SMTT(30) DEF request, Held
  <2>2. reported' = reported
    BY <1>8, SMTT(30) DEF reported, ResultInv, Before, Live, Held
  <2>3. infra' = infra /\ kind' = kind
    BY <1>8 DEF cloud, request
  <2>4. QED BY <2>1, <2>2, <2>3 DEF Serial!vars
<1>9. ASSUME Startup \/ UNCHANGED vars \/ \E s \in Stacks : Cancel(s)
      PROVE  UNCHANGED Serial!vars
  BY <1>9 DEF Startup, Cancel, vars, request, cloud, Serial!vars, owners,
     reported
<1>10. QED
  <2>1. \A o \in Ops : stk[o] \in Stacks
    OBVIOUS
  <2>2. QED
    BY <1>1, <1>2, <1>3, <1>5, <1>6, <1>7, <1>8, <1>9, <2>1
    DEF Next, Advance, TryLock, CallReturns, Serial!Next

\* The engine implements SerialStack: per stack, operations run one at a time.
THEOREM Implements == Spec => Serialised
<1>1. IInv => SharedInv BY DEF IInv
<1>2. QED
  BY <1>1, Inductive, InitSerial, StepSerial, PTL DEF Spec, Serialised, Serial!Spec

----------------------------------------------------------------------------
\* The requests of StackService, beside any number of operations.  Every step
\* but two of a deletion is a step of the engine or leaves it alone.
Losing(d) == DeleteOps(d) \/ RemoveStackState(d)

LEMMA SvcSteps ==
    ASSUME [SvcNext]_<<vars, svars>>, \A d \in Removers : ~Losing(d)
    PROVE  [Next]_vars
<1>1. ASSUME NEW o \in Ops, SvcOther(o)
      PROVE  Advance(o) \/ Checkpoint(o) \/ CallReturns(o)
  BY <1>1 DEF SvcOther, Advance
<1>2. ASSUME NEW o \in Ops, SvcResolve(o) \/ SvcDiscover(o) \/ SvcTeardown(o)
      PROVE  Advance(o)
  BY <1>2 DEF SvcResolve, SvcDiscover, SvcTeardown, Advance
<1>3. ASSUME NEW r \in Readers, GetStackInfo(r)
      PROVE  UNCHANGED vars
  BY <1>3 DEF GetStackInfo, ReadHistory, ReadState, ReadConn, LazyClear, ReadNodes
<1>4. ASSUME NEW d \in Removers, DeleteStack(d)
      PROVE  UNCHANGED vars
  BY <1>4 DEF DeleteStack, CheckIdle, GetRow, DeleteRow, GiveUp, DeleteConn, DeleteNodes, Losing
<1>5. QED
  BY <1>1, <1>2, <1>3, <1>4
     DEF SvcNext, PutStack, SvcBegin, SvcCrash, Next

\* What a reader relies on: an operation comes and ends once, and resources
\* appear only while one of the stack's operations is in its Pulumi call.
Moves ==
    /\ \A o \in Ops : pc[o] # "idle" => pc'[o] # "idle" /\ stk'[o] = stk[o]
    /\ \A o \in Ops : pc[o] \in Over => pc'[o] \in Over
    /\ \A s \in Stacks : \/ infra'[s] \in {infra[s], "absent"}
                         \/ \E o \in Ops : pc[o] = "exec" /\ stk[o] = s
LEMMA MovesStep == TypeOK /\ [Next]_vars => Moves
<1> SUFFICES ASSUME TypeOK, [Next]_vars PROVE Moves
  OBVIOUS
<1> USE DEF TypeOK, Moves, Goto, Places, Over, Live, Held, Mutators
<1>1. ASSUME NEW o \in Ops, NEW s \in Stacks, NEW k \in Kinds, Begin(o, s, k)
      PROVE  Moves
  BY <1>1, SMTT(60) DEF Begin, engine, request, cloud
<1>2. ASSUME NEW o \in Ops, Acquire(o)
      PROVE  Moves
  BY <1>2, SMTT(60) DEF Acquire, engine, request, cloud
<1>3. ASSUME NEW o \in Ops, Conflict(o)
      PROVE  Moves
  BY <1>3, SMTT(60) DEF Conflict, engine, request, cloud
<1>4. ASSUME NEW o \in Ops, Reject(o)
      PROVE  Moves
  BY <1>4, SMTT(60) DEF Reject, engine, request, cloud
<1>5. ASSUME NEW o \in Ops, Register(o)
      PROVE  Moves
  BY <1>5, SMTT(60) DEF Register, engine, request, cloud
<1>6. ASSUME NEW o \in Ops, Resolve(o) \/ RecoverPending(o) \/ FailEarly(o)
      PROVE  Moves
  BY <1>6, SMTT(60) DEF Resolve, RecoverPending, FailEarly, engine, request, cloud
<1>7. ASSUME NEW o \in Ops, Call(o)
      PROVE  Moves
  BY <1>7, SMTT(60) DEF Call, engine, request, cloud
<1>8. ASSUME NEW o \in Ops, Refused(o)
      PROVE  Moves
  BY <1>8, SMTT(60) DEF Refused, engine, request, cloud
<1>9. ASSUME NEW o \in Ops, Checkpoint(o)
      PROVE  Moves
  BY <1>9, SMTT(60) DEF Checkpoint, engine, request, cloud
<1>10. ASSUME NEW o \in Ops, Succeed(o)
      PROVE  Moves
  BY <1>10, SMTT(60) DEF Succeed, engine, request, cloud
<1>11. ASSUME NEW o \in Ops, Interrupted(o) \/ Fail(o) \/ Panic(o)
      PROVE  Moves
  BY <1>11, SMTT(60) DEF Interrupted, Fail, Panic, engine, request, cloud
<1>12. ASSUME NEW o \in Ops, Retry(o)
      PROVE  Moves
  BY <1>12, SMTT(60) DEF Retry, engine, request, cloud
<1>13. ASSUME NEW o \in Ops, Discover(o)
      PROVE  Moves
  BY <1>13, SMTT(60) DEF Discover, engine, request, cloud
<1>14. ASSUME NEW o \in Ops, Unregister(o)
      PROVE  Moves
  BY <1>14, SMTT(60) DEF Unregister, engine, request, cloud
<1>15. ASSUME NEW o \in Ops, Unlock(o)
      PROVE  Moves
  BY <1>15, SMTT(60) DEF Unlock, engine, request, cloud
<1>16. ASSUME NEW o \in Ops, Teardown(o)
      PROVE  Moves
  BY <1>16, SMTT(60) DEF Teardown, engine, request, cloud
<1>17. ASSUME NEW o \in Ops, Finish(o)
      PROVE  Moves
  BY <1>17, SMTT(60) DEF Finish, engine, request, cloud
<1>18. ASSUME NEW s \in Stacks, Cancel(s)
      PROVE  Moves
  BY <1>18, SMTT(60) DEF Cancel, engine, request, cloud
<1>19. CASE Crash
  BY <1>19, SMTT(60) DEF Crash, engine, request, cloud
<1>20. CASE Startup
  BY <1>20, SMTT(60) DEF Startup, engine, request, cloud
<1>21. CASE UNCHANGED vars
  BY <1>21 DEF vars
<1>22. QED
  BY <1>1, <1>2, <1>3, <1>4, <1>5, <1>6, <1>7, <1>8, <1>9, <1>10, <1>11,
     <1>12, <1>13, <1>14, <1>15, <1>16, <1>17, <1>18, <1>19, <1>20, <1>21
  DEF Next, Advance, TryLock, CallReturns

\* A deletion takes rows and resources and nothing else of the engine's.
LEMMA LosingStep ==
    ASSUME SharedInv, NEW d \in Removers, Losing(d)
    PROVE  SharedInv' /\ Moves
<1> USE DEF SharedInv, TypeOK, engine, request, cloud
<1>1. CASE DeleteOps(d)
  <2>1. /\ \A o \in Ops : record'[o] \in {record[o], "absent"}
        /\ record' \in [Ops -> Statuses \cup {"absent", "running"}]
        /\ UNCHANGED <<server, running, cancels, pc, stk, kind, cancelled, attempt,
                       result, infra, last>>
    BY <1>1 DEF DeleteOps
  <2>2. TypeOK' /\ LockInv' /\ ResultInv' /\ TruthInv'
    BY <2>1 DEF LockInv, MutualExclusion, LockHasHolder, CancelReachesHolder, DownIsQuiet,
                ResultInv, TruthInv
  <2>3. RowInv'
    BY <2>1 DEF RowInv
  <2>4. QED
    BY <2>1, <2>2, <2>3 DEF Moves
<1>2. CASE RemoveStackState(d)
  <2>1. /\ \A s \in Stacks : infra'[s] \in {infra[s], "absent"}
        /\ infra' \in [Stacks -> {"absent", "partial", "present"}]
        /\ UNCHANGED <<server, running, cancels, pc, stk, kind, cancelled, attempt,
                       result, record, last>>
    BY <1>2 DEF RemoveStackState
  <2>2. TypeOK' /\ LockInv' /\ ResultInv' /\ RowInv'
    BY <2>1 DEF LockInv, MutualExclusion, LockHasHolder, CancelReachesHolder, DownIsQuiet,
                ResultInv, RowInv
  <2>3. TruthInv'
    BY <2>1 DEF TruthInv
  <2>4. QED
    BY <2>1, <2>2, <2>3 DEF Moves
<1>3. QED
  BY <1>1, <1>2 DEF Losing

LEMMA SvcSharedStep ==
    ASSUME SharedInv, [SvcNext]_<<vars, svars>>
    PROVE  SharedInv' /\ Moves
<1>1. CASE \A d \in Removers : ~Losing(d)
  BY <1>1, SvcSteps, SharedStep, MovesStep DEF SharedInv
<1>2. QED
  BY <1>1, LosingStep

----------------------------------------------------------------------------
\* A read in progress saw operations that stay ended.  If it has read the
\* state, found nothing and no other operation has come, nothing is there.
ReadInv(r) ==
    /\ server = "down" => reader[r] = Idle
    /\ reader[r] # Idle =>
          /\ reader[r].at = "state" => ~reader[r].counted
          /\ reader[r].at = "clear" => ~reader[r].deployed
          /\ \A o \in reader[r].ended : pc[o] \in Over
          /\ reader[r].counted /\ ~reader[r].deployed /\ Undisturbed(r) =>
                infra[reader[r].stack] = "absent"

SvcIInv == SharedInv /\ SvcTypeOK /\ \A r \in Readers : ReadInv(r)

\* Idle is not a read: it is elsewhere.
LEMMA IdleFacts ==
    /\ Idle.at = "idle"
    /\ \A r \in Reads : r.at \in {"state", "conn", "clear", "nodes"} /\ r # Idle
    /\ \A d \in Removals : d.at \in {"get", "row", "ops", "state", "conn", "nodes"} /\ d # Idle
BY DEF Idle, Reads, Removals

\* A request in progress is a record with all its fields.
LEMMA InProgress ==
    ASSUME SvcTypeOK
    PROVE  /\ \A r \in Readers : reader[r].at # "idle" => reader[r] \in Reads
           /\ \A d \in Removers : remover[d].at # "idle" => remover[d] \in Removals
BY IdleFacts DEF SvcTypeOK

LEMMA ReadFields ==
    ASSUME NEW q \in Reads
    PROVE  /\ q.at \in {"state", "conn", "clear", "nodes"} /\ q.stack \in Stacks
           /\ q.deployed \in BOOLEAN /\ q.counted \in BOOLEAN /\ q.ended \subseteq Ops
           /\ \A at \in {"state", "conn", "clear", "nodes"}, de \in BOOLEAN, co \in BOOLEAN :
                 /\ [q EXCEPT !.at = at] \in Reads
                 /\ [q EXCEPT !.at = at, !.counted = co] \in Reads
                 /\ [q EXCEPT !.at = at, !.counted = co, !.deployed = de] \in Reads
BY Zenon DEF Reads

\* The writes to stack_connections keep its states.
LEMMA ConnTyped ==
    ASSUME conn \in [Stacks -> ConnStates], NEW s
    PROVE  /\ EnsurePKI(s) => conn' \in [Stacks -> ConnStates]
           /\ StoreAddress(s) => conn' \in [Stacks -> ConnStates]
           /\ ClearAgentConnection(s) => conn' \in [Stacks -> ConnStates]
BY DEF EnsurePKI, StoreAddress, ClearAgentConnection, ConnStates

\* What a step of a read makes of it.
Reading(r, q) == reader' = [reader EXCEPT ![r] = q] /\ UNCHANGED <<vars, remover>>

LEMMA ReadMoves ==
    ASSUME SvcTypeOK, NEW r \in Readers, GetStackInfo(r)
    PROVE  \/ \E s \in Stacks, d \in BOOLEAN, at \in {"state", "conn"} :
                 /\ server = "up"
                 /\ Reading(r, [at |-> at, stack |-> s, deployed |-> d,
                                counted |-> FALSE, ended |-> Ended(s)])
           \/ /\ reader[r] \in Reads /\ reader[r].at = "state"
              /\ \/ Reading(r, [reader[r] EXCEPT !.at = "conn"])
                 \/ Reading(r, [reader[r] EXCEPT !.at = "conn", !.counted = TRUE,
                        !.deployed = @ \/ infra[reader[r].stack] # "absent"])
           \/ /\ reader[r] \in Reads /\ reader[r].at = "conn"
              /\ \/ Reading(r, [reader[r] EXCEPT !.at = "nodes"])
                 \/ ~reader[r].deployed /\ Reading(r, [reader[r] EXCEPT !.at = "clear"])
           \/ /\ reader[r] \in Reads /\ reader[r].at = "clear"
              /\ Reading(r, [reader[r] EXCEPT !.at = "nodes"])
           \/ Reading(r, Idle)
<1> USE InProgress DEF Reading
<1>1. ASSUME NEW s \in Stacks, ReadHistory(r, s)
      PROVE  \E d \in BOOLEAN, at \in {"state", "conn"} :
                 /\ server = "up"
                 /\ Reading(r, [at |-> at, stack |-> s, deployed |-> d,
                                counted |-> FALSE, ended |-> Ended(s)])
  <2>1. Deployed(History(s)) \in BOOLEAN
    BY DEF Deployed
  <2>2. QED
    BY <1>1, <2>1 DEF ReadHistory
<1>2. ASSUME ReadState(r)
      PROVE  /\ reader[r] \in Reads /\ reader[r].at = "state"
             /\ \/ Reading(r, [reader[r] EXCEPT !.at = "conn"])
                \/ Reading(r, [reader[r] EXCEPT !.at = "conn", !.counted = TRUE,
                       !.deployed = @ \/ infra[reader[r].stack] # "absent"])
  BY <1>2 DEF ReadState, SvcTypeOK
<1>3. ASSUME ReadConn(r)
      PROVE  /\ reader[r] \in Reads /\ reader[r].at = "conn"
             /\ \/ Reading(r, [reader[r] EXCEPT !.at = "nodes"])
                \/ ~reader[r].deployed /\ Reading(r, [reader[r] EXCEPT !.at = "clear"])
  BY <1>3 DEF ReadConn, SvcTypeOK
<1>4. ASSUME LazyClear(r)
      PROVE  /\ reader[r] \in Reads /\ reader[r].at = "clear"
             /\ Reading(r, [reader[r] EXCEPT !.at = "nodes"])
  BY <1>4 DEF LazyClear, SvcTypeOK
<1>5. ASSUME ReadNodes(r)
      PROVE  Reading(r, Idle)
  BY <1>5 DEF ReadNodes
<1>6. QED
  BY <1>1, <1>2, <1>3, <1>4, <1>5, Zenon DEF GetStackInfo

----------------------------------------------------------------------------
\* Types, step by step.
LEMMA SvcTypeStep ==
    ASSUME SvcTypeOK, TypeOK', [SvcNext]_<<vars, svars>>
    PROVE  SvcTypeOK'
<1> USE DEF SvcTypeOK
<1>1. ASSUME NEW s \in Stacks, PutStack(s)
      PROVE  SvcTypeOK'
  BY <1>1, ConnTyped DEF PutStack
<1>2. ASSUME NEW o \in Ops, NEW s \in Stacks, NEW k \in Kinds, SvcBegin(o, s, k)
      PROVE  SvcTypeOK'
  BY <1>2 DEF SvcBegin
<1>3. ASSUME NEW o \in Ops, SvcResolve(o) \/ SvcDiscover(o) \/ SvcTeardown(o) \/ SvcOther(o)
      PROVE  SvcTypeOK'
  <2>1. stk[o] \in Stacks
    BY DEF TypeOK
  <2>2. CASE SvcDiscover(o)
    BY <2>1, <2>2, ConnTyped DEF SvcDiscover
  <2>3. CASE SvcResolve(o) \/ SvcTeardown(o) \/ SvcOther(o)
    BY <2>3, ConnTyped DEF SvcResolve, SvcTeardown, SvcOther, svars
  <2>4. QED
    BY <1>3, <2>2, <2>3
<1>4. ASSUME NEW r \in Readers, GetStackInfo(r)
      PROVE  SvcTypeOK'
  <2>1. /\ UNCHANGED <<row, nodes, log, remover>>
        /\ UNCHANGED conn \/ EnsurePKI(reader[r].stack) \/ ClearAgentConnection(reader[r].stack)
    BY <1>4 DEF GetStackInfo, ReadHistory, ReadState, ReadConn, LazyClear, ReadNodes, tables
  <2>2. conn' \in [Stacks -> ConnStates]
    BY <2>1, ConnTyped
  <2>3. ASSUME NEW q, Reading(r, q), q \in {Idle} \cup Reads
        PROVE  reader' \in [Readers -> {Idle} \cup Reads]
    BY <2>3 DEF Reading
  <2>4. ASSUME NEW s \in Stacks, NEW d \in BOOLEAN, NEW at \in {"state", "conn"}
        PROVE  [at |-> at, stack |-> s, deployed |-> d, counted |-> FALSE,
                ended |-> Ended(s)] \in Reads
    BY DEF Reads, Ended
  <2>5. reader' \in [Readers -> {Idle} \cup Reads]
    BY <1>4, <2>3, <2>4, ReadMoves, ReadFields, Zenon
  <2>6. QED
    BY <2>1, <2>2, <2>5
<1>5. ASSUME NEW d \in Removers, DeleteStack(d)
      PROVE  SvcTypeOK'
  <2>1. ASSUME NEW s \in Stacks, CheckIdle(d, s)
        PROVE  SvcTypeOK'
    <3>1. [at |-> "get", stack |-> s, found |-> FALSE] \in Removals
      BY DEF Removals
    <3>2. QED
      BY <2>1, <3>1 DEF CheckIdle, tables
  <2>2. ASSUME remover[d].at # "idle"
        PROVE  /\ remover[d].stack \in Stacks
               /\ \A at \in {"row", "ops", "state", "conn", "nodes"}, f \in BOOLEAN :
                     /\ [remover[d] EXCEPT !.at = at] \in Removals
                     /\ [remover[d] EXCEPT !.at = at, !.found = f] \in Removals
    <3>1. remover[d] \in Removals
      BY <2>2, InProgress
    <3>2. QED
      BY <3>1 DEF Removals
  <2>3. ASSUME NEW from \in {"get", "row", "ops", "state", "conn", "nodes"},
               NEW to \in {"row", "ops", "state", "conn", "nodes", "idle"},
               RemoverGoes(d, from, to)
        PROVE  remover' \in [Removers -> {Idle} \cup Removals]
    <3>1. to # "idle" => [remover[d] EXCEPT !.at = to] \in Removals
      BY <2>2, <2>3 DEF RemoverGoes
    <3>2. QED
      BY <2>3, <3>1 DEF RemoverGoes
  <2>4. ASSUME GetRow(d)
        PROVE  SvcTypeOK'
    <3> DEFINE f == remover[d].stack \in row
               q == [remover[d] EXCEPT !.at = "row", !.found = f]
    <3>1. f \in BOOLEAN
      OBVIOUS
    <3>2. q \in Removals
      <4> HIDE DEF f
      <4>1. QED
        BY <2>2, <2>4, <3>1 DEF GetRow
    <3>3. remover' = [remover EXCEPT ![d] = q]
      BY <2>4, Zenon DEF GetRow
    <3>4. remover' \in [Removers -> {Idle} \cup Removals]
      <4> HIDE DEF q
      <4>1. QED
        BY <3>2, <3>3
    <3>5. QED
      BY <2>4, <3>4 DEF GetRow, tables
  <2>5. ASSUME DeleteRow(d) \/ GiveUp(d)
        PROVE  SvcTypeOK'
    BY <2>3, <2>5 DEF DeleteRow, GiveUp, tables
  <2>6. ASSUME DeleteOps(d) \/ RemoveStackState(d)
        PROVE  SvcTypeOK'
    BY <2>3, <2>6 DEF DeleteOps, RemoveStackState, tables
  <2>7. ASSUME DeleteConn(d)
        PROVE  SvcTypeOK'
    <3>1. conn' \in [Stacks -> ConnStates]
      BY <2>7 DEF DeleteConn, ConnStates
    <3>2. QED
      BY <2>3, <2>7, <3>1 DEF DeleteConn
  <2>8. ASSUME DeleteNodes(d)
        PROVE  SvcTypeOK'
    BY <2>3, <2>8 DEF DeleteNodes
  <2>9. QED
    BY <1>5, <2>1, <2>4, <2>5, <2>6, <2>7, <2>8 DEF DeleteStack
<1>6. CASE SvcCrash
  BY <1>6 DEF SvcCrash, tables
<1>7. CASE UNCHANGED svars
  BY <1>7 DEF svars
<1>8. QED
  BY <1>1, <1>2, <1>3, <1>4, <1>5, <1>6, <1>7 DEF SvcNext

----------------------------------------------------------------------------
\* A reader that does nothing keeps what it relies on: whoever brings
\* resources was under way when the read began, or has come since.
LEMMA ReaderWaits ==
    ASSUME SvcTypeOK, Moves, NEW r \in Readers, ReadInv(r),
           reader'[r] = reader[r], server' = "down" => server = "down"
    PROVE  ReadInv(r)'
<1>1. CASE reader[r] = Idle
  BY <1>1 DEF ReadInv
<1>2. CASE reader[r] # Idle
  <2> DEFINE s == reader[r].stack
  <2>1. reader[r] \in Reads /\ s \in Stacks /\ reader[r].ended \subseteq Ops
    BY <1>2, ReadFields, Zenon DEF SvcTypeOK
  <2>2. \A o \in reader[r].ended : pc[o] \in Over /\ pc'[o] \in Over
    BY <1>2, <2>1 DEF ReadInv, Moves
  <2>3. Undisturbed(r)' => Undisturbed(r)
    BY DEF Undisturbed, Moves
  <2>4. Undisturbed(r) => \A o \in Ops : stk[o] = s => pc[o] # "exec"
    BY <2>2 DEF Undisturbed, Over
  <2>5. Undisturbed(r) => infra'[s] \in {infra[s], "absent"}
    BY <2>1, <2>4 DEF Moves
  <2>6. \A o \in reader'[r].ended : pc'[o] \in Over
    BY <2>2
  <2>7. reader[r].counted /\ ~reader[r].deployed /\ Undisturbed(r)' => infra'[s] = "absent"
    BY <1>2, <2>3, <2>5 DEF ReadInv
  <2>8. QED
    BY <1>2, <2>6, <2>7, SMTT(30) DEF ReadInv
<1>3. QED
  BY <1>1, <1>2

\* A step of a read establishes it: the state says what is there.
LEMMA ReaderReads ==
    ASSUME SvcTypeOK, NEW r \in Readers, ReadInv(r), GetStackInfo(r)
    PROVE  ReadInv(r)'
<1>1. ASSUME NEW q, Reading(r, q)
      PROVE  reader'[r] = q /\ UNCHANGED <<server, pc, stk, infra>>
  BY <1>1 DEF Reading, SvcTypeOK, vars
<1>2. ASSUME NEW s \in Stacks, NEW d \in BOOLEAN, NEW at \in {"state", "conn"}, server = "up",
             Reading(r, [at |-> at, stack |-> s, deployed |-> d,
                         counted |-> FALSE, ended |-> Ended(s)])
      PROVE  ReadInv(r)'
  <2> DEFINE q == [at |-> at, stack |-> s, deployed |-> d, counted |-> FALSE, ended |-> Ended(s)]
  <2>1. reader'[r] = q /\ UNCHANGED <<server, pc, stk, infra>>
    BY <1>1, <1>2
  <2>2. q.at # "clear" /\ ~q.counted /\ q.ended = Ended(s)
    OBVIOUS
  <2>3. \A o \in Ended(s) : pc[o] \in Over
    BY DEF Ended
  <2> HIDE DEF q
  <2>4. QED
    BY <1>2, <2>1, <2>2, <2>3 DEF ReadInv
<1>3. ASSUME reader[r] \in Reads, NEW at \in {"conn", "clear", "nodes"},
             at = "clear" => ~reader[r].deployed, Reading(r, [reader[r] EXCEPT !.at = at])
      PROVE  ReadInv(r)'
  <2> DEFINE q == [reader[r] EXCEPT !.at = at]
  <2>1. reader'[r] = q /\ UNCHANGED <<server, pc, stk, infra>>
    BY <1>1, <1>3
  <2>2. /\ q.at = at /\ q.stack = reader[r].stack /\ q.ended = reader[r].ended
        /\ q.deployed = reader[r].deployed /\ q.counted = reader[r].counted
    BY <1>3 DEF Reads
  <2>3. reader[r] # Idle
    BY <1>3, IdleFacts
  <2> HIDE DEF q
  <2>4. Undisturbed(r)' => Undisturbed(r)
    BY <2>1, <2>2 DEF Undisturbed
  <2>5. QED
    BY <1>3, <2>1, <2>2, <2>3, <2>4 DEF ReadInv
<1>4. ASSUME reader[r] \in Reads,
             Reading(r, [reader[r] EXCEPT !.at = "conn", !.counted = TRUE,
                            !.deployed = @ \/ infra[reader[r].stack] # "absent"])
      PROVE  ReadInv(r)'
  <2> DEFINE q == [reader[r] EXCEPT !.at = "conn", !.counted = TRUE,
                       !.deployed = @ \/ infra[reader[r].stack] # "absent"]
  <2>1. reader'[r] = q /\ UNCHANGED <<server, pc, stk, infra>>
    BY <1>1, <1>4
  <2>2. /\ q.at = "conn" /\ q.stack = reader[r].stack /\ q.ended = reader[r].ended
        /\ ~q.deployed => infra[reader[r].stack] = "absent"
    BY <1>4 DEF Reads
  <2>3. reader[r] # Idle
    BY <1>4, IdleFacts
  <2> HIDE DEF q
  <2>4. QED
    BY <2>1, <2>2, <2>3 DEF ReadInv
<1>5. ASSUME Reading(r, Idle)
      PROVE  ReadInv(r)'
  BY <1>1, <1>5 DEF ReadInv
<1>6. QED
  BY <1>2, <1>3, <1>4, <1>5, ReadMoves, Zenon

\* Only a crash takes the server down.
LEMMA OnlyCrash ==
    ASSUME [SvcNext]_<<vars, svars>>, server' = "down", server # "down"
    PROVE  SvcCrash
<1>1. ASSUME NEW o \in Ops, Advance(o) \/ Checkpoint(o) \/ CallReturns(o)
      PROVE  UNCHANGED server
  BY <1>1 DEF Advance, TryLock, Acquire, Conflict, Reject, Register, Resolve, RecoverPending,
     FailEarly, Call, Refused, Checkpoint, CallReturns, Succeed, Interrupted, Fail, Retry, Panic,
     Discover, Unregister, Unlock, Teardown, Finish
<1>2. ASSUME NEW o \in Ops,
             SvcResolve(o) \/ SvcDiscover(o) \/ SvcTeardown(o) \/ SvcOther(o)
      PROVE  UNCHANGED server
  BY <1>1, <1>2 DEF SvcResolve, SvcDiscover, SvcTeardown, SvcOther, Advance
<1>3. ASSUME NEW r \in Readers, GetStackInfo(r)
      PROVE  UNCHANGED server
  BY <1>3 DEF GetStackInfo, ReadHistory, ReadState, ReadConn, LazyClear, ReadNodes, vars
<1>4. ASSUME NEW d \in Removers, DeleteStack(d)
      PROVE  UNCHANGED server
  BY <1>4 DEF DeleteStack, CheckIdle, GetRow, DeleteRow, GiveUp, DeleteOps, RemoveStackState,
              DeleteConn, DeleteNodes, vars
<1>5. QED
  BY <1>2, <1>3, <1>4 DEF SvcNext, PutStack, SvcBegin, Begin, Cancel, Startup, vars

LEMMA ReadStep ==
    ASSUME SvcTypeOK, Moves, \A r \in Readers : ReadInv(r), [SvcNext]_<<vars, svars>>
    PROVE  \A r \in Readers : ReadInv(r)'
<1> SUFFICES ASSUME NEW r \in Readers PROVE ReadInv(r)'
  OBVIOUS
<1>1. CASE GetStackInfo(r)
  BY <1>1, ReaderReads
<1>2. CASE SvcCrash
  BY <1>2 DEF SvcCrash, ReadInv
<1>3. CASE ~GetStackInfo(r) /\ ~SvcCrash
  <2>1. reader'[r] = reader[r]
    <3>1. ASSUME NEW q \in Readers, q # r, GetStackInfo(q)
          PROVE  reader'[r] = reader[r]
      BY <3>1, ReadMoves, Zenon DEF Reading, SvcTypeOK
    <3>2. (\E q \in Readers : GetStackInfo(q)) \/ UNCHANGED reader
      BY <1>3 DEF SvcNext, PutStack, SvcBegin, SvcResolve, SvcDiscover, SvcTeardown, SvcOther,
                  DeleteStack, CheckIdle, GetRow, DeleteRow, GiveUp, DeleteOps, RemoveStackState,
                  DeleteConn, DeleteNodes, svars
    <3>3. QED
      BY <1>3, <3>1, <3>2
  <2>2. server' = "down" => server = "down"
    BY <1>3, OnlyCrash
  <2>3. QED
    BY <2>1, <2>2, ReaderWaits
<1>4. QED
  BY <1>1, <1>2, <1>3

----------------------------------------------------------------------------
LEMMA SvcInitInv == SvcInit => SvcIInv
<1> SUFFICES ASSUME SvcInit PROVE SvcIInv
  OBVIOUS
<1>1. SharedInv
  BY InitIInv DEF SvcInit, IInv
<1>2. SvcTypeOK
  BY <1>1 DEF SvcInit, SvcTypeOK, SharedInv, ConnStates
<1>3. \A r \in Readers : ReadInv(r)
  BY DEF SvcInit, ReadInv
<1>4. QED
  BY <1>1, <1>2, <1>3 DEF SvcIInv

\* With any number of reads and deletions beside the operations, the engine's
\* invariants but KeptInv hold, and each read has seen what ReadInv says.
THEOREM ServiceInductive == SvcSpec => []SvcIInv
<1>1. ASSUME SvcIInv, [SvcNext]_<<vars, svars>>
      PROVE  SvcIInv'
  <2>1. SharedInv' /\ Moves
    BY <1>1, SvcSharedStep DEF SvcIInv
  <2>2. SvcTypeOK'
    BY <1>1, <2>1, SvcTypeStep DEF SvcIInv, SharedInv
  <2>3. \A r \in Readers : ReadInv(r)'
    BY <1>1, <2>1, ReadStep DEF SvcIInv
  <2>4. QED
    BY <2>1, <2>2, <2>3 DEF SvcIInv
<1>2. QED
  BY SvcInitInv, <1>1, PTL DEF SvcSpec

\* The tables and the requests keep their types (stacks, stack_connections,
\* stack_node_certs, GetStackInfo, DeleteStack).
THEOREM ServiceTypes == SvcSpec => []SvcTypeOK
<1>1. SvcIInv => SvcTypeOK BY DEF SvcIInv
<1>2. QED BY ServiceInductive, <1>1, PTL

\* No read and no deletion, at whatever step, lets two operations hold a
\* stack, leaves a lock without its holder or misdirects a Cancel.
THEOREM ServiceExcludes ==
    SvcSpec => [](MutualExclusion /\ LockHasHolder /\ CancelReachesHolder)
<1>1. SvcIInv => MutualExclusion /\ LockHasHolder /\ CancelReachesHolder
  BY DEF SvcIInv, SharedInv, LockInv
<1>2. QED BY ServiceInductive, <1>1, PTL

\* A read of the state that no operation of the stack disturbed answers "not
\* deployed" only of a stack with no resources, whatever the window, the order
\* of the rows, the crashes and the deletions (GetStackInfo).
THEOREM AnswersTrue == SvcSpec => []QuietAnswerTrue
<1>1. SvcIInv => QuietAnswerTrue
  BY IdleFacts DEF SvcIInv, ReadInv, QuietAnswerTrue
<1>2. QED BY ServiceInductive, <1>1, PTL

\* Nor does such a read clear the address of a live agent: who else does is the
\* teardown after a destroy (GetStackInfo, runOperation).
THEOREM ReadsKeepAddress == SvcSpec => QuietReadKeepsAddress
<1> DEFINE Excused(s) ==
      \/ \E r \in Readers :
            /\ reader[r].at = "clear" /\ reader'[r].at = "nodes"
            /\ ~(reader[r].counted /\ Undisturbed(r))
      \/ \E o \in Ops : pc[o] = "teardown" /\ pc'[o] = "posthooks"
<1>1. ASSUME SvcIInv, SvcNext, NEW s \in Stacks,
             conn[s] = "address", conn'[s] = "blank", infra[s] # "absent"
      PROVE  Excused(s)
  <2>1. conn \in [Stacks -> ConnStates] /\ pc \in [Ops -> Places]
        /\ reader \in [Readers -> {Idle} \cup Reads]
    BY <1>1 DEF SvcIInv, SvcTypeOK, TypeOK
  <2>2. ASSUME NEW t, UNCHANGED conn \/ EnsurePKI(t) \/ StoreAddress(t) PROVE FALSE
    BY <1>1, <2>1, <2>2 DEF EnsurePKI, StoreAddress
  <2>3. ASSUME NEW o \in Ops, SvcTeardown(o) PROVE Excused(s)
    BY <2>1, <2>3 DEF SvcTeardown, Teardown, Goto
  <2>4. ASSUME NEW r \in Readers, LazyClear(r) PROVE Excused(s)
    <3>1. reader[r].stack = s
      BY <1>1, <2>1, <2>4 DEF LazyClear, ClearAgentConnection
    <3>2. reader[r] # Idle /\ reader[r] \in Reads
      BY <2>1, <2>4, IdleFacts DEF LazyClear
    <3>3. ~(reader[r].counted /\ Undisturbed(r))
      BY <1>1, <2>4, <3>1, <3>2 DEF SvcIInv, ReadInv, LazyClear
    <3>4. reader'[r].at = "nodes"
      BY <2>1, <2>4, <3>2 DEF LazyClear, Reads
    <3>5. QED
      BY <2>4, <3>3, <3>4 DEF LazyClear
  <2>5. ASSUME NEW r \in Readers, GetStackInfo(r) PROVE Excused(s)
    BY <2>2, <2>4, <2>5 DEF GetStackInfo, ReadHistory, ReadState, ReadConn, ReadNodes, tables
  <2>6. ASSUME NEW d \in Removers, DeleteConn(d) PROVE FALSE
    BY <1>1, <2>1, <2>6 DEF DeleteConn
  <2>7. ASSUME NEW d \in Removers, DeleteStack(d) PROVE FALSE
    BY <2>2, <2>6, <2>7 DEF DeleteStack, CheckIdle, GetRow, DeleteRow, GiveUp, DeleteOps, RemoveStackState,
                         DeleteNodes, tables
  <2>8. ASSUME NEW o \in Ops, SvcResolve(o) \/ SvcDiscover(o) \/ SvcOther(o) PROVE FALSE
    BY <2>2, <2>8 DEF SvcResolve, SvcDiscover, SvcOther, svars
  <2>9. QED
    BY <1>1, <2>2, <2>3, <2>5, <2>7, <2>8
       DEF SvcNext, PutStack, SvcBegin, SvcCrash, svars, tables
<1>2. SvcIInv /\ [SvcNext]_<<vars, svars>>
        => [\A s \in Stacks :
              conn[s] = "address" /\ conn'[s] = "blank" /\ infra[s] # "absent"
              => Excused(s)]_<<vars, svars>>
  BY <1>1
<1>3. QED
  BY ServiceInductive, <1>2, PTL DEF SvcSpec, QuietReadKeepsAddress

\* The success reported last is true of the cloud until the stack's state is
\* deleted (DeleteStack).
THEOREM ServiceTruth == SvcSpec => []TrueUntilDeleted
<1>1. SvcIInv => TrueUntilDeleted
  BY DEF SvcIInv, SharedInv, RowInv, TruthInv, TrueUntilDeleted
<1>2. QED BY ServiceInductive, <1>1, PTL

\* A final status changes only by the deletion of its row, a late Finish and a
\* restart included (operations.go, DeleteStack).
THEOREM ServiceFinal == SvcSpec => FinalUntilDeleted
<1>1. ASSUME SvcIInv, [SvcNext]_<<vars, svars>>, NEW o \in Ops, record[o] \in Statuses
      PROVE  record'[o] \in {record[o], "absent"}
  <2>1. CASE \A d \in Removers : ~Losing(d)
    BY <1>1, <2>1, SvcSteps, FinalStep DEF SvcIInv
  <2>2. ASSUME NEW d \in Removers, Losing(d)
        PROVE  record'[o] \in {record[o], "absent"}
    BY <1>1, <2>2 DEF Losing, DeleteOps, RemoveStackState
  <2>3. QED
    BY <2>1, <2>2
<1>2. SvcIInv /\ [SvcNext]_<<vars, svars>>
        => [\A o \in Ops : record[o] \in Statuses
               => record'[o] \in {record[o], "absent"}]_<<vars, svars>>
  BY <1>1
<1>3. QED
  BY ServiceInductive, <1>2, PTL DEF SvcSpec, FinalUntilDeleted

\* Operations own a stack in turn beside reads and deletions as well: a
\* deletion is a step that forgets the stack, at any time (DeleteStack).
THEOREM ServiceImplements == SvcSpec => SerialButForDeletions
<1>1. ASSUME SvcIInv, [SvcNext]_<<vars, svars>>
      PROVE  [Serial!Next \/ \E s \in Stacks : Serial!Forget(s)]_(Serial!vars)
  <2>1. CASE \A d \in Removers : ~Losing(d)
    BY <1>1, <2>1, SvcSteps, StepSerial DEF SvcIInv
  <2>2. ASSUME NEW d \in Removers, DeleteOps(d)
        PROVE  UNCHANGED Serial!vars
    BY <2>2 DEF DeleteOps, Serial!vars, owners, reported, request, cloud
  <2>3. ASSUME NEW d \in Removers, RemoveStackState(d)
        PROVE  UNCHANGED Serial!vars \/ \E s \in Stacks : Serial!Forget(s)
    <3>1. remover[d].stack \in Stacks
      BY <1>1, <2>3, InProgress DEF SvcIInv, RemoveStackState, RemoverGoes, Removals
    <3>2. UNCHANGED Serial!vars \/ Serial!Forget(remover[d].stack)
      BY <2>3 DEF RemoveStackState, Serial!Forget, Serial!vars, owners, reported, request
    <3>3. QED
      BY <3>1, <3>2
  <2>4. QED
    BY <2>1, <2>2, <2>3 DEF Losing
<1>2. SvcInit => Serial!Init
  BY InitSerial DEF SvcInit
<1>3. QED
  BY ServiceInductive, <1>1, <1>2, PTL DEF SvcSpec, SerialButForDeletions, Serial!ForgetfulSpec

\* While nobody deletes, the requests are invisible to the engine: what is
\* proved of it alone holds beside them.
THEOREM ServiceIsEngine ==
    ASSUME Removers = {}
    PROVE  SvcSpec => Spec
<1>1. [SvcNext]_<<vars, svars>> => [Next]_vars
  BY SvcSteps
<1>2. SvcInit => Init
  BY DEF SvcInit
<1>3. QED
  BY <1>1, <1>2, PTL DEF SvcSpec, Spec

============================================================================
