------------------------- MODULE AsyncFutureProofs -------------------------
(***************************************************************************)
(* Theorems about futures.  Types and the order of value and status hold   *)
(* for any number of threads.  The rest of what a future promises holds    *)
(* for one waiter and one resolver, with any number of coroutines: the     *)
(* argument is that a waiter which found waitCondition empty has not       *)
(* published it yet, so the shortcut of wait() is never taken.             *)
(***************************************************************************)
EXTENDS AsyncFuture, TLAPS

\* Every thread is at a control point of its own code.
OwnCode ==
    /\ \A w \in Waiter : pc[w] \in WaiterPc
    /\ \A r \in Resolver : pc[r] \in ResolverPc
    /\ \A k \in Coroutine : pc[k] \in CoroutinePc

\* A resolver that is about to use a condition has matched one.
Matched ==
    \A r \in Resolver :
        pc[r] \in {"lock", "broadcast", "notifyUnlock", "unlock"} => seen[r] \in Waiter

TypeInv == TypeOK /\ OwnCode /\ Matched

\* The value is stored before the status.
ValueFirst ==
    /\ ResolvedHasValue
    /\ \A r \in Resolver : pc[r] = "setStatus" => value # None

\* The instances for which a future keeps its promise.
OneEach ==
    /\ \A w1, w2 \in Waiter : w1 = w2
    /\ \A r1, r2 \in Resolver : r1 = r2

\* wait() publishes its condition after it found none.
Published ==
    waitCondition # None => \A w \in Waiter : pc[w] \notin {"get", "match", "publish"}

\* The promise is resolved exactly when the resolver is past SetStatus.
Progress ==
    \A r \in Resolver :
        pc[r] \in {"resolve", "lock", "check", "setValue", "setStatus"} <=> ~ready

\* Whoever is about to read the value has been told that it is there, and
\* has not read it yet.
Arrived ==
    /\ \A t \in Party : pc[t] \in {"awaitResume", "done"} => ready
    /\ \A w \in Waiter : pc[w] = "unlock" => ready
    /\ \A t \in Party : got[t] # None => pc[t] = "done"

SingleInv == Published /\ Progress /\ Arrived /\ NeverUnreachable

\* A waiter locks the mutex it made; a resolver holds the mutex it will
\* unlock, because waitCondition is never emptied or replaced.
Held ==
    /\ \A w, c \in Waiter :
          owner[c] = w => w = c /\ pc[w] \in {"test", "wait", "unlock"}
    /\ \A r \in Resolver, c \in Waiter :
          owner[c] = r =>
             /\ waitCondition # None
             /\ pc[r] \in {"check", "setValue", "setStatus", "notify",
                           "broadcast", "notifyUnlock"}
    /\ \A r \in Resolver : pc[r] = "lock" => waitCondition # None

-----------------------------------------------------------------------------
(* One step of any thread.                                                 *)

\* Every step of every thread keeps the types.
LEMMA TypeStep ==
    ASSUME TypeInv, [Next]_vars
    PROVE  TypeInv'
<1> USE AsyncAssumption DEF TypeInv, TypeOK, OwnCode, Matched, Thread, Party,
        WaiterPc, ResolverPc, CoroutinePc, Errors
<1>1. ASSUME NEW w \in Waiter, WaiterStep(w) \/ SpuriousWakeup(w)
      PROVE  TypeInv'
  <2>1. CASE GetReady(w)
    BY <2>1 DEF GetReady, At, Branch, Goto, ready, promise
  <2>2. CASE MatchCondition(w)
    BY <2>2 DEF MatchCondition, At, Branch, Goto, promise
  <2>3. CASE PublishCondition(w)
    BY <2>3 DEF PublishCondition, At, Goto, promise
  <2>4. CASE LockCondition(w)
    BY <2>4 DEF LockCondition, At, Lock, Goto, promise
  <2>5. CASE TestReady(w)
    BY <2>5 DEF TestReady, At, Branch, Goto, ready, promise
  <2>6. CASE CondWait(w)
    BY <2>6 DEF CondWait, At, Unlock, Goto, promise
  <2>7. CASE CondWaitReturns(w)
    BY <2>7 DEF CondWaitReturns, At, Lock, Goto, promise
  <2>8. CASE UnlockCondition(w)
    BY <2>8 DEF UnlockCondition, At, Unlock, Goto, promise
  <2>9. CASE AwaitResume(w)
    BY <2>9 DEF AwaitResume, At, Goto, Abort, promise
  <2>10. CASE SpuriousWakeup(w)
    BY <2>10 DEF SpuriousWakeup, At, promise
  <2> QED
    BY <1>1, <2>1, <2>2, <2>3, <2>4, <2>5, <2>6, <2>7, <2>8, <2>9, <2>10
       DEF WaiterStep
<1>2. ASSUME NEW r \in Resolver, ResolverStep(r)
      PROVE  TypeInv'
  <2>1. CASE MatchToLock(r)
    BY <2>1 DEF MatchToLock, At, Branch, Goto, promise
  <2>2. CASE ResolverLock(r)
    BY <2>2 DEF ResolverLock, At, Lock, Goto, promise
  <2>3. CASE CheckStatus(r)
    BY <2>3 DEF CheckStatus, At, Goto, Abort, ready, promise
  <2>4. CASE SetValue(r)
    BY <2>4 DEF SetValue, At, Goto, promise
  <2>5. CASE SetStatus(r)
    BY <2>5 DEF SetStatus, At, Goto, promise
  <2>6. CASE MatchToNotify(r)
    BY <2>6 DEF MatchToNotify, At, Branch, Goto, promise
  <2>7. CASE Broadcast(r)
    BY <2>7 DEF Broadcast, At, Goto, promise
  <2>8. CASE NotifyUnlock(r)
    BY <2>8 DEF NotifyUnlock, At, Unlock, Goto, promise
  <2>9. CASE ResolverUnlock(r)
    BY <2>9 DEF ResolverUnlock, At, Unlock, Goto, promise
  <2>10. CASE ResumeHandle(r)
    BY <2>10 DEF ResumeHandle, At, Goto, Abort, promise
  <2>11. CASE ResumeReturns(r)
    BY <2>11 DEF ResumeReturns, At, Goto, promise
  <2> QED
    BY <1>2, <2>1, <2>2, <2>3, <2>4, <2>5, <2>6, <2>7, <2>8, <2>9, <2>10,
       <2>11 DEF ResolverStep
<1>3. ASSUME NEW k \in Coroutine, CoroutineStep(k)
      PROVE  TypeInv'
  <2>1. CASE AwaitReady(k)
    BY <2>1 DEF AwaitReady, At, Branch, Goto, ready, promise
  <2>2. CASE AwaitSuspend(k)
    BY <2>2 DEF AwaitSuspend, At, Goto, Abort, promise
  <2>3. CASE AwaitResume(k)
    BY <2>3 DEF AwaitResume, At, Goto, Abort, promise
  <2> QED
    BY <1>3, <2>1, <2>2, <2>3 DEF CoroutineStep
<1>4. CASE UNCHANGED vars
  BY <1>4 DEF vars, promise
<1> QED
  BY <1>1, <1>2, <1>3, <1>4 DEF Next

\* The status is stored only by a resolver that has stored the value.
LEMMA ValueFirstStep ==
    ASSUME TypeInv, ValueFirst, [Next]_vars
    PROVE  ValueFirst'
<1> USE AsyncAssumption DEF TypeInv, TypeOK, OwnCode, Matched, Thread, Party,
        WaiterPc, ResolverPc, CoroutinePc, Errors, ValueFirst,
        ResolvedHasValue, ready
<1>1. ASSUME NEW w \in Waiter, WaiterStep(w) \/ SpuriousWakeup(w)
      PROVE  ValueFirst'
  <2>1. CASE GetReady(w)
    BY <2>1 DEF GetReady, At, Branch, Goto, ready, promise
  <2>2. CASE MatchCondition(w)
    BY <2>2 DEF MatchCondition, At, Branch, Goto, promise
  <2>3. CASE PublishCondition(w)
    BY <2>3 DEF PublishCondition, At, Goto, promise
  <2>4. CASE LockCondition(w)
    BY <2>4 DEF LockCondition, At, Lock, Goto, promise
  <2>5. CASE TestReady(w)
    BY <2>5 DEF TestReady, At, Branch, Goto, ready, promise
  <2>6. CASE CondWait(w)
    BY <2>6 DEF CondWait, At, Unlock, Goto, promise
  <2>7. CASE CondWaitReturns(w)
    BY <2>7 DEF CondWaitReturns, At, Lock, Goto, promise
  <2>8. CASE UnlockCondition(w)
    BY <2>8 DEF UnlockCondition, At, Unlock, Goto, promise
  <2>9. CASE AwaitResume(w)
    BY <2>9 DEF AwaitResume, At, Goto, Abort, promise
  <2>10. CASE SpuriousWakeup(w)
    BY <2>10 DEF SpuriousWakeup, At, promise
  <2> QED
    BY <1>1, <2>1, <2>2, <2>3, <2>4, <2>5, <2>6, <2>7, <2>8, <2>9, <2>10
       DEF WaiterStep
<1>2. ASSUME NEW r \in Resolver, ResolverStep(r)
      PROVE  ValueFirst'
  <2>1. CASE MatchToLock(r)
    BY <2>1 DEF MatchToLock, At, Branch, Goto, promise
  <2>2. CASE ResolverLock(r)
    BY <2>2 DEF ResolverLock, At, Lock, Goto, promise
  <2>3. CASE CheckStatus(r)
    BY <2>3 DEF CheckStatus, At, Goto, Abort, ready, promise
  <2>4. CASE SetValue(r)
    BY <2>4 DEF SetValue, At, Goto, promise
  <2>5. CASE SetStatus(r)
    BY <2>5 DEF SetStatus, At, Goto, promise
  <2>6. CASE MatchToNotify(r)
    BY <2>6 DEF MatchToNotify, At, Branch, Goto, promise
  <2>7. CASE Broadcast(r)
    BY <2>7 DEF Broadcast, At, Goto, promise
  <2>8. CASE NotifyUnlock(r)
    BY <2>8 DEF NotifyUnlock, At, Unlock, Goto, promise
  <2>9. CASE ResolverUnlock(r)
    BY <2>9 DEF ResolverUnlock, At, Unlock, Goto, promise
  <2>10. CASE ResumeHandle(r)
    BY <2>10 DEF ResumeHandle, At, Goto, Abort, promise
  <2>11. CASE ResumeReturns(r)
    BY <2>11 DEF ResumeReturns, At, Goto, promise
  <2> QED
    BY <1>2, <2>1, <2>2, <2>3, <2>4, <2>5, <2>6, <2>7, <2>8, <2>9, <2>10,
       <2>11 DEF ResolverStep
<1>3. ASSUME NEW k \in Coroutine, CoroutineStep(k)
      PROVE  ValueFirst'
  <2>1. CASE AwaitReady(k)
    BY <2>1 DEF AwaitReady, At, Branch, Goto, ready, promise
  <2>2. CASE AwaitSuspend(k)
    BY <2>2 DEF AwaitSuspend, At, Goto, Abort, promise
  <2>3. CASE AwaitResume(k)
    BY <2>3 DEF AwaitResume, At, Goto, Abort, promise
  <2> QED
    BY <1>3, <2>1, <2>2, <2>3 DEF CoroutineStep
<1>4. CASE UNCHANGED vars
  BY <1>4 DEF vars, promise
<1> QED
  BY <1>1, <1>2, <1>3, <1>4 DEF Next

\* With one waiter and one resolver nobody reads the value too early.
LEMMA SingleStep ==
    ASSUME OneEach, TypeInv, ValueFirst, SingleInv, [Next]_vars
    PROVE  SingleInv'
<1> USE AsyncAssumption DEF TypeInv, TypeOK, OwnCode, Matched, Thread, Party,
        WaiterPc, ResolverPc, CoroutinePc, Errors, ValueFirst,
        ResolvedHasValue, ready, OneEach, SingleInv, Published, Progress,
        Arrived, NeverUnreachable
<1>1. ASSUME NEW w \in Waiter, WaiterStep(w) \/ SpuriousWakeup(w)
      PROVE  SingleInv'
  <2>1. CASE GetReady(w)
    BY <2>1 DEF GetReady, At, Branch, Goto, ready, promise
  <2>2. CASE MatchCondition(w)
    BY <2>2 DEF MatchCondition, At, Branch, Goto, promise
  <2>3. CASE PublishCondition(w)
    BY <2>3 DEF PublishCondition, At, Goto, promise
  <2>4. CASE LockCondition(w)
    BY <2>4 DEF LockCondition, At, Lock, Goto, promise
  <2>5. CASE TestReady(w)
    BY <2>5 DEF TestReady, At, Branch, Goto, ready, promise
  <2>6. CASE CondWait(w)
    BY <2>6 DEF CondWait, At, Unlock, Goto, promise
  <2>7. CASE CondWaitReturns(w)
    BY <2>7 DEF CondWaitReturns, At, Lock, Goto, promise
  <2>8. CASE UnlockCondition(w)
    BY <2>8 DEF UnlockCondition, At, Unlock, Goto, promise
  <2>9. CASE AwaitResume(w)
    BY <2>9 DEF AwaitResume, At, Goto, Abort, promise
  <2>10. CASE SpuriousWakeup(w)
    BY <2>10 DEF SpuriousWakeup, At, promise
  <2> QED
    BY <1>1, <2>1, <2>2, <2>3, <2>4, <2>5, <2>6, <2>7, <2>8, <2>9, <2>10
       DEF WaiterStep
<1>2. ASSUME NEW r \in Resolver, ResolverStep(r)
      PROVE  SingleInv'
  <2>1. CASE MatchToLock(r)
    BY <2>1 DEF MatchToLock, At, Branch, Goto, promise
  <2>2. CASE ResolverLock(r)
    BY <2>2 DEF ResolverLock, At, Lock, Goto, promise
  <2>3. CASE CheckStatus(r)
    BY <2>3 DEF CheckStatus, At, Goto, Abort, ready, promise
  <2>4. CASE SetValue(r)
    BY <2>4 DEF SetValue, At, Goto, promise
  <2>5. CASE SetStatus(r)
    BY <2>5 DEF SetStatus, At, Goto, promise
  <2>6. CASE MatchToNotify(r)
    BY <2>6 DEF MatchToNotify, At, Branch, Goto, promise
  <2>7. CASE Broadcast(r)
    BY <2>7 DEF Broadcast, At, Goto, promise
  <2>8. CASE NotifyUnlock(r)
    BY <2>8 DEF NotifyUnlock, At, Unlock, Goto, promise
  <2>9. CASE ResolverUnlock(r)
    BY <2>9 DEF ResolverUnlock, At, Unlock, Goto, promise
  <2>10. CASE ResumeHandle(r)
    BY <2>10 DEF ResumeHandle, At, Goto, Abort, promise
  <2>11. CASE ResumeReturns(r)
    BY <2>11 DEF ResumeReturns, At, Goto, promise
  <2> QED
    BY <1>2, <2>1, <2>2, <2>3, <2>4, <2>5, <2>6, <2>7, <2>8, <2>9, <2>10,
       <2>11 DEF ResolverStep
<1>3. ASSUME NEW k \in Coroutine, CoroutineStep(k)
      PROVE  SingleInv'
  <2>1. CASE AwaitReady(k)
    BY <2>1 DEF AwaitReady, At, Branch, Goto, ready, promise
  <2>2. CASE AwaitSuspend(k)
    BY <2>2 DEF AwaitSuspend, At, Goto, Abort, promise
  <2>3. CASE AwaitResume(k)
    BY <2>3 DEF AwaitResume, At, Goto, Abort, promise
  <2> QED
    BY <1>3, <2>1, <2>2, <2>3 DEF CoroutineStep
<1>4. CASE UNCHANGED vars
  BY <1>4 DEF vars, promise
<1> QED
  BY <1>1, <1>2, <1>3, <1>4 DEF Next

\* With one waiter both unlocks of resolve() find the mutex that was locked.
LEMMA HeldStep ==
    ASSUME OneEach, TypeInv, Held, [Next]_vars
    PROVE  Held'
<1> USE AsyncAssumption DEF TypeInv, TypeOK, OwnCode, Matched, Thread, Party,
        WaiterPc, ResolverPc, CoroutinePc, Errors, OneEach, Held
<1>1. ASSUME NEW w \in Waiter, WaiterStep(w) \/ SpuriousWakeup(w)
      PROVE  Held'
  <2>1. CASE GetReady(w)
    BY <2>1 DEF GetReady, At, Branch, Goto, ready, promise
  <2>2. CASE MatchCondition(w)
    BY <2>2 DEF MatchCondition, At, Branch, Goto, promise
  <2>3. CASE PublishCondition(w)
    BY <2>3 DEF PublishCondition, At, Goto, promise
  <2>4. CASE LockCondition(w)
    BY <2>4 DEF LockCondition, At, Lock, Goto, promise
  <2>5. CASE TestReady(w)
    BY <2>5 DEF TestReady, At, Branch, Goto, ready, promise
  <2>6. CASE CondWait(w)
    BY <2>6 DEF CondWait, At, Unlock, Goto, promise
  <2>7. CASE CondWaitReturns(w)
    BY <2>7 DEF CondWaitReturns, At, Lock, Goto, promise
  <2>8. CASE UnlockCondition(w)
    BY <2>8 DEF UnlockCondition, At, Unlock, Goto, promise
  <2>9. CASE AwaitResume(w)
    BY <2>9 DEF AwaitResume, At, Goto, Abort, promise
  <2>10. CASE SpuriousWakeup(w)
    BY <2>10 DEF SpuriousWakeup, At, promise
  <2> QED
    BY <1>1, <2>1, <2>2, <2>3, <2>4, <2>5, <2>6, <2>7, <2>8, <2>9, <2>10
       DEF WaiterStep
<1>2. ASSUME NEW r \in Resolver, ResolverStep(r)
      PROVE  Held'
  <2>1. CASE MatchToLock(r)
    BY <2>1 DEF MatchToLock, At, Branch, Goto, promise
  <2>2. CASE ResolverLock(r)
    BY <2>2 DEF ResolverLock, At, Lock, Goto, promise
  <2>3. CASE CheckStatus(r)
    BY <2>3 DEF CheckStatus, At, Goto, Abort, ready, promise
  <2>4. CASE SetValue(r)
    BY <2>4 DEF SetValue, At, Goto, promise
  <2>5. CASE SetStatus(r)
    BY <2>5 DEF SetStatus, At, Goto, promise
  <2>6. CASE MatchToNotify(r)
    BY <2>6 DEF MatchToNotify, At, Branch, Goto, promise
  <2>7. CASE Broadcast(r)
    BY <2>7 DEF Broadcast, At, Goto, promise
  <2>8. CASE NotifyUnlock(r)
    BY <2>8 DEF NotifyUnlock, At, Unlock, Goto, promise
  <2>9. CASE ResolverUnlock(r)
    BY <2>9 DEF ResolverUnlock, At, Unlock, Goto, promise
  <2>10. CASE ResumeHandle(r)
    BY <2>10 DEF ResumeHandle, At, Goto, Abort, promise
  <2>11. CASE ResumeReturns(r)
    BY <2>11 DEF ResumeReturns, At, Goto, promise
  <2> QED
    BY <1>2, <2>1, <2>2, <2>3, <2>4, <2>5, <2>6, <2>7, <2>8, <2>9, <2>10,
       <2>11 DEF ResolverStep
<1>3. ASSUME NEW k \in Coroutine, CoroutineStep(k)
      PROVE  Held'
  <2>1. CASE AwaitReady(k)
    BY <2>1 DEF AwaitReady, At, Branch, Goto, ready, promise
  <2>2. CASE AwaitSuspend(k)
    BY <2>2 DEF AwaitSuspend, At, Goto, Abort, promise
  <2>3. CASE AwaitResume(k)
    BY <2>3 DEF AwaitResume, At, Goto, Abort, promise
  <2> QED
    BY <1>3, <2>1, <2>2, <2>3 DEF CoroutineStep
<1>4. CASE UNCHANGED vars
  BY <1>4 DEF vars, promise
<1> QED
  BY <1>1, <1>2, <1>3, <1>4 DEF Next

\* Every step is a step of the abstract future or changes nothing there.
LEMMA OneShotStep ==
    ASSUME OneEach, TypeInv, ValueFirst, SingleInv, [Next]_vars
    PROVE  [Abstract!Next]_<<Resolution, got>>
<1> USE AsyncAssumption DEF TypeInv, TypeOK, OwnCode, Matched, Thread, Party,
        WaiterPc, ResolverPc, CoroutinePc, Errors, ValueFirst,
        ResolvedHasValue, ready, OneEach, SingleInv, Published, Progress,
        Arrived, NeverUnreachable, Abstract!Next, Abstract!Resolve,
        Abstract!Deliver, Resolution
<1>1. ASSUME NEW w \in Waiter, WaiterStep(w) \/ SpuriousWakeup(w)
      PROVE  [Abstract!Next]_<<Resolution, got>>
  <2>1. CASE GetReady(w)
    BY <2>1 DEF GetReady, At, Branch, Goto, ready, promise
  <2>2. CASE MatchCondition(w)
    BY <2>2 DEF MatchCondition, At, Branch, Goto, promise
  <2>3. CASE PublishCondition(w)
    BY <2>3 DEF PublishCondition, At, Goto, promise
  <2>4. CASE LockCondition(w)
    BY <2>4 DEF LockCondition, At, Lock, Goto, promise
  <2>5. CASE TestReady(w)
    BY <2>5 DEF TestReady, At, Branch, Goto, ready, promise
  <2>6. CASE CondWait(w)
    BY <2>6 DEF CondWait, At, Unlock, Goto, promise
  <2>7. CASE CondWaitReturns(w)
    BY <2>7 DEF CondWaitReturns, At, Lock, Goto, promise
  <2>8. CASE UnlockCondition(w)
    BY <2>8 DEF UnlockCondition, At, Unlock, Goto, promise
  <2>9. CASE AwaitResume(w)
    BY <2>9 DEF AwaitResume, At, Goto, Abort, promise
  <2>10. CASE SpuriousWakeup(w)
    BY <2>10 DEF SpuriousWakeup, At, promise
  <2> QED
    BY <1>1, <2>1, <2>2, <2>3, <2>4, <2>5, <2>6, <2>7, <2>8, <2>9, <2>10
       DEF WaiterStep
<1>2. ASSUME NEW r \in Resolver, ResolverStep(r)
      PROVE  [Abstract!Next]_<<Resolution, got>>
  <2>1. CASE MatchToLock(r)
    BY <2>1 DEF MatchToLock, At, Branch, Goto, promise
  <2>2. CASE ResolverLock(r)
    BY <2>2 DEF ResolverLock, At, Lock, Goto, promise
  <2>3. CASE CheckStatus(r)
    BY <2>3 DEF CheckStatus, At, Goto, Abort, ready, promise
  <2>4. CASE SetValue(r)
    BY <2>4 DEF SetValue, At, Goto, promise
  <2>5. CASE SetStatus(r)
    BY <2>5 DEF SetStatus, At, Goto, promise
  <2>6. CASE MatchToNotify(r)
    BY <2>6 DEF MatchToNotify, At, Branch, Goto, promise
  <2>7. CASE Broadcast(r)
    BY <2>7 DEF Broadcast, At, Goto, promise
  <2>8. CASE NotifyUnlock(r)
    BY <2>8 DEF NotifyUnlock, At, Unlock, Goto, promise
  <2>9. CASE ResolverUnlock(r)
    BY <2>9 DEF ResolverUnlock, At, Unlock, Goto, promise
  <2>10. CASE ResumeHandle(r)
    BY <2>10 DEF ResumeHandle, At, Goto, Abort, promise
  <2>11. CASE ResumeReturns(r)
    BY <2>11 DEF ResumeReturns, At, Goto, promise
  <2> QED
    BY <1>2, <2>1, <2>2, <2>3, <2>4, <2>5, <2>6, <2>7, <2>8, <2>9, <2>10,
       <2>11 DEF ResolverStep
<1>3. ASSUME NEW k \in Coroutine, CoroutineStep(k)
      PROVE  [Abstract!Next]_<<Resolution, got>>
  <2>1. CASE AwaitReady(k)
    BY <2>1 DEF AwaitReady, At, Branch, Goto, ready, promise
  <2>2. CASE AwaitSuspend(k)
    BY <2>2 DEF AwaitSuspend, At, Goto, Abort, promise
  <2>3. CASE AwaitResume(k)
    BY <2>3 DEF AwaitResume, At, Goto, Abort, promise
  <2> QED
    BY <1>3, <2>1, <2>2, <2>3 DEF CoroutineStep
<1>4. CASE UNCHANGED vars
  BY <1>4 DEF vars, promise
<1> QED
  BY <1>1, <1>2, <1>3, <1>4 DEF Next

-----------------------------------------------------------------------------
(* Theorems.                                                               *)

\* Every reachable state is well typed and every thread is in its own code.
LEMMA TypeInvHolds == Spec => []TypeInv
<1>1. Init => TypeInv
  BY AsyncAssumption DEF Init, TypeInv, TypeOK, OwnCode, Matched, Thread,
     Party,
     WaiterPc, ResolverPc, CoroutinePc, Errors
<1>2. TypeInv /\ [Next]_vars => TypeInv'
  BY TypeStep
<1> QED
  BY <1>1, <1>2, PTL DEF Spec

\* The state of the future stays in its types: a value and a condition are
\* always one that some thread of the right kind stored.
THEOREM TypeCorrect == Spec => []TypeOK
<1>1. TypeInv => TypeOK
  BY DEF TypeInv
<1> QED
  BY <1>1, TypeInvHolds, PTL

\* For any number of waiters, resolvers and coroutines, a status of Resolved
\* can be trusted: Promise.resolve stored the value before it.
THEOREM ResolvedHasValueHolds == Spec => []ResolvedHasValue
<1>1. Init => ValueFirst
  BY AsyncAssumption DEF Init, ValueFirst, ResolvedHasValue, ready, Thread
<1>2. TypeInv /\ ValueFirst /\ [Next]_vars => ValueFirst'
  BY ValueFirstStep
<1>3. ValueFirst => ResolvedHasValue
  BY DEF ValueFirst
<1> QED
  BY <1>1, <1>2, <1>3, TypeInvHolds, PTL DEF Spec

\* The invariants of one waiter and one resolver.
LEMMA SingleInvHolds ==
    ASSUME OneEach
    PROVE  Spec => [](TypeInv /\ ValueFirst /\ SingleInv)
<1>1. Init => ValueFirst /\ SingleInv
  BY AsyncAssumption DEF Init, ValueFirst, ResolvedHasValue, SingleInv,
     Published,
     Progress, Arrived, NeverUnreachable, ready, Thread, Party
<1>2. TypeInv /\ ValueFirst /\ SingleInv /\ [Next]_vars => ValueFirst' /\ SingleInv'
  BY OneEach, ValueFirstStep, SingleStep
<1> QED
  BY <1>1, <1>2, TypeInvHolds, PTL DEF Spec

\* With one waiter and one resolver, awaitResume() always finds a value.
THEOREM NeverUnreachableHolds ==
    ASSUME OneEach
    PROVE  Spec => []NeverUnreachable
<1>1. SingleInv => NeverUnreachable
  BY DEF SingleInv
<1> QED
  BY <1>1, SingleInvHolds, OneEach, PTL

\* With one waiter, resolve() returns with no mutex locked although it reads
\* waitCondition twice and unlocks twice.
THEOREM LockReleasedHolds ==
    ASSUME OneEach
    PROVE  Spec => []LockReleased
<1>1. Init => Held
  BY AsyncAssumption DEF Init, Held, Thread
<1>2. TypeInv /\ Held /\ [Next]_vars => Held'
  BY OneEach, HeldStep
<1>3. Held => LockReleased
  BY DEF Held, LockReleased
<1> QED
  BY <1>1, <1>2, <1>3, TypeInvHolds, PTL DEF Spec

\* With one waiter and one resolver the future implements the one-shot
\* future: every party is given the one value, once, after it was resolved.
THEOREM OneShotHolds ==
    ASSUME OneEach
    PROVE  Spec => OneShot
<1>1. Init => Abstract!Init
  BY AsyncAssumption DEF Init, Abstract!Init, Resolution, ready
<1>2. TypeInv /\ ValueFirst /\ SingleInv /\ [Next]_vars => [Abstract!Next]_<<Resolution, got>>
  BY OneEach, OneShotStep
<1> QED
  BY <1>1, <1>2, SingleInvHolds, OneEach, PTL DEF Spec, OneShot, Abstract!Spec
=============================================================================
