---------------------------- MODULE AsyncFuture ----------------------------
(***************************************************************************)
(* A future of the standard library: threads that block in get(),          *)
(* coroutines that await it, and the thread (a Task) that resolves it.      *)
(* The promise's status is atomic; value, waitCondition and handle are      *)
(* plain fields that the threads share.  One step of a thread is one access *)
(* to shared state or one call of the pthread library.                      *)
(***************************************************************************)
EXTENDS Naturals, FiniteSets

CONSTANTS
    Waiter,      \* threads that call Future.get()
    Resolver,    \* threads that call Future.resolve(with:)
    Coroutine,   \* coroutines that await the future
    None,        \* the empty Option, a free mutex
    MaxSpurious  \* bound on spurious wake-ups of pthread_cond_wait

Thread == Waiter \union Resolver \union Coroutine

ASSUME AsyncAssumption ==
    /\ Waiter \intersect Resolver = {}
    /\ Waiter \intersect Coroutine = {}
    /\ Resolver \intersect Coroutine = {}
    /\ None \notin Thread
    /\ MaxSpurious \in Nat

VARIABLES
    status,         \* Promise._status
    value,          \* Promise.value: who stored it
    waitCondition,  \* Future.waitCondition: named by the waiter that made it
    handle,         \* Future.handle
    owner,          \* owner[c]: holder of the mutex of condition c
    asleep,         \* asleep[c]: threads inside pthread_cond_wait
    pc,             \* control point of each thread
    seen,           \* seen[r]: the condition resolver r matched with .Some
    got,            \* what get() or await evaluated to
    spurious,       \* spurious wake-ups so far
    aborted         \* the runtime error that ended the program

vars == <<status, value, waitCondition, handle, owner, asleep, pc, seen,
          got, spurious, aborted>>

promise == <<status, value>>
Party   == Waiter \union Coroutine

WaiterPc    == {"get", "match", "publish", "lock", "test", "wait", "asleep",
                "unlock", "awaitResume", "done"}
ResolverPc  == {"resolve", "lock", "check", "setValue", "setStatus", "notify",
                "broadcast", "notifyUnlock", "unlock", "handle", "resuming",
                "done"}
CoroutinePc == {"await", "save", "suspended", "awaitResume", "done"}
Errors      == {"no", "unreachable", "resolvedTwice", "duplicateHandle",
                "handleDone"}

TypeOK ==
    /\ status \in {"Pending", "Resolved"}
    /\ value \in Resolver \union {None}
    /\ waitCondition \in Waiter \union {None}
    /\ handle \in Coroutine \union {None}
    /\ owner \in [Waiter -> Thread \union {None}]
    /\ asleep \in [Waiter -> SUBSET Waiter]
    /\ pc \in [Thread -> WaiterPc \union ResolverPc \union CoroutinePc]
    /\ seen \in [Resolver -> Waiter \union {None}]
    /\ got \in [Party -> Resolver \union {None}]
    /\ spurious \in Nat
    /\ aborted \in Errors

Init ==
    /\ status = "Pending"
    /\ value = None
    /\ waitCondition = None
    /\ handle = None
    /\ owner = [c \in Waiter |-> None]
    /\ asleep = [c \in Waiter |-> {}]
    /\ pc = [t \in Thread |-> CASE t \in Waiter   -> "get"
                                [] t \in Resolver -> "resolve"
                                [] OTHER          -> "await"]
    /\ seen = [r \in Resolver |-> None]
    /\ got = [t \in Party |-> None]
    /\ spurious = 0
    /\ aborted = "no"

ready == status = "Resolved"

At(t, from)       == aborted = "no" /\ pc[t] = from
Goto(t, to)       == pc' = [pc EXCEPT ![t] = to]
Branch(t, c, a, b) == Goto(t, IF c THEN a ELSE b)
Abort(e)          == aborted' = e

-----------------------------------------------------------------------------
(* Thread.Mutex and Thread.Condition over pthreads.                        *)

Lock(t, c) ==
    /\ owner[c] = None
    /\ owner' = [owner EXCEPT ![c] = t]

\* pthread_mutex_unlock on a mutex that another thread holds is undefined:
\* glibc frees the mutex, Darwin returns EPERM.  A free mutex stays free.
Unlock(t, c) ==
    \/ owner' = [owner EXCEPT ![c] = None]
    \/ owner[c] \notin {t, None} /\ UNCHANGED owner

-----------------------------------------------------------------------------
(* Future.get() and Future.wait() on thread w.                             *)

GetReady(w) ==
    /\ At(w, "get")
    /\ Branch(w, ready, "awaitResume", "match")
    /\ UNCHANGED <<promise, owner, waitCondition, handle, asleep, seen, got, spurious, aborted>>

\* if case .None = self.waitCondition; otherwise wait() just returns.
MatchCondition(w) ==
    /\ At(w, "match")
    /\ Branch(w, waitCondition = None, "publish", "awaitResume")
    /\ UNCHANGED <<promise, owner, waitCondition, handle, asleep, seen, got, spurious, aborted>>

PublishCondition(w) ==
    /\ At(w, "publish")
    /\ waitCondition' = w
    /\ Goto(w, "lock")
    /\ UNCHANGED <<promise, owner, handle, asleep, seen, got, spurious, aborted>>

LockCondition(w) ==
    /\ At(w, "lock")
    /\ Lock(w, w)
    /\ Goto(w, "test")
    /\ UNCHANGED <<promise, waitCondition, handle, asleep, seen, got, spurious, aborted>>

TestReady(w) ==
    /\ At(w, "test")
    /\ Branch(w, ready, "unlock", "wait")
    /\ UNCHANGED <<promise, owner, waitCondition, handle, asleep, seen, got, spurious, aborted>>

\* Mutant: falls asleep with the mutex locked.
CondWaitLocked(w) ==
    /\ At(w, "wait")
    /\ asleep' = [asleep EXCEPT ![w] = @ \union {w}]
    /\ Goto(w, "asleep")
    /\ UNCHANGED <<promise, owner, waitCondition, handle, seen, got, spurious, aborted>>

\* pthread_cond_wait: unlocks and falls asleep in one step.
CondWait(w) ==
    /\ At(w, "wait")
    /\ Unlock(w, w)
    /\ asleep' = [asleep EXCEPT ![w] = @ \union {w}]
    /\ Goto(w, "asleep")
    /\ UNCHANGED <<promise, waitCondition, handle, seen, got, spurious, aborted>>

\* Mutant: `if !ready` in place of `while !ready`.
CondWaitOnce(w) ==
    /\ At(w, "asleep")
    /\ w \notin asleep[w]
    /\ Lock(w, w)
    /\ Goto(w, "unlock")
    /\ UNCHANGED <<promise, waitCondition, handle, asleep, seen, got, spurious, aborted>>

\* ... and returns holding the mutex once it was woken.
CondWaitReturns(w) ==
    /\ At(w, "asleep")
    /\ w \notin asleep[w]
    /\ Lock(w, w)
    /\ Goto(w, "test")
    /\ UNCHANGED <<promise, waitCondition, handle, asleep, seen, got, spurious, aborted>>

SpuriousWakeup(w) ==
    /\ At(w, "asleep")
    /\ w \in asleep[w]
    /\ spurious < MaxSpurious
    /\ spurious' = spurious + 1
    /\ asleep' = [asleep EXCEPT ![w] = @ \ {w}]
    /\ UNCHANGED <<promise, owner, waitCondition, handle, pc, seen, got, aborted>>

\* Mutant: wait() returns with the mutex locked.
KeepCondition(w) ==
    /\ At(w, "unlock")
    /\ Goto(w, "awaitResume")
    /\ UNCHANGED <<promise, owner, waitCondition, handle, asleep, seen, got, spurious, aborted>>

UnlockCondition(w) ==
    /\ At(w, "unlock")
    /\ Unlock(w, w)
    /\ Goto(w, "awaitResume")
    /\ UNCHANGED <<promise, waitCondition, handle, asleep, seen, got, spurious, aborted>>

\* match promise.value; shared by get() and resumed coroutines.
AwaitResume(t) ==
    /\ At(t, "awaitResume")
    /\ IF value = None
       THEN Abort("unreachable") /\ UNCHANGED <<pc, got>>
       ELSE /\ Goto(t, "done")
            /\ got' = [got EXCEPT ![t] = value]
            /\ UNCHANGED aborted
    /\ UNCHANGED <<promise, owner, waitCondition, handle, asleep, seen, spurious>>

-----------------------------------------------------------------------------
(* Future.resolve(with:) on thread r.                                      *)

MatchToLock(r) ==
    /\ At(r, "resolve")
    /\ seen' = [seen EXCEPT ![r] = waitCondition]
    /\ Branch(r, waitCondition = None, "check", "lock")
    /\ UNCHANGED <<promise, owner, waitCondition, handle, asleep, got, spurious, aborted>>

ResolverLock(r) ==
    /\ At(r, "lock")
    /\ Lock(r, seen[r])
    /\ Goto(r, "check")
    /\ UNCHANGED <<promise, waitCondition, handle, asleep, seen, got, spurious, aborted>>

\* Mutant: claims the promise by storing the status before the value.
ClaimStatus(r) ==
    /\ At(r, "check")
    /\ IF ready
       THEN Abort("resolvedTwice") /\ UNCHANGED <<pc, status>>
       ELSE status' = "Resolved" /\ Goto(r, "setValue") /\ UNCHANGED aborted
    /\ UNCHANGED <<value, owner, waitCondition, handle, asleep, seen, got, spurious>>

\* Promise.resolve(with:): load the status, store the value, store the status.
CheckStatus(r) ==
    /\ At(r, "check")
    /\ IF ready
       THEN Abort("resolvedTwice") /\ UNCHANGED pc
       ELSE Goto(r, "setValue") /\ UNCHANGED aborted
    /\ UNCHANGED <<promise, owner, waitCondition, handle, asleep, seen, got, spurious>>

SetValue(r) ==
    /\ At(r, "setValue")
    /\ value' = r
    /\ Goto(r, "setStatus")
    /\ UNCHANGED <<status, owner, waitCondition, handle, asleep, seen, got, spurious, aborted>>

SetStatus(r) ==
    /\ At(r, "setStatus")
    /\ status' = "Resolved"
    /\ Goto(r, "notify")
    /\ UNCHANGED <<value, owner, waitCondition, handle, asleep,
                   seen, got, spurious, aborted>>

\* The field is read again: not necessarily what MatchToLock saw.
MatchToNotify(r) ==
    /\ At(r, "notify")
    /\ seen' = [seen EXCEPT ![r] = waitCondition]
    /\ Branch(r, waitCondition = None, "handle", "broadcast")
    /\ UNCHANGED <<promise, owner, waitCondition, handle, asleep, got, spurious, aborted>>

\* Mutant: notifyAll() only unlocks.
NoBroadcast(r) ==
    /\ At(r, "broadcast")
    /\ Goto(r, "notifyUnlock")
    /\ UNCHANGED <<promise, owner, waitCondition, handle, asleep, seen, got, spurious, aborted>>

\* Condition.notifyAll() broadcasts and then unlocks the mutex ...
Broadcast(r) ==
    /\ At(r, "broadcast")
    /\ asleep' = [asleep EXCEPT ![seen[r]] = {}]
    /\ Goto(r, "notifyUnlock")
    /\ UNCHANGED <<promise, owner, waitCondition, handle, seen, got, spurious, aborted>>

NotifyUnlock(r) ==
    /\ At(r, "notifyUnlock")
    /\ Unlock(r, seen[r])
    /\ Goto(r, "unlock")
    /\ UNCHANGED <<promise, waitCondition, handle, asleep, seen, got, spurious, aborted>>

\* ... and resolve() unlocks it once more.
ResolverUnlock(r) ==
    /\ At(r, "unlock")
    /\ Unlock(r, seen[r])
    /\ Goto(r, "handle")
    /\ UNCHANGED <<promise, waitCondition, handle, asleep, seen, got, spurious, aborted>>

\* handle.resume() runs the coroutine on this thread until it ends.
ResumeHandle(r) ==
    /\ At(r, "handle")
    /\ \/ /\ handle = None
          /\ Goto(r, "done")
          /\ UNCHANGED aborted
       \/ /\ handle # None
          /\ pc[handle] = "done"
          /\ Abort("handleDone")
          /\ UNCHANGED pc
       \/ /\ handle # None
          /\ pc[handle] # "done"
          /\ pc' = [pc EXCEPT ![r] = "resuming", ![handle] = "awaitResume"]
          /\ UNCHANGED aborted
    /\ UNCHANGED <<promise, owner, waitCondition, handle, asleep, seen, got, spurious>>

ResumeReturns(r) ==
    /\ At(r, "resuming")
    /\ pc[handle] = "done"
    /\ Goto(r, "done")
    /\ UNCHANGED <<promise, owner, waitCondition, handle, asleep, seen, got, spurious, aborted>>

-----------------------------------------------------------------------------
(* `await` in a coroutine, as EmitCoroutineAwait lowers it.                *)

AwaitReady(k) ==
    /\ At(k, "await")
    /\ Branch(k, ready, "awaitResume", "save")
    /\ UNCHANGED <<promise, owner, waitCondition, handle, asleep, seen, got, spurious, aborted>>

\* Mutants: the handle is not kept; the awaiter says "available".
SuspendWithoutHandle(k) ==
    /\ At(k, "save")
    /\ Goto(k, "suspended")
    /\ UNCHANGED <<promise, owner, waitCondition, handle, asleep, seen, got, spurious, aborted>>

SuspendAvailable(k) ==
    /\ At(k, "save")
    /\ handle' = k
    /\ Goto(k, "awaitResume")
    /\ UNCHANGED <<promise, owner, waitCondition, asleep, seen, got, spurious, aborted>>

\* awaitSuspend(handle:) stores the handle and always says "not available".
AwaitSuspend(k) ==
    /\ At(k, "save")
    /\ IF handle # None
       THEN Abort("duplicateHandle") /\ UNCHANGED <<pc, handle>>
       ELSE handle' = k /\ Goto(k, "suspended") /\ UNCHANGED aborted
    /\ UNCHANGED <<promise, owner, waitCondition, asleep, seen, got, spurious>>

-----------------------------------------------------------------------------

WaiterStep(w) ==
    \/ GetReady(w) \/ MatchCondition(w) \/ PublishCondition(w)
    \/ LockCondition(w) \/ TestReady(w) \/ CondWait(w) \/ CondWaitReturns(w)
    \/ UnlockCondition(w) \/ AwaitResume(w)

ResolverStep(r) ==
    \/ MatchToLock(r) \/ ResolverLock(r) \/ CheckStatus(r) \/ SetValue(r)
    \/ SetStatus(r) \/ MatchToNotify(r) \/ Broadcast(r) \/ NotifyUnlock(r)
    \/ ResolverUnlock(r) \/ ResumeHandle(r) \/ ResumeReturns(r)

CoroutineStep(k) == AwaitReady(k) \/ AwaitSuspend(k) \/ AwaitResume(k)

Next ==
    \/ \E w \in Waiter : WaiterStep(w) \/ SpuriousWakeup(w)
    \/ \E r \in Resolver : ResolverStep(r)
    \/ \E k \in Coroutine : CoroutineStep(k)

Spec == Init /\ [][Next]_vars

\* The operating system runs every thread that can run.
FairSpec ==
    /\ Spec
    /\ \A w \in Waiter : WF_vars(WaiterStep(w))
    /\ \A r \in Resolver : WF_vars(ResolverStep(r))
    /\ \A k \in Coroutine : WF_vars(CoroutineStep(k))

-----------------------------------------------------------------------------
(* Properties.                                                             *)

\* Promise.resolve stores the value before the status: whoever reads a
\* Resolved status, on any thread, finds the value.
ResolvedHasValue == ready => value # None

\* awaitResume() is never reached without a value, so its unreachable! is:
\* "Wait until the promise is resolved and get the resolved value."
NeverUnreachable == aborted # "unreachable"

\* No thread leaves get() or resolve() with a mutex locked, although
\* resolve() reads waitCondition twice, once to lock and once to unlock.
LockReleased ==
    \A t \in Waiter \union Resolver : \A c \in Waiter :
        pc[t] = "done" => owner[c] # t

\* A future with one waiter, one resolver and any coroutines is one-shot.
Resolution == IF ready THEN value ELSE None
Abstract   == INSTANCE OneShotFuture WITH Producer <- Resolver, value <- Resolution
OneShot    == Abstract!Spec

\* A thread already asleep in get() when resolve() begins is woken by it.
AsleepIsWoken ==
    \A w \in Waiter, r \in Resolver :
        (pc[w] = "asleep" /\ pc[r] = "resolve") ~> (pc[w] = "done")

\* A coroutine suspended on the future before resolve() looks at the handle
\* is resumed with the value.
SuspendedIsResumed ==
    \A k \in Coroutine, r \in Resolver :
        (pc[k] = "suspended" /\ pc[r] \in {"resolve", "handle"}) ~> (pc[k] = "done")

\* resolve() returns: it never waits for a mutex that is not given back.
ResolverReturns == \A r \in Resolver : <>(pc[r] = "done")

\* get() returns once the future is resolved ("Wait until the promise is
\* resolved"; "Notify any threads that might be waiting on the resolution").
GetReturns == \A w \in Waiter : ready ~> (pc[w] = "done")

\* "Resume any coroutines waiting on the resolution."
AwaitReturns == \A k \in Coroutine : ready ~> (pc[k] = "done")
=============================================================================
