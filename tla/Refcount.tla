------------------------------ MODULE Refcount ------------------------------
(***************************************************************************)
(* The strong count of one reference-counted object and the runtime        *)
(* functions that the generated code calls on it, for the two orders the   *)
(* runtime uses: a class instance is deinitialised before its count drops  *)
(* to zero, a box or a lambda after.  The getter and the setter of the     *)
(* count are one atomic load and one atomic store; each is a step.         *)
(***************************************************************************)
EXTENDS Naturals, FiniteSets

CONSTANTS
    Thread,      \* threads that may hold references
    Creator,     \* the thread that allocated the object
    Serialised,  \* the program never runs two of the functions at a time
    Word,        \* 2^64: the counts are of type UInt
    MaxHandles   \* bound on the references of one thread

ASSUME RefcountAssumption ==
    /\ Creator \in Thread
    /\ Serialised \in BOOLEAN
    /\ MaxHandles \in Nat \ {0}
    /\ Word \in Nat
    /\ IsFiniteSet(Thread)
    /\ Cardinality(Thread) * MaxHandles + 1 < Word

VARIABLES
    scheme,   \* "object" (AtomicRefcounted) or "box" (AtomicBox, AtomicLambda)
    strong,   \* _strongRefcount
    freed,    \* the memory was deallocated
    deinits,  \* times the deinitialiser was called
    handles,  \* references each thread owns
    copies,   \* references the deinit a thread runs has made of `self`
    pc,       \* control point of each thread in the runtime
    nested,   \* calls of deinit that wait for the function a thread is in
    loaded,   \* what each thread loaded last
    fatal     \* a failed assertion or an access to freed memory

vars == <<scheme, strong, freed, deinits, handles, copies, pc, nested, loaded, fatal>>

RetainPc  == {"assertRetain", "retainLoad", "retainStore"}
ReleasePc == {"count", "decrLoad", "decrStore", "test", "deinit", "lastLoad",
              "lastStore", "free"}

TypeOK ==
    /\ scheme \in {"object", "box"}
    /\ strong \in Nat
    /\ freed \in BOOLEAN
    /\ deinits \in Nat
    /\ handles \in [Thread -> Nat]
    /\ copies \in [Thread -> Nat]
    /\ pc \in [Thread -> {"idle"} \union RetainPc \union ReleasePc]
    /\ nested \in [Thread -> Nat]
    /\ loaded \in [Thread -> Nat]
    /\ fatal \in {"no", "retainingFreed", "releasingFreed", "useAfterFree"}

\* visitAllocBoxInst and the allocation of a class store a count of one.
Init ==
    /\ scheme \in {"object", "box"}
    /\ strong = 1
    /\ freed = FALSE
    /\ deinits = 0
    /\ handles = [t \in Thread |-> IF t = Creator THEN 1 ELSE 0]
    /\ pc = [t \in Thread |-> "idle"]
    /\ copies = [t \in Thread |-> 0]
    /\ nested = [t \in Thread |-> 0]
    /\ loaded = [t \in Thread |-> 0]
    /\ fatal = "no"

At(t, from) == fatal = "no" /\ pc[t] = from
Goto(t, to) == pc' = [pc EXCEPT ![t] = to]

\* Back to the program, which may be the body of the deinit.
Return(t) ==
    IF nested[t] = 0
    THEN Goto(t, "idle") /\ UNCHANGED nested
    ELSE Goto(t, "deinit") /\ nested' = [nested EXCEPT ![t] = @ - 1]

\* Every access to the object's memory goes through here.
Access(A) ==
    \/ ~freed /\ A /\ UNCHANGED fatal
    \/ /\ freed
       /\ fatal' = "useAfterFree"
       /\ UNCHANGED <<strong, deinits, handles, copies, pc, nested, loaded>>

Load(t, to) ==
    /\ loaded' = [loaded EXCEPT ![t] = strong]
    /\ Goto(t, to)
    /\ UNCHANGED <<strong, handles, copies, nested>>

Fail(e) ==
    /\ fatal' = e
    /\ UNCHANGED <<strong, deinits, handles, copies, pc, nested, loaded>>

\* Mutant: a lost increment.
Same(n)   == n

Plus1(n) == (n + 1) % Word

Minus1(n) == (n + Word - 1) % Word

\* The generated code never serialises the calls itself: it does so only in
\* that a single-threaded program (-fassume-single-threaded) has one thread.
InProgram(t) ==
    /\ At(t, "idle") \/ At(t, "deinit")
    /\ Serialised => \A u \in Thread \ {t} : pc[u] = "idle"

Deinit(t)    == pc[t] = "deinit"
Enter(t)     == nested' = [nested EXCEPT ![t] = IF Deinit(t) THEN @ + 1 ELSE @]

-----------------------------------------------------------------------------
(* _cdot_AtomicRetain, _cdot_AtomicRetainBox, _cdot_AtomicRetainLambda.    *)

\* The program copies a reference it holds, or `self` in the deinit of a class.
Retain(t) ==
    /\ InProgram(t)
    /\ IF Deinit(t) THEN scheme = "object" /\ copies[t] = 0
                    ELSE handles[t] \in 1..(MaxHandles - 1)
    /\ Goto(t, IF scheme = "object" THEN "assertRetain" ELSE "retainLoad")
    /\ Enter(t)
    /\ UNCHANGED <<scheme, strong, freed, deinits, handles, copies, loaded, fatal>>

AssertRetain(t) ==
    /\ At(t, "assertRetain")
    /\ IF ~freed /\ strong = 0
       THEN Fail("retainingFreed")
       ELSE Access(Load(t, "retainLoad") /\ UNCHANGED deinits)
    /\ UNCHANGED <<scheme, freed>>

RetainLoad(t) ==
    /\ At(t, "retainLoad")
    /\ Access(Load(t, "retainStore") /\ UNCHANGED deinits)
    /\ UNCHANGED <<scheme, freed>>

\* The new reference belongs to whoever asked for it.
Received(t) ==
    IF nested[t] = 0
    THEN handles' = [handles EXCEPT ![t] = @ + 1] /\ UNCHANGED copies
    ELSE copies' = [copies EXCEPT ![t] = @ + 1] /\ UNCHANGED handles

RetainStore(t) ==
    /\ At(t, "retainStore")
    /\ Access(/\ strong' = Plus1(loaded[t])
              /\ Received(t)
              /\ Return(t)
              /\ UNCHANGED <<deinits, loaded>>)
    /\ UNCHANGED <<scheme, freed>>

-----------------------------------------------------------------------------
(* _cdot_AtomicRelease, _cdot_AtomicReleaseBox, _cdot_AtomicReleaseLambda. *)

\* The function owns its argument: the reference is gone when it is called.
Release(t) ==
    /\ InProgram(t)
    /\ IF Deinit(t)
       THEN /\ copies[t] > 0
            /\ copies' = [copies EXCEPT ![t] = @ - 1]
            /\ UNCHANGED handles
       ELSE /\ handles[t] > 0
            /\ handles' = [handles EXCEPT ![t] = @ - 1]
            /\ UNCHANGED copies
    /\ Goto(t, IF scheme = "object" THEN "count" ELSE "decrLoad")
    /\ Enter(t)
    /\ UNCHANGED <<scheme, strong, freed, deinits, loaded, fatal>>

Last(t, to) == Load(t, to) /\ deinits' = deinits + 1

\* `var refc = target->strongRefcount`, its assertion and `refc == 1`.
Count(t) ==
    /\ At(t, "count")
    /\ CASE ~freed /\ strong = 0 -> Fail("releasingFreed")
         [] ~freed /\ strong = 1 -> Access(Last(t, "deinit"))
         [] OTHER -> Access(Load(t, "decrLoad") /\ UNCHANGED deinits)
    /\ UNCHANGED <<scheme, freed>>

DecrementLoad(t) ==
    /\ At(t, "decrLoad")
    /\ Access(Load(t, "decrStore") /\ UNCHANGED deinits)
    /\ UNCHANGED <<scheme, freed>>

DecrementStore(t) ==
    /\ At(t, "decrStore")
    /\ Access(/\ strong' = Minus1(loaded[t])
              /\ IF scheme = "object" THEN Return(t)
                 ELSE Goto(t, "test") /\ UNCHANGED nested
              /\ UNCHANGED <<deinits, handles, copies, loaded>>)
    /\ UNCHANGED <<scheme, freed>>

\* Mutants: the wrong bound; no deinitialiser; the count loaded before.
TestOne(t) ==
    /\ At(t, "test")
    /\ Access(IF strong <= 1 THEN Last(t, "free")
              ELSE Load(t, "idle") /\ UNCHANGED deinits)
    /\ UNCHANGED <<scheme, freed>>

TestWithoutDeinit(t) ==
    /\ At(t, "test")
    /\ Access(Load(t, IF strong = 0 THEN "free" ELSE "idle") /\ UNCHANGED deinits)
    /\ UNCHANGED <<scheme, freed>>

TestStale(t) ==
    /\ At(t, "test")
    /\ Access(IF loaded[t] = 0 THEN Last(t, "free")
              ELSE Load(t, "idle") /\ UNCHANGED deinits)
    /\ UNCHANGED <<scheme, freed>>

\* Boxes and lambdas load the count again and deinitialise at zero.
TestZero(t) ==
    /\ At(t, "test")
    /\ Access(IF strong = 0 THEN Last(t, "free")
              ELSE Load(t, "idle") /\ UNCHANGED deinits)
    /\ UNCHANGED <<scheme, freed>>

\* typeInfo->deinitialize returns; what it copied of `self` it has released.
DeinitReturns(t) ==
    /\ At(t, "deinit")
    /\ copies[t] = 0
    /\ Goto(t, "lastLoad")
    /\ UNCHANGED <<scheme, strong, freed, deinits, handles, copies, nested, loaded, fatal>>

LastLoad(t) ==
    /\ At(t, "lastLoad")
    /\ Access(Load(t, "lastStore") /\ UNCHANGED deinits)
    /\ UNCHANGED <<scheme, freed>>

LastStore(t) ==
    /\ At(t, "lastStore")
    /\ Access(/\ strong' = Minus1(loaded[t])
              /\ Goto(t, "free")
              /\ UNCHANGED <<deinits, handles, copies, nested, loaded>>)
    /\ UNCHANGED <<scheme, freed>>

\* No weak references exist (IRGen generates none), so deallocate() follows.
Free(t) ==
    /\ At(t, "free")
    /\ Access(/\ Return(t)
              /\ UNCHANGED <<strong, deinits, handles, copies, loaded>>)
    /\ freed' = TRUE
    /\ UNCHANGED scheme

-----------------------------------------------------------------------------

\* A reference is moved to another thread through memory both can reach.
Give(t, u) ==
    /\ At(t, "idle")
    /\ At(u, "idle")
    /\ t # u
    /\ handles[t] > 0
    /\ handles[u] < MaxHandles
    /\ handles' = [handles EXCEPT ![t] = @ - 1, ![u] = @ + 1]
    /\ UNCHANGED <<scheme, strong, freed, deinits, copies, pc, nested, loaded, fatal>>

Runtime(t) ==
    \/ AssertRetain(t) \/ RetainLoad(t) \/ RetainStore(t)
    \/ Count(t) \/ DecrementLoad(t) \/ DecrementStore(t) \/ TestZero(t)
    \/ DeinitReturns(t) \/ LastLoad(t) \/ LastStore(t) \/ Free(t)

Next ==
    \/ \E t \in Thread : Retain(t) \/ Release(t) \/ Runtime(t)
    \/ \E t, u \in Thread : Give(t, u)

Spec == Init /\ [][Next]_vars

\* A thread that is inside the runtime goes on; a deinit releases its copies
\* and returns, as any destructor does.
FairSpec ==
    /\ Spec
    /\ \A t \in Thread :
          /\ WF_vars(Runtime(t))
          /\ WF_vars(Deinit(t) /\ Release(t))
          /\ SF_vars(DeinitReturns(t))

-----------------------------------------------------------------------------
(* Properties.                                                             *)

\* "retaining freed object", "trying to release object with refcount of 0!":
\* no assertion of the runtime ever fails, no freed object is touched, and the
\* memory outlives every reference to it.
NoDangling ==
    /\ fatal = "no"
    /\ freed => \A t \in Thread : handles[t] = 0 /\ copies[t] = 0

\* The references that the threads own, when thread t owns owned[t] of them.
References(owned) == {r \in Thread \X (1..MaxHandles) : r[2] <= owned[r[1]]}

\* Between two calls the count is the number of references to the object:
\* none is lost and none is counted twice, across threads and copies.
CountExact ==
    (~freed /\ \A t \in Thread : pc[t] = "idle")
        => strong = Cardinality(References(handles))

\* The deinit of an object runs once, although it may copy and release
\* references to its own object while the count is about to reach zero.
DeinitOnce == deinits <= 1 /\ (freed => deinits = 1)

\* An object that lost its last reference is deallocated.
Reclaimed == (\A t \in Thread : handles[t] = 0) ~> freed

\* No release of a held reference finds the count at zero ("trying to release
\* object $target with refcount of 0!").
NeverReleasedAtZero == fatal # "releasingFreed"
=============================================================================
