# A verification project for the cdot compiler and its runtime

cdotc compiles the language *cdot*: a demand-driven front end in C++ (`src/src`,
`src/include/cdotc`), an intermediate language with passes and a compile-time
evaluator, LLVM code generation, and a standard library written in cdot
(`src/StdLib`) whose runtime part the generated code calls. This directory
holds TLA+ modules of the parts of it whose correctness depends on histories
and interleavings rather than on one function at a time, the TLC
configurations that check them on small instances, and TLAPS proofs for all
instances.

`PROJECT.json` lists, for every definition that models code, the lines it was
translated from. Comments in the modules say what an action stands for; the
names are those of the source wherever TLA+ allows it.

## The system

| part | where | state it keeps | operations | talks to |
|---|---|---|---|---|
| query engine | `src/src/Query/Query.cpp`, `QueryContext.cpp`, code generated by `src/tools/TableGenBackends/QueryBackend.cpp` from `Queries.tg` | one object per query and arguments: status, result, revision; the stack of executing queries | dispatch (find or create, refresh, switch on the status), `finish`, `fail`, `invalidate` | called by every phase; bodies call it recursively |
| declaration contexts and lookup | `src/src/AST/DeclBase.cpp`, `src/src/Query/LookupQueries.cpp` | per context: table of visible names, revision, imports, parent, primary context | add, make available, remove, import; direct, find-first and multi-level lookup | changed by parser, module manager, instantiator; read by lookup queries, which the engine caches |
| conformance resolver | `src/src/Sema/ConformanceChecker.cpp` | a dependency graph of facts about records, the nodes that are done, shallow instantiations, pending records | `PrepareNameLookup`: find contexts, discover dependencies, resolve in order, restart | the dependency graph, template instantiation, name lookup; fills `CompletedRecordDecls`, which the refresh condition of `ConformsTo` reads |
| dependency graph | `src/include/cdotc/Basic/DependencyGraph.h` | vertices and edges | evaluation order, offending pair, removal | conformance resolver |
| constraint solver | `src/src/Sema/ConstraintSystem.cpp`, `ConstraintStep.cpp`, `ConstraintGraph.cpp` | a worklist of steps, the chain of scopes, bindings with a change log, scores, solutions | solve, split, find, bind, resume, leave a scope, merge | queries for types and conformances |
| template instantiation | `src/src/Sema/TemplateInstantiator.cpp` | instances, worklists | shallow instantiation and its completion | conformance resolver, declaration contexts |
| other semantic analysis | `src/src/Sema`, `SemaQueries.cpp`, `TypeQueries.cpp` | AST annotations | bodies of the queries | the engine |
| IL generation, cleanups | `src/src/ILGen` | the function being built, the insertion point, the cleanup stack | emit, push, ignore, emit and pop cleanups, lower `await` | the engine, the AST |
| IL passes | `src/src/IL/Passes` | the solution of a dataflow problem | definite initialisation, borrow checking, canonicalisation | IL; diagnostics; tags that IR generation obeys |
| IR generation | `src/src/IRGen` | an LLVM module, flags of conditionally initialised variables | translate; choose retain and release functions | the runtime's symbols |
| modules, serialization | `src/src/Module`, `src/src/Serialization` | loaded modules, lazily read tables | import, read on demand, write | declaration contexts |
| diagnostics | `src/src/Diagnostics` | counters, the too-many-errors flag | report | everything |
| lexer, parser, AST, CTFE, clang importer, driver | `src/src/Lex` ... | | | |
| reference counting runtime | `src/StdLib/core/rt/RC.dot` | two counts per object | retain, release, for objects, boxes and lambdas | generated code, deinitialisers |
| futures and tasks | `src/StdLib/core/async/Async.dot` | status, value, a condition, a coroutine handle | `get`, `resolve`, the awaiter protocol | pthreads, coroutines lowered by `ILGenCoroutine.cpp` |
| threads | `src/StdLib/core/sys/Thread.dot` | running flag, handle | start, join, mutexes, conditions | pthreads, reference counting |
| collections, strings, I/O | `src/StdLib/core` | buffers | | reference counting |

The compiler itself runs on one thread. What is hard in it is *re-entrance* and
*long histories*: a query body may reach itself or any other query at any
point while the tables that cached answers depend on change; resolving a node
of a graph adds to the graph; a search must put back what it changed; a
statement generator emits on each of many paths what other statements owe. The
runtime is where threads meet: plain fields and atomics, condition variables,
and counts that decide when memory goes away. Nothing in the system survives a
crash (the incremental compilation cache that would is never written: nothing
calls `WriteFileInfo` or `fileNeedsRecompilation`), so no crash is modelled.

What makes each part correct:

* *Query engine*: a status says what it says in its comments; recursion is cut
  where it can be; a circular dependency is reported exactly for real cycles;
  callers agree about the outcome; a cached answer is not older than the
  state its refresh condition watches.
* *Lookup*: a table has one declaration per name, or overloads; a cached lookup
  is answered with what is visible now; inner declarations hide outer ones.
* *Conformance resolver*: a fact is established after the facts it depends on,
  across restarts and failed calls; a cycle is reported exactly when there is
  one; a successful call forgets no record; every call returns.
* *Constraint solver*: leaving a scope restores what entering it found; a
  solution satisfies all constraints; none is better; a failure is real; the
  search ends.
* *Definite initialisation*: the worklist finds the solution over all paths, in
  any order; an accepted program reads nothing that is not there, and what it
  initialised is destroyed where its scope ends.
* *Cleanups*: on every way through the generated code each value is destroyed
  once or handed on.
* *Futures*: resolved at most once; a resolved status implies a value; all
  parties get that value; nobody waits for ever after the resolution; mutexes
  are released by who holds them.
* *Reference counting*: the count equals the references; memory outlives them;
  deinitialisers run once; what is unreachable is freed.

## Modules

    QueryEngine          <- MCQueryEngine, QueryEngineProofs
    LookupCache          <- MCLookupCache, LookupCacheProofs
    DependencyGraph      <- ConformanceResolver
    ConformanceResolver  <- MCConformanceResolver, ConformanceResolverProofs
    ConstraintSolver     <- MCConstraintSolver, ConstraintSolverProofs
    DefiniteInit         <- MCDefiniteInit, DefiniteInitProofs
    Cleanups             <- CleanupsProofs
    OneShotFuture        (abstract)  <== refined by AsyncFuture
    AsyncFuture          <- AsyncFutureProofs
    Refcount             <- RefcountProofs

`ConformanceResolver` is a composition: it extends `DependencyGraph`, whose
variables are the graph and an evaluation order in the making, with the
resolution that uses and changes them. The others meet through what one leaves
open for the other: the records that `ConformanceResolver` completes are the
`completed` that `QueryEngine` lets grow at any point of any body;
`ReplaceMember` of `LookupCache` is what completing an instantiation does to a
table; the deinit calls that `DefiniteInit` judges are those that `Cleanups`
emits for locals, there one per value and path; the retains and releases that
they end in are calls of `Refcount`.

Operators marked "Mutant" in a comment are plausible wrong versions of the
definition next to them; PROJECT.json says which property notices each. No
action uses them.

### QueryEngine

State: `stat` is `Query::Stat` of each query object (for a *simple* query,
which has no object, `"Done"` means that its key is in the generated map);
`recorded` is its `RevisionID`; `stack` is `QueryContext::QueryStack`, each
frame with the sub-queries its body may still request and whether it is about
to give up; `rev` and `completed` are the two pieces of compiler state that
refresh conditions read (`DeclContext::revision`, membership in
`CompletedRecordDecls`). `roots` is what the driver asks for in this run, one
of `Jobs`. `asOf`, `diagnosed` and `replies` are history.

A request is one of three actions, by the status the dispatch switch sees
after find-or-create and `refresh()`: `RequestSettled` (answered from the
object), `RequestCircular` (status Running: `diagnoseCircularDependency`),
`RequestIdle` (push, store Running or, with `ignoreCircularDependency`, Idle,
and enter the body). The generator has four dispatch schemes and `Kinds`
names them: strict, ignoring, simple, uncached.

A body is any sequence of requests to its `Deps`, each at most once, ended by
`FinishAndReturn(s)` or by one of the exits found in the repository:
`FinishAndContinue` (`finish();` before a tail query,
`PrepareGlobalVarInterfaceQuery`) and `ReturnUnfinished` (the tail query's
outcome after an early finish, or `return Err;` without `finish`). Another body
may `Invalidate` a query (`GetNeededAssociatedTypes`).

Where `return Err;` without `finish` is taken is a matter of *which* request
failed. `PrepareCallableInterfaceQuery` leaves in this way when
`VerifyConstraints` fails (SemaQueries.cpp:1946), two conformance queries when
`ResolveConformancesToProtocols` does (ConformanceChecker.cpp:4149, 4170):
`GivesUpOn` names these pairs, and a frame whose request for one of them is
answered with anything but Success has `givesUp` set (`Told`) and does nothing
but return (`Working`, `MayFinish`). The bodies of those two sub-queries report
no error of their own (`NeverFails`), so that they fail only where the dispatch
finds them Running. `GiveUpAssumption` says so.

Declarations are added and records completed at any point of any body.

### LookupCache

State: `table` (the one modelled name's entry of `namedDecls`), `revision`,
`imports` per context and `cache` per lookup query. The central fact is that
`makeDeclAvailable` writes the *primary* context's table and increases the
revision of the context it was *called on*; `Keepers` and `Bumped` are those
two halves. `Reached` is the propagation out of transparent contexts (source
files), which stops where `Accepts`, the duplicate check, says no.
`AddDecl`, `MakeDeclAvailable`, `ImportDecl`, `ReplaceMember` and `AddImport`
are the ways tables and imports change; `Lookup` runs the body of a query that
refresh() finds outdated. `FoundFirst` and `FoundAll` are
`MultiLevelLookupImpl` in its two modes.

A body runs in one step here: the interleaving of a body with changes is the
subject of `QueryEngine` (`CacheServesCurrent`), the relation of revisions to
tables is the subject of this module. Left out: what
imported modules import themselves, base classes, extensions, conformances, the
`LocalLookup` step (scoped names in functions), the prelude, lazily deserialised
tables and clang modules.

### DependencyGraph and ConformanceResolver

A node is something that must be found out: that a record is complete (the
record itself stands for its Complete node), the implementation of an
associated type or of one nested in it, or a marker (a stored type, a
conformance, a constraint, an extension). `program` says which facts depend on
which and which instantiations each resolution makes; it is chosen once.

`PrepareNameLookup(R)` is a call for contexts with the new records `R`: it
discovers their dependencies (`Discover`, which may fail half-way for a record
of `faulty`), adds them to the graph and begins an evaluation order.
`OrderNext` takes one vertex from the list of those without incoming edges;
the list and the order are one sequence, of which `taken` members are the
order. When the list is used up, `StartResolving` goes on or
`DiagnoseCircularDependency` leaves. `ResolveDependencyGraph` then looks at one
node after another: `SkipNode` (done), `SeeNewDependencies` (more incoming
edges than when the order was made: start over), `ResolveMarker`,
`ResolveAssociatedType`, `ResolveNestedType`, `FailCompletion`,
`CompleteShallow` and `ResolveRecord`. Any of these may instantiate templates,
whose records join the graph, at first shallowly: their layout is found when
their node comes up, which may show dependencies that restart the order. At
the end `ResolveAgain`, `Finish`, `FinishRejecting` or `FinishWithError`. What
an unsuccessful call leaves in the graph is there when the next one starts, as
in the code, where the resolver lives as long as the compiler.

Left out: which member implements which requirement (`ConformanceCheckerImpl`),
and calls of `PrepareNameLookup` from within the resolution.

### ConstraintSolver

A system is what the solver sees of an expression: connected components of type
variables, the bindings inferred for each variable with their scores, some only
once others are bound (`given`), variables that choose an overload, direct
bindings, combinations that violate a constraint (`nogoods`) and bindings that
simplification deduces (`implied`). `core` is what scopes save and restore: the
assignment, the log of changes, the score, `BestScore` (`Infinity`, no number,
before there is a solution) and the number of bound variables. `scopes` is the chain of `SolverScope`s, each a note of what
to put back; `worklist` is the stack of steps, and a `bind` step remembers its
scope and the bindings it has not tried.

`Solve` opens the outermost scope and binds direct bindings;
`ExecuteSplitter` and `ResumeSplitter` handle one component after another and
merge their solutions; `ExecuteFind` pushes a bind step for each unbound variable or
records a solution; `ResumeBind` leaves the scope of the last guess and makes
the next one, which may be worse than the best solution, violate a constraint
or be followed. A failed solve is followed by a second one with
`stop = TRUE`, which ends at the first failure with its scopes open so that
the diagnostics can look at them.

### DefiniteInit

A function is its blocks' successors, instructions (alloca, initialise,
assign, move, use, deinit of a variable), arguments, the borrowed (`lent`) and
the `let` ones among its variables, and the variables that are declared where a
block begins. `Scoped` is what the IL generator guarantees of them: a variable
is declared before it is touched and not stored to before its first
declaration, and whatever leaves its scope deinitialises it: the end of
an inner scope, of a turn of a loop, and a return, which leaves only what was
lent. An owned argument has its deinit like a local (ILGenPass.cpp:1698).

`Solve(b)` is one turn of the loop of `solveDataFlowProblem`, which takes an
arbitrary block from `WorkList`, an ordered set of pointers; `mustIn` ...
`mayOut` are its bit vectors. When the list is empty the second pass is a matter
of definitions: `State` is `getInitializationState`, `BadUse` what is diagnosed
and `Accepted` that nothing was. `SilentUse` is what `verifyMemoryUse` finds and
says nothing about: a field is reached through a load of its struct, which must be
initialised at least in part, unless the access is an assignment of the field
that is `Whitelisted`; the use of the field itself has an operand without a
declaration, and the function returns (DefinitiveInitializationPass.cpp:780).
`MarksAt`, `MarkedBefore`, `Tagged` and `IsInit` are what becomes of deinit calls
and assignments. The pass marks the operand of a deinit call, which for a `let`
is a cast made for that call (Cleanup.cpp:43): no store knows of it, so
`Tagged` holds of no `let`, and the deinit of a conditionally initialised one
tests a flag that nobody sets.

`Start` begins one execution of an accepted function: `Execute` runs one
instruction and keeps the set of leaves that hold a value (`live`), the flags
that IR generation allocates for tagged variables (`flag`) and, as history, what
was deinitialised and not stored to since (`stale`); `Branch` chooses any
successor.

Left out: unsafe code and loads that nobody uses, which are not looked at; `self`
in initialisers; candidates for the return slot; variables that a move creates
(`isInitMove`); types without a deinitialiser; functions that end in
`unreachable`. The check of
DefinitiveInitializationPass.cpp:648 asks whether the type of an alloca, a
reference, is a record, and does not fire. The borrow checker poses the same kind of
problem; it is not modelled.

### Cleanups

The generator's view and the machine's view of one function, in step: `open` is
the stack of constructs the generator has entered, each with the depth the
cleanup stack had then (`CleanupScope`); `stack` is
`CleanupStack` with its `Ignored` flags; `term` is the terminator of the block
at the insertion point. `run` says where one execution is: at the insertion
point, waiting in a block that the generator reaches later (`"else"`,
`"merge"`, `"continue"`, `"lpad"`), or out of the function. `alive` is what
this execution has made and not destroyed or handed on, `twice` what it destroyed
in vain. The text of the function is chosen as it is read, so that a behaviour is
a function with one execution of it, and the reachable states cover them all.

Statements are `BeginExpr`/`EndDiscard`/`EndDeclare`/`EndLeave` (expression
statements, local variables, return and throw), `ReturnVoid`, `Jump` (break
and continue), `BeginBranch`, `Condition`, `EndIf`, `BeginElse`, `EndElse`,
`EndWhile`, `BeginDo`, `EndDo`, `EndCatch`, `EndScope`, `EndFunction`; calls
nest inside expressions (`BeginCall`, `CallReturns`, `CallThrows`). A call may be
given one temporary or local, whose cleanup `eraseAllCleanups` marks ignored.

`Generous` names five constructs whose cleanups go wrong in the code; they are
included when it contains them, and excluded by guards otherwise:

* `"jump"`: break or continue with a live local of the loop body. Its cleanup
  is emitted by the jump and, as `visitCompoundStmt` recognises only a `RetInst`
  (ILGenPass.cpp:3047), again at the end of the scope.
* `"throw"`: a throw statement in a function that owns something, for the same
  reason.
* `"doReturn"`: a return directly inside a do statement: `visitDoStmt` emits the
  cleanups of its body whatever terminator the block has (ILGenPass.cpp:7376).
* `"branchMove"`: a value older than a branch that is moved on it: ignoring the
  cleanup (ILGenPass.cpp:2414) ignores it in all code that follows, the other
  branch and what comes after included, and the value leaks there.
* `"rethrow"`: an error that no catch block wants, without an outer do
  statement, leaves without cleanups (ILGenPass.cpp:7519).

A declaration has a value here. One without makes two allocas, each with its
cleanup (ILGenPass.cpp:3406-3476); the first is never stored to, and definite
initialisation removes its deinit.

### AsyncFuture and OneShotFuture

`OneShotFuture` is what a future promises: one producer's value, delivered to
each party once, after the resolution. `AsyncFuture` has a program counter per
thread and takes one step per access to a shared field or pthread call:
`Future.get` and `wait` on waiters, `Future.resolve` on resolvers with
`Promise.resolve` inlined into its load and two stores, and `await` as
`EmitCoroutineAwait` lowers it on coroutines. `owner` and `asleep` are the
mutex and the waiters of each condition. `pthread_cond_wait` may return
spuriously. Unlocking a mutex that another thread holds is undefined by POSIX;
`Unlock` allows both what glibc does (the mutex is free) and what an
error-checking implementation does (nothing). A resolver that resumes a
coroutine runs it on its own thread: it goes on when the coroutine is done.

Plain fields are read and written atomically and in program order (sequential
consistency). The code has data races on `waitCondition`, `handle` and, for
two resolvers, `value`; an implementation may do worse than the model there,
so what the violation runs show happens already without weak memory, and what
the passing runs show relies on the status being a sequentially consistent
atomic.

### Refcount

One object, the threads' references to it (`handles`), and the functions
`_cdot_AtomicRetain`/`Release` (`scheme = "object"`: deinitialise at count one,
then decrement, then free) and the box and lambda variants (`scheme = "box"`:
decrement, re-read, deinitialise at zero, free). The getter and the setter of
`strongRefcount` are one atomic operation each, so `strongRetain()` and
`strongRelease()` are a load step and a store step. A class's deinitialiser may
copy `self` and release the copies (`copies`, `nested`): that happens while
the count is still one. `Serialised` restricts the program to one thread inside
these functions at a time: it is the assumption under which they are correct,
and `RefcountRace` shows that it is needed. Counts are `% Word`.


## What the runs check

Every instance is explored exhaustively.

| run | instance | shows |
|---|---|---|
| `Queries` | 11 query objects in two jobs: a function whose constraints name it again, with a body that gives up and both refresh conditions; a global variable of type `auto`, with an early finish, an `ignoring` lookup and an invalidated query; 2 revisions, depth 6 | no status left behind but by a body that gave up on a cycle (`RunningIsExecuting`), no false cycle (`GenuineCycles`), recursion is cut (`NoReentry`), `ConsistentAnswers`, no lookup older than the last declaration (`CacheServesCurrent`) |
| `QueryLeak` * | the same | a query says Running that nobody executes: `StillExecuting` fails |
| `Lookup` | a module declared twice, a file with a template instance, an imported module, 2 declarations, revisions up to 2 | `DirectCurrent`, `InnermostCurrent`, `OverloadsOnly` |
| `Resolver` | a struct and two instantiations with markers, associated types and a nested one, in four families of programs | `DependenciesFirst`, `OrderRespectsEdges`, `OffendingPairExists`, `CyclesFound`, `CompleteTogether`, `NothingForgotten`, and `PrepareReturns` under fairness |
| `Solver` | 3 type variables and 3 types in one or two components | `ScopesExact`, `SolutionSound`, `LowestScore`, `FailureReal`, and `SolveReturns` under fairness |
| `DefiniteInit` | 4 blocks in five shapes (branch, dead block, loop, loop with an exit from its body, inner scope); a local, a `let`, an owned and a borrowed argument, a variable of the loop's body, one of an inner scope, a struct of two fields | `MeetOverPaths`, `UseChecked`, `ReleasedExact`, and `FlowEnds` under fairness |
| `DefiniteInitEntry` * | the same | `AnyUseChecked` fails where the entry block moves an argument |
| `Cleanups` | functions of up to 3 values and constructs nested up to 7 deep, without those of `Generous` | `DestroyedOnce`, `NothingLeft`, `LoopBalanced` |
| `FutureSingle` | 1 waiter, 1 resolver, 1 coroutine, 2 spurious wake-ups | refinement of `OneShotFuture` (`OneShot`), `ResolvedHasValue`, `NeverUnreachable`, `LockReleased`, and three liveness properties |
| `FutureLostWakeup` * | 1 waiter, 1 resolver | a wake-up is lost: `GetReturns` fails |
| `RefcountHandOver` | 3 threads with up to 2 references each, both schemes, serialised, `Word` 16 | `CountExact`, `NoDangling`, `DeinitOnce`, and `Reclaimed` under fairness |
| `RefcountRace` * | 2 threads, not serialised | a release that overlaps a retain loses the increment; later a reference that is held is released at count zero (`NeverReleasedAtZero`) |

Runs marked * are expected to violate their one property; PROJECT.json quotes
the line of the repository that states it.

### Disagreements found

`FutureLostWakeup` is the counterpart of `AsleepIsWoken`: what was complete
before `resolve()` began is woken, what overlaps with it may not be. The same
holds of coroutines (`SuspendedIsResumed`): one that stores its handle while
`resolve()` looks for one is not resumed. `DefiniteInitEntry` is the
counterpart of `UseChecked`: the data flow of the entry block ignores what it
moves. `RefcountRace` is that of `NoDangling`, without the assumption that calls
take turns. `QueryLeak` is the counterpart of `RunningIsExecuting`: type
checking `f` asks for `VerifyConstraints(f)`, this for
`PrepareCallableInterface(f)`, this again for `VerifyConstraints(f)`, which is
Running; the interface returns the error without `finish` and says Running for
ever, so that every later request for it is diagnosed as circular. More follows from the modules without a run of its own. Each item is a
state or guard of a module that can be followed to the line named.

Runtime:

* the second thread that calls `get()` on an unresolved future finds
  `waitCondition` set (Async.dot:172), does not wait, and reaches
  `unreachable!`: `NeverUnreachable` fails as soon as `Waiter` has two members;
* two resolvers may both load Pending (Async.dot:128): the second value
  replaces the first and "promise was resolved multiple times!" is not
  reported;
* `Condition.notifyAll()` unlocks the mutex (Thread.dot:248) and `resolve()`
  unlocks it again (Async.dot:214), when the woken waiter may hold it.

Queries and lookup:

* `PrepareGlobalVarInterface` (SemaQueries.cpp:1522) answers Error to its first
  caller and Success to later ones when the type checking it hands over to
  fails, so that `ConsistentAnswers` excludes bodies that finish early;
* a find-first or multi-level lookup is refreshed only when the revision of its
  own context changed, not that of an outer or imported one, although
  Queries.tg:1623 says "Refresh when declarations are added or removed.":
  `InnermostCurrent` claims less;
* a declaration added through one opening of a namespace, or one redeclaration
  of a module, is visible through the others, whose `revision` does not change
  (DeclBase.cpp:889), although DeclBase.h:931 says that it does. This is why
  `DirectCurrent` speaks of contexts whose table nobody shares.

Conformance resolver:

* a nested associated type whose target is not known yet is put off only if the
  target depends on something; otherwise it is left behind unresolved, and
  `verifyNode`'s "unfinished node" (ConformanceChecker.cpp:3713) would say so.
  `DependenciesFirst` and `CompleteTogether` exclude nested types;
* the first rejected record ends the loop over pending records with `return
  false` (ConformanceChecker.cpp:3805), and the records after it are neither
  completed nor pending any more: hence the condition on `invalid` in
  `NothingForgotten`;
* whether `FindDependencies` failed for an instantiation is not looked at
  (TemplateInstantiator.cpp:3359), so that `DependenciesFirst` speaks of records
  that are not `broken`; and an instantiation leaves the list of shallow ones
  before completing it can fail (TemplateInstantiator.cpp:3380), so that a
  second call takes it for complete.

Constraint solver:

* "independent components that are solved seperately" (ConstraintStep.h:107):
  but the best score and the number of bound variables are those of the whole
  system. Where direct bindings decide one component, the guesses for another can
  look worse than the best solution and be given up.
  `FailureReal` speaks of systems for which that cannot be the reason;
* `solve` returns with its outermost scope open when there are no type variables
  (ConstraintSystem.cpp:1762).

Definite initialisation. `SilentUse`, `Exactly` and `stale` exclude these from
the properties:

* a field may be read or moved while it holds no value, if the struct is
  initialised in part or its other fields may be: `verifyMemoryUse` finds the
  operand empty and returns, as it has no declaration (`SilentUse`);
* the flag of a variable is not cleared by the deinit it guards, nor where the
  declaration is entered again (IRGen.cpp:3241): in a loop, a turn that stores
  nothing destroys what an earlier turn destroyed already (`stale`);
* a `let` that is initialised on some paths is never destroyed: its deinit tests
  a flag that belongs to the cast (Cleanup.cpp:43);
* a struct initialised field by field inside a branch has its flag never set;
* a variable that is initialised on some paths and assigned later is initialised
  again, without destroying the old value (`InitAssigns`);
* an owned argument that the entry block moves is destroyed again at the return;
* false alarms: a field assigned twice in one block while another field may be
  uninitialised, and any field assigned in a block that nothing reaches.

Cleanups:

* the five constructs of `Generous`, above. A value destroyed twice or left
  behind follows with each of them in `Generous`.

### Why the bounds are enough

*Queries*: what a status can go wrong about is a pair of requests for one
object, one of them inside the other; the instance contains requests from the
driver, from below and from the object itself, each dispatch scheme, each
refresh condition, each kind of exit, and a depth at which a guarded query would
meet itself twice. The two jobs share nothing and are explored apart. Two revisions suffice for a declaration before, during and after a body.
*Lookup*: one name, because entries of different names never touch; two
declarations that may be overloads or not, because the duplicate check
distinguishes no more; revisions are compared with `<` only.
*Resolver*: two instantiations, so that one can be made while another is
completed; a marker and an associated type on each side of an edge, and a
nested type with its target in another record; the families let every field
dependency, type dependency, both, or a dependency that only a layout shows,
be present or absent. *Solver*: three variables are a component that is split
off and one in which a guess constrains another variable; three types give each
variable a best, a second and a wrong binding. *DefiniteInit*: the shapes have a
join, a back edge, a path round the body, a way out of it, a scope that ends
before the function does and a block that cannot be reached, with
instructions at every place; a struct of two fields is the smallest that can be
partly initialised. *Cleanups*: with three values one can be older than a
construct, one be made in it and one after it; the proofs go beyond. *Futures*:
each kind of thread meets each other kind; the proofs have any number of
coroutines. *Refcount*: three threads, so that a reference can be handed on while
a third party holds one; `Word` is 16 so that a wrapped count is far away from
a real one.

Deadlock is checked in the query runs, whose driver can always ask again. It is
not in the others, which may end: futures when every thread is done (or
aborted, or asleep), the object when it is reclaimed, lookups at
`MaxRevision`, the resolver when every record is found, the solver and the
execution of a function when they return.

## Fairness

* `QueryEngine` has no fairness: its properties are about what is never done.
* `ConformanceResolver.Spec`: weak fairness of `ResolveDependencyGraph`, one
  call on one thread; not of `PrepareNameLookup`, which nobody has to call.
* `ConstraintSolver` and `DefiniteInit`: weak fairness of the next step of the
  solver and of one more turn of the worklist's loop; both are loops on one
  thread. Which block is next is not assumed to be fair.
* `AsyncFuture.FairSpec`: weak fairness of each thread's step: the operating
  system runs what can run. Spurious wake-ups are not fair, and acquiring a
  mutex is only weakly fair; no property needs more, since each mutex has at
  most two contenders of which one leaves for good.
* `Refcount.FairSpec`: weak fairness of a thread inside the runtime and of the
  releases a deinitialiser owes; strong fairness of the return of a
  deinitialiser, which is enabled whenever its copies are released: it may
  copy and release any number of times but not for ever.
* `Cleanups` has no fairness: an execution of a program need not end.

## What is proved

`QueryEngineProofs`, for every set of queries, dependency relation and bound:

* `TypeCorrect`.
* `NoReentryHolds`, with bodies that give up, early finishes and invalidations
  of other queries. Inductive strengthening: a guarded query on the stack is
  Running below the top-most occurrence unless it already finished early, and it
  is on the stack once; the step that could break it is `RequestIdle`, whose
  guard excludes what is on the stack.
* `RunningIsExecutingHolds` and `GenuineCyclesHolds`, under the assumptions of
  the module only, bodies that give up included. They need each other: a body
  gives up on a query that was found Running, and unless that one is on the stack
  nothing says that there is a cycle. The invariant (`StatusSound`) is the
  conjunction of five parts: each frame's query is a dependency of the frame
  below (`StackIsPath`), so that what is on the stack and asked for again reaches
  itself; a query that says Running is on the stack or gave up on a cycle
  through it (`RunningIsExecuting`); only strict queries say Running
  (`RunningStrict`); a frame that gives up is on a cycle (`GivesUpOnCycle`); and
  the sub-queries of `NeverFails` keep no status that stands for an error
  (`NeverFailing`), so that they fail only when found Running. Reachability is
  expressed as membership in every closed set, which needs no recursion and no
  induction.
* `ConsistentAnswersHolds`: the invariant ties every reply of a memoised query
  to its final status, unless the query was diagnosed.
* `AcyclicLookupsServeCurrent`: a lookup that does not depend on itself is
  answered from the cache only with a result whose body began after the last
  declaration was added, whatever cycles, leaks, early finishes and
  invalidations the other queries have. The invariant (`RevisionSound`) bounds
  the recorded revision from above by the start of every body of the query that
  is still on the stack and by the start of the body whose result is kept. The
  step that could break it is the refresh in `RequestIdle`, which raises the
  recorded revision under a body that is still running; `StackIsPath` excludes
  such a body when the query cannot reach itself.
  `CacheServesCurrentHolds` is the property of the run under `LookupsAcyclic`:
  no lookup depends on itself. It holds of `DirectLookup` in the run; that
  `LookupSingle`, whose body leads back to it, is served current all the same is
  left to TLC: each way that leads back to it has a strict query on it, which is
  on the stack already and cuts the recursion before its body is entered again.
  Some such hypothesis is needed:
  with a strict lookup `L` and a query `M` that depend on each other, `L`
  starts, a declaration is added, `M` asks for `L`, the refresh records the new
  revision and runs a second body of `L`; the first body returns last and its
  older result is then served as current. Nothing in the query engine rules the
  cycle out; only the bodies can.

`LookupCacheProofs`, for every tree of contexts:

* `DirectCurrentHolds` and `InnermostCurrentHolds`. The invariant is that a
  cached result whose revision is current *fits* the table; the lemma behind
  every case is that each write that changes the table of a context nobody
  shares also increases that context's revision.
* `OverloadsOnlyHolds`. The property compares cardinalities; the invariant
  (`Tables`) says of every table, whatever the names in it, that it is empty, has
  one member or has overloads only, and `PublishUnmixed` that what
  `Accepts` lets in keeps it so.

`ConformanceResolverProofs`, for every set of programs over finitely many nodes:

* `TypeCorrect`, `OrderRespectsEdgesHolds`, `OffendingPairExistsHolds`,
  `CyclesFoundHolds`. While the order is made, what is in it waits only for what
  was taken before, and what waits for nothing else is in it (`OrderInv`).
  When nothing is waiting the order either has every vertex, and then a cycle
  would have a vertex of least position, or the vertices it lacks wait for each
  other.
* `DependenciesFirstHolds`. The graph is not the whole truth: nodes that are
  done lose their edges, instantiations bring new ones, layouts come late.
  `KnownInv` says that a dependency the program has is an edge, or one of its
  ends is settled; `LateInv` that what a layout mentions is not there before the
  layout is; `ResolveInv` that the edges whose numbers were noted, when the order
  was finished, are among those there are now. So when a node has no more
  incoming edges than were noted, they are the same, and lead from nodes
  before it. A diagnosed cycle destroys edges, and `KnownInv` with them, but
  the cycle stays in the graph and no later call resolves anything
  (`Cyclic /\ phase # "resolving"`).
* `CompleteTogetherHolds`, `NothingForgottenHolds`: an order as long as the graph
  is large lists every vertex, hence at the end all of them are done.

  The assumptions on programs are those of `ResolverAssumption`: an edge leads to
  a node of the record it was found for, markers belong to one record, and what an
  instantiation mentions was found or is instantiated with it.

`DefiniteInitProofs`, for every set of functions with any control flow graph
whose variables have scopes (`FunctionAssumption`), nested or repeated in any way:

* `TypeCorrect` and `UseCheckedHolds`. `FlowInv` says that a block off the
  worklist satisfies its equations, which is what makes the order of the
  worklist irrelevant; `RunInv` carries the solution along an execution: every
  leaf that the data flow counts as initialised where the execution is holds a
  value. The joint of the two is that a solution is below the union over all
  predecessors, so it is preserved by `Branch` whichever edge is taken. The pass
  knows of no scopes: a variable that was deinitialised still counts as
  initialised. It is harmless because nothing touches it before it is declared
  again, and because no path that stores to it leads to its first declaration
  (`FirstDeclared`, from `Scoped`).
* `MeetOverPathsHolds`. The blocks that paths lead to are the smallest set
  closed under the edges that pass, so that no induction over paths is
  needed: `PathInv` says at every moment that a bit the pass cleared is due to
  such a path; once the worklist is empty, the blocks whose bit is clear are
  a closed set themselves, and hold all that paths lead to.
* `ReleasedExactHolds`. For the variables of `Exactly` the analysis is exact on
  both sides while they are declared (`ExactInv`): what must be initialised holds a
  value, what holds one may be initialised, and the flag of a variable that
  has one says which, unless it was left set by a deinit of an earlier turn and
  nothing was stored since (`stale`). Where it is not declared a variable
  holds nothing, because what leaves its scope deinitialises it.

`ConstraintSolverProofs`, for every set of systems over finitely many variables
and any types, under `SolverAssumption`:

* `TypeCorrect` and `ScopesExactHolds`. What a scope puts back is right because
  of all the scopes below it, so the invariant (`Chain`) speaks of every level:
  the log of changes is what is bound, without repetitions (`LogExact`); the
  scopes note ascending lengths of it (`ScopesFit`); the open scopes but the
  first belong to bind steps on the worklist, in the same order, whose variable is
  bound in theirs at the cost of its guess (`GuessesFit`); the variable of a step
  that is yet to run is not bound at the level where it will run (`Clear`); and
  the bindings of every level satisfy the constraints (`Sound`). The level at
  which a step runs is a matter of the open steps below it (`At`), so that
  leaving a scope, opening one and pushing steps are three lemmas about any
  state (`GiveUp`, `Guessing`, `Push`), from which the actions are put together.
  The score of a guess is the one inferred for it, or that of the last resort: Any
  may be tried last although it was inferred under facts that do not hold.
* `SolutionSoundHolds`. That every constraint holds, although only those of
  changed variables are looked at, is `Sound` at the level where a solution is
  found. `SearchInv` says which component the steps on the worklist belong to and
  that what is kept of the others are solutions of theirs; since constraints do
  not leave a component, what is put together satisfies them all. The recursive
  functions of `Merged` and of the sums are shown to exist by the least number for
  which they would not.
* `LowestScoreHolds` and `FailureRealHolds`. What a search has not found is either
  served or still hoped for. A choice of bindings that satisfies the constraints
  is *served* (`Served`) once the cache has a solution that costs no more; there
  is *hope* for it (`Hope`) while a step on the worklist is to try its type
  (`Pending`) at a level whose bindings agree with it and have cost no more
  (`OnTrack`). `ChoiceInv` says that every choice is one or the other
  (`Covers`). A step that leaves a scope, or is taken from the worklist,
  can lose only the hope it was itself (`CoversLeft`, `CoversDropped`), so that
  it has to be shown of that step alone that it hands the hope on:
  to the steps for the unbound variables, to its next binding, or to the search
  in the new scope, since a guess the choice makes too meets no conflict. What
  is given up as worse than `BestScore` is served, because the best scores of
  all levels are those of solutions (`BestsFit`); that fails only where direct bindings
  decide the component, whose score nothing is below. For `FailureReal` served means that
  there is a solution at all, and `Simple`, which is what the property assumes of
  a system, is what makes a guess that counts as valid one that binds the component
  (`ValidSteps`). Components are added up by `Charges`: the cost of a choice is that of
  its parts.

`CleanupsProofs`, for any number of values and nesting, under `Generous = {}`:

* `TypeCorrect`, `DestroyedOnceHolds`, `NothingLeftHolds`, `LoopBalancedHolds`.
  The invariant: what is alive is what the cleanup stack says at the place where
  the execution is (`AliveInv`), which for an execution that waits for a block
  that is generated later is the stack up to the depth that the enclosing
  construct remembers; the depths ascend (`OpenInv`), a block that has a
  terminator is not where the execution is (`TermInv`), and a construct whose
  branches are still generated protects the stack below it (`Kept`).

`AsyncFutureProofs`, for any sets of threads:

* `TypeCorrect` and `ResolvedHasValueHolds`, with no assumption on the number
  of threads: the value is stored before the status by whoever resolves.
* `NeverUnreachableHolds`, `LockReleasedHolds` and `OneShotHolds` under
  `OneEach` (at most one waiter and at most one resolver, any number of
  coroutines): with two waiters the first fails, with two resolvers the
  last, as described above. The invariant records, for each control point of the
  resolver, whether the condition it matched is published and who may hold its
  mutex; `OneShotHolds` is the refinement: every step is a `Resolve`, a
  `Deliver` or a stutter.

`RefcountProofs`, for any number of threads and references that fit a word,
under `Serialised = TRUE`:

* `TypeCorrect`, `NoDanglingHolds`, `DeinitOnceHolds`, `CountExactHolds`. At
  most one thread is inside the runtime (`Others`); for it `Busy` says, control
  point by control point, how the count differs from the number of references
  and that a loaded count is still the stored one; when nobody is, the count is
  the number of references. The references are a set of pairs, so that counting
  them is the cardinality of a set with one member more or less.

Every proof is first-order per action with one temporal step at the end, and no
theorem depends on more than the `ASSUME` of its module and the hypothesis in
its statement.

Model-checked only: everything about liveness (TLAPS does not handle it), and
of course the violations. `CacheServesCurrent` is proved for lookups that do not
depend on themselves; for the circular one of the run it is model-checked.

## Not modelled

The lexer, the parser, type checking rules, constant evaluation, code
generation and the file formats: their states are programs and texts, and
their errors are wrong translations rather than wrong orders of events. Weak
reference counts: IR generation has the instructions but nothing reachable
emits them. Incremental compilation: dead code, and so are the worklist of
`PassManager::execute` (the passes run one by one on each function), and `clone`
and the connected components of the dependency graph. Weak memory:
see `AsyncFuture`. Termination of query bodies on infinite families of queries
(recursive template instantiation), which the compiler bounds by a depth limit
elsewhere. Threads of the standard library, diagnostics, and the collections:
see the plan and the notes of the components in PROJECT.json.

Inside modelled components: calls of `PrepareNameLookup` from within a
resolution; the parts of `ILGenPass` that concern if-let bindings, conditional
expressions and arguments that are forwarded before a later one throws; the
borrow checker; base classes in lookup and in the solver.

## Plan

1. done: `QueryEngine`, `LookupCache`, `AsyncFuture` with `OneShotFuture`,
   `Refcount`, `DependencyGraph`, `ConformanceResolver`, `DefiniteInit`,
   `Cleanups`, `ConstraintSolver`, each with proofs.
2. done: proofs of every safety invariant of these.
3. `Cleanups`: conditional expressions and if-let; a value's cleanup moved into
   the branch.
4. `ThreadStart`: `Thread.start`, `runImpl`, `join` over an abstract count; is
   self alive until `run` returns, and is `running` right afterwards?
5. A composition of `QueryEngine` with `LookupCache` in which lookup bodies take
   several steps while tables change, for `instantiateTemplateMembers`.
