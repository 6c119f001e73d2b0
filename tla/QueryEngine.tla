---------------------------- MODULE QueryEngine ----------------------------
(***************************************************************************)
(* The demand-driven query engine of the compiler.  Every phase (lookup,   *)
(* interface preparation, type checking, IL generation) is a memoised      *)
(* query; the dispatch code generated for each of them finds the cached    *)
(* query object, looks at its status, and runs its body when it has to.    *)
(* The body may ask for further queries, so the engine is a recursive      *)
(* evaluator whose C++ call stack is mirrored by QueryContext::QueryStack. *)
(*                                                                         *)
(* What a particular body computes is left out: a body is any sequence of  *)
(* requests for queries it depends on, each at most once per run, that     *)
(* ends in one of the ways the bodies of the repository end.               *)
(***************************************************************************)
EXTENDS Integers, Sequences

CONSTANTS
    Query,          \* the query objects of one compilation
    Kind,           \* [Query -> Kinds], the dispatch scheme of each query
    Refresh,        \* [Query -> Refreshes], the refreshCondition of each query
    Deps,           \* [Query -> SUBSET Query], what a body may ask for
    Jobs,           \* sets of queries that one run of the driver may ask for
    CanBeDependent, \* queries declared with canBeDependent
    EarlyFinish,    \* bodies that call finish() and then go on
    GivesUpOn,      \* [Query -> SUBSET Query], what makes a body `return Err`
                    \* without finish() when it fails
    NeverFails,     \* bodies that end in Done or DoneWithError only
    Invalidated,    \* queries on which another body calls invalidate()
    MaxRevision,    \* bound on declarations added during a run
    MaxDepth        \* bound on the depth of the C++ call stack

Kinds     == {"strict", "ignoring", "simple", "uncached"}
Refreshes == {"never", "revision", "resolving"}
Final     == {"Done", "DoneWithError", "Dependent", "Aborted"}
Status    == {"Idle", "Running"} \union Final
Outcomes  == {"Success", "Error", "Dependent"}

ASSUME QueryAssumption ==
    /\ Kind \in [Query -> Kinds]
    /\ Refresh \in [Query -> Refreshes]
    /\ Deps \in [Query -> SUBSET Query]
    /\ Jobs \subseteq SUBSET Query
    /\ EarlyFinish \subseteq Query
    /\ GivesUpOn \in [Query -> SUBSET Query]
    /\ NeverFails \subseteq Query
    /\ Invalidated \subseteq Query
    /\ MaxRevision \in Nat
    /\ MaxDepth \in Nat
    /\ \A q \in Query :
          Kind[q] \in {"simple", "uncached"} =>
             Refresh[q] = "never" /\ q \notin EarlyFinish \union Invalidated

\* The bodies that give up do so on VerifyConstraints and on
\* ResolveConformancesToProtocols, whose bodies report no error: a request
\* for them fails only when they are found Running.
ASSUME GiveUpAssumption ==
    /\ \A q \in Query : GivesUpOn[q] \subseteq Deps[q] \intersect NeverFails
    /\ \A q \in NeverFails : GivesUpOn[q] = {} /\ q \notin EarlyFinish

\* Queries whose object is never reset to Idle while their body runs.
Guarded(q) ==
    /\ Kind[q] = "strict"
    /\ Refresh[q] = "never"
    /\ q \notin Invalidated

\* Queries whose object is filled in once, when their body returns.
Memoised == {q \in Query : Guarded(q) /\ GivesUpOn[q] = {}} \ EarlyFinish

VARIABLES
    roots,      \* what the driver asks for in this run
    stat,       \* Query::Stat; for a simple query "Done" means "in the map"
    recorded,   \* RevisionID of the query object, -1 before it is created
    asOf,       \* history: revision at which the body behind Result started
    stack,      \* QueryContext::QueryStack with the locals of each body
    rev,        \* DeclContext::revision of the context looked up in
    completed,  \* the record is in CompletedRecordDecls
    diagnosed,  \* queries for which a circular dependency was reported
    replies     \* history: what dispatch answered for the memoised queries

vars == <<roots, stat, recorded, asOf, stack, rev, completed, diagnosed,
          replies>>

\* A frame gives up once a request it depends on has failed.
Frame == [query : Query, todo : SUBSET Query, from : Nat, givesUp : BOOLEAN]

TypeOK ==
    /\ roots \subseteq Query
    /\ stat \in [Query -> Status]
    /\ recorded \in [Query -> Nat \union {-1}]
    /\ asOf \in [Query -> Nat \union {-1}]
    /\ stack \in Seq(Frame)
    /\ rev \in Nat
    /\ completed \in BOOLEAN
    /\ diagnosed \subseteq Query
    /\ replies \subseteq Query \X Outcomes

Init ==
    /\ roots \in Jobs
    /\ stat = [q \in Query |-> "Idle"]
    /\ recorded = [q \in Query |-> -1]
    /\ asOf = [q \in Query |-> -1]
    /\ stack = <<>>
    /\ rev = 0
    /\ completed = FALSE
    /\ diagnosed = {}
    /\ replies = {}

-----------------------------------------------------------------------------
(* Dispatch: the QueryContext method generated for a query.                *)

Depth     == Len(stack)
Top       == stack[Depth]
Executing == {stack[i].query : i \in 1..Depth}

\* The driver, or the body on top, goes on.
Working == stack # <<>> => ~Top.givesUp

\* finish(Status) and finish(QueryResult) tie a status to an outcome.
Outcome(s) ==
    CASE s \in {"Done", "DoneWithError"} -> "Success"
      [] s = "Dependent"                 -> "Dependent"
      [] OTHER                           -> "Error"

\* The driver asks for roots; a body for what it has not asked for yet.
MayRequest(q) ==
    /\ Working
    /\ IF stack = <<>> THEN q \in roots ELSE q \in Top.todo

\* The frames below the callee once the request has been made.
Spent(q) ==
    IF stack = <<>> THEN stack
    ELSE [stack EXCEPT ![Depth].todo = @ \ {q}]

\* The frames s after the topmost has been told the outcome o of q.
Told(s, q, o) ==
    IF s # <<>> /\ o # "Success" /\ q \in GivesUpOn[s[Len(s)].query]
    THEN [s EXCEPT ![Len(s)].givesUp = TRUE]
    ELSE s

\* refresh(): an outdated query goes back to Idle, running or not.
RefreshDue(q) ==
    /\ stat[q] # "Idle"
    /\ \/ Refresh[q] = "revision" /\ recorded[q] < rev
       \/ Refresh[q] = "resolving" /\ ~completed

\* The status the dispatch switch sees, after find-or-create and refresh().
Seen(q) ==
    IF Kind[q] = "uncached" \/ RefreshDue(q) THEN "Idle" ELSE stat[q]

\* Lookups take note of the revision, the other queries have no RevisionID.
Noted(q) == IF Refresh[q] = "revision" THEN rev ELSE 0

\* The constructor and onRefresh both capture the revision.
Recorded(q) ==
    [recorded EXCEPT ![q] = IF @ = -1 \/ RefreshDue(q) THEN Noted(q) ELSE @]

\* Mutant: the generated code never stores Running.
StatusOnEntryIdle(q) == stat[q]

\* The status a query has while its body runs.
StatusOnEntry(q) ==
    CASE Kind[q] = "strict"   -> "Running"
      [] Kind[q] = "ignoring" -> "Idle"
      [] OTHER                -> stat[q]

Reply(q, o) ==
    replies' = IF q \in Memoised THEN replies \union {<<q, o>>} ELSE replies

RequestSettled(q) ==
    /\ MayRequest(q)
    /\ Seen(q) \in Final
    /\ stack' = Told(Spent(q), q, Outcome(Seen(q)))
    /\ Reply(q, Outcome(Seen(q)))
    /\ recorded' = Recorded(q)
    /\ UNCHANGED <<roots, stat, asOf, rev, completed, diagnosed>>

RequestCircular(q) ==
    /\ MayRequest(q)
    /\ Seen(q) = "Running"
    /\ stack' = Told(Spent(q), q, "Error")
    /\ diagnosed' = diagnosed \union {q}
    /\ Reply(q, "Error")
    /\ recorded' = Recorded(q)
    /\ UNCHANGED <<roots, stat, asOf, rev, completed>>

RequestIdle(q) ==
    /\ MayRequest(q)
    /\ Seen(q) = "Idle"
    /\ Depth < MaxDepth
    /\ stat' = [stat EXCEPT ![q] = StatusOnEntry(q)]
    /\ recorded' = Recorded(q)
    /\ stack' = Append(Spent(q), [query |-> q, todo |-> Deps[q],
                                  from |-> Noted(q), givesUp |-> FALSE])
    /\ UNCHANGED <<roots, asOf, rev, completed, diagnosed, replies>>

-----------------------------------------------------------------------------
(* Bodies.                                                                 *)

\* Mutants of the next definition: fail() forgets to store a status; every
\* finish() stores Done.
StatusAfterNoFail(q, s)     == IF s = "Aborted" THEN stat[q] ELSE s
StatusAfterAlwaysDone(q, s) == "Done"

\* The status a query object keeps after its body called finish(s).
StatusAfter(q, s) ==
    CASE Kind[q] = "uncached" -> stat[q]
      [] Kind[q] = "simple"   -> IF Outcome(s) = "Success" THEN "Done" ELSE stat[q]
      [] OTHER                -> s

\* ~ExecutingQuery.
Popped == SubSeq(stack, 1, Depth - 1)

\* finish(s) ties s to what a body can end in.
MayFinish(s) ==
    /\ stack # <<>> /\ ~Top.givesUp
    /\ s = "Dependent" => Top.query \in CanBeDependent
    /\ s \in {"Dependent", "Aborted"} => Top.query \notin NeverFails

\* Mutant: the revision is captured when the body ends, not when it begins.
FinishAndCapture(s) ==
    /\ MayFinish(s)
    /\ stat' = [stat EXCEPT ![Top.query] = StatusAfter(Top.query, s)]
    /\ asOf' = [asOf EXCEPT ![Top.query] =
                   IF Outcome(s) = "Success" THEN Top.from ELSE @]
    /\ recorded' = [recorded EXCEPT ![Top.query] = rev]
    /\ stack' = Told(Popped, Top.query, Outcome(s))
    /\ Reply(Top.query, Outcome(s))
    /\ UNCHANGED <<roots, rev, completed, diagnosed>>

FinishAndReturn(s) ==
    /\ MayFinish(s)
    /\ stat' = [stat EXCEPT ![Top.query] = StatusAfter(Top.query, s)]
    /\ asOf' = [asOf EXCEPT ![Top.query] =
                   IF Outcome(s) = "Success" THEN Top.from ELSE @]
    /\ stack' = Told(Popped, Top.query, Outcome(s))
    /\ Reply(Top.query, Outcome(s))
    /\ UNCHANGED <<roots, recorded, rev, completed, diagnosed>>

\* finish() before the last sub-query, to let the sub-query ask back.
FinishAndContinue ==
    /\ stack # <<>> /\ ~Top.givesUp
    /\ Top.query \in EarlyFinish
    /\ stat' = [stat EXCEPT ![Top.query] = "Done"]
    /\ asOf' = [asOf EXCEPT ![Top.query] = Top.from]
    /\ UNCHANGED <<roots, recorded, stack, rev, completed, diagnosed,
                   replies>>

\* `return Err;` instead of `return finish(Err);`, and after an early finish
\* `return QC.TypecheckDecl(D);`: the status stays what it was.
ReturnUnfinished(o) ==
    /\ stack # <<>>
    /\ \/ Top.givesUp /\ o = "Error"
       \/ Top.query \in EarlyFinish /\ stat[Top.query] = "Done"
    /\ stack' = Told(Popped, Top.query, o)
    /\ Reply(Top.query, o)
    /\ UNCHANGED <<roots, stat, recorded, asOf, rev, completed, diagnosed>>

\* Query::invalidate() on an existing query object.
Invalidate(q) ==
    /\ stack # <<>> /\ ~Top.givesUp
    /\ q \in Invalidated
    /\ recorded[q] # -1
    /\ stat' = [stat EXCEPT ![q] = "Idle"]
    /\ UNCHANGED <<roots, recorded, asOf, stack, rev, completed, diagnosed,
                   replies>>

-----------------------------------------------------------------------------
(* What bodies do to the state that refresh conditions read.               *)

AddDeclaration ==
    /\ Working
    /\ rev < MaxRevision
    /\ rev' = rev + 1
    /\ UNCHANGED <<roots, stat, recorded, asOf, stack, completed, diagnosed,
                   replies>>

CompleteRecord ==
    /\ Working
    /\ ~completed
    /\ completed' = TRUE
    /\ UNCHANGED <<roots, stat, recorded, asOf, stack, rev, diagnosed,
                   replies>>

Return ==
    \/ \E s \in Final : FinishAndReturn(s)
    \/ \E o \in {"Success", "Error"} : ReturnUnfinished(o)

Next ==
    \/ \E q \in Query : RequestSettled(q) \/ RequestCircular(q) \/ RequestIdle(q)
    \/ Return
    \/ FinishAndContinue
    \/ \E q \in Query : Invalidate(q)
    \/ AddDeclaration
    \/ CompleteRecord

Spec == Init /\ [][Next]_vars

-----------------------------------------------------------------------------
(* Properties.                                                             *)

\* q asks for itself, directly or not: q is in every set of queries that
\* holds what q may ask for and is closed under asking.
Holds(S, q) == Deps[q] \subseteq S /\ \A x \in S : Deps[x] \subseteq S
OnCycle(q)  == \A S \in SUBSET Query : Holds(S, q) => q \in S
Cyclic      == {q \in Query : OnCycle(q)}

\* A query object that says Running while its body is not on the query stack
\* depends on itself: its body gave up when something it needs, and that needs
\* it, was found Running. Nothing else leaves the status behind.
RunningIsExecuting ==
    \A q \in Query : stat[q] = "Running" =>
        q \in Executing \/ (GivesUpOn[q] # {} /\ q \in Cyclic)

\* "This query is still executing", the comment on Query::Running, without
\* exception.
StillExecuting == \A q \in Query : stat[q] = "Running" => q \in Executing

\* The body of a strict query that no refresh condition or invalidate() can
\* reset is never entered again while it is on the stack, whatever its
\* sub-queries ask for: the recursion of the evaluator is cut.
NoReentry ==
    \A i, j \in 1..Depth :
        stack[i].query = stack[j].query /\ Guarded(stack[i].query) => i = j

\* diagnoseCircularDependency() is called only for a query that can really
\* reach itself: no stale status and no error path produces the diagnostic.
GenuineCycles == diagnosed \subseteq Cyclic

\* Two callers of a memoised query are told different outcomes only if the
\* query was found to depend on itself.
ConsistentAnswers ==
    \A q \in Memoised : \A o1, o2 \in Outcomes :
        (<<q, o1>> \in replies /\ <<q, o2>> \in replies /\ o1 # o2)
            => q \in diagnosed

\* A lookup answered from the cache is answered with a result whose body
\* started after the last declaration was added ("Refresh when declarations
\* are added or removed"), whoever asks and whenever.
CacheServesCurrent ==
    \A q \in Query :
        Refresh[q] = "revision" /\ Outcome(Seen(q)) = "Success"
            => asOf[q] = rev
=============================================================================
