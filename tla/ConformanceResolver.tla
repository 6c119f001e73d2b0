------------------------ MODULE ConformanceResolver ------------------------
(***************************************************************************)
(* Sema's ConformanceResolver (ConformanceChecker.cpp): the records of the *)
(* contexts given to PrepareNameLookup, and the template instantiations    *)
(* made on the way, get a graph of the facts that must be known before     *)
(* other facts.  The graph is resolved in evaluation order while resolving *)
(* a node may add to it, which restarts the order.  What a call could not  *)
(* finish stays in the graph for the next call.                            *)
(*                                                                         *)
(* A node is what the resolver must find out: whether a record is complete *)
(* (the record itself stands for its Complete node), the implementation of *)
(* an associated type or of one nested in it, or a marker (stored type,    *)
(* conformance, constraint, extension).  Which facts depend on which is    *)
(* the compiled program, chosen once.  PrepareNameLookup called from       *)
(* within the resolution is left out.                                      *)
(***************************************************************************)
EXTENDS DependencyGraph

CONSTANTS
    Record, Marker, AssociatedType, NestedType,  \* the nodes, by kind
    Instantiation,  \* the records instantiated from a template
    Owner,          \* the record a node says something about
    Nothing,        \* no node: a nested type that is a template parameter
    Programs        \* the programs to compile

Node == Record \union Marker \union AssociatedType \union NestedType

Edge == Node \X Node

\* contexts: the records PrepareNameLookup is called for and instantiations
\* mentioned there; faulty: records where FindDependencies may meet an error;
\* needs: the edges it adds for a record; layout: the edges that completing
\* an instantiation adds; instantiates: the records that resolving a node
\* instantiates; resolves: the associated type that a nested one is.
Program ==
    [contexts : SUBSET Record, faulty : SUBSET Record,
     needs : [Record -> SUBSET Edge],
     layout : [Record -> SUBSET Edge],
     instantiates : [Node -> SUBSET Instantiation],
     resolves : [NestedType -> AssociatedType \union {Nothing}]]

\* The records whose nodes the edges of r, and its nested types, lead to.
Mentions(p, r) ==
    {Owner[e[1]] : e \in p.needs[r] \union p.layout[r]} \union
    {Owner[p.resolves[n]] : n \in {m \in NestedType :
        Owner[m] = r /\ p.resolves[m] # Nothing}}

ASSUME ResolverAssumption ==
    /\ IsFiniteSet(Node)
    /\ Instantiation \subseteq Record
    /\ Nothing \notin AssociatedType
    /\ Record \intersect Marker = {}
    /\ AssociatedType \intersect (Record \union Marker) = {}
    /\ NestedType \intersect (Record \union Marker \union AssociatedType) = {}
    /\ Owner \in [Node -> Record]
    /\ \A r \in Record : Owner[r] = r
    /\ Programs \subseteq Program
    /\ \A p \in Programs :
          /\ \A r \in Record : \A e \in p.needs[r] \union p.layout[r] :
                Owner[e[2]] = r /\ (e[1] \in NestedType => Owner[e[1]] = r)
          /\ \A r \in Record : \A e \in p.layout[r] :
                /\ r \in Instantiation
                /\ \/ e[2] = r /\ e[1] \in Marker /\ Owner[e[1]] = r
                   \/ e[1] \in Record /\ e[2] \in Marker
                /\ \A q \in Record : Ends({e}) \intersect Ends(p.needs[q])
                                        \subseteq Record
          /\ \A n \in Node : \A i \in p.instantiates[n] :
                Mentions(p, i) \subseteq p.instantiates[n] \union {Owner[n]}

VARIABLES
    program,          \* what is compiled
    found,            \* records whose dependencies were looked for
    broken,           \* those of them where that failed half-way
    shallow,          \* ShallowInstantiations
    done,             \* nodes that are Done
    numDependencies,  \* NumDependencies
    phase,            \* where ResolveDependencyGraph is
    current,          \* CurrentNodeIdx, from 1
    error,            \* its local error flag
    pending,          \* PendingRecordDecls
    complete,         \* records at LookupLevel::Complete
    invalid,          \* records with setIsInvalid
    result            \* how the last PrepareNameLookup ended

graph == <<vertices, edges, order, taken>>
records == <<found, broken, shallow>>
outcome == <<pending, complete, invalid, result>>
vars == <<program, graph, records, done, numDependencies, phase, current,
          error, outcome>>

TypeOK ==
    /\ program \in Program
    /\ vertices \subseteq Node
    /\ edges \subseteq vertices \X vertices
    /\ order \in Seq(vertices)
    /\ taken \in 0..Len(order)
    /\ found \subseteq Record /\ broken \subseteq found
    /\ shallow \subseteq found \intersect Instantiation
    /\ done \subseteq Node
    /\ numDependencies \in [Node -> Nat]
    /\ phase \in {"idle", "ordering", "resolving"}
    /\ current \in Nat
    /\ error \in BOOLEAN
    /\ pending \subseteq found
    /\ complete \subseteq found
    /\ invalid \subseteq found
    /\ result \in {"none", "ok", "error", "circular"}

Init ==
    /\ program \in Programs
    /\ vertices = {} /\ edges = {} /\ order = <<>> /\ taken = 0
    /\ found = {} /\ broken = {} /\ shallow = {}
    /\ done = {}
    /\ numDependencies = [n \in Node |-> 0]
    /\ phase = "idle" /\ current = 0 /\ error = FALSE
    /\ pending = {} /\ complete = {} /\ invalid = {} /\ result = "none"

-----------------------------------------------------------------------------
(* Building the graph.                                                     *)

Needs(R) == UNION {program.needs[r] : r \in R}

\* E: the edges found when the dependencies of the records R are looked for,
\* which fails half-way for B.  Instantiations that are still shallow and
\* mentioned on the way are gone through again (visitRecordType).
Discover(R, B, E) ==
    /\ B \subseteq R \intersect program.faulty
    /\ \E A \in SUBSET shallow :
          /\ R = {} => A = {}
          /\ Needs((R \ B) \union A) \subseteq E
          /\ E \subseteq Needs(R \union A)
    /\ found' = found \union R
    /\ broken' = broken \union B

\* constructOrderedList, of the graph <<V, E>>.
Order(V, E) ==
    /\ BeginOrder(V, E)
    /\ phase' = "ordering"
    /\ current' = 0

\* PrepareNameLookup returns; the order and the error flag are its locals.
Leave(res) ==
    /\ phase' = "idle"
    /\ result' = res
    /\ order' = <<>> /\ taken' = 0 /\ current' = 0 /\ error' = FALSE

\* PrepareNameLookup for contexts with the records R that no call saw yet
\* (FindDeclContexts; where it fails the call does nothing, and what it had
\* found is among the records of the next call).  A failure to discover the
\* dependencies of an instantiation may go unnoticed.
PrepareNameLookup(R) ==
    /\ phase = "idle"
    /\ \A r \in R : Mentions(program, r) \subseteq found \union R
    /\ \E B \in SUBSET R, E \in SUBSET Needs(R \union shallow) :
          /\ Discover(R, B, E)
          /\ Add(R, E)
          /\ \/ /\ B \subseteq Instantiation
                /\ Order(vertices', edges')
                /\ UNCHANGED <<error, result>>
             \/ B # {} /\ Leave("error")
    /\ shallow' = shallow \union (R \intersect Instantiation)
    /\ UNCHANGED <<program, done, numDependencies, pending, complete, invalid>>

-----------------------------------------------------------------------------
(* ResolveDependencyGraph.                                                 *)

OrderNext ==
    /\ phase = "ordering"
    /\ TakeVertex
    /\ UNCHANGED <<program, records, done, numDependencies, phase, current,
                   error, outcome>>

Ordered == phase = "ordering" /\ taken = Len(order)

StartResolving ==
    /\ Ordered /\ Valid
    /\ phase' = "resolving" /\ current' = 1
    /\ numDependencies' = [n \in Node |-> IF n \in vertices
                                            THEN Cardinality(Into(n, edges))
                                            ELSE numDependencies[n]]
    /\ UNCHANGED <<program, graph, records, done, error, outcome>>

\* DiagnoseCircularDependency: finding the pair to blame leaves the graph
\* without the edges that could be ordered.
DiagnoseCircularDependency ==
    /\ Ordered /\ ~Valid
    /\ edges' = Leftover
    /\ Leave("circular")
    /\ UNCHANGED <<program, vertices, records, done, numDependencies, pending,
                   complete, invalid>>

\* Mutant: one new incoming edge goes unnoticed.
GrownTwice(n, E) == Cardinality(Into(n, E)) > numDependencies[n] + 1

\* Mutant: no new edge is enough to start over.
GrownOrSame(n, E) == Cardinality(Into(n, E)) >= numDependencies[n]

\* HasNewDependencies, with the edges E.
Grown(n, E) == Cardinality(Into(n, E)) > numDependencies[n]

\* The node whose turn it is.
AtNode(n) ==
    /\ phase = "resolving"
    /\ current <= Len(order) /\ n = order[current]

\* ResolveDependencyNode gets to its switch.
Resolving(n) == AtNode(n) /\ n \notin done /\ ~Grown(n, edges)

\* shouldReset: V and E are added, nodes that are Done removed, and the
\* order starts again.
Reset(V, E) ==
    /\ vertices' = (vertices \union V \union Ends(E)) \ done
    /\ edges' = Without(done, edges \union E)
    /\ Order(vertices', edges')
    /\ UNCHANGED <<done, numDependencies, error>>

\* The loop goes on with the next node.
Proceed(D) ==
    /\ done' = done \union D
    /\ current' = current + 1
    /\ UNCHANGED <<order, taken, numDependencies, phase>>

SkipNode(n) ==
    /\ AtNode(n) /\ n \in done
    /\ Proceed({})
    /\ UNCHANGED <<program, vertices, edges, records, error, outcome>>

SeeNewDependencies(n) ==
    /\ AtNode(n) /\ n \notin done /\ Grown(n, edges)
    /\ Reset({}, {})
    /\ UNCHANGED <<program, records, outcome>>

\* The instantiations that resolving n makes.  Whether their dependencies
\* could be discovered is not looked at.
New(n) == program.instantiates[n] \ found

Instantiate(n, E) ==
    /\ \E B \in SUBSET New(n) : Discover(New(n), B, E)
    /\ shallow' = (shallow \union New(n)) \ {n}

\* Constraints decide whether a conformance exists.
ResolveMarker(n) ==
    /\ n \in Marker /\ Resolving(n)
    /\ \E E \in SUBSET Needs(New(n) \union shallow) :
          Instantiate(n, E) /\ Add(New(n), E)
    /\ Proceed({n})
    /\ UNCHANGED <<program, error, outcome>>

\* The implementation of an associated type is found, diagnosed to be
\* ambiguous (the loop goes on), or cannot be instantiated (it does not).
ResolveAssociatedType(n) ==
    /\ n \in AssociatedType /\ Resolving(n)
    /\ \E E \in SUBSET Needs(New(n) \union shallow) :
          Instantiate(n, E) /\ Add(New(n), E)
    /\ \/ /\ Proceed({n})
          /\ error' \in {error, TRUE}
          /\ UNCHANGED result
       \/ Leave("error") /\ UNCHANGED <<done, numDependencies>>
    /\ UNCHANGED <<program, pending, complete, invalid>>

\* A nested type is that of another record's associated type.  Where that is
\* not known yet, the node has to wait, but is only put off if the other one
\* depends on something.
ResolveNestedType(n) ==
    /\ n \in NestedType /\ Resolving(n)
    /\ LET t == program.resolves[n]
       IN  \/ /\ t = Nothing \/ t \in done
              /\ Proceed({n})
              /\ UNCHANGED <<vertices, edges, error>>
           \/ /\ t # Nothing /\ t \notin done
              /\ Into(t, edges) = {}
              /\ Add({}, {<<t, n>>})
              /\ Proceed({})
              /\ UNCHANGED error
           \/ /\ t # Nothing /\ t \notin done
              /\ Into(t, edges) # {}
              /\ Reset({}, {<<t, n>>})
    /\ UNCHANGED <<program, records, outcome>>

\* The edges that completing n adds when it was instantiated shallowly.
Layout(n) == IF n \in shallow THEN program.layout[n] ELSE {}

\* completeShallowInstantiation fails when n is no longer listed as shallow.
FailCompletion(n) ==
    /\ n \in shallow /\ Resolving(n)
    /\ shallow' = shallow \ {n}
    /\ broken' = broken \union {n}
    /\ Leave("error")
    /\ UNCHANGED <<program, vertices, edges, found, done, numDependencies,
                   pending, complete, invalid>>

\* Completing an instantiation shows what must be complete before it.
CompleteShallow(n) ==
    /\ n \in shallow /\ Resolving(n)
    /\ \E E \in SUBSET Needs(New(n) \union shallow) :
          /\ Instantiate(n, E)
          /\ Grown(n, edges \union E \union Layout(n))
          /\ Reset(New(n), E \union Layout(n))
    /\ UNCHANGED <<program, outcome>>

\* A record is checked against the protocols it conforms to.
ResolveRecord(n) ==
    /\ n \in Record /\ Resolving(n)
    /\ \E E \in SUBSET Needs(New(n) \union shallow) :
          /\ Instantiate(n, E)
          /\ ~Grown(n, edges \union E \union Layout(n))
          /\ Add(New(n), E \union Layout(n))
    /\ pending' = pending \union {n}
    /\ \/ /\ Proceed({n})
          /\ UNCHANGED <<error, invalid, result>>
       \/ /\ Proceed({n})            \* CheckConformances fails
          /\ error' = TRUE
          /\ invalid' = invalid \union {n}
          /\ UNCHANGED result
       \/ /\ Leave("error")          \* PrepareImplicitDecls fails
          /\ invalid' = invalid \union {n}
          /\ UNCHANGED <<done, numDependencies>>
    /\ UNCHANGED <<program, complete>>

AtEnd == phase = "resolving" /\ current > Len(order)

FinishWithError ==
    /\ AtEnd /\ error
    /\ Leave("error")
    /\ UNCHANGED <<program, vertices, edges, records, done, numDependencies,
                   pending, complete, invalid>>

\* Mutant: what was added during the resolution is not resolved.
AddedNone == FALSE

\* Nodes were added after the order was made,
Added == Cardinality(vertices) > Len(order)

\* and ResolveDependencyGraph calls itself.
ResolveAgain ==
    /\ AtEnd /\ ~error /\ Added
    /\ Order(vertices, edges)
    /\ UNCHANGED <<program, vertices, edges, records, done, numDependencies,
                   error, outcome>>

\* CheckAssociatedTypeConstraints rejects these; instantiations it passes.
Rejected == (pending \intersect invalid) \ Instantiation

Finish ==
    /\ AtEnd /\ ~error /\ ~Added
    /\ Rejected = {}
    /\ complete' = complete \union pending
    /\ pending' = {}
    /\ vertices' = {} /\ edges' = {}
    /\ numDependencies' = [n \in Node |-> 0]
    /\ Leave("ok")
    /\ UNCHANGED <<program, records, done, invalid>>

\* The first record that is rejected ends the loop, with the records after
\* it no longer pending, and the call is successful.
FinishRejecting ==
    /\ AtEnd /\ ~error /\ ~Added
    /\ \E r \in pending \ Instantiation, S \in SUBSET (pending \ Rejected) :
          /\ r \notin S
          /\ complete' = complete \union S
          /\ invalid' = invalid \union {r}
    /\ pending' = {}
    /\ Leave("ok")
    /\ UNCHANGED <<program, vertices, edges, records, done, numDependencies>>

Resolve(n) ==
    \/ SkipNode(n)
    \/ SeeNewDependencies(n)
    \/ ResolveMarker(n)
    \/ ResolveAssociatedType(n)
    \/ ResolveNestedType(n)
    \/ FailCompletion(n)
    \/ CompleteShallow(n)
    \/ ResolveRecord(n)

ResolveDependencyGraph ==
    \/ OrderNext
    \/ StartResolving
    \/ DiagnoseCircularDependency
    \/ \E n \in Node : Resolve(n)
    \/ FinishWithError
    \/ ResolveAgain
    \/ Finish
    \/ FinishRejecting

Next ==
    \/ \E R \in SUBSET (program.contexts \ found) : PrepareNameLookup(R)
    \/ ResolveDependencyGraph

\* The compiler runs, once it was asked to prepare a lookup.
Spec == Init /\ [][Next]_vars /\ WF_vars(ResolveDependencyGraph)

-----------------------------------------------------------------------------
(* Properties.                                                             *)

\* The order lists a node after everything it depends on.
OrderRespectsEdges ==
    phase = "ordering" =>
        \A i \in 1..taken, u \in vertices :
            <<u, order[i]>> \in edges => \E j \in 1..(i - 1) : order[j] = u

\* A circular dependency is diagnosed exactly when there is one.
CyclesFound ==
    [][ /\ StartResolving => ~Cyclic
        /\ DiagnoseCircularDependency => Cyclic ]_vars

\* getOffendingPair finds a pair ("order is valid!" is unreachable).
OffendingPairExists == Ordered /\ ~Valid => Leftover # {}

\* The dependencies of a record count as found if nothing failed half-way;
\* those of an instantiation's layout are found when it is completed.
Dependencies(n) ==
    Into(n, program.needs[Owner[n]] \union program.layout[Owner[n]])

\* A node is resolved after everything it depends on, also across the calls
\* of PrepareNameLookup, whatever the resolution of other nodes adds and
\* whichever calls failed.  Nested associated types are an exception.
DependenciesFirst ==
    \A n \in done : Owner[n] \notin broken =>
        \A e \in Dependencies(n) : e[1] \in done \union NestedType

\* Records reach LookupLevel::Complete together, when everything in the
\* graph is resolved.
CompleteTogether ==
    [][complete' # complete => vertices \subseteq done \union NestedType]_vars

\* When PrepareNameLookup reports success every record it was given so far
\* is complete, those it instantiated included, unless one was rejected.
NothingForgotten ==
    phase = "idle" /\ result = "ok" /\ invalid = {} =>
        found \subseteq complete

\* However often the order starts again, PrepareNameLookup returns.
PrepareReturns == phase # "idle" ~> phase = "idle"
=============================================================================
