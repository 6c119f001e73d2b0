-------------------------- MODULE DependencyGraph --------------------------
(***************************************************************************)
(* cdotc/Basic/DependencyGraph.h: vertices, the edges between them, and    *)
(* the evaluation order that lists a vertex after what it depends on.      *)
(*                                                                         *)
(* The evaluation order is a worklist algorithm.  A vertex leaves the      *)
(* first-in first-out list of vertices without incoming edges in the order *)
(* in which it entered, so the list and the resulting order are kept as    *)
(* one sequence: the first `taken' members are the order so far, the rest  *)
(* are still waiting.  In which sequence the vertices and the edges of one *)
(* vertex were added is left open.                                         *)
(***************************************************************************)
EXTENDS Naturals, Sequences, FiniteSets

VARIABLES
    vertices,  \* Vertices, the keys of VertexMap
    edges,     \* <<u, v>>: v is in u's Outgoing and u in v's Incoming
    order,     \* Order, then VerticesWithoutIncomingEdges
    taken      \* how many vertices Order has

Incoming(v) == {u \in vertices : <<u, v>> \in edges}
Outgoing(u) == {v \in vertices : <<u, v>> \in edges}

Ends(E) == {e[1] : e \in E} \union {e[2] : e \in E}
Into(v, E) == {e \in E : e[2] = v}

\* Every way to list the members of S, each once.
Listings(S) ==
    {s \in [1..Cardinality(S) -> S] :
        /\ \A i, j \in DOMAIN s : s[i] = s[j] => i = j
        /\ \A x \in S : \E i \in DOMAIN s : s[i] = x}

\* Mutant: the vertices an edge joins are not looked up with getOrAddVertex.
AddOnly(V, E) ==
    /\ vertices' = vertices \union V
    /\ edges' = edges \union E

\* getOrAddVertex(V...), addIncoming(E...).
Add(V, E) ==
    /\ vertices' = vertices \union V \union Ends(E)
    /\ edges' = edges \union E

\* Mutant: a removed vertex stays among its neighbours' edges.
WithoutNone(D, E) == E

\* The rest of remove_if(D...): reset() takes a vertex out of its neighbours.
Without(D, E) == {e \in E : e[1] \notin D /\ e[2] \notin D}

\* The evaluation order of the graph <<V, E>> begins.
BeginOrder(V, E) ==
    /\ order' \in Listings({v \in V : Into(v, E) = {}})
    /\ taken' = 0

Taken == {order[i] : i \in 1..taken}

\* Mutant: whoever depends on u has nothing left to wait for.
FreedAll(u) == Outgoing(u) \ {order[i] : i \in DOMAIN order}

\* The vertices whose last incoming edge goes when u is taken.
Freed(u) == {v \in Outgoing(u) : Incoming(v) \subseteq Taken \union {u}}

TakeVertex ==
    /\ taken < Len(order)
    /\ \E s \in Listings(Freed(order[taken + 1])) : order' = order \o s
    /\ taken' = taken + 1
    /\ UNCHANGED <<vertices, edges>>

\* Mutant: the last vertex is not counted.
ValidShort == taken + 1 = Cardinality(vertices)

\* What getEvaluationOrder returns when no vertex is waiting any more.
Valid == taken = Cardinality(vertices)

\* The edges that ordering the graph destructively leaves behind.
\* getOffendingPair orders it that way and returns one of them.
Leftover == {e \in edges : e[1] \notin Taken}

-----------------------------------------------------------------------------
\* No order exists: each of these vertices waits for another one of them.
Cyclic ==
    \E S \in SUBSET vertices :
        S # {} /\ \A v \in S : Incoming(v) \intersect S # {}
=============================================================================
