--------------------- MODULE ConformanceResolverProofs ---------------------
(***************************************************************************)
(* For every program: facts are established after what they depend on, the *)
(* order lists a node after its dependencies, cycles are diagnosed exactly *)
(* when there are any, and a successful call leaves no record behind.      *)
(*                                                                         *)
(* The graph forgets edges: those of nodes that are done, and, when a      *)
(* cycle was diagnosed, those that could be ordered.  The invariant says   *)
(* what it still knows (KnownInv), or that it has a cycle, which never     *)
(* goes away and lets nothing be resolved any more.                        *)
(***************************************************************************)
EXTENDS ConformanceResolver, FiniteSetTheorems, SequenceTheorems, TLAPS

Positions == 1..Len(order)

Distinct(s) == \A i, j \in 1..Len(s) : s[i] = s[j] => i = j

Shaped ==
    /\ program \in Programs
    /\ TypeOK
    /\ Distinct(order)

\* While the order is made: whatever waits in it, waits for nothing that is
\* not in the order yet, and who waits for nothing is in it.
OrderInv ==
    phase = "ordering" =>
        /\ \A i \in Positions, u \in vertices : <<u, order[i]>> \in edges =>
              \E j \in 1..taken : j < i /\ order[j] = u
        /\ \A v \in vertices : Incoming(v) \subseteq Taken =>
              \E i \in Positions : order[i] = v

\* E are the edges when the order was finished, whose numbers were noted.
Noted(E) ==
    \A i \in Positions :
        /\ numDependencies[order[i]] = Cardinality(Into(order[i], E))
        /\ \A u \in vertices : <<u, order[i]>> \in E =>
              \E j \in Positions : j < i /\ order[j] = u

ResolveInv ==
    phase = "resolving" =>
        /\ current \in Nat \ {0}
        /\ \A i \in Positions : i < current => order[i] \in done \union NestedType
        /\ \E E \in SUBSET edges : Noted(E)

\* Nothing is said about a record before it is found.
OwnedInv ==
    /\ \A v \in vertices \union done : Owner[v] \in found
    /\ \A r \in found : Mentions(program, r) \subseteq found
    /\ found \subseteq vertices \union done

\* The markers of a layout are not there before the layout is.
LateInv ==
    \A r \in Record : (r \notin found \/ r \in shallow) =>
        \A e \in program.layout[r] :
            Ends({e}) \intersect Marker \intersect (vertices \union done) = {}

\* What must be known of the record r, when a shallow instance is not looked into.
Expected(r) ==
    program.needs[r] \union (IF r \in shallow THEN {} ELSE program.layout[r])

KnownInv ==
    \A r \in found \ broken : \A e \in Expected(r) :
        e \in edges \/ e[1] \in done \union NestedType \/ e[2] \in done

\* Records that are done wait to be completed, unless some were rejected.
PendingInv ==
    /\ invalid = {} => done \intersect Record \subseteq pending \union complete
    /\ phase = "idle" /\ result = "ok" /\ invalid = {} => found \subseteq complete

IInv ==
    /\ Shaped
    /\ OrderInv
    /\ ResolveInv
    /\ OwnedInv
    /\ LateInv
    /\ KnownInv \/ (Cyclic /\ phase # "resolving")
    /\ DependenciesFirst
    /\ PendingInv

-----------------------------------------------------------------------------
(* Orders.                                                                 *)

\* A listing lists each member of a finite set, and each once.
LEMMA Listing ==
    ASSUME NEW S, IsFiniteSet(S), NEW s \in Listings(S)
    PROVE  /\ s \in Seq(S)
           /\ Len(s) = Cardinality(S)
           /\ Distinct(s)
           /\ \A x \in S : \E i \in 1..Len(s) : s[i] = x
<1>1. Cardinality(S) \in Nat
  BY FS_CardinalityType
<1>2. s \in [1..Cardinality(S) -> S]
  BY DEF Listings
<1>3. s \in Seq(S)
  BY <1>1, <1>2, SeqDef
<1>4. Len(s) = Cardinality(S)
  BY <1>1, <1>2, <1>3, LenProperties
<1>5. DOMAIN s = 1..Len(s)
  BY <1>3, LenProperties
<1> QED BY <1>3, <1>4, <1>5 DEF Listings, Distinct

\* A sequence that lists each member of a set at most once is no longer than
\* the set is large, and as long when it lists all of them.
LEMMA Covering ==
    ASSUME NEW S, IsFiniteSet(S), NEW s \in Seq(S), Distinct(s)
    PROVE  /\ Len(s) <= Cardinality(S)
           /\ Len(s) = Cardinality(S) <=>
                \A x \in S : \E i \in 1..Len(s) : s[i] = x
<1>1. Len(s) \in Nat /\ s \in [1..Len(s) -> S]
  BY LenProperties
<1>2. Cardinality(1..Len(s)) = Len(s)
  <2>1. Len(s) \in Int /\ 1 \in Int
    BY <1>1
  <2>2. Cardinality(1..Len(s)) = IF 1 > Len(s) THEN 0 ELSE Len(s) - 1 + 1
    BY <2>1, FS_Interval
  <2> QED BY <1>1, <2>2
<1>3. s \in Injection(1..Len(s), S)
  BY <1>1 DEF Injection, IsInjective, Distinct
<1>4. /\ Cardinality(1..Len(s)) <= Cardinality(S)
      /\ Cardinality(1..Len(s)) = Cardinality(S) <=> s \in Surjection(1..Len(s), S)
  BY <1>3, FS_Injection
<1>5. s \in Surjection(1..Len(s), S) <=> \A x \in S : \E i \in 1..Len(s) : s[i] = x
  BY <1>1 DEF Surjection
<1> QED BY <1>2, <1>4, <1>5

\* Every set of natural numbers with members has a least one.
LEMMA Least ==
    ASSUME NEW K \in SUBSET Nat, K # {}
    PROVE  \E k \in K : \A j \in K : k <= j
<1> DEFINE T == {1..k : k \in K}
           R == StrictSubsetOrdering(Nat)
<1>1. IsWellFoundedOn(R, FiniteSubsetsOf(Nat))
  BY FS_StrictSubsetOrderingWellFounded
<1>2. \A k \in K : 1..k \in FiniteSubsetsOf(Nat)
  <2>1. TAKE k \in K
  <2>2. k \in Int /\ 1 \in Int
    OBVIOUS
  <2>3. IsFiniteSet(1..k)
    BY <2>2, FS_Interval
  <2> QED BY <2>3 DEF FiniteSubsetsOf
<1>3. T \subseteq FiniteSubsetsOf(Nat) /\ T # {}
  BY <1>2
<1>4. \E x \in T : \A y \in T : ~(<<y, x>> \in R)
  <2> HIDE DEF T, R
  <2> QED BY <1>1, <1>3, WFMin
<1>5. PICK k \in K : \A y \in T : ~(<<y, 1..k>> \in R)
  BY <1>4
<1>6. ASSUME NEW j \in K, j < k PROVE FALSE
  <2>1. 1..j \subseteq 1..k
    BY <1>6
  <2>2. k \in 1..k /\ k \notin 1..j
    BY <1>6
  <2>3. <<1..j, 1..k>> \in R
    BY <2>1, <2>2 DEF StrictSubsetOrdering
  <2> QED BY <2>3, <1>5
<1> QED BY <1>6

\* Edges between finitely many nodes can be counted.
LEMMA FiniteEdges ==
    ASSUME NEW E \in SUBSET Edge
    PROVE  /\ IsFiniteSet(E)
           /\ \A n : /\ IsFiniteSet(Into(n, E))
                     /\ Cardinality(Into(n, E)) \in Nat
<1>1. IsFiniteSet(Edge)
  BY ResolverAssumption, FS_Product DEF Edge
<1>2. IsFiniteSet(E)
  BY <1>1, FS_Subset
<1>3. ASSUME NEW n PROVE IsFiniteSet(Into(n, E)) /\ Cardinality(Into(n, E)) \in Nat
  <2>1. Into(n, E) \in SUBSET E
    BY DEF Into
  <2>2. IsFiniteSet(Into(n, E))
    BY <1>2, <2>1, FS_Subset
  <2> QED BY <2>2, FS_CardinalityType
<1> QED BY <1>2, <1>3

\* An order begins with the vertices that depend on nothing.
LEMMA BeginOrderFacts ==
    ASSUME NEW V \in SUBSET Node, NEW E \in SUBSET (V \X V),
           BeginOrder(V, E), vertices' = V, edges' = E
    PROVE  /\ order' \in Seq(V) /\ Distinct(order')
           /\ taken' = 0 /\ taken' \in 0..Len(order')
           /\ OrderInv'
<1> DEFINE S == {v \in V : Into(v, E) = {}}
<1>1. IsFiniteSet(S)
  <2>1. S \in SUBSET Node
    OBVIOUS
  <2> QED BY <2>1, ResolverAssumption, FS_Subset
<1>2. order' \in Listings(S) /\ taken' = 0
  BY DEF BeginOrder
<1>3. /\ order' \in Seq(S) /\ Distinct(order')
      /\ \A x \in S : \E i \in 1..Len(order') : order'[i] = x
  <2> HIDE DEF S
  <2> QED BY <1>1, <1>2, Listing
<1>4. order' \in Seq(V)
  <2>1. S \subseteq V
    OBVIOUS
  <2> HIDE DEF S
  <2> QED BY <1>3, <2>1, SeqMonotonic
<1>5. Len(order') \in Nat /\ \A i \in 1..Len(order') : order'[i] \in S
  <2> HIDE DEF S
  <2> QED BY <1>3, LenProperties, ElementOfSeq
<1>6. ASSUME NEW i \in 1..Len(order'), NEW u, <<u, order'[i]>> \in E PROVE FALSE
  <2>1. <<u, order'[i]>> \in Into(order'[i], E)
    BY <1>6 DEF Into
  <2> QED BY <1>5, <2>1
<1>7. ASSUME NEW v \in V, {u \in V : <<u, v>> \in E} \subseteq {} PROVE v \in S
  <2>1. ASSUME NEW e \in Into(v, E) PROVE FALSE
    <3>1. e \in V \X V /\ e \in E /\ e[2] = v
      BY <2>1 DEF Into
    <3>2. e = <<e[1], v>> /\ e[1] \in V
      BY <3>1
    <3> QED BY <3>1, <3>2, <1>7
  <2> QED BY <2>1
<1>8. Taken' = {}
  BY <1>2 DEF Taken
<1>9. OrderInv'
  <2>1. ASSUME NEW v \in V, Incoming(v)' \subseteq Taken'
        PROVE  \E i \in 1..Len(order') : order'[i] = v
    <3>1. {u \in V : <<u, v>> \in E} \subseteq {}
      BY <2>1, <1>8 DEF Incoming
    <3> HIDE DEF S
    <3> QED BY <3>1, <1>7, <1>3
  <2>2. ASSUME NEW i \in 1..Len(order'), NEW u \in V, <<u, order'[i]>> \in E
        PROVE  \E j \in 1..taken' : j < i /\ order'[j] = u
    BY <2>2, <1>6
  <2> QED BY <2>1, <2>2 DEF OrderInv, Positions
<1> QED BY <1>2, <1>3, <1>4, <1>5, <1>9

\* Taking one vertex more.
LEMMA TakeVertexFacts ==
    ASSUME Shaped, phase = "ordering", OrderInv, TakeVertex
    PROVE  /\ order' \in Seq(vertices) /\ Distinct(order')
           /\ taken' \in 0..Len(order')
           /\ OrderInv'
<1> DEFINE x == order[taken + 1]
           L == Len(order)
<1>1. /\ L \in Nat /\ order \in Seq(vertices) /\ Distinct(order)
      /\ taken \in Nat /\ taken < L
      /\ vertices \in SUBSET Node /\ edges \in SUBSET (vertices \X vertices)
  <2>1. order \in Seq(vertices)
    BY DEF Shaped, TypeOK
  <2>2. L \in Nat
    BY <2>1, LenProperties
  <2> QED BY <2>1, <2>2 DEF Shaped, TypeOK, TakeVertex
<1>2. \A i \in 1..L : order[i] \in vertices
  BY <1>1, ElementOfSeq
<1>3. taken + 1 \in 1..L /\ x \in vertices
  BY <1>1, <1>2
<1>4. PICK s \in Listings(Freed(x)) : order' = order \o s
  BY DEF TakeVertex
<1>5. /\ taken' = taken + 1 /\ vertices' = vertices /\ edges' = edges
  BY DEF TakeVertex
<1>6. Freed(x) \subseteq vertices /\ IsFiniteSet(Freed(x))
  <2>1. Freed(x) \in SUBSET vertices
    BY DEF Freed, Outgoing
  <2>2. Freed(x) \in SUBSET Node
    BY <2>1, <1>1
  <2> QED BY <2>1, <2>2, FS_Subset, ResolverAssumption
<1>7. /\ s \in Seq(Freed(x)) /\ Distinct(s)
      /\ \A v \in Freed(x) : \E i \in 1..Len(s) : s[i] = v
  <2> HIDE DEF x
  <2> QED BY <1>6, Listing
<1>8. /\ Len(s) \in Nat /\ \A i \in 1..Len(s) : s[i] \in Freed(x)
      /\ s \in Seq(vertices)
  <2> HIDE DEF x
  <2> QED BY <1>6, <1>7, LenProperties, ElementOfSeq, SeqMonotonic
<1>9. /\ order' \in Seq(vertices) /\ Len(order') = L + Len(s)
      /\ \A i \in 1..L : order'[i] = order[i]
      /\ \A i \in 1..Len(s) : order'[L + i] = s[i]
  <2> HIDE DEF x
  <2>1. /\ order' \in Seq(vertices) /\ Len(order') = L + Len(s)
        /\ \A i \in 1..(L + Len(s)) :
              order'[i] = IF i <= L THEN order[i] ELSE s[i - L]
    BY <1>1, <1>4, <1>8, ConcatProperties
  <2>2. ASSUME NEW i \in 1..L PROVE order'[i] = order[i]
    BY <2>1, <1>1, <1>8
  <2>3. ASSUME NEW i \in 1..Len(s) PROVE order'[L + i] = s[i]
    <3>1. L + i \in 1..(L + Len(s)) /\ ~(L + i <= L) /\ L + i - L = i
      BY <1>1, <1>8
    <3> QED BY <2>1, <3>1
  <2> QED BY <2>1, <2>2, <2>3
<1>10. ASSUME NEW i \in 1..(L + Len(s))
       PROVE  \/ i \in 1..L
              \/ \E k \in 1..Len(s) : i = L + k
  <2>1. CASE i > L
    <3>1. i - L \in 1..Len(s) /\ i = L + (i - L)
      BY <2>1, <1>1, <1>8
    <3> QED BY <3>1
  <2> QED BY <2>1, <1>1, <1>8
<1>11. ASSUME NEW v \in Freed(x) PROVE \A i \in 1..L : order[i] # v
  <2> SUFFICES ASSUME NEW i \in 1..L, order[i] = v PROVE FALSE
    OBVIOUS
  <2>1. <<x, v>> \in edges
    BY DEF Freed, Outgoing
  <2>2. PICK j \in 1..taken : j < i /\ order[j] = x
    BY <2>1, <1>3 DEF OrderInv, Positions
  <2>3. j \in 1..L /\ order[j] = order[taken + 1] /\ j # taken + 1
    BY <2>2, <1>1
  <2> QED BY <2>3, <1>3, <1>1 DEF Distinct
<1>12. Distinct(order')
  <2>1. ASSUME NEW i \in 1..(L + Len(s)), NEW j \in 1..(L + Len(s)),
               order'[i] = order'[j]
        PROVE  i = j
    <3>1. CASE i \in 1..L /\ j \in 1..L
      BY <3>1, <2>1, <1>9, <1>1 DEF Distinct
    <3>2. ASSUME NEW k \in 1..Len(s), i = L + k, j \in 1..L PROVE FALSE
      BY <3>2, <2>1, <1>8, <1>9, <1>11
    <3>3. ASSUME NEW k \in 1..Len(s), j = L + k, i \in 1..L PROVE FALSE
      BY <3>3, <2>1, <1>8, <1>9, <1>11
    <3>4. ASSUME NEW k \in 1..Len(s), NEW m \in 1..Len(s), i = L + k, j = L + m
          PROVE  i = j
      BY <3>4, <2>1, <1>7, <1>9 DEF Distinct
    <3> QED BY <3>1, <3>2, <3>3, <3>4, <1>10
  <2> HIDE DEF L
  <2> QED BY <2>1, <1>9 DEF Distinct
<1>13. Taken' = Taken \union {x}
  <2>1. \A i \in 1..(taken + 1) : i \in 1..L
    BY <1>1
  <2>2. Taken' = {order[i] : i \in 1..(taken + 1)}
    BY <2>1, <1>5, <1>9 DEF Taken
  <2>3. \A i \in 1..(taken + 1) : i \in 1..taken \/ i = taken + 1
    BY <1>1
  <2>4. \A i \in 1..taken : i \in 1..(taken + 1)
    BY <1>1
  <2>5. taken + 1 \in 1..(taken + 1)
    BY <1>1
  <2> QED BY <2>2, <2>3, <2>4, <2>5 DEF Taken
<1>14. \A i \in 1..(L + Len(s)), u \in vertices : <<u, order'[i]>> \in edges =>
          \E j \in 1..(taken + 1) : j < i /\ order'[j] = u
  <2> SUFFICES ASSUME NEW i \in 1..(L + Len(s)), NEW u \in vertices,
                      <<u, order'[i]>> \in edges
               PROVE  \E j \in 1..(taken + 1) : j < i /\ order'[j] = u
    OBVIOUS
  <2>1. CASE i \in 1..L
    <3>1. PICK j \in 1..taken : j < i /\ order[j] = u
      BY <2>1, <1>9 DEF OrderInv, Positions
    <3>2. j \in 1..(taken + 1) /\ j \in 1..L
      BY <1>1
    <3> QED BY <3>1, <3>2, <1>9
  <2>2. ASSUME NEW k \in 1..Len(s), i = L + k
        PROVE  \E j \in 1..(taken + 1) : j < i /\ order'[j] = u
    <3>1. order'[i] \in Freed(x)
      BY <2>2, <1>8, <1>9
    <3>2. u \in Taken \union {x}
      BY <3>1 DEF Freed, Incoming
    <3>3. PICK j \in 1..(taken + 1) : order[j] = u
      <4>1. CASE u = x
        <5>1. taken + 1 \in 1..(taken + 1)
          BY <1>1
        <5> QED BY <4>1, <5>1
      <4>2. CASE u \in Taken
        <5>1. PICK j \in 1..taken : order[j] = u
          BY <4>2 DEF Taken
        <5>2. j \in 1..(taken + 1)
          BY <1>1
        <5> QED BY <5>1, <5>2
      <4> QED BY <3>2, <4>1, <4>2
    <3>4. j \in 1..L /\ j < i
      BY <2>2, <1>1, <1>8
    <3> QED BY <3>3, <3>4, <1>9
  <2> QED BY <2>1, <2>2, <1>10
<1>15. \A v \in vertices : Incoming(v) \subseteq Taken' =>
          \E i \in 1..(L + Len(s)) : order'[i] = v
  <2> SUFFICES ASSUME NEW v \in vertices, Incoming(v) \subseteq Taken \union {x}
               PROVE  \E i \in 1..(L + Len(s)) : order'[i] = v
    BY <1>13
  <2>1. CASE Incoming(v) \subseteq Taken
    <3>1. PICK i \in 1..L : order[i] = v
      BY <2>1 DEF OrderInv, Positions
    <3>2. i \in 1..(L + Len(s))
      BY <1>1, <1>8
    <3> QED BY <3>1, <3>2, <1>9
  <2>2. CASE x \in Incoming(v)
    <3>1. v \in Freed(x)
      BY <2>2 DEF Freed, Outgoing, Incoming
    <3>2. PICK k \in 1..Len(s) : s[k] = v
      BY <3>1, <1>7
    <3>3. L + k \in 1..(L + Len(s))
      BY <1>1, <1>8
    <3> QED BY <3>2, <3>3, <1>9
  <2> QED BY <2>1, <2>2
<1>16. OrderInv'
  <2>1. \A v \in vertices : Incoming(v)' = Incoming(v)
    BY <1>5 DEF Incoming
  <2>2. Positions' = 1..(L + Len(s))
    BY <1>9 DEF Positions
  <2> HIDE DEF L, x
  <2> QED BY <2>1, <2>2, <1>5, <1>14, <1>15 DEF OrderInv
<1>17. taken' \in 0..Len(order')
  BY <1>1, <1>5, <1>8, <1>9
<1> QED BY <1>9, <1>12, <1>16, <1>17

\* When no vertex is waiting any more: the order is complete if and only if
\* the graph has no cycle, and what it cannot order is a cycle.
LEMMA OrderedFacts ==
    ASSUME Shaped, OrderInv, Ordered
    PROVE  /\ Valid => ~Cyclic
           /\ ~Valid => /\ Leftover # {}
                        /\ Cyclic
                        /\ \E S \in SUBSET vertices :
                              S # {} /\ \A v \in S : \E u \in S : <<u, v>> \in Leftover
<1>1. /\ Len(order) \in Nat /\ order \in Seq(vertices) /\ Distinct(order)
      /\ taken = Len(order) /\ phase = "ordering"
      /\ vertices \in SUBSET Node /\ edges \in SUBSET (vertices \X vertices)
  <2>1. order \in Seq(vertices)
    BY DEF Shaped, TypeOK
  <2>2. Len(order) \in Nat
    BY <2>1, LenProperties
  <2> QED BY <2>1, <2>2 DEF Shaped, TypeOK, Ordered
<1>2. IsFiniteSet(vertices)
  BY <1>1, FS_Subset, ResolverAssumption
<1>3. Valid <=> \A v \in vertices : \E i \in 1..Len(order) : order[i] = v
  BY <1>1, <1>2, Covering DEF Valid
<1>4. \A i \in 1..Len(order) : order[i] \in vertices
  BY <1>1, ElementOfSeq
<1>5. \A v : v \in Taken <=> \E i \in 1..Len(order) : order[i] = v
  BY <1>1 DEF Taken
<1>6. ASSUME Valid, Cyclic PROVE FALSE
  <2>1. PICK S \in SUBSET vertices : S # {} /\ \A v \in S : Incoming(v) \intersect S # {}
    BY <1>6 DEF Cyclic
  <2> DEFINE K == {i \in 1..Len(order) : order[i] \in S}
  <2>2. K \in SUBSET Nat
    OBVIOUS
  <2>3. K # {}
    BY <2>1, <1>3, <1>6
  <2>4. PICK k \in K : \A j \in K : k <= j
    <3> HIDE DEF K
    <3> QED BY <2>2, <2>3, Least
  <2>5. PICK u \in S : <<u, order[k]>> \in edges
    BY <2>1, <2>4 DEF Incoming
  <2>6. PICK j \in 1..taken : j < k /\ order[j] = u
    BY <2>4, <2>5, <1>1 DEF OrderInv, Positions
  <2>7. j \in K
    BY <2>6, <1>1
  <2> QED BY <2>4, <2>6, <2>7, <1>1
<1>7. ASSUME ~Valid
      PROVE  /\ Leftover # {}
             /\ Cyclic
             /\ \E S \in SUBSET vertices :
                   S # {} /\ \A v \in S : \E u \in S : <<u, v>> \in Leftover
  <2> DEFINE S == vertices \ Taken
  <2>1. S # {}
    BY <1>7, <1>3, <1>5
  <2>2. \A v \in S : \E u \in S : <<u, v>> \in edges /\ <<u, v>> \in Leftover
    <3>1. TAKE v \in S
    <3>2. ~(Incoming(v) \subseteq Taken)
      BY <1>1, <1>5 DEF OrderInv, Positions
    <3>3. PICK u \in vertices : <<u, v>> \in edges /\ u \notin Taken
      BY <3>2 DEF Incoming
    <3>4. <<u, v>> \in Leftover
      BY <3>3 DEF Leftover
    <3> QED BY <3>3, <3>4
  <2>3. \A v \in S : Incoming(v) \intersect S # {}
    BY <2>2 DEF Incoming
  <2>4. S \in SUBSET vertices
    OBVIOUS
  <2> HIDE DEF S
  <2> QED BY <2>1, <2>2, <2>3, <2>4 DEF Cyclic
<1> QED BY <1>6, <1>7

-----------------------------------------------------------------------------
(* What a program says, and what the graph knows of it.                    *)

LEMMA ProgramFacts ==
    ASSUME program \in Programs, NEW r \in Record
    PROVE  /\ program.needs[r] \in SUBSET Edge
           /\ program.layout[r] \in SUBSET Edge
           /\ \A e \in program.needs[r] \union program.layout[r] :
                 Owner[e[2]] = r /\ Owner[e[1]] \in Mentions(program, r)
           /\ \A e \in program.layout[r] :
                 /\ r \in Instantiation
                 /\ \/ e[2] = r /\ e[1] \in Marker /\ Owner[e[1]] = r
                    \/ e[1] \in Record /\ e[2] \in Marker
                 /\ \A q \in Record :
                       Ends({e}) \intersect Ends(program.needs[q]) \subseteq Record
<1>1. program \in Program
  BY ResolverAssumption
<1>2. /\ program.needs[r] \in SUBSET Edge
      /\ program.layout[r] \in SUBSET Edge
  BY <1>1 DEF Program
<1>3. \A e \in program.needs[r] \union program.layout[r] : Owner[e[2]] = r
  BY ResolverAssumption
<1>4. \A e \in program.needs[r] \union program.layout[r] :
         Owner[e[1]] \in Mentions(program, r)
  BY DEF Mentions
<1>5. \A e \in program.layout[r] :
         /\ r \in Instantiation
         /\ \/ e[2] = r /\ e[1] \in Marker /\ Owner[e[1]] = r
            \/ e[1] \in Record /\ e[2] \in Marker
         /\ \A q \in Record :
               Ends({e}) \intersect Ends(program.needs[q]) \subseteq Record
  BY ResolverAssumption
<1> QED BY <1>2, <1>3, <1>4, <1>5

\* The ends of an edge.
LEMMA EndsFacts ==
    /\ \A e \in Edge : Ends({e}) = {e[1], e[2]}
    /\ \A E : \A x : x \in Ends(E) <=> \E e \in E : x = e[1] \/ x = e[2]
    /\ \A E, F : Ends(E \union F) = Ends(E) \union Ends(F)
    /\ \A E \in SUBSET Edge : Ends(E) \subseteq Node
    /\ Ends({}) = {}
<1>1. \A E : \A x : x \in Ends(E) <=> \E e \in E : x = e[1] \/ x = e[2]
  BY DEF Ends
<1>2. \A e \in Edge : Ends({e}) = {e[1], e[2]}
  BY DEF Ends
<1>3. \A E, F : Ends(E \union F) = Ends(E) \union Ends(F)
  BY DEF Ends
<1>4. \A E \in SUBSET Edge : Ends(E) \subseteq Node
  <2> TAKE E \in SUBSET Edge
  <2>1. \A e \in E : e[1] \in Node /\ e[2] \in Node
    BY DEF Edge
  <2> QED BY <2>1 DEF Ends
<1>5. Ends({}) = {}
  BY DEF Ends
<1> QED BY <1>1, <1>2, <1>3, <1>4, <1>5

\* The markers of a layout belong to its record and are in no needs.
LEMMA LayoutMarkers ==
    ASSUME program \in Programs, NEW r \in Record, NEW e \in program.layout[r],
           NEW m \in Ends({e}) \intersect Marker
    PROVE  /\ Owner[m] = r
           /\ m \in Node
           /\ \A q \in Record : m \notin Ends(program.needs[q])
<1>1. e \in Edge
  BY ProgramFacts
<1>2. m = e[1] \/ m = e[2]
  BY <1>1, EndsFacts
<1>3. Record \intersect Marker = {}
  BY ResolverAssumption
<1>4. Owner[m] = r
  BY <1>2, <1>3, ProgramFacts
<1>5. \A q \in Record : m \notin Ends(program.needs[q])
  <2> SUFFICES ASSUME NEW q \in Record, m \in Ends(program.needs[q]) PROVE FALSE
    OBVIOUS
  <2>1. m \in Record
    BY ProgramFacts
  <2> QED BY <2>1, <1>3
<1> QED BY <1>4, <1>5 DEF Node

\* What discovering the dependencies of the new records R finds.
LEMMA DiscoverFacts ==
    ASSUME Shaped, OwnedInv, NEW R \in SUBSET (Record \ found),
           \A r \in R : Mentions(program, r) \subseteq found \union R,
           NEW B \in SUBSET R, NEW E \in SUBSET Needs(R \union shallow),
           Discover(R, B, E)
    PROVE  /\ E \in SUBSET Edge
           /\ found' = found \union R
           /\ broken \subseteq broken' /\ broken' \subseteq found'
           /\ \A e \in E : Owner[e[1]] \in found' /\ Owner[e[2]] \in found'
           /\ \A r \in R \ broken' : program.needs[r] \subseteq E
           /\ \A r \in Record : \A e \in program.layout[r] :
                 Ends({e}) \intersect Marker \intersect Ends(E) = {}
<1>1. /\ program \in Programs /\ found \subseteq Record
      /\ broken \subseteq found /\ shallow \subseteq found
  BY DEF Shaped, TypeOK
<1>2. \A e \in E : \E r \in R \union shallow : e \in program.needs[r]
  BY DEF Needs
<1>3. R \union shallow \subseteq Record
  BY <1>1
<1>4. E \in SUBSET Edge
  BY <1>1, <1>2, <1>3, ProgramFacts
<1>5. found' = found \union R /\ broken' = broken \union B
  BY DEF Discover
<1>6. ASSUME NEW e \in E PROVE Owner[e[1]] \in found' /\ Owner[e[2]] \in found'
  <2>1. PICK r \in R \union shallow : e \in program.needs[r]
    BY <1>2
  <2>2. Owner[e[2]] = r /\ Owner[e[1]] \in Mentions(program, r)
    BY <1>1, <1>3, <2>1, ProgramFacts
  <2>3. Mentions(program, r) \subseteq found \union R
    BY <1>1, <2>1 DEF OwnedInv
  <2> QED BY <2>2, <2>3, <1>5, <1>1
<1>7. ASSUME NEW r \in R \ broken' PROVE program.needs[r] \subseteq E
  <2>1. r \in R \ B
    BY <1>5
  <2>2. PICK A \in SUBSET shallow : Needs((R \ B) \union A) \subseteq E
    BY DEF Discover
  <2> QED BY <2>1, <2>2 DEF Needs
<1>8. ASSUME NEW r \in Record, NEW e \in program.layout[r],
             NEW m \in Ends({e}) \intersect Marker, m \in Ends(E)
      PROVE  FALSE
  <2>1. PICK d \in E : m = d[1] \/ m = d[2]
    BY <1>8, EndsFacts
  <2>2. PICK q \in R \union shallow : d \in program.needs[q]
    BY <1>2
  <2>3. m \in Ends(program.needs[q])
    BY <2>1, <2>2, EndsFacts
  <2> QED BY <2>2, <2>3, <1>1, <1>3, LayoutMarkers
<1> QED BY <1>1, <1>4, <1>5, <1>6, <1>7, <1>8

\* What a node instantiates is new, and so is all that mentions.
LEMMA NewFacts ==
    ASSUME Shaped, NEW n \in Node, Owner[n] \in found
    PROVE  /\ New(n) \in SUBSET (Record \ found)
           /\ \A r \in New(n) : Mentions(program, r) \subseteq found \union New(n)
<1>1. program \in Programs /\ program \in Program
  BY ResolverAssumption DEF Shaped
<1>2. program.instantiates[n] \subseteq Instantiation
  BY <1>1 DEF Program
<1>3. Instantiation \subseteq Record
  BY ResolverAssumption
<1>4. \A r \in program.instantiates[n] :
         Mentions(program, r) \subseteq program.instantiates[n] \union {Owner[n]}
  BY <1>1, ResolverAssumption
<1> QED BY <1>2, <1>3, <1>4 DEF New

\* Whenever a step finds the records R and the edges F, and forgets no edge
\* but those of nodes that are done, the graph knows as much as before.
LEMMA Growth ==
    ASSUME Shaped, OwnedInv, LateInv, program' = program,
           NEW R \in SUBSET (Record \ found), NEW F \in SUBSET Edge,
           found' = found \union R,
           \A r \in R : Mentions(program, r) \subseteq found',
           \A e \in F : Owner[e[1]] \in found' /\ Owner[e[2]] \in found',
           broken \subseteq broken',
           \A r \in R \ broken' : program.needs[r] \subseteq F,
           shallow' \subseteq shallow \union R,
           R \intersect Instantiation \subseteq shallow',
           \A r \in shallow \ shallow' : r \in broken' \/ program.layout[r] \subseteq F,
           \A r \in Record : r \notin found' \/ r \in shallow' =>
              \A e \in program.layout[r] :
                 Ends({e}) \intersect Marker \intersect Ends(F) = {},
           vertices' \union done' = vertices \union done \union R \union Ends(F),
           done \subseteq done',
           \A e \in edges \union F : e \in edges' \/ e[1] \in done' \/ e[2] \in done'
    PROVE  /\ OwnedInv'
           /\ LateInv'
           /\ KnownInv => KnownInv'
<1>1. /\ program \in Programs /\ found \subseteq Record
      /\ broken \subseteq found /\ shallow \subseteq found
  BY DEF Shaped, TypeOK
<1>2. OwnedInv'
  <2>1. ASSUME NEW v \in vertices' \union done' PROVE Owner[v] \in found'
    <3>1. v \in vertices \union done \/ v \in R \/ \E e \in F : v = e[1] \/ v = e[2]
      BY <2>1, EndsFacts
    <3>2. CASE v \in R
      BY <3>2, ResolverAssumption
    <3> QED BY <3>1, <3>2 DEF OwnedInv
  <2>2. \A r \in found' : Mentions(program', r) \subseteq found'
    BY DEF OwnedInv
  <2>3. found' \subseteq vertices' \union done'
    BY DEF OwnedInv
  <2> QED BY <2>1, <2>2, <2>3 DEF OwnedInv
<1>3. LateInv'
  <2> SUFFICES ASSUME NEW r \in Record, r \notin found' \/ r \in shallow',
                      NEW e \in program.layout[r],
                      NEW m \in Ends({e}) \intersect Marker,
                      m \in vertices' \union done'
               PROVE  FALSE
    BY DEF LateInv
  <2>1. r \notin found \/ r \in shallow
    BY <1>1
  <2>2. m \notin vertices \union done
    BY <2>1 DEF LateInv
  <2>3. m \notin Ends(F)
    OBVIOUS
  <2>4. m \notin Record
    BY ResolverAssumption
  <2> QED BY <2>2, <2>3, <2>4
<1>4. ASSUME KnownInv PROVE KnownInv'
  <2> SUFFICES ASSUME NEW r \in found' \ broken', NEW e \in Expected(r)'
               PROVE  e \in edges' \/ e[1] \in done' \union NestedType \/ e[2] \in done'
    BY DEF KnownInv
  <2>1. e \in program.needs[r] \/ (e \in program.layout[r] /\ r \notin shallow')
    BY DEF Expected
  <2>2. CASE r \in R
    <3>1. e \notin program.layout[r] \/ r \in shallow'
      BY <2>2, <1>1, ProgramFacts
    <3>2. e \in F
      BY <2>1, <2>2, <3>1
    <3> QED BY <3>2
  <2>3. CASE r \in found /\ r \in shallow \ shallow' /\ e \in program.layout[r]
    BY <2>3
  <2>4. CASE r \in found /\ e \in Expected(r)
    <3>1. e \in edges \/ e[1] \in done \union NestedType \/ e[2] \in done
      BY <2>4, <1>4 DEF KnownInv
    <3> QED BY <3>1
  <2>5. r \in found => (r \in shallow \ shallow' /\ e \in program.layout[r]) \/ e \in Expected(r)
    BY <2>1 DEF Expected
  <2> QED BY <2>2, <2>3, <2>4, <2>5
<1> QED BY <1>2, <1>3, <1>4

-----------------------------------------------------------------------------
(* One turn of the resolution.                                             *)

\* What AtNode says about where the resolution is.
LEMMA AtNodeFacts ==
    ASSUME Shaped, ResolveInv, OwnedInv, NEW n \in Node, AtNode(n)
    PROVE  /\ n \in vertices /\ Owner[n] \in found /\ Owner[n] \in Record
           /\ phase = "resolving" /\ current \in Positions /\ order[current] = n
           /\ Len(order) \in Nat
<1>1. order \in Seq(vertices) /\ vertices \subseteq Node
  BY DEF Shaped, TypeOK
<1>2. Len(order) \in Nat
  BY <1>1, LenProperties
<1>3. current \in Positions
  BY <1>2 DEF AtNode, ResolveInv, Positions
<1>4. n \in vertices
  BY <1>1, <1>3, ElementOfSeq DEF AtNode, Positions
<1>5. Owner[n] \in Record
  BY ResolverAssumption
<1> QED BY <1>2, <1>3, <1>4, <1>5 DEF AtNode, OwnedInv

\* A node whose turn it is and that has no more incoming edges than when the
\* order was made has them from nodes that had their turn.
LEMMA NodeReady ==
    ASSUME Shaped, ResolveInv, OwnedInv, LateInv, KnownInv,
           NEW n \in Node, Resolving(n), Owner[n] \notin broken,
           NEW G \in SUBSET Edge, edges \subseteq G, ~Grown(n, G),
           n \in shallow => program.layout[n] \subseteq G
    PROVE  \A e \in Dependencies(n) : e[1] \in done \union NestedType
<1>1. AtNode(n) /\ n \notin done
  BY DEF Resolving
<1>2. /\ n \in vertices /\ Owner[n] \in found /\ Owner[n] \in Record
      /\ phase = "resolving" /\ current \in Positions /\ order[current] = n
      /\ Len(order) \in Nat
  BY <1>1, AtNodeFacts
<1>3. /\ program \in Programs /\ edges \in SUBSET (vertices \X vertices)
      /\ vertices \subseteq Node /\ numDependencies \in [Node -> Nat]
      /\ edges \in SUBSET Edge /\ shallow \subseteq Record
  <2>1. vertices \subseteq Node /\ edges \in SUBSET (vertices \X vertices)
    BY DEF Shaped, TypeOK
  <2>2. edges \in SUBSET Edge
    BY <2>1 DEF Edge
  <2> QED BY <2>1, <2>2 DEF Shaped, TypeOK
<1>4. PICK E \in SUBSET edges : Noted(E)
  BY <1>2 DEF ResolveInv
<1>5. numDependencies[n] = Cardinality(Into(n, E))
  BY <1>2, <1>4 DEF Noted
<1>6. Into(n, E) = Into(n, G)
  <2>1. Into(n, E) \in SUBSET Into(n, G)
    BY <1>4 DEF Into
  <2>2. IsFiniteSet(Into(n, G)) /\ Cardinality(Into(n, G)) \in Nat
    BY FiniteEdges
  <2>3. Cardinality(Into(n, E)) <= Cardinality(Into(n, G))
    BY <2>1, <2>2, FS_Subset
  <2>4. Cardinality(Into(n, E)) \in Nat
    BY <1>5, <1>3
  <2>5. Cardinality(Into(n, G)) <= numDependencies[n]
    BY <2>2, <1>3 DEF Grown
  <2>6. Cardinality(Into(n, G)) = Cardinality(Into(n, E))
    BY <2>2, <2>3, <2>4, <2>5, <1>5
  <2> QED BY <2>1, <2>2, <2>6, FS_Subset
<1>7. ASSUME NEW e \in G, e[2] = n PROVE e[1] \in done \union NestedType
  <2>1. e \in Into(n, E)
    BY <1>7, <1>6 DEF Into
  <2>2. e \in E /\ e \in vertices \X vertices
    BY <2>1, <1>3, <1>4 DEF Into
  <2>3. e = <<e[1], n>> /\ e[1] \in vertices
    BY <2>2, <1>7
  <2>4. PICK j \in Positions : j < current /\ order[j] = e[1]
    BY <2>2, <2>3, <1>2, <1>4 DEF Noted
  <2> QED BY <2>4, <1>2 DEF ResolveInv
<1>8. ASSUME NEW e \in Dependencies(n) PROVE e[1] \in done \union NestedType
  <2> DEFINE r == Owner[n]
  <2>1. e \in program.needs[r] \union program.layout[r] /\ e[2] = n
    BY DEF Dependencies, Into
  <2>2. CASE e \in Expected(r)
    <3>1. e \in edges \/ e[1] \in done \union NestedType
      BY <2>1, <2>2, <1>1, <1>2 DEF KnownInv
    <3> QED BY <3>1, <2>1, <1>7
  <2>3. CASE e \notin Expected(r)
    <3>1. r \in shallow /\ e \in program.layout[r]
      BY <2>1, <2>3 DEF Expected
    <3>2. e[2] = r \/ e[2] \in Marker
      BY <3>1, <1>2, <1>3, ProgramFacts
    <3>3. CASE e[2] = r
      BY <3>1, <3>3, <2>1, <1>7
    <3>4. CASE e[2] \in Marker
      <4>1. e \in Edge
        BY <3>1, <1>2, <1>3, ProgramFacts
      <4>2. e[2] \in Ends({e}) \intersect Marker \intersect vertices
        BY <4>1, <3>4, <2>1, <1>2, EndsFacts
      <4> QED BY <4>2, <3>1, <1>2 DEF LateInv
    <3> QED BY <3>2, <3>3, <3>4
  <2> QED BY <2>2, <2>3
<1> QED BY <1>8

\* The loop goes on behind a node that is done, or a nested type.
LEMMA ProceedFacts ==
    ASSUME Shaped, ResolveInv, OwnedInv, NEW n \in Node, AtNode(n),
           NEW D, Proceed(D), n \in done \union D \union NestedType,
           edges \subseteq edges'
    PROVE  /\ ResolveInv' /\ OrderInv'
           /\ phase' = "resolving" /\ current' \in Nat
<1>1. /\ phase = "resolving" /\ current \in Positions /\ order[current] = n
      /\ Len(order) \in Nat
  BY AtNodeFacts
<1>2. /\ done' = done \union D /\ current' = current + 1
      /\ order' = order /\ taken' = taken
      /\ numDependencies' = numDependencies /\ phase' = "resolving"
  BY <1>1 DEF Proceed
<1>3. current' \in Nat \ {0}
  BY <1>1, <1>2 DEF Positions
<1>4. ASSUME NEW i \in Positions, i < current + 1
      PROVE  order[i] \in done \union D \union NestedType
  <2>1. i < current \/ i = current
    BY <1>1, <1>4 DEF Positions
  <2>2. CASE i < current
    BY <2>2, <1>1 DEF ResolveInv
  <2> QED BY <2>1, <2>2, <1>1
<1>5. PICK E \in SUBSET edges : Noted(E)
  BY <1>1 DEF ResolveInv
<1>6. E \in SUBSET edges'
  OBVIOUS
<1>7. Positions' = Positions
  BY <1>2 DEF Positions
<1>8. edges \in SUBSET (vertices \X vertices)
  BY DEF Shaped, TypeOK
<1>9. \A i \in Positions :
         /\ numDependencies'[order'[i]] = Cardinality(Into(order'[i], E))
         /\ \A u \in vertices' : <<u, order'[i]>> \in E =>
               \E j \in Positions : j < i /\ order'[j] = u
  <2> TAKE i \in Positions
  <2>1. numDependencies[order[i]] = Cardinality(Into(order[i], E))
    BY <1>5 DEF Noted
  <2>2. ASSUME NEW u \in vertices', <<u, order[i]>> \in E
        PROVE  \E j \in Positions : j < i /\ order[j] = u
    <3>1. u \in vertices
      BY <2>2, <1>8
    <3> QED BY <3>1, <2>2, <1>5 DEF Noted
  <2> QED BY <2>1, <2>2, <1>2
<1>10. \E F \in SUBSET edges' :
          \A i \in Positions' :
             /\ numDependencies'[order'[i]] = Cardinality(Into(order'[i], F))
             /\ \A u \in vertices' : <<u, order'[i]>> \in F =>
                   \E j \in Positions' : j < i /\ order'[j] = u
  BY <1>6, <1>7, <1>9
<1>11. ResolveInv'
  BY <1>2, <1>3, <1>4, <1>7, <1>10 DEF ResolveInv, Noted
<1> QED BY <1>2, <1>3, <1>11 DEF OrderInv

\* The facts that a step establishes keep those that are done well-founded.
LEMMA DoneKept ==
    ASSUME DependenciesFirst, program' = program, broken \subseteq broken',
           done \subseteq done',
           \A n \in done' \ done : Owner[n] \notin broken' =>
              \A e \in Dependencies(n) : e[1] \in done' \union NestedType
    PROVE  DependenciesFirst'
<1> SUFFICES ASSUME NEW n \in done', Owner[n] \notin broken', NEW e \in Dependencies(n)'
             PROVE  e[1] \in done' \union NestedType
  BY DEF DependenciesFirst
<1>1. e \in Dependencies(n)
  BY DEF Dependencies
<1>2. CASE n \in done
  <2>1. Owner[n] \notin broken
    OBVIOUS
  <2>2. e[1] \in done \union NestedType
    BY <1>1, <1>2, <2>1 DEF DependenciesFirst
  <2> QED BY <2>2
<1>3. CASE n \notin done
  BY <1>1, <1>3
<1> QED BY <1>2, <1>3

\* Adding to the graph.
LEMMA AddFacts ==
    ASSUME Shaped, NEW V \in SUBSET Node, NEW E \in SUBSET Edge, Add(V, E)
    PROVE  /\ vertices' \subseteq Node /\ vertices \subseteq vertices'
           /\ edges' \in SUBSET (vertices' \X vertices') /\ edges \subseteq edges'
           /\ vertices' = vertices \union V \union Ends(E)
           /\ edges' = edges \union E
           /\ Seq(vertices) \subseteq Seq(vertices')
<1>1. vertices \subseteq Node /\ edges \in SUBSET (vertices \X vertices)
  BY DEF Shaped, TypeOK
<1>2. vertices' = vertices \union V \union Ends(E) /\ edges' = edges \union E
  BY DEF Add
<1>3. E \subseteq Ends(E) \X Ends(E)
  <2>1. ASSUME NEW e \in E PROVE e \in Ends(E) \X Ends(E)
    <3>1. e[1] \in Ends(E) /\ e[2] \in Ends(E)
      BY EndsFacts
    <3>2. e \in Node \X Node
      BY DEF Edge
    <3> QED BY <3>1, <3>2
  <2> QED BY <2>1
<1>4. edges' \in SUBSET (vertices' \X vertices')
  BY <1>1, <1>2, <1>3
<1>5. Seq(vertices) \subseteq Seq(vertices')
  <2>1. vertices \subseteq vertices'
    BY <1>2
  <2> QED BY <2>1, SeqMonotonic
<1> QED BY <1>1, <1>2, <1>4, <1>5, EndsFacts

\* Starting over.
LEMMA ResetFacts ==
    ASSUME Shaped, NEW V \in SUBSET Node, NEW E \in SUBSET Edge, Reset(V, E)
    PROVE  /\ vertices' \subseteq Node
           /\ edges' \in SUBSET (vertices' \X vertices')
           /\ vertices' = (vertices \union V \union Ends(E)) \ done
           /\ \A e \in edges \union E : e \in edges' \/ e[1] \in done \/ e[2] \in done
           /\ order' \in Seq(vertices') /\ Distinct(order')
           /\ taken' \in 0..Len(order')
           /\ phase' = "ordering" /\ current' = 0
           /\ done' = done /\ numDependencies' = numDependencies /\ error' = error
           /\ OrderInv' /\ ResolveInv'
<1>1. vertices \subseteq Node /\ edges \in SUBSET (vertices \X vertices)
  BY DEF Shaped, TypeOK
<1>2. /\ vertices' = (vertices \union V \union Ends(E)) \ done
      /\ edges' = Without(done, edges \union E)
      /\ Order(vertices', edges')
      /\ done' = done /\ numDependencies' = numDependencies /\ error' = error
  BY DEF Reset
<1>3. vertices' \in SUBSET Node
  BY <1>1, <1>2, EndsFacts
<1>4. ASSUME NEW e \in edges' PROVE e \in vertices' \X vertices'
  <2>1. e \in edges \union E /\ e[1] \notin done /\ e[2] \notin done
    BY <1>2 DEF Without
  <2>2. e \in Node \X Node
    BY <2>1, <1>1 DEF Edge
  <2>3. e[1] \in vertices \union Ends(E) /\ e[2] \in vertices \union Ends(E)
    BY <2>1, <1>1, EndsFacts
  <2> QED BY <2>1, <2>2, <2>3, <1>2
<1>5. edges' \in SUBSET (vertices' \X vertices')
  BY <1>4
<1>6. /\ BeginOrder(vertices', edges')
      /\ phase' = "ordering" /\ current' = 0
  BY <1>2 DEF Order
<1>7. /\ order' \in Seq(vertices') /\ Distinct(order')
      /\ taken' \in 0..Len(order') /\ OrderInv'
  BY <1>3, <1>5, <1>6, BeginOrderFacts
<1>8. \A e \in edges \union E : e \in edges' \/ e[1] \in done \/ e[2] \in done
  BY <1>2 DEF Without
<1>9. ResolveInv'
  BY <1>6 DEF ResolveInv
<1> QED BY <1>2, <1>3, <1>5, <1>6, <1>7, <1>8, <1>9

\* Leaving.
LEMMA LeaveFacts ==
    ASSUME NEW res, Leave(res)
    PROVE  /\ phase' = "idle" /\ result' = res /\ error' = FALSE
           /\ current' = 0 /\ taken' = 0
           /\ \A S : order' \in Seq(S)
           /\ taken' \in 0..Len(order') /\ Distinct(order')
           /\ OrderInv' /\ ResolveInv'
<1>1. /\ phase' = "idle" /\ result' = res /\ error' = FALSE
      /\ current' = 0 /\ taken' = 0 /\ order' = <<>>
  BY DEF Leave
<1>2. \A S : order' \in Seq(S)
  BY <1>1, EmptySeq
<1>3. Len(order') = 0
  BY <1>1, EmptySeq
<1>4. OrderInv' /\ ResolveInv'
  BY <1>1 DEF OrderInv, ResolveInv
<1> QED BY <1>1, <1>2, <1>3, <1>4 DEF Distinct

\* What a node instantiates, and what it finds by completing an instance.
LEMMA InstantiateFacts ==
    ASSUME Shaped, OwnedInv, NEW n \in Node, Owner[n] \in found,
           NEW E \in SUBSET Needs(New(n) \union shallow), Instantiate(n, E)
    PROVE  /\ New(n) \in SUBSET (Record \ found) /\ New(n) \in SUBSET Node
           /\ \A r \in New(n) : Mentions(program, r) \subseteq found'
           /\ E \in SUBSET Edge /\ Layout(n) \in SUBSET Edge
           /\ E \union Layout(n) \in SUBSET Edge
           /\ found' = found \union New(n) /\ found' \subseteq Record
           /\ broken \subseteq broken' /\ broken' \subseteq found'
           /\ shallow' = (shallow \union New(n)) \ {n}
           /\ shallow' \subseteq found' \intersect Instantiation
           /\ n \in shallow => n \in Record /\ Layout(n) = program.layout[n]
           /\ n \notin shallow => Layout(n) = {}
           /\ \A e \in E \union Layout(n) : Owner[e[1]] \in found' /\ Owner[e[2]] \in found'
           /\ \A r \in New(n) \ broken' : program.needs[r] \subseteq E
           /\ \A r \in Record : \A e \in program.layout[r] :
                 Ends({e}) \intersect Marker \intersect Ends(E) = {}
<1>1. /\ program \in Programs /\ found \subseteq Record
      /\ shallow \subseteq found \intersect Instantiation
  BY DEF Shaped, TypeOK
<1>2. /\ New(n) \in SUBSET (Record \ found)
      /\ \A r \in New(n) : Mentions(program, r) \subseteq found \union New(n)
  BY NewFacts
<1>3. New(n) \subseteq Instantiation
  <2>1. program \in Program
    BY <1>1, ResolverAssumption
  <2> QED BY <2>1 DEF New, Program
<1>4. PICK B \in SUBSET New(n) : Discover(New(n), B, E)
  BY DEF Instantiate
<1>5. /\ E \in SUBSET Edge
      /\ found' = found \union New(n)
      /\ broken \subseteq broken' /\ broken' \subseteq found'
      /\ \A e \in E : Owner[e[1]] \in found' /\ Owner[e[2]] \in found'
      /\ \A r \in New(n) \ broken' : program.needs[r] \subseteq E
      /\ \A r \in Record : \A e \in program.layout[r] :
            Ends({e}) \intersect Marker \intersect Ends(E) = {}
  BY <1>2, <1>4, DiscoverFacts
<1>6. shallow' = (shallow \union New(n)) \ {n}
  BY DEF Instantiate
<1>7. /\ n \in shallow => n \in Record /\ Layout(n) = program.layout[n]
      /\ n \notin shallow => Layout(n) = {}
  BY <1>1 DEF Layout
<1>8. Layout(n) \in SUBSET Edge
  BY <1>1, <1>7, ProgramFacts
<1>9. ASSUME NEW e \in Layout(n) PROVE Owner[e[1]] \in found' /\ Owner[e[2]] \in found'
  <2>1. n \in shallow /\ n \in Record /\ e \in program.layout[n]
    BY <1>7
  <2>2. Owner[e[2]] = n /\ Owner[e[1]] \in Mentions(program, n)
    BY <1>1, <2>1, ProgramFacts
  <2>3. Mentions(program, n) \subseteq found
    BY <1>1, <2>1 DEF OwnedInv
  <2> QED BY <2>1, <2>2, <2>3, <1>1, <1>5
<1>10. New(n) \in SUBSET Node
  BY <1>2 DEF Node
<1> QED BY <1>1, <1>2, <1>3, <1>5, <1>6, <1>7, <1>8, <1>9, <1>10

LEMMA InstantiateGrowth ==
    ASSUME Shaped, OwnedInv, LateInv, KnownInv, program' = program,
           NEW n \in Node, Owner[n] \in found,
           NEW E \in SUBSET Needs(New(n) \union shallow), Instantiate(n, E),
           done \subseteq done',
           vertices' \union done' =
               vertices \union done \union New(n) \union Ends(E \union Layout(n)),
           \A e \in edges \union (E \union Layout(n)) :
               e \in edges' \/ e[1] \in done' \/ e[2] \in done'
    PROVE  OwnedInv' /\ LateInv' /\ KnownInv'
<1> DEFINE R == New(n)
           F == E \union Layout(n)
<1>1. /\ R \in SUBSET (Record \ found)
      /\ \A r \in R : Mentions(program, r) \subseteq found'
      /\ F \in SUBSET Edge
      /\ found' = found \union R
      /\ broken \subseteq broken'
      /\ shallow' = (shallow \union R) \ {n}
      /\ n \in shallow => n \in Record /\ Layout(n) = program.layout[n]
      /\ n \notin shallow => Layout(n) = {}
      /\ \A e \in F : Owner[e[1]] \in found' /\ Owner[e[2]] \in found'
      /\ \A r \in R \ broken' : program.needs[r] \subseteq F
      /\ \A r \in Record : \A e \in program.layout[r] :
            Ends({e}) \intersect Marker \intersect Ends(E) = {}
  BY InstantiateFacts
<1>2. n \notin R
  <2>1. CASE n \in Record
    BY <2>1, <1>1, ResolverAssumption
  <2> QED BY <2>1, <1>1
<1>3. shallow \subseteq found /\ program \in Programs
  BY DEF Shaped, TypeOK
<1>4. ASSUME NEW r \in Record, r \notin found' \/ r \in shallow',
             NEW e \in program.layout[r], NEW m \in Ends({e}) \intersect Marker,
             m \in Ends(F)
      PROVE  FALSE
  <2>1. m \in Ends(Layout(n))
    <3>1. Ends(F) = Ends(E) \union Ends(Layout(n))
      BY EndsFacts
    <3>2. Ends({e}) \intersect Marker \intersect Ends(E) = {}
      BY <1>1, <1>4
    <3> QED BY <3>1, <3>2, <1>4
  <2>2. PICK d \in Layout(n) : m = d[1] \/ m = d[2]
    BY <2>1, EndsFacts
  <2>3. n \in shallow /\ n \in Record /\ d \in program.layout[n]
    BY <2>2, <1>1
  <2>4. m \in Ends({d}) \intersect Marker
    BY <2>2, <2>3, <1>3, EndsFacts, ProgramFacts
  <2>5. Owner[m] = r /\ Owner[m] = n
    BY <2>3, <2>4, <1>3, LayoutMarkers
  <2> QED BY <2>3, <2>5, <1>1, <1>3, <1>4
<1>5. \A r \in Record : r \notin found' \/ r \in shallow' =>
         \A e \in program.layout[r] :
            Ends({e}) \intersect Marker \intersect Ends(F) = {}
  BY <1>4
<1>6. R \intersect Instantiation \subseteq shallow' /\ shallow' \subseteq shallow \union R
  BY <1>1, <1>2
<1>7. \A r \in shallow \ shallow' : program.layout[r] \subseteq F
  BY <1>1
<1> HIDE DEF R
<1>8. vertices' \union done' = vertices \union done \union R \union Ends(F)
  BY DEF R
<1>9. \A e \in edges \union F : e \in edges' \/ e[1] \in done' \/ e[2] \in done'
  OBVIOUS
<1> HIDE DEF F
<1> QED BY <1>1, <1>5, <1>6, <1>7, <1>8, <1>9, Growth

-----------------------------------------------------------------------------
(* The invariant.                                                          *)

\* Steps that only order the graph.
LEMMA GraphKept ==
    ASSUME IInv, program' = program, vertices' = vertices, edges' = edges,
           found' = found, broken' = broken, shallow' = shallow, done' = done
    PROVE  /\ OwnedInv' /\ LateInv' /\ DependenciesFirst'
           /\ KnownInv => KnownInv'
           /\ Cyclic => Cyclic'
<1>1. OwnedInv' /\ LateInv'
  BY DEF IInv, OwnedInv, LateInv
<1>2. DependenciesFirst'
  BY DoneKept DEF IInv
<1>3. KnownInv => KnownInv'
  BY DEF KnownInv, Expected
<1>4. Cyclic => Cyclic'
  BY DEF Cyclic, Incoming
<1> QED BY <1>1, <1>2, <1>3, <1>4

LEMMA InitInv == Init => IInv
<1> SUFFICES ASSUME Init PROVE IInv
  OBVIOUS
<1>1. Shaped
  <2>1. program \in Programs /\ program \in Program
    BY ResolverAssumption DEF Init
  <2>2. order \in Seq(vertices) /\ Len(order) = 0
    BY EmptySeq DEF Init
  <2>3. taken \in 0..Len(order)
    BY <2>2 DEF Init
  <2>4. numDependencies \in [Node -> Nat]
    BY DEF Init
  <2>5. TypeOK
    BY <2>1, <2>2, <2>3, <2>4 DEF Init, TypeOK
  <2> QED BY <2>1, <2>2, <2>5 DEF Shaped, Distinct
<1>2. OrderInv /\ ResolveInv
  BY DEF Init, OrderInv, ResolveInv
<1>3. OwnedInv /\ LateInv /\ KnownInv /\ DependenciesFirst /\ PendingInv
  BY DEF Init, OwnedInv, LateInv, KnownInv, DependenciesFirst, PendingInv
<1> QED BY <1>1, <1>2, <1>3 DEF IInv

LEMMA PrepareKeeps ==
    ASSUME IInv, NEW R \in SUBSET (program.contexts \ found), PrepareNameLookup(R)
    PROVE  IInv'
<1> USE DEF IInv
<1>1. /\ program \in Programs /\ program \in Program /\ phase = "idle"
      /\ program' = program /\ done' = done /\ numDependencies' = numDependencies
      /\ pending' = pending /\ complete' = complete /\ invalid' = invalid
      /\ shallow' = shallow \union (R \intersect Instantiation)
      /\ \A r \in R : Mentions(program, r) \subseteq found \union R
  BY DEF PrepareNameLookup, Shaped, TypeOK
<1>2. R \in SUBSET (Record \ found) /\ R \in SUBSET Node
  BY <1>1 DEF Program, Node
<1>3. PICK B \in SUBSET R, E \in SUBSET Needs(R \union shallow) :
         /\ Discover(R, B, E)
         /\ Add(R, E)
         /\ \/ Order(vertices', edges') /\ UNCHANGED <<error, result>>
            \/ Leave("error")
  BY DEF PrepareNameLookup
<1>4. /\ E \in SUBSET Edge
      /\ found' = found \union R
      /\ broken \subseteq broken' /\ broken' \subseteq found'
      /\ \A e \in E : Owner[e[1]] \in found' /\ Owner[e[2]] \in found'
      /\ \A r \in R \ broken' : program.needs[r] \subseteq E
      /\ \A r \in Record : \A e \in program.layout[r] :
            Ends({e}) \intersect Marker \intersect Ends(E) = {}
  BY <1>1, <1>2, <1>3, DiscoverFacts
<1>5. /\ vertices' \subseteq Node /\ vertices \subseteq vertices'
      /\ edges' \in SUBSET (vertices' \X vertices') /\ edges \subseteq edges'
      /\ vertices' = vertices \union R \union Ends(E)
      /\ edges' = edges \union E
  BY <1>2, <1>3, <1>4, AddFacts
<1>6. /\ OwnedInv' /\ LateInv'
      /\ KnownInv => KnownInv'
  <2>1. /\ \A r \in R : Mentions(program, r) \subseteq found'
        /\ shallow' \subseteq shallow \union R
        /\ R \intersect Instantiation \subseteq shallow'
        /\ \A r \in shallow \ shallow' : r \in broken' \/ program.layout[r] \subseteq E
    BY <1>1, <1>4
  <2>2. \A r \in Record : r \notin found' \/ r \in shallow' =>
           \A e \in program.layout[r] :
              Ends({e}) \intersect Marker \intersect Ends(E) = {}
    BY <1>4
  <2>3. /\ vertices' \union done' = vertices \union done \union R \union Ends(E)
        /\ done \subseteq done'
        /\ \A e \in edges \union E : e \in edges' \/ e[1] \in done' \/ e[2] \in done'
    BY <1>1, <1>5
  <2>4. Shaped /\ OwnedInv /\ LateInv /\ program' = program
    BY <1>1
  <2> QED BY <1>2, <1>4, <2>1, <2>2, <2>3, <2>4, Growth
<1>7. ASSUME Cyclic PROVE Cyclic'
  <2>1. PICK S \in SUBSET vertices : S # {} /\ \A v \in S : Incoming(v) \intersect S # {}
    BY <1>7 DEF Cyclic
  <2>2. \A v \in S : Incoming(v)' \intersect S # {}
    BY <2>1, <1>5 DEF Incoming
  <2>3. S \in SUBSET vertices'
    BY <1>5
  <2> QED BY <2>1, <2>2, <2>3 DEF Cyclic
<1>8. DependenciesFirst'
  BY <1>1, <1>4, DoneKept
<1>9. /\ order' \in Seq(vertices') /\ Distinct(order')
      /\ taken' \in 0..Len(order')
      /\ OrderInv' /\ ResolveInv'
      /\ phase' \in {"ordering", "idle"} /\ current' \in Nat /\ error' \in BOOLEAN
      /\ result' \in {"none", "ok", "error", "circular"}
      /\ phase' = "ordering" \/ result' = "error"
  <2>1. CASE Order(vertices', edges') /\ UNCHANGED <<error, result>>
    <3>1. BeginOrder(vertices', edges') /\ phase' = "ordering" /\ current' = 0
      BY <2>1 DEF Order
    <3>2. /\ order' \in Seq(vertices') /\ Distinct(order')
          /\ taken' \in 0..Len(order') /\ OrderInv'
      BY <3>1, <1>5, BeginOrderFacts
    <3>3. ResolveInv'
      BY <3>1 DEF ResolveInv
    <3>4. error' \in BOOLEAN /\ result' \in {"none", "ok", "error", "circular"}
      BY <2>1 DEF Shaped, TypeOK
    <3> QED BY <3>1, <3>2, <3>3, <3>4
  <2>2. CASE Leave("error")
    <3>1. /\ phase' = "idle" /\ result' = "error" /\ error' = FALSE
          /\ current' = 0 /\ order' \in Seq(vertices')
          /\ taken' \in 0..Len(order') /\ Distinct(order')
          /\ OrderInv' /\ ResolveInv'
      BY <2>2, LeaveFacts
    <3> QED BY <3>1
  <2> QED BY <2>1, <2>2, <1>3
<1>10. Shaped'
  <2>1. /\ found' \subseteq Record /\ found \subseteq found'
        /\ shallow' \subseteq found' \intersect Instantiation
    BY <1>1, <1>2, <1>4 DEF Shaped, TypeOK
  <2>2. pending' \subseteq found' /\ complete' \subseteq found' /\ invalid' \subseteq found'
    BY <1>1, <2>1 DEF Shaped, TypeOK
  <2>3. done' \subseteq Node /\ numDependencies' \in [Node -> Nat]
    BY <1>1 DEF Shaped, TypeOK
  <2>4. TypeOK'
    BY <1>1, <1>4, <1>5, <1>9, <2>1, <2>2, <2>3 DEF TypeOK
  <2> QED BY <2>4, <1>1, <1>9 DEF Shaped
<1>11. PendingInv'
  BY <1>1, <1>9 DEF PendingInv
<1>12. KnownInv' \/ (Cyclic' /\ phase' # "resolving")
  BY <1>6, <1>7, <1>9
<1> QED BY <1>6, <1>8, <1>9, <1>10, <1>11, <1>12

LEMMA OrderNextKeeps ==
    ASSUME IInv, OrderNext
    PROVE  IInv'
<1> USE DEF IInv
<1>1. /\ phase = "ordering" /\ TakeVertex
      /\ vertices' = vertices /\ edges' = edges
      /\ UNCHANGED <<program, found, broken, shallow, done, numDependencies,
                     phase, current, error, pending, complete, invalid, result>>
  BY DEF OrderNext, TakeVertex, records, outcome
<1>2. /\ order' \in Seq(vertices) /\ Distinct(order')
      /\ taken' \in 0..Len(order') /\ OrderInv'
  BY <1>1, TakeVertexFacts
<1>3. Shaped'
  BY <1>1, <1>2 DEF Shaped, TypeOK
<1>4. /\ OwnedInv' /\ LateInv' /\ DependenciesFirst'
      /\ KnownInv => KnownInv'
      /\ Cyclic => Cyclic'
  BY <1>1, GraphKept
<1>5. ResolveInv' /\ PendingInv'
  BY <1>1 DEF ResolveInv, PendingInv
<1> QED BY <1>1, <1>2, <1>3, <1>4, <1>5

LEMMA StartKeeps ==
    ASSUME IInv, StartResolving
    PROVE  IInv'
<1> USE DEF IInv
<1>1. /\ Ordered /\ Valid
      /\ vertices' = vertices /\ edges' = edges /\ order' = order /\ taken' = taken
      /\ phase' = "resolving" /\ current' = 1
      /\ UNCHANGED <<program, found, broken, shallow, done, error,
                     pending, complete, invalid, result>>
  BY DEF StartResolving, graph, records, outcome
<1>2. ~Cyclic
  BY <1>1, OrderedFacts
<1>3. /\ OwnedInv' /\ LateInv' /\ DependenciesFirst' /\ KnownInv'
  BY <1>1, <1>2, GraphKept
<1>4. /\ vertices \subseteq Node /\ edges \in SUBSET Edge /\ order \in Seq(vertices)
      /\ taken = Len(order) /\ phase = "ordering"
      /\ numDependencies \in [Node -> Nat]
  BY <1>1 DEF Shaped, TypeOK, Ordered, Edge
<1>5. \A n \in Node :
         numDependencies'[n] = IF n \in vertices THEN Cardinality(Into(n, edges))
                                                 ELSE numDependencies[n]
  BY DEF StartResolving
<1>6. numDependencies' \in [Node -> Nat]
  <2>1. \A n \in Node : Cardinality(Into(n, edges)) \in Nat
    BY <1>4, FiniteEdges
  <2> QED BY <1>4, <2>1 DEF StartResolving
<1>7. \A i \in Positions : order[i] \in vertices
  BY <1>4, ElementOfSeq DEF Positions
<1>8. Noted(edges)'
  <2>1. \A i \in Positions :
           /\ numDependencies'[order[i]] = Cardinality(Into(order[i], edges))
           /\ \A u \in vertices : <<u, order[i]>> \in edges =>
                 \E j \in Positions : j < i /\ order[j] = u
    BY <1>4, <1>5, <1>7 DEF OrderInv, Positions
  <2> QED BY <2>1, <1>1 DEF Noted, Positions
<1>9. ResolveInv'
  <2>1. current' \in Nat \ {0} /\ \A i \in Positions' : ~(i < current')
    BY <1>1 DEF Positions
  <2> QED BY <2>1, <1>1, <1>8 DEF ResolveInv
<1>10. Shaped'
  BY <1>1, <1>6 DEF Shaped, TypeOK
<1>11. OrderInv' /\ PendingInv'
  BY <1>1 DEF OrderInv, PendingInv
<1> QED BY <1>3, <1>9, <1>10, <1>11

LEMMA DiagnoseKeeps ==
    ASSUME IInv, DiagnoseCircularDependency
    PROVE  IInv'
<1> USE DEF IInv
<1>1. /\ Ordered /\ ~Valid /\ edges' = Leftover /\ Leave("circular")
      /\ vertices' = vertices
      /\ UNCHANGED <<program, found, broken, shallow, done, numDependencies,
                     pending, complete, invalid>>
  BY DEF DiagnoseCircularDependency, records
<1>2. PICK S \in SUBSET vertices :
         S # {} /\ \A v \in S : \E u \in S : <<u, v>> \in Leftover
  BY <1>1, OrderedFacts
<1>3. Cyclic'
  <2>1. \A v \in S : {u \in vertices : <<u, v>> \in Leftover} \intersect S # {}
    BY <1>2
  <2> QED BY <2>1, <1>1, <1>2 DEF Cyclic, Incoming
<1>4. /\ phase' = "idle" /\ result' = "circular" /\ error' = FALSE
      /\ current' = 0 /\ order' \in Seq(vertices)
      /\ taken' \in 0..Len(order') /\ Distinct(order')
      /\ OrderInv' /\ ResolveInv'
  BY <1>1, LeaveFacts
<1>5. edges' \in SUBSET (vertices' \X vertices')
  BY <1>1 DEF Leftover, Shaped, TypeOK
<1>6. Shaped'
  BY <1>1, <1>4, <1>5 DEF Shaped, TypeOK
<1>7. OwnedInv' /\ LateInv'
  BY <1>1 DEF OwnedInv, LateInv
<1>8. DependenciesFirst'
  BY <1>1, DoneKept
<1>9. PendingInv'
  BY <1>1, <1>4 DEF PendingInv
<1> QED BY <1>3, <1>4, <1>6, <1>7, <1>8, <1>9

LEMMA SkipKeeps ==
    ASSUME IInv, NEW n \in Node, SkipNode(n)
    PROVE  IInv'
<1> USE DEF IInv
<1>1. /\ AtNode(n) /\ n \in done /\ Proceed({})
      /\ vertices' = vertices /\ edges' = edges
      /\ UNCHANGED <<program, found, broken, shallow, error,
                     pending, complete, invalid, result>>
  BY DEF SkipNode, records, outcome
<1>2. /\ done' = done /\ order' = order /\ taken' = taken
      /\ numDependencies' = numDependencies
  BY <1>1 DEF Proceed
<1>3. ResolveInv' /\ OrderInv' /\ phase' = "resolving" /\ current' \in Nat
  BY <1>1, ProceedFacts
<1>4. OwnedInv' /\ LateInv' /\ DependenciesFirst' /\ (KnownInv => KnownInv')
  BY <1>1, <1>2, GraphKept
<1>5. phase = "resolving"
  BY <1>1 DEF AtNode
<1>6. Shaped' /\ PendingInv'
  BY <1>1, <1>2, <1>3 DEF Shaped, TypeOK, PendingInv
<1> QED BY <1>3, <1>4, <1>5, <1>6

LEMMA SeeNewKeeps ==
    ASSUME IInv, NEW n \in Node, SeeNewDependencies(n)
    PROVE  IInv'
<1> USE DEF IInv
<1>1. /\ phase = "resolving" /\ Reset({}, {})
      /\ UNCHANGED <<program, found, broken, shallow, pending, complete, invalid, result>>
  BY DEF SeeNewDependencies, AtNode, records, outcome
<1>2. /\ vertices' \subseteq Node
      /\ edges' \in SUBSET (vertices' \X vertices')
      /\ vertices' = (vertices \union {} \union Ends({})) \ done
      /\ \A e \in edges \union {} : e \in edges' \/ e[1] \in done \/ e[2] \in done
      /\ order' \in Seq(vertices') /\ Distinct(order')
      /\ taken' \in 0..Len(order')
      /\ phase' = "ordering" /\ current' = 0
      /\ done' = done /\ numDependencies' = numDependencies /\ error' = error
      /\ OrderInv' /\ ResolveInv'
  BY <1>1, ResetFacts
<1>3. vertices' \union done' = vertices \union done \union {} \union Ends({})
  BY <1>2, EndsFacts
<1>4. OwnedInv' /\ LateInv' /\ (KnownInv => KnownInv')
  <2>1. Shaped /\ OwnedInv /\ LateInv
    OBVIOUS
  <2>2. shallow \ shallow' = {} /\ found' = found \union {} /\ Ends({}) = {}
    BY <1>1, EndsFacts
  <2> QED BY <2>1, <2>2, <1>1, <1>2, <1>3, Growth
<1>5. DependenciesFirst'
  BY <1>1, <1>2, DoneKept
<1>6. Shaped' /\ PendingInv'
  BY <1>1, <1>2 DEF Shaped, TypeOK, PendingInv
<1> QED BY <1>1, <1>2, <1>4, <1>5, <1>6


\* What a node leaves when it is resolved, and stays in the loop or leaves it.
LEMMA ResolvingFacts ==
    ASSUME IInv, NEW n \in Node, Resolving(n), program' = program,
           NEW E \in SUBSET Needs(New(n) \union shallow),
           Instantiate(n, E), Add(New(n), E \union Layout(n)),
           NEW G \in SUBSET Edge, edges \subseteq G, ~Grown(n, G),
           n \in shallow => program.layout[n] \subseteq G,
           done' = done \/ done' = done \union {n}
    PROVE  /\ AtNode(n) /\ n \in vertices /\ phase = "resolving"
           /\ vertices' \subseteq Node /\ done' \subseteq Node
           /\ edges' \in SUBSET (vertices' \X vertices') /\ edges \subseteq edges'
           /\ Seq(vertices) \subseteq Seq(vertices')
           /\ found' \subseteq Record /\ found \subseteq found'
           /\ broken' \subseteq found'
           /\ shallow' \subseteq found' \intersect Instantiation
           /\ program' \in Program /\ program' \in Programs
           /\ OwnedInv' /\ LateInv' /\ KnownInv' /\ DependenciesFirst'
<1> USE DEF IInv
<1>1. AtNode(n) /\ n \notin done
  BY DEF Resolving
<1>2. /\ n \in vertices /\ Owner[n] \in found /\ Owner[n] \in Record
      /\ phase = "resolving"
  BY <1>1, AtNodeFacts
<1>3. KnownInv
  BY <1>2
<1>4. /\ New(n) \in SUBSET Node /\ E \union Layout(n) \in SUBSET Edge
      /\ found' = found \union New(n) /\ found' \subseteq Record
      /\ broken \subseteq broken' /\ broken' \subseteq found'
      /\ shallow' \subseteq found' \intersect Instantiation
  BY <1>2, InstantiateFacts
<1>5. /\ vertices' \subseteq Node /\ vertices \subseteq vertices'
      /\ edges' \in SUBSET (vertices' \X vertices') /\ edges \subseteq edges'
      /\ vertices' = vertices \union New(n) \union Ends(E \union Layout(n))
      /\ edges' = edges \union (E \union Layout(n))
      /\ Seq(vertices) \subseteq Seq(vertices')
  BY <1>4, AddFacts
<1>6. OwnedInv' /\ LateInv' /\ KnownInv'
  <2>1. vertices' \union done' =
            vertices \union done \union New(n) \union Ends(E \union Layout(n))
    BY <1>2, <1>5
  <2>2. \A e \in edges \union (E \union Layout(n)) :
            e \in edges' \/ e[1] \in done' \/ e[2] \in done'
    BY <1>5
  <2>3. Shaped /\ OwnedInv /\ LateInv /\ done \subseteq done'
    OBVIOUS
  <2> QED BY <2>1, <2>2, <2>3, <1>2, <1>3, InstantiateGrowth
<1>7. DependenciesFirst'
  <2>1. ASSUME Owner[n] \notin broken
        PROVE  \A e \in Dependencies(n) : e[1] \in done \union NestedType
    <3>1. Shaped /\ ResolveInv /\ OwnedInv /\ LateInv
      OBVIOUS
    <3> QED BY <2>1, <3>1, <1>3, NodeReady
  <2>2. \A m \in done' \ done : Owner[m] \notin broken' =>
           \A e \in Dependencies(m) : e[1] \in done' \union NestedType
    BY <2>1, <1>4
  <2>3. DependenciesFirst /\ done \subseteq done'
    OBVIOUS
  <2> QED BY <2>2, <2>3, <1>4, DoneKept
<1>8. done' \subseteq Node /\ program' \in Program /\ program' \in Programs
  BY DEF Shaped, TypeOK
<1> QED BY <1>1, <1>2, <1>4, <1>5, <1>6, <1>7, <1>8

\* The rest of the types, when the loop goes on or is left.
LEMMA ShapedWhenResolved ==
    ASSUME IInv, vertices' \subseteq Node,
           edges' \in SUBSET (vertices' \X vertices'),
           found' \subseteq Record, found \subseteq found', broken' \subseteq found',
           shallow' \subseteq found' \intersect Instantiation,
           program' \in Program, program' \in Programs, done' \subseteq Node,
           numDependencies' = numDependencies,
           order' \in Seq(vertices'), taken' \in 0..Len(order'), Distinct(order'),
           phase' \in {"idle", "ordering", "resolving"}, current' \in Nat,
           error' \in BOOLEAN,
           result' \in {"none", "ok", "error", "circular"},
           pending' \subseteq found', complete' = complete, invalid' \subseteq found'
    PROVE  Shaped'
<1>1. complete' \subseteq found' /\ numDependencies' \in [Node -> Nat]
  BY DEF IInv, Shaped, TypeOK
<1>2. TypeOK'
  BY <1>1 DEF TypeOK
<1> QED BY <1>2 DEF Shaped

\* Going on in the loop keeps the order, leaving it forgets it.
LEMMA OrderAfter ==
    ASSUME IInv, NEW n \in Node, AtNode(n),
           Seq(vertices) \subseteq Seq(vertices'), edges \subseteq edges',
           \/ Proceed({n}) /\ UNCHANGED result
           \/ Leave("error")
    PROVE  /\ order' \in Seq(vertices') /\ taken' \in 0..Len(order') /\ Distinct(order')
           /\ OrderInv' /\ ResolveInv' /\ current' \in Nat
           /\ \/ phase' = "resolving" /\ done' = done \union {n}
                 /\ numDependencies' = numDependencies
              \/ phase' = "idle" /\ result' = "error" /\ error' = FALSE
           /\ result' \in {"none", "ok", "error", "circular"}
<1>1. CASE Proceed({n}) /\ UNCHANGED result
  <2>1. /\ done' = done \union {n} /\ order' = order /\ taken' = taken
        /\ numDependencies' = numDependencies
    BY <1>1 DEF Proceed
  <2>2. ResolveInv' /\ OrderInv' /\ phase' = "resolving" /\ current' \in Nat
    <3>1. n \in done \union {n} \union NestedType /\ Shaped /\ ResolveInv /\ OwnedInv
      BY DEF IInv
    <3> QED BY <1>1, <3>1, ProceedFacts
  <2> QED BY <1>1, <2>1, <2>2 DEF IInv, Shaped, TypeOK
<1>2. CASE Leave("error")
  <2>1. /\ phase' = "idle" /\ result' = "error" /\ error' = FALSE
        /\ current' = 0 /\ order' \in Seq(vertices')
        /\ taken' \in 0..Len(order') /\ Distinct(order')
        /\ OrderInv' /\ ResolveInv'
    BY <1>2, LeaveFacts
  <2> QED BY <2>1
<1> QED BY <1>1, <1>2

LEMMA MarkerKeeps ==
    ASSUME IInv, NEW n \in Node, ResolveMarker(n)
    PROVE  IInv'
<1>1. /\ n \in Marker /\ Resolving(n) /\ Proceed({n})
      /\ UNCHANGED <<program, error, pending, complete, invalid, result>>
  BY DEF ResolveMarker, outcome
<1>2. PICK E \in SUBSET Needs(New(n) \union shallow) : Instantiate(n, E) /\ Add(New(n), E)
  BY DEF ResolveMarker
<1>3. AtNode(n) /\ ~Grown(n, edges)
  BY <1>1 DEF Resolving
<1>4. n \notin Record /\ n \notin shallow /\ Layout(n) = {} /\ edges \in SUBSET Edge
  BY <1>1, ResolverAssumption DEF IInv, Shaped, TypeOK, Layout, Edge
<1>5. E \union Layout(n) = E
  BY <1>4
<1>6. done' = done \union {n}
  BY <1>1 DEF Proceed
<1>7. /\ vertices' \subseteq Node /\ done' \subseteq Node
      /\ edges' \in SUBSET (vertices' \X vertices') /\ edges \subseteq edges'
      /\ Seq(vertices) \subseteq Seq(vertices')
      /\ found' \subseteq Record /\ found \subseteq found'
      /\ broken' \subseteq found'
      /\ shallow' \subseteq found' \intersect Instantiation
      /\ program' \in Program /\ program' \in Programs
      /\ OwnedInv' /\ LateInv' /\ KnownInv' /\ DependenciesFirst'
  BY <1>1, <1>2, <1>3, <1>4, <1>5, <1>6, ResolvingFacts
<1>8. /\ order' \in Seq(vertices') /\ taken' \in 0..Len(order') /\ Distinct(order')
      /\ OrderInv' /\ ResolveInv' /\ current' \in Nat
      /\ result' \in {"none", "ok", "error", "circular"}
  BY <1>1, <1>3, <1>7, OrderAfter
<1>9. phase' = "resolving" /\ numDependencies' = numDependencies
  BY <1>1, <1>3 DEF Proceed, AtNode
<1>10. Shaped'
  <2>1. pending' \subseteq found' /\ invalid' \subseteq found' /\ error' \in BOOLEAN
    BY <1>1, <1>7 DEF IInv, Shaped, TypeOK
  <2> QED BY <1>1, <1>7, <1>8, <1>9, <2>1, ShapedWhenResolved
<1>11. PendingInv'
  BY <1>1, <1>4, <1>6, <1>9 DEF IInv, PendingInv
<1> QED BY <1>7, <1>8, <1>10, <1>11 DEF IInv

LEMMA AssociatedKeeps ==
    ASSUME IInv, NEW n \in Node, ResolveAssociatedType(n)
    PROVE  IInv'
<1>1. /\ n \in AssociatedType /\ Resolving(n)
      /\ UNCHANGED <<program, pending, complete, invalid>>
      /\ \/ Proceed({n}) /\ UNCHANGED result /\ error' \in {error, TRUE}
         \/ Leave("error") /\ UNCHANGED <<done, numDependencies>>
  BY DEF ResolveAssociatedType
<1>2. PICK E \in SUBSET Needs(New(n) \union shallow) : Instantiate(n, E) /\ Add(New(n), E)
  BY DEF ResolveAssociatedType
<1>3. AtNode(n) /\ ~Grown(n, edges)
  BY <1>1 DEF Resolving
<1>4. n \notin Record /\ n \notin shallow /\ Layout(n) = {} /\ edges \in SUBSET Edge
  BY <1>1, ResolverAssumption DEF IInv, Shaped, TypeOK, Layout, Edge
<1>5. E \union Layout(n) = E
  BY <1>4
<1>6. /\ done' = done \union {n} \/ done' = done
      /\ numDependencies' = numDependencies
  BY <1>1 DEF Proceed
<1>7. /\ vertices' \subseteq Node /\ done' \subseteq Node
      /\ edges' \in SUBSET (vertices' \X vertices') /\ edges \subseteq edges'
      /\ Seq(vertices) \subseteq Seq(vertices')
      /\ found' \subseteq Record /\ found \subseteq found'
      /\ broken' \subseteq found'
      /\ shallow' \subseteq found' \intersect Instantiation
      /\ program' \in Program /\ program' \in Programs
      /\ OwnedInv' /\ LateInv' /\ KnownInv' /\ DependenciesFirst'
  BY <1>1, <1>2, <1>3, <1>4, <1>5, <1>6, ResolvingFacts
<1>8. /\ order' \in Seq(vertices') /\ taken' \in 0..Len(order') /\ Distinct(order')
      /\ OrderInv' /\ ResolveInv' /\ current' \in Nat
      /\ \/ phase' = "resolving"
         \/ phase' = "idle" /\ result' = "error" /\ error' = FALSE
      /\ result' \in {"none", "ok", "error", "circular"}
  BY <1>1, <1>3, <1>7, OrderAfter
<1>9. Shaped'
  <2>1. pending' \subseteq found' /\ invalid' \subseteq found' /\ error' \in BOOLEAN
    BY <1>1, <1>7, <1>8 DEF IInv, Shaped, TypeOK, Leave
  <2> QED BY <1>1, <1>6, <1>7, <1>8, <2>1, ShapedWhenResolved
<1>10. PendingInv'
  BY <1>1, <1>4, <1>6, <1>8 DEF IInv, PendingInv
<1> QED BY <1>7, <1>8, <1>9, <1>10 DEF IInv

LEMMA RecordKeeps ==
    ASSUME IInv, NEW n \in Node, ResolveRecord(n)
    PROVE  IInv'
<1>1. /\ n \in Record /\ Resolving(n)
      /\ UNCHANGED <<program, complete>>
      /\ pending' = pending \union {n}
      /\ invalid' \in {invalid, invalid \union {n}}
      /\ \/ Proceed({n}) /\ UNCHANGED result /\ error' \in {error, TRUE}
         \/ Leave("error") /\ UNCHANGED <<done, numDependencies>>
  BY DEF ResolveRecord
<1>2. PICK E \in SUBSET Needs(New(n) \union shallow) :
         /\ Instantiate(n, E)
         /\ ~Grown(n, edges \union E \union Layout(n))
         /\ Add(New(n), E \union Layout(n))
  BY DEF ResolveRecord
<1>3. AtNode(n)
  BY <1>1 DEF Resolving
<1>4. /\ n \in vertices /\ Owner[n] \in found /\ Owner[n] \in Record
      /\ phase = "resolving" /\ Owner[n] = n
  BY <1>1, <1>3, AtNodeFacts, ResolverAssumption DEF IInv
<1>5. /\ E \union Layout(n) \in SUBSET Edge
      /\ n \in shallow => Layout(n) = program.layout[n]
      /\ edges \in SUBSET Edge
  <2>1. Shaped /\ OwnedInv /\ edges \in SUBSET Edge
    BY DEF IInv, Shaped, TypeOK, Edge
  <2> QED BY <2>1, <1>2, <1>4, InstantiateFacts
<1>6. /\ done' = done \union {n} \/ done' = done
      /\ numDependencies' = numDependencies
  BY <1>1 DEF Proceed
<1>7. /\ vertices' \subseteq Node /\ done' \subseteq Node
      /\ edges' \in SUBSET (vertices' \X vertices') /\ edges \subseteq edges'
      /\ Seq(vertices) \subseteq Seq(vertices')
      /\ found' \subseteq Record /\ found \subseteq found'
      /\ broken' \subseteq found'
      /\ shallow' \subseteq found' \intersect Instantiation
      /\ program' \in Program /\ program' \in Programs
      /\ OwnedInv' /\ LateInv' /\ KnownInv' /\ DependenciesFirst'
  <2> DEFINE G == edges \union E \union Layout(n)
  <2>1. /\ G \in SUBSET Edge /\ edges \subseteq G /\ ~Grown(n, G)
        /\ n \in shallow => program.layout[n] \subseteq G
    BY <1>2, <1>5
  <2> HIDE DEF G
  <2> QED BY <2>1, <1>1, <1>2, <1>6, ResolvingFacts
<1>8. /\ order' \in Seq(vertices') /\ taken' \in 0..Len(order') /\ Distinct(order')
      /\ OrderInv' /\ ResolveInv' /\ current' \in Nat
      /\ \/ phase' = "resolving"
         \/ phase' = "idle" /\ result' = "error" /\ error' = FALSE
      /\ result' \in {"none", "ok", "error", "circular"}
  BY <1>1, <1>3, <1>7, OrderAfter
<1>9. Shaped'
  <2>1. pending' \subseteq found' /\ invalid' \subseteq found' /\ error' \in BOOLEAN
    BY <1>1, <1>4, <1>7, <1>8 DEF IInv, Shaped, TypeOK, Leave
  <2> QED BY <1>1, <1>6, <1>7, <1>8, <2>1, ShapedWhenResolved
<1>10. PendingInv'
  BY <1>1, <1>6, <1>8 DEF IInv, PendingInv
<1> QED BY <1>7, <1>8, <1>9, <1>10 DEF IInv

LEMMA NestedKeeps ==
    ASSUME IInv, NEW n \in Node, ResolveNestedType(n)
    PROVE  IInv'
<1> DEFINE t == program.resolves[n]
<1>1. /\ n \in NestedType /\ Resolving(n) /\ AtNode(n)
      /\ UNCHANGED <<program, found, broken, shallow, pending, complete, invalid, result>>
  BY DEF ResolveNestedType, Resolving, records, outcome
<1>2. /\ program \in Programs /\ program \in Program
      /\ Shaped /\ OwnedInv /\ LateInv /\ ResolveInv /\ DependenciesFirst
      /\ edges \in SUBSET (vertices \X vertices) /\ vertices \subseteq Node
  BY DEF IInv, Shaped, TypeOK
<1>3. /\ n \in vertices /\ Owner[n] \in found /\ Owner[n] \in Record
      /\ phase = "resolving" /\ KnownInv
  BY <1>1, <1>2, AtNodeFacts DEF IInv
<1>4. /\ n \notin Record /\ n \notin shallow /\ shallow \subseteq found
      /\ edges \in SUBSET Edge /\ n \notin Marker /\ ~Grown(n, edges)
  <2>1. n \notin Record /\ n \notin Marker
    BY <1>1, ResolverAssumption
  <2> QED BY <1>1, <2>1 DEF IInv, Shaped, TypeOK, Resolving, Edge
<1>5. ASSUME t # Nothing
      PROVE  /\ t \in AssociatedType /\ t \in Node /\ t \notin Marker
             /\ Owner[t] \in found
             /\ {<<t, n>>} \in SUBSET Edge
  <2>1. t \in AssociatedType
    BY <1>1, <1>2, <1>5 DEF Program
  <2>2. t \in Node /\ t \notin Marker
    BY <2>1, ResolverAssumption DEF Node
  <2>3. Owner[t] \in Mentions(program, Owner[n])
    BY <1>1, <1>5 DEF Mentions
  <2> QED BY <2>1, <2>2, <2>3, <1>2, <1>3 DEF OwnedInv, Edge
<1>6. Ends({<<t, n>>}) = {t, n}
  BY DEF Ends
<1>7. ASSUME NEW F \in {{}, {<<t, n>>}}, F = {} \/ t # Nothing, done \subseteq done',
             vertices' \union done' = vertices \union done \union Ends(F),
             \A e \in edges \union F : e \in edges' \/ e[1] \in done' \/ e[2] \in done'
      PROVE  OwnedInv' /\ LateInv' /\ KnownInv'
  <2>1. /\ F \in SUBSET Edge
        /\ \A e \in F : Owner[e[1]] \in found' /\ Owner[e[2]] \in found'
        /\ Ends(F) \intersect Marker = {}
    BY <1>1, <1>3, <1>4, <1>5, <1>6, <1>7, EndsFacts
  <2>2. /\ program' = program /\ found' = found \union {} /\ broken \subseteq broken'
        /\ shallow \ shallow' = {} /\ shallow' \subseteq shallow \union {}
        /\ vertices' \union done' = vertices \union done \union {} \union Ends(F)
    BY <1>1, <1>7
  <2>3. \A r \in Record : r \notin found' \/ r \in shallow' =>
           \A e \in program.layout[r] :
              Ends({e}) \intersect Marker \intersect Ends(F) = {}
    BY <2>1
  <2> HIDE DEF t
  <2> QED BY <2>1, <2>2, <2>3, <1>2, <1>3, <1>7, Growth
<1>8. \A e \in Dependencies(n) : Owner[n] \notin broken => e[1] \in done \union NestedType
  BY <1>1, <1>2, <1>3, <1>4, NodeReady
<1>9. /\ program' \in Program /\ program' \in Programs
      /\ found' \subseteq Record /\ found \subseteq found' /\ broken' \subseteq found'
      /\ shallow' \subseteq found' \intersect Instantiation
      /\ result' \in {"none", "ok", "error", "circular"} /\ error \in BOOLEAN
      /\ pending' \subseteq found' /\ invalid' \subseteq found' /\ complete' = complete
      /\ done \subseteq Node
  BY <1>1 DEF IInv, Shaped, TypeOK
\* The loop goes on, with or without a dependency more.
<1>10. ASSUME NEW D \in {{}, {n}}, Proceed(D), UNCHANGED error,
              NEW F \in {{}, {<<t, n>>}}, F = {} \/ t # Nothing,
              vertices' = vertices \union Ends(F), edges' = edges \union F
       PROVE  IInv'
  <2>1. /\ done' = done \union D /\ order' = order /\ taken' = taken
        /\ numDependencies' = numDependencies
    BY <1>10 DEF Proceed
  <2>2. OwnedInv' /\ LateInv' /\ KnownInv'
    <3>1. vertices' \union done' = vertices \union done \union Ends(F)
      BY <1>3, <1>10, <2>1
    <3>2. \A e \in edges \union F : e \in edges' \/ e[1] \in done' \/ e[2] \in done'
      BY <1>10
    <3> QED BY <3>1, <3>2, <2>1, <1>7, <1>10
  <2>3. ResolveInv' /\ OrderInv' /\ phase' = "resolving" /\ current' \in Nat
    BY <1>1, <1>2, <1>10, ProceedFacts
  <2>4. DependenciesFirst'
    BY <1>1, <1>2, <1>8, <2>1, DoneKept
  <2>5. /\ vertices' \subseteq Node /\ edges' \in SUBSET (vertices' \X vertices')
        /\ Seq(vertices) \subseteq Seq(vertices')
    <3>1. Ends(F) \subseteq Node
      BY <1>5, <1>6, <1>10, EndsFacts
    <3>2. F \subseteq Ends(F) \X Ends(F)
      <4>1. F = {} \/ (F = {<<t, n>>} /\ t \in Ends(F) /\ n \in Ends(F))
        BY <1>6, <1>10
      <4> HIDE DEF t
      <4> QED BY <4>1
    <3>3. vertices \subseteq vertices'
      BY <1>10
    <3> QED BY <1>2, <1>10, <3>1, <3>2, <3>3, SeqMonotonic
  <2>6. order' \in Seq(vertices') /\ taken' \in 0..Len(order') /\ Distinct(order')
    BY <2>1, <2>5 DEF IInv, Shaped, TypeOK
  <2>7. Shaped'
    <3>1. done' \subseteq Node /\ error' \in BOOLEAN
      BY <1>9, <1>10, <2>1
    <3> QED BY <3>1, <1>9, <2>1, <2>3, <2>5, <2>6, ShapedWhenResolved
  <2>8. PendingInv'
    BY <1>1, <1>4, <2>1, <2>3 DEF IInv, PendingInv
  <2> QED BY <2>2, <2>3, <2>4, <2>7, <2>8 DEF IInv
\* The node is put off.
<1>11. ASSUME t # Nothing, Reset({}, {<<t, n>>}) PROVE IInv'
  <2>1. /\ vertices' \subseteq Node
        /\ edges' \in SUBSET (vertices' \X vertices')
        /\ vertices' = (vertices \union {} \union Ends({<<t, n>>})) \ done
        /\ \A e \in edges \union {<<t, n>>} :
              e \in edges' \/ e[1] \in done \/ e[2] \in done
        /\ order' \in Seq(vertices') /\ Distinct(order')
        /\ taken' \in 0..Len(order')
        /\ phase' = "ordering" /\ current' = 0
        /\ done' = done /\ numDependencies' = numDependencies /\ error' = error
        /\ OrderInv' /\ ResolveInv'
    <3> HIDE DEF t
    <3> QED BY <1>2, <1>5, <1>11, ResetFacts
  <2>2. OwnedInv' /\ LateInv' /\ KnownInv'
    <3>1. /\ vertices' \union done' = vertices \union done \union Ends({<<t, n>>})
          /\ done \subseteq done'
      BY <2>1
    <3> QED BY <3>1, <2>1, <1>7, <1>11
  <2>3. DependenciesFirst'
    BY <1>1, <1>2, <2>1, DoneKept
  <2>4. Shaped'
    BY <1>9, <2>1, ShapedWhenResolved
  <2>5. PendingInv'
    BY <1>1, <2>1 DEF IInv, PendingInv
  <2> QED BY <2>1, <2>2, <2>3, <2>4, <2>5 DEF IInv
<1>12. \/ /\ Proceed({n}) /\ UNCHANGED <<vertices, edges, error>>
       \/ t # Nothing /\ Add({}, {<<t, n>>}) /\ Proceed({}) /\ UNCHANGED error
       \/ t # Nothing /\ Reset({}, {<<t, n>>})
  BY DEF ResolveNestedType
<1>13. CASE Proceed({n}) /\ UNCHANGED <<vertices, edges, error>>
  <2>1. vertices' = vertices \union Ends({}) /\ edges' = edges \union {}
    BY <1>13, EndsFacts
  <2> HIDE DEF t
  <2> QED BY <1>13, <2>1, <1>10
<1>14. CASE t # Nothing /\ Add({}, {<<t, n>>}) /\ Proceed({}) /\ UNCHANGED error
  <2>1. vertices' = vertices \union Ends({<<t, n>>}) /\ edges' = edges \union {<<t, n>>}
    BY <1>14 DEF Add
  <2> HIDE DEF t
  <2> QED BY <1>14, <2>1, <1>10
<1> QED BY <1>11, <1>12, <1>13, <1>14

LEMMA FailKeeps ==
    ASSUME IInv, NEW n \in Node, FailCompletion(n)
    PROVE  IInv'
<1>1. /\ n \in shallow /\ AtNode(n)
      /\ shallow' = shallow \ {n} /\ broken' = broken \union {n} /\ Leave("error")
      /\ UNCHANGED <<program, vertices, edges, found, done, numDependencies,
                     pending, complete, invalid>>
  BY DEF FailCompletion, Resolving
<1>2. /\ phase = "resolving" /\ KnownInv
      /\ Shaped /\ OwnedInv /\ LateInv /\ DependenciesFirst /\ n \in found
  BY <1>1 DEF IInv, AtNode, Shaped, TypeOK
<1>3. OwnedInv' /\ LateInv' /\ KnownInv'
  <2>1. /\ found' = found \union {} /\ broken \subseteq broken'
        /\ shallow' \subseteq shallow \union {}
        /\ \A r \in shallow \ shallow' : r \in broken'
        /\ vertices' \union done' = vertices \union done \union {} \union Ends({})
        /\ edges' = edges \union {} /\ Ends({}) = {}
    BY <1>1, EndsFacts
  <2> QED BY <1>1, <1>2, <2>1, Growth
<1>4. DependenciesFirst'
  BY <1>1, <1>2, DoneKept
<1>5. /\ phase' = "idle" /\ result' = "error" /\ error' = FALSE
      /\ current' = 0 /\ order' \in Seq(vertices)
      /\ taken' \in 0..Len(order') /\ Distinct(order')
      /\ OrderInv' /\ ResolveInv'
  BY <1>1, LeaveFacts
<1>6. Shaped'
  BY <1>1, <1>2, <1>5 DEF Shaped, TypeOK
<1>7. PendingInv'
  BY <1>1, <1>5 DEF IInv, PendingInv
<1> QED BY <1>3, <1>4, <1>5, <1>6, <1>7 DEF IInv

LEMMA CompleteKeeps ==
    ASSUME IInv, NEW n \in Node, CompleteShallow(n)
    PROVE  IInv'
<1>1. n \in shallow /\ AtNode(n)
      /\ UNCHANGED <<program, pending, complete, invalid, result>>
  BY DEF CompleteShallow, Resolving, outcome
<1>2. PICK E \in SUBSET Needs(New(n) \union shallow) :
         Instantiate(n, E) /\ Reset(New(n), E \union Layout(n))
  BY DEF CompleteShallow
<1>3. /\ Shaped /\ OwnedInv /\ LateInv /\ DependenciesFirst /\ ResolveInv
  BY DEF IInv
<1>4. /\ n \in vertices /\ Owner[n] \in found /\ phase = "resolving" /\ KnownInv
  BY <1>1, <1>3, AtNodeFacts DEF IInv
<1>5. /\ New(n) \in SUBSET Node /\ E \union Layout(n) \in SUBSET Edge
      /\ found' = found \union New(n) /\ found' \subseteq Record
      /\ broken \subseteq broken' /\ broken' \subseteq found'
      /\ shallow' \subseteq found' \intersect Instantiation
  BY <1>2, <1>3, <1>4, InstantiateFacts
<1>6. /\ vertices' \subseteq Node
      /\ edges' \in SUBSET (vertices' \X vertices')
      /\ vertices' = (vertices \union New(n) \union Ends(E \union Layout(n))) \ done
      /\ \A e \in edges \union (E \union Layout(n)) :
            e \in edges' \/ e[1] \in done \/ e[2] \in done
      /\ order' \in Seq(vertices') /\ Distinct(order')
      /\ taken' \in 0..Len(order')
      /\ phase' = "ordering" /\ current' = 0
      /\ done' = done /\ numDependencies' = numDependencies /\ error' = error
      /\ OrderInv' /\ ResolveInv'
  BY <1>2, <1>3, <1>5, ResetFacts
<1>7. OwnedInv' /\ LateInv' /\ KnownInv'
  <2>1. vertices' \union done' =
            vertices \union done \union New(n) \union Ends(E \union Layout(n))
    BY <1>6
  <2>2. done \subseteq done' /\ program' = program
    BY <1>1, <1>6
  <2>3. \A e \in edges \union (E \union Layout(n)) :
            e \in edges' \/ e[1] \in done' \/ e[2] \in done'
    BY <1>6
  <2> QED BY <2>1, <2>2, <2>3, <1>2, <1>3, <1>4, InstantiateGrowth
<1>8. DependenciesFirst'
  BY <1>1, <1>3, <1>5, <1>6, DoneKept
<1>9. Shaped'
  <2>1. /\ program' \in Program /\ program' \in Programs /\ found \subseteq found'
        /\ result' \in {"none", "ok", "error", "circular"} /\ error' \in BOOLEAN
        /\ pending' \subseteq found' /\ invalid' \subseteq found' /\ done' \subseteq Node
    BY <1>1, <1>5, <1>6 DEF IInv, Shaped, TypeOK
  <2> QED BY <2>1, <1>1, <1>5, <1>6, ShapedWhenResolved
<1>10. PendingInv'
  BY <1>1, <1>6 DEF IInv, PendingInv
<1> QED BY <1>6, <1>7, <1>8, <1>9, <1>10 DEF IInv

\* When all nodes had their turn and none was added, all are done.
LEMMA EndFacts ==
    ASSUME IInv, AtEnd, ~Added
    PROVE  /\ vertices \subseteq done \union NestedType
           /\ found \subseteq done
<1>1. /\ order \in Seq(vertices) /\ Distinct(order) /\ vertices \subseteq Node
      /\ phase = "resolving" /\ found \subseteq Record
  BY DEF IInv, Shaped, TypeOK, AtEnd
<1>2. Len(order) \in Nat
  BY <1>1, LenProperties
<1>3. IsFiniteSet(vertices) /\ Cardinality(vertices) \in Nat
  BY <1>1, ResolverAssumption, FS_Subset, FS_CardinalityType
<1>4. Len(order) = Cardinality(vertices)
  <2>1. Len(order) <= Cardinality(vertices)
    BY <1>1, <1>3, Covering
  <2> QED BY <2>1, <1>2, <1>3 DEF Added
<1>5. \A v \in vertices : \E i \in 1..Len(order) : order[i] = v
  BY <1>1, <1>3, <1>4, Covering
<1>6. \A i \in 1..Len(order) : order[i] \in done \union NestedType
  <2>1. \A i \in 1..Len(order) : i < current
    BY <1>1, <1>2 DEF IInv, ResolveInv, AtEnd
  <2> QED BY <2>1, <1>1 DEF IInv, ResolveInv, Positions
<1>7. vertices \subseteq done \union NestedType
  BY <1>5, <1>6
<1>8. found \subseteq done
  <2>1. found \subseteq vertices \union done
    BY DEF IInv, OwnedInv
  <2>2. Record \intersect NestedType = {}
    BY ResolverAssumption
  <2> QED BY <1>1, <1>7, <2>1, <2>2
<1> QED BY <1>7, <1>8

LEMMA AgainKeeps ==
    ASSUME IInv, ResolveAgain
    PROVE  IInv'
<1>1. /\ BeginOrder(vertices, edges) /\ phase' = "ordering" /\ current' = 0
      /\ vertices' = vertices /\ edges' = edges /\ phase = "resolving"
      /\ UNCHANGED <<program, found, broken, shallow, done, numDependencies,
                     error, pending, complete, invalid, result>>
  BY DEF ResolveAgain, AtEnd, Order, records, outcome
<1>2. vertices \in SUBSET Node /\ edges \in SUBSET (vertices \X vertices)
  BY DEF IInv, Shaped, TypeOK
<1>3. /\ order' \in Seq(vertices) /\ Distinct(order')
      /\ taken' \in 0..Len(order') /\ OrderInv'
  BY <1>1, <1>2, BeginOrderFacts
<1>4. /\ OwnedInv' /\ LateInv' /\ DependenciesFirst' /\ (KnownInv => KnownInv')
  BY <1>1, GraphKept
<1>5. KnownInv
  BY <1>1 DEF IInv
<1>6. Shaped'
  BY <1>1, <1>3 DEF IInv, Shaped, TypeOK
<1>7. ResolveInv' /\ PendingInv'
  BY <1>1 DEF IInv, ResolveInv, PendingInv
<1> QED BY <1>3, <1>4, <1>5, <1>6, <1>7 DEF IInv

LEMMA FinishWithErrorKeeps ==
    ASSUME IInv, FinishWithError
    PROVE  IInv'
<1>1. /\ phase = "resolving" /\ Leave("error")
      /\ vertices' = vertices /\ edges' = edges
      /\ UNCHANGED <<program, found, broken, shallow, done, numDependencies,
                     pending, complete, invalid>>
  BY DEF FinishWithError, AtEnd, records
<1>2. /\ phase' = "idle" /\ result' = "error" /\ error' = FALSE
      /\ current' = 0 /\ order' \in Seq(vertices)
      /\ taken' \in 0..Len(order') /\ Distinct(order')
      /\ OrderInv' /\ ResolveInv'
  BY <1>1, LeaveFacts
<1>3. /\ OwnedInv' /\ LateInv' /\ DependenciesFirst' /\ (KnownInv => KnownInv')
  BY <1>1, GraphKept
<1>4. KnownInv
  BY <1>1 DEF IInv
<1>5. Shaped'
  BY <1>1, <1>2 DEF IInv, Shaped, TypeOK
<1>6. PendingInv'
  BY <1>1, <1>2 DEF IInv, PendingInv
<1> QED BY <1>2, <1>3, <1>4, <1>5, <1>6 DEF IInv

LEMMA FinishKeeps ==
    ASSUME IInv, Finish
    PROVE  IInv'
<1>1. /\ AtEnd /\ ~Added /\ Leave("ok") /\ phase = "resolving"
      /\ vertices' = {} /\ edges' = {} /\ numDependencies' = [n \in Node |-> 0]
      /\ complete' = complete \union pending /\ pending' = {}
      /\ UNCHANGED <<program, found, broken, shallow, done, invalid>>
  BY DEF Finish, AtEnd, records
<1>2. vertices \subseteq done \union NestedType /\ found \subseteq done
  BY <1>1, EndFacts
<1>3. /\ phase' = "idle" /\ result' = "ok" /\ error' = FALSE
      /\ current' = 0 /\ order' \in Seq({})
      /\ taken' \in 0..Len(order') /\ Distinct(order')
      /\ OrderInv' /\ ResolveInv'
  BY <1>1, LeaveFacts
<1>4. edges \in SUBSET (vertices \X vertices)
  BY DEF IInv, Shaped, TypeOK
<1>5. OwnedInv' /\ LateInv'
  BY <1>1, <1>2 DEF IInv, OwnedInv, LateInv
<1>6. KnownInv'
  <2>1. KnownInv
    BY <1>1 DEF IInv
  <2>2. \A e \in edges : e[1] \in done \union NestedType
    BY <1>2, <1>4
  <2> QED BY <2>1, <2>2, <1>1 DEF KnownInv, Expected
<1>7. DependenciesFirst'
  BY <1>1, DoneKept DEF IInv
<1>8. Shaped'
  <2>1. complete' \subseteq found'
    BY <1>1 DEF IInv, Shaped, TypeOK
  <2>2. numDependencies' \in [Node -> Nat]
    BY <1>1
  <2>3. TypeOK'
    BY <1>1, <1>3, <2>1, <2>2 DEF IInv, Shaped, TypeOK
  <2> QED BY <2>3, <1>1, <1>3 DEF IInv, Shaped
<1>9. PendingInv'
  <2>1. found \subseteq Record
    BY DEF IInv, Shaped, TypeOK
  <2>2. invalid = {} => done \intersect Record \subseteq pending \union complete
    BY DEF IInv, PendingInv
  <2>3. invalid = {} => found \subseteq complete'
    BY <1>1, <1>2, <2>1, <2>2
  <2> QED BY <1>1, <2>2, <2>3 DEF PendingInv
<1> QED BY <1>3, <1>5, <1>6, <1>7, <1>8, <1>9 DEF IInv

LEMMA FinishRejectingKeeps ==
    ASSUME IInv, FinishRejecting
    PROVE  IInv'
<1>1. /\ AtEnd /\ Leave("ok") /\ phase = "resolving"
      /\ vertices' = vertices /\ edges' = edges /\ pending' = {}
      /\ UNCHANGED <<program, found, broken, shallow, done, numDependencies>>
  BY DEF FinishRejecting, AtEnd, records
<1>2. PICK r \in pending, S \in SUBSET pending :
         complete' = complete \union S /\ invalid' = invalid \union {r}
  BY DEF FinishRejecting
<1>3. /\ phase' = "idle" /\ result' = "ok" /\ error' = FALSE
      /\ current' = 0 /\ order' \in Seq(vertices)
      /\ taken' \in 0..Len(order') /\ Distinct(order')
      /\ OrderInv' /\ ResolveInv'
  BY <1>1, LeaveFacts
<1>4. /\ OwnedInv' /\ LateInv' /\ DependenciesFirst' /\ (KnownInv => KnownInv')
  BY <1>1, GraphKept
<1>5. KnownInv
  BY <1>1 DEF IInv
<1>6. Shaped'
  <2>1. complete' \subseteq found' /\ invalid' \subseteq found'
    BY <1>1, <1>2 DEF IInv, Shaped, TypeOK
  <2> QED BY <2>1, <1>1, <1>3 DEF IInv, Shaped, TypeOK
<1>7. PendingInv'
  <2>1. invalid' # {}
    BY <1>2
  <2> QED BY <2>1 DEF PendingInv
<1> QED BY <1>3, <1>4, <1>5, <1>6, <1>7 DEF IInv

LEMMA StepInv == IInv /\ [Next]_vars => IInv'
<1> SUFFICES ASSUME IInv, [Next]_vars PROVE IInv'
  OBVIOUS
<1>1. CASE UNCHANGED vars
  <2>1. UNCHANGED <<program, vertices, edges, order, taken, found, broken, shallow,
                    done, numDependencies, phase, current, error, pending,
                    complete, invalid, result>>
    BY <1>1 DEF vars, graph, records, outcome
  <2>2. OwnedInv' /\ LateInv' /\ DependenciesFirst' /\ (KnownInv => KnownInv')
        /\ (Cyclic => Cyclic')
    BY <2>1, GraphKept
  <2>3. Shaped' /\ PendingInv'
    BY <2>1 DEF IInv, Shaped, TypeOK, PendingInv
  <2>4. OrderInv'
    BY <2>1 DEF IInv, OrderInv, Positions, Incoming, Taken
  <2>5. ResolveInv'
    <3>1. Positions' = Positions
      BY <2>1 DEF Positions
    <3>2. \A E : Noted(E) => Noted(E)'
      BY <2>1, <3>1 DEF Noted
    <3> QED BY <2>1, <3>1, <3>2 DEF IInv, ResolveInv
  <2>6. KnownInv' \/ (Cyclic' /\ phase' # "resolving")
    BY <2>1, <2>2 DEF IInv
  <2> QED BY <2>2, <2>3, <2>4, <2>5, <2>6 DEF IInv
<1>2. ASSUME NEW R \in SUBSET (program.contexts \ found), PrepareNameLookup(R)
      PROVE  IInv'
  BY <1>2, PrepareKeeps
<1>3. CASE OrderNext
  BY <1>3, OrderNextKeeps
<1>4. CASE StartResolving
  BY <1>4, StartKeeps
<1>5. CASE DiagnoseCircularDependency
  BY <1>5, DiagnoseKeeps
<1>6. ASSUME NEW n \in Node, Resolve(n) PROVE IInv'
  BY <1>6, SkipKeeps, SeeNewKeeps, MarkerKeeps, AssociatedKeeps, NestedKeeps,
     FailKeeps, CompleteKeeps, RecordKeeps DEF Resolve
<1>7. CASE FinishWithError
  BY <1>7, FinishWithErrorKeeps
<1>8. CASE ResolveAgain
  BY <1>8, AgainKeeps
<1>9. CASE Finish
  BY <1>9, FinishKeeps
<1>10. CASE FinishRejecting
  BY <1>10, FinishRejectingKeeps
<1> QED BY <1>1, <1>2, <1>3, <1>4, <1>5, <1>6, <1>7, <1>8, <1>9, <1>10
        DEF Next, ResolveDependencyGraph

LEMMA Inductive == Spec => []IInv
<1> QED BY InitInv, StepInv, PTL DEF Spec

-----------------------------------------------------------------------------
(* The theorems.                                                           *)

\* The graph, the order and the sets of records stay what they are declared
\* to be, whatever the compiled program is.
THEOREM TypeCorrect == Spec => []TypeOK
<1>1. IInv => TypeOK
  BY DEF IInv, Shaped
<1> QED BY <1>1, Inductive, PTL

\* getEvaluationOrder lists every node after all it depends on.
THEOREM OrderRespectsEdgesHolds == Spec => []OrderRespectsEdges
<1>1. ASSUME IInv PROVE OrderRespectsEdges
  <2> SUFFICES ASSUME phase = "ordering", NEW i \in 1..taken, NEW u \in vertices,
                      <<u, order[i]>> \in edges
               PROVE  \E j \in 1..(i - 1) : order[j] = u
    BY DEF OrderRespectsEdges
  <2>1. order \in Seq(vertices) /\ taken \in 0..Len(order)
    BY <1>1 DEF IInv, Shaped, TypeOK
  <2>2. Len(order) \in Nat
    BY <2>1, LenProperties
  <2>3. i \in Positions
    BY <2>1, <2>2 DEF Positions
  <2>4. PICK j \in 1..taken : j < i /\ order[j] = u
    BY <1>1, <2>3 DEF IInv, OrderInv
  <2>5. j \in 1..(i - 1)
    BY <2>1, <2>2, <2>4
  <2> QED BY <2>4, <2>5
<1> QED BY <1>1, Inductive, PTL

\* getOffendingPair always finds an edge to blame.
THEOREM OffendingPairExistsHolds == Spec => []OffendingPairExists
<1>1. IInv => OffendingPairExists
  BY OrderedFacts DEF IInv, OffendingPairExists
<1> QED BY <1>1, Inductive, PTL

\* A circular dependency is diagnosed if and only if no order exists.
THEOREM CyclesFoundHolds == Spec => CyclesFound
<1>1. IInv => [/\ StartResolving => ~Cyclic
               /\ DiagnoseCircularDependency => Cyclic]_vars
  <2> SUFFICES ASSUME IInv
               PROVE  /\ StartResolving => ~Cyclic
                      /\ DiagnoseCircularDependency => Cyclic
    OBVIOUS
  <2> QED BY OrderedFacts DEF IInv, StartResolving, DiagnoseCircularDependency
<1> QED BY <1>1, Inductive, PTL DEF CyclesFound

\* A fact is established after the facts it depends on, through all restarts
\* of the order, instantiations on the way, and calls that failed before.
THEOREM DependenciesFirstHolds == Spec => []DependenciesFirst
<1>1. IInv => DependenciesFirst
  BY DEF IInv
<1> QED BY <1>1, Inductive, PTL

\* Records are completed only when the whole graph is resolved.
THEOREM CompleteTogetherHolds == Spec => CompleteTogether
<1>1. ASSUME IInv, [Next]_vars, complete' # complete
      PROVE  vertices \subseteq done \union NestedType
  <2>1. Finish \/ FinishRejecting
    BY <1>1 DEF Next, ResolveDependencyGraph, vars, outcome, PrepareNameLookup,
       OrderNext, StartResolving, DiagnoseCircularDependency, Resolve, SkipNode,
       SeeNewDependencies, ResolveMarker, ResolveAssociatedType, ResolveNestedType,
       FailCompletion, CompleteShallow, ResolveRecord, FinishWithError, ResolveAgain
  <2>2. AtEnd /\ ~Added
    BY <2>1 DEF Finish, FinishRejecting
  <2> QED BY <1>1, <2>2, EndFacts
<1>2. IInv /\ [Next]_vars =>
         [complete' # complete => vertices \subseteq done \union NestedType]_vars
  BY <1>1
<1> QED BY <1>2, Inductive, PTL DEF Spec, CompleteTogether

\* A successful call leaves no record behind, those of earlier calls and
\* those instantiated on the way included.
THEOREM NothingForgottenHolds == Spec => []NothingForgotten
<1>1. IInv => NothingForgotten
  BY DEF IInv, PendingInv, NothingForgotten
<1> QED BY <1>1, Inductive, PTL
=============================================================================
