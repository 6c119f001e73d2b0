----------------------- MODULE ConstraintSolverProofs -----------------------
EXTENDS ConstraintSolver, FiniteSetTheorems, SequenceTheorems,
        WellFoundedInduction, TLAPS

-----------------------------------------------------------------------------
(* Sequences of a set's elements, and least elements.                      *)

LEMMA SetToSeqFacts ==
    ASSUME NEW S, IsFiniteSet(S)
    PROVE  /\ SetToSeq(S) \in Seq(S)
           /\ Len(SetToSeq(S)) = Cardinality(S)
           /\ IsInjective(SetToSeq(S))
           /\ ToSet(SetToSeq(S)) = S
  <1> DEFINE q == SetToSeq(S)
             n == Cardinality(S)
  <1>1. n \in Nat /\ ExistsBijection(1..n, S)
    BY FS_CardinalityType
  <1>2. \E f \in [1..n -> S] : IsInjective(f)
    BY <1>1 DEF ExistsBijection, Bijection, Injection
  <1>3. q \in [1..n -> S] /\ IsInjective(q)
    BY <1>2 DEF SetToSeq
  <1>4. q \in Seq(S) /\ Len(q) = n /\ DOMAIN q = 1..n
    BY <1>1, <1>3
  <1>5. q \in Injection(1..n, S)
    BY <1>3 DEF Injection
  <1>6. IsFiniteSet(1..n) /\ Cardinality(1..n) = n
    BY <1>1, FS_Interval
  <1>7. q \in Surjection(1..n, S)
    BY <1>5, <1>6, FS_Injection
  <1>8. ToSet(q) = S
    BY <1>3, <1>4, <1>7 DEF Surjection, ToSet
  <1> QED
    BY <1>3, <1>4, <1>8

LEMMA Least ==
    ASSUME NEW S \in SUBSET Nat, S # {}
    PROVE  \E n \in S : \A m \in S : n <= m
  <1> DEFINE R == {p \in Nat \X Nat : p[1] < p[2]}
  <1>1. IsWellFoundedOn(R, Nat)
    BY NatLessThanWellFounded DEF OpToRel
  <1>2. \E n \in S : \A m \in S : ~(<<m, n>> \in R)
    <2> HIDE DEF R
    <2> QED  BY <1>1, WFMin
  <1>3. PICK n \in S : \A m \in S : ~(<<m, n>> \in R)
    BY <1>2
  <1>4. ASSUME NEW m \in S, m < n PROVE FALSE
    <2>1. <<m, n>> \in R
      BY <1>4
    <2> QED  BY <2>1, <1>3
  <1> QED
    BY <1>3, <1>4

LEMMA Concatenation ==
    ASSUME NEW S, NEW a \in Seq(S), NEW b \in Seq(S)
    PROVE  /\ a \o b \in Seq(S) /\ Len(a \o b) = Len(a) + Len(b)
           /\ \A i \in 1..Len(a) : (a \o b)[i] = a[i]
           /\ \A i \in 1..Len(b) : (a \o b)[Len(a) + i] = b[i]
           /\ ToSet(a \o b) = ToSet(a) \union ToSet(b)
           /\ (/\ IsInjective(a) /\ IsInjective(b)
               /\ ToSet(a) \intersect ToSet(b) = {}) => IsInjective(a \o b)
  <1> DEFINE c == a \o b
  <1>1. /\ Len(a) \in Nat /\ Len(b) \in Nat
        /\ DOMAIN a = 1..Len(a) /\ DOMAIN b = 1..Len(b)
    OBVIOUS
  <1>2. /\ c \in Seq(S) /\ Len(c) = Len(a) + Len(b) /\ DOMAIN c = 1..(Len(a) + Len(b))
        /\ \A i \in 1..Len(a) : c[i] = a[i]
        /\ \A i \in (Len(a) + 1)..(Len(a) + Len(b)) : c[i] = b[i - Len(a)]
    OBVIOUS
  <1> HIDE DEF c
  <1>3. \A i \in 1..Len(b) : c[Len(a) + i] = b[i]
    <2>1. TAKE i \in 1..Len(b)
    <2>2. Len(a) + i \in (Len(a) + 1)..(Len(a) + Len(b)) /\ (Len(a) + i) - Len(a) = i
      BY <1>1
    <2> QED  BY <2>2, <1>2
  <1>4. \A i \in DOMAIN c : \/ i \in DOMAIN a
                            \/ i - Len(a) \in DOMAIN b /\ c[i] = b[i - Len(a)]
    BY <1>1, <1>2
  <1>5. ToSet(c) = ToSet(a) \union ToSet(b)
    <2>1. ToSet(c) \subseteq ToSet(a) \union ToSet(b)
      BY <1>1, <1>2, <1>4 DEF ToSet
    <2>2. ToSet(a) \subseteq ToSet(c)
      BY <1>1, <1>2 DEF ToSet
    <2>3. \A i \in DOMAIN b : Len(a) + i \in DOMAIN c
      BY <1>1, <1>2
    <2>4. ToSet(b) \subseteq ToSet(c)
      BY <1>1, <1>3, <2>3 DEF ToSet
    <2> QED  BY <2>1, <2>2, <2>4
  <1>6. ASSUME IsInjective(a), IsInjective(b), ToSet(a) \intersect ToSet(b) = {},
               NEW i \in DOMAIN c, NEW j \in DOMAIN c, c[i] = c[j]
        PROVE  i = j
    <2>1. \A x \in DOMAIN a, y \in DOMAIN b : a[x] # b[y]
      BY <1>6 DEF ToSet
    <2>2. CASE i \in DOMAIN a /\ j \in DOMAIN a
      BY <2>2, <1>1, <1>2, <1>6 DEF IsInjective
    <2>3. CASE i \notin DOMAIN a /\ j \notin DOMAIN a
      <3>1. /\ i - Len(a) \in DOMAIN b /\ c[i] = b[i - Len(a)]
            /\ j - Len(a) \in DOMAIN b /\ c[j] = b[j - Len(a)]
        BY <2>3, <1>4
      <3>2. i - Len(a) = j - Len(a)
        BY <3>1, <1>6 DEF IsInjective
      <3> QED  BY <3>2, <1>1, <1>2
    <2>4. CASE i \in DOMAIN a /\ j \notin DOMAIN a
      BY <2>4, <2>1, <1>1, <1>2, <1>4, <1>6
    <2>5. CASE i \notin DOMAIN a /\ j \in DOMAIN a
      BY <2>5, <2>1, <1>1, <1>2, <1>4, <1>6
    <2> QED  BY <2>2, <2>3, <2>4, <2>5
  <1> QED
    BY <1>2, <1>3, <1>5, <1>6 DEF IsInjective, c

LEMMA SubSequence ==
    ASSUME NEW S, NEW q \in Seq(S), NEW m \in 0..Len(q)
    PROVE  /\ SubSeq(q, 1, m) \in Seq(S) /\ Len(SubSeq(q, 1, m)) = m
           /\ \A x \in 1..m : SubSeq(q, 1, m)[x] = q[x]
           /\ ToSet(SubSeq(q, 1, m)) = {q[x] : x \in 1..m}
           /\ ToSet(SubSeq(q, m + 1, Len(q))) = {q[x] : x \in (m + 1)..Len(q)}
  <1>1. /\ SubSeq(q, 1, m) \in Seq(S) /\ Len(SubSeq(q, 1, m)) = m
        /\ \A x \in 1..m : SubSeq(q, 1, m)[x] = q[x]
    BY SubSeqProperties
  <1>2. ToSet(SubSeq(q, 1, m)) = {q[x] : x \in 1..m}
    <2> DEFINE p == SubSeq(q, 1, m)
    <2>1. DOMAIN p = 1..m /\ \A x \in 1..m : p[x] = q[x]
      BY <1>1
    <2> HIDE DEF p
    <2>2. ToSet(p) = {q[x] : x \in 1..m}
      BY <2>1 DEF ToSet
    <2> QED  BY <2>2 DEF p
  <1> DEFINE r == SubSeq(q, m + 1, Len(q))
  <1>3. /\ DOMAIN r = 1..(Len(q) - m)
        /\ \A x \in 1..(Len(q) - m) : r[x] = q[m + x]
    OBVIOUS
  <1>4. ToSet(r) = {q[x] : x \in (m + 1)..Len(q)}
    <2>1. \A x \in (m + 1)..Len(q) : x - m \in 1..(Len(q) - m) /\ q[x] = r[x - m]
      <3>1. TAKE x \in (m + 1)..Len(q)
      <3>2. x - m \in 1..(Len(q) - m) /\ m + (x - m) = x
        OBVIOUS
      <3> HIDE DEF r
      <3> QED  BY <3>2, <1>3
    <2>2. \A x \in 1..(Len(q) - m) : m + x \in (m + 1)..Len(q)
      OBVIOUS
    <2> HIDE DEF r
    <2>3. ToSet(r) \subseteq {q[x] : x \in (m + 1)..Len(q)}
      BY <2>2, <1>3 DEF ToSet
    <2>4. {q[x] : x \in (m + 1)..Len(q)} \subseteq ToSet(r)
      BY <2>1, <1>3 DEF ToSet
    <2> QED  BY <2>3, <2>4
  <1> QED
    BY <1>1, <1>2, <1>4

LEMMA Replaced ==
    ASSUME NEW S, NEW w \in Seq(S), w # <<>>
    PROVE  /\ Last(w) = w[Len(w)] /\ Last(w) \in S /\ Len(w) \in Nat /\ Len(w) >= 1
           /\ Front(w) \in Seq(S) /\ Len(Front(w)) = Len(w) - 1
           /\ \A i \in 1..(Len(w) - 1) : Front(w)[i] = w[i]
           /\ \A t \in S : /\ Append(Front(w), t) \in Seq(S)
                           /\ Len(Append(Front(w), t)) = Len(w)
                           /\ Append(Front(w), t)[Len(w)] = t
                           /\ \A i \in 1..(Len(w) - 1) : Append(Front(w), t)[i] = w[i]
  <1>1. Len(w) \in Nat /\ Len(w) >= 1 /\ Last(w) = w[Len(w)] /\ Last(w) \in S
    BY DEF Last
  <1>2. /\ Front(w) \in Seq(S) /\ Len(Front(w)) = Len(w) - 1
        /\ \A i \in 1..(Len(w) - 1) : Front(w)[i] = w[i]
    <2>1. Len(w) - 1 \in 0..Len(w)
      BY <1>1
    <2> QED  BY <2>1, SubSequence DEF Front
  <1> DEFINE f == Front(w)
  <1>3. ASSUME NEW t \in S
        PROVE  /\ Append(f, t) \in Seq(S) /\ Len(Append(f, t)) = Len(w)
               /\ Append(f, t)[Len(w)] = t
               /\ \A i \in 1..(Len(w) - 1) : Append(f, t)[i] = w[i]
    <2> HIDE DEF f
    <2> QED  BY <1>1, <1>2 DEF f
  <1> QED
    BY <1>1, <1>2, <1>3

-----------------------------------------------------------------------------
(* What a system is made of.                                               *)

LEMMA Constants ==
    /\ IsFiniteSet(Var) /\ Var # {}
    /\ AnyType \in Type /\ Unbound \notin Type /\ Infinity \notin Nat
  BY SolverAssumption

LEMMA SystemType ==
    ASSUME system \in Systems
    PROVE  /\ system \in System
           /\ system.components \in Seq(Seq(Var))
           /\ system.direct \in [Var -> Type \union {Unbound}]
           /\ system.overload \subseteq Var
           /\ system.bindings \in [Var -> Seq(Binding)]
           /\ system.nogoods \subseteq SUBSET Fact
           /\ system.implied \subseteq Fact \X Fact
           /\ system.rank \in [Type -> Nat]
  BY SolverAssumption DEF System

LEMMA SystemParts ==
    ASSUME system \in Systems
    PROVE  /\ \A v \in Var : \E k \in DOMAIN system.components : v \in Members(system, k)
           /\ \A k \in DOMAIN system.components :
                 system.components[k] # <<>> /\ IsInjective(system.components[k])
           /\ \A k, l \in DOMAIN system.components :
                 k # l => Members(system, k) \intersect Members(system, l) = {}
           /\ \A N \in system.nogoods :
                 /\ N # {}
                 /\ \E k \in DOMAIN system.components :
                       \A f \in N : f[1] \in Members(system, k)
           /\ \A p \in system.implied : \E k \in DOMAIN system.components :
                 p[1][1] \in Members(system, k) /\ p[2][1] \in Members(system, k)
           /\ \A p, q \in system.implied : p[2] = q[1] => <<p[1], q[2]>> \in system.implied
           /\ \A v \in Var : \A i, j \in DOMAIN system.bindings[v] :
                 system.bindings[v][i].type = system.bindings[v][j].type => i = j
  <1>1. \A p \in system.implied : \E k \in DOMAIN system.components :
            p[1][1] \in Members(system, k) /\ p[2][1] \in Members(system, k)
    <2>1. TAKE p \in system.implied
    <2>1a. \A N \in system.nogoods \union {{r[1], r[2]} : r \in system.implied} :
              \E k \in DOMAIN system.components :
                  \A f \in N : f[1] \in Members(system, k)
      BY SolverAssumption
    <2>2. {p[1], p[2]} \in system.nogoods \union {{r[1], r[2]} : r \in system.implied}
      OBVIOUS
    <2>3. PICK k \in DOMAIN system.components :
              \A f \in {p[1], p[2]} : f[1] \in Members(system, k)
      BY <2>1a, <2>2
    <2> QED
      BY <2>3
  <1>2. \A N \in system.nogoods :
            /\ N # {}
            /\ \E k \in DOMAIN system.components :
                  \A f \in N : f[1] \in Members(system, k)
    BY SolverAssumption
  <1>3. \A k, l \in DOMAIN system.components :
            k # l => Members(system, k) \intersect Members(system, l) = {}
    BY SolverAssumption
  <1> QED
    BY <1>1, <1>2, <1>3, SolverAssumption

-----------------------------------------------------------------------------
(* Assignments.                                                            *)

Assignment == [Var -> Type \union {Unbound}]

\* The assignment a with the facts F.
With(a, F) ==
    [v \in Var |-> IF \E t \in Type : <<v, t>> \in F
                   THEN CHOOSE t \in Type : <<v, t>> \in F ELSE a[v]]

LEMMA WithFacts ==
    ASSUME NEW a \in Assignment, NEW F \in SUBSET Fact,
           \A f \in F : a[f[1]] = Unbound,
           \A f, g \in F : f[1] = g[1] => f = g
    PROVE  /\ With(a, F) \in Assignment
           /\ \A v \in Var : a[v] # Unbound => With(a, F)[v] = a[v]
           /\ \A f \in F : With(a, F)[f[1]] = f[2]
           /\ \A v \in Var : \/ With(a, F)[v] = a[v]
                             \/ <<v, With(a, F)[v]>> \in F
  <1>1. \A f \in F : With(a, F)[f[1]] = f[2]
    <2>1. TAKE f \in F
    <2>2. f[1] \in Var /\ f[2] \in Type /\ f = <<f[1], f[2]>>
      BY DEF Fact
    <2>3. \A t \in Type : <<f[1], t>> \in F => t = f[2]
      BY <2>2
    <2> QED
      BY <2>2, <2>3 DEF With
  <1>2. With(a, F) \in Assignment
    BY DEF With, Assignment
  <1>3. \A v \in Var : a[v] # Unbound => With(a, F)[v] = a[v]
    BY DEF With, Fact
  <1>4. \A v \in Var : With(a, F)[v] = a[v] \/ <<v, With(a, F)[v]>> \in F
    BY DEF With
  <1> QED
    BY <1>1, <1>2, <1>3, <1>4

LEMMA FactsOf ==
    ASSUME NEW a \in Assignment
    PROVE  /\ Facts(a) \subseteq Fact
           /\ \A f \in Fact : f \in Facts(a) <=> a[f[1]] = f[2]
           /\ \A v \in Var, t \in Type : <<v, t>> \in Facts(a) <=> a[v] = t
           /\ \A v \in Var : a[v] # Unbound => <<v, a[v]>> \in Facts(a)
  BY DEF Facts, Assignment, Fact

\* What is implied by what is bound is bound, all at once.
LEMMA SimplifiedFacts ==
    ASSUME system \in Systems, NEW a \in Assignment
    PROVE  /\ Simplified(a) \in Assignment
           /\ \A v \in Var : a[v] # Unbound => Simplified(a)[v] = a[v]
           /\ \A v \in Var : Simplified(a)[v] # a[v] =>
                 \E p \in system.implied :
                     /\ p[1] \in Facts(a)
                     /\ p[2] = <<v, Simplified(a)[v]>>
           /\ \A p \in system.implied :
                 p[1] \in Facts(Simplified(a)) => Simplified(a)[p[2][1]] # Unbound
  <1> DEFINE T(v) == {p[2][2] : p \in {q \in system.implied :
                                  q[2][1] = v /\ a[q[1][1]] = q[1][2]}}
             b == Simplified(a)
  <1>1. b = [v \in Var |-> IF a[v] = Unbound
                           THEN IF T(v) = {} THEN Unbound ELSE CHOOSE t \in T(v) : TRUE
                           ELSE a[v]]
    BY DEF Simplified
  <1>2. \A p \in system.implied : /\ p[1] \in Fact /\ p[2] \in Fact /\ p = <<p[1], p[2]>>
                                  /\ p[1][1] \in Var /\ p[2][1] \in Var
                                  /\ p[1][2] \in Type /\ p[2][2] \in Type
    BY SystemType DEF Fact
  <1>3. \A v \in Var : T(v) \subseteq Type
    BY <1>2
  <1>4. \A v \in Var : T(v) = {} \/ (CHOOSE t \in T(v) : TRUE) \in T(v)
    OBVIOUS
  <1>5. ASSUME NEW v \in Var, NEW t \in T(v)
        PROVE  \E p \in system.implied : p[1] \in Facts(a) /\ p[2] = <<v, t>>
    <2>1. PICK p \in system.implied : p[2][1] = v /\ a[p[1][1]] = p[1][2] /\ t = p[2][2]
      OBVIOUS
    <2>2. p[2] = <<p[2][1], p[2][2]>>
      BY <2>1, SystemType DEF Fact
    <2> QED
      BY <2>1, <2>2, <1>2, FactsOf
  <1>6. \A p \in system.implied : p[1] \in Facts(a) => p[2][2] \in T(p[2][1])
    BY <1>2, FactsOf
  <1> HIDE DEF T
  <1>7. b \in Assignment
    BY <1>1, <1>3, <1>4 DEF Assignment
  <1>8. \A v \in Var : a[v] # Unbound => b[v] = a[v]
    BY <1>1
  <1>9. \A v \in Var : b[v] # a[v] => b[v] \in T(v)
    BY <1>1, <1>4
  <1>10. \A v \in Var : T(v) # {} => b[v] # Unbound
    BY <1>1, <1>3, <1>4, Constants
  <1> HIDE DEF b
  <1>11. ASSUME NEW p \in system.implied, p[1] \in Facts(b)
         PROVE  b[p[2][1]] # Unbound
    <2>1. CASE p[1] \in Facts(a)
      BY <2>1, <1>2, <1>6, <1>10
    <2>2. CASE p[1] \notin Facts(a)
      <3>1. b[p[1][1]] = p[1][2] /\ a[p[1][1]] # p[1][2]
        BY <2>2, <1>2, <1>7, <1>11, FactsOf
      <3>2. p[1][2] \in T(p[1][1])
        BY <3>1, <1>2, <1>9
      <3>3. PICK q \in system.implied : q[1] \in Facts(a) /\ q[2] = <<p[1][1], p[1][2]>>
        BY <3>2, <1>2, <1>5
      <3>4. q[2] = p[1]
        <4>1. p[1] = <<p[1][1], p[1][2]>>
          BY <1>2 DEF Fact
        <4> QED  BY <4>1, <3>3
      <3>5. <<q[1], p[2]>> \in system.implied
        BY <3>4, SystemParts
      <3> DEFINE r == <<q[1], p[2]>>
      <3>6. r[1] = q[1] /\ r[2] = p[2]
        OBVIOUS
      <3> HIDE DEF r
      <3> QED  BY <3>3, <3>5, <3>6, <1>2, <1>6, <1>10 DEF r
    <2> QED  BY <2>1, <2>2
  <1> QED
    BY <1>5, <1>7, <1>8, <1>9, <1>11 DEF b

-----------------------------------------------------------------------------
(* The state of the constraint graph and what scopes restore of it.        *)

CoreType ==
    [assignment : Assignment, changes : Seq(Var), score : Nat,
     best : Nat \union {Infinity}, bound : Nat]

ScopeType ==
    [changes : Nat, score : Nat, best : Nat \union {Infinity}, bound : Nat]

\* The variables bound by the first m changes.
Prefix(c, m) == {c.changes[x] : x \in 1..m}

\* The log has the bound variables, each once.
LogExact(c) ==
    /\ {v \in Var : c.assignment[v] # Unbound} = ToSet(c.changes)
    /\ IsInjective(c.changes)
    /\ c.bound = Len(c.changes)

\* Facts about variables that are not bound, one each.
Fresh(F, a) ==
    /\ F \subseteq Fact
    /\ \A f \in F : a[f[1]] = Unbound
    /\ \A f, g \in F : f[1] = g[1] => f = g

\* The log of d is that of c with more changes.
Extends(d, c) ==
    /\ Len(c.changes) <= Len(d.changes)
    /\ \A x \in 1..Len(c.changes) : d.changes[x] = c.changes[x]

\* The assignment a says F.
Says(a, F) == \A f \in F : a[f[1]] = f[2]

LEMMA BoundType ==
    ASSUME system \in Systems, NEW c \in CoreType, LogExact(c),
           NEW F, Fresh(F, c.assignment), NEW s \in Nat
    PROVE  /\ Bound(c, F, s) \in CoreType
           /\ LogExact(Bound(c, F, s))
           /\ Bound(c, F, s).assignment = Simplified(With(c.assignment, F))
           /\ Bound(c, F, s).score = c.score + s
           /\ Bound(c, F, s).best = c.best
           /\ Extends(Bound(c, F, s), c)
           /\ \A v \in Var : c.assignment[v] # Unbound =>
                 Bound(c, F, s).assignment[v] = c.assignment[v]
           /\ Says(Bound(c, F, s).assignment, F)
  <1> DEFINE after == Simplified(With(c.assignment, F))
             new == {v \in Var : after[v] # c.assignment[v]}
             d == Bound(c, F, s)
  <1>1. c.assignment \in Assignment /\ c.changes \in Seq(Var)
        /\ c.score \in Nat /\ c.best \in Nat \union {Infinity} /\ c.bound \in Nat
    BY DEF CoreType
  <1>2. /\ With(c.assignment, F) \in Assignment
        /\ \A v \in Var : c.assignment[v] # Unbound => With(c.assignment, F)[v] = c.assignment[v]
        /\ \A f \in F : With(c.assignment, F)[f[1]] = f[2]
    BY <1>1, WithFacts DEF Fresh
  <1>3. /\ after \in Assignment
        /\ \A v \in Var : With(c.assignment, F)[v] # Unbound => after[v] = With(c.assignment, F)[v]
    BY <1>2, SimplifiedFacts
  <1>5. \A f \in F : f[1] \in Var /\ f[2] # Unbound
    BY Constants DEF Fact, Fresh
  <1>6. d = [c EXCEPT !.assignment = after, !.changes = @ \o SetToSeq(new),
                      !.score = @ + s, !.bound = @ + Cardinality(new)]
    BY DEF Bound, With
  <1> HIDE DEF after
  <1>7. IsFiniteSet(new) /\ Cardinality(new) \in Nat
    BY Constants, FS_Subset, FS_CardinalityType
  <1> DEFINE q == SetToSeq(new)
  <1>8. q \in Seq(Var) /\ Len(q) = Cardinality(new) /\ IsInjective(q) /\ ToSet(q) = new
    <2>1. q \in Seq(new) /\ Len(q) = Cardinality(new) /\ IsInjective(q) /\ ToSet(q) = new
      BY <1>7, SetToSeqFacts
    <2> HIDE DEF q
    <2>2. q \in Seq(Var)
      BY <2>1
    <2> QED
      BY <2>1, <2>2
  <1> HIDE DEF q
  <1>9. /\ d.assignment = after /\ d.changes = c.changes \o q
        /\ d.score = c.score + s /\ d.bound = c.bound + Cardinality(new) /\ d.best = c.best
    BY <1>6 DEF CoreType, q
  <1>11. \A v \in Var : c.assignment[v] # Unbound => after[v] = c.assignment[v]
    BY <1>2, <1>3
  <1>12. \A v \in new : c.assignment[v] = Unbound
    BY <1>11
  <1>13. \A v \in Var : after[v] # Unbound <=> (c.assignment[v] # Unbound \/ v \in new)
    BY <1>11
  <1>14. ToSet(c.changes) \intersect new = {}
    BY <1>12 DEF LogExact
  <1>15. /\ d.changes \in Seq(Var) /\ Len(d.changes) = Len(c.changes) + Len(q)
         /\ \A x \in 1..Len(c.changes) : d.changes[x] = c.changes[x]
         /\ ToSet(d.changes) = ToSet(c.changes) \union new
         /\ IsInjective(d.changes)
    <2>1. IsInjective(c.changes)
      BY DEF LogExact
    <2>2. /\ c.changes \o q \in Seq(Var) /\ Len(c.changes \o q) = Len(c.changes) + Len(q)
          /\ \A x \in 1..Len(c.changes) : (c.changes \o q)[x] = c.changes[x]
          /\ ToSet(c.changes \o q) = ToSet(c.changes) \union ToSet(q)
          /\ IsInjective(c.changes \o q)
      <3>1. c.changes \in Seq(Var) /\ q \in Seq(Var)
            /\ ToSet(c.changes) \intersect ToSet(q) = {} /\ IsInjective(q)
        BY <1>1, <1>8, <1>14
      <3> HIDE DEF new
      <3> QED  BY <2>1, <3>1, Concatenation
    <2> QED  BY <2>2, <1>8, <1>9
  <1>10. d \in CoreType
    <2>1. d = [assignment |-> after, changes |-> c.changes \o q, score |-> c.score + s,
               best |-> c.best, bound |-> c.bound + Cardinality(new)]
      BY <1>6 DEF CoreType, q
    <2> QED
      BY <2>1, <1>1, <1>3, <1>7, <1>9, <1>15 DEF CoreType, Assignment
  <1>16. LogExact(d)
    <2>1. {v \in Var : d.assignment[v] # Unbound} = ToSet(d.changes)
      BY <1>9, <1>13, <1>15 DEF LogExact
    <2>2. d.bound = Len(d.changes)
      BY <1>1, <1>8, <1>9, <1>15 DEF LogExact
    <2> QED
      BY <2>1, <2>2, <1>9, <1>15 DEF LogExact
  <1>17. /\ Len(c.changes) <= Len(d.changes)
         /\ \A x \in 1..Len(c.changes) : d.changes[x] = c.changes[x]
    BY <1>1, <1>8, <1>15
  <1> QED
    BY <1>2, <1>3, <1>5, <1>9, <1>10, <1>11, <1>16, <1>17 DEF after, Extends, Says

\* What a sound guess leaves: if no constraint on a new binding fails, all hold.
LEMMA BoundConsistent ==
    ASSUME system \in Systems, NEW c \in CoreType, LogExact(c),
           NEW F, Fresh(F, c.assignment), NEW s \in Nat, Consistent(c.assignment),
           NEW W, \A v \in Var :
                     Bound(c, F, s).assignment[v] # c.assignment[v] => v \in W,
           ~Conflicts(Bound(c, F, s).assignment, W)
    PROVE  Consistent(Bound(c, F, s).assignment)
  <1> DEFINE a == c.assignment
             b == Bound(c, F, s).assignment
  <1>1. /\ a \in Assignment /\ b \in Assignment
        /\ \A v \in Var : a[v] # Unbound => b[v] = a[v]
    <2>1. Bound(c, F, s) \in CoreType /\ c \in CoreType
      BY BoundType
    <2>2. \A v \in Var : a[v] # Unbound => b[v] = a[v]
      BY BoundType
    <2> QED  BY <2>1, <2>2 DEF CoreType
  <1>2. \A p \in system.implied : p[1] \in Facts(b) => b[p[2][1]] # Unbound
    <2>1. With(a, F) \in Assignment
      BY <1>1, WithFacts DEF Fresh
    <2>2. b = Simplified(With(a, F))
      BY BoundType
    <2> HIDE DEF a, b
    <2> QED  BY <2>1, <2>2, SimplifiedFacts
  <1>3. \A f \in Fact : f[1] \in Var /\ f[2] \in Type /\ f[2] # Unbound
    BY Constants DEF Fact
  <1>4. \A f \in Fact : f \in Facts(b) /\ f[1] \notin W => f \in Facts(a)
    BY <1>1, <1>3, FactsOf
  <1>5. \A f \in Fact : f \in Facts(a) => f \in Facts(b)
    BY <1>1, <1>3, FactsOf
  <1>6. Facts(b) \subseteq Fact /\ Facts(a) \subseteq Fact
    BY <1>1, FactsOf
  <1>7. Consistent(a) /\ ~Conflicts(b, W)
    OBVIOUS
  <1> HIDE DEF a, b
  <1>8. ASSUME NEW N \in system.nogoods, N \subseteq Facts(b) PROVE FALSE
    <2>1. \A f \in N : f[1] \notin W
      BY <1>7, <1>8 DEF Conflicts
    <2>2. N \subseteq Facts(a)
      BY <2>1, <1>4, <1>6, <1>8
    <2> QED  BY <2>2, <1>7 DEF Consistent
  <1>9. ASSUME NEW p \in system.implied, p[1] \in Facts(b) PROVE p[2] \in Facts(b)
    <2>1. p[1] \in Fact /\ p[2] \in Fact
      BY SystemType
    <2>2. CASE p[1] \in Facts(a)
      BY <2>1, <2>2, <1>5, <1>7 DEF Consistent
    <2>3. CASE p[1] \notin Facts(a)
      <3>1. p[1][1] \in W
        BY <2>1, <2>3, <1>4, <1>9
      <3>2. b[p[2][1]] \in {p[2][2], Unbound}
        BY <3>1, <1>7, <1>9 DEF Conflicts
      <3>3. b[p[2][1]] = p[2][2]
        BY <3>2, <1>2, <1>9
      <3> QED  BY <3>3, <2>1, <1>1, FactsOf
    <2> QED  BY <2>2, <2>3
  <1> QED
    BY <1>8, <1>9 DEF Consistent, a, b

\* The assignment a can still be completed to w.
Agrees(a, w) == \A v \in Var : a[v] \in {w[v], Unbound}

\* What is inferred from facts of a solution are facts of it, and no conflict.
LEMMA BoundAgrees ==
    ASSUME system \in Systems, NEW c \in CoreType, LogExact(c),
           NEW F, Fresh(F, c.assignment), NEW s \in Nat,
           NEW w \in [Var -> Type], Consistent(w), Agrees(c.assignment, w),
           \A f \in F : w[f[1]] = f[2]
    PROVE  /\ Agrees(Bound(c, F, s).assignment, w)
           /\ \A W : ~Conflicts(Bound(c, F, s).assignment, W)
  <1> DEFINE a == With(c.assignment, F)
             b == Bound(c, F, s).assignment
  <1>1. c.assignment \in Assignment /\ b \in Assignment /\ b = Simplified(a)
    BY BoundType DEF CoreType
  <1>2. /\ a \in Assignment
        /\ \A v \in Var : a[v] = c.assignment[v] \/ <<v, a[v]>> \in F
    BY <1>1, WithFacts DEF Fresh
  <1>3. Agrees(a, w)
    <2> SUFFICES ASSUME NEW v \in Var PROVE a[v] \in {w[v], Unbound}
      BY DEF Agrees
    <2>2. CASE <<v, a[v]>> \in F
      <3> DEFINE f == <<v, a[v]>>
      <3>1. w[f[1]] = f[2]
        BY <2>2
      <3> QED  BY <3>1
    <2>3. CASE a[v] = c.assignment[v]
      BY <2>3 DEF Agrees
    <2> QED  BY <1>2, <2>2, <2>3
  <1>4. w \in Assignment
    BY DEF Assignment
  <1> HIDE DEF a, b
  <1>5. \A f \in Fact : f[1] \in Var /\ f[2] \in Type /\ f[2] # Unbound
    BY Constants DEF Fact
  <1>6. \A e \in Assignment : Agrees(e, w) => \A f \in Fact : f \in Facts(e) => f \in Facts(w)
    BY <1>4, <1>5, FactsOf DEF Agrees
  <1>7. Agrees(b, w)
    <2> SUFFICES ASSUME NEW v \in Var PROVE b[v] \in {w[v], Unbound}
      BY DEF Agrees
    <2>1. CASE b[v] = a[v]
      BY <2>1, <1>3 DEF Agrees
    <2>2. CASE b[v] # a[v]
      <3>1. PICK p \in system.implied : p[1] \in Facts(a) /\ p[2] = <<v, b[v]>>
        BY <2>2, <1>1, <1>2, SimplifiedFacts
      <3>2. p[1] \in Fact /\ p[2] \in Fact
        BY SystemType
      <3>3. p[2] \in Facts(w)
        BY <3>1, <3>2, <1>2, <1>3, <1>6 DEF Consistent
      <3>4. w[p[2][1]] = p[2][2]
        BY <3>2, <3>3, <1>4, FactsOf
      <3> QED  BY <3>1, <3>4
    <2> QED  BY <2>1, <2>2
  <1>8. Facts(b) \subseteq Facts(w)
    BY <1>1, <1>6, <1>7, FactsOf
  <1>9. ASSUME NEW W, Conflicts(b, W) PROVE FALSE
    <2>1. \A N \in system.nogoods : ~(N \subseteq Facts(b))
      BY <1>8 DEF Consistent
    <2>2. PICK p \in system.implied : p[1] \in Facts(b) /\ b[p[2][1]] \notin {p[2][2], Unbound}
      BY <2>1, <1>9 DEF Conflicts
    <2>3. p[1] \in Fact /\ p[2] \in Fact
      BY SystemType
    <2>4. p[2] \in Facts(w)
      BY <2>2, <1>8 DEF Consistent
    <2>5. w[p[2][1]] = p[2][2]
      BY <2>3, <2>4, <1>4, FactsOf
    <2> QED  BY <2>2, <2>3, <2>5, <1>5, <1>7 DEF Agrees
  <1> QED
    BY <1>7, <1>9 DEF b

\* Bindings do not leave the component.
LEMMA BoundWithin ==
    ASSUME system \in Systems, NEW c \in CoreType, LogExact(c),
           NEW F, Fresh(F, c.assignment), NEW s \in Nat,
           NEW k \in DOMAIN system.components,
           \A f \in Facts(With(c.assignment, F)) : f[1] \in Members(system, k)
    PROVE  \A v \in Var : Bound(c, F, s).assignment[v] # Unbound => v \in Members(system, k)
  <1> DEFINE a == With(c.assignment, F)
             b == Bound(c, F, s).assignment
  <1>1. c.assignment \in Assignment /\ b = Simplified(a) /\ a \in Assignment
    <2>1. c.assignment \in Assignment
      BY DEF CoreType
    <2>2. b = Simplified(a)
      BY BoundType
    <2> QED  BY <2>1, <2>2, WithFacts DEF Fresh
  <1> HIDE DEF a, b
  <1>2. ASSUME NEW v \in Var, b[v] # Unbound PROVE v \in Members(system, k)
    <2>1. CASE b[v] = a[v]
      <3> DEFINE f == <<v, a[v]>>
      <3>1. f \in Facts(a)
        BY <2>1, <1>1, <1>2, FactsOf
      <3>2. f[1] \in Members(system, k)
        BY <3>1 DEF a
      <3> QED  BY <3>2
    <2>2. CASE b[v] # a[v]
      <3>1. PICK p \in system.implied : p[1] \in Facts(a) /\ p[2] = <<v, b[v]>>
        BY <2>2, <1>1, SimplifiedFacts
      <3>2. PICK l \in DOMAIN system.components :
                p[1][1] \in Members(system, l) /\ p[2][1] \in Members(system, l)
        BY SystemParts
      <3>3. p[1][1] \in Members(system, k)
        BY <3>1 DEF a
      <3>4. l = k
        BY <3>2, <3>3, SystemParts
      <3> QED  BY <3>1, <3>2, <3>4
    <2> QED  BY <2>1, <2>2
  <1> QED
    BY <1>2 DEF b

\* The assignment when m changes had been made.
AtLevel(c, m) == [v \in Var |-> IF v \in Prefix(c, m) THEN c.assignment[v] ELSE Unbound]

\* Leaving a scope restores the level it was opened at.
LEMMA LeftFacts ==
    ASSUME NEW c \in CoreType, LogExact(c), NEW s \in ScopeType,
           s.changes <= Len(c.changes), s.bound = s.changes
    PROVE  /\ Left(c, s) \in CoreType /\ LogExact(Left(c, s))
           /\ Left(c, s).assignment = AtLevel(c, s.changes)
           /\ Len(Left(c, s).changes) = s.changes
           /\ \A x \in 1..s.changes : Left(c, s).changes[x] = c.changes[x]
           /\ Left(c, s).score = s.score /\ Left(c, s).best = s.best
  <1> DEFINE d == Left(c, s)
             m == s.changes
             undone == ToSet(SubSeq(c.changes, m + 1, Len(c.changes)))
  <1>1. /\ c.assignment \in Assignment /\ c.changes \in Seq(Var)
        /\ s.score \in Nat /\ s.best \in Nat \union {Infinity} /\ s.bound \in Nat
        /\ m \in 0..Len(c.changes)
    BY DEF CoreType, ScopeType
  <1>2. /\ d.assignment = [v \in Var |-> IF v \in undone THEN Unbound ELSE c.assignment[v]]
        /\ d.changes = SubSeq(c.changes, 1, m)
        /\ d.score = s.score /\ d.best = s.best /\ d.bound = s.bound
        /\ d = [assignment |-> d.assignment, changes |-> d.changes,
                score |-> d.score, best |-> d.best, bound |-> d.bound]
    BY DEF Left
  <1>3. /\ d.changes \in Seq(Var) /\ Len(d.changes) = m
        /\ \A x \in 1..m : d.changes[x] = c.changes[x]
        /\ ToSet(d.changes) = Prefix(c, m)
        /\ undone = {c.changes[x] : x \in (m + 1)..Len(c.changes)}
    BY <1>1, <1>2, SubSequence DEF Prefix
  <1> HIDE DEF d, undone
  <1>4. ToSet(c.changes) = Prefix(c, m) \union undone
    BY <1>1, <1>3 DEF ToSet, Prefix
  <1>5. Prefix(c, m) \intersect undone = {}
    BY <1>1, <1>3 DEF Prefix, LogExact, IsInjective
  <1>6. d.assignment = AtLevel(c, m)
    <2>1. \A v \in Var : v \notin Prefix(c, m) /\ v \notin undone => c.assignment[v] = Unbound
      BY <1>4 DEF LogExact
    <2> QED  BY <2>1, <1>2, <1>5 DEF AtLevel
  <1>7. d.assignment \in Assignment
    BY <1>1, <1>6 DEF AtLevel, Assignment
  <1>8. d \in CoreType
    BY <1>1, <1>2, <1>3, <1>7 DEF CoreType
  <1>9. {v \in Var : d.assignment[v] # Unbound} = Prefix(c, m)
    BY <1>4, <1>6 DEF AtLevel, LogExact
  <1>10. IsInjective(d.changes)
    <2>1. DOMAIN d.changes = 1..m /\ 1..m \subseteq DOMAIN c.changes
      BY <1>1, <1>3
    <2>2. IsInjective(c.changes)
      BY DEF LogExact
    <2> QED  BY <2>1, <2>2, <1>3 DEF IsInjective
  <1> QED
    BY <1>2, <1>3, <1>6, <1>8, <1>9, <1>10 DEF LogExact, d

-----------------------------------------------------------------------------
(* Scopes and the steps that opened them.  The definitions have the state  *)
(* as parameters, since a step of the search leaves a scope, opens one and *)
(* pushes steps all at once.                                               *)

BindType ==
    [kind : {"bind"}, component : Nat, var : Var, bindings : SUBSET Nat,
     followup : BOOLEAN, valid : BOOLEAN, scope : Nat]

StepType == BindType \union [kind : {"find"}, component : Nat] \union [kind : {"split"}]

\* The number of changes and the score in the n-th scope.
ChangesIn(c, sc, n) == IF n < Len(sc) THEN sc[n + 1].changes ELSE Len(c.changes)
ScoreAt(c, sc, n) == IF n < Len(sc) THEN sc[n + 1].score ELSE c.score

\* The positions of the steps in w whose scope is open.
Open(w) == {i \in DOMAIN w : w[i].kind = "bind" /\ w[i].scope # 0}

\* The j-th step of w runs in the n-th scope.
At(w, j, n) == \A i \in Open(w) : /\ i < j => w[i].scope <= n
                                  /\ i >= j => w[i].scope > n

\* The scopes sc of c put back ever less.
ScopesFit(c, sc) ==
    /\ sc \in Seq(ScopeType) /\ sc # <<>>
    /\ sc[1].changes = 0 /\ sc[1].score = 0 /\ sc[1].best = Infinity
    /\ \A n \in DOMAIN sc : sc[n].bound = sc[n].changes /\ sc[n].changes <= Len(c.changes)
    /\ \A m, n \in DOMAIN sc : m <= n => sc[m].changes <= sc[n].changes
    /\ ScoreAt(c, sc, 1) = 0

\* Guessing t for v may have raised the score from m to n.
ScoreFits(v, t, m, n) == \E r \in Nat : IsScore(v, t, r) /\ n = m + r

\* But for the first, they belong to steps on the worklist, in that order,
\* whose variable is bound in them at the cost of the guess.
GuessesFit(c, sc, w) ==
    /\ {w[i].scope : i \in Open(w)} = 2..Len(sc)
    /\ \A i, j \in Open(w) : i < j => w[i].scope < w[j].scope
    /\ \A i \in Open(w) :
          /\ w[i].var \in Prefix(c, ChangesIn(c, sc, w[i].scope))
          /\ ScoreFits(w[i].var, c.assignment[w[i].var], sc[w[i].scope].score,
                       ScoreAt(c, sc, w[i].scope))

\* The variable of a step is not bound where it runs.
Clear(c, sc, w) ==
    \A j \in DOMAIN w, n \in 1..Len(sc) :
        (w[j].kind = "bind" /\ At(w, j, n)) =>
            w[j].var \notin Prefix(c, ChangesIn(c, sc, n))

\* The bindings of every scope satisfy the constraints.
Sound(c, sc) ==
    \A n \in 1..Len(sc) : Consistent(AtLevel(c, ChangesIn(c, sc, n)))

Chain(c, sc, w) ==
    /\ c \in CoreType /\ LogExact(c) /\ w \in Seq(StepType)
    /\ ScopesFit(c, sc) /\ GuessesFit(c, sc, w) /\ Clear(c, sc, w) /\ Sound(c, sc)

LEMMA StepFields ==
    ASSUME NEW s \in StepType, s.kind = "bind"
    PROVE  s \in BindType /\ s.var \in Var /\ s.scope \in Nat
  BY DEF StepType, BindType

LEMMA TopOpen ==
    ASSUME NEW c, NEW sc, NEW w, Chain(c, sc, w), w # <<>>, Len(w) \in Open(w)
    PROVE  w[Len(w)].scope = Len(sc) /\ Len(sc) >= 2
  <1>1. /\ sc \in Seq(ScopeType) /\ w \in Seq(StepType) /\ Len(w) \in Nat /\ Len(sc) \in Nat
        /\ DOMAIN w = 1..Len(w)
    BY DEF Chain, ScopesFit
  <1>2. /\ {w[i].scope : i \in Open(w)} = 2..Len(sc)
        /\ \A i, j \in Open(w) : i < j => w[i].scope < w[j].scope
    BY DEF Chain, GuessesFit
  <1>3. w[Len(w)].scope \in 2..Len(sc)
    BY <1>2
  <1>4. PICK i \in Open(w) : w[i].scope = Len(sc)
    <2>1. Len(sc) \in 2..Len(sc)
      BY <1>1, <1>3
    <2> QED  BY <2>1, <1>2
  <1>5. ~(i < Len(w))
    BY <1>1, <1>2, <1>3, <1>4
  <1>6. i = Len(w)
    BY <1>1, <1>5 DEF Open
  <1> QED
    BY <1>1, <1>3, <1>4, <1>6

LEMMA PrefixGrows ==
    ASSUME NEW c, NEW m \in Nat, NEW n \in Nat, m <= n
    PROVE  Prefix(c, m) \subseteq Prefix(c, n)
  BY DEF Prefix

\* What the last level binds is the assignment.
LEMMA TopLevel ==
    ASSUME NEW c \in CoreType, LogExact(c)
    PROVE  /\ AtLevel(c, Len(c.changes)) = c.assignment
           /\ \A v \in Var : v \in Prefix(c, Len(c.changes)) <=> c.assignment[v] # Unbound
  <1>1. ToSet(c.changes) = Prefix(c, Len(c.changes))
    BY DEF ToSet, Prefix, CoreType
  <1>2. c.assignment \in Assignment
    BY DEF CoreType
  <1> QED
    BY <1>1, <1>2 DEF AtLevel, LogExact, Assignment

\* Levels below are the same for two states that share a part of their log.
LEMMA SameLevel ==
    ASSUME NEW c, NEW d, NEW m \in Nat, NEW n \in Nat, n <= m,
           \A x \in 1..m : d.changes[x] = c.changes[x],
           \A v \in Prefix(c, m) : d.assignment[v] = c.assignment[v]
    PROVE  Prefix(d, n) = Prefix(c, n) /\ AtLevel(d, n) = AtLevel(c, n)
  <1>1. \A x \in 1..n : x \in 1..m
    OBVIOUS
  <1>2. Prefix(d, n) = Prefix(c, n)
    BY <1>1 DEF Prefix
  <1>3. Prefix(c, n) \subseteq Prefix(c, m)
    BY PrefixGrows
  <1> QED
    BY <1>2, <1>3 DEF AtLevel

\* What GaveUp and Outside make of any state.
Given(c, sc, s) == IF s.scope = 0 THEN c ELSE Left(c, sc[s.scope])
Around(sc, s) == IF s.scope = 0 THEN sc ELSE SubSeq(sc, 1, s.scope - 1)

\* The top step leaves its scope.
LEMMA GiveUp ==
    ASSUME NEW c, NEW sc, NEW w, Chain(c, sc, w), w # <<>>, Last(w).kind = "bind",
           NEW t \in StepType, t.kind = "bind", t.var = Last(w).var, t.scope = 0
    PROVE  /\ Chain(Given(c, sc, Last(w)), Around(sc, Last(w)), Append(Front(w), t))
           /\ Given(c, sc, Last(w)).assignment[t.var] = Unbound
           /\ Len(Given(c, sc, Last(w)).changes) <= Len(c.changes)
           /\ Given(c, sc, Last(w)).assignment = AtLevel(c, Len(Given(c, sc, Last(w)).changes))
           /\ \A n \in 1..Len(Around(sc, Last(w))) :
                 /\ ChangesIn(Given(c, sc, Last(w)), Around(sc, Last(w)), n) = ChangesIn(c, sc, n)
                 /\ AtLevel(Given(c, sc, Last(w)), ChangesIn(c, sc, n))
                       = AtLevel(c, ChangesIn(c, sc, n))
           /\ \A j \in 1..Len(w), n \in 1..Len(Around(sc, Last(w))) :
                 At(Append(Front(w), t), j, n) => At(w, j, n)
  <1> DEFINE L == Len(w)
             s == w[L]
             v == Append(Front(w), t)
             d == Given(c, sc, s)
             sd == Around(sc, s)
  <1>1. /\ c \in CoreType /\ LogExact(c) /\ w \in Seq(StepType) /\ ScopesFit(c, sc)
        /\ GuessesFit(c, sc, w) /\ Clear(c, sc, w) /\ Sound(c, sc)
    BY DEF Chain
  <1>2. /\ L \in Nat /\ L >= 1 /\ DOMAIN w = 1..L /\ Last(w) = s /\ s \in StepType
        /\ s.kind = "bind" /\ s.var \in Var /\ s.scope \in Nat
    <2>1. L \in Nat /\ L >= 1 /\ DOMAIN w = 1..L /\ Last(w) = s /\ s \in StepType
      BY <1>1 DEF Last
    <2> QED  BY <2>1, StepFields
  <1>0. L \in Nat /\ L >= 1
    BY <1>2
  <1>3. /\ v \in Seq(StepType) /\ Len(v) = L /\ DOMAIN v = 1..L
        /\ \A i \in 1..(L - 1) : v[i] = w[i]
        /\ v[L] = t
    <2>1. /\ v \in Seq(StepType) /\ Len(v) = L
          /\ \A i \in 1..(L - 1) : v[i] = w[i]
          /\ v[L] = t
      BY <1>1, Replaced
    <2> QED  BY <2>1
  <1>4. /\ sc \in Seq(ScopeType) /\ Len(sc) \in Nat /\ Len(sc) >= 1 /\ DOMAIN sc = 1..Len(sc)
    BY <1>1 DEF ScopesFit
  <1> HIDE DEF v
  <1>5. Open(v) = Open(w) \ {L}
    <2>1. \A i \in 1..L : i # L => i \in 1..(L - 1)
      BY <1>0
    <2> QED  BY <2>1, <1>2, <1>3 DEF Open
  <1>6. CASE s.scope = 0
    <2>1. d = c /\ sd = sc
      BY <1>6 DEF Given, Around
    <2>2. L \notin Open(w)
      BY <1>6 DEF Open
    <2>3. Open(v) = Open(w) /\ \A i \in Open(w) : v[i] = w[i]
      BY <2>2, <1>2, <1>3, <1>5 DEF Open
    <2>4. \A j \in 1..L, n \in Nat : At(v, j, n) <=> At(w, j, n)
      BY <2>3 DEF At
    <2>5. GuessesFit(c, sc, v)
      <3>1. {v[i].scope : i \in Open(v)} = {w[i].scope : i \in Open(w)}
        BY <2>3
      <3> QED  BY <3>1, <2>3, <1>1 DEF GuessesFit
    <2>6. \A j \in 1..L : (v[j].kind = "bind") <=> (w[j].kind = "bind")
      BY <1>2, <1>3
    <2>7. \A j \in 1..L : v[j].kind = "bind" => v[j].var = w[j].var
      BY <1>2, <1>3
    <2>8. Clear(c, sc, v)
      BY <2>4, <2>6, <2>7, <1>1, <1>2, <1>3 DEF Clear
    <2>9. Chain(d, sd, v)
      BY <2>1, <2>5, <2>8, <1>1, <1>3 DEF Chain
    <2>10. c.assignment[s.var] = Unbound
      <3>1. At(w, L, Len(sc))
        <4>1. \A i \in Open(w) : w[i].scope \in 2..Len(sc) /\ i \in 1..L /\ i # L
          BY <1>1, <1>2, <2>2 DEF GuessesFit, Open
        <4> QED  BY <4>1, <1>2, <1>4 DEF At
      <3>2. s.var \notin Prefix(c, ChangesIn(c, sc, Len(sc)))
        BY <3>1, <1>1, <1>2, <1>4 DEF Clear
      <3> QED  BY <3>2, <1>1, <1>2, <1>4, TopLevel DEF ChangesIn
    <2>11. c.assignment = AtLevel(c, Len(c.changes)) /\ Len(c.changes) <= Len(c.changes)
      <3>1. Len(c.changes) \in Nat
        BY <1>1 DEF CoreType
      <3> QED  BY <3>1, <1>1, TopLevel
    <2> QED  BY <2>1, <2>4, <2>9, <2>10, <2>11, <1>2, <1>4 DEF v
  <1>7. CASE s.scope # 0
    <2>1. L \in Open(w)
      BY <1>2, <1>7 DEF Open
    <2>2. s.scope = Len(sc) /\ Len(sc) >= 2
      BY <2>1, <1>2, TopOpen
    <2> DEFINE K == Len(sc)
               m == sc[K].changes
    <2>3. /\ d = Left(c, sc[K]) /\ sd = SubSeq(sc, 1, K - 1)
      BY <1>7, <2>2 DEF Given, Around
    <2>0. K \in Nat /\ K >= 2 /\ K \in 1..K
      BY <1>4, <2>2
    <2>4. /\ sc[K] \in ScopeType /\ m \in Nat /\ m <= Len(c.changes) /\ sc[K].bound = m
      <3>1. K \in DOMAIN sc /\ sc[K] \in ScopeType
        BY <1>4, <2>0
      <3> QED  BY <3>1, <1>1 DEF ScopesFit, ScopeType
    <2>5. /\ d \in CoreType /\ LogExact(d)
          /\ d.assignment = AtLevel(c, m)
          /\ Len(d.changes) = m
          /\ \A x \in 1..m : d.changes[x] = c.changes[x]
          /\ d.score = sc[K].score
      BY <2>3, <2>4, <1>1, LeftFacts
    <2>6. /\ sd \in Seq(ScopeType) /\ Len(sd) = K - 1 /\ DOMAIN sd = 1..(K - 1)
          /\ \A n \in 1..(K - 1) : sd[n] = sc[n]
    <3>1. K - 1 \in 0..Len(sc)
        BY <1>4, <2>2
      <3> QED  BY <3>1, <2>3, <1>4, SubSequence
    <2> HIDE DEF d, sd
    <2>7. \A n \in 1..(K - 1) : /\ ChangesIn(d, sd, n) = ChangesIn(c, sc, n)
                                /\ ScoreAt(d, sd, n) = ScoreAt(c, sc, n)
                                /\ ChangesIn(c, sc, n) \in 0..m
      <3>1. TAKE n \in 1..(K - 1)
      <3>2. n + 1 \in 1..K /\ n + 1 <= K /\ n < K /\ (n < K - 1 \/ n + 1 = K)
        BY <2>0
      <3>3. ChangesIn(c, sc, n) = sc[n + 1].changes /\ ScoreAt(c, sc, n) = sc[n + 1].score
        BY <3>2 DEF ChangesIn, ScoreAt
      <3>4. sc[n + 1].changes <= m /\ sc[n + 1].changes \in Nat
        <4>0. \A x \in DOMAIN sc : sc[x] \in ScopeType
          BY <1>4
        <4>1. n + 1 \in DOMAIN sc /\ K \in DOMAIN sc /\ sc[n + 1] \in ScopeType
          BY <4>0, <3>2, <2>0, <1>4
        <4> QED  BY <4>1, <3>2, <1>1 DEF ScopesFit, ScopeType
      <3>5. CASE n < K - 1
        <4>1. n + 1 \in 1..(K - 1)
          BY <3>5, <1>4
        <4> QED  BY <4>1, <3>3, <3>4, <3>5, <2>4, <2>6 DEF ChangesIn, ScoreAt
      <3>6. CASE n + 1 = K
        BY <3>3, <3>4, <3>6, <2>4, <2>5, <2>6, <1>4 DEF ChangesIn, ScoreAt
      <3> QED  BY <3>2, <3>5, <3>6
    <2>8. \A n \in 0..m : Prefix(d, n) = Prefix(c, n) /\ AtLevel(d, n) = AtLevel(c, n)
      <3>1. \A x \in Prefix(c, m) : d.assignment[x] = c.assignment[x]
        <4>1. Prefix(c, m) \subseteq Var
          BY <1>1, <2>4 DEF Prefix, CoreType
        <4> QED  BY <4>1, <2>5 DEF AtLevel
      <3>2. \A n \in 0..m : n \in Nat /\ n <= m
        BY <2>4
      <3> QED  BY <3>1, <3>2, <2>4, <2>5, SameLevel
    <2>9. ScopesFit(d, sd)
      <3>1. sd # <<>> /\ 1 \in 1..(K - 1)
        BY <2>2, <2>6, <1>4
      <3>2. ScoreAt(d, sd, 1) = 0
        BY <3>1, <2>7, <1>1 DEF ScopesFit
      <3>3. \A n \in 1..(K - 1) : n \in 1..K /\ n <= K /\ K \in 1..K
        BY <1>4, <2>2
      <3>4. \A n \in DOMAIN sd : sd[n].bound = sd[n].changes /\ sd[n].changes <= m
        BY <3>3, <2>6, <1>1, <1>4 DEF ScopesFit
      <3> QED  BY <3>1, <3>2, <3>3, <3>4, <2>5, <2>6, <1>1, <1>4 DEF ScopesFit
    <2>10. \A i \in Open(v) : /\ v[i] = w[i] /\ i \in Open(w) /\ i \in 1..L /\ i < L
                              /\ w[i].scope \in 2..(K - 1)
      <3>1. TAKE i \in Open(v)
      <3>2. i \in Open(w) /\ i \in 1..L /\ i < L
        BY <1>2, <1>5 DEF Open
      <3>3. w[i].scope \in 2..K /\ w[i].scope < w[L].scope
        BY <3>2, <2>1, <1>1 DEF GuessesFit
      <3> QED  BY <3>2, <3>3, <2>2, <1>2, <1>3
    <2>11. GuessesFit(d, sd, v)
      <3>1. {v[i].scope : i \in Open(v)} = 2..Len(sd)
        <4>1. \A n \in 2..(K - 1) : \E i \in Open(v) : v[i].scope = n
          <5>1. TAKE n \in 2..(K - 1)
          <5>2. n \in 2..K /\ n # K
            BY <2>0
          <5>3. PICK i \in Open(w) : w[i].scope = n
            BY <5>2, <1>1 DEF GuessesFit
          <5>4. i # L
            BY <5>2, <5>3, <2>2
          <5> QED  BY <5>3, <5>4, <1>5, <2>10
        <4> QED  BY <4>1, <2>6, <2>10
      <3>2. \A i, j \in Open(v) : i < j => v[i].scope < v[j].scope
        BY <2>10, <1>1 DEF GuessesFit
      <3>3. ASSUME NEW i \in Open(v)
            PROVE  /\ v[i].var \in Prefix(d, ChangesIn(d, sd, v[i].scope))
                   /\ ScoreFits(v[i].var, d.assignment[v[i].var], sd[v[i].scope].score,
                                ScoreAt(d, sd, v[i].scope))
        <4> DEFINE n == w[i].scope
        <4>1. n \in 1..(K - 1) /\ v[i] = w[i] /\ i \in Open(w)
          BY <2>10
        <4>2. w[i].var \in Prefix(c, ChangesIn(c, sc, n))
          BY <4>1, <1>1 DEF GuessesFit
        <4>3. w[i].var \in Prefix(d, ChangesIn(d, sd, n)) /\ w[i].var \in Prefix(c, m)
          <5>1. Prefix(c, ChangesIn(c, sc, n)) \subseteq Prefix(c, m)
            BY <4>1, <2>4, <2>7, PrefixGrows, SMTT(30)
          <5> QED  BY <4>1, <4>2, <5>1, <2>7, <2>8
        <4>4. d.assignment[w[i].var] = c.assignment[w[i].var]
          <5>1. Prefix(c, m) \subseteq Var
            BY <1>1, <2>4 DEF Prefix, CoreType
          <5> QED  BY <4>3, <5>1, <2>5 DEF AtLevel
        <4>5. ScoreFits(w[i].var, c.assignment[w[i].var], sc[n].score, ScoreAt(c, sc, n))
          BY <4>1, <1>1 DEF GuessesFit
        <4> QED  BY <4>1, <4>3, <4>4, <4>5, <2>6, <2>7
      <3> QED  BY <3>1, <3>2, <3>3 DEF GuessesFit
    <2>12. \A j \in 1..L, n \in 1..(K - 1) : At(v, j, n) => At(w, j, n)
      <3> SUFFICES ASSUME NEW j \in 1..L, NEW n \in 1..(K - 1), At(v, j, n), NEW i \in Open(w)
                   PROVE  /\ i < j => w[i].scope <= n
                          /\ i >= j => w[i].scope > n
        BY DEF At
      <3>1. CASE i = L
        BY <3>1, <2>2, <1>2, <1>4
      <3>2. CASE i # L
        BY <3>2, <1>5, <2>10 DEF At
      <3> QED  BY <3>1, <3>2
    <2>13. Clear(d, sd, v)
      <3> SUFFICES ASSUME NEW j \in 1..L, NEW n \in 1..(K - 1), v[j].kind = "bind", At(v, j, n)
                   PROVE  v[j].var \notin Prefix(d, ChangesIn(d, sd, n))
        BY <1>3, <2>6 DEF Clear
      <3>1. w[j].kind = "bind" /\ w[j].var = v[j].var
        BY <1>2, <1>3
      <3>2. n \in 1..K
        BY <1>4
      <3>3. v[j].var \notin Prefix(c, ChangesIn(c, sc, n))
        BY <3>1, <3>2, <2>12, <1>1, <1>2 DEF Clear
      <3> QED  BY <3>3, <2>7, <2>8
    <2>14. Sound(d, sd)
      <3> SUFFICES ASSUME NEW n \in 1..(K - 1)
                   PROVE  Consistent(AtLevel(d, ChangesIn(d, sd, n)))
        BY <2>6 DEF Sound
      <3>1. n \in 1..K
        BY <1>4
      <3>2. Consistent(AtLevel(c, ChangesIn(c, sc, n)))
        BY <3>1, <1>1 DEF Sound
      <3> QED  BY <3>2, <2>7, <2>8
    <2>15. Chain(d, sd, v)
      BY <2>5, <2>9, <2>11, <2>13, <2>14, <1>3 DEF Chain
    <2>16. d.assignment[s.var] = Unbound
      <3>1. K - 1 \in 1..K /\ K - 1 \in 1..(K - 1)
        BY <2>2, <1>4
      <3>2. At(w, L, K - 1)
        <4>1. \A i \in Open(w) : i < L \/ i = L
          BY <1>2 DEF Open
        <4>2. \A i \in Open(w) : i < L => i \in Open(v)
          BY <1>2, <1>5
        <4> QED  BY <4>1, <4>2, <2>2, <2>10, <1>2, <1>4 DEF At
      <3>3. s.var \notin Prefix(c, ChangesIn(c, sc, K - 1))
        BY <3>1, <3>2, <1>1, <1>2 DEF Clear
      <3>4. ChangesIn(c, sc, K - 1) = m
        BY <3>1, <1>4 DEF ChangesIn
      <3> QED  BY <3>3, <3>4, <2>5, <1>2 DEF AtLevel
    <2> QED
      BY <2>4, <2>5, <2>6, <2>7, <2>8, <2>12, <2>15, <2>16, <1>2 DEF v, d, sd
  <1> QED
    BY <1>6, <1>7

\* A step without an open scope is taken from the worklist.
LEMMA Drop ==
    ASSUME NEW c, NEW sc, NEW w, Chain(c, sc, w), w # <<>>, Len(w) \notin Open(w)
    PROVE  /\ Chain(c, sc, Front(w))
           /\ \A j, n \in Nat : At(Front(w), j, n) <=> At(w, j, n)
  <1> DEFINE L == Len(w)
             v == Front(w)
  <1>1. /\ w \in Seq(StepType) /\ GuessesFit(c, sc, w) /\ Clear(c, sc, w)
    BY DEF Chain
  <1>2. /\ v \in Seq(StepType) /\ Len(v) = L - 1 /\ L \in Nat
        /\ \A i \in 1..(L - 1) : v[i] = w[i]
    BY <1>1, Replaced
  <1>3. DOMAIN w = 1..L /\ DOMAIN v = 1..(L - 1)
    BY <1>1, <1>2
  <1> HIDE DEF v
  <1>4. Open(v) = Open(w) /\ \A i \in Open(w) : v[i] = w[i]
    <2>1. \A i \in 1..L : i # L => i \in 1..(L - 1)
      BY <1>2
    <2>2. \A i \in 1..(L - 1) : i \in 1..L
      BY <1>2
    <2> QED  BY <2>1, <2>2, <1>2, <1>3 DEF Open
  <1>5. \A j, n \in Nat : At(v, j, n) <=> At(w, j, n)
    BY <1>4 DEF At
  <1>6. GuessesFit(c, sc, v)
    <2>1. {v[i].scope : i \in Open(v)} = {w[i].scope : i \in Open(w)}
      BY <1>4
    <2> QED  BY <2>1, <1>1, <1>4 DEF GuessesFit
  <1>7. Clear(c, sc, v)
    <2>1. \A j \in 1..(L - 1) : j \in 1..L /\ j \in Nat /\ v[j] = w[j]
      BY <1>2
    <2>2. \A n \in 1..Len(sc) : n \in Nat
      OBVIOUS
    <2> QED  BY <2>1, <2>2, <1>1, <1>3, <1>5 DEF Clear
  <1> QED
    BY <1>2, <1>5, <1>6, <1>7 DEF Chain, v

\* Steps for variables that are not bound yet are put on the worklist.
LEMMA Push ==
    ASSUME NEW c, NEW sc, NEW w, Chain(c, sc, w), NEW g \in Seq(StepType),
           \A i \in DOMAIN g : g[i].kind = "bind" =>
               g[i].scope = 0 /\ c.assignment[g[i].var] = Unbound
    PROVE  /\ Chain(c, sc, w \o g)
           /\ \A j \in 1..Len(w), n \in Nat : At(w \o g, j, n) <=> At(w, j, n)
           /\ \A j \in Nat : j > Len(w) => At(w \o g, j, Len(sc))
  <1> DEFINE L == Len(w)
             v == w \o g
  <1>1. /\ w \in Seq(StepType) /\ GuessesFit(c, sc, w) /\ Clear(c, sc, w)
        /\ c \in CoreType /\ LogExact(c) /\ sc \in Seq(ScopeType) /\ sc # <<>>
    BY DEF Chain, ScopesFit
  <1>2. /\ v \in Seq(StepType) /\ Len(v) = L + Len(g) /\ L \in Nat /\ Len(g) \in Nat
        /\ \A i \in 1..L : v[i] = w[i]
        /\ \A i \in 1..Len(g) : v[L + i] = g[i]
    BY <1>1, Concatenation
  <1>3. /\ DOMAIN w = 1..L /\ DOMAIN v = 1..(L + Len(g)) /\ DOMAIN g = 1..Len(g)
        /\ Len(sc) \in Nat /\ Len(sc) >= 1
    BY <1>1, <1>2
  <1> HIDE DEF v
  <1>4. \A j \in 1..(L + Len(g)) : \/ j \in 1..L /\ v[j] = w[j]
                                   \/ j > L /\ j - L \in 1..Len(g) /\ v[j] = g[j - L]
    <2>1. TAKE j \in 1..(L + Len(g))
    <2>2. j \in 1..L \/ (j > L /\ j - L \in 1..Len(g) /\ L + (j - L) = j)
      BY <1>2
    <2> QED  BY <2>2, <1>2
  <1>5. Open(v) = Open(w) /\ \A i \in Open(w) : v[i] = w[i] /\ i \in 1..L
    <2>1. \A i \in Open(w) : i \in 1..L /\ i \in 1..(L + Len(g)) /\ v[i] = w[i]
      BY <1>2, <1>3 DEF Open
    <2>2. \A i \in 1..(L + Len(g)) : (v[i].kind = "bind" /\ v[i].scope # 0) => i \in Open(w)
      BY <1>3, <1>4 DEF Open
    <2> QED  BY <2>1, <2>2, <1>3 DEF Open
  <1>6. \A j, n \in Nat : At(v, j, n) <=> At(w, j, n)
    BY <1>5 DEF At
  <1>7. \A i \in Open(w) : w[i].scope \in 2..Len(sc)
    BY <1>1 DEF GuessesFit
  <1>8. \A j \in Nat : j > L => At(v, j, Len(sc))
    BY <1>2, <1>3, <1>5, <1>7 DEF At
  <1>9. ASSUME NEW j \in Nat, j > L, NEW n \in 1..Len(sc), At(v, j, n)
        PROVE  n = Len(sc)
    <2>1. CASE Len(sc) = 1
      BY <2>1
    <2>2. CASE Len(sc) # 1
      <3>0. Len(sc) \in Nat /\ Len(sc) >= 1
        BY <1>3
      <3>1. Len(sc) \in 2..Len(sc)
        <4>1. \A n1 \in Nat : n1 >= 1 /\ n1 # 1 => n1 \in 2..n1
          OBVIOUS
        <4> QED  BY ONLY <3>0, <2>2, <4>1
      <3>2. PICK i \in Open(w) : w[i].scope = Len(sc)
        BY <3>1, <1>1 DEF GuessesFit
      <3>3. i < j
        BY <3>2, <1>2, <1>5, <1>9
      <3>4. Len(sc) <= n
        BY <3>2, <3>3, <1>5, <1>9 DEF At
      <3> QED  BY <3>4, <1>3
    <2> QED  BY <2>1, <2>2
  <1>10. GuessesFit(c, sc, v)
    <2>1. {v[i].scope : i \in Open(v)} = {w[i].scope : i \in Open(w)}
      BY <1>5
    <2> QED  BY <2>1, <1>1, <1>5 DEF GuessesFit
  <1>11. Clear(c, sc, v)
    <2> SUFFICES ASSUME NEW j \in 1..(L + Len(g)), NEW n \in 1..Len(sc),
                        v[j].kind = "bind", At(v, j, n)
                 PROVE  v[j].var \notin Prefix(c, ChangesIn(c, sc, n))
      BY <1>3 DEF Clear
    <2>1. CASE j \in 1..L /\ v[j] = w[j]
      BY <2>1, <1>1, <1>3, <1>6 DEF Clear
    <2>2. CASE j > L /\ j - L \in 1..Len(g) /\ v[j] = g[j - L]
      <3>1. n = Len(sc)
        BY <2>2, <1>9
      <3>2. c.assignment[v[j].var] = Unbound
        <4>1. g[j - L].kind = "bind"
          BY <2>2
        <4>2. j - L \in DOMAIN g
          BY <2>2, <1>3
        <4>3. c.assignment[g[j - L].var] = Unbound
          BY <4>1, <4>2
        <4> QED  BY <2>2, <4>3
      <3>3. v[j].var \in Var
        <4>1. v[j] \in StepType
          BY <2>2, <1>3
        <4> QED  BY <4>1, StepFields
      <3> QED  BY <3>1, <3>2, <3>3, <1>1, <1>3, TopLevel DEF ChangesIn
    <2> QED  BY <2>1, <2>2, <1>4
  <1> QED
    BY <1>2, <1>6, <1>8, <1>10, <1>11 DEF Chain, v

\* What binding more makes of c, at the cost r.
Adds(d, c, r) ==
    /\ d \in CoreType /\ LogExact(d) /\ Extends(d, c)
    /\ d.score = c.score + r /\ d.best = c.best
    /\ \A y \in Var : c.assignment[y] # Unbound => d.assignment[y] = c.assignment[y]

LEMMA BoundAdds ==
    ASSUME system \in Systems, NEW c \in CoreType, LogExact(c),
           NEW F, Fresh(F, c.assignment), NEW r \in Nat
    PROVE  Adds(Bound(c, F, r), c, r) /\ Says(Bound(c, F, r).assignment, F)
  BY BoundType DEF Adds

LEMMA BoundOne ==
    ASSUME system \in Systems, NEW c \in CoreType, LogExact(c),
           NEW x \in Var, NEW t \in Type, c.assignment[x] = Unbound, NEW r \in Nat
    PROVE  /\ Fresh({<<x, t>>}, c.assignment)
           /\ Adds(Bound(c, {<<x, t>>}, r), c, r)
           /\ Bound(c, {<<x, t>>}, r).assignment[x] = t
  <1> DEFINE F == {<<x, t>>}
  <1>1. Fresh(F, c.assignment)
    BY DEF Fresh, Fact
  <1>2. <<x, t>> \in F
    OBVIOUS
  <1> HIDE DEF F
  <1>3. Adds(Bound(c, F, r), c, r) /\ Says(Bound(c, F, r).assignment, F)
    BY <1>1, BoundAdds
  <1>4. Bound(c, F, r).assignment[x] = t
    BY <1>2, <1>3 DEF Says
  <1> QED
    BY <1>1, <1>3, <1>4 DEF F

\* The variables that d binds and c does not.
Changed(c, d) == {v \in Var : d.assignment[v] # c.assignment[v]}

\* The steps w run where they did, followed by two, one of which runs in the
\* scope that d has on top of those of c.
Deepened(c, sc, w, d, sd, v) ==
    /\ \A j \in 1..(Len(w) + 1), n \in 1..Len(sc) :
          At(v, j, n) <=> (IF j = Len(w) + 1 THEN n = Len(sc) ELSE At(w, j, n))
    /\ At(v, Len(w) + 2, Len(sc) + 1)
    /\ \A n \in 1..Len(sc) :
          /\ ChangesIn(d, sd, n) = ChangesIn(c, sc, n)
          /\ AtLevel(d, ChangesIn(c, sc, n)) = AtLevel(c, ChangesIn(c, sc, n))

\* A guess is made in a scope of its own.
LEMMA Guessing ==
    ASSUME system \in Systems, NEW c, NEW sc, NEW w, Chain(c, sc, w),
           NEW x \in Var, NEW t \in Type, c.assignment[x] = Unbound,
           NEW r \in Nat, IsScore(x, t, r), NEW d, d = Bound(c, {<<x, t>>}, r),
           ~Conflicts(d.assignment, Changed(c, d)),
           NEW s \in StepType, s.kind = "bind", s.var = x, s.scope = Len(sc) + 1,
           NEW k \in Nat
    PROVE  /\ Chain(d, Append(sc, Scope(c)), w \o <<s, Find(k)>>)
           /\ Deepened(c, sc, w, d, Append(sc, Scope(c)), w \o <<s, Find(k)>>)
  <1> DEFINE L == Len(w)
             K == Len(sc)
             F == {<<x, t>>}
             v == w \o <<s, Find(k)>>
             sd == Append(sc, Scope(c))
  <1>1. /\ c \in CoreType /\ LogExact(c) /\ w \in Seq(StepType) /\ ScopesFit(c, sc)
        /\ GuessesFit(c, sc, w) /\ Clear(c, sc, w) /\ Sound(c, sc)
    BY DEF Chain
  <1>2. Fresh(F, c.assignment)
    BY DEF Fresh, Fact
  <1>3. /\ d \in CoreType /\ LogExact(d) /\ d.score = c.score + r
        /\ Len(c.changes) <= Len(d.changes)
        /\ \A y \in 1..Len(c.changes) : d.changes[y] = c.changes[y]
        /\ \A y \in Var : c.assignment[y] # Unbound => d.assignment[y] = c.assignment[y]
        /\ d.assignment[x] = t
    <2>1. /\ system \in Systems /\ c \in CoreType /\ LogExact(c) /\ x \in Var /\ t \in Type
          /\ c.assignment[x] = Unbound /\ r \in Nat /\ d = Bound(c, {<<x, t>>}, r)
      BY <1>1
    <2>2. Adds(d, c, r) /\ d.assignment[x] = t
      BY ONLY <2>1, BoundOne
    <2> QED  BY <2>2 DEF Adds, Extends
  <1>4. /\ sc \in Seq(ScopeType) /\ K \in Nat /\ K >= 1 /\ DOMAIN sc = 1..K
    BY <1>1 DEF ScopesFit
  <1>5. /\ Scope(c) \in ScopeType /\ Scope(c).changes = Len(c.changes)
        /\ Scope(c).score = c.score /\ Scope(c).best = c.best
        /\ Scope(c).bound = Len(c.changes) /\ Len(c.changes) \in Nat
    BY <1>1 DEF Scope, ScopeType, CoreType, LogExact
  <1>6. /\ sd \in Seq(ScopeType) /\ Len(sd) = K + 1 /\ DOMAIN sd = 1..(K + 1)
        /\ \A n \in 1..K : sd[n] = sc[n]
        /\ sd[K + 1] = Scope(c)
    <2> HIDE DEF K
    <2> QED  BY <1>4, <1>5 DEF K
  <1>0. K \in Nat /\ K >= 1 /\ L \in Nat
    BY <1>1, <1>4
  <1> DEFINE g == <<s, Find(k)>>
  <1>7. g \in Seq(StepType) /\ Len(g) = 2 /\ g[1] = s /\ g[2] = Find(k)
    <2>1. Find(k) \in StepType
      BY DEF Find, StepType
    <2> QED  BY <2>1
  <1>8. /\ v \in Seq(StepType) /\ Len(v) = L + 2 /\ L \in Nat /\ DOMAIN v = 1..(L + 2)
        /\ DOMAIN w = 1..L
        /\ \A i \in 1..L : v[i] = w[i]
        /\ v[L + 1] = s /\ v[L + 2] = Find(k)
    <2> HIDE DEF g
    <2>1. /\ w \o g \in Seq(StepType) /\ Len(w \o g) = L + 2 /\ L \in Nat
          /\ \A i \in 1..L : (w \o g)[i] = w[i]
          /\ \A i \in 1..2 : (w \o g)[L + i] = g[i]
      <3>1. /\ Len(w \o g) = Len(w) + Len(g) /\ w \o g \in Seq(StepType)
            /\ \A i \in 1..Len(w) : (w \o g)[i] = w[i]
            /\ \A i \in 1..Len(g) : (w \o g)[Len(w) + i] = g[i]
        <4>1. w \in Seq(StepType) /\ g \in Seq(StepType)
          BY <1>1, <1>7
        <4> QED  BY ONLY <4>1, Concatenation
      <3> QED  BY <3>1, <1>0, <1>7
    <2> QED  BY <2>1, <1>1, <1>7 DEF g
  <1> HIDE DEF v, sd, g
  <1>9. \A i \in 1..(L + 2) : i \in 1..L \/ i = L + 1 \/ i = L + 2
    BY <1>8
  <1>10. /\ Open(v) = Open(w) \union {L + 1} /\ Open(w) \subseteq 1..L
         /\ \A i \in Open(w) : v[i] = w[i] /\ w[i].scope \in 2..K
    <2>1. \A i \in Open(w) : i \in 1..L /\ i \in 1..(L + 2) /\ v[i] = w[i]
      BY <1>8 DEF Open
    <2>2. \A i \in Open(w) : w[i].scope \in 2..K
      BY <1>1 DEF GuessesFit
    <2>3. L + 1 \in 1..(L + 2) /\ v[L + 1].kind = "bind" /\ v[L + 1].scope # 0
      BY <1>4, <1>8
    <2>4. v[L + 2].kind # "bind"
      BY <1>8 DEF Find
    <2>5. Open(v) \subseteq Open(w) \union {L + 1}
      BY <2>4, <1>8, <1>9 DEF Open
    <2>6. Open(w) \union {L + 1} \subseteq Open(v)
      BY <2>1, <2>3, <1>8 DEF Open
    <2> QED  BY <2>1, <2>2, <2>5, <2>6
  <1>11. \A n \in 1..K : /\ ChangesIn(d, sd, n) = ChangesIn(c, sc, n)
                         /\ ScoreAt(d, sd, n) = ScoreAt(c, sc, n)
                         /\ ChangesIn(c, sc, n) \in 0..Len(c.changes)
    <2>1. TAKE n \in 1..K
    <2>2. n < K + 1 /\ (n < K \/ n = K)
      BY <1>0
    <2>3. ChangesIn(d, sd, n) = sd[n + 1].changes /\ ScoreAt(d, sd, n) = sd[n + 1].score
      BY <2>2, <1>6 DEF ChangesIn, ScoreAt
    <2>4. CASE n < K
      <3>1. n + 1 \in 1..K /\ sd[n + 1] = sc[n + 1]
        BY <2>4, <1>4, <1>6
      <3>2. sc[n + 1] \in ScopeType
        BY <3>1, <1>4
      <3>3. sc[n + 1].changes <= Len(c.changes) /\ sc[n + 1].changes \in Nat
        BY <3>1, <3>2, <1>1, <1>4 DEF ScopesFit, ScopeType
      <3> QED  BY <2>3, <2>4, <3>1, <3>3, <1>5 DEF ChangesIn, ScoreAt
    <2>5. CASE n = K
      BY <2>3, <2>5, <1>4, <1>5, <1>6 DEF ChangesIn, ScoreAt
    <2> QED  BY <2>2, <2>4, <2>5
  <1>12. ChangesIn(d, sd, K + 1) = Len(d.changes) /\ ScoreAt(d, sd, K + 1) = d.score
    BY <1>4, <1>6 DEF ChangesIn, ScoreAt
  <1>13. \A m \in 0..Len(c.changes) : Prefix(d, m) = Prefix(c, m) /\ AtLevel(d, m) = AtLevel(c, m)
    <2>1. \A y \in Prefix(c, Len(c.changes)) : d.assignment[y] = c.assignment[y]
      <3>1. Prefix(c, Len(c.changes)) \subseteq Var
        BY <1>1 DEF Prefix, CoreType
      <3> QED  BY <3>1, <1>1, <1>3, TopLevel
    <2>2. \A m \in 0..Len(c.changes) : m \in Nat /\ m <= Len(c.changes)
      BY <1>5
    <2>3. Len(c.changes) \in Nat /\ \A y \in 1..Len(c.changes) : d.changes[y] = c.changes[y]
      BY <1>3, <1>5
    <2> SUFFICES ASSUME NEW m \in 0..Len(c.changes)
                 PROVE  Prefix(d, m) = Prefix(c, m) /\ AtLevel(d, m) = AtLevel(c, m)
      OBVIOUS
    <2> DEFINE M == Len(c.changes)
    <2>4. /\ M \in Nat /\ m \in Nat /\ m <= M
          /\ \A y \in 1..M : d.changes[y] = c.changes[y]
          /\ \A y \in Prefix(c, M) : d.assignment[y] = c.assignment[y]
      BY <2>1, <2>2, <2>3
    <2> HIDE DEF M
    <2> QED  BY ONLY <2>4, SameLevel
  <1>14. ScopesFit(d, sd)
    <2>0. Len(d.changes) \in Nat
      BY <1>3 DEF CoreType
    <2>1. sd # <<>> /\ 1 \in 1..K /\ ScoreAt(d, sd, 1) = 0
      <3>1. sd # <<>> /\ 1 \in 1..K
        BY <1>0, <1>6
      <3> QED  BY <3>1, <1>1, <1>11 DEF ScopesFit
    <2>2. \A n \in 1..(K + 1) : n \in 1..K \/ n = K + 1
      BY <1>4
    <2>3. \A n \in 1..K : sc[n].changes \in Nat /\ sc[n].changes <= Len(c.changes) /\ sc[n].bound = sc[n].changes
      <3>1. \A n \in 1..K : sc[n] \in ScopeType
        BY <1>4
      <3> QED  BY <3>1, <1>1, <1>4 DEF ScopesFit, ScopeType
    <2>4. \A n \in 1..(K + 1) : sd[n].bound = sd[n].changes /\ sd[n].changes <= Len(d.changes)
      BY <2>0, <2>2, <2>3, <1>3, <1>5, <1>6
    <2>5. \A m, n \in 1..(K + 1) : m <= n => sd[m].changes <= sd[n].changes
      <3>1. TAKE m, n \in 1..(K + 1)
      <3>2. CASE n \in 1..K
        <4>1. m <= n => m \in 1..K
          BY <3>2
        <4> QED  BY <4>1, <3>2, <1>1, <1>4, <1>6 DEF ScopesFit
      <3>3. CASE n = K + 1
        BY <3>3, <2>2, <2>3, <1>5, <1>6
      <3> QED  BY <3>2, <3>3, <2>2
    <2>6. sd[1].changes = 0 /\ sd[1].score = 0 /\ sd[1].best = Infinity
      BY <2>1, <1>1, <1>6 DEF ScopesFit
    <2> QED  BY <2>1, <2>4, <2>5, <2>6, <1>6 DEF ScopesFit
  <1>15. GuessesFit(d, sd, v)
    <2>1. {v[i].scope : i \in Open(v)} = 2..(K + 1)
      <3>1. \A n \in 2..(K + 1) : n \in 2..K \/ n = K + 1
        BY <1>4
      <3>2. \A n \in 2..K : n \in 2..(K + 1)
        BY <1>4
      <3>3. K + 1 \in 2..(K + 1) /\ v[L + 1].scope = K + 1
        BY <1>4, <1>8
      <3>4. {w[i].scope : i \in Open(w)} = 2..K
        BY <1>1 DEF GuessesFit
      <3>5. {v[i].scope : i \in Open(v)} = {w[i].scope : i \in Open(w)} \union {K + 1}
        BY <3>3, <1>10
      <3> QED  BY <3>1, <3>2, <3>3, <3>4, <3>5
    <2>2. \A i, j \in Open(v) : i < j => v[i].scope < v[j].scope
      <3>1. TAKE i, j \in Open(v)
      <3>2. CASE i \in Open(w) /\ j \in Open(w)
        BY <3>2, <1>1, <1>10 DEF GuessesFit
      <3>3. CASE i \in Open(w) /\ j = L + 1
        BY <3>3, <1>4, <1>8, <1>10
      <3>4. CASE i = L + 1
        <4>1. ~(i < j)
          BY <3>4, <1>8, <1>10
        <4> QED  BY <4>1
      <3> QED  BY <3>2, <3>3, <3>4, <1>10
    <2>3. ASSUME NEW i \in Open(v)
          PROVE  /\ v[i].var \in Prefix(d, ChangesIn(d, sd, v[i].scope))
                 /\ ScoreFits(v[i].var, d.assignment[v[i].var], sd[v[i].scope].score,
                              ScoreAt(d, sd, v[i].scope))
      <3>1. CASE i \in Open(w)
        <4> DEFINE n == w[i].scope
        <4>1. n \in 1..K /\ v[i] = w[i]
          BY <3>1, <1>10
        <4>2. w[i].var \in Prefix(c, ChangesIn(c, sc, n))
          BY <3>1, <1>1 DEF GuessesFit
        <4>3. w[i].var \in Prefix(d, ChangesIn(d, sd, n)) /\ w[i].var \in Prefix(c, Len(c.changes))
          <5>1. Prefix(c, ChangesIn(c, sc, n)) \subseteq Prefix(c, Len(c.changes))
            BY <4>1, <1>5, <1>11, PrefixGrows
          <5> QED  BY <4>1, <4>2, <5>1, <1>11, <1>13
        <4>4. d.assignment[w[i].var] = c.assignment[w[i].var]
          <5>1. w[i] \in StepType /\ w[i].kind = "bind"
            BY <3>1, <1>1 DEF Open
          <5>2. w[i].var \in Var
            BY <5>1, StepFields
          <5> QED  BY <4>3, <5>2, <1>1, <1>3, TopLevel
        <4>5. ScoreFits(w[i].var, c.assignment[w[i].var], sc[n].score, ScoreAt(c, sc, n))
          BY <3>1, <1>1 DEF GuessesFit
        <4> QED  BY <4>1, <4>3, <4>4, <4>5, <1>6, <1>11
      <3>2. CASE i = L + 1
        <4>1. v[i] = s /\ s.scope = K + 1 /\ s.var = x
          BY <3>2, <1>8
        <4>2. x \in Prefix(d, Len(d.changes))
          BY <1>3, Constants, TopLevel
        <4> QED  BY <4>1, <4>2, <1>3, <1>5, <1>6, <1>12, ZenonT(30) DEF ScoreFits
      <3> QED  BY <3>1, <3>2, <1>10
    <2> QED  BY <2>1, <2>2, <2>3, <1>6 DEF GuessesFit
  <1>16. \A j \in 1..(L + 1), n \in 1..K :
             At(v, j, n) <=> (IF j = L + 1 THEN n = K ELSE At(w, j, n))
    <2>1. TAKE j \in 1..(L + 1), n \in 1..K
    <2>2. v[L + 1].scope = K + 1 /\ n < K + 1 /\ j <= L + 1
      BY <1>4, <1>8
    <2>3. CASE j # L + 1
      BY <2>2, <2>3, <1>8, <1>10, SMTT(30) DEF At
    <2>4. CASE j = L + 1
      <3>1. At(v, j, n) <=> \A i \in Open(w) : w[i].scope <= n
        BY <2>2, <2>4, <1>8, <1>10 DEF At
      <3>2. (\A i \in Open(w) : w[i].scope <= n) <=> n = K
        <4>1. n = K => \A i \in Open(w) : w[i].scope <= n
          BY <1>4, <1>10
        <4>2. CASE K = 1
          BY <4>1, <4>2, <1>0
        <4>3. CASE K # 1
          <5>1. K \in 2..K
            BY <4>3, <1>4
          <5>2. PICK i \in Open(w) : w[i].scope = K
            BY <5>1, <1>1 DEF GuessesFit
          <5>3. w[i].scope <= n => n = K
            BY <5>2, <1>0
          <5> QED  BY <4>1, <5>2, <5>3
        <4> QED  BY <4>2, <4>3
      <3> QED  BY <2>4, <3>1, <3>2
    <2> QED  BY <2>3, <2>4
  <1>17. At(v, L + 2, K + 1)
    BY <1>4, <1>8, <1>10 DEF At
  <1>18. Clear(d, sd, v)
    <2> SUFFICES ASSUME NEW j \in 1..(L + 2), NEW n \in 1..(K + 1),
                        v[j].kind = "bind", At(v, j, n)
                 PROVE  v[j].var \notin Prefix(d, ChangesIn(d, sd, n))
      BY <1>6, <1>8 DEF Clear
    <2>1. j \in 1..(L + 1)
      BY <1>8, <1>9 DEF Find
    <2>2. n \in 1..K
      <3>1. L + 1 \in Open(v) /\ L + 1 >= j /\ v[L + 1].scope = K + 1
        BY <2>1, <1>8, <1>10
      <3>2. n < K + 1
        BY <3>1 DEF At
      <3> QED  BY <3>2, <1>4
    <2>3. CASE j = L + 1
      <3>1. n = K /\ v[j].var = x
        BY <2>1, <2>2, <2>3, <1>8, <1>16
      <3>2. ChangesIn(c, sc, K) = Len(c.changes)
        BY <1>0 DEF ChangesIn
      <3>3. ChangesIn(d, sd, n) = Len(c.changes)
        BY <3>1, <3>2, <2>2, <1>11
      <3>4. Len(c.changes) \in 0..Len(c.changes)
        BY <1>5
      <3>5. x \notin Prefix(c, Len(c.changes))
        BY <1>1, TopLevel
      <3> QED  BY <3>1, <3>3, <3>4, <3>5, <1>13
    <2>4. CASE j # L + 1
      <3>0. j \in 1..L
        BY <2>1, <2>4, <1>0
      <3>1. j \in 1..L /\ At(w, j, n) /\ v[j] = w[j]
        BY <3>0, <2>1, <2>2, <2>4, <1>8, <1>16
      <3>2. v[j].var \notin Prefix(c, ChangesIn(c, sc, n))
        BY <2>2, <3>1, <1>1, <1>8 DEF Clear
      <3> QED  BY <3>2, <2>2, <1>11, <1>13
    <2> QED  BY <2>3, <2>4
  <1>19. Sound(d, sd)
    <2> SUFFICES ASSUME NEW n \in 1..(K + 1)
                 PROVE  Consistent(AtLevel(d, ChangesIn(d, sd, n)))
      BY <1>6 DEF Sound
    <2>1. CASE n \in 1..K
      BY <2>1, <1>1, <1>11, <1>13 DEF Sound
    <2>2. CASE n = K + 1
      <3>1. Consistent(c.assignment)
        <4>1. K \in 1..K /\ ChangesIn(c, sc, K) = Len(c.changes)
          BY <1>4 DEF ChangesIn
        <4> QED  BY <4>1, <1>1, TopLevel DEF Sound
      <3> DEFINE W == Changed(c, d)
      <3>2. ~Conflicts(d.assignment, W) /\ \A y \in Var : d.assignment[y] # c.assignment[y] => y \in W
        BY DEF Changed
      <3> HIDE DEF W
      <3>3. Consistent(d.assignment)
        BY <3>1, <3>2, <1>1, <1>2, BoundConsistent
      <3> QED  BY <2>2, <3>3, <1>3, <1>12, TopLevel
    <2> QED  BY <2>1, <2>2, <1>4
  <1>20. Chain(d, sd, v)
    BY <1>3, <1>8, <1>14, <1>15, <1>18, <1>19 DEF Chain
  <1> QED
    BY <1>11, <1>13, <1>16, <1>17, <1>20 DEF v, sd, Deepened

-----------------------------------------------------------------------------
(* The inductive invariant of the scopes.                                  *)

\* A step the search can make.
StepFits(s) ==
    /\ s.kind \in {"find", "bind"} => s.component \in DOMAIN system.components
    /\ s.kind = "bind" => /\ s.var \in Members(system, s.component)
                          /\ s.bindings \subseteq DOMAIN system.bindings[s.var]

Searching == result = "none" /\ scopes # <<>>

Parts ==
    /\ system \in Systems
    /\ core \in CoreType /\ LogExact(core)
    /\ scopes \in Seq(ScopeType)
    /\ \A n \in DOMAIN scopes : scopes[n].changes <= Len(core.changes)
    /\ worklist \in Seq(StepType)
    /\ \A i \in DOMAIN worklist : StepFits(worklist[i])
    /\ splitter \in {"Idle", "Suspended", "Error"}
    /\ failed \in BOOLEAN /\ stop \in BOOLEAN
    /\ result \in {"none", "success", "failure"}

ScopesInv ==
    /\ Parts
    /\ scopes = <<>> => core = Untouched
    /\ worklist # <<>> => Searching
    /\ Searching => Chain(core, scopes, worklist)

\* The predicates above change with the system only.
LEMMA SystemFrame ==
    ASSUME system' = system, NEW c, NEW sc, NEW w
    PROVE  /\ Chain(c, sc, w)' <=> Chain(c, sc, w)
           /\ StepFits(c)' <=> StepFits(c)
           /\ Consistent(c)' <=> Consistent(c)
  <1>1. \A a : Consistent(a)' <=> Consistent(a)
    BY DEF Consistent, Facts
  <1>2. \A v, t : Score(v, t)' = Score(v, t)
    BY DEF Score
  <1>3. \A v, t, m, n : ScoreFits(v, t, m, n)' <=> ScoreFits(v, t, m, n)
    BY <1>2 DEF ScoreFits, IsScore
  <1>4. GuessesFit(c, sc, w)' <=> GuessesFit(c, sc, w)
    BY <1>3 DEF GuessesFit, Open, ScoreAt, ChangesIn, Prefix
  <1>5. Sound(c, sc)' <=> Sound(c, sc)
    BY <1>1 DEF Sound, AtLevel, Prefix, ChangesIn
  <1>6. Clear(c, sc, w)' <=> Clear(c, sc, w)
    BY DEF Clear, At, Open, Prefix, ChangesIn
  <1>7. ScopesFit(c, sc)' <=> ScopesFit(c, sc)
    BY DEF ScopesFit, ScoreAt
  <1>8. StepFits(c)' <=> StepFits(c)
    BY DEF StepFits, Members
  <1> QED
    BY <1>1, <1>4, <1>5, <1>6, <1>7, <1>8
       DEF Chain, LogExact, CoreType, Assignment, StepType, BindType

LEMMA Continues ==
    ASSUME ScopesInv, system' = system, Chain(core', scopes', worklist'),
           \A i \in DOMAIN worklist' : StepFits(worklist'[i]),
           splitter' \in {"Idle", "Suspended", "Error"},
           failed' \in BOOLEAN, stop' \in BOOLEAN, result' = "none"
    PROVE  ScopesInv'
  <1>1. /\ core' \in CoreType /\ LogExact(core') /\ worklist' \in Seq(StepType)
        /\ ScopesFit(core', scopes')
    BY DEF Chain
  <1>2. /\ scopes' \in Seq(ScopeType) /\ scopes' # <<>>
        /\ \A n \in DOMAIN scopes' : scopes'[n].changes <= Len(core'.changes)
    BY <1>1 DEF ScopesFit
  <1>3. (\A i \in DOMAIN worklist : StepFits(worklist[i]))'
    BY DEF StepFits, Members
  <1>4. Parts'
    BY <1>1, <1>2, <1>3 DEF ScopesInv, Parts
  <1> QED
    BY <1>2, <1>4, SystemFrame DEF ScopesInv, Searching

LEMMA Returned ==
    ASSUME ScopesInv, system' = system, NEW r \in {"success", "failure"}, Return(r),
           core' \in CoreType, LogExact(core'), scopes' \in Seq(ScopeType),
           \A n \in DOMAIN scopes' : scopes'[n].changes <= Len(core'.changes),
           scopes' = <<>> => core' = Untouched, stop' \in BOOLEAN
    PROVE  ScopesInv'
  <1>1. /\ worklist' = <<>> /\ result' = r /\ splitter' = "Idle" /\ failed' = FALSE
    BY DEF Return
  <1>2. Parts'
    <2>1. worklist' \in Seq(StepType) /\ DOMAIN worklist' = {}
      BY <1>1
    <2>2. system' \in Systems
      BY DEF ScopesInv, Parts
    <2> QED  BY <2>1, <2>2, <1>1 DEF Parts
  <1>3. Untouched' = Untouched
    BY DEF Untouched
  <1> QED
    BY <1>1, <1>2, <1>3 DEF ScopesInv, Searching

LEMMA UntouchedFacts ==
    ASSUME system \in Systems
    PROVE  /\ Untouched \in CoreType /\ LogExact(Untouched)
           /\ Untouched.assignment \in Assignment
           /\ \A v \in Var : Untouched.assignment[v] = Unbound
           /\ Untouched.changes = <<>> /\ Len(Untouched.changes) = 0
           /\ Untouched.score = 0 /\ Untouched.best = Infinity
           /\ Consistent(Untouched.assignment)
  <1> DEFINE a == [v \in Var |-> Unbound]
  <1>1. /\ Untouched = [assignment |-> a, changes |-> <<>>, score |-> 0,
                        best |-> Infinity, bound |-> 0]
        /\ a \in Assignment
    BY DEF Untouched, Assignment
  <1>2. Facts(a) = {}
    BY Constants DEF Facts, Fact
  <1>3. Consistent(a)
    BY <1>2, SystemParts DEF Consistent
  <1>4. a \in Assignment /\ \A v \in Var : a[v] = Unbound
    BY <1>1
  <1> HIDE DEF a
  <1>5. /\ Untouched.assignment = a /\ Untouched.changes = <<>> /\ Untouched.bound = 0
        /\ Untouched.score = 0 /\ Untouched.best = Infinity /\ Untouched \in CoreType
    BY <1>1 DEF CoreType
  <1>6. LogExact(Untouched)
    BY <1>4, <1>5 DEF LogExact, ToSet, IsInjective
  <1> QED
    BY <1>3, <1>4, <1>5, <1>6

LEMMA InitScopes == Init => ScopesInv
  <1> SUFFICES ASSUME Init PROVE ScopesInv
    OBVIOUS
  <1>1. /\ system \in Systems /\ core = Untouched /\ scopes = <<>> /\ worklist = <<>>
        /\ splitter = "Idle" /\ failed = FALSE /\ stop = FALSE /\ result = "none"
    BY DEF Init
  <1>2. Untouched \in CoreType /\ LogExact(Untouched)
    BY <1>1, UntouchedFacts
  <1>3. worklist \in Seq(StepType) /\ DOMAIN worklist = {} /\ scopes \in Seq(ScopeType)
        /\ DOMAIN scopes = {}
    BY <1>1
  <1> QED
    BY <1>1, <1>2, <1>3 DEF ScopesInv, Parts, Searching

\* The first scope, and what is bound in it.
LEMMA Opening ==
    ASSUME system \in Systems, NEW F, Fresh(F, Untouched.assignment),
           NEW d, d = Bound(Untouched, F, 0), ~Conflicts(d.assignment, Var)
    PROVE  Chain(d, <<Scope(Untouched)>>, <<Split>>)
  <1> DEFINE sc == <<Scope(Untouched)>>
             w == <<Split>>
  <1>1. Adds(d, Untouched, 0)
    BY UntouchedFacts, BoundAdds
  <1>2. /\ d \in CoreType /\ LogExact(d) /\ d.score = 0
    BY <1>1, UntouchedFacts DEF Adds
  <1>3. /\ Scope(Untouched) \in ScopeType /\ Scope(Untouched).changes = 0
        /\ Scope(Untouched).score = 0 /\ Scope(Untouched).best = Infinity
        /\ Scope(Untouched).bound = 0
    BY UntouchedFacts DEF Scope, ScopeType, Untouched
  <1>4. sc \in Seq(ScopeType) /\ sc # <<>> /\ DOMAIN sc = {1} /\ Len(sc) = 1
        /\ sc[1] = Scope(Untouched)
    BY <1>3
  <1>5. w \in Seq(StepType) /\ DOMAIN w = {1} /\ w[1].kind = "split"
    BY DEF Split, StepType
  <1> HIDE DEF w, sc
  <1>6. Open(w) = {}
    BY <1>5 DEF Open
  <1>7. ScopesFit(d, sc)
    <2>1. Len(d.changes) \in Nat
      BY <1>2 DEF CoreType
    <2> QED  BY <2>1, <1>2, <1>3, <1>4 DEF ScopesFit, ScoreAt
  <1>8. GuessesFit(d, sc, w)
    BY <1>4, <1>6 DEF GuessesFit
  <1>9. Clear(d, sc, w)
    BY <1>5 DEF Clear
  <1>10. Sound(d, sc)
    <2>1. Consistent(d.assignment)
      BY UntouchedFacts, BoundConsistent
    <2>2. AtLevel(d, Len(d.changes)) = d.assignment
      BY <1>2, TopLevel
    <2>3. \A n \in 1..Len(sc) : ChangesIn(d, sc, n) = Len(d.changes)
      BY <1>4 DEF ChangesIn
    <2> QED  BY <2>1, <2>2, <2>3 DEF Sound
  <1> QED
    BY <1>2, <1>5, <1>7, <1>8, <1>9, <1>10 DEF Chain, sc, w

LEMMA DirectFresh ==
    ASSUME system \in Systems, NEW F, F = {f \in Fact : system.direct[f[1]] = f[2]}
    PROVE  Fresh(F, Untouched.assignment)
  <1>1. F \subseteq Fact /\ \A f \in F : Untouched.assignment[f[1]] = Unbound
    BY UntouchedFacts DEF Fact
  <1>2. \A f, g \in F : f[1] = g[1] => f = g
    BY DEF Fact
  <1> QED
    BY <1>1, <1>2 DEF Fresh

LEMMA SolveScopes ==
    ASSUME ScopesInv, Solve
    PROVE  ScopesInv'
  <1> DEFINE F == {f \in Fact : system.direct[f[1]] = f[2]}
             d == Bound(core, F, 0)
  <1>1. /\ system \in Systems /\ core = Untouched /\ scopes = <<>>
        /\ splitter \in {"Idle", "Suspended", "Error"} /\ failed \in BOOLEAN
    BY DEF ScopesInv, Parts, Solve
  <1>2. system' = system /\ stop' \in BOOLEAN
    BY DEF Solve
  <1>3. Fresh(F, Untouched.assignment)
    BY <1>1, DirectFresh
  <1>4. /\ Scope(core) \in ScopeType /\ Scope(core).changes = 0
    BY <1>1, UntouchedFacts DEF Scope, ScopeType, Untouched
  <1>5. d \in CoreType /\ LogExact(d)
    <2> HIDE DEF F
    <2>1. Adds(d, core, 0)
      BY <1>1, <1>3, UntouchedFacts, BoundAdds
    <2> QED  BY <2>1 DEF Adds
  <1>6. CASE Conflicts(d.assignment, Var)
    <2>1. Return("failure")
      BY <1>6 DEF Solve
    <2>2. \/ core' = d /\ scopes' = <<Scope(core)>>
          \/ core' = core /\ scopes' = scopes
      BY <1>6 DEF Solve
    <2>3. Len(d.changes) \in Nat
      BY <1>5 DEF CoreType
    <2> HIDE DEF d
    <2>4. CASE core' = d /\ scopes' = <<Scope(core)>>
      <3>1. scopes' \in Seq(ScopeType) /\ scopes' # <<>>
            /\ \A n \in DOMAIN scopes' : scopes'[n].changes <= Len(core'.changes)
        BY <2>3, <2>4, <1>4
      <3> QED  BY <3>1, <2>1, <2>4, <1>2, <1>5, Returned
    <2>5. CASE core' = core /\ scopes' = scopes
      <3>1. /\ core \in CoreType /\ LogExact(core) /\ scopes \in Seq(ScopeType)
            /\ \A n \in DOMAIN scopes : scopes[n].changes <= Len(core.changes)
        BY DEF ScopesInv, Parts
      <3> QED  BY <3>1, <2>1, <2>5, <1>1, <1>2, Returned
    <2> QED  BY <2>2, <2>4, <2>5
  <1>7. CASE ~Conflicts(d.assignment, Var)
    <2>1. /\ core' = d /\ scopes' = <<Scope(core)>> /\ worklist' = <<Split>>
          /\ result' = "none" /\ splitter' = splitter /\ failed' = failed
      BY <1>7 DEF Solve
    <2> HIDE DEF F
    <2>2. Chain(core', scopes', worklist')
      BY <2>1, <1>1, <1>3, <1>7, Opening
    <2>3. \A i \in DOMAIN worklist' : StepFits(worklist'[i])
      <3>1. \A i \in DOMAIN worklist' : worklist'[i] = Split
        BY <2>1
      <3> QED  BY <3>1 DEF StepFits, Split
    <2> QED  BY <2>1, <2>2, <2>3, <1>1, <1>2, Continues
  <1> QED
    BY <1>6, <1>7

\* The step that runs, and the others.
LEMMA Running ==
    ASSUME ScopesInv, worklist # <<>>
    PROVE  /\ Searching /\ Chain(core, scopes, worklist) /\ system \in Systems
           /\ Len(worklist) \in Nat /\ Len(worklist) >= 1
           /\ Last(worklist) = worklist[Len(worklist)]
           /\ Last(worklist) \in StepType /\ StepFits(Last(worklist))
           /\ Others \in Seq(StepType) /\ Len(Others) = Len(worklist) - 1
           /\ DOMAIN Others = 1..(Len(worklist) - 1)
           /\ \A i \in DOMAIN Others : Others[i] = worklist[i] /\ StepFits(Others[i])
  <1>1. /\ Searching /\ Chain(core, scopes, worklist) /\ system \in Systems
        /\ worklist \in Seq(StepType)
        /\ \A i \in DOMAIN worklist : StepFits(worklist[i])
    BY DEF ScopesInv, Parts
  <1>2. /\ Len(worklist) \in Nat /\ Len(worklist) >= 1 /\ DOMAIN worklist = 1..Len(worklist)
        /\ Last(worklist) = worklist[Len(worklist)] /\ Last(worklist) \in StepType
    BY <1>1 DEF Last
  <1>3. /\ Others \in Seq(StepType) /\ Len(Others) = Len(worklist) - 1
        /\ \A i \in 1..(Len(worklist) - 1) : Others[i] = worklist[i]
    BY <1>1, Replaced DEF Others
  <1>4. DOMAIN Others = 1..(Len(worklist) - 1)
    BY <1>3
  <1>5. \A i \in DOMAIN Others : i \in DOMAIN worklist
    BY <1>2, <1>4
  <1> QED
    BY <1>1, <1>2, <1>3, <1>4, <1>5

LEMMA Dropped ==
    ASSUME ScopesInv, worklist # <<>>, Last(worklist).kind = "bind" => Last(worklist).scope = 0
    PROVE  /\ Chain(core, scopes, Others)
           /\ \A j, n \in Nat : At(Others, j, n) <=> At(worklist, j, n)
  <1>1. Len(worklist) \notin Open(worklist)
    BY Running DEF Open
  <1> QED
    BY <1>1, Running, Drop DEF Others

\* The search ends with its scopes open, or goes on with the next step.
LEMMA FailScopes ==
    ASSUME ScopesInv, worklist # <<>>, Last(worklist).kind # "bind", Fail,
           splitter' \in {"Idle", "Suspended", "Error"}, system' = system, stop' = stop
    PROVE  ScopesInv'
  <1>1. /\ core \in CoreType /\ LogExact(core) /\ scopes \in Seq(ScopeType)
        /\ \A n \in DOMAIN scopes : scopes[n].changes <= Len(core.changes)
        /\ scopes = <<>> => core = Untouched
        /\ stop \in BOOLEAN /\ result = "none"
    BY Running DEF ScopesInv, Parts, Searching
  <1>2. CASE stop
    <2>1. Return("failure") /\ core' = core /\ scopes' = scopes
      BY <1>2 DEF Fail
    <2> QED  BY <2>1, <1>1, Returned
  <1>3. CASE ~stop
    <2>1. /\ failed' = TRUE /\ worklist' = Others /\ core' = core /\ scopes' = scopes
          /\ result' = result
      BY <1>3 DEF Fail
    <2>2. Chain(core', scopes', worklist')
      BY <2>1, Dropped
    <2>3. \A i \in DOMAIN worklist' : StepFits(worklist'[i])
      BY <2>1, Running
    <2> QED  BY <2>1, <2>2, <2>3, <1>1, Continues
  <1> QED
    BY <1>2, <1>3

LEMMA Joined ==
    ASSUME NEW S, NEW a \in Seq(S), NEW b \in Seq(S),
           \A i \in DOMAIN a : StepFits(a[i]), \A i \in DOMAIN b : StepFits(b[i])
    PROVE  \A i \in DOMAIN (a \o b) : StepFits((a \o b)[i])
  <1> DEFINE v == a \o b
             L == Len(a)
  <1>1. /\ v \in Seq(S) /\ Len(v) = L + Len(b)
        /\ \A i \in 1..L : v[i] = a[i]
        /\ \A i \in 1..Len(b) : v[L + i] = b[i]
    BY Concatenation
  <1>2. L \in Nat /\ Len(b) \in Nat /\ DOMAIN a = 1..L /\ DOMAIN b = 1..Len(b)
    OBVIOUS
  <1> HIDE DEF v, L
  <1>3. DOMAIN v = 1..(L + Len(b))
    BY <1>1, <1>2
  <1>4. ASSUME NEW i \in 1..(L + Len(b)) PROVE StepFits(v[i])
    <2>1. i \in 1..L \/ (i - L \in 1..Len(b) /\ L + (i - L) = i)
      BY <1>2
    <2> QED  BY <2>1, <1>1, <1>2
  <1> QED
    BY <1>3, <1>4 DEF v

LEMMA ExecuteSplitterScopes ==
    ASSUME ScopesInv, ExecuteSplitter
    PROVE  ScopesInv'
  <1> DEFINE g == [i \in 1..(2 * Len(system.components)) |->
                       IF i % 2 = 1 THEN Split ELSE Find(i \div 2)]
             N == Len(system.components)
  <1>1. /\ worklist # <<>> /\ Last(worklist).kind = "split"
        /\ splitter' = "Suspended" /\ failed' = FALSE /\ worklist' = Others \o g
        /\ UNCHANGED <<system, core, scopes, stop, result>>
    BY DEF ExecuteSplitter, NextIs
  <1>2. Chain(core, scopes, Others)
    BY <1>1, Dropped
  <1>3. N \in Nat /\ DOMAIN system.components = 1..N
    BY <1>1, Running, SystemType
  <1>4. \A i \in 1..(2 * N) : \/ g[i] = Split
                              \/ \E k \in 1..N : g[i] = Find(k)
    <2>1. TAKE i \in 1..(2 * N)
    <2>2. i % 2 = 1 \/ i \div 2 \in 1..N
      BY <1>3
    <2> QED  BY <2>2
  <1>5. g \in Seq(StepType) /\ DOMAIN g = 1..(2 * N)
        /\ \A i \in DOMAIN g : g[i].kind # "bind" /\ StepFits(g[i])
    <2>1. DOMAIN g = 1..(2 * N)
      OBVIOUS
    <2> HIDE DEF g, N
    <2>2. \A i \in 1..(2 * N) : g[i] \in StepType /\ g[i].kind # "bind" /\ StepFits(g[i])
      <3>1. Split \in StepType /\ Split.kind # "bind" /\ StepFits(Split)
        BY DEF Split, StepType, StepFits
      <3>2. \A k \in 1..N : Find(k) \in StepType /\ Find(k).kind # "bind" /\ StepFits(Find(k))
        BY <1>3 DEF Find, StepType, StepFits
      <3> QED  BY <3>1, <3>2, <1>4
    <2>3. 2 * N \in Nat
      BY <1>3
    <2>4. g = [i \in 1..(2 * N) |-> g[i]]
      BY DEF g, N
    <2> QED  BY <2>1, <2>2, <2>3, <2>4
  <1> HIDE DEF g
  <1>6. Chain(core, scopes, Others \o g)
    BY <1>2, <1>5, Push
  <1>7. \A i \in DOMAIN worklist' : StepFits(worklist'[i])
    <2>1. Others \in Seq(StepType) /\ \A i \in DOMAIN Others : StepFits(Others[i])
      BY <1>1, Running
    <2>2. \A i \in DOMAIN (Others \o g) : StepFits((Others \o g)[i])
      BY <2>1, <1>5, Joined
    <2> QED  BY <2>2, <1>1
  <1>8. result' = "none" /\ stop' \in BOOLEAN
    BY <1>1, Running DEF Searching, ScopesInv, Parts
  <1> QED
    BY <1>1, <1>6, <1>7, <1>8, Continues

LEMMA ResumeSplitterScopes ==
    ASSUME ScopesInv, ResumeSplitter
    PROVE  ScopesInv'
  <1>1. /\ worklist # <<>> /\ Last(worklist).kind = "split" /\ splitter = "Suspended"
        /\ UNCHANGED <<system, stop>>
    BY DEF ResumeSplitter, NextIs
  <1>2. result = "none" /\ stop \in BOOLEAN /\ splitter \in {"Idle", "Suspended", "Error"}
    BY <1>1, Running DEF Searching, ScopesInv, Parts
  <1>3. CASE failed \/ cache = {}
    <2>1. Fail /\ (~stop => splitter' = "Error")
      BY <1>3 DEF ResumeSplitter
    <2>2. splitter' \in {"Idle", "Suspended", "Error"}
      BY <2>1, <1>2 DEF Fail, Return
    <2> QED  BY <2>1, <2>2, <1>1, FailScopes
  <1>4. CASE ~(failed \/ cache = {})
    <2>1. /\ worklist' = Others /\ failed' = FALSE
          /\ UNCHANGED <<core, scopes, splitter, result>>
      BY <1>4 DEF ResumeSplitter
    <2>2. Chain(core', scopes', worklist')
      BY <2>1, <1>1, Dropped
    <2>3. \A i \in DOMAIN worklist' : StepFits(worklist'[i])
      BY <2>1, <1>1, Running
    <2> QED  BY <2>1, <2>2, <2>3, <1>1, <1>2, Continues
  <1> QED
    BY <1>3, <1>4

LEMMA SkipSplitterScopes ==
    ASSUME ScopesInv, SkipSplitter
    PROVE  ScopesInv'
  <1>1. /\ worklist # <<>> /\ Last(worklist).kind = "split" /\ worklist' = Others
        /\ UNCHANGED <<system, core, scopes, splitter, failed, stop, result>>
    BY DEF SkipSplitter, NextIs
  <1>2. Chain(core', scopes', worklist')
    BY <1>1, Dropped
  <1>3. \A i \in DOMAIN worklist' : StepFits(worklist'[i])
    BY <1>1, Running
  <1>4. /\ result = "none" /\ stop \in BOOLEAN /\ failed \in BOOLEAN
        /\ splitter \in {"Idle", "Suspended", "Error"}
    BY <1>1, Running DEF Searching, ScopesInv, Parts
  <1> QED
    BY <1>1, <1>2, <1>3, <1>4, Continues

LEMMA FinishSolveScopes ==
    ASSUME ScopesInv, FinishSolve
    PROVE  ScopesInv'
  <1>1. /\ Searching /\ core' = Left(core, scopes[1]) /\ scopes' = <<>>
        /\ UNCHANGED <<system, solutions, stop>>
    BY DEF FinishSolve, Searching
  <1>2. /\ Return("failure") \/ Return("success")
    BY DEF FinishSolve
  <1>3. /\ core \in CoreType /\ LogExact(core) /\ scopes \in Seq(ScopeType) /\ scopes # <<>>
        /\ scopes[1].changes = 0 /\ scopes[1].score = 0 /\ scopes[1].best = Infinity
        /\ scopes[1].bound = 0 /\ scopes[1] \in ScopeType /\ stop \in BOOLEAN
        /\ system \in Systems
    <2>1. ScopesFit(core, scopes) /\ core \in CoreType /\ LogExact(core) /\ stop \in BOOLEAN
          /\ system \in Systems
      BY <1>1 DEF ScopesInv, Parts, Chain
    <2>2. scopes \in Seq(ScopeType) /\ scopes # <<>>
      BY <2>1 DEF ScopesFit
    <2>3. 1 \in DOMAIN scopes /\ scopes[1] \in ScopeType
      BY <2>2
    <2> QED  BY <2>1, <2>2, <2>3 DEF ScopesFit
  <1> DEFINE d == Left(core, scopes[1])
  <1>4. Len(core.changes) \in Nat
    BY <1>3 DEF CoreType
  <1>5. /\ d \in CoreType /\ LogExact(d) /\ d.assignment = AtLevel(core, 0)
        /\ Len(d.changes) = 0 /\ d.score = 0 /\ d.best = Infinity
    BY <1>3, <1>4, LeftFacts
  <1> HIDE DEF d
  <1>6. d = Untouched
    <2>1. d = [assignment |-> d.assignment, changes |-> d.changes, score |-> d.score,
               best |-> d.best, bound |-> d.bound]
      BY <1>5 DEF CoreType
    <2>2. d.changes = <<>> /\ d.bound = 0
      BY <1>5 DEF CoreType, LogExact
    <2>3. d.assignment = [v \in Var |-> Unbound]
      BY <1>5 DEF AtLevel, Prefix
    <2> QED  BY <2>1, <2>2, <2>3, <1>5 DEF Untouched
  <1> QED
    BY <1>1, <1>2, <1>3, <1>5, <1>6, Returned DEF d

-----------------------------------------------------------------------------
(* Finding solutions.                                                      *)

\* The best score is not among what a chain is about.
LEMMA BestOnly ==
    ASSUME NEW c, NEW sc, NEW w, Chain(c, sc, w), NEW b \in Nat \union {Infinity}
    PROVE  /\ Chain([c EXCEPT !.best = b], sc, w)
           /\ [c EXCEPT !.best = b] \in CoreType
           /\ [c EXCEPT !.best = b].assignment = c.assignment
           /\ [c EXCEPT !.best = b].changes = c.changes
           /\ [c EXCEPT !.best = b].score = c.score
           /\ [c EXCEPT !.best = b].best = b
  <1> DEFINE d == [c EXCEPT !.best = b]
  <1>1. c \in CoreType
    BY DEF Chain
  <1>2. /\ d \in CoreType /\ d.assignment = c.assignment /\ d.changes = c.changes
        /\ d.score = c.score /\ d.bound = c.bound /\ d.best = b
    BY <1>1 DEF CoreType
  <1> HIDE DEF d
  <1>3. LogExact(d)
    BY <1>2 DEF Chain, LogExact
  <1>4. ScopesFit(d, sc)
    BY <1>2 DEF Chain, ScopesFit, ScoreAt
  <1>5. GuessesFit(d, sc, w)
    BY <1>2 DEF Chain, GuessesFit, ScoreAt, ChangesIn, Prefix
  <1>6. Clear(d, sc, w)
    BY <1>2 DEF Chain, Clear, ChangesIn, Prefix
  <1>7. Sound(d, sc)
    BY <1>2 DEF Chain, Sound, AtLevel, ChangesIn, Prefix
  <1> QED
    BY <1>2, <1>3, <1>4, <1>5, <1>6, <1>7 DEF Chain, d

LEMMA BindFacts ==
    ASSUME system \in Systems, NEW k \in DOMAIN system.components,
           NEW v \in Members(system, k)
    PROVE  /\ Bind(k, v) \in StepType /\ StepFits(Bind(k, v))
           /\ Bind(k, v).kind = "bind" /\ Bind(k, v).var = v /\ Bind(k, v).scope = 0
           /\ Bind(k, v).component = k
           /\ Bind(k, v).bindings = InitialBindings(v, core.assignment)
  <1>1. system.components \in Seq(Seq(Var)) /\ system.bindings \in [Var -> Seq(Binding)]
    BY SystemType
  <1>2. system.components[k] \in Seq(Var) /\ k \in Nat
    BY <1>1
  <1>3. v \in Var
    BY <1>2 DEF Members, ToSet
  <1>4. system.bindings[v] \in Seq(Binding)
    BY <1>1, <1>3
  <1> DEFINE B == InitialBindings(v, core.assignment)
  <1>5. B \subseteq DOMAIN system.bindings[v] /\ B \subseteq Nat
    BY <1>4 DEF InitialBindings
  <1> HIDE DEF B
  <1> DEFINE f == v \notin system.overload /\ \A i \in B : system.bindings[v][i].type # AnyType
  <1>6. Bind(k, v) = [kind |-> "bind", component |-> k, var |-> v, bindings |-> B,
                      followup |-> f, valid |-> FALSE, scope |-> 0]
    BY DEF Bind, B
  <1>7. f \in BOOLEAN
    OBVIOUS
  <1> HIDE DEF f
  <1>8. Bind(k, v) \in BindType
    BY <1>2, <1>3, <1>5, <1>6, <1>7 DEF BindType
  <1>9. /\ Bind(k, v).kind = "bind" /\ Bind(k, v).var = v /\ Bind(k, v).scope = 0
        /\ Bind(k, v).component = k /\ Bind(k, v).bindings = B
    BY <1>6
  <1>10. StepFits(Bind(k, v))
    BY <1>5, <1>9 DEF StepFits
  <1> QED
    BY <1>8, <1>9, <1>10 DEF StepType, B

\* The members of a component that are not bound, by position, and those of
\* them that can be guessed.
Unassigned(k) ==
    {i \in DOMAIN system.components[k] : core.assignment[system.components[k][i]] = Unbound}

Guessed(k) ==
    {i \in Unassigned(k) :
        \/ system.components[k][i] \in system.overload
        \/ Bind(k, system.components[k][i]).bindings # {}}

\* The steps for the guesses in an order of their positions.
Guesses(k, order) == [i \in DOMAIN order |-> Bind(k, system.components[k][order[i]])]

FoundSolution(k) ==
    [score |-> core.score,
     assignment |-> [v \in Members(system, k) |-> core.assignment[v]]]

LEMMA FindCases ==
    ASSUME NEW k, ExecuteFind(k)
    PROVE  /\ worklist # <<>> /\ Last(worklist) = Find(k)
           /\ UNCHANGED <<system, solutions, stop>>
           /\ result' = result => splitter' = splitter
           /\ \/ failed /\ Fail
              \/ /\ ~failed /\ Guessed(k) # {}
                 /\ \E order \in InOrder(Guessed(k)) : worklist' = Others \o Guesses(k, order)
                 /\ UNCHANGED <<core, scopes, failed, cache, partial, result>>
              \/ /\ ~failed /\ Guessed(k) = {} /\ Unassigned(k) # {} /\ cache = {} /\ Fail
              \/ /\ ~failed /\ Guessed(k) = {} /\ Unassigned(k) # {} /\ cache # {}
                 /\ worklist' = Others
                 /\ UNCHANGED <<core, scopes, failed, cache, partial, result>>
              \/ /\ ~failed /\ Unassigned(k) = {}
                 /\ cache' = cache \union {FoundSolution(k)}
                 /\ core' = [core EXCEPT !.best =
                                IF core.best = Infinity \/ core.score < core.best
                                THEN core.score ELSE core.best]
                 /\ worklist' = Others
                 /\ UNCHANGED <<scopes, failed, partial, result>>
  BY DEF ExecuteFind, Unassigned, Guessed, Guesses, FoundSolution

LEMMA GuessesFacts ==
    ASSUME system \in Systems, NEW k \in DOMAIN system.components,
           NEW order \in InOrder(Guessed(k))
    PROVE  /\ Guesses(k, order) \in Seq(StepType)
           /\ DOMAIN Guesses(k, order) = 1..Cardinality(Guessed(k))
           /\ Cardinality(Guessed(k)) \in Nat
           /\ \A i \in DOMAIN Guesses(k, order) :
                 /\ StepFits(Guesses(k, order)[i])
                 /\ Guesses(k, order)[i].kind = "bind" /\ Guesses(k, order)[i].scope = 0
                 /\ core.assignment[Guesses(k, order)[i].var] = Unbound
                 /\ \E j \in Guessed(k) :
                       Guesses(k, order)[i] = Bind(k, system.components[k][j])
  <1> DEFINE V == system.components[k]
             G == Guessed(k)
             n == Cardinality(G)
  <1>1. V \in Seq(Var)
    <2>1. system.components \in Seq(Seq(Var))
      BY SystemType
    <2> QED  BY <2>1
  <1>2. G \subseteq DOMAIN V /\ \A j \in G : core.assignment[V[j]] = Unbound /\ j \in DOMAIN V
    BY DEF Guessed, Unassigned
  <1>3. IsFiniteSet(1..Len(V)) /\ DOMAIN V = 1..Len(V)
    BY <1>1, FS_Interval
  <1>4. n \in Nat
    BY <1>2, <1>3, FS_Subset, FS_CardinalityType
  <1>5. order \in [1..n -> G] /\ DOMAIN order = 1..n
    BY DEF InOrder
  <1>6. \A j \in G : V[j] \in Members(system, k)
    BY <1>2 DEF Members, ToSet
  <1> HIDE DEF V, G, n
  <1>7. \A i \in 1..n : order[i] \in G
    BY <1>5
  <1>8. Guesses(k, order) = [i \in 1..n |-> Bind(k, V[order[i]])]
    BY <1>5 DEF Guesses, V
  <1>9. ASSUME NEW i \in 1..n
        PROVE  LET b == Bind(k, V[order[i]])
               IN  /\ b \in StepType /\ StepFits(b)
                   /\ b.kind = "bind" /\ b.scope = 0 /\ core.assignment[b.var] = Unbound
    <2>1. order[i] \in G /\ V[order[i]] \in Members(system, k)
          /\ core.assignment[V[order[i]]] = Unbound
      BY <1>2, <1>6, <1>7
    <2>2. LET b == Bind(k, V[order[i]])
          IN  /\ b \in StepType /\ StepFits(b)
              /\ b.kind = "bind" /\ b.scope = 0 /\ b.var = V[order[i]]
      BY <2>1, BindFacts
    <2> QED  BY <2>1, <2>2
  <1> DEFINE g == Guesses(k, order)
  <1>10. DOMAIN g = 1..n /\ \A i \in 1..n : g[i] = Bind(k, V[order[i]])
    BY <1>8
  <1>11. g \in Seq(StepType)
    <2>1. \A i \in 1..n : Bind(k, V[order[i]]) \in StepType
      BY <1>9
    <2> QED  BY <2>1, <1>4, <1>8
  <1> HIDE DEF g
  <1>12. \A i \in 1..n : /\ StepFits(g[i]) /\ g[i].kind = "bind" /\ g[i].scope = 0
                         /\ core.assignment[g[i].var] = Unbound
                         /\ \E j \in G : g[i] = Bind(k, V[j])
    BY <1>7, <1>9, <1>10
  <1> QED
    BY <1>4, <1>10, <1>11, <1>12 DEF g, G, V, n

LEMMA ExecuteFindScopes ==
    ASSUME ScopesInv, NEW k \in DOMAIN system.components, ExecuteFind(k)
    PROVE  ScopesInv'
  <1>1. /\ worklist # <<>> /\ Last(worklist) = Find(k) /\ Last(worklist).kind # "bind"
        /\ system' = system /\ stop' = stop /\ (result' = result => splitter' = splitter)
    BY FindCases DEF Find
  <1>2. /\ Searching /\ result = "none" /\ stop \in BOOLEAN /\ failed \in BOOLEAN
        /\ splitter \in {"Idle", "Suspended", "Error"} /\ system \in Systems
        /\ core \in CoreType
    BY <1>1, Running DEF Searching, ScopesInv, Parts
  <1>3. Chain(core, scopes, Others) /\ Others \in Seq(StepType)
        /\ \A i \in DOMAIN Others : StepFits(Others[i])
    BY <1>1, Dropped, Running
  <1>4. ASSUME Fail PROVE ScopesInv'
    <2>1. splitter' \in {"Idle", "Suspended", "Error"}
      <3>1. CASE stop
        BY <3>1, <1>4 DEF Fail, Return
      <3>2. CASE ~stop
        BY <3>2, <1>1, <1>2, <1>4 DEF Fail
      <3> QED  BY <3>1, <3>2
    <2> QED  BY <2>1, <1>1, <1>4, FailScopes
  <1>5. ASSUME Chain(core', scopes', Others), worklist' = Others, failed' = failed, result' = result
        PROVE  ScopesInv'
    BY <1>1, <1>2, <1>3, <1>5, Continues
  <1>6. ASSUME NEW order \in InOrder(Guessed(k)), worklist' = Others \o Guesses(k, order),
               core' = core, scopes' = scopes, failed' = failed, result' = result
        PROVE  ScopesInv'
    <2> DEFINE g == Guesses(k, order)
    <2>1. /\ g \in Seq(StepType)
          /\ \A i \in DOMAIN g : StepFits(g[i])
          /\ \A i \in DOMAIN g : g[i].scope = 0 /\ core.assignment[g[i].var] = Unbound
      BY <1>2, GuessesFacts
    <2> HIDE DEF g
    <2>2. Chain(core, scopes, Others \o g)
      BY <2>1, <1>3, Push
    <2>3. \A i \in DOMAIN (Others \o g) : StepFits((Others \o g)[i])
      BY <2>1, <1>3, Joined
    <2>4. worklist' = Others \o g
      BY <1>6 DEF g
    <2> QED  BY <2>2, <2>3, <2>4, <1>1, <1>2, <1>6, Continues
  <1>7. ASSUME NEW b \in Nat \union {Infinity}, core' = [core EXCEPT !.best = b],
               scopes' = scopes, worklist' = Others, failed' = failed, result' = result
        PROVE  ScopesInv'
    <2>1. Chain([core EXCEPT !.best = b], scopes, Others)
      BY <1>3, BestOnly
    <2> QED  BY <2>1, <1>5, <1>7
  <1>8. core.score \in Nat /\ core.best \in Nat \union {Infinity}
    BY <1>2 DEF CoreType
  <1> DEFINE b == IF core.best = Infinity \/ core.score < core.best THEN core.score ELSE core.best
  <1>9. b \in Nat \union {Infinity}
    BY <1>8
  <1> HIDE DEF b
  <1>10. \/ Fail
         \/ \E order \in InOrder(Guessed(k)) : worklist' = Others \o Guesses(k, order)
               /\ UNCHANGED <<core, scopes, failed, result>>
         \/ worklist' = Others /\ UNCHANGED <<core, scopes, failed, result>>
         \/ worklist' = Others /\ core' = [core EXCEPT !.best = b]
               /\ UNCHANGED <<scopes, failed, result>>
    BY FindCases DEF b
  <1> QED
    BY <1>3, <1>4, <1>5, <1>6, <1>7, <1>9, <1>10

-----------------------------------------------------------------------------
(* Guessing.                                                               *)

LEMMA MinFacts ==
    ASSUME NEW S \in SUBSET Nat, S # {}
    PROVE  Min(S) \in S /\ \A m \in S : Min(S) <= m
  BY Least DEF Min

\* A guess is among the types of the variable, at what it costs.
LEMMA GuessFacts ==
    ASSUME system \in Systems, NEW s \in StepType, s.kind = "bind", StepFits(s), ~Exhausted(s)
    PROVE  /\ Guess(s).type \in Type /\ Guess(s).score \in Nat
           /\ IsScore(s.var, Guess(s).type, Guess(s).score)
           /\ s.bindings # {} =>
                 /\ Min(s.bindings) \in s.bindings
                 /\ Guess(s) = system.bindings[s.var][Min(s.bindings)]
           /\ s.bindings = {} => Guess(s).type = AnyType /\ s.followup /\ ~s.valid
  <1>1. s \in BindType /\ s.var \in Var
    BY StepFields
  <1>2. CASE s.bindings = {}
    <2>1. Guess(s).type = AnyType /\ Guess(s).score = AnyScore /\ AnyScore = 3
      BY <1>2 DEF Guess, AnyScore
    <2>2. s.followup /\ ~s.valid
      BY <1>2 DEF Exhausted
    <2> QED  BY <2>1, <2>2, <1>2, Constants DEF IsScore
  <1>3. CASE s.bindings # {}
    <2> DEFINE i == Min(s.bindings)
               B == system.bindings[s.var]
    <2>1. B \in Seq(Binding) /\ s.bindings \subseteq DOMAIN B
      BY <1>1, SystemType DEF StepFits
    <2>2. s.bindings \in SUBSET Nat
      BY <1>1 DEF BindType
    <2>3. i \in s.bindings
      BY <2>2, <1>3, MinFacts
    <2>4. i \in DOMAIN B /\ Guess(s) = B[i]
      BY <2>1, <2>3, <1>3 DEF Guess
    <2>5. B[i] \in Binding
      BY <2>1, <2>4
    <2>6. B[i].type \in Type /\ B[i].score \in Nat
      BY <2>5 DEF Binding
    <2>7. \A x \in DOMAIN B : B[x].type = B[i].type => x = i
      BY <2>4, <1>1, SystemParts
    <2> HIDE DEF i, B
    <2> DEFINE I == {x \in DOMAIN B : B[x].type = B[i].type}
    <2>8. I = {i}
      BY <2>4, <2>7
    <2>9. Score(s.var, B[i].type) = B[i].score
      <3>1. Score(s.var, B[i].type) = IF I = {} THEN AnyScore ELSE B[CHOOSE x \in I : TRUE].score
        BY DEF Score, B
      <3> HIDE DEF I
      <3> QED  BY <3>1, <2>8
    <2> QED
      BY <2>3, <2>4, <2>6, <2>9, <1>3 DEF IsScore, i, B
  <1> QED
    BY <1>2, <1>3

\* The step that a guess turns s into when its scope is the n-th.
Inner(s, n, b) == [Advanced(s) EXCEPT !.scope = n, !.valid = b]

LEMMA AdvancedFacts ==
    ASSUME NEW s \in StepType, s.kind = "bind", StepFits(s)
    PROVE  /\ Advanced(s) \in BindType /\ Advanced(s) \in StepType /\ StepFits(Advanced(s))
           /\ Advanced(s).kind = "bind" /\ Advanced(s).var = s.var /\ Advanced(s).scope = 0
           /\ Advanced(s).component = s.component /\ Advanced(s).valid = s.valid
           /\ Advanced(s).bindings =
                 IF s.bindings = {} THEN {} ELSE s.bindings \ {Min(s.bindings)}
           /\ Advanced(s).followup = (s.followup /\ s.bindings # {})
  <1>1. s \in BindType
    BY StepFields
  <1> DEFINE B == IF s.bindings = {} THEN {} ELSE s.bindings \ {Min(s.bindings)}
             f == s.followup /\ s.bindings # {}
             a == Advanced(s)
  <1>2. a = [s EXCEPT !.bindings = B, !.followup = f, !.scope = 0]
    BY <1>1 DEF Advanced, BindType
  <1>3. B \subseteq s.bindings /\ f \in BOOLEAN
    OBVIOUS
  <1> HIDE DEF B, f, a
  <1>4. /\ a \in BindType /\ a.kind = "bind" /\ a.component = s.component /\ a.var = s.var
        /\ a.bindings = B /\ a.followup = f /\ a.valid = s.valid /\ a.scope = 0
    BY <1>1, <1>2, <1>3 DEF BindType
  <1>5. StepFits(a)
    BY <1>3, <1>4 DEF StepFits
  <1> QED
    BY <1>4, <1>5 DEF StepType, a, B, f

LEMMA InnerFacts ==
    ASSUME NEW s \in StepType, s.kind = "bind", StepFits(s), NEW n \in Nat, NEW b \in BOOLEAN,
           NEW e, e = Inner(s, n, b)
    PROVE  /\ e \in StepType /\ StepFits(e)
           /\ e.kind = "bind" /\ e.var = s.var /\ e.scope = n /\ e.valid = b
           /\ e.component = s.component
           /\ e.bindings = Advanced(s).bindings /\ e.followup = Advanced(s).followup
  <1> DEFINE a == Advanced(s)
  <1>1. a \in BindType /\ StepFits(a) /\ a.kind = "bind" /\ a.var = s.var
        /\ a.component = s.component
    BY AdvancedFacts
  <1>2. e = [a EXCEPT !.scope = n, !.valid = b]
    BY DEF Inner
  <1> HIDE DEF a
  <1>3. /\ e \in BindType /\ e.kind = "bind" /\ e.component = a.component /\ e.var = a.var
        /\ e.bindings = a.bindings /\ e.followup = a.followup /\ e.valid = b /\ e.scope = n
    BY <1>1, <1>2 DEF BindType
  <1>4. StepFits(e)
    BY <1>1, <1>3 DEF StepFits
  <1> QED
    BY <1>1, <1>3, <1>4 DEF StepType, a

LEMMA FrontAppend ==
    ASSUME NEW S, NEW q \in Seq(S), NEW e \in S
    PROVE  /\ Append(q, e) \in Seq(S) /\ Append(q, e) # <<>>
           /\ Front(Append(q, e)) = q
           /\ Len(Append(q, e)) = Len(q) + 1
           /\ Append(q, e)[Len(Append(q, e))] = e
  <1> DEFINE w == Append(q, e)
  <1>1. w \in Seq(S) /\ w # <<>> /\ Len(w) = Len(q) + 1 /\ w[Len(w)] = e
        /\ \A i \in 1..Len(q) : w[i] = q[i]
    OBVIOUS
  <1> HIDE DEF w
  <1>2. /\ Front(w) \in Seq(S) /\ Len(Front(w)) = Len(w) - 1
        /\ \A i \in 1..(Len(w) - 1) : Front(w)[i] = w[i]
    BY <1>1, Replaced
  <1>3. Front(w) = q
    BY <1>1, <1>2
  <1> QED
    BY <1>1, <1>3 DEF w

\* What the top step resumes with.
LEMMA Resuming ==
    ASSUME ScopesInv, worklist # <<>>, NEW s, s = Last(worklist), s.kind = "bind",
           NEW c, c = GaveUp(s)
    PROVE  /\ s \in StepType /\ StepFits(s) /\ s.var \in Var
           /\ c = Given(core, scopes, s) /\ Outside(s) = Around(scopes, s)
           /\ Chain(c, Outside(s), Append(Others, Advanced(s)))
           /\ Chain(c, Outside(s), Others)
           /\ \A j, n \in Nat : At(Others, j, n) <=> At(Append(Others, Advanced(s)), j, n)
           /\ c.assignment[s.var] = Unbound
           /\ \A i \in DOMAIN Append(Others, Advanced(s)) :
                 StepFits(Append(Others, Advanced(s))[i])
  <1> DEFINE t == Advanced(s)
             w == Append(Others, t)
  <1>1. /\ s \in StepType /\ StepFits(s) /\ Chain(core, scopes, worklist)
        /\ Others \in Seq(StepType) /\ \A i \in DOMAIN Others : StepFits(Others[i])
    BY Running
  <1>2. c = Given(core, scopes, s) /\ Outside(s) = Around(scopes, s)
    BY DEF GaveUp, Outside, Given, Around
  <1>3. /\ t \in StepType /\ StepFits(t) /\ t.kind = "bind" /\ t.var = s.var /\ t.scope = 0
    BY <1>1, AdvancedFacts
  <1> HIDE DEF t
  <1>4. Chain(c, Outside(s), w) /\ c.assignment[s.var] = Unbound
    BY <1>1, <1>2, <1>3, GiveUp DEF Others
  <1>5. w \in Seq(StepType) /\ w # <<>> /\ Front(w) = Others /\ Len(w) = Len(Others) + 1
        /\ w[Len(w)] = t
    BY <1>1, <1>3, FrontAppend
  <1>6. Len(w) \notin Open(w)
    BY <1>3, <1>5 DEF Open
  <1>7. Chain(c, Outside(s), Others) /\ \A j, n \in Nat : At(Others, j, n) <=> At(w, j, n)
    <2> HIDE DEF w
    <2>1. Chain(c, Outside(s), Front(w)) /\ \A j, n \in Nat : At(Front(w), j, n) <=> At(w, j, n)
      BY <1>4, <1>5, <1>6, Drop
    <2> QED  BY <2>1, <1>5
  <1>8. \A i \in DOMAIN w : StepFits(w[i])
    <2>1. w = Others \o <<t>>
      BY <1>1
    <2>2. <<t>> \in Seq(StepType) /\ \A i \in DOMAIN <<t>> : StepFits(<<t>>[i])
      BY <1>3
    <2> HIDE DEF w
    <2> QED  BY <2>1, <2>2, <1>1, Joined
  <1>9. s.var \in Var
    BY <1>1, StepFields
  <1> QED
    BY <1>1, <1>2, <1>4, <1>7, <1>8, <1>9 DEF t

\* The cases of resuming s, where d is what a guess makes of c.
LEMMA BindCases ==
    ASSUME ResumeBind
    PROVE  /\ worklist # <<>> /\ Last(worklist).kind = "bind"
           /\ UNCHANGED <<system, solutions, stop>>
           /\ \E s, c, d :
                 /\ s = Last(worklist) /\ c = GaveUp(s)
                 /\ \/ Exhausted(s) /\ Backtrack(s, c, Others)
                    \/ /\ ~Exhausted(s)
                       /\ d = Bound(c, {<<s.var, Guess(s).type>>}, Guess(s).score)
                       /\ Try(s, c, d)
  BY DEF ResumeBind, NextIs

LEMMA TryCases ==
    ASSUME NEW s, NEW c, NEW d, Try(s, c, d)
    PROVE  \/ /\ \/ c.best # Infinity /\ d.score > c.best
                 \/ Conflicts(d.assignment, Changed(c, d)) /\ ~stop
              /\ Backtrack(s, c, Append(Others, Advanced(s)))
           \/ /\ Conflicts(d.assignment, Changed(c, d)) /\ stop
              /\ ~(c.best # Infinity /\ d.score > c.best)
              /\ core' = d /\ scopes' = Append(Outside(s), Scope(c)) /\ Return("failure")
           \/ /\ ~Conflicts(d.assignment, Changed(c, d))
              /\ ~(c.best # Infinity /\ d.score > c.best)
              /\ core' = d /\ scopes' = Append(Outside(s), Scope(c))
              /\ worklist' = Others \o <<Inner(s, Len(Outside(s)) + 1, Valid(s, d)), Find(s.component)>>
              /\ failed' = FALSE
              /\ UNCHANGED <<splitter, cache, partial, result>>
  BY DEF Try, Inner, Changed

LEMMA Deeper ==
    ASSUME NEW c \in CoreType, LogExact(c), NEW sc, ScopesFit(c, sc),
           NEW m \in Nat, Len(c.changes) <= m
    PROVE  /\ Append(sc, Scope(c)) \in Seq(ScopeType) /\ Append(sc, Scope(c)) # <<>>
           /\ \A n \in DOMAIN Append(sc, Scope(c)) : Append(sc, Scope(c))[n].changes <= m
  <1> DEFINE x == Scope(c)
  <1>1. sc \in Seq(ScopeType) /\ x \in ScopeType /\ x.changes = Len(c.changes)
        /\ Len(c.changes) \in Nat
    BY DEF ScopesFit, Scope, ScopeType, CoreType, LogExact
  <1>2. \A n \in DOMAIN sc : sc[n].changes \in Nat /\ sc[n].changes <= m
    <2>1. \A n \in DOMAIN sc : sc[n] \in ScopeType
      BY <1>1
    <2> QED  BY <2>1, <1>1 DEF ScopesFit, ScopeType
  <1> HIDE DEF x
  <1>3. \A n \in DOMAIN Append(sc, x) : \/ n \in DOMAIN sc /\ Append(sc, x)[n] = sc[n]
                                        \/ Append(sc, x)[n] = x
    BY <1>1
  <1>4. Append(sc, x) \in Seq(ScopeType) /\ Append(sc, x) # <<>>
    BY <1>1
  <1>5. \A n \in DOMAIN Append(sc, x) : Append(sc, x)[n].changes <= m
    <2>1. TAKE n \in DOMAIN Append(sc, x)
    <2>2. CASE n \in DOMAIN sc /\ Append(sc, x)[n] = sc[n]
      BY <2>2, <1>1, <1>2
    <2>3. CASE Append(sc, x)[n] = x
      BY <2>3, <1>1
    <2> QED  BY <2>2, <2>3, <1>3
  <1> QED
    BY <1>4, <1>5 DEF x

LEMMA ResumeBindScopes ==
    ASSUME ScopesInv, ResumeBind
    PROVE  ScopesInv'
  <1>1. /\ worklist # <<>> /\ Last(worklist).kind = "bind"
        /\ UNCHANGED <<system, solutions, stop>>
    BY BindCases
  <1>2. PICK s, c, d :
            /\ s = Last(worklist) /\ c = GaveUp(s)
            /\ \/ Exhausted(s) /\ Backtrack(s, c, Others)
               \/ /\ ~Exhausted(s)
                  /\ d = Bound(c, {<<s.var, Guess(s).type>>}, Guess(s).score)
                  /\ Try(s, c, d)
    BY BindCases
  <1>3. /\ s \in StepType /\ s.kind = "bind" /\ StepFits(s) /\ s.var \in Var
        /\ Chain(c, Outside(s), Append(Others, Advanced(s)))
        /\ Chain(c, Outside(s), Others) /\ c.assignment[s.var] = Unbound
        /\ \A i \in DOMAIN Append(Others, Advanced(s)) : StepFits(Append(Others, Advanced(s))[i])
    BY <1>1, <1>2, Resuming
  <1>4. /\ result = "none" /\ stop \in BOOLEAN /\ system \in Systems
        /\ splitter \in {"Idle", "Suspended", "Error"}
        /\ Others \in Seq(StepType) /\ \A i \in DOMAIN Others : StepFits(Others[i])
    BY <1>1, Running DEF Searching, ScopesInv, Parts
  <1>5. ASSUME NEW W, Backtrack(s, c, W), Chain(c, Outside(s), W), \A i \in DOMAIN W : StepFits(W[i])
        PROVE  ScopesInv'
    <2>1. /\ core' = c /\ scopes' = Outside(s) /\ worklist' = W /\ failed' = FALSE
          /\ UNCHANGED <<splitter, result>>
      BY <1>5 DEF Backtrack
    <2> QED  BY <2>1, <1>1, <1>4, <1>5, Continues
  <1>6. CASE Exhausted(s) /\ Backtrack(s, c, Others)
    BY <1>3, <1>4, <1>5, <1>6
  <1>7. CASE /\ ~Exhausted(s)
             /\ d = Bound(c, {<<s.var, Guess(s).type>>}, Guess(s).score)
             /\ Try(s, c, d)
    <2> DEFINE x == s.var
               t == Guess(s).type
               r == Guess(s).score
               K == Len(Outside(s))
               sd == Append(Outside(s), Scope(c))
    <2>1. /\ t \in Type /\ r \in Nat /\ IsScore(x, t, r)
      BY <1>3, <1>4, <1>7, GuessFacts
    <2>2. d = Bound(c, {<<x, t>>}, r) /\ x \in Var /\ c.assignment[x] = Unbound
      BY <1>3, <1>7
    <2>3. c \in CoreType /\ LogExact(c) /\ ScopesFit(c, Outside(s))
      BY <1>3 DEF Chain
    <2> HIDE DEF t, r, x
    <2>4. Adds(d, c, r)
      BY <2>1, <2>2, <2>3, <1>4, BoundOne
    <2>5. d \in CoreType /\ LogExact(d) /\ Len(c.changes) <= Len(d.changes)
          /\ Len(c.changes) \in Nat /\ Len(d.changes) \in Nat
      BY <2>3, <2>4 DEF Adds, Extends, CoreType
    <2>6. CASE Backtrack(s, c, Append(Others, Advanced(s)))
      BY <2>6, <1>3, <1>5
    <2>7. CASE core' = d /\ scopes' = sd /\ Return("failure")
      <3>1. /\ sd \in Seq(ScopeType) /\ sd # <<>>
            /\ \A n \in DOMAIN sd : sd[n].changes <= Len(d.changes)
        BY <2>3, <2>5, Deeper
      <3> QED  BY <3>1, <2>5, <2>7, <1>1, <1>4, Returned
    <2>8. CASE /\ ~Conflicts(d.assignment, Changed(c, d))
               /\ core' = d /\ scopes' = sd
               /\ worklist' = Others \o <<Inner(s, K + 1, Valid(s, d)), Find(s.component)>>
               /\ failed' = FALSE
               /\ UNCHANGED <<splitter, cache, partial, result>>
      <3> DEFINE e == Inner(s, K + 1, Valid(s, d))
                 k == s.component
                 g == <<e, Find(k)>>
      <3>1. K \in Nat /\ K + 1 \in Nat /\ Valid(s, d) \in BOOLEAN
        <4>1. Outside(s) \in Seq(ScopeType)
          BY <2>3 DEF ScopesFit
        <4>2. Valid(s, d) \in BOOLEAN
          <5>1. s.valid \in BOOLEAN
            BY <1>3, StepFields DEF BindType
          <5> QED  BY <5>1 DEF Valid
        <4> QED  BY <4>1, <4>2
      <3>2. e \in StepType /\ e.kind = "bind" /\ e.var = x /\ e.scope = K + 1 /\ StepFits(e)
        BY <3>1, <1>3, InnerFacts DEF x
      <3>3. k \in Nat /\ k \in DOMAIN system.components
        BY <1>3, StepFields DEF StepFits, BindType
      <3> HIDE DEF e, k, K
      <3>4. Chain(d, sd, Others \o g)
        <4>1. /\ system \in Systems /\ Chain(c, Outside(s), Others) /\ x \in Var /\ t \in Type
              /\ c.assignment[x] = Unbound /\ r \in Nat /\ IsScore(x, t, r)
              /\ d = Bound(c, {<<x, t>>}, r)
              /\ ~Conflicts(d.assignment, Changed(c, d))
              /\ e \in StepType /\ e.kind = "bind" /\ e.var = x /\ e.scope = Len(Outside(s)) + 1
              /\ k \in Nat
          BY <3>2, <3>3, <2>1, <2>2, <2>8, <1>3, <1>4 DEF K
        <4>2. Chain(d, Append(Outside(s), Scope(c)), Others \o <<e, Find(k)>>)
          BY ONLY <4>1, Guessing
        <4> QED  BY <4>2
      <3>5. g \in Seq(StepType) /\ \A i \in DOMAIN g : StepFits(g[i])
        <4>1. Find(k) \in StepType /\ StepFits(Find(k))
          BY <3>3 DEF Find, StepType, StepFits
        <4> QED  BY <4>1, <3>2
      <3>6. worklist' = Others \o g
        BY <2>8 DEF e, k, K
      <3> HIDE DEF g
      <3>7. \A i \in DOMAIN (Others \o g) : StepFits((Others \o g)[i])
        BY <3>5, <1>4, Joined
      <3> QED  BY <3>4, <3>6, <3>7, <2>8, <1>1, <1>4, Continues
    <2> QED  BY <2>6, <2>7, <2>8, <1>7, TryCases
  <1> QED
    BY <1>2, <1>6, <1>7

LEMMA ScopesInductive == Spec => []ScopesInv
  <1>1. Init => ScopesInv
    BY InitScopes
  <1>2. ScopesInv /\ [Next]_vars => ScopesInv'
    <2> SUFFICES ASSUME ScopesInv, [Next]_vars PROVE ScopesInv'
      OBVIOUS
    <2>1. CASE Solve
      BY <2>1, SolveScopes
    <2>2. CASE ExecuteSplitter
      BY <2>2, ExecuteSplitterScopes
    <2>3. CASE ResumeSplitter
      BY <2>3, ResumeSplitterScopes
    <2>4. CASE SkipSplitter
      BY <2>4, SkipSplitterScopes
    <2>5. CASE \E k \in DOMAIN system.components : ExecuteFind(k)
      BY <2>5, ExecuteFindScopes
    <2>6. CASE ResumeBind
      BY <2>6, ResumeBindScopes
    <2>7. CASE FinishSolve
      BY <2>7, FinishSolveScopes
    <2>8. CASE UNCHANGED vars
      <3>1. /\ UNCHANGED <<system, core, scopes, stop, result>>
            /\ UNCHANGED <<worklist, splitter, failed>>
        BY <2>8 DEF vars, search
      <3>2. Parts'
        BY <3>1 DEF ScopesInv, Parts, StepFits, Members
      <3>3. Searching => Chain(core, scopes, worklist)'
        BY <3>1, SystemFrame DEF ScopesInv
      <3> QED  BY <3>1, <3>2, <3>3 DEF ScopesInv, Searching, Untouched
    <2> QED
      BY <2>1, <2>2, <2>3, <2>4, <2>5, <2>6, <2>7, <2>8 DEF Next
  <1> QED
    BY <1>1, <1>2, PTL DEF Spec

LEMMA OpenFacts ==
    ASSUME ScopesInv
    PROVE  ScopesExact
  <1>1. /\ core \in CoreType /\ LogExact(core) /\ (scopes = <<>> => core = Untouched)
    BY DEF ScopesInv, Parts
  <1>2. ASSUME result = "none" /\ scopes # <<>>
        PROVE  /\ {worklist[i].scope : i \in OpenSteps} = 2..Len(scopes)
               /\ \A i, j \in OpenSteps : i < j => worklist[i].scope < worklist[j].scope
               /\ ScoreIn(1) = 0
               /\ \A i \in OpenSteps :
                     LET s == worklist[i]
                     IN  IsScore(s.var, core.assignment[s.var],
                                 ScoreIn(s.scope) - scopes[s.scope].score)
    <2>1. Chain(core, scopes, worklist)
      BY <1>2 DEF ScopesInv, Searching
    <2>2. ScopesFit(core, scopes) /\ GuessesFit(core, scopes, worklist)
      BY <2>1 DEF Chain
    <2>3. OpenSteps = Open(worklist) /\ \A n : ScoreIn(n) = ScoreAt(core, scopes, n)
      BY DEF OpenSteps, Open, ScoreIn, ScoreAt
    <2>4. ASSUME NEW i \in Open(worklist)
          PROVE  IsScore(worklist[i].var, core.assignment[worklist[i].var],
                         ScoreAt(core, scopes, worklist[i].scope)
                            - scopes[worklist[i].scope].score)
      <3> DEFINE n == worklist[i].scope
      <3>1. n \in 2..Len(scopes) /\ scopes \in Seq(ScopeType)
        BY <2>2 DEF GuessesFit, ScopesFit
      <3>2. n \in DOMAIN scopes
        BY <3>1
      <3>3. scopes[n] \in ScopeType
        BY <3>1, <3>2
      <3>4. PICK r \in Nat : /\ IsScore(worklist[i].var, core.assignment[worklist[i].var], r)
                             /\ ScoreAt(core, scopes, n) = scopes[n].score + r
        BY <2>2 DEF GuessesFit, ScoreFits
      <3>5. scopes[n].score \in Nat
        BY <3>3 DEF ScopeType
      <3>6. ScoreAt(core, scopes, n) - scopes[n].score = r
        BY <3>4, <3>5
      <3> QED  BY <3>4, <3>6
    <2> QED
      BY <2>2, <2>3, <2>4 DEF GuessesFit, ScopesFit
  <1> QED
    BY <1>1, <1>2 DEF ScopesExact, LogExact

\* Leaving scopes puts everything back: the bindings are those in the log,
\* the open scopes are those of the steps on the worklist, in order, with the
\* score of their guesses, and without scopes the system is as it was.
THEOREM ScopesExactHolds == Spec => []ScopesExact
  <1>1. ScopesInv => ScopesExact
    BY OpenFacts
  <1> QED
    BY <1>1, ScopesInductive, PTL

-----------------------------------------------------------------------------
(* Sums.  The fold of the library picks the elements in an order of its    *)
(* own; what it computes is the function below, which exists.              *)

\* What sums f over the subsets of S.
Picked(s) == CHOOSE x \in s : TRUE

Summing(f, T, it) ==
    it = [s \in T |-> IF s = {} THEN 0 ELSE f[Picked(s)] + it[s \ {Picked(s)}]]

\* The subsets of S of up to n elements.
UpTo(S, n) == {s \in SUBSET S : Cardinality(s) <= n}

LEMMA PickedFacts ==
    ASSUME NEW S, IsFiniteSet(S), NEW s \in SUBSET S, s # {}
    PROVE  /\ Picked(s) \in S /\ s \ {Picked(s)} \in SUBSET S
           /\ Cardinality(s) \in Nat /\ Cardinality(s \ {Picked(s)}) \in Nat
           /\ Cardinality(s \ {Picked(s)}) = Cardinality(s) - 1
  <1>1. Picked(s) \in s
    BY DEF Picked
  <1>2. IsFiniteSet(s) /\ IsFiniteSet(s \ {Picked(s)})
    BY FS_Subset
  <1>3. Cardinality(s \ {Picked(s)}) = Cardinality(s) - 1
    BY <1>1, <1>2, FS_RemoveElement
  <1> QED
    BY <1>1, <1>2, <1>3, FS_CardinalityType

LEMMA SummingExists ==
    ASSUME NEW S, IsFiniteSet(S), NEW f
    PROVE  \E it : Summing(f, SUBSET S, it)
  <1> DEFINE Bad == {n \in Nat : ~ \E it : Summing(f, UpTo(S, n), it)}
  <1>1. ASSUME NEW n \in Nat, NEW it, Summing(f, UpTo(S, n), it)
        PROVE  \E jt : Summing(f, UpTo(S, n + 1), jt)
    <2> DEFINE jt == [s \in UpTo(S, n + 1) |->
                         IF s = {} THEN 0 ELSE f[Picked(s)] + it[s \ {Picked(s)}]]
    <2>1. ASSUME NEW s \in UpTo(S, n + 1), s # {}
          PROVE  jt[s \ {Picked(s)}] = it[s \ {Picked(s)}]
      <3> DEFINE t == s \ {Picked(s)}
      <3>1. t \in UpTo(S, n) /\ t \in UpTo(S, n + 1)
        BY <2>1, PickedFacts DEF UpTo
      <3> HIDE DEF t
      <3>2. it[t] = IF t = {} THEN 0 ELSE f[Picked(t)] + it[t \ {Picked(t)}]
        BY <3>1, <1>1 DEF Summing
      <3>3. jt[t] = it[t]
        BY <3>1, <3>2
      <3> QED  BY <3>3 DEF t
    <2>2. jt = [s \in UpTo(S, n + 1) |-> IF s = {} THEN 0 ELSE f[Picked(s)] + jt[s \ {Picked(s)}]]
      BY <2>1
    <2> HIDE DEF jt
    <2> QED  BY <2>2 DEF Summing
  <1>2. \E it : Summing(f, UpTo(S, 0), it)
    <2> DEFINE it == [s \in UpTo(S, 0) |-> 0]
    <2>1. \A s \in UpTo(S, 0) : s = {}
      <3>1. TAKE s \in UpTo(S, 0)
      <3>2. s \in SUBSET S /\ Cardinality(s) <= 0
        BY DEF UpTo
      <3>3. Cardinality(s) = 0 /\ IsFiniteSet(s)
        BY <3>2, FS_Subset, FS_CardinalityType
      <3> QED  BY <3>3, FS_EmptySet
    <2>2. Summing(f, UpTo(S, 0), it)
      BY <2>1 DEF Summing
    <2> QED  BY <2>2
  <1>3. Bad = {}
    <2> SUFFICES ASSUME Bad # {} PROVE FALSE
      OBVIOUS
    <2>1. PICK m \in Bad : \A n \in Bad : m <= n
      BY Least
    <2>2. m # 0
      BY <1>2
    <2>3. m - 1 \in Nat /\ m - 1 \notin Bad /\ m = (m - 1) + 1
      BY <2>1, <2>2
    <2>4. \E it : Summing(f, UpTo(S, m - 1), it)
      BY <2>3
    <2> HIDE DEF Bad
    <2>5. \E it : Summing(f, UpTo(S, (m - 1) + 1), it)
      BY <2>3, <2>4, <1>1
    <2> QED  BY <2>3, <2>5 DEF Bad
  <1>4. Cardinality(S) \in Nat
    BY FS_CardinalityType
  <1>5. \E it : Summing(f, UpTo(S, Cardinality(S)), it)
    BY <1>3, <1>4
  <1>6. UpTo(S, Cardinality(S)) = SUBSET S
    <2>1. \A s \in SUBSET S : Cardinality(s) <= Cardinality(S)
      BY FS_Subset
    <2> QED  BY <2>1 DEF UpTo
  <1> QED
    BY <1>5, <1>6

LEMMA SumFacts ==
    ASSUME NEW S, IsFiniteSet(S), NEW f, DOMAIN f = S
    PROVE  \E it : Summing(f, SUBSET S, it) /\ SumFunction(f) = it[S]
  <1> DEFINE iter[s \in SUBSET S] ==
                 IF s = {} THEN 0 ELSE LET x == CHOOSE x \in s : TRUE IN f[x] + iter[s \ {x}]
  <1>1. SumFunction(f) = iter[S]
    <2>1. SumFunction(f) = FoldFunctionOnSet(+, 0, f, S)
      BY DEF SumFunction, SumFunctionOnSet
    <2>2. SumFunction(f) = MapThenFoldSet(+, 0, LAMBDA i : f[i], LAMBDA s : CHOOSE x \in s : TRUE, S)
      BY <2>1 DEF FoldFunctionOnSet
    <2> QED  BY <2>2, Zenon DEF MapThenFoldSet
  <1>2. Summing(f, SUBSET S, iter)
    <2>1. \E it : it = [s \in SUBSET S |-> IF s = {} THEN 0 ELSE f[CHOOSE x \in s : TRUE] + it[s \ {CHOOSE x \in s : TRUE}]]
      <3>1. PICK it : Summing(f, SUBSET S, it)
        BY SummingExists
      <3>2. it = [s \in SUBSET S |-> IF s = {} THEN 0 ELSE f[CHOOSE x \in s : TRUE] + it[s \ {CHOOSE x \in s : TRUE}]]
        BY <3>1, Zenon DEF Summing, Picked
      <3> QED  BY <3>2, Zenon
    <2>2. iter = [s \in SUBSET S |-> IF s = {} THEN 0 ELSE f[CHOOSE x \in s : TRUE] + iter[s \ {CHOOSE x \in s : TRUE}]]
      BY <2>1, Zenon
    <2> QED  BY <2>2 DEF Summing, Picked
  <1> HIDE DEF iter
  <1> QED
    BY <1>1, <1>2

LEMMA SumType ==
    ASSUME NEW S, IsFiniteSet(S), NEW f \in [S -> Nat]
    PROVE  SumFunction(f) \in Nat
  <1>1. PICK it : Summing(f, SUBSET S, it) /\ SumFunction(f) = it[S]
    BY SumFacts
  <1> DEFINE Bad == {n \in Nat : \E s \in SUBSET S : Cardinality(s) = n /\ it[s] \notin Nat}
  <1>2. Bad = {}
    <2> SUFFICES ASSUME Bad # {} PROVE FALSE
      OBVIOUS
    <2>1. PICK m \in Bad : \A n \in Bad : m <= n
      BY Least
    <2>2. PICK s \in SUBSET S : Cardinality(s) = m /\ it[s] \notin Nat
      OBVIOUS
    <2>3. s # {} /\ it[s] = f[Picked(s)] + it[s \ {Picked(s)}]
      <3>1. it[s] = IF s = {} THEN 0 ELSE f[Picked(s)] + it[s \ {Picked(s)}]
        BY <1>1, Zenon DEF Summing
      <3>2. s # {}
        BY <3>1, <2>2
      <3> QED  BY <3>1, <3>2
    <2> DEFINE t == s \ {Picked(s)}
    <2>4. Picked(s) \in S /\ t \in SUBSET S /\ Cardinality(t) \in Nat /\ Cardinality(t) = m - 1
      BY <2>2, <2>3, PickedFacts
    <2>5. it[t] \in Nat
      <3> HIDE DEF t
      <3>1. Cardinality(t) \notin Bad
        BY <2>1, <2>4
      <3> QED  BY <3>1, <2>4
    <2> QED  BY <2>2, <2>3, <2>4, <2>5
  <1>3. Cardinality(S) \in Nat
    BY FS_CardinalityType
  <1> QED
    BY <1>1, <1>2, <1>3

-----------------------------------------------------------------------------
(* Solutions.                                                              *)

Solution == [score : Nat, assignment : UNION {[V -> Type] : V \in SUBSET Var}]

\* What a solution of the variables V is, and of the k-th component.
SolutionFor(V) == {S \in Solution : DOMAIN S.assignment = V /\ Consistent(S.assignment)}

SolutionOf(k) == SolutionFor(Members(system, k))

\* The j-th step that ExecuteSplitter puts on the worklist.
Rest(j) == IF j % 2 = 1 THEN Split ELSE Find(j \div 2)

\* The number of components.
Components == Len(system.components)

LEMMA SolutionFacts ==
    ASSUME NEW V \in SUBSET Var, NEW S \in SolutionFor(V)
    PROVE  /\ S \in Solution /\ S.score \in Nat /\ S.assignment \in [V -> Type]
           /\ DOMAIN S.assignment = V /\ Consistent(S.assignment)
  <1>1. S \in Solution /\ DOMAIN S.assignment = V /\ Consistent(S.assignment)
    BY DEF SolutionFor
  <1>2. S.score \in Nat /\ S.assignment \in UNION {[W -> Type] : W \in SUBSET Var}
    BY <1>1 DEF Solution
  <1>3. PICK W \in SUBSET Var : S.assignment \in [W -> Type]
    BY <1>2
  <1>4. W = V
    BY <1>1, <1>3
  <1> QED
    BY <1>1, <1>2, <1>3, <1>4

LEMMA MembersFacts ==
    ASSUME system \in Systems, NEW k \in DOMAIN system.components
    PROVE  /\ Members(system, k) \subseteq Var
           /\ Members(system, k) # {}
           /\ system.components[k] \in Seq(Var)
           /\ k \in Nat
  <1>1. system.components \in Seq(Seq(Var)) /\ system.components[k] # <<>>
    BY SystemType, SystemParts
  <1>2. system.components[k] \in Seq(Var) /\ k \in Nat
    BY <1>1
  <1> DEFINE V == system.components[k]
  <1>3. \A i \in DOMAIN V : V[i] \in Var
    BY <1>2
  <1>4. 1 \in DOMAIN V
    BY <1>1, <1>2
  <1> QED
    BY <1>2, <1>3, <1>4 DEF Members, ToSet

\* What is kept of a component satisfies what all of it does.
LEMMA Restricted ==
    ASSUME system \in Systems, NEW a \in Assignment, Consistent(a),
           NEW k \in DOMAIN system.components, \A v \in Members(system, k) : a[v] # Unbound
    PROVE  /\ [v \in Members(system, k) |-> a[v]] \in [Members(system, k) -> Type]
           /\ Consistent([v \in Members(system, k) |-> a[v]])
  <1> DEFINE M == Members(system, k)
             b == [v \in M |-> a[v]]
  <1>1. M \subseteq Var
    BY MembersFacts
  <1>2. b \in [M -> Type]
    BY <1>1 DEF Assignment
  <1>3. \A f \in Fact : f \in Facts(b) <=> (f \in Facts(a) /\ f[1] \in M)
    BY <1>1 DEF Facts, Assignment, Fact
  <1>4. Facts(b) \subseteq Facts(a)
    BY <1>3 DEF Facts
  <1>5. \A N \in system.nogoods : ~(N \subseteq Facts(b))
    BY <1>4 DEF Consistent
  <1> HIDE DEF b, M
  <1>6. ASSUME NEW p \in system.implied, p[1] \in Facts(b) PROVE p[2] \in Facts(b)
    <2>1. p[1] \in Fact /\ p[2] \in Fact
      BY SystemType
    <2>2. p[1] \in Facts(a) /\ p[1][1] \in M
      BY <2>1, <1>3, <1>6
    <2>3. p[2] \in Facts(a)
      BY <2>2 DEF Consistent
    <2>4. PICK l \in DOMAIN system.components :
              p[1][1] \in Members(system, l) /\ p[2][1] \in Members(system, l)
      BY SystemParts
    <2>5. l = k
      BY <2>2, <2>4, SystemParts DEF M
    <2> QED  BY <2>1, <2>3, <2>4, <2>5, <1>3 DEF M
  <1> QED
    BY <1>2, <1>5, <1>6 DEF Consistent, b, M

\* The best solutions are some of those found.
LEMMA BestFacts ==
    ASSUME system \in Systems, NEW V \in SUBSET Var, NEW C \in SUBSET SolutionFor(V),
           IsFiniteSet(C), C # {}
    PROVE  /\ Best(C) \in Seq(C) /\ Best(C) # <<>>
           /\ \A i \in DOMAIN Best(C) : /\ Best(C)[i] \in C
                                        /\ \A T \in C : Best(C)[i].score <= T.score
  <1> DEFINE lowest == {S \in C : \A T \in C : S.score <= T.score}
             best == {S \in lowest : \A T \in lowest : Quality(S) <= Quality(T)}
  <1>1. \A S \in C : S.score \in Nat /\ S.assignment \in [V -> Type]
    BY SolutionFacts
  <1>2. \A S \in C : Quality(S) \in Nat
    <2>1. TAKE S \in C
    <2> DEFINE f == [v \in DOMAIN S.assignment |-> system.rank[S.assignment[v]]]
    <2>2. system.rank \in [Type -> Nat]
      BY SystemType
    <2>3. f \in [V -> Nat] /\ IsFiniteSet(V)
      BY <2>2, <1>1, Constants, FS_Subset
    <2> HIDE DEF f
    <2>4. SumFunction(f) \in Nat
      BY <2>3, SumType
    <2> QED  BY <2>4 DEF Quality, f
  <1>3. lowest # {}
    <2> DEFINE I == {S.score : S \in C}
    <2>1. I \in SUBSET Nat /\ I # {}
      BY <1>1
    <2>2. PICK n \in I : \A m \in I : n <= m
      BY <2>1, Least
    <2>3. PICK S \in C : S.score = n
      OBVIOUS
    <2>4. \A T \in C : T.score \in I
      OBVIOUS
    <2> QED  BY <2>2, <2>3, <2>4
  <1> HIDE DEF lowest
  <1>4. lowest \subseteq C /\ \A S \in lowest, T \in C : S.score <= T.score
    BY DEF lowest
  <1>5. best # {}
    <2> DEFINE I == {Quality(S) : S \in lowest}
    <2>1. I \in SUBSET Nat /\ I # {}
      BY <1>2, <1>3, <1>4
    <2>2. PICK n \in I : \A m \in I : n <= m
      BY <2>1, Least
    <2>3. PICK S \in lowest : Quality(S) = n
      OBVIOUS
    <2>4. \A T \in lowest : Quality(T) \in I
      OBVIOUS
    <2> QED  BY <2>2, <2>3, <2>4
  <1>6. best \subseteq lowest
    OBVIOUS
  <1>7. Best(C) = SetToSeq(best)
    BY DEF Best, lowest
  <1> HIDE DEF best
  <1>8. IsFiniteSet(best)
    BY <1>4, <1>6, FS_Subset
  <1>9. SetToSeq(best) \in Seq(best) /\ ToSet(SetToSeq(best)) = best
    BY <1>8, SetToSeqFacts
  <1> DEFINE q == SetToSeq(best)
  <1> HIDE DEF q
  <1>10. q \in Seq(best) /\ ToSet(q) = best
    BY <1>9 DEF q
  <1>11. q # <<>>
    BY <1>5, <1>10 DEF ToSet
  <1>12. q \in Seq(C) /\ \A i \in DOMAIN q : q[i] \in lowest
    BY <1>4, <1>6, <1>10
  <1> QED
    BY <1>4, <1>7, <1>11, <1>12 DEF q

\* An assignment of the variables of some components and one of another.
Union(a, b) ==
    [v \in DOMAIN b \union DOMAIN a |-> IF v \in DOMAIN b THEN b[v] ELSE a[v]]

LEMMA UnionFacts ==
    ASSUME system \in Systems, NEW V \in SUBSET Var, NEW a \in [V -> Type], Consistent(a),
           NEW k \in DOMAIN system.components, V \intersect Members(system, k) = {},
           \A l \in DOMAIN system.components :
               Members(system, l) \subseteq V \/ Members(system, l) \intersect V = {},
           NEW b \in [Members(system, k) -> Type], Consistent(b)
    PROVE  /\ Union(a, b) \in [Members(system, k) \union V -> Type]
           /\ Consistent(Union(a, b))
           /\ \A v \in V : Union(a, b)[v] = a[v]
           /\ \A v \in Members(system, k) : Union(a, b)[v] = b[v]
  <1> DEFINE M == Members(system, k)
             c == Union(a, b)
  <1>1. c = [v \in M \union V |-> IF v \in M THEN b[v] ELSE a[v]]
    BY DEF Union
  <1>2. c \in [M \union V -> Type] /\ (\A v \in V : c[v] = a[v]) /\ (\A v \in M : c[v] = b[v])
    BY <1>1
  <1>3. M \subseteq Var
    BY MembersFacts
  <1> HIDE DEF c
  <1>4. \A f \in Fact : /\ f[1] \in V => (f \in Facts(c) <=> f \in Facts(a))
                        /\ f[1] \in M => (f \in Facts(c) <=> f \in Facts(b))
                        /\ f \in Facts(c) => f[1] \in M \/ f[1] \in V
    BY <1>2 DEF Facts
  <1>5. Facts(c) \subseteq Fact
    BY DEF Facts
  <1>6. ASSUME NEW l \in DOMAIN system.components, NEW v \in Members(system, l),
               v \in M \/ v \in V
        PROVE  Members(system, l) = M \/ Members(system, l) \subseteq V
    BY <1>6, SystemParts
  <1> HIDE DEF M
  <1>7. ASSUME NEW N \in system.nogoods, N \subseteq Facts(c) PROVE FALSE
    <2>1. PICK l \in DOMAIN system.components : \A f \in N : f[1] \in Members(system, l)
      BY SystemParts
    <2>2. PICK f \in N : TRUE
      BY SystemParts
    <2>3. f[1] \in Members(system, l) /\ (f[1] \in M \/ f[1] \in V)
      BY <2>1, <1>4, <1>5, <1>7
    <2>4. CASE Members(system, l) = M
      <3>1. N \subseteq Facts(b)
        BY <2>1, <2>4, <1>4, <1>5, <1>7
      <3> QED  BY <3>1 DEF Consistent
    <2>5. CASE Members(system, l) \subseteq V
      <3>1. N \subseteq Facts(a)
        BY <2>1, <2>5, <1>4, <1>5, <1>7
      <3> QED  BY <3>1 DEF Consistent
    <2> QED  BY <2>3, <2>4, <2>5, <1>6
  <1>8. ASSUME NEW p \in system.implied, p[1] \in Facts(c) PROVE p[2] \in Facts(c)
    <2>1. p[1] \in Fact /\ p[2] \in Fact
      BY SystemType
    <2>2. PICK l \in DOMAIN system.components :
              p[1][1] \in Members(system, l) /\ p[2][1] \in Members(system, l)
      BY SystemParts
    <2>3. p[1][1] \in M \/ p[1][1] \in V
      BY <2>1, <1>4, <1>8
    <2>4. CASE Members(system, l) = M
      BY <2>1, <2>2, <2>4, <1>4, <1>8 DEF Consistent
    <2>5. CASE Members(system, l) \subseteq V
      BY <2>1, <2>2, <2>5, <1>4, <1>8 DEF Consistent
    <2> QED  BY <2>2, <2>3, <2>4, <2>5, <1>6
  <1> QED
    BY <1>2, <1>7, <1>8 DEF Consistent, c, M

LEMMA MaxFacts ==
    ASSUME NEW m \in Nat, NEW n \in Nat
    PROVE  Max({m, n}) = IF m <= n THEN n ELSE m
  <1> DEFINE x == IF m <= n THEN n ELSE m
  <1>1. x \in {m, n} /\ \A y \in {m, n} : x >= y
    OBVIOUS
  <1>2. \A z \in {m, n} : (\A y \in {m, n} : z >= y) => z = x
    OBVIOUS
  <1> HIDE DEF x
  <1>3. Max({m, n}) = CHOOSE z \in {m, n} : \A y \in {m, n} : z >= y
    BY DEF Max
  <1> QED
    BY <1>1, <1>2, <1>3 DEF x

\* Put together, the first solutions are one of both components.
LEMMA TogetherFacts ==
    ASSUME NEW S \in Seq(Solution), S # <<>>, NEW C \in Seq(Solution), C # <<>>
    PROVE  /\ Together(S, C) \in Seq(Solution) /\ Together(S, C) # <<>>
           /\ Together(S, C)[1].score = S[1].score + C[1].score
           /\ Together(S, C)[1].assignment = Union(S[1].assignment, C[1].assignment)
  <1> DEFINE m == Len(S)
             n == Len(C)
             T == Together(S, C)
             K == IF m <= n THEN n ELSE m
             Source(i) == IF i <= m THEN S[i] ELSE S[((i - 1) % m) + 1]
             Pair(i) == [score |-> Source(i).score + C[i].score,
                         assignment |-> Union(Source(i).assignment, C[i].assignment)]
  <1>1. m \in Nat /\ n \in Nat /\ m >= 1 /\ n >= 1
    OBVIOUS
  <1>2. T = [i \in 1..K |-> IF i > n THEN S[i] ELSE Pair(i)]
    <2>1. Max({m, n}) = K
      BY <1>1, MaxFacts
    <2> QED  BY <2>1 DEF Together, Union
  <1>3. \A s \in Solution : s.score \in Nat /\ \E V \in SUBSET Var : s.assignment \in [V -> Type]
    BY DEF Solution
  <1>4. ASSUME NEW i \in 1..K PROVE Source(i) \in Solution
    <2>1. CASE i <= m
      BY <2>1, <1>1
    <2>2. CASE ~(i <= m)
      <3>1. i - 1 \in Nat
        BY <1>1
      <3>2. (i - 1) % m \in 0..(m - 1)
        <4> HIDE DEF m
        <4> QED  BY <3>1, <1>1
      <3>3. ((i - 1) % m) + 1 \in 1..m
        <4> DEFINE y == (i - 1) % m
        <4>1. y \in 0..(m - 1)
          BY <3>2
        <4> HIDE DEF y, m
        <4>2. y + 1 \in 1..m
          BY <4>1, <1>1
        <4> QED  BY <4>2 DEF y
      <3>4. \A y \in 1..m : S[y] \in Solution
        BY <1>1
      <3> QED  BY <2>2, <3>3, <3>4
    <2> QED  BY <2>1, <2>2
  <1>5. ASSUME NEW s \in Solution, NEW c \in Solution
        PROVE  [score |-> s.score + c.score, assignment |-> Union(s.assignment, c.assignment)]
                   \in Solution
    <2>1. PICK V \in SUBSET Var : s.assignment \in [V -> Type]
      BY <1>3
    <2>2. PICK W \in SUBSET Var : c.assignment \in [W -> Type]
      BY <1>3
    <2>3. W \union V \in SUBSET Var /\ Union(s.assignment, c.assignment) \in [W \union V -> Type]
      BY <2>1, <2>2 DEF Union
    <2>4. s.score + c.score \in Nat
      BY <1>3
    <2> QED  BY <2>3, <2>4 DEF Solution
  <1>6. ASSUME NEW i \in 1..K PROVE (IF i > n THEN S[i] ELSE Pair(i)) \in Solution
    <2>1. CASE i > n
      BY <2>1, <1>1
    <2>2. CASE ~(i > n)
      <3>1. C[i] \in Solution
        BY <2>2, <1>1
      <3> HIDE DEF Source
      <3> QED  BY <3>1, <2>2, <1>4, <1>5
    <2> QED  BY <2>1, <2>2
  <1>7. K \in Nat /\ 1 \in 1..K
    BY <1>1
  <1> HIDE DEF K, T
  <1>8. T \in Seq(Solution)
    <2> DEFINE e(i) == IF i > n THEN S[i] ELSE Pair(i)
    <2>1. T = [i \in 1..K |-> e(i)] /\ \A i \in 1..K : e(i) \in Solution
      BY <1>2, <1>6
    <2> HIDE DEF e
    <2> QED  BY <2>1, <1>7
  <1>9. T # <<>> /\ T[1] = Pair(1) /\ Source(1) = S[1]
    <2>1. ~(1 > n) /\ 1 <= m
      BY <1>1
    <2>2. Source(1) = S[1]
      BY <2>1
    <2>3. DOMAIN T = 1..K
      BY <1>2
    <2>4. T # <<>>
      <3>1. 1 \in DOMAIN T
        BY <2>3, <1>7
      <3>2. 1 \notin DOMAIN <<>>
        OBVIOUS
      <3> QED  BY <3>1, <3>2
    <2> DEFINE e(i) == IF i > n THEN S[i] ELSE Pair(i)
    <2>5. T = [i \in 1..K |-> e(i)]
      BY <1>2
    <2>6. e(1) = Pair(1)
      BY <2>1
    <2> HIDE DEF e, Pair, Source
    <2> QED  BY <2>2, <2>4, <2>5, <2>6, <1>7
  <1> QED
    BY <1>8, <1>9 DEF T

\* What puts the first solutions of P together, from none to all of them.
Merging(P, M) ==
    M = [n \in 0..Len(P) |-> IF n = 0 THEN <<[score |-> 0, assignment |-> <<>>]>>
                             ELSE Together(M[n - 1], P[n])]

LEMMA MergingExists ==
    ASSUME NEW P, Len(P) \in Nat
    PROVE  \E M : Merging(P, M)
  <1> DEFINE base == <<[score |-> 0, assignment |-> <<>>]>>
             To(n, M) == M = [i \in 0..n |-> IF i = 0 THEN base ELSE Together(M[i - 1], P[i])]
             Bad == {n \in Nat : ~ \E M : To(n, M)}
  <1>1. ASSUME NEW n \in Nat, NEW M, To(n, M)
        PROVE  \E L : To(n + 1, L)
    <2> DEFINE L == [i \in 0..(n + 1) |-> IF i = 0 THEN base ELSE Together(M[i - 1], P[i])]
    <2> HIDE DEF base
    <2>1. ASSUME NEW i \in 0..(n + 1), i # 0 PROVE L[i - 1] = M[i - 1]
      <3>1. i - 1 \in 0..n /\ i - 1 \in 0..(n + 1)
        BY <2>1
      <3> QED  BY <3>1, <1>1
    <2>2. L = [i \in 0..(n + 1) |-> IF i = 0 THEN base ELSE Together(L[i - 1], P[i])]
      BY <2>1
    <2> HIDE DEF L
    <2> QED  BY <2>2
  <1>2. \E M : To(0, M)
    <2> DEFINE M == [i \in 0..0 |-> base]
    <2> HIDE DEF base
    <2>1. M = [i \in 0..0 |-> IF i = 0 THEN base ELSE Together(M[i - 1], P[i])]
      OBVIOUS
    <2> QED  BY <2>1
  <1> HIDE DEF To
  <1>3. Bad = {}
    <2> SUFFICES ASSUME Bad # {} PROVE FALSE
      OBVIOUS
    <2>1. PICK m \in Bad : \A n \in Bad : m <= n
      BY Least
    <2>2. m # 0
      BY <1>2
    <2>3. m - 1 \in Nat /\ m - 1 \notin Bad /\ m = (m - 1) + 1
      BY <2>1, <2>2
    <2>4. \E M : To(m - 1, M)
      BY <2>3
    <2> HIDE DEF Bad
    <2>5. \E M : To((m - 1) + 1, M)
      BY <2>3, <2>4, <1>1
    <2> QED  BY <2>3, <2>5 DEF Bad
  <1> QED
    BY <1>3 DEF To, Merging

LEMMA MergedIs ==
    ASSUME NEW P, Len(P) \in Nat
    PROVE  \E M : Merging(P, M) /\ Merged(P) = M[Len(P)]
  <1> DEFINE base == <<[score |-> 0, assignment |-> <<>>]>>
             merged[n \in 0..Len(P)] ==
                 IF n = 0 THEN base ELSE Together(merged[n - 1], P[n])
  <1>1. Merged(P) = merged[Len(P)]
    BY Zenon DEF Merged
  <1>2. Merging(P, merged)
    <2>1. \E M : M = [n \in 0..Len(P) |-> IF n = 0 THEN base ELSE Together(M[n - 1], P[n])]
      BY MergingExists, Zenon DEF Merging
    <2>2. merged = [n \in 0..Len(P) |-> IF n = 0 THEN base ELSE Together(merged[n - 1], P[n])]
      BY <2>1, Zenon
    <2> QED  BY <2>2 DEF Merging
  <1> HIDE DEF merged
  <1> QED
    BY <1>1, <1>2

\* What is kept of the components that are solved.
PartialFits(P) ==
    /\ P \in Seq(Seq(Solution)) /\ Len(P) <= Components
    /\ \A j \in DOMAIN P :
          /\ P[j] # <<>>
          /\ \A i \in DOMAIN P[j] : P[j][i] \in SolutionOf(Components + 1 - j)

\* The variables of the last n components.
Covered(n) == UNION {Members(system, Components + 1 - j) : j \in 1..n}

LEMMA CoveredFacts ==
    ASSUME system \in Systems, NEW n \in Nat, n < Components
    PROVE  /\ Components \in Nat /\ Components - n \in DOMAIN system.components
           /\ Covered(n) \subseteq Var /\ Covered(0) = {}
           /\ Covered(n + 1) = Members(system, Components - n) \union Covered(n)
           /\ Covered(n) \intersect Members(system, Components - n) = {}
           /\ \A l \in DOMAIN system.components :
                 \/ Members(system, l) \subseteq Covered(n)
                 \/ Members(system, l) \intersect Covered(n) = {}
  <1>1. Components \in Nat /\ DOMAIN system.components = 1..Components
    BY SystemType DEF Components
  <1>2. \A j \in 1..(n + 1) : Components + 1 - j \in DOMAIN system.components
    BY <1>1
  <1>3. \A k \in DOMAIN system.components : Members(system, k) \subseteq Var
    BY MembersFacts
  <1>4. Covered(n) \subseteq Var
    <2>1. \A j \in 1..n : j \in 1..(n + 1)
      OBVIOUS
    <2> QED  BY <2>1, <1>2, <1>3 DEF Covered
  <1>5. Covered(0) = {}
    BY DEF Covered
  <1>6. Covered(n + 1) = Members(system, Components - n) \union Covered(n)
    <2>1. \A j : j \in 1..(n + 1) <=> j \in 1..n \/ j = n + 1
      OBVIOUS
    <2>2. Components + 1 - (n + 1) = Components - n
      BY <1>1
    <2> QED  BY <2>1, <2>2 DEF Covered
  <1>7. ASSUME NEW l \in DOMAIN system.components, NEW j \in 1..n
        PROVE  l = Components + 1 - j \/ Members(system, l) \intersect Members(system, Components + 1 - j) = {}
    <2>1. j \in 1..(n + 1)
      OBVIOUS
    <2>2. Components + 1 - j \in DOMAIN system.components
      BY <2>1, <1>2
    <2> QED  BY <2>2, SystemParts
  <1>8. Components - n \in DOMAIN system.components /\ \A j \in 1..n : Components - n # Components + 1 - j
    BY <1>1
  <1>9. Covered(n) \intersect Members(system, Components - n) = {}
    BY <1>7, <1>8 DEF Covered
  <1>10. \A l \in DOMAIN system.components :
            Members(system, l) \subseteq Covered(n) \/ Members(system, l) \intersect Covered(n) = {}
    BY <1>7 DEF Covered
  <1> QED
    BY <1>1, <1>4, <1>5, <1>6, <1>8, <1>9, <1>10

\* The n-th step of the merge.
MergeFits(P, M, n) ==
    /\ M[n] \in Seq(Solution) /\ M[n] # <<>> /\ M[n][1] \in SolutionFor(Covered(n))
    /\ n = 0 => M[n][1].score = 0
    /\ n # 0 => M[n][1].score = M[n - 1][1].score + P[n][1].score

LEMMA MergingFacts ==
    ASSUME system \in Systems, NEW P, PartialFits(P), NEW M, Merging(P, M)
    PROVE  \A n \in 0..Len(P) : MergeFits(P, M, n)
  <1> DEFINE base == <<[score |-> 0, assignment |-> <<>>]>>
             Bad == {n \in Nat : n \in 0..Len(P) /\ ~MergeFits(P, M, n)}
  <1>1. /\ P \in Seq(Seq(Solution)) /\ Len(P) \in Nat /\ DOMAIN P = 1..Len(P)
        /\ Len(P) <= Components /\ Components \in Nat
    BY SystemType DEF PartialFits, Components
  <1>2. MergeFits(P, M, 0)
    <2>1. M[0] = base
      <3> HIDE DEF base
      <3>1. M = [n \in 0..Len(P) |-> IF n = 0 THEN base ELSE Together(M[n - 1], P[n])]
        BY DEF Merging, base
      <3> QED  BY <3>1, <1>1
    <2>2. <<>> \in [{} -> Type] /\ DOMAIN <<>> = {}
      OBVIOUS
    <2> DEFINE b == [score |-> 0, assignment |-> <<>>]
    <2>3. b \in Solution /\ b.score = 0 /\ b.assignment = <<>>
      BY <2>2 DEF Solution
    <2>4. Facts(<<>>) = {}
      BY <2>2 DEF Facts
    <2>5. Consistent(<<>>)
      BY <2>4, SystemParts DEF Consistent
    <2>6. b \in SolutionFor({})
      BY <2>2, <2>3, <2>5 DEF SolutionFor
    <2>7. Covered(0) = {}
      BY DEF Covered
    <2> HIDE DEF b
    <2>8. M[0] = <<b>>
      BY <2>1 DEF b
    <2>9. M[0] \in Seq(Solution) /\ M[0] # <<>> /\ M[0][1] = b
      BY <2>3, <2>8
    <2> QED  BY <2>3, <2>6, <2>7, <2>9 DEF MergeFits
  <1>3. ASSUME NEW n \in Nat, n + 1 <= Len(P), MergeFits(P, M, n)
        PROVE  MergeFits(P, M, n + 1)
    <2> DEFINE S == M[n]
               C == P[n + 1]
               T == M[n + 1]
               k == Components - n
               V == Covered(n)
    <2>1. S \in Seq(Solution) /\ S # <<>> /\ S[1] \in SolutionFor(V)
      BY <1>3 DEF MergeFits
    <2>2. /\ n < Components /\ k \in DOMAIN system.components /\ V \subseteq Var
          /\ Covered(n + 1) = Members(system, k) \union V
          /\ V \intersect Members(system, k) = {}
          /\ \A l \in DOMAIN system.components :
                Members(system, l) \subseteq V \/ Members(system, l) \intersect V = {}
      <3>1. n < Components
        BY <1>1, <1>3
      <3> QED  BY <3>1, CoveredFacts
    <2>3. C \in Seq(Solution) /\ C # <<>> /\ C[1] \in SolutionOf(k)
      <3>1. n + 1 \in DOMAIN P /\ Components + 1 - (n + 1) = k
        BY <1>1, <1>3
      <3>2. C \in Seq(Solution) /\ C # <<>>
        BY <3>1, <1>1, SMTT(30) DEF PartialFits
      <3>3. 1 \in DOMAIN C
        BY <3>2
      <3> QED  BY <3>1, <3>2, <3>3 DEF PartialFits
    <2>4. T = Together(S, C)
      <3> HIDE DEF base
      <3>1. M = [i \in 0..Len(P) |-> IF i = 0 THEN base ELSE Together(M[i - 1], P[i])]
        BY DEF Merging, base
      <3>2. n + 1 \in 0..Len(P) /\ n + 1 # 0 /\ (n + 1) - 1 = n
        BY <1>1, <1>3
      <3> QED  BY <3>1, <3>2
    <2> HIDE DEF S, C, T, k, V
    <2>5. /\ T \in Seq(Solution) /\ T # <<>>
          /\ T[1].score = S[1].score + C[1].score
          /\ T[1].assignment = Union(S[1].assignment, C[1].assignment)
      BY <2>1, <2>3, <2>4, TogetherFacts
    <2>6. /\ S[1].assignment \in [V -> Type] /\ Consistent(S[1].assignment)
      BY <2>1, <2>2, SolutionFacts
    <2>7. /\ C[1].assignment \in [Members(system, k) -> Type] /\ Consistent(C[1].assignment)
      BY <2>2, <2>3, MembersFacts, SolutionFacts DEF SolutionOf
    <2>8. /\ T[1].assignment \in [Members(system, k) \union V -> Type]
          /\ Consistent(T[1].assignment)
      <3> DEFINE a == S[1].assignment
                 b == C[1].assignment
      <3>1. a \in [V -> Type] /\ Consistent(a) /\ b \in [Members(system, k) -> Type]
            /\ Consistent(b) /\ V \in SUBSET Var
        BY <2>2, <2>6, <2>7
      <3> HIDE DEF a, b
      <3>2. /\ Union(a, b) \in [Members(system, k) \union V -> Type]
            /\ Consistent(Union(a, b))
        BY <3>1, <2>2, UnionFacts
      <3> QED  BY <3>2, <2>5 DEF a, b
    <2>9. T[1] \in SolutionFor(Members(system, k) \union V)
      <3>1. T[1] \in Solution
        BY <2>5
      <3> QED  BY <3>1, <2>8 DEF SolutionFor
    <2>10. (n + 1) - 1 = n /\ n + 1 # 0
      OBVIOUS
    <2> QED  BY <2>2, <2>5, <2>9, <2>10 DEF MergeFits, S, C, T
  <1>4. Bad = {}
    <2> SUFFICES ASSUME Bad # {} PROVE FALSE
      OBVIOUS
    <2>1. PICK m \in Bad : \A n \in Bad : m <= n
      BY Least
    <2>2. m # 0
      BY <1>2
    <2>3. m - 1 \in Nat /\ m - 1 \notin Bad /\ m = (m - 1) + 1 /\ m <= Len(P) /\ m - 1 <= Len(P)
      BY <2>1, <2>2, <1>1
    <2>4. MergeFits(P, M, m - 1)
      BY <2>3, <1>1
    <2> HIDE DEF Bad
    <2>5. MergeFits(P, M, (m - 1) + 1)
      BY <2>3, <2>4, <1>3
    <2> QED  BY <2>3, <2>5 DEF Bad
  <1> QED
    BY <1>4, <1>1

\* When every component is solved, the first solution is one of all variables.
LEMMA MergedFacts ==
    ASSUME system \in Systems, NEW P, PartialFits(P), Len(P) = Components
    PROVE  /\ Merged(P) \in Seq(Solution) /\ Merged(P) # <<>>
           /\ DOMAIN Merged(P)[1].assignment = Var
           /\ Consistent(Merged(P)[1].assignment)
  <1>1. Len(P) \in Nat /\ DOMAIN system.components = 1..Components /\ Components \in Nat
    BY SystemType DEF PartialFits, Components
  <1>2. PICK M : Merging(P, M) /\ Merged(P) = M[Len(P)]
    BY <1>1, MergedIs
  <1>3. MergeFits(P, M, Len(P))
    BY <1>1, <1>2, MergingFacts
  <1>4. Covered(Components) = Var
    <2>1. \A j \in 1..Components : Components + 1 - j \in DOMAIN system.components
      BY <1>1
    <2>2. \A k \in DOMAIN system.components : k = Components + 1 - (Components + 1 - k)
             /\ Components + 1 - k \in 1..Components
      BY <1>1
    <2>3. Covered(Components) = UNION {Members(system, k) : k \in DOMAIN system.components}
      BY <2>1, <2>2 DEF Covered
    <2>4. \A k \in DOMAIN system.components : Members(system, k) \subseteq Var
      BY MembersFacts
    <2> QED  BY <2>3, <2>4, SystemParts
  <1> QED
    BY <1>2, <1>3, <1>4, SolutionFacts DEF MergeFits

-----------------------------------------------------------------------------
(* The components are solved one after the other.                          *)

\* The component that is solved next, or 0.
Current == Components - Len(partial)

\* Components are solved from the last to the first.  Above the steps of the
\* other components there are those of the current one, the n-th, and nothing
\* is found after its splitter.
Ordered(w, n) ==
    /\ Len(w) >= 2 * n - 1
    /\ \A j \in DOMAIN w :
          IF j < 2 * n
          THEN w[j] = Rest(j)
          ELSE /\ n >= 1
               /\ \/ w[j] = Find(n) /\ j = Len(w)
                  \/ w[j].kind = "bind" /\ w[j].component = n

\* The solutions kept are solutions of their component.
Kept(C, n) == IsFiniteSet(C) /\ \A S \in C : n >= 1 /\ S \in SolutionOf(n)

SearchInv ==
    \/ /\ splitter = "Idle" /\ worklist = <<Split>> /\ ~failed
       /\ partial = <<>> /\ cache = {} /\ solutions = <<>>
    \/ /\ splitter = "Suspended" /\ PartialFits(partial)
       /\ Ordered(worklist, Current) /\ Kept(cache, Current)
       /\ solutions = IF Current = 0 THEN Merged(partial) ELSE <<>>
    \/ /\ splitter = "Error" /\ failed /\ ~stop /\ solutions = <<>>
       /\ \A j \in DOMAIN worklist : worklist[j] = Rest(j)

SolutionInv ==
    /\ ScopesInv
    /\ Searching => SearchInv
    /\ ~Searching => /\ splitter = "Idle" /\ ~failed /\ partial = <<>> /\ cache = {}
                     /\ result # "success" => solutions = <<>>
    /\ SolutionSound

\* These change with the system only.
LEMMA SearchFrame ==
    ASSUME system' = system, NEW k, NEW P, NEW C
    PROVE  /\ SolutionOf(k)' = SolutionOf(k) /\ Components' = Components
           /\ PartialFits(P)' <=> PartialFits(P)
           /\ Kept(C, k)' <=> Kept(C, k)
           /\ Merged(P)' = Merged(P)
  <1>1. \A a : Consistent(a)' <=> Consistent(a)
    BY DEF Consistent, Facts
  <1>2. \A l : SolutionOf(l)' = SolutionOf(l)
    BY <1>1 DEF SolutionOf, SolutionFor, Members, Solution
  <1>3. Components' = Components
    BY DEF Components
  <1>4. PartialFits(P)' <=> PartialFits(P)
    BY <1>2, <1>3 DEF PartialFits, Solution
  <1>5. Kept(C, k)' <=> Kept(C, k)
    BY <1>2 DEF Kept
  <1>6. Merged(P)' = Merged(P)
    BY DEF Merged, Together
  <1> QED
    BY <1>2, <1>3, <1>4, <1>5, <1>6

\* Which part of the search the step that runs belongs to.
LEMMA Turn ==
    ASSUME SolutionInv, worklist # <<>>
    PROVE  /\ Searching /\ SearchInv /\ Components \in Nat
           /\ Components >= 1 /\ result = "none"
           /\ splitter = "Suspended" =>
                 /\ PartialFits(partial) /\ Ordered(worklist, Current) /\ Kept(cache, Current)
                 /\ solutions = <<>>
                 /\ Current \in Nat /\ Current <= Components /\ Current >= 1
                 /\ Len(partial) \in Nat
                 /\ Last(worklist).kind = "split" => Len(worklist) = 2 * Current - 1
                 /\ Last(worklist).kind # "split" =>
                       Len(worklist) >= 2 * Current /\ Last(worklist).component = Current
           /\ splitter = "Idle" => Last(worklist).kind = "split"
           /\ splitter = "Error" => Last(worklist).kind \in {"split", "find"}
           /\ splitter \in {"Idle", "Suspended", "Error"}
  <1>1. /\ Searching /\ SearchInv /\ result = "none" /\ system \in Systems
        /\ Len(worklist) \in Nat /\ Len(worklist) >= 1
        /\ Last(worklist) = worklist[Len(worklist)] /\ worklist \in Seq(StepType)
    BY Running DEF SolutionInv, Searching, ScopesInv, Parts
  <1>2. Components \in Nat /\ Components >= 1
    <2>1. system.components \in Seq(Seq(Var))
      BY <1>1, SystemType
    <2>2. \E k : k \in DOMAIN system.components
      BY <1>1, SystemParts, Constants
    <2> QED  BY <2>1, <2>2 DEF Components
  <1>3. splitter = "Idle" => Last(worklist).kind = "split"
    <2>1. worklist = <<Split>> => Len(worklist) = 1 /\ worklist[1] = Split
      OBVIOUS
    <2>2. splitter = "Idle" => worklist = <<Split>>
      BY <1>1 DEF SearchInv
    <2>3. Split.kind = "split"
      BY DEF Split
    <2> QED  BY <2>1, <2>2, <2>3, <1>1
  <1>4. splitter = "Error" => Last(worklist).kind \in {"split", "find"}
    BY <1>1 DEF SearchInv, Split, Find, Rest
  <1>5. ASSUME splitter = "Suspended"
        PROVE  /\ PartialFits(partial) /\ Ordered(worklist, Current) /\ Kept(cache, Current)
               /\ solutions = <<>>
               /\ Current \in Nat /\ Current <= Components /\ Current >= 1
               /\ Len(partial) \in Nat
               /\ Last(worklist).kind = "split" => Len(worklist) = 2 * Current - 1
               /\ Last(worklist).kind # "split" =>
                     Len(worklist) >= 2 * Current /\ Last(worklist).component = Current
    <2>1. /\ PartialFits(partial) /\ Ordered(worklist, Current) /\ Kept(cache, Current)
          /\ solutions = IF Current = 0 THEN Merged(partial) ELSE <<>>
      BY <1>1, <1>5 DEF SearchInv
    <2>2. Len(partial) \in Nat /\ Len(partial) <= Components
      BY <2>1 DEF PartialFits
    <2>3. Current \in Nat /\ Current <= Components
      BY <2>2, <1>2 DEF Current
    <2> DEFINE n == Current
               L == Len(worklist)
               s == worklist[L]
    <2>4. L \in DOMAIN worklist /\ n \in Nat /\ L \in Nat
      BY <1>1, <2>3
    <2> HIDE DEF n, L, s
    <2>5. L >= 2 * n - 1
      BY <2>1 DEF Ordered, n, L
    <2>6. L < 2 * n => s = Rest(L)
      BY <2>1, <2>4 DEF Ordered, n, L, s
    <2>7. ~(L < 2 * n) => /\ n >= 1
                          /\ s = Find(n) \/ (s.kind = "bind" /\ s.component = n)
      BY <2>1, <2>4 DEF Ordered, n, L, s
    <2>8. n >= 1
      BY <2>4, <2>6, <2>7, <1>1 DEF L
    <2>9. L < 2 * n => L = 2 * n - 1 /\ s.kind = "split"
      <3>1. ASSUME L < 2 * n PROVE L = 2 * n - 1
        BY <2>4, <2>5, <3>1
      <3>2. (2 * n - 1) % 2 = 1
        BY <2>4, <2>8
      <3> QED  BY <3>1, <3>2, <2>6 DEF Rest, Split
    <2>10. ~(L < 2 * n) => s.kind # "split" /\ s.component = n
      BY <2>7 DEF Find
    <2>11. Last(worklist) = s /\ L = Len(worklist)
      BY <1>1 DEF s, L
    <2>12. solutions = <<>>
      BY <2>1, <2>8 DEF n
    <2>13. s.kind = "split" => Len(worklist) = 2 * n - 1
      BY <2>9, <2>10 DEF L
    <2>14. s.kind # "split" => Len(worklist) >= 2 * n /\ s.component = n
      BY <2>4, <2>9, <2>10 DEF L
    <2> QED  BY <2>1, <2>2, <2>3, <2>8, <2>11, <2>12, <2>13, <2>14 DEF n
  <1>6. splitter \in {"Idle", "Suspended", "Error"}
    BY <1>1 DEF SearchInv
  <1> QED
    BY <1>1, <1>2, <1>3, <1>4, <1>5, <1>6

\* The search ends,
LEMMA Ends ==
    ASSUME SolutionInv, ScopesInv', system' = system, Return("failure"), solutions' = <<>>
    PROVE  SolutionInv'
  BY DEF SolutionInv, Return, Searching, SolutionSound

\* or goes on with the same component.
LEMMA SearchGoesOn ==
    ASSUME SolutionInv, worklist # <<>>, splitter = "Suspended", ScopesInv',
           scopes' # <<>>, result' = "none", Ordered(worklist', Current), Kept(cache', Current),
           UNCHANGED <<system, splitter, partial, solutions>>
    PROVE  SolutionInv'
  <1>1. Current' = Current
    BY SearchFrame DEF Current
  <1>2. /\ PartialFits(partial) /\ Current >= 1 /\ Current \in Nat /\ solutions = <<>>
    BY Turn
  <1>3. SearchInv'
    <2>1. Kept(cache, Current)'
      BY <1>1, SearchFrame DEF SolutionInv
    <2>2. PartialFits(partial)'
      BY <1>2, SearchFrame
    <2>3. Ordered(worklist, Current)'
      BY <1>1
    <2>4. (solutions = IF Current = 0 THEN Merged(partial) ELSE <<>>)'
      BY <1>1, <1>2
    <2> QED  BY <2>1, <2>2, <2>3, <2>4 DEF SearchInv
  <1> QED
    BY <1>3 DEF SolutionInv, Searching, SolutionSound

\* The current bindings satisfy the constraints.
LEMMA CurrentSound ==
    ASSUME NEW c, NEW sc, NEW w, Chain(c, sc, w)
    PROVE  Consistent(c.assignment)
  <1>1. /\ c \in CoreType /\ LogExact(c) /\ sc \in Seq(ScopeType) /\ sc # <<>>
        /\ Sound(c, sc)
    BY DEF Chain, ScopesFit
  <1>2. Len(sc) \in 1..Len(sc) /\ ChangesIn(c, sc, Len(sc)) = Len(c.changes)
    BY <1>1 DEF ChangesIn
  <1>3. AtLevel(c, Len(c.changes)) = c.assignment
    BY <1>1, TopLevel
  <1>4. Consistent(AtLevel(c, Len(c.changes)))
    BY <1>1, <1>2 DEF Sound
  <1> QED
    BY <1>3, <1>4

LEMMA FoundFacts ==
    ASSUME ScopesInv, Searching, NEW k \in DOMAIN system.components, Unassigned(k) = {}
    PROVE  FoundSolution(k) \in SolutionOf(k)
  <1>1. /\ system \in Systems /\ core \in CoreType /\ Chain(core, scopes, worklist)
    BY DEF ScopesInv, Parts
  <1>2. core.assignment \in Assignment /\ core.score \in Nat
    BY <1>1 DEF CoreType
  <1>3. Consistent(core.assignment)
    BY <1>1, CurrentSound
  <1>4. \A v \in Members(system, k) : core.assignment[v] # Unbound
    BY DEF Unassigned, Members, ToSet
  <1> DEFINE M == Members(system, k)
             b == [v \in M |-> core.assignment[v]]
  <1>5. b \in [M -> Type] /\ Consistent(b)
    BY <1>1, <1>2, <1>3, <1>4, Restricted
  <1>6. M \subseteq Var
    BY <1>1, MembersFacts
  <1>7. FoundSolution(k) = [score |-> core.score, assignment |-> b]
    BY DEF FoundSolution
  <1> HIDE DEF b
  <1> HIDE DEF M
  <1>8. DOMAIN b = M
    BY <1>5
  <1>9. FoundSolution(k) \in Solution
    BY <1>2, <1>5, <1>6, <1>7 DEF Solution
  <1> QED
    BY <1>5, <1>7, <1>8, <1>9 DEF SolutionOf, SolutionFor, M

LEMMA InitSolution == Init => SolutionInv
  BY InitScopes DEF Init, SolutionInv, Searching, SolutionSound

LEMMA SolveSolution ==
    ASSUME SolutionInv, Solve
    PROVE  SolutionInv'
  <1>1. ScopesInv'
    BY SolveScopes DEF SolutionInv
  <1>2. /\ ~Searching /\ solutions = <<>> /\ splitter = "Idle" /\ ~failed
        /\ partial = <<>> /\ cache = {} /\ UNCHANGED <<system, solutions>>
    BY DEF Solve, Searching, SolutionInv
  <1>3. \/ Return("failure")
        \/ /\ scopes' # <<>> /\ worklist' = <<Split>> /\ result' = "none"
           /\ UNCHANGED <<splitter, failed, cache, partial>>
    BY DEF Solve
  <1>4. CASE Return("failure")
    BY <1>1, <1>2, <1>4, Ends
  <1>5. CASE /\ scopes' # <<>> /\ worklist' = <<Split>> /\ result' = "none"
             /\ UNCHANGED <<splitter, failed, cache, partial>>
    <2>1. SearchInv'
      BY <1>2, <1>5 DEF SearchInv
    <2> QED  BY <2>1, <1>1, <1>5 DEF SolutionInv, Searching, SolutionSound
  <1> QED
    BY <1>3, <1>4, <1>5

LEMMA ExecuteSplitterSolution ==
    ASSUME SolutionInv, ExecuteSplitter
    PROVE  SolutionInv'
  <1> DEFINE g == [i \in 1..(2 * Components) |->
                       IF i % 2 = 1 THEN Split ELSE Find(i \div 2)]
  <1>1. ScopesInv'
    BY ExecuteSplitterScopes DEF SolutionInv
  <1>2. /\ worklist # <<>> /\ splitter = "Idle" /\ splitter' = "Suspended"
        /\ worklist' = Others \o g
        /\ UNCHANGED <<system, core, scopes, cache, partial, solutions, result>>
    BY DEF ExecuteSplitter, NextIs, Components
  <1>3. /\ Searching /\ worklist = <<Split>> /\ partial = <<>> /\ cache = {}
        /\ solutions = <<>> /\ Components \in Nat /\ Components >= 1 /\ result = "none"
    BY <1>2, Turn DEF SearchInv
  <1> HIDE DEF g
  <1>4. worklist' = g
    <2>1. Others \in Seq(StepType) /\ Len(Others) = Len(worklist) - 1
      BY <1>2, Running DEF SolutionInv
    <2>2. Len(worklist) = 1
      BY <1>3
    <2>3. Others = <<>>
      BY <2>1, <2>2
    <2>4. 2 * Components \in Nat
      BY <1>3
    <2>5. g \in Seq({g[i] : i \in 1..(2 * Components)})
      BY <2>4 DEF g
    <2> QED  BY <2>3, <2>5, <1>2
  <1>5. Current = Components /\ PartialFits(partial)
    <2>1. Len(partial) = 0 /\ partial \in Seq(Seq(Solution)) /\ DOMAIN partial = {}
      BY <1>3
    <2> QED  BY <2>1, <1>3 DEF Current, PartialFits
  <1>6. Ordered(g, Components)
    <2>1. g = [i \in 1..(2 * Components) |-> Rest(i)]
      BY DEF g, Rest
    <2> HIDE DEF g
    <2>2. DOMAIN g = 1..(2 * Components) /\ Len(g) = 2 * Components
      BY <2>1, <1>3
    <2>3. Rest(2 * Components) = Find(Components)
      <3>1. (2 * Components) % 2 # 1 /\ (2 * Components) \div 2 = Components
        BY <1>3
      <3> QED  BY <3>1 DEF Rest
    <2>4. \A j \in DOMAIN g : ~(j < 2 * Components) => j = Len(g)
      BY <2>2, <1>3
    <2> QED  BY <2>1, <2>2, <2>3, <2>4, <1>3 DEF Ordered
  <1>7. SearchInv'
    <2>1. Current' = Components /\ Components' = Components
      BY <1>2, <1>5, SearchFrame DEF Current
    <2>2. Kept(cache, Current)'
      BY <1>2, <1>3, FS_EmptySet DEF Kept
    <2>3. PartialFits(partial)'
      BY <1>2, <1>5, SearchFrame
    <2>4. Ordered(worklist, Current)'
      BY <1>4, <1>6, <2>1
    <2>5. (solutions = IF Current = 0 THEN Merged(partial) ELSE <<>>)'
      BY <1>2, <1>3, <2>1
    <2> QED  BY <1>2, <2>2, <2>3, <2>4, <2>5 DEF SearchInv
  <1> QED
    BY <1>1, <1>2, <1>3, <1>7 DEF SolutionInv, Searching, SolutionSound

\* The steps of the n-th component that wait for the one that runs.
Waiting(w, n) ==
    /\ Len(w) >= 2 * n - 1
    /\ \A j \in DOMAIN w : IF j < 2 * n THEN w[j] = Rest(j)
                           ELSE w[j].kind = "bind" /\ w[j].component = n

\* The steps that a step of the n-th component leaves on the worklist.
Following(g, n) ==
    \A i \in DOMAIN g : \/ g[i] = Find(n) /\ i = Len(g)
                        \/ g[i].kind = "bind" /\ g[i].component = n

LEMMA OthersWait ==
    ASSUME SolutionInv, worklist # <<>>, splitter = "Suspended", Last(worklist).kind # "split"
    PROVE  Waiting(Others, Current) /\ Others \in Seq(StepType)
  <1> DEFINE n == Current
             L == Len(worklist)
  <1>1. /\ L \in Nat /\ L >= 1 /\ Others \in Seq(StepType) /\ Len(Others) = L - 1
        /\ DOMAIN Others = 1..(L - 1) /\ DOMAIN worklist = 1..L
        /\ \A i \in DOMAIN Others : Others[i] = worklist[i]
    BY Running DEF SolutionInv, ScopesInv, Parts
  <1>2. Ordered(worklist, n) /\ n \in Nat /\ L >= 2 * n
    BY Turn
  <1> HIDE DEF n, L
  <1>3. Len(Others) >= 2 * n - 1
    BY <1>1, <1>2
  <1>4. ASSUME NEW j \in DOMAIN Others
        PROVE  IF j < 2 * n THEN Others[j] = Rest(j)
               ELSE Others[j].kind = "bind" /\ Others[j].component = n
    <2>1. j \in DOMAIN worklist /\ j # L /\ Others[j] = worklist[j]
      BY <1>1
    <2> QED  BY <2>1, <1>2 DEF Ordered, L
  <1> QED
    BY <1>1, <1>3, <1>4 DEF Waiting, n

LEMMA Follow ==
    ASSUME NEW q \in Seq(StepType), NEW n \in Nat, n >= 1, Waiting(q, n),
           NEW g \in Seq(StepType), Following(g, n)
    PROVE  Ordered(q \o g, n)
  <1> DEFINE w == q \o g
             L == Len(q)
  <1>1. /\ w \in Seq(StepType) /\ Len(w) = L + Len(g)
        /\ \A i \in 1..L : w[i] = q[i]
        /\ \A i \in 1..Len(g) : w[L + i] = g[i]
    BY Concatenation
  <1>2. L \in Nat /\ Len(g) \in Nat /\ DOMAIN q = 1..L /\ DOMAIN g = 1..Len(g)
    OBVIOUS
  <1>3. L >= 2 * n - 1 /\ \A j \in DOMAIN q : IF j < 2 * n THEN q[j] = Rest(j)
                           ELSE q[j].kind = "bind" /\ q[j].component = n
    BY DEF Waiting
  <1> HIDE DEF w, L
  <1>4. DOMAIN w = 1..(L + Len(g))
    BY <1>1, <1>2
  <1>5. ASSUME NEW j \in DOMAIN w
        PROVE  IF j < 2 * n
               THEN w[j] = Rest(j)
               ELSE \/ w[j] = Find(n) /\ j = Len(w)
                    \/ w[j].kind = "bind" /\ w[j].component = n
    <2>1. CASE j \in 1..L
      BY <2>1, <1>1, <1>2, <1>3
    <2>2. CASE j \notin 1..L
      <3>1. j - L \in 1..Len(g) /\ L + (j - L) = j /\ ~(j < 2 * n)
        BY <2>2, <1>2, <1>3, <1>4
      <3>2. w[j] = g[j - L]
        BY <3>1, <1>1
      <3>3. \/ g[j - L] = Find(n) /\ j - L = Len(g)
            \/ g[j - L].kind = "bind" /\ g[j - L].component = n
        BY <3>1, <1>2 DEF Following
      <3>4. j - L = Len(g) => j = Len(w)
        BY <1>1, <1>2, <1>4
      <3> QED  BY <3>1, <3>2, <3>3, <3>4
    <2> QED  BY <2>1, <2>2
  <1>6. Len(w) >= 2 * n - 1
    BY <1>1, <1>2, <1>3
  <1> QED
    BY <1>5, <1>6 DEF Ordered, w

LEMMA Nothing ==
    ASSUME NEW q \in Seq(StepType), NEW n
    PROVE  /\ q = q \o <<>> /\ <<>> \in Seq(StepType) /\ Following(<<>>, n)
  BY DEF Following

LEMMA SplitAlone ==
    ASSUME SolutionInv, worklist # <<>>, splitter = "Suspended", Last(worklist).kind = "split"
    PROVE  /\ Others \in Seq(StepType) /\ Len(Others) = 2 * Current - 2
           /\ \A j \in DOMAIN Others : Others[j] = Rest(j)
  <1> DEFINE n == Current
             L == Len(worklist)
  <1>1. /\ L \in Nat /\ L >= 1 /\ Others \in Seq(StepType) /\ Len(Others) = L - 1
        /\ DOMAIN Others = 1..(L - 1) /\ DOMAIN worklist = 1..L
        /\ \A i \in DOMAIN Others : Others[i] = worklist[i]
    BY Running DEF SolutionInv, ScopesInv, Parts
  <1>2. Ordered(worklist, n) /\ n \in Nat /\ L = 2 * n - 1
    BY Turn
  <1> HIDE DEF n, L
  <1>3. Len(Others) = 2 * n - 2
    BY <1>1, <1>2
  <1>4. \A j \in DOMAIN Others : j \in DOMAIN worklist /\ j < 2 * n
    BY <1>1, <1>2
  <1> QED
    BY <1>1, <1>2, <1>3, <1>4 DEF Ordered, n

LEMMA SkipSplitterSolution ==
    ASSUME SolutionInv, SkipSplitter
    PROVE  SolutionInv'
  <1>1. ScopesInv'
    BY SkipSplitterScopes DEF SolutionInv
  <1>2. /\ worklist # <<>> /\ splitter = "Error" /\ worklist' = Others
        /\ UNCHANGED <<system, scopes, splitter, failed, solutions, stop, result>>
    BY DEF SkipSplitter, NextIs
  <1>3. /\ Searching /\ failed /\ ~stop /\ solutions = <<>> /\ result = "none"
        /\ \A j \in DOMAIN worklist : worklist[j] = Rest(j)
    BY <1>2, Turn DEF SearchInv
  <1>4. \A j \in DOMAIN Others : j \in DOMAIN worklist /\ Others[j] = worklist[j]
    <2>1. worklist \in Seq(StepType)
      BY DEF SolutionInv, ScopesInv, Parts
    <2> QED  BY <2>1, <1>2, Running DEF SolutionInv
  <1>5. SearchInv'
    BY <1>2, <1>3, <1>4 DEF SearchInv
  <1> QED
    BY <1>1, <1>2, <1>3, <1>5 DEF SolutionInv, Searching, SolutionSound

LEMMA FinishSolveSolution ==
    ASSUME SolutionInv, FinishSolve
    PROVE  SolutionInv'
  <1>1. ScopesInv'
    BY FinishSolveScopes DEF SolutionInv
  <1>2. /\ worklist = <<>> /\ Searching /\ UNCHANGED <<system, solutions, stop>>
        /\ Return(IF solutions = <<>> THEN "failure" ELSE "success")
        /\ system \in Systems
    BY DEF FinishSolve, Searching, SolutionInv, ScopesInv, Parts
  <1>3. CASE solutions = <<>>
    BY <1>1, <1>2, <1>3, Ends
  <1>4. CASE solutions # <<>>
    <2>1. splitter = "Suspended" /\ PartialFits(partial) /\ Ordered(worklist, Current)
          /\ solutions = IF Current = 0 THEN Merged(partial) ELSE <<>>
      <3>1. worklist # <<Split>>
        BY <1>2
      <3> QED  BY <3>1, <1>2, <1>4 DEF SolutionInv, SearchInv
    <2>2. Current = 0 /\ solutions = Merged(partial)
      BY <2>1, <1>4
    <2>3. Len(partial) = Components
      <3>1. Len(partial) \in Nat /\ Components \in Nat
        BY <2>1, <1>2, SystemType DEF PartialFits, Components
      <3> QED  BY <3>1, <2>2 DEF Current
    <2>4. DOMAIN solutions[1].assignment = Var /\ Consistent(solutions[1].assignment)
      BY <2>1, <2>2, <2>3, <1>2, MergedFacts
    <2>5. SolutionSound'
      <3> DEFINE a == solutions[1].assignment
      <3>1. Consistent(a)'
        <4>1. Consistent(a)' <=> Consistent(a)
          BY <1>2 DEF Consistent, Facts
        <4> QED  BY <4>1, <2>4
      <3>2. (DOMAIN a = Var)'
        BY <1>2, <2>4
      <3> QED  BY <3>1, <3>2 DEF SolutionSound
    <2> QED  BY <2>5, <1>1, <1>2, <1>4 DEF Return, SolutionInv, Searching
  <1> QED
    BY <1>3, <1>4

LEMMA ResumeSplitterSolution ==
    ASSUME SolutionInv, ResumeSplitter
    PROVE  SolutionInv'
  <1>1. ScopesInv'
    BY ResumeSplitterScopes DEF SolutionInv
  <1>2. /\ worklist # <<>> /\ Last(worklist).kind = "split" /\ splitter = "Suspended"
        /\ UNCHANGED <<system, stop>>
    BY DEF ResumeSplitter, NextIs
  <1>3. /\ Searching /\ result = "none" /\ solutions = <<>> /\ PartialFits(partial)
        /\ Kept(cache, Current) /\ Components \in Nat /\ Len(partial) \in Nat
        /\ Current \in Nat /\ Current <= Components /\ Current >= 1 /\ system \in Systems
    BY <1>2, Turn DEF SolutionInv, ScopesInv, Parts
  <1>4. /\ Others \in Seq(StepType) /\ Len(Others) = 2 * Current - 2
        /\ \A j \in DOMAIN Others : Others[j] = Rest(j)
    BY <1>2, SplitAlone
  <1>5. CASE failed \/ cache = {}
    <2>1. Fail /\ (~stop => splitter' = "Error") /\ solutions' = solutions
      BY <1>5 DEF ResumeSplitter
    <2>2. CASE stop
      <3>1. Return("failure")
        BY <2>1, <2>2 DEF Fail
      <3> QED  BY <3>1, <2>1, <1>1, <1>2, <1>3, Ends
    <2>3. CASE ~stop
      <3>1. /\ failed' = TRUE /\ worklist' = Others /\ scopes' = scopes /\ result' = result
        BY <2>1, <2>3 DEF Fail
      <3>2. SearchInv'
        BY <3>1, <2>1, <2>3, <1>2, <1>3, <1>4 DEF SearchInv
      <3> QED  BY <3>1, <3>2, <1>1, <1>3 DEF SolutionInv, Searching, SolutionSound
    <2> QED  BY <2>2, <2>3
  <1>6. CASE ~(failed \/ cache = {})
    <2>1. /\ partial' = Append(partial, Best(cache)) /\ cache' = {}
          /\ solutions' = IF Others = <<>> THEN solutions \o Merged(partial') ELSE solutions
          /\ worklist' = Others
          /\ UNCHANGED <<core, scopes, splitter, result>>
      BY <1>6 DEF ResumeSplitter
    <2> DEFINE n == Current
               B == Best(cache)
               P == Append(partial, B)
    <2>2. n \in DOMAIN system.components /\ Len(partial) = Components - n
      BY <1>3, SystemType DEF Current, Components
    <2>3. B \in Seq(cache) /\ B # <<>>
          /\ \A i \in DOMAIN B : B[i] \in cache /\ B[i] \in SolutionOf(n)
      <3>1. Members(system, n) \in SUBSET Var
        BY <2>2, <1>3, MembersFacts
      <3>2. cache \in SUBSET SolutionOf(n) /\ IsFiniteSet(cache) /\ cache # {}
        BY <1>3, <1>6 DEF Kept
      <3> HIDE DEF n
      <3> QED  BY <3>1, <3>2, <1>3, BestFacts DEF SolutionOf
    <2> HIDE DEF B
    <2>4. PartialFits(P)
      <3>1. B \in Seq(Solution)
        <4>1. \A i \in DOMAIN B : B[i] \in Solution
          BY <2>3 DEF SolutionOf, SolutionFor
        <4> QED  BY <2>3, <4>1
      <3>2. /\ P \in Seq(Seq(Solution)) /\ Len(P) = Len(partial) + 1
            /\ DOMAIN P = 1..(Len(partial) + 1) /\ P[Len(partial) + 1] = B
            /\ \A j \in 1..Len(partial) : P[j] = partial[j]
        BY <3>1, <1>3 DEF PartialFits
      <3>3. Components + 1 - (Len(partial) + 1) = n
        BY <2>2, <1>3
      <3>4. Len(P) <= Components
        BY <3>2, <2>2, <1>3
      <3> HIDE DEF P
      <3>5. ASSUME NEW j \in DOMAIN P
            PROVE  /\ P[j] # <<>>
                   /\ \A i \in DOMAIN P[j] : P[j][i] \in SolutionOf(Components + 1 - j)
        <4>1. CASE j \in 1..Len(partial)
          <5>1. j \in DOMAIN partial
            BY <4>1, <1>3 DEF PartialFits
          <5> QED  BY <5>1, <4>1, <3>2, <1>3 DEF PartialFits
        <4>2. CASE j = Len(partial) + 1
          BY <4>2, <3>2, <3>3, <2>3
        <4> QED  BY <4>1, <4>2, <3>2
      <3> QED  BY <3>2, <3>4, <3>5 DEF PartialFits
    <2>5. Components - Len(P) = n - 1 /\ n - 1 \in Nat
      <3>1. Len(P) = Len(partial) + 1
        BY <2>3, <1>3 DEF PartialFits
      <3> QED  BY <3>1, <2>2, <1>3
    <2> HIDE DEF P
    <2>6. Current' = n - 1 /\ Components' = Components
      BY <2>1, <2>5, <1>2, SearchFrame DEF Current, P, B
    <2>7. Ordered(Others, n - 1)
      <3>1. DOMAIN Others = 1..Len(Others)
        BY <1>4
      <3>2. \A j \in DOMAIN Others : ~(j < 2 * (n - 1)) =>
                /\ n - 1 >= 1 /\ j = 2 * (n - 1) /\ j = Len(Others)
        BY <3>1, <2>5, <1>3, <1>4
      <3>3. Rest(2 * (n - 1)) = Find(n - 1)
        <4>1. (2 * (n - 1)) % 2 # 1 /\ (2 * (n - 1)) \div 2 = n - 1
          BY <2>5
        <4> QED  BY <4>1 DEF Rest
      <3>4. Len(Others) >= 2 * (n - 1) - 1
        BY <2>5, <1>3, <1>4
      <3> QED  BY <3>2, <3>3, <3>4, <1>4 DEF Ordered
    <2>8. solutions' = IF n - 1 = 0 THEN Merged(P) ELSE <<>>
      <3>1. Others = <<>> <=> n - 1 = 0
        BY <1>3, <1>4
      <3>2. CASE n - 1 = 0
        <4>1. Len(P) = Components
          <5>1. Len(P) \in Nat
            BY <2>4 DEF PartialFits
          <5> QED  BY <5>1, <3>2, <2>5, <1>3
        <4>2. Merged(P) \in Seq(Solution)
          BY <4>1, <2>4, <1>3, MergedFacts
        <4>3. solutions' = <<>> \o Merged(P)
          <5>1. partial' = P
            BY <2>1 DEF P, B
          <5>2. Merged(partial') = Merged(P)
            BY <5>1
          <5>3. solutions' = solutions \o Merged(partial')
            BY <2>1, <3>1, <3>2
          <5> QED  BY <5>2, <5>3, <1>3
        <4> QED  BY <4>2, <4>3, <3>2
      <3>3. CASE n - 1 # 0
        BY <3>1, <3>3, <2>1, <1>3
      <3> QED  BY <3>2, <3>3
    <2>9. SearchInv'
      <3>1. PartialFits(partial)'
        BY <2>1, <2>4, <1>2, SearchFrame DEF P, B
      <3>2. Ordered(worklist, Current)'
        BY <2>1, <2>6, <2>7
      <3>3. Kept(cache, Current)'
        BY <2>1, FS_EmptySet DEF Kept
      <3>4. (solutions = IF Current = 0 THEN Merged(partial) ELSE <<>>)'
        <4>1. Merged(partial)' = Merged(P)
          BY <2>1, <1>2, SearchFrame DEF P, B
        <4> QED  BY <4>1, <2>6, <2>8
      <3> QED  BY <3>1, <3>2, <3>3, <3>4, <2>1, <1>2 DEF SearchInv
    <2> QED  BY <2>1, <2>9, <1>1, <1>3 DEF SolutionInv, Searching, SolutionSound
  <1> QED
    BY <1>5, <1>6

LEMMA ExecuteFindSolution ==
    ASSUME SolutionInv, NEW k \in DOMAIN system.components, ExecuteFind(k)
    PROVE  SolutionInv'
  <1>1. ScopesInv'
    BY ExecuteFindScopes DEF SolutionInv
  <1>2. /\ worklist # <<>> /\ Last(worklist) = Find(k)
        /\ Last(worklist).kind = "find" /\ Last(worklist).component = k
        /\ UNCHANGED <<system, solutions, stop>> /\ (result' = result => splitter' = splitter)
    BY FindCases DEF Find
  <1>3. /\ Searching /\ SearchInv /\ result = "none" /\ system \in Systems
        /\ Others \in Seq(StepType) /\ splitter \in {"Suspended", "Error"}
        /\ scopes # <<>> /\ stop \in BOOLEAN
    BY <1>2, Turn, Running DEF SolutionInv, Searching, ScopesInv, Parts
  <1>4. CASE splitter = "Error"
    <2>1. /\ failed /\ ~stop /\ solutions = <<>> /\ \A j \in DOMAIN worklist : worklist[j] = Rest(j)
      BY <1>3, <1>4 DEF SearchInv
    <2>2. Fail
      BY <2>1, FindCases
    <2>3. /\ failed' = TRUE /\ worklist' = Others /\ scopes' = scopes /\ result' = result
      BY <2>1, <2>2 DEF Fail
    <2>4. \A j \in DOMAIN Others : j \in DOMAIN worklist /\ Others[j] = worklist[j]
      <3>1. worklist \in Seq(StepType)
        BY DEF SolutionInv, ScopesInv, Parts
      <3> QED  BY <3>1, <1>2, Running DEF SolutionInv
    <2>5. SearchInv'
      BY <1>2, <1>4, <2>1, <2>3, <2>4 DEF SearchInv
    <2> QED  BY <1>1, <1>2, <1>3, <2>1, <2>3, <2>5 DEF SolutionInv, Searching, SolutionSound
  <1>5. CASE splitter = "Suspended"
    <2>1. /\ k = Current /\ Current \in Nat /\ Current >= 1 /\ Kept(cache, Current)
          /\ solutions = <<>>
      BY <1>2, <1>5, Turn
    <2>2. Waiting(Others, k)
      BY <1>2, <1>5, <2>1, OthersWait
    <2>3. Ordered(Others, k)
      <3>1. Others = Others \o <<>> /\ <<>> \in Seq(StepType) /\ Following(<<>>, k)
        BY <1>3, Nothing
      <3>2. Ordered(Others \o <<>>, k)
        BY <3>1, <2>1, <2>2, <1>3, Follow
      <3> QED  BY <3>1, <3>2
    <2>4. ASSUME scopes' = scopes, result' = result, Ordered(worklist', k), Kept(cache', k),
                 partial' = partial
          PROVE  SolutionInv'
      BY <2>4, <2>1, <1>1, <1>2, <1>3, <1>5, SearchGoesOn
    <2>5. CASE Fail
      <3>1. CASE stop
        <4>1. Return("failure")
          BY <2>5, <3>1 DEF Fail
        <4> QED  BY <4>1, <1>1, <1>2, <2>1, Ends
      <3>2. CASE ~stop
        <4>1. /\ worklist' = Others /\ scopes' = scopes /\ result' = result /\ cache' = cache
          BY <2>5, <3>2 DEF Fail
        <4>2. partial' = partial
          BY <2>5, <3>2, <1>2, <2>1 DEF ExecuteFind, Fail
        <4> QED  BY <4>1, <4>2, <2>1, <2>3, <2>4
      <3> QED  BY <3>1, <3>2
    <2>6. CASE /\ \E order \in InOrder(Guessed(k)) : worklist' = Others \o Guesses(k, order)
               /\ UNCHANGED <<core, scopes, failed, cache, partial, result>>
      <3>1. PICK order \in InOrder(Guessed(k)) : worklist' = Others \o Guesses(k, order)
        BY <2>6
      <3> DEFINE g == Guesses(k, order)
      <3>2. /\ g \in Seq(StepType)
            /\ \A i \in DOMAIN g : g[i].kind = "bind" /\ g[i].component = k
        <4>1. /\ g \in Seq(StepType)
              /\ \A i \in DOMAIN g : \E j \in Guessed(k) : g[i] = Bind(k, system.components[k][j])
          BY <1>3, GuessesFacts
        <4>2. \A j \in Guessed(k) : system.components[k][j] \in Members(system, k)
          BY DEF Guessed, Unassigned, Members, ToSet
        <4>3. \A v \in Members(system, k) : Bind(k, v).kind = "bind" /\ Bind(k, v).component = k
          BY <1>3, BindFacts
        <4> HIDE DEF g
        <4> QED  BY <4>1, <4>2, <4>3
      <3> HIDE DEF g
      <3>3. Following(g, k)
        BY <3>2 DEF Following
      <3>4. Ordered(Others \o g, k)
        BY <3>2, <3>3, <2>1, <2>2, <1>3, Follow
      <3>5. worklist' = Others \o g
        BY <3>1 DEF g
      <3> QED  BY <3>4, <3>5, <2>1, <2>4, <2>6
    <2>7. CASE worklist' = Others /\ UNCHANGED <<core, scopes, failed, cache, partial, result>>
      BY <2>1, <2>3, <2>4, <2>7
    <2>8. CASE /\ Unassigned(k) = {} /\ cache' = cache \union {FoundSolution(k)}
               /\ worklist' = Others /\ UNCHANGED <<scopes, failed, partial, result>>
      <3>1. FoundSolution(k) \in SolutionOf(k)
        BY <2>8, <1>3, FoundFacts DEF SolutionInv
      <3>2. IsFiniteSet(cache')
        BY <2>8, <2>1, FS_AddElement DEF Kept
      <3>3. Kept(cache', k)
        BY <3>1, <3>2, <2>1, <2>8 DEF Kept
      <3> QED  BY <3>3, <2>3, <2>4, <2>8
    <2> QED  BY <2>5, <2>6, <2>7, <2>8, FindCases
  <1> QED
    BY <1>3, <1>4, <1>5

LEMMA ResumeBindSolution ==
    ASSUME SolutionInv, ResumeBind
    PROVE  SolutionInv'
  <1>1. ScopesInv'
    BY ResumeBindScopes DEF SolutionInv
  <1>2. /\ worklist # <<>> /\ Last(worklist).kind = "bind"
        /\ UNCHANGED <<system, solutions, stop>>
    BY BindCases
  <1>3. PICK s, c, d :
            /\ s = Last(worklist) /\ c = GaveUp(s)
            /\ \/ Exhausted(s) /\ Backtrack(s, c, Others)
               \/ /\ ~Exhausted(s)
                  /\ d = Bound(c, {<<s.var, Guess(s).type>>}, Guess(s).score)
                  /\ Try(s, c, d)
    BY BindCases
  <1> DEFINE n == Current
  <1>4. /\ splitter = "Suspended" /\ n \in Nat /\ n >= 1 /\ Kept(cache, n)
        /\ solutions = <<>> /\ s.component = n /\ result = "none"
    BY <1>2, <1>3, Turn
  <1>5. Waiting(Others, n) /\ Others \in Seq(StepType)
    BY <1>2, <1>4, OthersWait
  <1>6. /\ s \in StepType /\ s.kind = "bind" /\ StepFits(s)
        /\ Chain(c, Outside(s), Others)
    BY <1>2, <1>3, Resuming DEF SolutionInv
  <1>7. Outside(s) # <<>> /\ Outside(s) \in Seq(ScopeType)
    BY <1>6 DEF Chain, ScopesFit
  <1> HIDE DEF n
  <1>8. ASSUME scopes' # <<>>, Ordered(worklist', n),
               UNCHANGED <<splitter, cache, partial, result>>
        PROVE  SolutionInv'
    BY <1>1, <1>2, <1>4, <1>8, SearchGoesOn DEF n
  <1>9. ASSUME NEW g \in Seq(StepType), Following(g, n), worklist' = Others \o g,
               scopes' # <<>>, UNCHANGED <<splitter, cache, partial, result>>
        PROVE  SolutionInv'
    <2>1. Ordered(Others \o g, n)
      BY <1>4, <1>5, <1>9, Follow
    <2> QED  BY <2>1, <1>8, <1>9
  <1>10. CASE Backtrack(s, c, Others)
    <2>1. Others = Others \o <<>> /\ <<>> \in Seq(StepType) /\ Following(<<>>, n)
      BY <1>5, Nothing
    <2> QED  BY <2>1, <1>7, <1>9, <1>10 DEF Backtrack
  <1>11. CASE Backtrack(s, c, Append(Others, Advanced(s)))
    <2> DEFINE t == Advanced(s)
    <2>1. t \in StepType /\ t.kind = "bind" /\ t.component = n
      BY <1>4, <1>6, AdvancedFacts
    <2> HIDE DEF t
    <2>2. Append(Others, t) = Others \o <<t>> /\ <<t>> \in Seq(StepType) /\ Following(<<t>>, n)
      BY <2>1, <1>5 DEF Following
    <2> QED  BY <2>2, <1>7, <1>9, <1>11 DEF Backtrack, t
  <1>12. CASE Return("failure")
    BY <1>1, <1>2, <1>4, <1>12, Ends
  <1>13. CASE /\ scopes' = Append(Outside(s), Scope(c))
              /\ worklist' = Others \o <<Inner(s, Len(Outside(s)) + 1, Valid(s, d)), Find(s.component)>>
              /\ UNCHANGED <<splitter, cache, partial, result>>
    <2> DEFINE K == Len(Outside(s)) + 1
               e == Inner(s, K, Valid(s, d))
    <2>1. K \in Nat /\ Valid(s, d) \in BOOLEAN
      <3>1. s.valid \in BOOLEAN
        BY <1>6, StepFields DEF BindType
      <3> QED  BY <3>1, <1>7 DEF Valid
    <2> HIDE DEF K
    <2>2. e \in StepType /\ e.kind = "bind" /\ e.component = n
      BY <2>1, <1>4, <1>6, InnerFacts
    <2> HIDE DEF e
    <2>3. Find(n) \in StepType
      BY <1>4 DEF Find, StepType
    <2>4. <<e, Find(n)>> \in Seq(StepType) /\ Following(<<e, Find(n)>>, n)
      BY <2>2, <2>3 DEF Following
    <2>5. scopes' # <<>>
      BY <1>7, <1>13
    <2>6. worklist' = Others \o <<e, Find(n)>>
      BY <1>4, <1>13 DEF e, K
    <2> QED  BY <2>4, <2>5, <2>6, <1>9, <1>13
  <1> QED
    <2>1. CASE ~Exhausted(s) /\ Try(s, c, d)
      BY <2>1, <1>11, <1>12, <1>13, TryCases
    <2> QED  BY <2>1, <1>3, <1>10

LEMMA SolutionStutters ==
    ASSUME SolutionInv, UNCHANGED vars
    PROVE  SolutionInv'
  <1>1. /\ UNCHANGED <<system, core, scopes, stop, result, solutions>>
        /\ UNCHANGED <<worklist, splitter, failed, cache, partial>>
    BY DEF vars, search
  <1>2. Current' = Current
    BY <1>1, SearchFrame DEF Current
  <1>3. Searching => SearchInv'
    BY <1>1, <1>2, SearchFrame DEF SolutionInv, SearchInv
  <1>4. ScopesInv'
    <2>1. Parts'
      BY <1>1 DEF SolutionInv, ScopesInv, Parts, StepFits, Members
    <2>2. Searching => Chain(core, scopes, worklist)'
      BY <1>1, SystemFrame DEF SolutionInv, ScopesInv
    <2> QED  BY <2>1, <2>2, <1>1 DEF SolutionInv, ScopesInv, Searching, Untouched
  <1>5. SolutionSound'
    <2>1. \A a : Consistent(a)' <=> Consistent(a)
      BY <1>1 DEF Consistent, Facts
    <2> QED  BY <2>1, <1>1 DEF SolutionInv, SolutionSound
  <1> QED
    BY <1>1, <1>3, <1>4, <1>5 DEF SolutionInv, Searching

LEMMA SolutionInductive == Spec => []SolutionInv
  <1>1. Init => SolutionInv
    BY InitSolution
  <1>2. SolutionInv /\ [Next]_vars => SolutionInv'
    <2> SUFFICES ASSUME SolutionInv, [Next]_vars PROVE SolutionInv'
      OBVIOUS
    <2>1. CASE Solve
      BY <2>1, SolveSolution
    <2>2. CASE ExecuteSplitter
      BY <2>2, ExecuteSplitterSolution
    <2>3. CASE ResumeSplitter
      BY <2>3, ResumeSplitterSolution
    <2>4. CASE SkipSplitter
      BY <2>4, SkipSplitterSolution
    <2>5. CASE \E k \in DOMAIN system.components : ExecuteFind(k)
      BY <2>5, ExecuteFindSolution
    <2>6. CASE ResumeBind
      BY <2>6, ResumeBindSolution
    <2>7. CASE FinishSolve
      BY <2>7, FinishSolveSolution
    <2>8. CASE UNCHANGED vars
      BY <2>8, SolutionStutters
    <2> QED
      BY <2>1, <2>2, <2>3, <2>4, <2>5, <2>6, <2>7, <2>8 DEF Next
  <1> QED
    BY <1>1, <1>2, PTL DEF Spec

\* The solution found first binds every variable and satisfies every
\* constraint, although only those of changed variables are checked and the
\* solutions of the components are put together unseen.
THEOREM SolutionSoundHolds == Spec => []SolutionSound
  <1>1. SolutionInv => SolutionSound
    BY DEF SolutionInv
  <1> QED
    BY <1>1, SolutionInductive, PTL

\* The variables of the solver keep their types: bindings, the change log, the
\* scopes that point into it, and the steps on the worklist.
THEOREM TypeCorrect == Spec => []TypeOK
  <1>1. ScopesInv => TypeOK
    <2> SUFFICES ASSUME ScopesInv PROVE TypeOK
      OBVIOUS
    <2>1. /\ system \in Systems /\ core \in CoreType
          /\ scopes \in Seq(ScopeType) /\ worklist \in Seq(StepType)
          /\ \A n \in DOMAIN scopes : scopes[n].changes <= Len(core.changes)
          /\ splitter \in {"Idle", "Suspended", "Error"}
          /\ failed \in BOOLEAN /\ stop \in BOOLEAN /\ result \in {"none", "success", "failure"}
      BY DEF ScopesInv, Parts
    <2>2. \A i \in DOMAIN scopes : scopes[i].changes \in 0..Len(core.changes)
      <3>1. \A i \in DOMAIN scopes : scopes[i].changes \in Nat
        <4>1. \A i \in DOMAIN scopes : scopes[i] \in ScopeType
          BY <2>1
        <4> QED  BY <4>1 DEF ScopeType
      <3> QED  BY <3>1, <2>1 DEF CoreType
    <2>3. \A i \in DOMAIN worklist : worklist[i].kind \in {"split", "find", "bind"}
      <3>1. \A s \in StepType : s.kind \in {"split", "find", "bind"}
        BY DEF StepType, BindType
      <3> QED  BY <3>1, <2>1
    <2>4. system \in System
      BY <2>1, SystemType
    <2> QED  BY <2>1, <2>2, <2>3, <2>4 DEF TypeOK, CoreType, Assignment
  <1> QED
    BY <1>1, ScopesInductive, PTL

\* The smallest of some finite sets.
LEMMA Smallest ==
    ASSUME NEW S, IsFiniteSet(S), NEW B \in SUBSET SUBSET S, B # {}
    PROVE  \E s \in B : \A t \in B : Cardinality(s) <= Cardinality(t)
  <1> DEFINE N == {Cardinality(s) : s \in B}
  <1>1. \A s \in SUBSET S : Cardinality(s) \in Nat
    BY FS_Subset, FS_CardinalityType
  <1>2. N \in SUBSET Nat /\ N # {}
    BY <1>1
  <1> HIDE DEF N
  <1>3. PICK n \in N : \A m \in N : n <= m
    BY <1>2, Least
  <1> QED
    BY <1>3 DEF N

\* Any element may be the one that is added last.
Sums(f, S, it) ==
    /\ it[{}] = 0
    /\ \A s \in SUBSET S : it[s] \in Nat
    /\ \A s \in SUBSET S : \A x \in s : it[s] = f[x] + it[s \ {x}]

LEMMA SumElement ==
    ASSUME NEW S, IsFiniteSet(S), NEW f \in [S -> Nat], NEW it, Summing(f, SUBSET S, it)
    PROVE  Sums(f, S, it)
  <1>1. \A s \in SUBSET S : it[s] = IF s = {} THEN 0 ELSE f[Picked(s)] + it[s \ {Picked(s)}]
    BY Zenon DEF Summing
  <1>2. it[{}] = 0
    BY <1>1
  <1>3. ASSUME NEW B \in SUBSET SUBSET S, B # {}
        PROVE  \E s \in B : \A t \in SUBSET S : Cardinality(t) < Cardinality(s) => t \notin B
    <2>1. PICK s \in B : \A t \in B : Cardinality(s) <= Cardinality(t)
      BY <1>3, Smallest
    <2>2. \A t \in SUBSET S : Cardinality(t) \in Nat
      BY FS_Subset, FS_CardinalityType
    <2> QED  BY <2>1, <2>2
  <1>4. \A s \in SUBSET S : \A x \in s : /\ s \ {x} \in SUBSET S /\ x \in S
                                         /\ Cardinality(s \ {x}) < Cardinality(s)
    <2>1. TAKE s \in SUBSET S
    <2>2. TAKE x \in s
    <2>3. IsFiniteSet(s) /\ Cardinality(s) \in Nat
      BY FS_Subset, FS_CardinalityType
    <2>4. Cardinality(s \ {x}) = Cardinality(s) - 1
      BY <2>3, FS_RemoveElement
    <2> QED  BY <2>3, <2>4
  <1>5. \A s \in SUBSET S : it[s] \in Nat
    <2> DEFINE B == {s \in SUBSET S : it[s] \notin Nat}
    <2> SUFFICES ASSUME B # {} PROVE FALSE
      OBVIOUS
    <2>1. PICK s \in B : \A t \in SUBSET S : Cardinality(t) < Cardinality(s) => t \notin B
      <3>1. B \in SUBSET SUBSET S
        OBVIOUS
      <3> HIDE DEF B
      <3> QED  BY <3>1, <1>3
    <2>2. s # {} /\ s \in SUBSET S /\ it[s] = f[Picked(s)] + it[s \ {Picked(s)}]
      BY <1>1, <1>2, <2>1
    <2>3. Picked(s) \in s
      BY <2>2 DEF Picked
    <2>4. it[s \ {Picked(s)}] \in Nat /\ f[Picked(s)] \in Nat
      BY <2>1, <2>2, <2>3, <1>4
    <2> QED  BY <2>1, <2>2, <2>4
  <1>6. \A s \in SUBSET S : \A x \in s : it[s] = f[x] + it[s \ {x}]
    <2> DEFINE B == {s \in SUBSET S : \E x \in s : it[s] # f[x] + it[s \ {x}]}
    <2> SUFFICES ASSUME B # {} PROVE FALSE
      OBVIOUS
    <2>1. PICK s \in B : \A t \in SUBSET S : Cardinality(t) < Cardinality(s) => t \notin B
      <3>1. B \in SUBSET SUBSET S
        OBVIOUS
      <3> HIDE DEF B
      <3> QED  BY <3>1, <1>3
    <2>2. PICK x \in s : it[s] # f[x] + it[s \ {x}]
      BY <2>1
    <2> DEFINE p == Picked(s)
    <2>3. p \in s /\ s \in SUBSET S /\ it[s] = f[p] + it[s \ {p}]
      BY <1>1, <2>1, <2>2 DEF Picked
    <2>4. p # x
      BY <2>2, <2>3
    <2> HIDE DEF p
    <2>5. /\ s \ {p} \in SUBSET S /\ s \ {p} \notin B /\ x \in s \ {p}
          /\ s \ {x} \in SUBSET S /\ s \ {x} \notin B /\ p \in s \ {x}
      <3>1. /\ s \ {p} \in SUBSET S /\ Cardinality(s \ {p}) < Cardinality(s)
            /\ s \ {x} \in SUBSET S /\ Cardinality(s \ {x}) < Cardinality(s)
        BY <2>2, <2>3, <1>4
      <3> QED  BY <3>1, <2>1, <2>2, <2>3, <2>4
    <2>6. it[s \ {p}] = f[x] + it[(s \ {p}) \ {x}] /\ it[s \ {x}] = f[p] + it[(s \ {x}) \ {p}]
      BY <2>5
    <2>7. (s \ {p}) \ {x} = (s \ {x}) \ {p} /\ (s \ {p}) \ {x} \in SUBSET S
      BY <2>3
    <2>8. f[x] \in Nat /\ f[p] \in Nat /\ it[(s \ {p}) \ {x}] \in Nat
      BY <2>2, <2>3, <2>7, <1>4, <1>5
    <2> HIDE DEF B
    <2>9. it[s] = f[p] + (f[x] + it[(s \ {p}) \ {x}])
      BY <2>3, <2>6
    <2>10. it[s] # f[x] + (f[p] + it[(s \ {p}) \ {x}])
      BY <2>2, <2>6, <2>7
    <2> QED  BY <2>8, <2>9, <2>10
  <1> QED
    BY <1>2, <1>5, <1>6 DEF Sums

\* A sum grows with its set, and that of two sets is the sum of theirs.
Additive(f, S, it) ==
    /\ \A U, V \in SUBSET S : U \intersect V = {} => it[U \union V] = it[U] + it[V]
    /\ \A U, V \in SUBSET S : U \subseteq V => it[U] <= it[V]
    /\ \A x \in S : it[{x}] = f[x]

LEMMA SumUnion ==
    ASSUME NEW S, IsFiniteSet(S), NEW f \in [S -> Nat], NEW it, Summing(f, SUBSET S, it)
    PROVE  Additive(f, S, it)
  <1>1. /\ it[{}] = 0 /\ \A s \in SUBSET S : it[s] \in Nat
        /\ \A s \in SUBSET S : \A x \in s : it[s] = f[x] + it[s \ {x}]
    <2>1. Sums(f, S, it)
      BY SumElement
    <2> QED  BY <2>1 DEF Sums
  <1>2. ASSUME NEW U \in SUBSET S
        PROVE  \A V \in SUBSET S : U \intersect V = {} => it[U \union V] = it[U] + it[V]
    <2> DEFINE B == {V \in SUBSET S : U \intersect V = {} /\ it[U \union V] # it[U] + it[V]}
    <2> SUFFICES ASSUME B # {} PROVE FALSE
      OBVIOUS
    <2>1. PICK V \in B : \A t \in B : Cardinality(V) <= Cardinality(t)
      <3>1. B \in SUBSET SUBSET S
        OBVIOUS
      <3> HIDE DEF B
      <3> QED  BY <3>1, Smallest
    <2>2. it[U] \in Nat /\ V \in SUBSET S /\ U \intersect V = {} /\ it[U \union V] # it[U] + it[V]
      BY <1>1, <2>1
    <2>3. V # {}
      <3> SUFFICES ASSUME V = {} PROVE FALSE
        OBVIOUS
      <3>1. U \union V = U /\ it[V] = 0
        BY <1>1
      <3> QED  BY <3>1, <2>2
    <2>4. PICK x \in V : TRUE
      BY <2>3
    <2> DEFINE W == V \ {x}
    <2>5. W \in SUBSET S /\ W \notin B
      <3>1. IsFiniteSet(V) /\ Cardinality(V) \in Nat
        BY <2>2, FS_Subset, FS_CardinalityType
      <3>2. Cardinality(W) = Cardinality(V) - 1
        BY <2>4, <3>1, FS_RemoveElement
      <3>3. W \in SUBSET S
        BY <2>2
      <3> HIDE DEF W, B
      <3> QED  BY <3>1, <3>2, <3>3, <2>1
    <2>6. it[U \union W] = it[U] + it[W]
      BY <2>2, <2>5
    <2>7. (U \union V) \ {x} = U \union W /\ x \in U \union V /\ U \union V \in SUBSET S /\ x \in S
      BY <2>2, <2>4
    <2>8. it[U \union V] = f[x] + it[U \union W] /\ it[V] = f[x] + it[W]
      BY <1>1, <2>2, <2>7, ZenonT(30)
    <2>9. f[x] \in Nat /\ it[W] \in Nat
      BY <1>1, <2>5, <2>7
    <2> HIDE DEF W, B
    <2> QED  BY <2>2, <2>6, <2>8, <2>9
  <1>3. ASSUME NEW U \in SUBSET S, NEW V \in SUBSET S, U \subseteq V
        PROVE  it[U] <= it[V]
    <2>1. V = U \union (V \ U) /\ U \intersect (V \ U) = {} /\ V \ U \in SUBSET S
      BY <1>3
    <2>2. it[V] = it[U] + it[V \ U]
      BY <2>1, <1>2
    <2>3. it[U] \in Nat /\ it[V \ U] \in Nat
      BY <2>1, <1>1
    <2> QED  BY <2>2, <2>3
  <1>4. ASSUME NEW x \in S PROVE it[{x}] = f[x]
    <2>1. {x} \in SUBSET S /\ {x} \ {x} = {} /\ f[x] \in Nat
      OBVIOUS
    <2>2. it[{x}] = f[x] + it[{x} \ {x}]
      BY <2>1, <1>1
    <2>3. it[{x} \ {x}] = 0
      BY <2>1, <1>1
    <2> QED  BY <2>1, <2>2, <2>3
  <1> QED
    BY <1>2, <1>3, <1>4 DEF Additive

\* What sums a part of a function.
LEMMA SumPart ==
    ASSUME NEW S, IsFiniteSet(S), NEW f \in [S -> Nat], NEW it, Summing(f, SUBSET S, it),
           NEW V \in SUBSET S, NEW g \in [V -> Nat], \A v \in V : g[v] = f[v]
    PROVE  SumFunction(g) = it[V]
  <1>1. IsFiniteSet(V) /\ g \in [V -> Nat] /\ DOMAIN g = V
    BY FS_Subset
  <1>3. PICK jt : Summing(g, SUBSET V, jt) /\ SumFunction(g) = jt[V]
    BY <1>1, SumFacts
  <1>4. /\ it[{}] = 0 /\ \A s \in SUBSET S : it[s] \in Nat
        /\ \A s \in SUBSET S : \A x \in s : it[s] = f[x] + it[s \ {x}]
    <2>1. Sums(f, S, it)
      BY SumElement
    <2> QED  BY <2>1 DEF Sums
  <1>5. /\ jt[{}] = 0 /\ \A s \in SUBSET V : \A x \in s : jt[s] = g[x] + jt[s \ {x}]
    <2>1. Sums(g, V, jt)
      BY <1>1, <1>3, SumElement
    <2> QED  BY <2>1 DEF Sums
  <1> DEFINE B == {s \in SUBSET V : jt[s] # it[s]}
  <1>6. B = {}
    <2> SUFFICES ASSUME B # {} PROVE FALSE
      OBVIOUS
    <2>1. PICK s \in B : \A t \in B : Cardinality(s) <= Cardinality(t)
      <3>1. B \in SUBSET SUBSET V
        OBVIOUS
      <3> HIDE DEF B
      <3> QED  BY <3>1, <1>1, Smallest
    <2>2. s \in SUBSET V /\ jt[s] # it[s] /\ s # {}
      BY <1>4, <1>5, <2>1
    <2>3. PICK x \in s : TRUE
      BY <2>2
    <2>4. s \ {x} \in SUBSET V /\ s \ {x} \notin B
      <3>1. IsFiniteSet(s) /\ Cardinality(s) \in Nat
        BY <1>1, <2>2, FS_Subset, FS_CardinalityType
      <3>2. Cardinality(s \ {x}) = Cardinality(s) - 1
        BY <3>1, FS_RemoveElement
      <3> QED  BY <3>1, <3>2, <2>1, <2>2
    <2>5. jt[s] = g[x] + jt[s \ {x}] /\ it[s] = f[x] + it[s \ {x}]
      BY <1>4, <1>5, <2>2
    <2> QED  BY <2>2, <2>4, <2>5
  <1>7. jt[V] = it[V]
    BY <1>6
  <1> QED
    BY <1>3, <1>7

-----------------------------------------------------------------------------
(* What choices cost.                                                      *)

\* A choice of inferred bindings, or of the last resort, that satisfies every
\* constraint.
Chosen(last) ==
    {w \in [Var -> Type] :
        /\ Consistent(w)
        /\ \A v \in Var : w[v] \in IF last THEN LastCandidates(v) ELSE Candidates(v)}

\* What the choice w costs for the variables V.
Charge(w, V) == SumFunction([v \in V |-> Cost(v, w[v])])

LEMMA ScoreFacts ==
    ASSUME system \in Systems, NEW v \in Var, NEW t \in Type
    PROVE  /\ Score(v, t) \in Nat
           /\ \A i \in DOMAIN system.bindings[v] :
                 system.bindings[v][i].type = t => Score(v, t) = system.bindings[v][i].score
  <1> DEFINE I == {i \in DOMAIN system.bindings[v] : system.bindings[v][i].type = t}
  <1>1. \A i \in DOMAIN system.bindings[v] : system.bindings[v][i].score \in Nat
    <2>1. system.bindings[v] \in Seq(Binding)
      BY SystemType
    <2>2. \A i \in DOMAIN system.bindings[v] : system.bindings[v][i] \in Binding
      BY <2>1
    <2> QED  BY <2>2 DEF Binding
  <1>2. Score(v, t) = IF I = {} THEN AnyScore ELSE system.bindings[v][CHOOSE i \in I : TRUE].score
    BY DEF Score
  <1>3. \A i, j \in I : i = j
    BY SystemParts
  <1>4. \A i \in I : Score(v, t) = system.bindings[v][i].score
    <2>1. TAKE i \in I
    <2>2. (CHOOSE j \in I : TRUE) \in I
      OBVIOUS
    <2>3. (CHOOSE j \in I : TRUE) = i
      BY <1>3, <2>2
    <2> QED  BY <1>2, <2>3
  <1>5. Score(v, t) \in Nat
    <2>1. CASE I = {}
      BY <2>1, <1>2 DEF AnyScore
    <2>2. CASE I # {}
      BY <2>2, <1>1, <1>4
    <2> QED  BY <2>1, <2>2
  <1> QED
    BY <1>4, <1>5

\* Costs add up.
Charges(w) ==
    /\ \A V \in SUBSET Var : Charge(w, V) \in Nat
    /\ \A U, V \in SUBSET Var :
          U \intersect V = {} => Charge(w, U \union V) = Charge(w, U) + Charge(w, V)
    /\ \A U, V \in SUBSET Var : U \subseteq V => Charge(w, U) <= Charge(w, V)
    /\ \A v \in Var : Charge(w, {v}) = Cost(v, w[v])
    /\ Charge(w, {}) = 0

LEMMA ChargeFacts ==
    ASSUME system \in Systems, NEW w \in [Var -> Type]
    PROVE  Charges(w)
  <1> DEFINE f == [v \in Var |-> Cost(v, w[v])]
  <1>1. f \in [Var -> Nat] /\ \A v \in Var : f[v] = Cost(v, w[v])
    <2>1. \A v \in Var : Cost(v, w[v]) \in Nat
      BY ScoreFacts DEF Cost
    <2> QED  BY <2>1
  <1> HIDE DEF f
  <1>3. PICK it : Summing(f, SUBSET Var, it)
    BY SummingExists, Constants
  <1>4. \A V \in SUBSET Var : Charge(w, V) = it[V]
    <2>0. TAKE V \in SUBSET Var
    <2> DEFINE g == [v \in V |-> Cost(v, w[v])]
    <2>1. g \in [V -> Nat] /\ \A v \in V : g[v] = f[v]
      BY <1>1
    <2>2. Charge(w, V) = SumFunction(g)
      BY DEF Charge
    <2> HIDE DEF g
    <2>3. SumFunction(g) = it[V]
      <3>1. IsFiniteSet(Var)
        BY Constants
      <3>2. f \in [Var -> Nat]
        BY <1>1
      <3>3. V \in SUBSET Var /\ g \in [V -> Nat] /\ \A v \in V : g[v] = f[v]
        BY <2>1
      <3>4. Summing(f, SUBSET Var, it)
        BY <1>3
      <3> QED  BY ONLY <3>1, <3>2, <3>3, <3>4, SumPart, SMTT(30)
    <2> QED  BY <2>2, <2>3
  <1>5. Sums(f, Var, it)
    BY <1>1, <1>3, Constants, SumElement
  <1>6. /\ it[{}] = 0 /\ \A V \in SUBSET Var : it[V] \in Nat
    BY <1>5 DEF Sums
  <1>0. Additive(f, Var, it)
    BY <1>1, <1>3, Constants, SumUnion
  <1>7. \A U, V \in SUBSET Var : U \intersect V = {} => it[U \union V] = it[U] + it[V]
    BY <1>0 DEF Additive
  <1>8. \A U, V \in SUBSET Var : U \subseteq V => it[U] <= it[V]
    BY <1>0 DEF Additive
  <1>9. \A v \in Var : it[{v}] = f[v]
    BY <1>0 DEF Additive
  <1>10. \A v \in Var : Charge(w, {v}) = Cost(v, w[v])
    BY <1>1, <1>4, <1>9
  <1>11. Charge(w, {}) = 0
    BY <1>4, <1>6
  <1>12. \A U, V \in SUBSET Var : U \union V \in SUBSET Var
    OBVIOUS
  <1>13. \A U, V \in SUBSET Var :
            U \intersect V = {} => Charge(w, U \union V) = Charge(w, U) + Charge(w, V)
    BY <1>4, <1>7, <1>12
  <1>14. \A U, V \in SUBSET Var : U \subseteq V => Charge(w, U) <= Charge(w, V)
    BY <1>4, <1>8
  <1>15. \A V \in SUBSET Var : Charge(w, V) \in Nat
    BY <1>4, <1>6
  <1> QED
    BY <1>10, <1>11, <1>13, <1>14, <1>15 DEF Charges

LEMMA ChosenFacts ==
    ASSUME system \in Systems
    PROVE  /\ Chosen(FALSE) \subseteq Chosen(TRUE)
           /\ \A last \in BOOLEAN : \A w \in Chosen(last) :
                 /\ w \in [Var -> Type] /\ Consistent(w)
                 /\ \A v \in Var : system.direct[v] # Unbound => w[v] = system.direct[v]
  <1>1. \A v \in Var : Candidates(v) \subseteq LastCandidates(v)
    BY DEF LastCandidates
  <1>2. \A v \in Var : system.direct[v] # Unbound =>
           Candidates(v) = {system.direct[v]} /\ LastCandidates(v) = {system.direct[v]}
    BY DEF Candidates, LastCandidates
  <1> QED
    BY <1>1, <1>2 DEF Chosen

-----------------------------------------------------------------------------
(* Levels: what is bound in a scope, its score, and the best one known     *)
(* there.  A step leaves those of the scopes around it alone.              *)

Level(c, sc, n) ==
    [assignment |-> AtLevel(c, ChangesIn(c, sc, n)), score |-> ScoreAt(c, sc, n),
     best |-> IF n < Len(sc) THEN sc[n + 1].best ELSE c.best]

Now(c) == [assignment |-> c.assignment, score |-> c.score, best |-> c.best]

LEMMA TopIs ==
    ASSUME NEW c, NEW sc, NEW w, Chain(c, sc, w)
    PROVE  /\ Level(c, sc, Len(sc)) = Now(c)
           /\ Len(sc) \in Nat /\ Len(sc) >= 1
  <1>1. c \in CoreType /\ LogExact(c) /\ sc \in Seq(ScopeType) /\ sc # <<>>
    BY DEF Chain, ScopesFit
  <1>2. Len(sc) \in Nat /\ Len(sc) >= 1
    BY <1>1
  <1>3. AtLevel(c, Len(c.changes)) = c.assignment
    BY <1>1, TopLevel
  <1>4. ChangesIn(c, sc, Len(sc)) = Len(c.changes) /\ ScoreAt(c, sc, Len(sc)) = c.score
    BY <1>2 DEF ChangesIn, ScoreAt
  <1> QED
    BY <1>2, <1>3, <1>4 DEF Level, Now

LEMMA LevelFacts ==
    ASSUME NEW c, NEW sc, NEW w, Chain(c, sc, w), NEW m \in 1..Len(sc)
    PROVE  /\ Level(c, sc, m).score \in Nat
           /\ Level(c, sc, m).best \in Nat \union {Infinity}
           /\ Level(c, sc, m).assignment \in Assignment
           /\ \A v \in Var : Level(c, sc, m).assignment[v] \in {c.assignment[v], Unbound}
           /\ Level(c, sc, 1).score = 0
  <1>1. c \in CoreType /\ sc \in Seq(ScopeType) /\ Len(sc) \in Nat /\ ScoreAt(c, sc, 1) = 0
    BY DEF Chain, ScopesFit
  <1>2. m < Len(sc) => sc[m + 1] \in ScopeType
    BY <1>1
  <1>3. ScoreAt(c, sc, m) \in Nat
    BY <1>1, <1>2 DEF ScoreAt, CoreType, ScopeType
  <1>4. (IF m < Len(sc) THEN sc[m + 1].best ELSE c.best) \in Nat \union {Infinity}
    BY <1>1, <1>2 DEF CoreType, ScopeType
  <1>5. c.assignment \in Assignment
    BY <1>1 DEF CoreType
  <1>6. \A k : AtLevel(c, k) \in Assignment /\ \A v \in Var : AtLevel(c, k)[v] \in {c.assignment[v], Unbound}
    BY <1>5 DEF AtLevel, Assignment
  <1> QED
    BY <1>1, <1>3, <1>4, <1>6 DEF Level

\* The levels of c in the scopes sc are those of d in sd, up to the n-th.
LevelsSame(d, sd, c, sc, n) ==
    \A m \in 1..n : Level(d, sd, m) = Level(c, sc, m)

\* Where a step on w runs, it runs without the step on top.
Stays(w, n, k) ==
    \A j \in 1..(Len(w) - 1), m \in 1..n : At(w, j, m) => m <= k /\ At(Front(w), j, m)

\* The top step of w runs in the k-th scope of n.
TopRuns(w, n, k) == \A m \in 1..n : At(w, Len(w), m) => m = k

\* A step without an open scope runs in the last one.
LEMMA ClosedTop ==
    ASSUME NEW c, NEW sc, NEW w, Chain(c, sc, w), w # <<>>, Len(w) \notin Open(w)
    PROVE  TopRuns(w, Len(sc), Len(sc))
  <1>1. /\ w \in Seq(StepType) /\ Len(w) \in Nat /\ Len(sc) \in Nat /\ GuessesFit(c, sc, w)
    BY DEF Chain, ScopesFit
  <1> SUFFICES ASSUME NEW m \in 1..Len(sc), At(w, Len(w), m), m # Len(sc) PROVE FALSE
    BY DEF TopRuns
  <1>2. Len(sc) \in 2..Len(sc) /\ m < Len(sc)
    BY <1>1
  <1>3. PICK i \in Open(w) : w[i].scope = Len(sc)
    BY <1>1, <1>2 DEF GuessesFit
  <1>4. i < Len(w)
    BY <1>1, <1>3 DEF Open
  <1> QED
    BY <1>2, <1>3, <1>4 DEF At

LEMMA GiveUpLevels ==
    ASSUME NEW c, NEW sc, NEW w, Chain(c, sc, w), w # <<>>, Last(w).kind = "bind",
           NEW d, d = Given(c, sc, Last(w)), NEW sd, sd = Around(sc, Last(w))
    PROVE  /\ Len(sd) \in 1..Len(sc) /\ Len(sc) \in Nat
           /\ LevelsSame(d, sd, c, sc, Len(sd))
           /\ Stays(w, Len(sc), Len(sd))
           /\ TopRuns(w, Len(sc), Len(sd))
  <1> DEFINE L == Len(w)
             s == w[L]
             K == Len(sc)
             t == [s EXCEPT !.scope = 0]
  <1>1. /\ c \in CoreType /\ LogExact(c) /\ w \in Seq(StepType) /\ ScopesFit(c, sc)
        /\ GuessesFit(c, sc, w)
    BY DEF Chain
  <1>2. /\ L \in Nat /\ L >= 1 /\ DOMAIN w = 1..L /\ Last(w) = s /\ s \in StepType
        /\ s.kind = "bind" /\ s \in BindType /\ s.scope \in Nat
    <2>1. L \in Nat /\ L >= 1 /\ DOMAIN w = 1..L /\ Last(w) = s /\ s \in StepType
      BY <1>1 DEF Last
    <2> QED  BY <2>1, StepFields
  <1>3. /\ sc \in Seq(ScopeType) /\ K \in Nat /\ K >= 1 /\ DOMAIN sc = 1..K
    BY <1>1 DEF ScopesFit
  <1>0. K \in Nat /\ K >= 1 /\ \A m \in 1..K : m <= K - 1 \/ m = K
    <2>1. K \in Nat /\ K >= 1
      BY <1>3
    <2> HIDE DEF K
    <2> QED  BY <2>1
  <1>4. t \in StepType /\ t.kind = "bind" /\ t.var = s.var /\ t.scope = 0
    BY <1>2 DEF StepType, BindType
  <1>5. /\ Front(w) \in Seq(StepType) /\ Len(Front(w)) = L - 1 /\ DOMAIN Front(w) = 1..(L - 1)
        /\ \A i \in 1..(L - 1) : Front(w)[i] = w[i]
    <2>1. /\ Front(w) \in Seq(StepType) /\ Len(Front(w)) = L - 1
          /\ \A i \in 1..(L - 1) : Front(w)[i] = w[i]
      BY <1>1, Replaced
    <2> QED  BY <2>1, <1>2
  <1>6. \A i \in Open(Front(w)) : i \in Open(w) /\ Front(w)[i] = w[i] /\ i \in 1..(L - 1)
    BY <1>2, <1>5 DEF Open
  <1>7. \A j, m : At(w, j, m) => At(Front(w), j, m)
    BY <1>6 DEF At
  <1>8. \A i \in Open(w) : w[i].scope \in 2..K /\ i \in 1..L
    BY <1>1, <1>2 DEF GuessesFit, Open
  <1>9. /\ \A n \in 1..Len(sd) : /\ ChangesIn(d, sd, n) = ChangesIn(c, sc, n)
                                 /\ AtLevel(d, ChangesIn(c, sc, n)) = AtLevel(c, ChangesIn(c, sc, n))
    <2>1. /\ t \in StepType /\ t.kind = "bind" /\ t.var = Last(w).var /\ t.scope = 0
      BY <1>2, <1>4
    <2> HIDE DEF t
    <2>2. \A n \in 1..Len(Around(sc, Last(w))) :
                 /\ ChangesIn(Given(c, sc, Last(w)), Around(sc, Last(w)), n) = ChangesIn(c, sc, n)
                 /\ AtLevel(Given(c, sc, Last(w)), ChangesIn(c, sc, n))
                       = AtLevel(c, ChangesIn(c, sc, n))
      BY <2>1, GiveUp
    <2> QED  BY <2>2
  <1>10. CASE s.scope = 0
    <2>1. d = c /\ sd = sc
      BY <1>2, <1>10 DEF Given, Around
    <2>2. L \notin Open(w)
      BY <1>10 DEF Open
    <2>3. LevelsSame(d, sd, c, sc, Len(sd))
      BY <2>1 DEF LevelsSame
    <2>4. \A m \in 1..K : m <= K
      BY <1>3
    <2>5. TopRuns(w, K, K)
      BY <2>2, <1>2, ClosedTop
    <2> QED  BY <2>1, <2>3, <2>4, <2>5, <1>3, <1>7 DEF Stays
  <1>11. CASE s.scope # 0
    <2>1. L \in Open(w)
      BY <1>2, <1>11 DEF Open
    <2>2. s.scope = K /\ K >= 2
      BY <2>1, <1>2, TopOpen
    <2>3. /\ d = Left(c, sc[K]) /\ sd = SubSeq(sc, 1, K - 1)
      BY <1>2, <1>11, <2>2 DEF Given, Around
    <2>4. /\ Len(sd) = K - 1 /\ \A n \in 1..(K - 1) : sd[n] = sc[n]
      <3>1. K - 1 \in 0..K
        BY <1>3, <2>2
      <3> QED  BY <3>1, <2>3, <1>3, SubSequence
    <2>5. d.score = sc[K].score /\ d.best = sc[K].best
      BY <2>3 DEF Left
    <2>6. LevelsSame(d, sd, c, sc, K - 1)
      <3> SUFFICES ASSUME NEW m \in 1..(K - 1) PROVE Level(d, sd, m) = Level(c, sc, m)
        BY DEF LevelsSame
      <3>1. ScoreAt(d, sd, m) = sc[m + 1].score /\ (IF m < Len(sd) THEN sd[m + 1].best ELSE d.best) = sc[m + 1].best
        <4>1. CASE m < K - 1
          <5>1. m + 1 \in 1..(K - 1)
            BY <4>1, <1>3
          <5> QED  BY <5>1, <4>1, <2>4 DEF ScoreAt
        <4>2. CASE m = K - 1
          <5>1. m + 1 = K
            BY <4>2, <1>3
          <5> QED  BY <5>1, <4>2, <2>4, <2>5, <1>3 DEF ScoreAt
        <4> QED  BY <4>1, <4>2, <1>3
      <3>2. ScoreAt(c, sc, m) = sc[m + 1].score /\ m < K
        BY <1>3 DEF ScoreAt
      <3>3. ChangesIn(d, sd, m) = ChangesIn(c, sc, m)
            /\ AtLevel(d, ChangesIn(c, sc, m)) = AtLevel(c, ChangesIn(c, sc, m))
        BY <1>9, <2>4
      <3> QED  BY <3>1, <3>2, <3>3 DEF Level
    <2>7. \A j \in 1..L, m \in 1..K : At(w, j, m) => m <= K - 1
      <3>1. TAKE j \in 1..L, m \in 1..K
      <3>2. At(w, j, m) => w[L].scope > m
        BY <2>1, <1>2 DEF At
      <3> QED  BY <3>2, <2>2, <1>3
    <2>8. TopRuns(w, K, K - 1)
      <3>1. ASSUME NEW m \in 1..K, At(w, L, m), m < K - 1 PROVE FALSE
        <4>0. m \in Int /\ m >= 1
          OBVIOUS
        <4>1. K - 1 \in 2..K /\ K - 1 # K
          <5> HIDE DEF K
          <5> QED  BY <4>0, <3>1, <2>2, <1>0
        <4>2. PICK i \in Open(w) : w[i].scope = K - 1
          BY <4>1, <1>1 DEF GuessesFit
        <4>3. i < L
          BY <4>1, <4>2, <2>2, <1>2, <1>8
        <4> QED  BY <4>2, <4>3, <3>1, <1>3 DEF At
      <3>2. L \in 1..L
        BY <1>2
      <3>3. \A m \in 1..K : m <= K - 1 => m < K - 1 \/ m = K - 1
        <4> HIDE DEF K
        <4> QED  BY <1>0
      <3>4. \A m \in 1..K : At(w, L, m) => m <= K - 1
        BY <3>2, <2>7
      <3> QED  BY <3>1, <3>3, <3>4 DEF TopRuns
    <2>9. Stays(w, K, K - 1)
      <3>1. \A j \in 1..(L - 1) : j \in 1..L
        BY <1>2
      <3> QED  BY <3>1, <2>7, <1>7 DEF Stays
    <2>10. K - 1 \in 1..K
      BY <2>2, <1>3
    <2> QED  BY <2>4, <2>6, <2>8, <2>9, <2>10, <1>3
  <1> QED
    BY <1>10, <1>11

LEMMA DeeperLevels ==
    ASSUME NEW c, NEW sc, NEW w, Chain(c, sc, w), NEW d, NEW v,
           Deepened(c, sc, w, d, Append(sc, Scope(c)), v)
    PROVE  LevelsSame(d, Append(sc, Scope(c)), c, sc, Len(sc))
  <1> DEFINE sd == Append(sc, Scope(c))
  <1>1. sc \in Seq(ScopeType) /\ Len(sc) \in Nat
    BY DEF Chain, ScopesFit
  <1>2. /\ Len(sd) = Len(sc) + 1 /\ \A n \in 1..Len(sc) : sd[n] = sc[n]
        /\ sd[Len(sc) + 1] = Scope(c)
    BY <1>1
  <1>3. Scope(c).score = c.score /\ Scope(c).best = c.best
    BY DEF Scope
  <1> HIDE DEF sd
  <1> SUFFICES ASSUME NEW m \in 1..Len(sc) PROVE Level(d, sd, m) = Level(c, sc, m)
    BY DEF LevelsSame, sd
  <1>4. ChangesIn(d, sd, m) = ChangesIn(c, sc, m)
        /\ AtLevel(d, ChangesIn(c, sc, m)) = AtLevel(c, ChangesIn(c, sc, m))
    BY DEF Deepened, sd
  <1>5. m < Len(sd)
    BY <1>1, <1>2
  <1>6. CASE m < Len(sc)
    <2>1. m + 1 \in 1..Len(sc)
      BY <1>1, <1>6
    <2>2. sd[m + 1] = sc[m + 1]
      BY <2>1, <1>2
    <2> QED  BY <2>2, <1>4, <1>5, <1>6 DEF Level, ScoreAt
  <1>7. CASE m = Len(sc)
    <2>1. ~(m < Len(sc)) /\ sd[m + 1] = Scope(c)
      BY <1>1, <1>2, <1>7
    <2> QED  BY <2>1, <1>3, <1>4, <1>5 DEF Level, ScoreAt
  <1> QED
    BY <1>1, <1>6, <1>7

-----------------------------------------------------------------------------
(* Choices that are still to be found.                                     *)

BoundBy(a) == {v \in Var : a[v] # Unbound}

\* What is bound in a scope can be completed to w, and costs no more so far.
OnTrack(l, n, w, last) ==
    /\ Agrees(l.assignment, w)
    /\ last \/ l.score <= Charge(w, BoundBy(l.assignment) \intersect Members(system, n))

\* The step s of the n-th component is still to find the choice w.
Pending(s, n, w, last) ==
    /\ s.kind # "split" /\ s.component = n
    /\ s.kind = "bind" =>
          \/ \E i \in s.bindings : system.bindings[s.var][i].type = w[s.var]
          \/ last /\ s.followup /\ w[s.var] = AnyType

Hope(c, sc, q, n, w, last) ==
    \E j \in DOMAIN q, m \in 1..Len(sc) :
        At(q, j, m) /\ OnTrack(Level(c, sc, m), n, w, last) /\ Pending(q[j], n, w, last)

\* It is, unless it was the top step that did.
LEMMA HopeMoves ==
    ASSUME NEW c, NEW sc, NEW q \in Seq(StepType), q # <<>>, NEW d, NEW sd,
           Len(sd) \in 1..Len(sc), LevelsSame(d, sd, c, sc, Len(sd)),
           Stays(q, Len(sc), Len(sd)), TopRuns(q, Len(sc), Len(sd)),
           Level(d, sd, Len(sd)) = Now(d),
           NEW n, NEW w, NEW last, Hope(c, sc, q, n, w, last)
    PROVE  \/ Hope(d, sd, Front(q), n, w, last)
           \/ OnTrack(Now(d), n, w, last) /\ Pending(Last(q), n, w, last)
  <1>1. PICK j \in DOMAIN q, m \in 1..Len(sc) :
            At(q, j, m) /\ OnTrack(Level(c, sc, m), n, w, last) /\ Pending(q[j], n, w, last)
    BY DEF Hope
  <1>2. /\ Len(q) \in Nat /\ Len(q) >= 1 /\ Last(q) = q[Len(q)] /\ j \in 1..Len(q)
        /\ Front(q) \in Seq(StepType)
        /\ Len(Front(q)) = Len(q) - 1 /\ \A i \in 1..(Len(q) - 1) : Front(q)[i] = q[i]
    BY Replaced
  <1>3. CASE j = Len(q)
    <2>1. m = Len(sd) /\ m \in 1..Len(sd)
      BY <1>1, <1>3 DEF TopRuns
    <2>2. Level(c, sc, m) = Now(d)
      BY <2>1 DEF LevelsSame
    <2> QED  BY <2>2, <1>1, <1>2, <1>3
  <1>4. CASE j # Len(q)
    <2>1. j \in 1..(Len(q) - 1)
      BY <1>2, <1>4
    <2>2. m <= Len(sd) /\ At(Front(q), j, m)
      BY <2>1, <1>1 DEF Stays
    <2>3. m \in 1..Len(sd) /\ j \in DOMAIN Front(q) /\ Front(q)[j] = q[j]
      BY <2>1, <2>2, <1>2
    <2>4. Level(d, sd, m) = Level(c, sc, m)
      BY <2>3 DEF LevelsSame
    <2> QED  BY <2>2, <2>3, <2>4, <1>1 DEF Hope
  <1> QED
    BY <1>3, <1>4

LEMMA HopeLeft ==
    ASSUME NEW c, NEW sc, NEW q, Chain(c, sc, q), q # <<>>, Last(q).kind = "bind",
           NEW d, d = Given(c, sc, Last(q)), NEW sd, sd = Around(sc, Last(q)),
           NEW r, Chain(d, sd, r),
           NEW n, NEW w, NEW last, Hope(c, sc, q, n, w, last)
    PROVE  \/ Hope(d, sd, Front(q), n, w, last)
           \/ OnTrack(Now(d), n, w, last) /\ Pending(Last(q), n, w, last)
  <1>1. /\ Len(sd) \in 1..Len(sc) /\ LevelsSame(d, sd, c, sc, Len(sd))
        /\ Stays(q, Len(sc), Len(sd)) /\ TopRuns(q, Len(sc), Len(sd))
    BY GiveUpLevels
  <1>2. Level(d, sd, Len(sd)) = Now(d)
    BY TopIs
  <1>3. q \in Seq(StepType)
    BY DEF Chain
  <1> QED
    BY ONLY <1>1, <1>2, <1>3, q # <<>>, Hope(c, sc, q, n, w, last), HopeMoves

LEMMA HopeDropped ==
    ASSUME NEW c, NEW sc, NEW q, Chain(c, sc, q), q # <<>>, Len(q) \notin Open(q),
           NEW n, NEW w, NEW last, Hope(c, sc, q, n, w, last)
    PROVE  \/ Hope(c, sc, Front(q), n, w, last)
           \/ OnTrack(Now(c), n, w, last) /\ Pending(Last(q), n, w, last)
  <1>1. Level(c, sc, Len(sc)) = Now(c) /\ Len(sc) \in Nat /\ Len(sc) >= 1
    BY TopIs
  <1>2. q \in Seq(StepType) /\ Len(q) \in Nat
    BY DEF Chain
  <1>3. TopRuns(q, Len(sc), Len(sc))
    BY ClosedTop
  <1>4. Stays(q, Len(sc), Len(sc))
    <2>1. \A j, m \in Nat : At(Front(q), j, m) <=> At(q, j, m)
      BY Drop
    <2>2. \A j \in 1..(Len(q) - 1), m \in 1..Len(sc) : j \in Nat /\ m \in Nat /\ m <= Len(sc)
      BY <1>1, <1>2
    <2> QED  BY <2>1, <2>2 DEF Stays
  <1>5. LevelsSame(c, sc, c, sc, Len(sc)) /\ Len(sc) \in 1..Len(sc)
    BY <1>1 DEF LevelsSame
  <1> QED
    BY ONLY <1>1, <1>2, <1>3, <1>4, <1>5, q # <<>>, Hope(c, sc, q, n, w, last), HopeMoves

\* Steps that are put on the worklist do not change that, and may find it.
LEMMA HopePushed ==
    ASSUME NEW c, NEW sc, NEW q, Chain(c, sc, q), NEW g \in Seq(StepType),
           \A i \in DOMAIN g : g[i].kind = "bind" =>
                g[i].scope = 0 /\ c.assignment[g[i].var] = Unbound,
           NEW n, NEW w, NEW last
    PROVE  /\ Hope(c, sc, q, n, w, last) => Hope(c, sc, q \o g, n, w, last)
           /\ (/\ OnTrack(Now(c), n, w, last)
               /\ \E i \in DOMAIN g : Pending(g[i], n, w, last))
              => Hope(c, sc, q \o g, n, w, last)
  <1>1. Level(c, sc, Len(sc)) = Now(c) /\ Len(sc) \in Nat /\ Len(sc) >= 1
    BY TopIs
  <1>2. q \in Seq(StepType) /\ Len(q) \in Nat /\ Len(g) \in Nat
    BY DEF Chain
  <1>3. /\ \A j \in 1..Len(q), m \in Nat : At(q \o g, j, m) <=> At(q, j, m)
        /\ \A j \in Nat : j > Len(q) => At(q \o g, j, Len(sc))
    BY Push
  <1>4. /\ q \o g \in Seq(StepType) /\ Len(q \o g) = Len(q) + Len(g)
        /\ DOMAIN (q \o g) = 1..(Len(q) + Len(g))
        /\ \A i \in 1..Len(q) : (q \o g)[i] = q[i]
        /\ \A i \in 1..Len(g) : (q \o g)[Len(q) + i] = g[i]
    <2>1. q \o g \in Seq(StepType) /\ Len(q \o g) = Len(q) + Len(g)
      BY <1>2, Concatenation
    <2>2. \A i \in 1..Len(q) : (q \o g)[i] = q[i]
      BY <1>2, Concatenation
    <2>3. \A i \in 1..Len(g) : (q \o g)[Len(q) + i] = g[i]
      BY <1>2, Concatenation
    <2> QED  BY <2>1, <2>2, <2>3
  <1>5. ASSUME Hope(c, sc, q, n, w, last) PROVE Hope(c, sc, q \o g, n, w, last)
    <2>1. PICK j \in DOMAIN q, m \in 1..Len(sc) :
            At(q, j, m) /\ OnTrack(Level(c, sc, m), n, w, last) /\ Pending(q[j], n, w, last)
      BY <1>5 DEF Hope
    <2>2. j \in 1..Len(q) /\ m \in Nat /\ j \in DOMAIN (q \o g)
      BY <1>1, <1>2, <1>4
    <2>3. At(q \o g, j, m) /\ (q \o g)[j] = q[j]
      BY <2>1, <2>2, <1>3, <1>4
    <2> QED  BY <2>1, <2>2, <2>3 DEF Hope
  <1>6. ASSUME OnTrack(Now(c), n, w, last), NEW i \in DOMAIN g, Pending(g[i], n, w, last)
        PROVE  Hope(c, sc, q \o g, n, w, last)
    <2> DEFINE j == Len(q) + i
    <2>1. i \in 1..Len(g) /\ j \in Nat /\ j > Len(q) /\ j \in DOMAIN (q \o g)
      BY <1>2, <1>4
    <2>2. At(q \o g, j, Len(sc)) /\ (q \o g)[j] = g[i] /\ Len(sc) \in 1..Len(sc)
      BY <2>1, <1>1, <1>3, <1>4
    <2> HIDE DEF j
    <2> QED  BY <2>1, <2>2, <1>1, <1>6 DEF Hope
  <1> QED
    BY <1>5, <1>6

\* Nor does a guess in a new scope, where the choice may be found, too.
HopeKept(c, sc, q, d, sd, v, e, n, w, last) ==
    /\ Hope(c, sc, q, n, w, last) => Hope(d, sd, v, n, w, last)
    /\ (OnTrack(Now(c), n, w, last) /\ Pending(e, n, w, last)) => Hope(d, sd, v, n, w, last)
    /\ OnTrack(Now(d), n, w, last) => Hope(d, sd, v, n, w, last)

LEMMA HopeDeeper ==
    ASSUME NEW c, NEW sc, NEW q, Chain(c, sc, q), NEW d, NEW sd, sd = Append(sc, Scope(c)),
           NEW n, NEW e, NEW v, v = q \o <<e, Find(n)>>, Chain(d, sd, v),
           Deepened(c, sc, q, d, sd, v), NEW w, NEW last
    PROVE  HopeKept(c, sc, q, d, sd, v, e, n, w, last)
  <1>1. /\ Level(c, sc, Len(sc)) = Now(c) /\ Len(sc) \in Nat /\ Len(sc) >= 1
        /\ Level(d, sd, Len(sd)) = Now(d)
    BY TopIs
  <1>2. q \in Seq(StepType) /\ Len(q) \in Nat /\ sc \in Seq(ScopeType)
    BY DEF Chain, ScopesFit
  <1>3. LevelsSame(d, sd, c, sc, Len(sc))
    BY DeeperLevels
  <1>4. Len(sd) = Len(sc) + 1 /\ \A m \in 1..Len(sc) : m \in 1..Len(sd)
    <2>1. Len(sd) = Len(sc) + 1
      BY <1>2
    <2> QED  BY <2>1, <1>1
  <1>5. /\ DOMAIN v = 1..(Len(q) + 2) /\ \A i \in 1..Len(q) : v[i] = q[i]
        /\ v[Len(q) + 1] = e /\ v[Len(q) + 2] = Find(n)
    BY <1>2
  <1>6. /\ \A j \in 1..(Len(q) + 1), m \in 1..Len(sc) :
              At(v, j, m) <=> (IF j = Len(q) + 1 THEN m = Len(sc) ELSE At(q, j, m))
        /\ At(v, Len(q) + 2, Len(sc) + 1)
    BY DEF Deepened
  <1>7. ASSUME Hope(c, sc, q, n, w, last) PROVE Hope(d, sd, v, n, w, last)
    <2>1. PICK j \in DOMAIN q, m \in 1..Len(sc) :
            At(q, j, m) /\ OnTrack(Level(c, sc, m), n, w, last) /\ Pending(q[j], n, w, last)
      BY <1>7 DEF Hope
    <2>2. j \in 1..Len(q) /\ j \in 1..(Len(q) + 1) /\ j # Len(q) + 1 /\ j \in DOMAIN v
      BY <1>2, <1>5
    <2>3. At(v, j, m) /\ v[j] = q[j] /\ Level(d, sd, m) = Level(c, sc, m) /\ m \in 1..Len(sd)
      BY <2>1, <2>2, <1>3, <1>4, <1>5, <1>6 DEF LevelsSame
    <2> QED  BY <2>1, <2>2, <2>3 DEF Hope
  <1>8. ASSUME OnTrack(Now(c), n, w, last), Pending(e, n, w, last) PROVE Hope(d, sd, v, n, w, last)
    <2> DEFINE j == Len(q) + 1
    <2>1. j \in 1..(Len(q) + 1) /\ j \in DOMAIN v /\ v[j] = e /\ Len(sc) \in 1..Len(sc)
      BY <1>1, <1>2, <1>5
    <2>2. At(v, j, Len(sc)) /\ Level(d, sd, Len(sc)) = Now(c) /\ Len(sc) \in 1..Len(sd)
      BY <2>1, <1>1, <1>3, <1>4, <1>6 DEF LevelsSame
    <2> HIDE DEF j
    <2> QED  BY <2>1, <2>2, <1>8 DEF Hope
  <1>9. ASSUME OnTrack(Now(d), n, w, last) PROVE Hope(d, sd, v, n, w, last)
    <2> DEFINE j == Len(q) + 2
    <2>0. Len(sd) \in 1..Len(sd)
      BY <1>1, <1>4
    <2>1. j \in DOMAIN v /\ v[j] = Find(n) /\ At(v, j, Len(sd)) /\ Len(sd) \in 1..Len(sd)
      <3>1. j \in DOMAIN v /\ v[j] = Find(n)
        BY <1>2, <1>5
      <3>2. At(v, j, Len(sd))
        BY <1>4, <1>6
      <3> QED  BY <2>0, <3>1, <3>2
    <2>2. Pending(Find(n), n, w, last)
      BY DEF Pending, Find
    <2> HIDE DEF j
    <2> QED  BY <2>1, <2>2, <1>1, <1>9 DEF Hope
  <1> QED
    BY <1>7, <1>8, <1>9 DEF HopeKept

\* A guess of t for v with the score r costs what it does in a choice.
AtScore(last, r, v, t) == last \/ r = Score(v, t)

\* Nothing that d binds is against the choice w.
FollowsTo(d, k, w, last) ==
    OnTrack(Now(d), k, w, last) /\ \A W : ~Conflicts(d.assignment, W)

\* A guess that the choice w makes, too, is on its track.
LEMMA GuessOnTrack ==
    ASSUME system \in Systems, NEW c \in CoreType, LogExact(c),
           NEW k \in DOMAIN system.components, NEW x \in Members(system, k), NEW t \in Type,
           c.assignment[x] = Unbound, system.direct[x] = Unbound, NEW r \in Nat,
           NEW d, d = Bound(c, {<<x, t>>}, r), NEW last \in BOOLEAN, NEW w \in Chosen(last),
           w[x] = t, AtScore(last, r, x, t), OnTrack(Now(c), k, w, last)
    PROVE  FollowsTo(d, k, w, last)
  <1>1. w \in [Var -> Type] /\ Consistent(w) /\ x \in Var /\ Members(system, k) \subseteq Var
    BY ChosenFacts, MembersFacts
  <1>2. Fresh({<<x, t>>}, c.assignment) /\ Adds(d, c, r) /\ d.assignment[x] = t
    BY <1>1, BoundOne
  <1>3. Agrees(c.assignment, w)
    BY DEF OnTrack, Now
  <1>4. \A f \in {<<x, t>>} : w[f[1]] = f[2]
    OBVIOUS
  <1>5. Agrees(d.assignment, w) /\ \A W : ~Conflicts(d.assignment, W)
    <2> DEFINE F == {<<x, t>>}
    <2>1. Fresh(F, c.assignment) /\ d = Bound(c, F, r) /\ \A f \in F : w[f[1]] = f[2]
      BY <1>2, <1>4
    <2> HIDE DEF F
    <2>2. Agrees(Bound(c, F, r).assignment, w)
      BY <2>1, <1>1, <1>3, BoundAgrees
    <2>3. \A W : ~Conflicts(Bound(c, F, r).assignment, W)
      BY <2>1, <1>1, <1>3, BoundAgrees
    <2> QED  BY <2>1, <2>2, <2>3
  <1>6. ASSUME ~last PROVE d.score <= Charge(w, BoundBy(d.assignment) \intersect Members(system, k))
    <2> DEFINE U == BoundBy(c.assignment) \intersect Members(system, k)
               V == BoundBy(d.assignment) \intersect Members(system, k)
    <2>1. U \in SUBSET Var /\ V \in SUBSET Var /\ {x} \in SUBSET Var /\ U \intersect {x} = {}
      BY <1>1 DEF BoundBy
    <2>2. U \union {x} \subseteq V
      <3>1. \A y \in Var : c.assignment[y] # Unbound => d.assignment[y] = c.assignment[y]
        BY <1>2 DEF Adds
      <3> QED  BY <3>1, <1>1, <1>2, Constants DEF BoundBy
    <2>3. c.score <= Charge(w, U) /\ c.score \in Nat /\ d.score = c.score + r
      BY <1>2, <1>6 DEF OnTrack, Now, Adds, CoreType
    <2>4. r = Cost(x, w[x])
      BY <1>6 DEF Cost, AtScore
    <2> HIDE DEF U, V
    <2>5. Charges(w)
      BY <1>1, ChargeFacts
    <2>6. /\ Charge(w, U) \in Nat /\ Charge(w, V) \in Nat /\ Charge(w, {x}) = r
          /\ Charge(w, U \union {x}) = Charge(w, U) + Charge(w, {x})
          /\ Charge(w, U \union {x}) <= Charge(w, V)
      BY <2>1, <2>2, <2>4, <2>5, <1>1 DEF Charges
    <2>7. d.score <= Charge(w, V)
      BY <2>3, <2>6
    <2> QED  BY <2>7 DEF V
  <1> QED
    BY <1>5, <1>6 DEF FollowsTo, OnTrack, Now

\* A variable that is not bound can be guessed as any choice has it.
LEMMA GuessPending ==
    ASSUME system \in Systems, NEW k \in DOMAIN system.components, NEW v \in Members(system, k),
           core \in CoreType, system.direct[v] = Unbound,
           NEW last \in BOOLEAN, NEW w \in Chosen(last)
    PROVE  Bind(k, v).bindings # {} /\ Pending(Bind(k, v), k, w, last)
  <1> DEFINE B == Bind(k, v).bindings
  <1>1. /\ v \in Var /\ B = InitialBindings(v, core.assignment)
        /\ Bind(k, v).kind = "bind" /\ Bind(k, v).component = k /\ Bind(k, v).var = v
    BY BindFacts, MembersFacts
  <1>2. \A i \in DOMAIN system.bindings[v] : system.bindings[v][i].given = {} => i \in B
    BY <1>1 DEF InitialBindings
  <1>3. w[v] \in IF last THEN LastCandidates(v) ELSE Candidates(v)
    BY <1>1 DEF Chosen
  <1>4. Candidates(v) = {system.bindings[v][i].type :
             i \in {j \in DOMAIN system.bindings[v] : system.bindings[v][j].given = {}}}
    BY DEF Candidates
  <1>5. Bind(k, v).followup <=> (v \notin system.overload /\ \A i \in B : system.bindings[v][i].type # AnyType)
    BY <1>1 DEF Bind
  <1> HIDE DEF B
  <1>6. CASE w[v] \in Candidates(v)
    <2>1. \E i \in B : system.bindings[v][i].type = w[v]
      BY <1>2, <1>4, <1>6
    <2> QED  BY <2>1, <1>1 DEF Pending, B
  <1>7. CASE w[v] \notin Candidates(v)
    <2>1. last /\ Candidates(v) # {} /\ v \notin system.overload /\ w[v] = AnyType
      BY <1>3, <1>7 DEF LastCandidates
    <2>2. B # {}
      BY <2>1, <1>2, <1>4
    <2> QED  BY <2>1, <2>2, <1>1, <1>5 DEF Pending, B
  <1> QED
    BY <1>6, <1>7

\* A solution as good as the choice w is known, where b is the best score of
\* the first scope: one that is not infinite is that of a component decided by
\* direct bindings.
Served(C, b, n, w, last) ==
    IF last THEN C # {}
    ELSE b # Infinity \/ \E S \in C : S.score <= Charge(w, Members(system, n))

\* Every choice is, or is still to be found.
Covers(c, sc, q, C, n, last) ==
    \A w \in Chosen(last) :
        Served(C, Level(c, sc, 1).best, n, w, last) \/ Hope(c, sc, q, n, w, last)

\* The step s is the one to find those that are not on the worklist q.
CoversBut(c, sc, q, C, n, last, s) ==
    \A w \in Chosen(last) :
        \/ Served(C, Level(c, sc, 1).best, n, w, last)
        \/ Hope(c, sc, q, n, w, last)
        \/ OnTrack(Now(c), n, w, last) /\ Pending(s, n, w, last)

LEMMA CoversLeft ==
    ASSUME NEW c, NEW sc, NEW q, Chain(c, sc, q), q # <<>>, Last(q).kind = "bind",
           NEW d, d = Given(c, sc, Last(q)), NEW sd, sd = Around(sc, Last(q)),
           NEW r, Chain(d, sd, r), NEW C, NEW n, NEW last, Covers(c, sc, q, C, n, last)
    PROVE  CoversBut(d, sd, Front(q), C, n, last, Last(q))
  <1>1. Level(d, sd, 1) = Level(c, sc, 1)
    <2>1. Len(sd) \in 1..Len(sc) /\ LevelsSame(d, sd, c, sc, Len(sd)) /\ Len(sc) \in Nat
      BY GiveUpLevels
    <2> QED  BY <2>1 DEF LevelsSame
  <1> SUFFICES ASSUME NEW w \in Chosen(last), Hope(c, sc, q, n, w, last)
               PROVE  \/ Hope(d, sd, Front(q), n, w, last)
                      \/ OnTrack(Now(d), n, w, last) /\ Pending(Last(q), n, w, last)
    BY <1>1 DEF Covers, CoversBut
  <1> QED
    BY HopeLeft

LEMMA CoversDropped ==
    ASSUME NEW c, NEW sc, NEW q, Chain(c, sc, q), q # <<>>, Len(q) \notin Open(q),
           NEW C, NEW n, NEW last, Covers(c, sc, q, C, n, last)
    PROVE  CoversBut(c, sc, Front(q), C, n, last, Last(q))
  <1> SUFFICES ASSUME NEW w \in Chosen(last), Hope(c, sc, q, n, w, last)
               PROVE  \/ Hope(c, sc, Front(q), n, w, last)
                      \/ OnTrack(Now(c), n, w, last) /\ Pending(Last(q), n, w, last)
    BY DEF Covers, CoversBut
  <1> QED
    BY HopeDropped

LEMMA CoversPushed ==
    ASSUME NEW c, NEW sc, NEW q, Chain(c, sc, q), NEW g \in Seq(StepType),
           \A i \in DOMAIN g : g[i].kind = "bind" =>
                g[i].scope = 0 /\ c.assignment[g[i].var] = Unbound,
           NEW C, NEW n, NEW last, NEW s, CoversBut(c, sc, q, C, n, last, s),
           \A w \in Chosen(last) :
              (OnTrack(Now(c), n, w, last) /\ Pending(s, n, w, last)) =>
                  \/ Served(C, Level(c, sc, 1).best, n, w, last)
                  \/ \E i \in DOMAIN g : Pending(g[i], n, w, last)
    PROVE  Covers(c, sc, q \o g, C, n, last)
  <1> SUFFICES ASSUME NEW w \in Chosen(last), ~Served(C, Level(c, sc, 1).best, n, w, last)
               PROVE  Hope(c, sc, q \o g, n, w, last)
    BY DEF Covers
  <1>1. Hope(c, sc, q, n, w, last) => Hope(c, sc, q \o g, n, w, last)
    BY HopePushed
  <1>2. (OnTrack(Now(c), n, w, last) /\ \E i \in DOMAIN g : Pending(g[i], n, w, last))
           => Hope(c, sc, q \o g, n, w, last)
    BY HopePushed
  <1> QED
    BY <1>1, <1>2 DEF CoversBut

LEMMA CoversDeeper ==
    ASSUME NEW c, NEW sc, NEW q, Chain(c, sc, q), NEW d, NEW sd, sd = Append(sc, Scope(c)),
           NEW n, NEW e, NEW v, v = q \o <<e, Find(n)>>, Chain(d, sd, v),
           Deepened(c, sc, q, d, sd, v), NEW C, NEW last, NEW s,
           CoversBut(c, sc, q, C, n, last, s),
           \A w \in Chosen(last) :
              (OnTrack(Now(c), n, w, last) /\ Pending(s, n, w, last)) =>
                  OnTrack(Now(d), n, w, last) \/ Pending(e, n, w, last)
    PROVE  Covers(d, sd, v, C, n, last)
  <1>1. Level(d, sd, 1) = Level(c, sc, 1)
    <2>1. LevelsSame(d, sd, c, sc, Len(sc)) /\ Len(sc) \in Nat /\ Len(sc) >= 1
      BY DeeperLevels, TopIs
    <2> QED  BY <2>1 DEF LevelsSame
  <1> SUFFICES ASSUME NEW w \in Chosen(last), ~Served(C, Level(c, sc, 1).best, n, w, last)
               PROVE  Hope(d, sd, v, n, w, last)
    BY <1>1 DEF Covers
  <1>2. /\ Chain(c, sc, q) /\ sd = Append(sc, Scope(c)) /\ v = q \o <<e, Find(n)>>
        /\ Chain(d, sd, v) /\ Deepened(c, sc, q, d, sd, v)
    OBVIOUS
  <1>3. HopeKept(c, sc, q, d, sd, v, e, n, w, last)
    BY ONLY <1>2, HopeDeeper
  <1> QED
    BY <1>3 DEF CoversBut, HopeKept

\* A change of the best score of the current scope leaves all other levels.
BestIs(d, c, sc, b, m) ==
    /\ Level(d, sc, m).assignment = Level(c, sc, m).assignment
    /\ Level(d, sc, m).score = Level(c, sc, m).score
    /\ m # Len(sc) => Level(d, sc, m).best = Level(c, sc, m).best
    /\ m = Len(sc) => Level(d, sc, m).best = b

LEMMA BestLevels ==
    ASSUME NEW c, NEW sc, NEW q, Chain(c, sc, q), NEW b, NEW d, d = [c EXCEPT !.best = b],
           NEW m \in 1..Len(sc)
    PROVE  BestIs(d, c, sc, b, m)
  <1>1. c \in CoreType /\ Len(sc) \in Nat
    BY DEF Chain, ScopesFit
  <1>2. /\ d.assignment = c.assignment /\ d.changes = c.changes /\ d.score = c.score
        /\ d.best = b
    BY <1>1 DEF CoreType
  <1>3. /\ ChangesIn(d, sc, m) = ChangesIn(c, sc, m) /\ ScoreAt(d, sc, m) = ScoreAt(c, sc, m)
        /\ \A k : AtLevel(d, k) = AtLevel(c, k)
    BY <1>2 DEF ChangesIn, ScoreAt, AtLevel, Prefix
  <1> QED
    BY <1>1, <1>2, <1>3 DEF Level, BestIs

LEMMA HopeBest ==
    ASSUME NEW c, NEW sc, NEW q, Chain(c, sc, q), NEW b, NEW d, d = [c EXCEPT !.best = b],
           NEW n, NEW w, NEW last, Hope(c, sc, q, n, w, last)
    PROVE  Hope(d, sc, q, n, w, last)
  <1>1. PICK j \in DOMAIN q, m \in 1..Len(sc) :
            At(q, j, m) /\ OnTrack(Level(c, sc, m), n, w, last) /\ Pending(q[j], n, w, last)
    BY DEF Hope
  <1>2. BestIs(d, c, sc, b, m)
    BY ONLY Chain(c, sc, q), d = [c EXCEPT !.best = b], m \in 1..Len(sc), BestLevels
  <1>3. OnTrack(Level(d, sc, m), n, w, last)
    BY <1>1, <1>2 DEF OnTrack, BestIs
  <1> QED
    BY <1>1, <1>3 DEF Hope

\* The best scores are those of solutions of the component, or a component
\* decided by direct bindings allows no guess that costs something.
BestsFit(c, sc, C) ==
    /\ \A m \in 1..Len(sc) : Level(c, sc, m).best # Infinity =>
          \/ Level(c, sc, 1).best # Infinity
          \/ \E S \in C : S.score <= Level(c, sc, m).best
    /\ Level(c, sc, 1).best # Infinity =>
          /\ \A m \in 1..Len(sc) : Level(c, sc, m).best = 0 /\ Level(c, sc, m).score = 0
          /\ \A S \in C : S.score = 0

LEMMA BestsLeft ==
    ASSUME NEW c, NEW sc, NEW d, NEW sd, NEW C, Len(sc) \in Nat, Len(sd) \in 1..Len(sc),
           LevelsSame(d, sd, c, sc, Len(sd)), BestsFit(c, sc, C)
    PROVE  BestsFit(d, sd, C)
  <1>1. \A m \in 1..Len(sd) : m \in 1..Len(sc) /\ Level(d, sd, m) = Level(c, sc, m)
    BY DEF LevelsSame
  <1>2. 1 \in 1..Len(sd)
    OBVIOUS
  <1> QED
    BY <1>1, <1>2 DEF BestsFit

LEMMA BestsDeeper ==
    ASSUME NEW c, NEW sc, NEW q, Chain(c, sc, q), NEW d, NEW sd, sd = Append(sc, Scope(c)),
           NEW v, Chain(d, sd, v), LevelsSame(d, sd, c, sc, Len(sc)),
           d.best = c.best, ~(c.best # Infinity /\ d.score > c.best),
           NEW C, BestsFit(c, sc, C)
    PROVE  BestsFit(d, sd, C)
  <1> DEFINE K == Len(sc)
  <1>1. K \in Nat /\ K >= 1 /\ Level(c, sc, K) = Now(c) /\ Level(d, sd, Len(sd)) = Now(d)
    BY TopIs
  <1>2. Len(sd) = K + 1
    BY DEF Chain, ScopesFit
  <1> HIDE DEF K
  <1>3. \A m \in 1..K : Level(d, sd, m) = Level(c, sc, m)
    BY DEF LevelsSame, K
  <1>4. 1 \in 1..K /\ K \in 1..K /\ \A m \in 1..Len(sd) : m \in 1..K \/ m = Len(sd)
    BY <1>1, <1>2
  <1>5. d.score \in Nat
    BY DEF Chain, CoreType
  <1>6. Now(c).best = c.best /\ Now(d).best = c.best /\ Now(d).score = d.score
    BY DEF Now
  <1>7. ASSUME c.best # Infinity
        PROVE  Level(d, sd, 1).best # Infinity \/ \E S \in C : S.score <= c.best
    <2>1. Level(c, sc, K).best = c.best /\ Level(d, sd, 1) = Level(c, sc, 1)
      BY <1>1, <1>3, <1>4, <1>6
    <2> QED  BY <2>1, <1>4, <1>7 DEF BestsFit, K
  <1>8. ASSUME Level(d, sd, 1).best # Infinity
        PROVE  /\ c.best = 0 /\ d.score = 0 /\ \A S \in C : S.score = 0
               /\ \A m \in 1..K : Level(d, sd, m).best = 0 /\ Level(d, sd, m).score = 0
    <2>1. Level(c, sc, 1).best # Infinity
      BY <1>3, <1>4, <1>8
    <2>2. /\ \A m \in 1..K : Level(c, sc, m).best = 0 /\ Level(c, sc, m).score = 0
          /\ \A S \in C : S.score = 0
      BY <2>1 DEF BestsFit, K
    <2>3. c.best = 0
      BY <2>2, <1>1, <1>4, <1>6
    <2>4. d.score = 0
      BY <2>3, <1>5, Constants
    <2> QED  BY <2>2, <2>3, <2>4, <1>3
  <1>9. \A m \in 1..Len(sd) : Level(d, sd, m).best # Infinity =>
          \/ Level(d, sd, 1).best # Infinity
          \/ \E S \in C : S.score <= Level(d, sd, m).best
    <2>1. TAKE m \in 1..Len(sd)
    <2>2. CASE m \in 1..K
      BY <2>2, <1>3, <1>4 DEF BestsFit, K
    <2>3. CASE m = Len(sd)
      BY <2>3, <1>1, <1>6, <1>7
    <2> QED  BY <2>2, <2>3, <1>4
  <1>10. Level(d, sd, 1).best # Infinity =>
          /\ \A m \in 1..Len(sd) : Level(d, sd, m).best = 0 /\ Level(d, sd, m).score = 0
          /\ \A S \in C : S.score = 0
    <2> SUFFICES ASSUME Level(d, sd, 1).best # Infinity, NEW m \in 1..Len(sd)
                 PROVE  Level(d, sd, m).best = 0 /\ Level(d, sd, m).score = 0
      BY <1>8
    <2>1. CASE m \in 1..K
      BY <2>1, <1>8
    <2>2. CASE m = Len(sd)
      BY <2>2, <1>1, <1>6, <1>8
    <2> QED  BY <2>1, <2>2, <1>4
  <1> QED
    BY <1>9, <1>10 DEF BestsFit

\* The best score when one as good as the current one is found.
Better(c) == IF c.best = Infinity \/ c.score < c.best THEN c.score ELSE c.best

LEMMA BestsFound ==
    ASSUME NEW c, NEW sc, NEW q, Chain(c, sc, q), NEW d, d = [c EXCEPT !.best = Better(c)],
           NEW C, BestsFit(c, sc, C), Len(sc) = 1 => C = {},
           NEW S, S.score = c.score
    PROVE  /\ BestsFit(d, sc, C \union {S}) /\ Level(d, sc, Len(sc)).best # Infinity
           /\ Level(c, sc, 1).best # Infinity => Level(d, sc, 1).best # Infinity
  <1> DEFINE K == Len(sc)
  <1>1. K \in Nat /\ K >= 1 /\ Level(c, sc, K) = Now(c) /\ K \in 1..K /\ 1 \in 1..K
    BY TopIs
  <1>2. /\ c.score \in Nat /\ c.best \in Nat \union {Infinity} /\ Infinity \notin Nat
    BY Constants DEF Chain, CoreType
  <1>3. /\ Better(c) \in Nat /\ Better(c) # Infinity /\ Better(c) <= c.score
    BY <1>2 DEF Better
  <1>4. Now(c).best = c.best /\ Now(c).score = c.score
    BY DEF Now
  <1>5. \A m \in 1..K : BestIs(d, c, sc, Better(c), m)
    BY BestLevels
  <1>6. Level(c, sc, 1).score = 0
    BY <1>1, LevelFacts
  <1> HIDE DEF K
  <1>7. /\ \A m \in 1..K : Level(d, sc, m).score = Level(c, sc, m).score
        /\ \A m \in 1..K : m # K => Level(d, sc, m).best = Level(c, sc, m).best
        /\ Level(d, sc, K).best = Better(c)
    BY <1>1, <1>5 DEF BestIs, K
  <1>8. Level(c, sc, 1).best # Infinity => Level(d, sc, 1).best # Infinity
    BY <1>1, <1>3, <1>7
  <1>9. ASSUME NEW m \in 1..K, Level(d, sc, m).best # Infinity
        PROVE  \/ Level(d, sc, 1).best # Infinity
               \/ \E T \in C \union {S} : T.score <= Level(d, sc, m).best
    <2>1. CASE m # K
      <3>1. Level(c, sc, m).best # Infinity
        BY <2>1, <1>7, <1>9
      <3> QED  BY <3>1, <2>1, <1>7, <1>8 DEF BestsFit, K
    <2>2. CASE m = K
      <3>1. CASE Better(c) = c.score
        <4>1. S.score <= Level(d, sc, m).best
          BY <3>1, <2>2, <1>2, <1>7
        <4> QED  BY <4>1
      <3>2. CASE Better(c) # c.score
        <4>1. c.best # Infinity /\ Better(c) = c.best
          BY <3>2 DEF Better
        <4>2. Level(c, sc, 1).best # Infinity \/ \E T \in C : T.score <= c.best
          BY <4>1, <1>1, <1>4 DEF BestsFit, K
        <4> QED  BY <4>1, <4>2, <2>2, <1>7, <1>8
      <3> QED  BY <3>1, <3>2
    <2> QED  BY <2>1, <2>2
  <1>10. ASSUME Level(d, sc, 1).best # Infinity
         PROVE  /\ \A m \in 1..K : Level(d, sc, m).best = 0 /\ Level(d, sc, m).score = 0
                /\ \A T \in C \union {S} : T.score = 0
    <2>1. CASE K = 1
      <3>1. C = {} /\ c.score = 0
        BY <2>1, <1>1, <1>4, <1>6 DEF K
      <3>2. Better(c) = 0
        BY <3>1, <1>2, <1>3
      <3>3. \A m \in 1..K : m = K
        BY <2>1
      <3>4. \A m \in 1..K : Level(d, sc, m).best = 0
        BY <3>2, <3>3, <1>7
      <3>5. \A m \in 1..K : Level(d, sc, m).score = 0
        BY <3>3, <2>1, <1>6, <1>7
      <3> QED  BY <3>1, <3>4, <3>5
    <2>2. CASE K # 1
      <3>1. Level(c, sc, 1).best # Infinity
        BY <2>2, <1>1, <1>7, <1>10
      <3>2. /\ \A m \in 1..K : Level(c, sc, m).best = 0 /\ Level(c, sc, m).score = 0
            /\ \A T \in C : T.score = 0
        BY <3>1 DEF BestsFit, K
      <3>3. c.score = 0
        BY <3>2, <1>1, <1>4
      <3>4. Better(c) = 0
        BY <3>3, <1>2, <1>3
      <3>5. \A m \in 1..K : Level(d, sc, m).best = 0
        BY <3>2, <3>4, <1>7
      <3> QED  BY <3>2, <3>3, <3>5, <1>7
    <2> QED  BY <2>1, <2>2
  <1>11. BestsFit(d, sc, C \union {S})
    BY <1>9, <1>10 DEF BestsFit, K
  <1> QED
    BY <1>3, <1>7, <1>8, <1>11 DEF K

\* A guess that is worse than the best score is worse than a solution.
LEMMA WorseServed ==
    ASSUME system \in Systems, NEW n \in DOMAIN system.components,
           NEW c, NEW sc, NEW q, Chain(c, sc, q), NEW C, BestsFit(c, sc, C),
           \A S \in C : S.score \in Nat,
           NEW d \in CoreType, c.best # Infinity, d.score > c.best,
           NEW last \in BOOLEAN, last => (C = {} => Level(c, sc, 1).best = Infinity),
           NEW w \in Chosen(last), OnTrack(Now(d), n, w, last)
    PROVE  Served(C, Level(c, sc, 1).best, n, w, last)
  <1>1. Level(c, sc, 1).best # Infinity \/ \E S \in C : S.score <= c.best
    <2>1. Level(c, sc, Len(sc)) = Now(c) /\ Len(sc) \in Nat /\ Len(sc) >= 1
      BY TopIs
    <2>2. Len(sc) \in 1..Len(sc) /\ Level(c, sc, Len(sc)).best = c.best
      BY <2>1 DEF Now
    <2> QED  BY <2>2 DEF BestsFit
  <1>2. CASE last
    BY <1>1, <1>2 DEF Served
  <1>3. CASE ~last /\ Level(c, sc, 1).best = Infinity
    <2>1. PICK S \in C : S.score <= c.best
      BY <1>1, <1>3
    <2> DEFINE U == BoundBy(d.assignment) \intersect Members(system, n)
               V == Members(system, n)
    <2>2. d.score <= Charge(w, U)
      BY <1>3 DEF OnTrack, Now
    <2>3. Charges(w)
      BY ChosenFacts, ChargeFacts
    <2>4. U \in SUBSET Var /\ V \in SUBSET Var /\ U \subseteq V
      BY MembersFacts DEF BoundBy
    <2> HIDE DEF U, V
    <2>5. Charge(w, U) \in Nat /\ Charge(w, V) \in Nat /\ Charge(w, U) <= Charge(w, V)
      BY <2>3, <2>4 DEF Charges
    <2>6. S.score \in Nat /\ d.score \in Nat /\ c.best \in Nat
      BY <2>1, Constants DEF Chain, CoreType
    <2>7. S.score <= Charge(w, V)
      BY <2>1, <2>2, <2>5, <2>6
    <2> QED  BY <2>7, <1>3 DEF Served, V
  <1> QED
    BY <1>2, <1>3 DEF Served

\* A sequence without repetitions is as long as its set.
LEMMA InjectiveLength ==
    ASSUME NEW S, NEW q \in Seq(S), IsInjective(q)
    PROVE  IsFiniteSet(ToSet(q)) /\ Cardinality(ToSet(q)) = Len(q)
  <1>1. Len(q) \in Nat /\ DOMAIN q = 1..Len(q)
    OBVIOUS
  <1>2. q \in Bijection(1..Len(q), ToSet(q))
    <2>1. q \in [1..Len(q) -> ToSet(q)] /\ \A y \in ToSet(q) : \E i \in 1..Len(q) : q[i] = y
      BY <1>1 DEF ToSet
    <2> QED  BY <2>1 DEF Bijection, Injection, Surjection
  <1>3. ExistsBijection(1..Len(q), ToSet(q))
    BY <1>2 DEF ExistsBijection
  <1> QED
    BY <1>1, <1>3, FS_NatBijection, FS_CountingElements

-----------------------------------------------------------------------------
(* What the search keeps for the choices.                                  *)

\* The first scope has what all choices agree on, the direct bindings.
Rooted(l) ==
    /\ \A w \in Chosen(TRUE) : Agrees(l.assignment, w)
    /\ \A v \in Var : system.direct[v] # Unbound => l.assignment[v] # Unbound
    /\ (\A v \in Var : system.direct[v] = Unbound) => BoundBy(l.assignment) = {}

\* A step that looks for a solution was not told of a failure, and in the
\* first scope it is the first one of its component.
FindFits(sc, q, f, C) ==
    /\ f => C = {}
    /\ (q # <<>> /\ Last(q).kind = "find") => ~f /\ (Len(sc) = 1 => C = {})

\* The systems that FailureReal speaks of.
Simple ==
    \/ Len(system.components) = 1
    \/ \A v \in Var : system.direct[v] = Unbound

\* In these a valid guess was one.
ValidSteps(c, q, C, n) ==
    \A j \in DOMAIN q : (q[j].kind = "bind" /\ q[j].valid) =>
        \/ C # {}
        \/ Last(q).kind = "find" /\ Members(system, n) \subseteq BoundBy(c.assignment)

ValidFits(c, sc, q, C, n) ==
    /\ C = {} => Level(c, sc, 1).best = Infinity
    /\ (\A v \in Var : system.direct[v] = Unbound) =>
          /\ Level(c, sc, 1).best = Infinity
          /\ BoundBy(c.assignment) \subseteq Members(system, n)
    /\ ValidSteps(c, q, C, n)

SearchFits(c, sc, q, f, C, n) ==
    /\ BestsFit(c, sc, C) /\ FindFits(sc, q, f, C) /\ Covers(c, sc, q, C, n, FALSE)
    /\ Simple => ValidFits(c, sc, q, C, n) /\ Covers(c, sc, q, C, n, TRUE)

\* What the components that are solved cost, at least.
LowestBefore(P) ==
    \A w \in Chosen(FALSE) : \A j \in DOMAIN P : \A i \in DOMAIN P[j] :
        P[j][i].score <= Charge(w, Members(system, Components + 1 - j))

ChoiceInv ==
    /\ SolutionInv
    /\ Searching => /\ Rooted(Level(core, scopes, 1))
                    /\ splitter = "Idle" => Level(core, scopes, 1).best = Infinity
    /\ splitter = "Suspended" =>
          /\ LowestBefore(partial)
          /\ Current >= 1 => SearchFits(core, scopes, worklist, failed, cache, Current)
    /\ LowestScore
    /\ (Simple /\ (result = "failure" \/ stop \/ splitter = "Error")) => Chosen(TRUE) = {}

\* The step that is next when one of the n-th component is done.
LEMMA OthersTop ==
    ASSUME SolutionInv, worklist # <<>>, splitter = "Suspended", Last(worklist).kind # "split"
    PROVE  Others # <<>> /\ Last(Others).kind # "find"
  <1>1. Waiting(Others, Current) /\ Others \in Seq(StepType) /\ Current \in Nat /\ Current >= 1
    BY OthersWait, Turn
  <1>2. Len(Others) \in Nat /\ Len(Others) >= 2 * Current - 1 /\ Len(Others) >= 1
    BY <1>1 DEF Waiting
  <1>3. Len(Others) \in DOMAIN Others /\ Last(Others) = Others[Len(Others)] /\ Others # <<>>
    BY <1>1, <1>2 DEF Last
  <1>4. CASE Len(Others) < 2 * Current
    <2>1. Len(Others) = 2 * Current - 1
      BY <1>1, <1>2, <1>4
    <2>2. (2 * Current - 1) % 2 = 1
      BY <1>1
    <2>3. Others[Len(Others)] = Rest(Len(Others))
      BY <1>1, <1>3, <1>4 DEF Waiting
    <2>4. Rest(Len(Others)) = Split
      BY <2>1, <2>2 DEF Rest
    <2> QED  BY <2>3, <2>4, <1>3 DEF Split
  <1>5. CASE ~(Len(Others) < 2 * Current)
    BY <1>1, <1>3, <1>5 DEF Waiting
  <1> QED
    BY <1>4, <1>5

LEMMA DirectBound ==
    ASSUME NEW c, NEW sc, NEW q, Chain(c, sc, q), Rooted(Level(c, sc, 1)),
           NEW v \in Var, c.assignment[v] = Unbound
    PROVE  system.direct[v] = Unbound
  <1>1. 1 \in 1..Len(sc)
    BY TopIs
  <1>2. Level(c, sc, 1).assignment[v] \in {c.assignment[v], Unbound}
    BY <1>1, LevelFacts
  <1> QED
    BY <1>2 DEF Rooted

\* A component that cannot be completed allows no choice.
LEMMA NothingGuessed ==
    ASSUME system \in Systems, core \in CoreType, NEW k \in DOMAIN system.components,
           \A v \in Members(system, k) : core.assignment[v] = Unbound => system.direct[v] = Unbound,
           Guessed(k) = {}, Unassigned(k) # {}, NEW last \in BOOLEAN
    PROVE  Chosen(last) = {}
  <1> SUFFICES ASSUME NEW w \in Chosen(last) PROVE FALSE
    OBVIOUS
  <1>1. PICK i \in Unassigned(k) : TRUE
    OBVIOUS
  <1> DEFINE v == system.components[k][i]
  <1>2. v \in Members(system, k) /\ core.assignment[v] = Unbound
    BY <1>1 DEF Unassigned, Members, ToSet
  <1> HIDE DEF v
  <1>3. Bind(k, v).bindings # {}
    BY <1>2, GuessPending
  <1> QED
    BY <1>1, <1>3 DEF Guessed, v

\* There is a step for each variable that can be guessed.
LEMMA GuessesCover ==
    ASSUME system \in Systems, core \in CoreType, NEW k \in DOMAIN system.components,
           \A v \in Members(system, k) : core.assignment[v] = Unbound => system.direct[v] = Unbound,
           Guessed(k) # {}, NEW order \in InOrder(Guessed(k)),
           NEW last \in BOOLEAN, NEW w \in Chosen(last)
    PROVE  \E i \in DOMAIN Guesses(k, order) : Pending(Guesses(k, order)[i], k, w, last)
  <1>1. IsFiniteSet(Guessed(k))
    <2>1. system.components[k] \in Seq(Var)
      BY MembersFacts
    <2>2. Guessed(k) \subseteq 1..Len(system.components[k]) /\ Len(system.components[k]) \in Nat
      BY <2>1 DEF Guessed, Unassigned
    <2> DEFINE n == Len(system.components[k])
    <2>3. IsFiniteSet(1..n)
      BY <2>2, FS_Interval
    <2> QED  BY <2>2, <2>3, FS_Subset
  <1>2. DOMAIN Guesses(k, order) = 1..Cardinality(Guessed(k)) /\ Cardinality(Guessed(k)) \in Nat
    BY GuessesFacts
  <1>3. Cardinality(Guessed(k)) # 0
    BY <1>1, FS_EmptySet
  <1>4. 1 \in DOMAIN Guesses(k, order)
    BY <1>2, <1>3
  <1>5. PICK j \in Guessed(k) : Guesses(k, order)[1] = Bind(k, system.components[k][j])
    BY <1>4, GuessesFacts
  <1> DEFINE v == system.components[k][j]
  <1>6. v \in Members(system, k) /\ core.assignment[v] = Unbound
    BY <1>5 DEF Guessed, Unassigned, Members, ToSet
  <1> HIDE DEF v
  <1>7. Pending(Bind(k, v), k, w, last)
    BY <1>6, GuessPending
  <1> QED
    BY <1>4, <1>5, <1>7 DEF v

\* What is known when the step of the k-th component that looks for a solution
\* runs.
Looking(k) ==
    /\ SolutionInv /\ worklist # <<>> /\ Last(worklist) = Find(k) /\ splitter = "Suspended"
    /\ k \in DOMAIN system.components /\ k = Current
    /\ system \in Systems /\ core \in CoreType /\ Chain(core, scopes, worklist)
    /\ Chain(core, scopes, Others) /\ Others \in Seq(StepType)
    /\ Rooted(Level(core, scopes, 1))
    /\ SearchFits(core, scopes, worklist, failed, cache, k)

LEMMA LookingFacts ==
    ASSUME ChoiceInv, NEW k \in DOMAIN system.components, ExecuteFind(k), splitter = "Suspended"
    PROVE  Looking(k)
  <1>1. SolutionInv /\ worklist # <<>> /\ Last(worklist) = Find(k)
    BY FindCases DEF ChoiceInv
  <1>2. Last(worklist).kind = "find" /\ Last(worklist).component = k
    BY <1>1 DEF Find
  <1>3. Searching /\ k = Current /\ Current >= 1
    BY <1>1, <1>2, Turn
  <1>4. ScopesInv /\ system \in Systems /\ Chain(core, scopes, worklist) /\ Others \in Seq(StepType)
    BY <1>1, Running DEF SolutionInv
  <1>5. core \in CoreType
    BY <1>4 DEF Chain
  <1>6. Chain(core, scopes, Others)
    BY <1>1, <1>2, <1>4, Dropped
  <1> QED
    BY <1>1, <1>3, <1>4, <1>5, <1>6 DEF ChoiceInv, Looking

LEMMA LookingMore ==
    ASSUME NEW k, Looking(k)
    PROVE  /\ ~failed /\ (Len(scopes) = 1 => cache = {})
           /\ \A v \in Members(system, k) : core.assignment[v] = Unbound => system.direct[v] = Unbound
           /\ CoversBut(core, scopes, Others, cache, k, FALSE, Find(k))
           /\ Simple => CoversBut(core, scopes, Others, cache, k, TRUE, Find(k))
           /\ Others # <<>> /\ Last(Others).kind # "find"
           /\ \A j \in DOMAIN Others : j \in DOMAIN worklist /\ Others[j] = worklist[j]
           /\ Last(worklist).kind = "find"
           /\ Simple => \A j \in DOMAIN Others : (Others[j].kind = "bind" /\ Others[j].valid) =>
                            cache # {} \/ Unassigned(k) = {}
  <1>1. Last(worklist).kind = "find" /\ Last(worklist) = Find(k)
    BY DEF Looking, Find
  <1>2. ~failed /\ (Len(scopes) = 1 => cache = {})
    BY <1>1 DEF Looking, SearchFits, FindFits
  <1>3. \A v \in Members(system, k) : core.assignment[v] = Unbound => system.direct[v] = Unbound
    <2>1. TAKE v \in Members(system, k)
    <2>2. v \in Var
      BY MembersFacts DEF Looking
    <2> QED  BY <2>2, DirectBound DEF Looking
  <1>4. Len(worklist) \notin Open(worklist)
    <2>1. Last(worklist) = worklist[Len(worklist)]
      BY DEF Last
    <2> QED  BY <2>1, <1>1 DEF Open
  <1>5. ASSUME NEW last, Covers(core, scopes, worklist, cache, k, last)
        PROVE  CoversBut(core, scopes, Others, cache, k, last, Find(k))
    <2>1. CoversBut(core, scopes, Front(worklist), cache, k, last, Last(worklist))
      BY <1>4, <1>5, CoversDropped DEF Looking
    <2> QED  BY <2>1, <1>1 DEF Others
  <1>6. /\ CoversBut(core, scopes, Others, cache, k, FALSE, Find(k))
        /\ Simple => CoversBut(core, scopes, Others, cache, k, TRUE, Find(k))
    BY <1>5 DEF Looking, SearchFits
  <1>7. Others # <<>> /\ Last(Others).kind # "find"
    BY <1>1, OthersTop DEF Looking
  <1>8. \A j \in DOMAIN Others : j \in DOMAIN worklist /\ Others[j] = worklist[j]
    <2>1. worklist \in Seq(StepType) /\ Len(worklist) \in Nat /\ ScopesInv /\ worklist # <<>>
      BY DEF Looking, Chain, SolutionInv
    <2>2. DOMAIN Others = 1..(Len(worklist) - 1) /\ \A j \in DOMAIN Others : Others[j] = worklist[j]
      BY <2>1, Running
    <2> QED  BY <2>1, <2>2
  <1>9. ASSUME Simple, NEW j \in DOMAIN Others, Others[j].kind = "bind", Others[j].valid
        PROVE  cache # {} \/ Unassigned(k) = {}
    <2>1. ValidSteps(core, worklist, cache, k)
      BY <1>9 DEF Looking, SearchFits, ValidFits
    <2>2. cache # {} \/ Members(system, k) \subseteq BoundBy(core.assignment)
      BY <2>1, <1>8, <1>9 DEF ValidSteps
    <2>3. (Members(system, k) \subseteq BoundBy(core.assignment)) => Unassigned(k) = {}
      BY DEF BoundBy, Unassigned, Members, ToSet
    <2> QED  BY <2>2, <2>3
  <1> QED
    BY <1>1, <1>2, <1>3, <1>6, <1>7, <1>8, <1>9

\* Guesses are put on the worklist,
LEMMA GuessesKeep ==
    ASSUME NEW k, Looking(k), Guessed(k) # {}, NEW order \in InOrder(Guessed(k))
    PROVE  SearchFits(core, scopes, Others \o Guesses(k, order), failed, cache, k)
  <1> DEFINE g == Guesses(k, order)
             q == Others \o g
  <1>1. /\ system \in Systems /\ core \in CoreType /\ k \in DOMAIN system.components
        /\ Chain(core, scopes, Others) /\ Others \in Seq(StepType)
    BY DEF Looking
  <1>2. /\ ~failed
        /\ \A v \in Members(system, k) : core.assignment[v] = Unbound => system.direct[v] = Unbound
        /\ CoversBut(core, scopes, Others, cache, k, FALSE, Find(k))
        /\ Simple => CoversBut(core, scopes, Others, cache, k, TRUE, Find(k))
        /\ Simple => \A j \in DOMAIN Others : (Others[j].kind = "bind" /\ Others[j].valid) =>
                         cache # {} \/ Unassigned(k) = {}
    BY LookingMore
  <1>3. /\ g \in Seq(StepType)
        /\ \A i \in DOMAIN g :
              /\ g[i].kind = "bind" /\ g[i].scope = 0 /\ core.assignment[g[i].var] = Unbound
              /\ \E j \in Guessed(k) : g[i] = Bind(k, system.components[k][j])
    BY <1>1, GuessesFacts
  <1>4. \A i \in DOMAIN g : g[i].valid = FALSE
    BY <1>3 DEF Bind
  <1>5. \A last \in BOOLEAN : \A w \in Chosen(last) : \E i \in DOMAIN g : Pending(g[i], k, w, last)
    BY <1>1, <1>2, GuessesCover
  <1> HIDE DEF g
  <1>6. ASSUME NEW last \in BOOLEAN, CoversBut(core, scopes, Others, cache, k, last, Find(k))
        PROVE  Covers(core, scopes, q, cache, k, last)
    BY <1>1, <1>3, <1>5, <1>6, CoversPushed
  <1>7. g # <<>>
    <2>1. IsFiniteSet(Guessed(k))
      <3>1. system.components[k] \in Seq(Var)
        BY <1>1, MembersFacts
      <3>2. Guessed(k) \subseteq 1..Len(system.components[k]) /\ Len(system.components[k]) \in Nat
        BY <3>1 DEF Guessed, Unassigned
      <3> DEFINE n == Len(system.components[k])
      <3>3. IsFiniteSet(1..n)
        BY <3>2, FS_Interval
      <3> QED  BY <3>2, <3>3, FS_Subset
    <2>2. DOMAIN g = 1..Cardinality(Guessed(k)) /\ Cardinality(Guessed(k)) \in Nat
      BY <1>1, GuessesFacts DEF g
    <2>3. Cardinality(Guessed(k)) # 0
      BY <2>1, FS_EmptySet
    <2> QED  BY <2>2, <2>3
  <1>8. /\ q \in Seq(StepType) /\ q # <<>> /\ Last(q) = g[Len(g)] /\ Len(g) \in DOMAIN g
        /\ \A j \in DOMAIN q : (j \in DOMAIN Others /\ q[j] = Others[j])
                               \/ \E i \in DOMAIN g : q[j] = g[i]
    BY <1>1, <1>3, <1>7 DEF Last
  <1> HIDE DEF q
  <1>9. FindFits(scopes, q, failed, cache)
    BY <1>2, <1>3, <1>8 DEF FindFits
  <1>10. ASSUME Simple PROVE ValidFits(core, scopes, q, cache, k)
    <2>1. ValidFits(core, scopes, worklist, cache, k)
      BY <1>10 DEF Looking, SearchFits
    <2>2. Unassigned(k) # {}
      BY DEF Guessed
    <2>3. ValidSteps(core, q, cache, k)
      BY <2>2, <1>2, <1>4, <1>8, <1>10 DEF ValidSteps
    <2> QED  BY <2>1, <2>3 DEF ValidFits
  <1>11. BestsFit(core, scopes, cache)
    BY DEF Looking, SearchFits
  <1>12. Covers(core, scopes, q, cache, k, FALSE) /\ (Simple => Covers(core, scopes, q, cache, k, TRUE))
    BY <1>2, <1>6
  <1>13. SearchFits(core, scopes, q, failed, cache, k)
    BY <1>9, <1>10, <1>11, <1>12 DEF SearchFits
  <1> QED
    BY <1>13 DEF q, g

\* or there is nothing to find,
LEMMA NothingKeeps ==
    ASSUME NEW k, Looking(k), Guessed(k) = {}, Unassigned(k) # {}, NEW f, f => cache = {}
    PROVE  SearchFits(core, scopes, Others, f, cache, k)
  <1>1. /\ system \in Systems /\ core \in CoreType /\ k \in DOMAIN system.components
        /\ SearchFits(core, scopes, worklist, failed, cache, k)
    BY DEF Looking
  <1>2. /\ \A v \in Members(system, k) : core.assignment[v] = Unbound => system.direct[v] = Unbound
        /\ Others # <<>> /\ Last(Others).kind # "find"
        /\ Simple => \A j \in DOMAIN Others : (Others[j].kind = "bind" /\ Others[j].valid) =>
                         cache # {} \/ Unassigned(k) = {}
    BY LookingMore
  <1>3. Chosen(TRUE) = {} /\ Chosen(FALSE) = {}
    BY <1>1, <1>2, NothingGuessed
  <1>4. Covers(core, scopes, Others, cache, k, TRUE) /\ Covers(core, scopes, Others, cache, k, FALSE)
    BY <1>3 DEF Covers
  <1>5. FindFits(scopes, Others, f, cache)
    BY <1>2 DEF FindFits
  <1>6. Simple => ValidSteps(core, Others, cache, k)
    BY <1>2 DEF ValidSteps
  <1> QED
    BY <1>1, <1>4, <1>5, <1>6 DEF SearchFits, ValidFits

\* or all guesses were right, and as good as any choice with them.
LEMMA FoundKeeps ==
    ASSUME NEW k, Looking(k), Unassigned(k) = {}, NEW d, d = [core EXCEPT !.best = Better(core)]
    PROVE  /\ SearchFits(d, scopes, Others, FALSE, cache \union {FoundSolution(k)}, k)
           /\ Level(d, scopes, 1).assignment = Level(core, scopes, 1).assignment
  <1> DEFINE S == FoundSolution(k)
             C == cache \union {S}
  <1>1. /\ system \in Systems /\ core \in CoreType /\ k \in DOMAIN system.components
        /\ Chain(core, scopes, Others) /\ Others \in Seq(StepType)
        /\ SearchFits(core, scopes, worklist, failed, cache, k)
        /\ Rooted(Level(core, scopes, 1))
    BY DEF Looking
  <1>2. /\ Len(scopes) = 1 => cache = {}
        /\ CoversBut(core, scopes, Others, cache, k, FALSE, Find(k))
        /\ Simple => CoversBut(core, scopes, Others, cache, k, TRUE, Find(k))
        /\ Others # <<>> /\ Last(Others).kind # "find"
    BY LookingMore
  <1>3. S.score = core.score
    BY DEF FoundSolution
  <1>4. BestsFit(core, scopes, cache)
    BY <1>1 DEF SearchFits
  <1> HIDE DEF S
  <1>5. /\ BestsFit(d, scopes, C)
        /\ Level(core, scopes, 1).best # Infinity => Level(d, scopes, 1).best # Infinity
    <2>1. Chain(core, scopes, Others) /\ d = [core EXCEPT !.best = Better(core)]
          /\ BestsFit(core, scopes, cache) /\ (Len(scopes) = 1 => cache = {})
      BY <1>1, <1>2, <1>4
    <2>2. S.score = core.score
      BY <1>3
    <2> QED  BY ONLY <2>1, <2>2, BestsFound, SMTT(30)
  <1>6. FindFits(scopes, Others, FALSE, C)
    BY <1>2 DEF FindFits
  <1>7. Len(scopes) \in Nat /\ Len(scopes) >= 1 /\ Level(core, scopes, Len(scopes)) = Now(core)
    BY <1>1, TopIs
  <1>8. 1 \in 1..Len(scopes)
    BY <1>7
  <1>9. BestIs(d, core, scopes, Better(core), 1)
    BY <1>1, <1>8, BestLevels
  <1>10. Members(system, k) \subseteq BoundBy(core.assignment) /\ Members(system, k) \subseteq Var
         /\ Members(system, k) # {}
    <2>1. Members(system, k) \subseteq Var /\ Members(system, k) # {}
      BY <1>1, MembersFacts
    <2> QED  BY <2>1 DEF Unassigned, Members, ToSet, BoundBy
  <1>11. C # {}
    OBVIOUS
  <1>12. ASSUME NEW w \in Chosen(FALSE), OnTrack(Now(core), k, w, FALSE)
         PROVE  S.score <= Charge(w, Members(system, k))
    <2>1. BoundBy(core.assignment) \intersect Members(system, k) = Members(system, k)
      BY <1>10
    <2> QED  BY <2>1, <1>3, <1>12 DEF OnTrack, Now
  <1>13. Covers(d, scopes, Others, C, k, FALSE)
    <2> SUFFICES ASSUME NEW w \in Chosen(FALSE), ~Served(C, Level(d, scopes, 1).best, k, w, FALSE)
                 PROVE  Hope(d, scopes, Others, k, w, FALSE)
      BY DEF Covers
    <2>1. ~Served(cache, Level(core, scopes, 1).best, k, w, FALSE)
      BY <1>5 DEF Served
    <2>2. ~OnTrack(Now(core), k, w, FALSE)
      BY <1>12 DEF Served
    <2>3. Hope(core, scopes, Others, k, w, FALSE)
      BY <2>1, <2>2, <1>2 DEF CoversBut
    <2> DEFINE b == Better(core)
    <2>4. d = [core EXCEPT !.best = b]
      OBVIOUS
    <2> HIDE DEF b
    <2>5. Chain(core, scopes, Others)
      BY <1>1
    <2> QED  BY ONLY <2>3, <2>4, <2>5, HopeBest
  <1>14. Covers(d, scopes, Others, C, k, TRUE)
    BY <1>11 DEF Covers, Served
  <1>15. ASSUME Simple PROVE ValidFits(d, scopes, Others, C, k)
    <2>1. ASSUME \A v \in Var : system.direct[v] = Unbound
          PROVE  Level(d, scopes, 1).best = Infinity
      <3>1. Level(core, scopes, 1).best = Infinity
        BY <1>1, <1>15, <2>1 DEF SearchFits, ValidFits
      <3>2. Len(scopes) # 1
        <4> SUFFICES ASSUME Len(scopes) = 1 PROVE FALSE
          OBVIOUS
        <4>1. BoundBy(core.assignment) = {}
          BY <1>1, <1>7, <2>1 DEF Rooted, Now
        <4> QED  BY <4>1, <1>10
      <3> QED  BY <3>1, <3>2, <1>9 DEF BestIs
    <2>2. d.assignment = core.assignment
      BY <1>1 DEF CoreType
    <2>3. ASSUME \A v \in Var : system.direct[v] = Unbound
          PROVE  BoundBy(d.assignment) \subseteq Members(system, k)
      BY <2>2, <2>3, <1>1, <1>15 DEF SearchFits, ValidFits
    <2>4. ValidSteps(d, Others, C, k)
      BY <1>11 DEF ValidSteps
    <2> QED  BY <2>1, <2>3, <2>4, <1>11 DEF ValidFits
  <1>16. SearchFits(d, scopes, Others, FALSE, C, k)
    BY <1>5, <1>6, <1>13, <1>14, <1>15 DEF SearchFits
  <1> QED
    BY <1>9, <1>16 DEF S, BestIs

\* These change with the system only, too.
LEMMA LevelFrame ==
    ASSUME NEW c, NEW sc, NEW n
    PROVE  Level(c, sc, n)' = Level(c, sc, n) /\ Now(c)' = Now(c)
  BY DEF Level, Now, AtLevel, Prefix, ChangesIn, ScoreAt

LEMMA ChosenFrame ==
    ASSUME system' = system
    PROVE  /\ \A last : Chosen(last)' = Chosen(last)
           /\ \A w, V : Charge(w, V)' = Charge(w, V)
           /\ Simple' <=> Simple
  <1>1. \A a : Consistent(a)' <=> Consistent(a)
    BY DEF Consistent, Facts
  <1>2. \A v : Candidates(v)' = Candidates(v)
    BY DEF Candidates
  <1>3. \A v : LastCandidates(v)' = LastCandidates(v)
    BY <1>2 DEF LastCandidates
  <1>4. \A v, t : Cost(v, t)' = Cost(v, t)
    BY DEF Cost, Score
  <1>5. \A last : Chosen(last)' = Chosen(last)
    BY <1>1, <1>2, <1>3 DEF Chosen
  <1>6. \A w, V : Charge(w, V)' = Charge(w, V)
    <2> TAKE w, V
    <2>1. [v \in V |-> Cost(v, w[v])]' = [v \in V |-> Cost(v, w[v])]
      BY <1>4
    <2> QED  BY <2>1 DEF Charge
  <1>7. Simple' <=> Simple
    BY DEF Simple
  <1> QED
    BY <1>5, <1>6, <1>7

LEMMA CoversFrame ==
    ASSUME system' = system, NEW c, NEW sc, NEW q, NEW C, NEW n, NEW last
    PROVE  Covers(c, sc, q, C, n, last)' <=> Covers(c, sc, q, C, n, last)
  <1>1. /\ \A l : Chosen(l)' = Chosen(l)
        /\ \A w, V : Charge(w, V)' = Charge(w, V)
    BY ChosenFrame
  <1>2. Members(system, n)' = Members(system, n)
    BY DEF Members
  <1>3. \A w : Served(C, Level(c, sc, 1).best, n, w, last)' <=> Served(C, Level(c, sc, 1).best, n, w, last)
    BY <1>1, <1>2, LevelFrame DEF Served
  <1>4. \A l, w : OnTrack(l, n, w, last)' <=> OnTrack(l, n, w, last)
    BY <1>1, <1>2 DEF OnTrack, Agrees, BoundBy
  <1>5. \A s, w : Pending(s, n, w, last)' <=> Pending(s, n, w, last)
    BY DEF Pending
  <1>6. \A w : Hope(c, sc, q, n, w, last)' <=> Hope(c, sc, q, n, w, last)
    BY <1>4, <1>5, LevelFrame DEF Hope, At, Open
  <1> QED
    BY <1>1, <1>3, <1>6 DEF Covers

LEMMA ChoiceFrame ==
    ASSUME system' = system, NEW c, NEW sc, NEW q, NEW f, NEW C, NEW n, NEW l, NEW P
    PROVE  /\ Rooted(l)' <=> Rooted(l)
           /\ LowestBefore(P)' <=> LowestBefore(P)
           /\ SearchFits(c, sc, q, f, C, n)' <=> SearchFits(c, sc, q, f, C, n)
  <1>1. /\ \A last : Chosen(last)' = Chosen(last)
        /\ \A w, V : Charge(w, V)' = Charge(w, V)
        /\ Simple' <=> Simple
    BY ChosenFrame
  <1>2. Rooted(l)' <=> Rooted(l)
    BY <1>1 DEF Rooted, Agrees, BoundBy
  <1>3. LowestBefore(P)' <=> LowestBefore(P)
    <2>1. Components' = Components /\ \A k : Members(system, k)' = Members(system, k)
      BY DEF Components, Members
    <2> QED  BY <2>1, <1>1 DEF LowestBefore
  <1>4. ValidFits(c, sc, q, C, n)' <=> ValidFits(c, sc, q, C, n)
    BY LevelFrame DEF ValidFits, ValidSteps, BoundBy, Members
  <1>5. BestsFit(c, sc, C)' <=> BestsFit(c, sc, C)
    BY LevelFrame DEF BestsFit
  <1>6. FindFits(sc, q, f, C)' <=> FindFits(sc, q, f, C)
    BY DEF FindFits
  <1> QED
    BY <1>1, <1>2, <1>3, <1>4, <1>5, <1>6, CoversFrame DEF SearchFits

\* The search goes on with the same component,
LEMMA SearchStep ==
    ASSUME ChoiceInv, SolutionInv', worklist # <<>>, splitter = "Suspended", result' = "none",
           UNCHANGED <<system, splitter, partial, stop>>,
           Level(core', scopes', 1).assignment = Level(core, scopes, 1).assignment,
           SearchFits(core', scopes', worklist', failed', cache', Current)
    PROVE  ChoiceInv'
  <1>1. Searching /\ Rooted(Level(core, scopes, 1)) /\ LowestBefore(partial)
        /\ (Simple /\ stop => Chosen(TRUE) = {})
    BY Turn DEF ChoiceInv
  <1>2. Rooted(Level(core', scopes', 1))
    BY <1>1 DEF Rooted
  <1>3. Rooted(Level(core, scopes, 1))'
    BY <1>2, LevelFrame, ChoiceFrame
  <1>4. LowestBefore(partial)'
    BY <1>1, ChoiceFrame
  <1>5. SearchFits(core, scopes, worklist, failed, cache, Current)'
    <2>1. Current' = Current
      BY SearchFrame DEF Current
    <2> QED  BY <2>1, ChoiceFrame
  <1>6. LowestScore'
    BY DEF LowestScore
  <1>7. (Simple /\ (result = "failure" \/ stop \/ splitter = "Error") => Chosen(TRUE) = {})'
    BY <1>1, ChosenFrame
  <1> QED
    BY <1>3, <1>4, <1>5, <1>6, <1>7 DEF ChoiceInv

\* ends,
LEMMA ReturnStep ==
    ASSUME ChoiceInv, SolutionInv', system' = system, Return("failure"),
           Simple => Chosen(TRUE) = {}
    PROVE  ChoiceInv'
  <1>1. result' = "failure" /\ splitter' = "Idle"
    BY DEF Return
  <1>2. ~Searching'
    BY <1>1 DEF Searching
  <1>3. LowestScore'
    BY <1>1 DEF LowestScore
  <1>4. (Simple => Chosen(TRUE) = {})'
    BY ChosenFrame
  <1> QED
    BY <1>1, <1>2, <1>3, <1>4 DEF ChoiceInv

\* or has failed, and takes what is left from the worklist.
LEMMA ErrorStep ==
    ASSUME ChoiceInv, SolutionInv', worklist # <<>>, result' = "none", splitter' = "Error",
           UNCHANGED <<system, core, scopes>>, Simple => Chosen(TRUE) = {}
    PROVE  ChoiceInv'
  <1>1. Searching /\ Rooted(Level(core, scopes, 1))
    BY Turn DEF ChoiceInv
  <1>2. Rooted(Level(core, scopes, 1))'
    BY <1>1, LevelFrame, ChoiceFrame
  <1>3. LowestScore'
    BY DEF LowestScore
  <1>4. (Simple => Chosen(TRUE) = {})'
    BY ChosenFrame
  <1> QED
    BY <1>2, <1>3, <1>4 DEF ChoiceInv

LEMMA SkipSplitterChoice ==
    ASSUME ChoiceInv, SkipSplitter
    PROVE  ChoiceInv'
  <1>1. /\ worklist # <<>> /\ splitter = "Error" /\ splitter' = "Error"
        /\ UNCHANGED <<system, core, scopes, result>>
    BY DEF SkipSplitter, NextIs
  <1>2. SolutionInv' /\ result' = "none" /\ (Simple => Chosen(TRUE) = {})
    BY <1>1, SkipSplitterSolution, Turn DEF ChoiceInv
  <1> QED
    BY <1>1, <1>2, ErrorStep

LEMMA ExecuteFindChoice ==
    ASSUME ChoiceInv, NEW k \in DOMAIN system.components, ExecuteFind(k)
    PROVE  ChoiceInv'
  <1>1. SolutionInv /\ SolutionInv'
    BY ExecuteFindSolution DEF ChoiceInv
  <1>2. /\ worklist # <<>> /\ Last(worklist) = Find(k) /\ Last(worklist).kind = "find"
        /\ UNCHANGED <<system, solutions, stop>> /\ (result' = result => splitter' = splitter)
    BY FindCases DEF Find
  <1>3. Searching /\ SearchInv /\ result = "none" /\ splitter \in {"Suspended", "Error"}
    BY <1>1, <1>2, Turn
  <1>4. CASE splitter = "Error"
    <2>1. failed /\ ~stop
      BY <1>3, <1>4 DEF SearchInv
    <2>2. Fail
      BY <2>1, FindCases
    <2>3. UNCHANGED <<core, scopes, result>> /\ (Simple => Chosen(TRUE) = {})
      BY <2>1, <2>2, <1>4 DEF Fail, ChoiceInv
    <2> QED  BY <2>3, <1>1, <1>2, <1>3, <1>4, ErrorStep
  <1>5. CASE splitter = "Suspended"
    <2>1. Looking(k)
      BY <1>5, LookingFacts
    <2>2. k = Current /\ ~failed
      BY <2>1, LookingMore DEF Looking
    <2>3. ASSUME UNCHANGED <<core, scopes, partial, result>>,
                 SearchFits(core, scopes, worklist', failed', cache', k)
          PROVE  ChoiceInv'
      <3>1. splitter' = splitter /\ result' = "none"
        BY <2>3, <1>2, <1>3
      <3> QED  BY <3>1, <2>2, <2>3, <1>1, <1>2, <1>5, SearchStep
    <2>4. CASE Guessed(k) = {} /\ Unassigned(k) # {} /\ cache = {} /\ Fail
      <3>1. CASE stop
        <4>1. Return("failure") /\ (Simple => Chosen(TRUE) = {})
          BY <2>4, <3>1 DEF Fail, ChoiceInv
        <4> QED  BY <4>1, <1>1, <1>2, ReturnStep
      <3>2. CASE ~stop
        <4>1. /\ failed' = TRUE /\ worklist' = Others
              /\ UNCHANGED <<core, scopes, cache, partial, result>>
          BY <2>4, <3>2 DEF Fail
        <4>2. SearchFits(core, scopes, Others, failed', cache, k)
          BY <2>1, <2>4, NothingKeeps
        <4> QED  BY <4>1, <4>2, <2>3
      <3> QED  BY <3>1, <3>2
    <2>5. CASE /\ Guessed(k) # {}
               /\ \E order \in InOrder(Guessed(k)) : worklist' = Others \o Guesses(k, order)
               /\ UNCHANGED <<core, scopes, failed, cache, partial, result>>
      <3>1. PICK order \in InOrder(Guessed(k)) : worklist' = Others \o Guesses(k, order)
        BY <2>5
      <3>2. SearchFits(core, scopes, Others \o Guesses(k, order), failed, cache, k)
        BY <2>1, <2>5, GuessesKeep
      <3> QED  BY <3>1, <3>2, <2>3, <2>5
    <2>6. CASE /\ Guessed(k) = {} /\ Unassigned(k) # {} /\ worklist' = Others
               /\ UNCHANGED <<core, scopes, failed, cache, partial, result>>
      <3>1. SearchFits(core, scopes, Others, failed, cache, k)
        BY <2>1, <2>2, <2>6, NothingKeeps
      <3> QED  BY <3>1, <2>3, <2>6
    <2>7. CASE /\ Unassigned(k) = {} /\ cache' = cache \union {FoundSolution(k)}
               /\ core' = [core EXCEPT !.best = Better(core)]
               /\ worklist' = Others /\ UNCHANGED <<scopes, failed, partial, result>>
      <3>1. /\ SearchFits(core', scopes, Others, FALSE, cache \union {FoundSolution(k)}, k)
            /\ Level(core', scopes, 1).assignment = Level(core, scopes, 1).assignment
        BY <2>1, <2>7, FoundKeeps
      <3>2. SearchFits(core', scopes', worklist', failed', cache', Current)
        <4>1. failed' = FALSE
          BY <2>2, <2>7, <1>1 DEF SolutionInv, ScopesInv, Parts
        <4> QED  BY <4>1, <3>1, <2>2, <2>7
      <3>3. splitter' = splitter /\ partial' = partial /\ result' = "none" /\ scopes' = scopes
        BY <2>7, <1>2, <1>3
      <3> QED  BY <3>1, <3>2, <3>3, <1>1, <1>2, <1>5, SearchStep
    <2> QED
      BY <2>2, <2>4, <2>5, <2>6, <2>7, FindCases DEF Better
  <1> QED
    BY <1>3, <1>4, <1>5

\* What is known when the step s resumes and leaves its scope for c.
Resumed(s, c) ==
    /\ SolutionInv /\ worklist # <<>> /\ s = Last(worklist) /\ s.kind = "bind"
    /\ c = GaveUp(s) /\ splitter = "Suspended" /\ system \in Systems
    /\ s \in StepType /\ StepFits(s) /\ s.component = Current
    /\ Current \in DOMAIN system.components
    /\ Chain(core, scopes, worklist)
    /\ Chain(c, Outside(s), Others) /\ Chain(c, Outside(s), Append(Others, Advanced(s)))
    /\ c.assignment[s.var] = Unbound
    /\ SearchFits(core, scopes, worklist, failed, cache, Current)
    /\ Rooted(Level(core, scopes, 1))
    /\ \A S \in cache : S.score \in Nat

\* What the search keeps is about the bindings around that scope, too, and
\* about the choices that only s was to find.
ResumedFits(s, c, n) ==
    /\ Len(Outside(s)) \in Nat /\ Len(Outside(s)) >= 1
    /\ Level(c, Outside(s), 1) = Level(core, scopes, 1)
    /\ Rooted(Level(c, Outside(s), 1))
    /\ BestsFit(c, Outside(s), cache)
    /\ CoversBut(c, Outside(s), Others, cache, n, FALSE, s)
    /\ Simple =>
          /\ CoversBut(c, Outside(s), Others, cache, n, TRUE, s)
          /\ cache = {} => Level(c, Outside(s), 1).best = Infinity
          /\ (\A v \in Var : system.direct[v] = Unbound) =>
                /\ Level(c, Outside(s), 1).best = Infinity
                /\ BoundBy(c.assignment) \subseteq Members(system, n)
          /\ \A j \in DOMAIN Others : (Others[j].kind = "bind" /\ Others[j].valid) => cache # {}
          /\ s.valid => cache # {}
    /\ Others # <<>> /\ Last(Others).kind # "find" /\ Others \in Seq(StepType)
    /\ s.var \in Members(system, n) /\ s.var \in Var /\ system.direct[s.var] = Unbound

LEMMA ResumedFacts ==
    ASSUME ChoiceInv, ResumeBind, NEW s, s = Last(worklist), NEW c, c = GaveUp(s)
    PROVE  Resumed(s, c)
  <1>1. SolutionInv /\ worklist # <<>> /\ s.kind = "bind"
    BY BindCases DEF ChoiceInv
  <1>2. Searching /\ splitter = "Suspended" /\ s.component = Current /\ Current >= 1
        /\ Current \in Nat /\ Current <= Components /\ Components \in Nat /\ Kept(cache, Current)
    BY <1>1, Turn
  <1>3. ScopesInv /\ system \in Systems /\ Chain(core, scopes, worklist)
    BY <1>1, Running DEF SolutionInv
  <1>4. /\ s \in StepType /\ StepFits(s)
        /\ Chain(c, Outside(s), Others) /\ Chain(c, Outside(s), Append(Others, Advanced(s)))
        /\ c.assignment[s.var] = Unbound
    BY <1>1, <1>3, Resuming
  <1>5. Current \in DOMAIN system.components
    BY <1>1, <1>2, <1>4 DEF StepFits
  <1>6. \A S \in cache : S.score \in Nat
    <2>1. Members(system, Current) \in SUBSET Var
      BY <1>3, <1>5, MembersFacts
    <2> QED  BY <2>1, <1>2, SolutionFacts DEF Kept, SolutionOf
  <1> QED
    BY <1>1, <1>2, <1>3, <1>4, <1>5, <1>6 DEF ChoiceInv, Resumed

LEMMA ResumedMore ==
    ASSUME NEW s, NEW c, Resumed(s, c), NEW n, n = Current
    PROVE  ResumedFits(s, c, n)
  <1> DEFINE sc == Outside(s)
  <1>1. /\ Chain(core, scopes, worklist) /\ worklist # <<>> /\ s = Last(worklist)
        /\ s.kind = "bind" /\ Chain(c, sc, Others) /\ system \in Systems
        /\ n \in DOMAIN system.components /\ Rooted(Level(core, scopes, 1))
        /\ SearchFits(core, scopes, worklist, failed, cache, n)
    BY DEF Resumed
  <1>2. c = Given(core, scopes, s) /\ sc = Around(scopes, s)
    BY DEF Resumed, GaveUp, Given, Outside, Around
  <1> HIDE DEF sc
  <1>3. /\ Len(sc) \in 1..Len(scopes) /\ Len(scopes) \in Nat
        /\ LevelsSame(c, sc, core, scopes, Len(sc))
    BY <1>1, <1>2, GiveUpLevels
  <1>4. Level(c, sc, 1) = Level(core, scopes, 1)
    BY <1>3 DEF LevelsSame
  <1>5. BestsFit(c, sc, cache)
    BY <1>1, <1>3, BestsLeft DEF SearchFits
  <1>6. ASSUME NEW last, Covers(core, scopes, worklist, cache, n, last)
        PROVE  CoversBut(c, sc, Others, cache, n, last, s)
    <2>1. CoversBut(c, sc, Front(worklist), cache, n, last, Last(worklist))
      BY <1>1, <1>2, <1>6, CoversLeft
    <2> QED  BY <2>1, <1>1 DEF Others
  <1>7. Others # <<>> /\ Last(Others).kind # "find" /\ Others \in Seq(StepType)
    <2>1. Last(worklist).kind # "split"
      BY <1>1
    <2>2. Others # <<>> /\ Last(Others).kind # "find"
      BY <2>1, OthersTop DEF Resumed
    <2> QED  BY <2>2, <1>1 DEF Chain
  <1>8. s.var \in Members(system, n) /\ s.var \in Var /\ system.direct[s.var] = Unbound
    <2>1. s.var \in Members(system, n) /\ c.assignment[s.var] = Unbound
      BY <1>1 DEF Resumed, StepFits
    <2>2. s.var \in Var
      BY <2>1, <1>1, MembersFacts
    <2> QED  BY <2>1, <2>2, <1>1, <1>4, DirectBound
  <1>9. BoundBy(c.assignment) \subseteq BoundBy(core.assignment)
    <2>1. Advanced(s) \in StepType /\ Advanced(s).kind = "bind" /\ Advanced(s).var = s.var
          /\ Advanced(s).scope = 0
      BY <1>1, AdvancedFacts DEF Resumed
    <2>2. c.assignment = AtLevel(core, Len(c.changes))
      BY <2>1, <1>1, <1>2, GiveUp
    <2> QED  BY <2>2 DEF BoundBy, AtLevel
  <1>10. ASSUME Simple
         PROVE  /\ cache = {} => Level(c, sc, 1).best = Infinity
                /\ (\A v \in Var : system.direct[v] = Unbound) =>
                      /\ Level(c, sc, 1).best = Infinity
                      /\ BoundBy(c.assignment) \subseteq Members(system, n)
                /\ \A j \in DOMAIN Others : (Others[j].kind = "bind" /\ Others[j].valid) => cache # {}
                /\ s.valid => cache # {}
    <2>1. ValidFits(core, scopes, worklist, cache, n)
      BY <1>1, <1>10 DEF SearchFits
    <2>2. \A j \in DOMAIN worklist : (worklist[j].kind = "bind" /\ worklist[j].valid) => cache # {}
      BY <2>1, <1>1 DEF ValidFits, ValidSteps
    <2>3. /\ \A j \in DOMAIN Others : j \in DOMAIN worklist /\ Others[j] = worklist[j]
          /\ Len(worklist) \in DOMAIN worklist /\ s = worklist[Len(worklist)]
      <3>1. worklist \in Seq(StepType) /\ Len(worklist) \in Nat /\ ScopesInv /\ Len(worklist) >= 1
        BY <1>1, Running DEF Resumed, Chain, SolutionInv
      <3>2. DOMAIN Others = 1..(Len(worklist) - 1) /\ \A j \in DOMAIN Others : Others[j] = worklist[j]
        BY <3>1, <1>1, Running
      <3>3. s = worklist[Len(worklist)]
        BY <1>1 DEF Last
      <3> QED  BY <3>1, <3>2, <3>3
    <2> QED  BY <2>1, <2>2, <2>3, <1>1, <1>4, <1>9 DEF ValidFits
  <1>11. /\ CoversBut(c, sc, Others, cache, n, FALSE, s)
         /\ Simple => CoversBut(c, sc, Others, cache, n, TRUE, s)
    BY <1>1, <1>6 DEF SearchFits
  <1>12. Rooted(Level(c, sc, 1))
    BY <1>1, <1>4
  <1>13. Len(sc) \in Nat /\ Len(sc) >= 1
    BY <1>3
  <1>14. CoversBut(c, sc, Others, cache, n, FALSE, s)
    BY <1>11
  <1> QED
    BY ONLY <1>4, <1>5, <1>7, <1>8, <1>10, <1>11, <1>12, <1>13, <1>14 DEF ResumedFits, sc

\* There is nothing else to try,
LEMMA ExhaustedKeeps ==
    ASSUME NEW s, NEW c, NEW n, Resumed(s, c), n = Current, Exhausted(s)
    PROVE  SearchFits(c, Outside(s), Others, FALSE, cache, n)
  <1>1. ResumedFits(s, c, n)
    BY ResumedMore
  <1>2. Covers(c, Outside(s), Others, cache, n, FALSE)
    <2>1. \A w : ~Pending(s, n, w, FALSE)
      BY DEF Resumed, Pending, Exhausted
    <2> QED  BY <1>1, <2>1 DEF ResumedFits, CoversBut, Covers
  <1>3. ASSUME Simple PROVE Covers(c, Outside(s), Others, cache, n, TRUE)
    <2>1. \A w : Pending(s, n, w, TRUE) => s.valid
      BY DEF Resumed, Pending, Exhausted
    <2>2. s.valid => cache # {}
      BY <1>1, <1>3 DEF ResumedFits
    <2>3. CoversBut(c, Outside(s), Others, cache, n, TRUE, s)
      BY <1>1, <1>3 DEF ResumedFits
    <2> QED  BY <2>1, <2>2, <2>3 DEF CoversBut, Covers, Served
  <1>4. FindFits(Outside(s), Others, FALSE, cache)
    BY <1>1 DEF ResumedFits, FindFits
  <1>5. ASSUME Simple PROVE ValidFits(c, Outside(s), Others, cache, n)
    BY <1>1, <1>5 DEF ResumedFits, ValidFits, ValidSteps
  <1>6. BestsFit(c, Outside(s), cache)
    BY <1>1 DEF ResumedFits
  <1> QED
    BY <1>2, <1>3, <1>4, <1>5, <1>6 DEF SearchFits

\* or a guess is made.  The choices that s is to find are found by it, or left
\* for what s tries after it.
LEMMA PendingNext ==
    ASSUME system \in Systems, NEW s \in StepType, s.kind = "bind", StepFits(s), s.var \in Var,
           ~Exhausted(s), NEW n, NEW last \in BOOLEAN, NEW w \in Chosen(last), Pending(s, n, w, last)
    PROVE  \/ Pending(Advanced(s), n, w, last)
           \/ /\ w[s.var] = Guess(s).type
              /\ last \/ Guess(s).score = Score(s.var, Guess(s).type)
  <1> DEFINE t == Advanced(s)
             B == system.bindings[s.var]
  <1>1. /\ t.kind = "bind" /\ t.var = s.var /\ t.component = s.component
        /\ t.bindings = IF s.bindings = {} THEN {} ELSE s.bindings \ {Min(s.bindings)}
        /\ t.followup = (s.followup /\ s.bindings # {})
    BY AdvancedFacts
  <1> HIDE DEF t
  <1>2. s.component = n
    BY DEF Pending
  <1>3. /\ Guess(s).type \in Type
        /\ s.bindings # {} => /\ Min(s.bindings) \in s.bindings
                              /\ Guess(s) = B[Min(s.bindings)]
    BY GuessFacts
  <1>4. CASE \E i \in s.bindings : B[i].type = w[s.var]
    <2>1. PICK i \in s.bindings : B[i].type = w[s.var]
      BY <1>4
    <2>2. CASE i = Min(s.bindings)
      <3>1. Guess(s) = B[i] /\ w[s.var] = Guess(s).type
        BY <2>1, <2>2, <1>3
      <3>2. i \in DOMAIN B
        BY <2>1 DEF StepFits
      <3>3. Guess(s).score = Score(s.var, Guess(s).type)
        BY <3>1, <3>2, <1>3, ScoreFacts
      <3> QED  BY <3>1, <3>3
    <2>3. CASE i # Min(s.bindings)
      <3>1. i \in t.bindings
        BY <2>1, <2>3, <1>1
      <3> QED  BY <3>1, <2>1, <1>1, <1>2 DEF Pending, t
    <2> QED  BY <2>2, <2>3
  <1>5. CASE last /\ s.followup /\ w[s.var] = AnyType
    <2>1. CASE s.bindings = {}
      BY <2>1, <1>5 DEF Guess
    <2>2. CASE s.bindings # {}
      BY <2>2, <1>1, <1>2, <1>5 DEF Pending, t
    <2> QED  BY <2>1, <2>2
  <1> QED
    BY <1>4, <1>5 DEF Pending

\* The guess that s makes.
GuessedIs(s, c, d) == d = Bound(c, {<<s.var, Guess(s).type>>}, Guess(s).score)

GuessKeeps(s, c, d, n, last) ==
    \A w \in Chosen(last) :
        (OnTrack(Now(c), n, w, last) /\ Pending(s, n, w, last)) =>
            \/ Pending(Advanced(s), n, w, last)
            \/ /\ OnTrack(Now(d), n, w, last)
               /\ \A W : ~Conflicts(d.assignment, W)

LEMMA GuessMakes ==
    ASSUME NEW s, NEW c, NEW d, NEW n, Resumed(s, c), n = Current, ~Exhausted(s),
           GuessedIs(s, c, d), NEW last \in BOOLEAN
    PROVE  GuessKeeps(s, c, d, n, last)
  <1>1. /\ system \in Systems /\ s \in StepType /\ s.kind = "bind" /\ StepFits(s)
        /\ n \in DOMAIN system.components /\ c \in CoreType /\ LogExact(c)
        /\ c.assignment[s.var] = Unbound
    BY DEF Resumed, Chain
  <1>2. s.var \in Members(system, n) /\ s.var \in Var /\ system.direct[s.var] = Unbound
    BY ResumedMore DEF ResumedFits
  <1>3. Guess(s).type \in Type /\ Guess(s).score \in Nat
    BY <1>1, GuessFacts
  <1> SUFFICES ASSUME NEW w \in Chosen(last), OnTrack(Now(c), n, w, last), Pending(s, n, w, last),
                      ~Pending(Advanced(s), n, w, last)
               PROVE  OnTrack(Now(d), n, w, last) /\ \A W : ~Conflicts(d.assignment, W)
    BY DEF GuessKeeps
  <1>4. w[s.var] = Guess(s).type /\ (last \/ Guess(s).score = Score(s.var, Guess(s).type))
    BY <1>1, <1>2, PendingNext
  <1> DEFINE t == Guess(s).type
             r == Guess(s).score
             x == s.var
  <1>5. /\ t \in Type /\ r \in Nat /\ x \in Members(system, n) /\ w[x] = t
        /\ AtScore(last, r, x, t)
        /\ c.assignment[x] = Unbound /\ system.direct[x] = Unbound
        /\ d = Bound(c, {<<x, t>>}, r)
    BY <1>1, <1>2, <1>3, <1>4 DEF GuessedIs, AtScore
  <1>6. OnTrack(Now(c), n, w, last) /\ last \in BOOLEAN /\ w \in Chosen(last)
        /\ x \in Members(system, n) /\ n \in DOMAIN system.components
    BY <1>1, <1>5
  <1> HIDE DEF t, r, x
  <1>7. FollowsTo(d, n, w, last)
    BY ONLY <1>1, <1>5, <1>6, GuessOnTrack
  <1> QED
    BY <1>7 DEF FollowsTo

\* One that is not pursued finds nothing,
LEMMA GaveUpKeeps ==
    ASSUME NEW s, NEW c, NEW d, NEW n, Resumed(s, c), n = Current, ~Exhausted(s),
           GuessedIs(s, c, d), d \in CoreType,
           \/ c.best # Infinity /\ d.score > c.best
           \/ Conflicts(d.assignment, Changed(c, d))
    PROVE  SearchFits(c, Outside(s), Append(Others, Advanced(s)), FALSE, cache, n)
  <1> DEFINE t == Advanced(s)
             sc == Outside(s)
             q == Append(Others, t)
  <1>1. ResumedFits(s, c, n)
    BY ResumedMore
  <1>2. /\ system \in Systems /\ n \in DOMAIN system.components
        /\ Chain(c, sc, Others) /\ \A S \in cache : S.score \in Nat
        /\ c.assignment[s.var] = Unbound
    BY DEF Resumed
  <1>3. /\ t \in StepType /\ t.kind = "bind" /\ t.var = s.var /\ t.scope = 0 /\ t.valid = s.valid
    BY AdvancedFacts DEF Resumed
  <1>4. Others \in Seq(StepType)
    BY <1>1 DEF ResumedFits
  <1> HIDE DEF t, sc
  <1>5. /\ <<t>> \in Seq(StepType) /\ q = Others \o <<t>> /\ DOMAIN <<t>> = {1} /\ <<t>>[1] = t
    BY <1>3, <1>4
  <1>6. BestsFit(c, sc, cache)
    BY <1>1 DEF ResumedFits, sc
  <1>7. ASSUME NEW last \in BOOLEAN, CoversBut(c, sc, Others, cache, n, last, s),
               last => (cache = {} => Level(c, sc, 1).best = Infinity)
        PROVE  Covers(c, sc, q, cache, n, last)
    <2>1. ASSUME NEW w \in Chosen(last), OnTrack(Now(c), n, w, last), Pending(s, n, w, last)
          PROVE  \/ Served(cache, Level(c, sc, 1).best, n, w, last)
                 \/ \E i \in DOMAIN <<t>> : Pending(<<t>>[i], n, w, last)
      <3>1. GuessKeeps(s, c, d, n, last)
        BY GuessMakes
      <3>2. CASE Pending(t, n, w, last)
        BY <3>2, <1>5
      <3>3. CASE ~Pending(t, n, w, last)
        <4>1. OnTrack(Now(d), n, w, last) /\ c.best # Infinity /\ d.score > c.best
          BY <3>1, <3>3, <2>1 DEF GuessKeeps, t
        <4> QED  BY <4>1, <1>2, <1>6, <1>7, WorseServed
      <3> QED  BY <3>2, <3>3
    <2>2. \A i \in DOMAIN <<t>> : <<t>>[i].kind = "bind" =>
              <<t>>[i].scope = 0 /\ c.assignment[<<t>>[i].var] = Unbound
      BY <1>2, <1>3, <1>5
    <2> DEFINE g == <<t>>
    <2>3. g \in Seq(StepType) /\ q = Others \o g
      BY <1>5
    <2> HIDE DEF g, q
    <2>4. Covers(c, sc, Others \o g, cache, n, last)
      BY <2>1, <2>2, <2>3, <1>2, <1>7, CoversPushed DEF g
    <2> QED  BY <2>3, <2>4
  <1>8. Covers(c, sc, q, cache, n, FALSE) /\ (Simple => Covers(c, sc, q, cache, n, TRUE))
    BY <1>1, <1>7 DEF ResumedFits, sc
  <1>9. q \in Seq(StepType) /\ Last(q) = t
        /\ \A j \in DOMAIN q : (j \in DOMAIN Others /\ q[j] = Others[j]) \/ q[j] = t
    BY <1>3, <1>4 DEF Last
  <1> HIDE DEF q
  <1>10. FindFits(sc, q, FALSE, cache)
    BY <1>3, <1>9 DEF FindFits
  <1>11. ASSUME Simple PROVE ValidFits(c, sc, q, cache, n)
    <2>1. ValidSteps(c, q, cache, n)
      BY <1>1, <1>3, <1>9, <1>11 DEF ValidSteps, ResumedFits
    <2> QED  BY <2>1, <1>1, <1>11 DEF ValidFits, ResumedFits, sc
  <1>12. SearchFits(c, sc, q, FALSE, cache, n)
    BY <1>6, <1>8, <1>10, <1>11 DEF SearchFits
  <1> QED
    BY <1>12 DEF q, sc, t

\* As many variables as the component has are all of them.
LEMMA AllBound ==
    ASSUME system \in Systems, NEW n \in DOMAIN system.components,
           NEW d \in CoreType, LogExact(d), d.bound = Len(system.components[n]),
           BoundBy(d.assignment) \subseteq Members(system, n)
    PROVE  Members(system, n) \subseteq BoundBy(d.assignment)
  <1> DEFINE V == system.components[n]
  <1>1. V \in Seq(Var) /\ IsInjective(V)
    BY MembersFacts, SystemParts
  <1>2. IsFiniteSet(Members(system, n)) /\ Cardinality(Members(system, n)) = Len(V)
    <2> HIDE DEF V
    <2>1. IsFiniteSet(ToSet(V)) /\ Cardinality(ToSet(V)) = Len(V)
      BY <1>1, InjectiveLength
    <2> QED  BY <2>1 DEF Members, V
  <1>3. /\ d.changes \in Seq(Var) /\ IsInjective(d.changes)
        /\ BoundBy(d.assignment) = ToSet(d.changes) /\ d.bound = Len(d.changes)
    BY DEF CoreType, LogExact, BoundBy
  <1>4. IsFiniteSet(ToSet(d.changes)) /\ Cardinality(ToSet(d.changes)) = Len(d.changes)
    BY <1>3, InjectiveLength
  <1>5. Cardinality(BoundBy(d.assignment)) = Cardinality(Members(system, n))
    BY <1>2, <1>3, <1>4
  <1>6. BoundBy(d.assignment) = Members(system, n)
    BY <1>2, <1>5, FS_Subset
  <1> QED
    BY <1>6

\* Where there are no direct bindings, what is bound stays in the component.
LEMMA GuessWithin ==
    ASSUME system \in Systems, NEW n \in DOMAIN system.components, NEW c \in CoreType, LogExact(c),
           NEW x \in Members(system, n), NEW t \in Type, c.assignment[x] = Unbound, NEW r \in Nat,
           NEW d, d = Bound(c, {<<x, t>>}, r), BoundBy(c.assignment) \subseteq Members(system, n)
    PROVE  BoundBy(d.assignment) \subseteq Members(system, n)
  <1> DEFINE F == {<<x, t>>}
  <1>1. x \in Var /\ Fresh(F, c.assignment) /\ F \in SUBSET Fact /\ c.assignment \in Assignment
    <2>1. x \in Var
      BY MembersFacts
    <2> QED  BY <2>1, BoundOne DEF Fact, CoreType
  <1>2. \A f \in F : f[1] = x
    OBVIOUS
  <1> HIDE DEF F
  <1>3. /\ With(c.assignment, F) \in Assignment
        /\ \A v \in Var : \/ With(c.assignment, F)[v] = c.assignment[v]
                          \/ <<v, With(c.assignment, F)[v]>> \in F
    BY <1>1, WithFacts DEF Fresh
  <1>4. \A f \in Facts(With(c.assignment, F)) : f[1] \in Members(system, n)
    <2> SUFFICES ASSUME NEW f \in Facts(With(c.assignment, F)) PROVE f[1] \in Members(system, n)
      OBVIOUS
    <2>1. f \in Fact /\ With(c.assignment, F)[f[1]] = f[2]
      BY <1>3, FactsOf
    <2>2. f[1] \in Var /\ f[2] # Unbound
      BY <2>1, Constants DEF Fact
    <2>3. CASE With(c.assignment, F)[f[1]] = c.assignment[f[1]]
      BY <2>1, <2>2, <2>3 DEF BoundBy
    <2>4. CASE <<f[1], With(c.assignment, F)[f[1]]>> \in F
      BY <2>4, <1>2
    <2> QED  BY <2>2, <2>3, <2>4, <1>3
  <1>5. \A v \in Var : Bound(c, F, r).assignment[v] # Unbound => v \in Members(system, n)
    BY <1>1, <1>4, BoundWithin
  <1> QED
    BY <1>5 DEF BoundBy, F

\* What a guess makes of the bindings in a scope of its own.
Entered(s, c, d, n) ==
    /\ Chain(d, Append(Outside(s), Scope(c)),
             Others \o <<Inner(s, Len(Outside(s)) + 1, Valid(s, d)), Find(n)>>)
    /\ Deepened(c, Outside(s), Others, d, Append(Outside(s), Scope(c)),
                Others \o <<Inner(s, Len(Outside(s)) + 1, Valid(s, d)), Find(n)>>)
    /\ Adds(d, c, Guess(s).score)

LEMMA EnteredFacts ==
    ASSUME NEW s, NEW c, NEW d, NEW n, Resumed(s, c), n = Current, ~Exhausted(s),
           GuessedIs(s, c, d), ~Conflicts(d.assignment, Changed(c, d))
    PROVE  Entered(s, c, d, n)
  <1> DEFINE sc == Outside(s)
             K == Len(sc) + 1
             e == Inner(s, K, Valid(s, d))
             x == s.var
             t == Guess(s).type
             r == Guess(s).score
  <1>1. /\ system \in Systems /\ s \in StepType /\ s.kind = "bind" /\ StepFits(s)
        /\ n \in DOMAIN system.components /\ c \in CoreType /\ LogExact(c)
        /\ c.assignment[x] = Unbound /\ Chain(c, sc, Others)
    BY DEF Resumed, Chain
  <1>2. x \in Var /\ Len(sc) \in Nat /\ n \in Nat
    BY <1>1, ResumedMore, MembersFacts DEF ResumedFits
  <1>3. t \in Type /\ r \in Nat /\ IsScore(x, t, r)
    BY <1>1, GuessFacts
  <1>4. K \in Nat /\ Valid(s, d) \in BOOLEAN
    <2>1. s.valid \in BOOLEAN
      BY <1>1, StepFields DEF BindType
    <2> QED  BY <2>1, <1>2 DEF Valid
  <1>5. d = Bound(c, {<<x, t>>}, r)
    BY DEF GuessedIs
  <1> HIDE DEF K, t, r, sc
  <1>6. e \in StepType /\ e.kind = "bind" /\ e.var = x /\ e.scope = K
    BY <1>1, <1>4, InnerFacts
  <1> HIDE DEF e, x
  <1>7. Adds(d, c, r)
    BY <1>1, <1>2, <1>3, <1>5, BoundOne
  <1>8. /\ Chain(d, Append(sc, Scope(c)), Others \o <<e, Find(n)>>)
        /\ Deepened(c, sc, Others, d, Append(sc, Scope(c)), Others \o <<e, Find(n)>>)
    BY <1>1, <1>2, <1>3, <1>5, <1>6, Guessing DEF K
  <1> QED
    BY <1>7, <1>8 DEF Entered, sc, e, K, r

\* or is pursued in a scope of its own.
LEMMA DeeperKeeps ==
    ASSUME NEW s, NEW c, NEW d, NEW n, Resumed(s, c), n = Current, ~Exhausted(s),
           GuessedIs(s, c, d), ~Conflicts(d.assignment, Changed(c, d)),
           ~(c.best # Infinity /\ d.score > c.best)
    PROVE  /\ SearchFits(d, Append(Outside(s), Scope(c)),
                         Others \o <<Inner(s, Len(Outside(s)) + 1, Valid(s, d)), Find(n)>>,
                         FALSE, cache, n)
           /\ Level(d, Append(Outside(s), Scope(c)), 1) = Level(c, Outside(s), 1)
  <1> DEFINE sc == Outside(s)
             sd == Append(sc, Scope(c))
             e == Inner(s, Len(sc) + 1, Valid(s, d))
             v == Others \o <<e, Find(n)>>
  <1>1. ResumedFits(s, c, n)
    BY ResumedMore
  <1>2. /\ system \in Systems /\ s \in StepType /\ s.kind = "bind" /\ StepFits(s)
        /\ n \in DOMAIN system.components /\ c \in CoreType /\ LogExact(c)
        /\ c.assignment[s.var] = Unbound /\ Chain(c, sc, Others) /\ s.component = n
    BY DEF Resumed, Chain
  <1>3. Chain(d, sd, v) /\ Deepened(c, sc, Others, d, sd, v) /\ Adds(d, c, Guess(s).score)
    BY EnteredFacts DEF Entered
  <1>4. Len(sc) \in Nat /\ Len(sc) >= 1 /\ Others \in Seq(StepType) /\ sc \in Seq(ScopeType)
    BY <1>1, <1>2 DEF ResumedFits, Chain, ScopesFit
  <1>5. Len(sd) = Len(sc) + 1
    BY <1>4
  <1>6. e \in StepType /\ e.kind = "bind" /\ e.var = s.var /\ e.valid = Valid(s, d)
        /\ e.component = n /\ e.bindings = Advanced(s).bindings
        /\ e.followup = Advanced(s).followup
    <2> DEFINE K == Len(sc) + 1
    <2>1. K \in Nat /\ Valid(s, d) \in BOOLEAN
      <3>1. s.valid \in BOOLEAN
        BY <1>2, StepFields DEF BindType
      <3> QED  BY <3>1, <1>4 DEF Valid
    <2> HIDE DEF K
    <2>2. e = Inner(s, K, Valid(s, d))
      BY DEF K
    <2> HIDE DEF e
    <2> QED  BY <2>1, <2>2, <1>2, InnerFacts
  <1>7. LevelsSame(d, sd, c, sc, Len(sc))
    <2> HIDE DEF v, sc
    <2> QED  BY <1>2, <1>3, DeeperLevels
  <1>8. Level(d, sd, 1) = Level(c, sc, 1)
    BY <1>4, <1>7 DEF LevelsSame
  <1>9. Advanced(s).kind = "bind" /\ Advanced(s).var = s.var /\ Advanced(s).component = n
    BY <1>2, AdvancedFacts
  <1>10. v \in Seq(StepType) /\ v # <<>> /\ Last(v) = Find(n)
         /\ \A j \in DOMAIN v : (j \in DOMAIN Others /\ v[j] = Others[j]) \/ v[j] = e \/ v[j] = Find(n)
    <2>1. v \in Seq(StepType)
      BY <1>3 DEF Chain
    <2>2. Find(n) \in StepType
      BY <1>2, MembersFacts DEF Find, StepType
    <2> HIDE DEF e
    <2> QED  BY <2>1, <2>2, <1>4, <1>6 DEF Last
  <1>11. Find(n).kind = "find"
    BY DEF Find
  <1>12. d \in CoreType /\ LogExact(d) /\ d.best = c.best
    BY <1>3 DEF Adds
  <1>13. sd = Append(sc, Scope(c)) /\ v = Others \o <<e, Find(n)>>
    OBVIOUS
  <1>14. BestsFit(c, sc, cache)
    BY <1>1 DEF ResumedFits
  <1> HIDE DEF sc, sd, e, v
  <1>15. BestsFit(d, sd, cache)
    <2>1. ~(c.best # Infinity /\ d.score > c.best)
      OBVIOUS
    <2> QED  BY ONLY <2>1, <1>2, <1>3, <1>7, <1>12, <1>13, <1>14, BestsDeeper
  <1>16. FindFits(sd, v, FALSE, cache)
    BY <1>4, <1>5, <1>10 DEF FindFits
  <1>17. ASSUME NEW last \in BOOLEAN, CoversBut(c, sc, Others, cache, n, last, s)
         PROVE  Covers(d, sd, v, cache, n, last)
    <2>1. ASSUME NEW w \in Chosen(last), OnTrack(Now(c), n, w, last), Pending(s, n, w, last)
          PROVE  OnTrack(Now(d), n, w, last) \/ Pending(e, n, w, last)
      <3>1. GuessKeeps(s, c, d, n, last)
        BY GuessMakes
      <3>2. Pending(Advanced(s), n, w, last) => Pending(e, n, w, last)
        BY <1>6, <1>9 DEF Pending
      <3> QED  BY <3>1, <3>2, <2>1 DEF GuessKeeps
    <2> QED  BY ONLY <2>1, <1>2, <1>3, <1>13, <1>17, CoversDeeper
  <1>18. Covers(d, sd, v, cache, n, FALSE) /\ (Simple => Covers(d, sd, v, cache, n, TRUE))
    BY <1>1, <1>17 DEF ResumedFits, sc
  <1>19. ASSUME Simple PROVE ValidFits(d, sd, v, cache, n)
    <2>1. /\ cache = {} => Level(c, sc, 1).best = Infinity
          /\ (\A y \in Var : system.direct[y] = Unbound) =>
                /\ Level(c, sc, 1).best = Infinity
                /\ BoundBy(c.assignment) \subseteq Members(system, n)
          /\ \A j \in DOMAIN Others : (Others[j].kind = "bind" /\ Others[j].valid) => cache # {}
          /\ s.valid => cache # {}
          /\ s.var \in Members(system, n)
      BY <1>1, <1>19 DEF ResumedFits, sc
    <2>2. ASSUME \A y \in Var : system.direct[y] = Unbound
          PROVE  BoundBy(d.assignment) \subseteq Members(system, n)
      <3> DEFINE x == s.var
                 t == Guess(s).type
                 r == Guess(s).score
      <3>1. /\ t \in Type /\ r \in Nat /\ x \in Members(system, n) /\ c.assignment[x] = Unbound
            /\ d = Bound(c, {<<x, t>>}, r)
            /\ BoundBy(c.assignment) \subseteq Members(system, n)
        BY <2>1, <2>2, <1>2, GuessFacts DEF GuessedIs
      <3> HIDE DEF x, t, r
      <3> QED  BY <3>1, <1>2, GuessWithin
    <2>3. BoundBy(d.assignment) \subseteq Members(system, n)
      <3>1. CASE Len(system.components) = 1
        <4>1. system.components \in Seq(Seq(Var))
          BY <1>2, SystemType
        <4>2. \A k \in DOMAIN system.components : k = n
          BY <3>1, <4>1, <1>2
        <4>3. \A y \in Var : y \in Members(system, n)
          BY <4>2, <1>2, SystemParts
        <4> QED  BY <4>3 DEF BoundBy
      <3>2. CASE Len(system.components) # 1
        BY <3>2, <2>2, <1>19 DEF Simple
      <3> QED  BY <3>1, <3>2
    <2>4. d.bound = Len(system.components[n]) => Members(system, n) \subseteq BoundBy(d.assignment)
      BY <2>3, <1>2, <1>12, AllBound
    <2>5. Valid(s, d) => cache # {} \/ Members(system, n) \subseteq BoundBy(d.assignment)
      BY <2>1, <2>4, <1>2 DEF Valid
    <2>6. ValidSteps(d, v, cache, n)
      BY <2>1, <2>5, <1>6, <1>10, <1>11 DEF ValidSteps
    <2> QED  BY <2>1, <2>3, <2>6, <1>8 DEF ValidFits
  <1>20. SearchFits(d, sd, v, FALSE, cache, n)
    BY <1>15, <1>16, <1>18, <1>19 DEF SearchFits
  <1> QED
    BY <1>8, <1>20 DEF sc, sd, e, v

LEMMA ResumeBindChoice ==
    ASSUME ChoiceInv, ResumeBind
    PROVE  ChoiceInv'
  <1>1. SolutionInv /\ SolutionInv'
    BY ResumeBindSolution DEF ChoiceInv
  <1>2. /\ worklist # <<>> /\ Last(worklist).kind = "bind"
        /\ UNCHANGED <<system, solutions, stop>>
    BY BindCases
  <1>3. PICK s, c, d :
            /\ s = Last(worklist) /\ c = GaveUp(s)
            /\ \/ Exhausted(s) /\ Backtrack(s, c, Others)
               \/ /\ ~Exhausted(s)
                  /\ d = Bound(c, {<<s.var, Guess(s).type>>}, Guess(s).score)
                  /\ Try(s, c, d)
    BY BindCases
  <1> DEFINE n == Current
             sc == Outside(s)
  <1>4. Resumed(s, c)
    BY <1>3, ResumedFacts
  <1>5. splitter = "Suspended" /\ result = "none" /\ s.component = n
    BY <1>1, <1>2, <1>4, Turn DEF Resumed
  <1>6. ResumedFits(s, c, n)
    BY <1>4, ResumedMore
  <1>7. ASSUME NEW e, NEW se, NEW q, core' = e, scopes' = se, worklist' = q, failed' = FALSE,
               UNCHANGED <<splitter, cache, partial, result>>,
               SearchFits(e, se, q, FALSE, cache, n), Level(e, se, 1) = Level(c, sc, 1)
        PROVE  ChoiceInv'
    <2>1. Level(core', scopes', 1).assignment = Level(core, scopes, 1).assignment
      BY <1>6, <1>7 DEF ResumedFits
    <2>2. SearchFits(core', scopes', worklist', failed', cache', Current)
      BY <1>7
    <2>3. result' = "none"
      BY <1>5, <1>7
    <2> QED  BY <2>1, <2>2, <2>3, <1>1, <1>2, <1>5, <1>7, SearchStep
  <1>8. CASE Exhausted(s) /\ Backtrack(s, c, Others)
    <2>1. SearchFits(c, sc, Others, FALSE, cache, n)
      BY <1>4, <1>8, ExhaustedKeeps
    <2> QED  BY <2>1, <1>7, <1>8 DEF Backtrack
  <1>9. CASE ~Exhausted(s) /\ Try(s, c, d)
                           /\ d = Bound(c, {<<s.var, Guess(s).type>>}, Guess(s).score)
    <2>1. GuessedIs(s, c, d)
      BY <1>9 DEF GuessedIs
    <2>2. d \in CoreType
      <3>1. /\ system \in Systems /\ s \in StepType /\ s.kind = "bind" /\ StepFits(s)
            /\ c \in CoreType /\ LogExact(c) /\ c.assignment[s.var] = Unbound
        BY <1>4 DEF Resumed, Chain
      <3>2. s.var \in Var /\ Guess(s).type \in Type /\ Guess(s).score \in Nat
        BY <3>1, <1>6, <1>9, GuessFacts DEF ResumedFits
      <3> DEFINE x == s.var
                 t == Guess(s).type
                 r == Guess(s).score
      <3>3. x \in Var /\ t \in Type /\ r \in Nat /\ c.assignment[x] = Unbound
            /\ d = Bound(c, {<<x, t>>}, r)
        BY <3>1, <3>2, <1>9
      <3> HIDE DEF x, t, r
      <3>4. Adds(d, c, r)
        BY <3>1, <3>3, BoundOne
      <3> QED  BY <3>4 DEF Adds
    <2>3. CASE /\ \/ c.best # Infinity /\ d.score > c.best
                  \/ Conflicts(d.assignment, Changed(c, d)) /\ ~stop
               /\ Backtrack(s, c, Append(Others, Advanced(s)))
      <3>1. SearchFits(c, sc, Append(Others, Advanced(s)), FALSE, cache, n)
        BY <2>1, <2>2, <2>3, <1>4, <1>9, GaveUpKeeps
      <3> QED  BY <3>1, <2>3, <1>7 DEF Backtrack
    <2>4. CASE stop /\ Return("failure")
      <3>1. Simple => Chosen(TRUE) = {}
        BY <2>4 DEF ChoiceInv
      <3> QED  BY <3>1, <2>4, <1>1, <1>2, ReturnStep
    <2>5. CASE /\ ~Conflicts(d.assignment, Changed(c, d))
               /\ ~(c.best # Infinity /\ d.score > c.best)
               /\ core' = d /\ scopes' = Append(sc, Scope(c))
               /\ worklist' = Others \o <<Inner(s, Len(sc) + 1, Valid(s, d)), Find(s.component)>>
               /\ failed' = FALSE
               /\ UNCHANGED <<splitter, cache, partial, result>>
      <3>1. /\ SearchFits(d, Append(sc, Scope(c)),
                          Others \o <<Inner(s, Len(sc) + 1, Valid(s, d)), Find(n)>>,
                          FALSE, cache, n)
            /\ Level(d, Append(sc, Scope(c)), 1) = Level(c, sc, 1)
        BY <2>1, <2>5, <1>4, <1>9, DeeperKeeps
      <3> HIDE DEF n
      <3> QED  BY <3>1, <2>5, <1>5, <1>7
    <2> QED  BY <2>3, <2>4, <2>5, <1>9, TryCases
  <1> QED
    BY <1>3, <1>8, <1>9

\* Without steps for guesses there is one scope.
LEMMA OneScope ==
    ASSUME NEW c, NEW sc, NEW q, Chain(c, sc, q), \A j \in DOMAIN q : q[j].kind # "bind"
    PROVE  Open(q) = {} /\ Len(sc) = 1
  <1>1. Open(q) = {}
    BY DEF Open
  <1>2. 2..Len(sc) = {}
    BY <1>1 DEF Chain, GuessesFit
  <1>3. Len(sc) \in Nat /\ Len(sc) >= 1
    BY TopIs
  <1> DEFINE K == Len(sc)
  <1>4. 2..K = {} /\ K \in Nat /\ K >= 1
    BY <1>2, <1>3
  <1> HIDE DEF K
  <1>5. ~(K >= 2)
    <2> SUFFICES ASSUME K >= 2 PROVE FALSE
      OBVIOUS
    <2>1. K \in 2..K
      BY <1>4
    <2> QED  BY <2>1, <1>4
  <1>6. K = 1
    BY <1>4, <1>5
  <1> QED
    BY <1>1, <1>6 DEF K

\* The search for a component starts with all choices to be found.
LEMMA SearchStarts ==
    ASSUME system \in Systems, NEW n \in DOMAIN system.components,
           NEW c, NEW sc, NEW q, Chain(c, sc, q), q # <<>>, Last(q) = Find(n),
           \A j \in DOMAIN q : q[j].kind # "bind", Rooted(Level(c, sc, 1)),
           Level(c, sc, 1).best \in {0, Infinity}, Simple => Level(c, sc, 1).best = Infinity
    PROVE  SearchFits(c, sc, q, FALSE, {}, n)
  <1>1. Open(q) = {} /\ Len(sc) = 1
    BY OneScope
  <1>2. Level(c, sc, 1) = Now(c) /\ Level(c, sc, 1).score = 0
    <2>1. Level(c, sc, Len(sc)) = Now(c)
      BY TopIs
    <2>2. 1 \in 1..Len(sc)
      BY <1>1
    <2>3. Level(c, sc, 1).score = 0
      BY <2>2, LevelFacts
    <2> QED  BY <2>1, <2>3, <1>1
  <1>3. Len(q) \in DOMAIN q /\ q[Len(q)] = Find(n)
    <2>1. q \in Seq(StepType)
      BY DEF Chain
    <2> QED  BY <2>1 DEF Last
  <1>4. ASSUME NEW last \in BOOLEAN, NEW w \in Chosen(last)
        PROVE  Hope(c, sc, q, n, w, last)
    <2>1. w \in Chosen(TRUE) /\ w \in [Var -> Type]
      BY ChosenFacts
    <2>2. Agrees(Level(c, sc, 1).assignment, w)
      BY <2>1 DEF Rooted
    <2>3. 0 <= Charge(w, BoundBy(Level(c, sc, 1).assignment) \intersect Members(system, n))
      <3> DEFINE V == BoundBy(Level(c, sc, 1).assignment) \intersect Members(system, n)
      <3>1. V \in SUBSET Var
        BY DEF BoundBy
      <3> HIDE DEF V
      <3>2. Charge(w, V) \in Nat
        BY <3>1, <2>1, ChargeFacts DEF Charges
      <3>3. 0 <= Charge(w, V)
        BY <3>2
      <3> QED  BY <3>3 DEF V
    <2>4. OnTrack(Level(c, sc, 1), n, w, last)
      BY <2>2, <2>3, <1>2 DEF OnTrack
    <2>5. Pending(q[Len(q)], n, w, last)
      BY <1>3 DEF Pending, Find
    <2>6. At(q, Len(q), 1)
      BY <1>1 DEF At
    <2>7. 1 \in 1..Len(sc)
      BY <1>1
    <2> QED  BY <2>4, <2>5, <2>6, <2>7, <1>3 DEF Hope
  <1>5. Covers(c, sc, q, {}, n, TRUE) /\ Covers(c, sc, q, {}, n, FALSE)
    BY <1>4 DEF Covers
  <1>6. BestsFit(c, sc, {})
    <2>1. \A m \in 1..Len(sc) : m = 1
      BY <1>1
    <2> QED  BY <2>1, <1>2 DEF BestsFit
  <1>7. FindFits(sc, q, FALSE, {})
    BY DEF FindFits
  <1>8. Simple => ValidFits(c, sc, q, {}, n)
    <2>1. (\A v \in Var : system.direct[v] = Unbound) => BoundBy(c.assignment) = {}
      BY <1>2 DEF Rooted, Now
    <2> QED  BY <2>1 DEF ValidFits, ValidSteps
  <1> QED
    BY <1>5, <1>6, <1>7, <1>8 DEF SearchFits

\* The search for the last component,
LEMMA SplitStarts ==
    ASSUME ChoiceInv, ExecuteSplitter
    PROVE  /\ worklist' # <<>> /\ Last(worklist') = Find(Components)
           /\ \A j \in DOMAIN worklist' : worklist'[j].kind # "bind"
  <1> DEFINE g == [i \in 1..(2 * Components) |->
                       IF i % 2 = 1 THEN Split ELSE Find(i \div 2)]
  <1>1. /\ worklist # <<>> /\ splitter = "Idle" /\ worklist' = Others \o g
    BY DEF ExecuteSplitter, NextIs, Components
  <1>2. /\ worklist = <<Split>> /\ Components \in Nat /\ Components >= 1 /\ SolutionInv
    BY <1>1, Turn DEF SearchInv, ChoiceInv
  <1> HIDE DEF g
  <1>3. worklist' = g
    <2>1. Others \in Seq(StepType) /\ Len(Others) = Len(worklist) - 1
      BY <1>1, <1>2, Running DEF SolutionInv
    <2>2. Len(worklist) = 1
      BY <1>2
    <2>3. Others = <<>>
      BY <2>1, <2>2
    <2>4. 2 * Components \in Nat
      BY <1>2
    <2>5. g \in Seq({g[i] : i \in 1..(2 * Components)})
      BY <2>4 DEF g
    <2> QED  BY <2>3, <2>5, <1>1
  <1>4. \A j \in DOMAIN g : g[j].kind # "bind"
    BY DEF g, Split, Find
  <1>5. /\ DOMAIN g = 1..(2 * Components) /\ Len(g) = 2 * Components
        /\ g[2 * Components] = Find(Components)
    <2>1. (2 * Components) % 2 # 1 /\ (2 * Components) \div 2 = Components
          /\ 2 * Components \in 1..(2 * Components)
      BY <1>2
    <2> QED  BY <2>1, <1>2 DEF g
  <1>6. g # <<>>
    BY <1>2, <1>5
  <1> QED
    BY <1>3, <1>4, <1>5, <1>6 DEF Last

LEMMA ExecuteSplitterChoice ==
    ASSUME ChoiceInv, ExecuteSplitter
    PROVE  ChoiceInv'
  <1>1. SolutionInv /\ SolutionInv'
    BY ExecuteSplitterSolution DEF ChoiceInv
  <1>2. /\ worklist # <<>> /\ splitter = "Idle" /\ splitter' = "Suspended" /\ failed' = FALSE
        /\ UNCHANGED <<system, core, scopes, cache, partial, result, stop>>
    BY DEF ExecuteSplitter, NextIs
  <1>3. /\ Searching /\ partial = <<>> /\ cache = {} /\ result = "none"
        /\ Components \in Nat /\ Components >= 1 /\ system \in Systems
    BY <1>1, <1>2, Turn DEF SearchInv, SolutionInv, ScopesInv, Parts
  <1>4. Rooted(Level(core, scopes, 1)) /\ Level(core, scopes, 1).best = Infinity
    BY <1>2, <1>3 DEF ChoiceInv
  <1>5. /\ worklist' # <<>> /\ Last(worklist') = Find(Components)
        /\ \A j \in DOMAIN worklist' : worklist'[j].kind # "bind"
    BY SplitStarts
  <1>6. Chain(core, scopes, worklist')
    <2>1. Chain(core, scopes, worklist)'
      BY <1>1, <1>2, <1>3 DEF SolutionInv, ScopesInv, Searching
    <2>2. Chain(core', scopes', worklist')
      BY <2>1, <1>2, SystemFrame
    <2> QED  BY <2>2, <1>2
  <1>7. Components \in DOMAIN system.components
    BY <1>3, SystemType DEF Components
  <1>8. SearchFits(core, scopes, worklist', FALSE, {}, Components)
    BY <1>3, <1>4, <1>5, <1>6, <1>7, SearchStarts
  <1>9. Current' = Components
    BY <1>2, <1>3, SearchFrame DEF Current
  <1>10. SearchFits(core, scopes, worklist, failed, cache, Current)'
    <2>1. SearchFits(core', scopes', worklist', failed', cache', Components)
      BY <1>2, <1>3, <1>8
    <2> QED  BY <2>1, <1>2, <1>9, ChoiceFrame
  <1>11. LowestBefore(partial)'
    <2>1. LowestBefore(partial')
      BY <1>2, <1>3 DEF LowestBefore
    <2> QED  BY <2>1, <1>2, ChoiceFrame
  <1>12. Rooted(Level(core, scopes, 1))'
    BY <1>2, <1>4, LevelFrame, ChoiceFrame
  <1>13. LowestScore'
    BY <1>2, <1>3 DEF LowestScore
  <1>14. (Simple /\ (result = "failure" \/ stop \/ splitter = "Error") => Chosen(TRUE) = {})'
    BY <1>2, <1>3, ChosenFrame DEF ChoiceInv
  <1> QED
    BY <1>1, <1>2, <1>10, <1>11, <1>12, <1>13, <1>14 DEF ChoiceInv

\* What is known when the splitter resumes after the n-th component.
Splitting(n) ==
    /\ SolutionInv /\ worklist # <<>> /\ Last(worklist).kind = "split"
    /\ splitter = "Suspended" /\ result = "none" /\ system \in Systems
    /\ n = Current /\ n \in DOMAIN system.components /\ n \in Nat /\ n >= 1
    /\ Components \in Nat /\ n <= Components
    /\ Components = Len(system.components) /\ system.components \in Seq(Seq(Var))
    /\ PartialFits(partial) /\ Len(partial) = Components - n
    /\ Others \in Seq(StepType) /\ Len(Others) = 2 * n - 2
    /\ \A j \in DOMAIN Others : Others[j] = Rest(j)
    /\ \A j \in DOMAIN worklist : j < 2 * n /\ j \in Nat /\ worklist[j] = Rest(j)
    /\ Chain(core, scopes, worklist) /\ Chain(core, scopes, Others)
    /\ Rooted(Level(core, scopes, 1)) /\ LowestBefore(partial)
    /\ SearchFits(core, scopes, worklist, failed, cache, n)
    /\ cache \in SUBSET SolutionOf(n) /\ IsFiniteSet(cache)

LEMMA SplittingFacts ==
    ASSUME ChoiceInv, ResumeSplitter
    PROVE  Splitting(Current)
  <1> DEFINE n == Current
  <1>1. SolutionInv /\ worklist # <<>> /\ Last(worklist).kind = "split" /\ splitter = "Suspended"
    BY DEF ResumeSplitter, NextIs, ChoiceInv
  <1>2. /\ Searching /\ result = "none" /\ PartialFits(partial) /\ Ordered(worklist, n)
        /\ Kept(cache, n) /\ Components \in Nat /\ Len(partial) \in Nat
        /\ n \in Nat /\ n <= Components /\ n >= 1
        /\ Len(worklist) = 2 * n - 1
    BY <1>1, Turn
  <1>3. ScopesInv /\ system \in Systems /\ Chain(core, scopes, worklist)
    BY <1>1, Running DEF SolutionInv
  <1>4. Chain(core, scopes, Others)
    BY <1>1, <1>3, Dropped
  <1>5. n \in DOMAIN system.components /\ Len(partial) = Components - n
        /\ Components = Len(system.components) /\ system.components \in Seq(Seq(Var))
    BY <1>2, <1>3, SystemType DEF Current, Components
  <1>6. /\ Others \in Seq(StepType) /\ Len(Others) = 2 * n - 2
        /\ \A j \in DOMAIN Others : Others[j] = Rest(j)
    BY <1>1, SplitAlone
  <1>7. \A j \in DOMAIN worklist : j < 2 * n /\ j \in Nat /\ worklist[j] = Rest(j)
    <2>1. worklist \in Seq(StepType)
      BY <1>3 DEF Chain
    <2>2. \A j \in DOMAIN worklist : j < 2 * n /\ j \in Nat
      BY <2>1, <1>2
    <2> QED  BY <2>2, <1>2 DEF Ordered
  <1>8. cache \in SUBSET SolutionOf(n) /\ IsFiniteSet(cache)
    BY <1>2 DEF Kept
  <1> HIDE DEF n
  <1>9. Rooted(Level(core, scopes, 1)) /\ LowestBefore(partial)
        /\ SearchFits(core, scopes, worklist, failed, cache, n)
    BY <1>1, <1>2 DEF ChoiceInv, n
  <1>10. n = Current
    BY DEF n
  <1> QED
    BY <1>1, <1>2, <1>3, <1>4, <1>5, <1>6, <1>7, <1>8, <1>9, <1>10 DEF Splitting

\* No step on the worklist is to find anything of this component.
LEMMA NoHope ==
    ASSUME NEW n, Splitting(n), NEW w, NEW last
    PROVE  ~Hope(core, scopes, worklist, n, w, last)
  <1>1. ASSUME NEW j \in DOMAIN worklist PROVE ~Pending(worklist[j], n, w, last)
    <2>1. j < 2 * n /\ j \in Nat /\ n \in Nat /\ worklist[j] = Rest(j)
      BY <1>1 DEF Splitting
    <2>2. j \div 2 # n
      BY <2>1
    <2> QED  BY <2>1, <2>2 DEF Rest, Pending, Split, Find
  <1> QED
    BY <1>1 DEF Hope

\* The best solutions are as good as any choice.
LEMMA BestLowest ==
    ASSUME NEW n, Splitting(n), cache # {}
    PROVE  \A w \in Chosen(FALSE) : \A i \in DOMAIN Best(cache) :
               Best(cache)[i].score <= Charge(w, Members(system, n))
  <1>1. /\ system \in Systems /\ n \in DOMAIN system.components
        /\ cache \in SUBSET SolutionOf(n) /\ IsFiniteSet(cache)
        /\ SearchFits(core, scopes, worklist, failed, cache, n)
    BY DEF Splitting
  <1>2. Members(system, n) \in SUBSET Var
    BY <1>1, MembersFacts
  <1>3. \A i \in DOMAIN Best(cache) : /\ Best(cache)[i] \in cache
                                      /\ \A T \in cache : Best(cache)[i].score <= T.score
    BY <1>1, <1>2, BestFacts DEF SolutionOf
  <1> SUFFICES ASSUME NEW w \in Chosen(FALSE), NEW i \in DOMAIN Best(cache)
               PROVE  Best(cache)[i].score <= Charge(w, Members(system, n))
    OBVIOUS
  <1> DEFINE S == Best(cache)[i]
             b == Level(core, scopes, 1).best
  <1>4. S \in cache /\ \A T \in cache : S.score <= T.score /\ T.score \in Nat
    <2>1. \A T \in cache : T.score \in Nat
      BY <1>1, <1>2, SolutionFacts DEF SolutionOf
    <2> QED  BY <2>1, <1>3
  <1>5. Charge(w, Members(system, n)) \in Nat
    <2>1. w \in [Var -> Type]
      BY <1>1, ChosenFacts
    <2> QED  BY <2>1, <1>1, <1>2, ChargeFacts DEF Charges
  <1> HIDE DEF S
  <1>6. Served(cache, b, n, w, FALSE)
    <2>1. Covers(core, scopes, worklist, cache, n, FALSE)
      BY <1>1 DEF SearchFits
    <2> QED  BY <2>1, NoHope DEF Covers
  <1>7. CASE b # Infinity
    <2>1. S.score = 0
      BY <1>1, <1>4, <1>7 DEF SearchFits, BestsFit
    <2> QED  BY <2>1, <1>5 DEF S
  <1>8. CASE b = Infinity
    <2>1. PICK T \in cache : T.score <= Charge(w, Members(system, n))
      BY <1>6, <1>8 DEF Served
    <2>2. S.score <= T.score /\ S.score \in Nat /\ T.score \in Nat
      BY <1>4
    <2>3. S.score <= Charge(w, Members(system, n))
      BY <2>1, <2>2, <1>5
    <2> QED  BY <2>3 DEF S
  <1> QED
    BY <1>7, <1>8

\* A component without a solution has no choice.
LEMMA NothingFound ==
    ASSUME NEW n, Splitting(n), Simple, failed \/ cache = {}
    PROVE  Chosen(TRUE) = {}
  <1>1. SearchFits(core, scopes, worklist, failed, cache, n)
    BY DEF Splitting
  <1>2. cache = {}
    BY <1>1 DEF SearchFits, FindFits
  <1>3. Covers(core, scopes, worklist, cache, n, TRUE)
    BY <1>1 DEF SearchFits
  <1> QED
    BY <1>2, <1>3, NoHope DEF Covers, Served

\* The search for the next one starts.
LEMMA NextStarts ==
    ASSUME NEW n, Splitting(n), n - 1 >= 1
    PROVE  SearchFits(core, scopes, Others, FALSE, {}, n - 1)
  <1> DEFINE m == n - 1
  <1>1. /\ system \in Systems /\ n \in DOMAIN system.components /\ n \in Nat
        /\ Components = Len(system.components) /\ system.components \in Seq(Seq(Var))
        /\ n <= Components /\ Components \in Nat
        /\ Others \in Seq(StepType) /\ Len(Others) = 2 * n - 2
        /\ \A j \in DOMAIN Others : Others[j] = Rest(j)
        /\ Chain(core, scopes, Others) /\ Rooted(Level(core, scopes, 1))
        /\ SearchFits(core, scopes, worklist, failed, cache, n)
    BY DEF Splitting
  <1>2. m \in DOMAIN system.components /\ m \in Nat /\ Len(Others) = 2 * m /\ m >= 1
    BY <1>1, SMTT(30)
  <1> HIDE DEF m
  <1>3. Others # <<>> /\ Last(Others) = Find(m) /\ \A j \in DOMAIN Others : Others[j].kind # "bind"
    <2>1. (2 * m) % 2 # 1 /\ (2 * m) \div 2 = m /\ 2 * m \in 1..(2 * m)
      BY <1>2
    <2>2. Rest(2 * m) = Find(m)
      BY <2>1 DEF Rest
    <2>3. Others[2 * m] = Find(m)
      BY <2>1, <2>2, <1>1, <1>2
    <2>4. \A j \in DOMAIN Others : Others[j].kind # "bind"
      <3>1. Split.kind # "bind" /\ \A k : Find(k).kind # "bind"
        BY DEF Split, Find
      <3>2. \A j : Rest(j) = Split \/ Rest(j) = Find(j \div 2)
        BY DEF Rest
      <3> QED  BY <3>1, <3>2, <1>1
    <2>5. Others # <<>>
      BY <1>1, <1>2
    <2> QED  BY <2>3, <2>4, <2>5, <1>2 DEF Last
  <1>4. Level(core, scopes, 1).best \in {0, Infinity}
    <2>1. 1 \in 1..Len(scopes)
      <3>1. Len(scopes) \in Nat /\ Len(scopes) >= 1
        BY <1>1, TopIs
      <3> QED  BY <3>1
    <2> QED  BY <2>1, <1>1 DEF SearchFits, BestsFit
  <1>5. Simple => Level(core, scopes, 1).best = Infinity
    <2>1. Len(system.components) # 1
      BY <1>1, <1>2 DEF m
    <2> QED  BY <2>1, <1>1 DEF Simple, SearchFits, ValidFits
  <1>6. SearchFits(core, scopes, Others, FALSE, {}, m)
    BY <1>1, <1>2, <1>3, <1>4, <1>5, SearchStarts
  <1> QED
    BY <1>6 DEF m

\* What is kept of the component is the best.
LEMMA LowestNext ==
    ASSUME NEW n, Splitting(n), cache # {}
    PROVE  LowestBefore(Append(partial, Best(cache)))
  <1> DEFINE B == Best(cache)
             P == Append(partial, B)
             L == Len(partial)
  <1>1. /\ LowestBefore(partial) /\ L = Components - n /\ n \in Nat /\ n <= Components
        /\ Components \in Nat /\ partial \in Seq(Seq(Solution))
        /\ system \in Systems /\ n \in DOMAIN system.components
        /\ cache \in SUBSET SolutionOf(n) /\ IsFiniteSet(cache)
    BY DEF Splitting, PartialFits
  <1>2. \A w \in Chosen(FALSE) : \A i \in DOMAIN B : B[i].score <= Charge(w, Members(system, n))
    BY BestLowest
  <1>3. B \in Seq(Solution)
    <2>1. Members(system, n) \in SUBSET Var
      BY <1>1, MembersFacts
    <2>2. B \in Seq(cache)
      BY <1>1, <2>1, BestFacts DEF SolutionOf
    <2>3. cache \subseteq Solution
      BY <1>1 DEF SolutionOf, SolutionFor
    <2> HIDE DEF B
    <2> QED  BY <2>2, <2>3
  <1> HIDE DEF B
  <1>4. /\ DOMAIN P = 1..(L + 1) /\ P[L + 1] = B /\ L \in Nat
        /\ \A j \in 1..L : P[j] = partial[j] /\ j \in DOMAIN partial
    BY <1>1, <1>3
  <1>5. Components + 1 - (L + 1) = n
    BY <1>1
  <1> HIDE DEF P, L
  <1> SUFFICES ASSUME NEW w \in Chosen(FALSE), NEW j \in DOMAIN P, NEW i \in DOMAIN P[j]
               PROVE  P[j][i].score <= Charge(w, Members(system, Components + 1 - j))
    BY DEF LowestBefore, P, B
  <1>6. CASE j = L + 1
    BY <1>2, <1>4, <1>5, <1>6
  <1>7. CASE j \in 1..L
    BY <1>1, <1>4, <1>7 DEF LowestBefore
  <1> QED
    BY <1>4, <1>6, <1>7

LEMMA ResumeSplitterChoice ==
    ASSUME ChoiceInv, ResumeSplitter
    PROVE  ChoiceInv'
  <1> DEFINE n == Current
  <1>1. SolutionInv' /\ Splitting(n)
    BY ResumeSplitterSolution, SplittingFacts DEF ChoiceInv
  <1>2. /\ worklist # <<>> /\ splitter = "Suspended" /\ result = "none"
        /\ UNCHANGED <<system, stop>> /\ n = Current /\ n \in Nat /\ n >= 1
        /\ Rooted(Level(core, scopes, 1)) /\ Len(partial) = Components - n
        /\ Components \in Nat /\ partial \in Seq(Seq(Solution))
    BY <1>1 DEF ResumeSplitter, Splitting, PartialFits
  <1> HIDE DEF n
  <1>3. CASE failed \/ cache = {}
    <2>1. Fail /\ (~stop => splitter' = "Error")
      BY <1>3 DEF ResumeSplitter
    <2>2. Simple => Chosen(TRUE) = {}
      BY <1>1, <1>3, NothingFound
    <2>3. CASE stop
      <3>1. Return("failure")
        BY <2>1, <2>3 DEF Fail
      <3> QED  BY <3>1, <2>2, <1>1, <1>2, ReturnStep
    <2>4. CASE ~stop
      <3>1. UNCHANGED <<core, scopes, result>> /\ splitter' = "Error"
        BY <2>1, <2>4 DEF Fail
      <3> QED  BY <3>1, <2>2, <1>1, <1>2, ErrorStep
    <2> QED  BY <2>3, <2>4
  <1>4. CASE ~(failed \/ cache = {})
    <2>1. /\ partial' = Append(partial, Best(cache)) /\ cache' = {}
          /\ worklist' = Others /\ failed' = FALSE
          /\ UNCHANGED <<core, scopes, splitter, result>>
      BY <1>4 DEF ResumeSplitter
    <2>2. LowestBefore(partial)'
      <3>1. LowestBefore(partial')
        BY <2>1, <1>1, <1>4, LowestNext
      <3> QED  BY <3>1, <1>2, ChoiceFrame
    <2>3. Current' = n - 1
      <3>1. Len(partial') = Len(partial) + 1
        <4> DEFINE B == Best(cache)
        <4>1. partial' = Append(partial, B)
          BY <2>1
        <4> HIDE DEF B
        <4> QED  BY <4>1, <1>2
      <3>2. Components' = Components
        BY <1>2, SearchFrame
      <3>3. Len(partial)' = Len(partial) + 1
        BY <3>1
      <3>4. Components - (Len(partial) + 1) = n - 1
        BY <1>2
      <3> QED  BY <3>2, <3>3, <3>4 DEF Current
    <2>4. (Current >= 1 => SearchFits(core, scopes, worklist, failed, cache, Current))'
      <3> SUFFICES ASSUME n - 1 >= 1
                   PROVE  SearchFits(core, scopes, worklist, failed, cache, Current)'
        BY <2>3
      <3>1. SearchFits(core, scopes, Others, FALSE, {}, n - 1)
        BY <1>1, NextStarts
      <3>2. SearchFits(core', scopes', worklist', failed', cache', n - 1)
        BY <3>1, <2>1
      <3> QED  BY <3>2, <2>3, <1>2, ChoiceFrame
    <2>5. Rooted(Level(core, scopes, 1))'
      BY <2>1, <1>2, LevelFrame, ChoiceFrame
    <2>6. LowestScore'
      BY <2>1, <1>2 DEF LowestScore
    <2>7. (Simple /\ (result = "failure" \/ stop \/ splitter = "Error") => Chosen(TRUE) = {})'
      BY <2>1, <1>2, ChosenFrame DEF ChoiceInv
    <2> QED  BY <1>1, <1>2, <2>1, <2>2, <2>4, <2>5, <2>6, <2>7 DEF ChoiceInv
  <1> QED
    BY <1>3, <1>4

\* The direct bindings.
Direct == {f \in Fact : system.direct[f[1]] = f[2]}

LEMMA DirectAgrees ==
    ASSUME system \in Systems, NEW d, d = Bound(Untouched, Direct, 0)
    PROVE  /\ \A w \in Chosen(TRUE) : Agrees(d.assignment, w) /\ ~Conflicts(d.assignment, Var)
           /\ \A v \in Var : system.direct[v] # Unbound => d.assignment[v] # Unbound
           /\ (\A v \in Var : system.direct[v] = Unbound) => BoundBy(d.assignment) = {}
           /\ d.best = Infinity
  <1> DEFINE c == Untouched
  <1>1. /\ c \in CoreType /\ LogExact(c) /\ c.assignment \in Assignment
        /\ \A v \in Var : c.assignment[v] = Unbound
        /\ c.best = Infinity
    BY UntouchedFacts
  <1>2. Fresh(Direct, c.assignment)
    BY DirectFresh DEF Direct
  <1>3. \A f \in Direct : f \in Fact /\ f[1] \in Var /\ f[2] \in Type /\ system.direct[f[1]] = f[2]
    BY DEF Direct, Fact
  <1> HIDE DEF c
  <1>4. d = Bound(c, Direct, 0)
    BY DEF c
  <1>5. Adds(d, c, 0) /\ Says(d.assignment, Direct)
    BY <1>1, <1>2, <1>4, BoundAdds
  <1>6. ASSUME NEW w \in Chosen(TRUE)
        PROVE  Agrees(d.assignment, w) /\ ~Conflicts(d.assignment, Var)
    <2>1. w \in [Var -> Type] /\ Consistent(w)
          /\ \A v \in Var : system.direct[v] # Unbound => w[v] = system.direct[v]
      BY ChosenFacts
    <2>2. \A f \in Direct : w[f[1]] = f[2]
      BY <2>1, <1>3, Constants
    <2>3. Agrees(c.assignment, w)
      BY <1>1 DEF Agrees
    <2> QED  BY <2>1, <2>2, <2>3, <1>1, <1>2, <1>4, BoundAgrees, SMTT(30)
  <1>7. ASSUME NEW v \in Var, system.direct[v] # Unbound
        PROVE  d.assignment[v] # Unbound
    <2>1. system.direct[v] \in Type
      BY <1>7, SystemType
    <2>2. <<v, system.direct[v]>> \in Direct
      BY <2>1 DEF Direct, Fact
    <2>3. d.assignment[v] = system.direct[v]
      BY <2>2, <1>5 DEF Says
    <2> QED  BY <2>3, <1>7
  <1>8. ASSUME \A v \in Var : system.direct[v] = Unbound
        PROVE  BoundBy(d.assignment) = {}
    <2>1. \A f \in Direct : FALSE
      BY <1>3, <1>8, Constants
    <2>2. /\ d.assignment = Simplified(With(c.assignment, Direct))
      BY <1>1, <1>2, <1>4, BoundType
    <2> DEFINE a == With(c.assignment, Direct)
    <2>3. a \in Assignment /\ \A v \in Var : a[v] = Unbound
      <3>1. /\ a \in Assignment
            /\ \A v \in Var : \/ a[v] = c.assignment[v]
                              \/ <<v, a[v]>> \in Direct
        <4>1. /\ Direct \in SUBSET Fact /\ \A f \in Direct : c.assignment[f[1]] = Unbound
              /\ \A f, g \in Direct : f[1] = g[1] => f = g
          BY <1>2 DEF Fresh
        <4> QED  BY <4>1, <1>1, WithFacts
      <3>2. \A f : f \notin Direct
        BY <2>1
      <3> HIDE DEF a
      <3> QED  BY <3>1, <3>2, <1>1
    <2> HIDE DEF a
    <2>4. Facts(a) = {}
      <3>1. \A f \in Facts(a) : f \in Fact /\ a[f[1]] = f[2]
        BY <2>3, FactsOf
      <3>2. \A f \in Fact : a[f[1]] # f[2]
        BY <2>3, Constants DEF Fact
      <3> QED  BY <3>1, <3>2
    <2>5. \A v \in Var : Simplified(a)[v] = a[v]
      BY <2>3, <2>4, SimplifiedFacts
    <2> QED  BY <2>2, <2>3, <2>5 DEF BoundBy, a
  <1>9. d.best = Infinity
    BY <1>1, <1>5 DEF Adds
  <1> QED
    BY <1>6, <1>7, <1>8, <1>9

LEMMA SolveChoice ==
    ASSUME ChoiceInv, Solve
    PROVE  ChoiceInv'
  <1>1. SolutionInv /\ SolutionInv'
    BY SolveSolution DEF ChoiceInv
  <1>2. /\ scopes = <<>> /\ core = Untouched /\ system \in Systems /\ splitter = "Idle"
        /\ UNCHANGED <<system, solutions>> /\ stop' = (result = "failure") /\ result # "success"
    BY <1>1 DEF Solve, SolutionInv, ScopesInv, Parts, Searching
  <1> DEFINE d == Bound(core, Direct, 0)
  <1>3. IF Conflicts(d.assignment, Var)
        THEN Return("failure")
        ELSE /\ core' = d /\ scopes' = <<Scope(core)>> /\ worklist' = <<Split>>
             /\ result' = "none" /\ UNCHANGED <<splitter, failed, cache, partial>>
    BY DEF Solve, Direct
  <1>4. d = Bound(Untouched, Direct, 0)
    BY <1>2
  <1> HIDE DEF d
  <1>5. /\ \A w \in Chosen(TRUE) : Agrees(d.assignment, w) /\ ~Conflicts(d.assignment, Var)
        /\ \A v \in Var : system.direct[v] # Unbound => d.assignment[v] # Unbound
        /\ (\A v \in Var : system.direct[v] = Unbound) => BoundBy(d.assignment) = {}
        /\ d.best = Infinity
    BY <1>2, <1>4, DirectAgrees
  <1>6. CASE Conflicts(d.assignment, Var)
    <2>1. Chosen(TRUE) = {}
      BY <1>5, <1>6
    <2> QED  BY <2>1, <1>1, <1>2, <1>3, <1>6, ReturnStep
  <1>7. CASE ~Conflicts(d.assignment, Var)
    <2>1. /\ core' = d /\ scopes' = <<Scope(core)>> /\ result' = "none" /\ splitter' = "Idle"
      BY <1>2, <1>3, <1>7
    <2>2. Chain(core', scopes', worklist')
      <3>1. Chain(core, scopes, worklist)'
        BY <1>1, <2>1 DEF SolutionInv, ScopesInv, Searching
      <3> QED  BY <3>1, <1>2, SystemFrame
    <2>3. Len(scopes') = 1
      BY <2>1
    <2>4. Level(core', scopes', 1) = Now(core')
      BY <2>2, <2>3, TopIs
    <2>5. Now(core').assignment = d.assignment /\ Now(core').best = Infinity
      BY <2>1, <1>5 DEF Now
    <2>6. Rooted(Level(core', scopes', 1))
      BY <2>4, <2>5, <1>5 DEF Rooted
    <2>7. Rooted(Level(core, scopes, 1))' /\ (Level(core, scopes, 1).best = Infinity)'
      BY <2>4, <2>5, <2>6, <1>2, LevelFrame, ChoiceFrame
    <2>8. LowestScore'
      BY <2>1 DEF LowestScore
    <2>9. (Simple /\ (result = "failure" \/ stop \/ splitter = "Error") => Chosen(TRUE) = {})'
      BY <2>1, <1>2, ChosenFrame DEF ChoiceInv
    <2> QED  BY <1>1, <2>1, <2>7, <2>8, <2>9 DEF ChoiceInv
  <1> QED
    BY <1>6, <1>7

LEMMA InitChoice == Init => ChoiceInv
  <1> SUFFICES ASSUME Init PROVE ChoiceInv
    OBVIOUS
  <1>1. SolutionInv
    BY InitSolution
  <1>2. /\ scopes = <<>> /\ splitter = "Idle" /\ stop = FALSE /\ result = "none"
    BY DEF Init
  <1> QED
    BY <1>1, <1>2 DEF ChoiceInv, Searching, LowestScore

LEMMA AllCovered ==
    ASSUME system \in Systems
    PROVE  Covered(Components) = Var
  <1>1. Components \in Nat /\ DOMAIN system.components = 1..Components
    BY SystemType DEF Components
  <1>2. ASSUME NEW v \in Var PROVE v \in Covered(Components)
    <2>1. PICK k \in DOMAIN system.components : v \in Members(system, k)
      BY SystemParts
    <2> DEFINE j == Components + 1 - k
    <2>2. j \in 1..Components /\ Components + 1 - j = k
      BY <1>1
    <2> QED  BY <2>1, <2>2 DEF Covered
  <1>3. ASSUME NEW v \in Covered(Components) PROVE v \in Var
    <2>1. PICK j \in 1..Components : v \in Members(system, Components + 1 - j)
      BY DEF Covered
    <2>2. Components + 1 - j \in DOMAIN system.components
      BY <1>1
    <2> QED  BY <2>1, <2>2, MembersFacts
  <1> QED
    BY <1>2, <1>3

\* Put together, what is best for each component is best for all of them.
LEMMA MergedLowest ==
    ASSUME system \in Systems, NEW P, PartialFits(P), Len(P) = Components, LowestBefore(P),
           NEW w \in Chosen(FALSE)
    PROVE  Merged(P)[1].score <= Charge(w, Var)
  <1>1. PICK M : Merging(P, M) /\ Merged(P) = M[Len(P)]
    <2>1. Len(P) \in Nat
      BY DEF PartialFits
    <2> QED  BY <2>1, MergedIs
  <1> DEFINE L == Len(P)
             bad == {n \in 0..L : ~(M[n][1].score <= Charge(w, Covered(n)))}
  <1>2. L \in Nat /\ L = Components /\ \A n \in 0..L : MergeFits(P, M, n)
    <2>1. \A n \in 0..Len(P) : MergeFits(P, M, n)
      BY <1>1, MergingFacts
    <2>2. Len(P) \in Nat /\ Len(P) = Components
      BY DEF PartialFits
    <2> QED  BY <2>1, <2>2
  <1>3. Charges(w)
    BY ChosenFacts, ChargeFacts
  <1> HIDE DEF L
  <1>4. ASSUME NEW n \in bad, \A m \in bad : n <= m PROVE FALSE
    <2>1. n \in 0..L /\ MergeFits(P, M, n)
      BY <1>2
    <2>2. CASE n = 0
      <3>1. M[n][1].score = 0
        BY <2>1, <2>2 DEF MergeFits
      <3>2. Covered(n) \in SUBSET Var
        <4>1. 0 < Components \/ Components = 0
          BY <1>2
        <4>2. Covered(0) = {}
          BY DEF Covered
        <4> QED  BY <4>2, <2>2
      <3>3. Charge(w, Covered(n)) \in Nat
        BY <3>2, <1>3 DEF Charges
      <3>4. 0 <= Charge(w, Covered(n))
        BY <3>3
      <3> QED  BY <3>1, <3>4
    <2>3. CASE n # 0
      <3> DEFINE m == n - 1
                 k == Components - m
                 old == M[m][1].score
                 new == P[n][1].score
      <3>1. m \in Nat /\ m < Components /\ m \in 0..L /\ n = m + 1 /\ n \in 1..L
        BY <2>1, <2>3, <1>2
      <3>2. M[n][1].score = old + new
        BY <2>1, <2>3 DEF MergeFits
      <3>3. m \notin bad
        BY <3>1, <1>4
      <3>4. old <= Charge(w, Covered(m))
        BY <3>1, <3>3
      <3>5. Components + 1 - n = k
        BY <3>1, <1>2
      <3> HIDE DEF m
      <3>6. /\ k \in DOMAIN system.components /\ Covered(m) \subseteq Var
            /\ Covered(n) = Members(system, k) \union Covered(m)
            /\ Members(system, k) \intersect Covered(m) = {}
        BY <3>1, CoveredFacts
      <3>7. Members(system, k) \subseteq Var
        BY <3>6, MembersFacts
      <3>8. /\ Charge(w, Covered(n)) = Charge(w, Members(system, k)) + Charge(w, Covered(m))
            /\ Charge(w, Covered(m)) \in Nat /\ Charge(w, Members(system, k)) \in Nat
        BY <3>6, <3>7, <1>3 DEF Charges
      <3>9. n \in DOMAIN P /\ P[n] # <<>> /\ P[n] \in Seq(Solution)
        BY <3>1, <1>2 DEF PartialFits, L
      <3>10. 1 \in DOMAIN P[n] /\ P[n][1] \in SolutionOf(k)
        BY <3>5, <3>9 DEF PartialFits
      <3>11. new <= Charge(w, Members(system, k))
        BY <3>5, <3>9, <3>10 DEF LowestBefore
      <3>12. new \in Nat
        BY <3>7, <3>10, SolutionFacts DEF SolutionOf
      <3>13. old \in Nat
        <4>1. M[m][1] \in SolutionFor(Covered(m))
          BY <3>1, <1>2 DEF MergeFits
        <4> QED  BY <4>1, <3>6, SolutionFacts
      <3> HIDE DEF old, new, k
      <3>14. old + new <= Charge(w, Covered(n))
        BY <3>4, <3>8, <3>11, <3>12, <3>13
      <3> QED  BY <3>2, <3>14
    <2> QED  BY <2>2, <2>3
  <1>5. bad = {}
    <2> SUFFICES ASSUME bad # {} PROVE FALSE
      OBVIOUS
    <2>1. bad \in SUBSET Nat
      BY <1>2
    <2> HIDE DEF bad
    <2>2. \E n \in bad : \A m \in bad : n <= m
      BY <2>1, Least
    <2> QED  BY <2>2, <1>4
  <1>6. L \in 0..L
    BY <1>2
  <1>7. M[L][1].score <= Charge(w, Covered(L))
    BY <1>5, <1>6
  <1> QED
    BY <1>1, <1>2, <1>7, AllCovered DEF L

\* All components are solved when the worklist is empty, or one had no solution.
LEMMA Finishing ==
    ASSUME SolutionInv, FinishSolve
    PROVE  \/ solutions = <<>> /\ splitter = "Error"
           \/ /\ splitter = "Suspended" /\ PartialFits(partial) /\ Len(partial) = Components
              /\ solutions = Merged(partial) /\ solutions # <<>>
  <1>1. worklist = <<>> /\ Searching /\ SearchInv /\ system \in Systems
    BY DEF FinishSolve, Searching, SolutionInv, ScopesInv, Parts
  <1>2. CASE splitter = "Suspended" /\ PartialFits(partial) /\ Ordered(worklist, Current)
             /\ solutions = IF Current = 0 THEN Merged(partial) ELSE <<>>
    <2>1. Len(partial) \in Nat /\ Components \in Nat /\ Len(partial) <= Components
      BY <1>1, <1>2, SystemType DEF PartialFits, Components
    <2>2. Current \in Nat /\ (Current = 0 => Len(partial) = Components)
      BY <2>1 DEF Current
    <2>3. ~(Current >= 1)
      <3> DEFINE n == Current
      <3>1. Len(worklist) = 0 /\ Len(worklist) >= 2 * n - 1 /\ n \in Nat
        BY <1>1, <1>2, <2>2 DEF Ordered
      <3> HIDE DEF n
      <3>2. ~(n >= 1)
        BY <3>1
      <3> QED  BY <3>2 DEF n
    <2>4. Current = 0 /\ Len(partial) = Components
      BY <2>2, <2>3
    <2> QED  BY <2>4, <1>1, <1>2, MergedFacts
  <1>3. CASE splitter = "Idle" /\ worklist = <<Split>>
    BY <1>1, <1>3
  <1>4. CASE splitter = "Error" /\ solutions = <<>>
    BY <1>4
  <1> QED
    BY <1>1, <1>2, <1>3, <1>4 DEF SearchInv

LEMMA FinishSolveChoice ==
    ASSUME ChoiceInv, FinishSolve
    PROVE  ChoiceInv'
  <1>1. SolutionInv /\ SolutionInv' /\ system \in Systems
    BY FinishSolveSolution DEF ChoiceInv, SolutionInv, ScopesInv, Parts
  <1>2. /\ UNCHANGED <<system, solutions, stop>>
        /\ Return(IF solutions = <<>> THEN "failure" ELSE "success")
    BY DEF FinishSolve
  <1>3. CASE solutions = <<>> /\ splitter = "Error"
    <2>1. Return("failure") /\ (Simple => Chosen(TRUE) = {})
      BY <1>2, <1>3 DEF ChoiceInv
    <2> QED  BY <2>1, <1>1, <1>2, ReturnStep
  <1>4. CASE /\ splitter = "Suspended" /\ PartialFits(partial) /\ Len(partial) = Components
             /\ solutions = Merged(partial) /\ solutions # <<>>
    <2>1. result' = "success" /\ splitter' = "Idle"
      BY <1>2, <1>4 DEF Return
    <2>2. \A w \in Chosen(FALSE) : solutions[1].score <= Charge(w, Var)
      BY <1>1, <1>4, MergedLowest DEF ChoiceInv
    <2>3. \A w \in Chosen(FALSE)' : (solutions[1].score <= Charge(w, Var))'
      BY <2>2, <1>2, ChosenFrame
    <2>4. LowestScore'
      BY <2>3 DEF LowestScore, Chosen, Charge
    <2>5. (Simple /\ (result = "failure" \/ stop \/ splitter = "Error") => Chosen(TRUE) = {})'
      BY <2>1, <1>2, ChosenFrame DEF ChoiceInv
    <2> QED  BY <1>1, <2>1, <2>4, <2>5 DEF ChoiceInv, Searching
  <1> QED
    BY <1>1, <1>3, <1>4, Finishing

LEMMA ChoiceInductive == Spec => []ChoiceInv
  <1>1. Init => ChoiceInv
    BY InitChoice
  <1>2. ChoiceInv /\ [Next]_vars => ChoiceInv'
    <2> SUFFICES ASSUME ChoiceInv, [Next]_vars PROVE ChoiceInv'
      OBVIOUS
    <2>1. CASE Solve
      BY <2>1, SolveChoice
    <2>2. CASE ExecuteSplitter
      BY <2>2, ExecuteSplitterChoice
    <2>3. CASE ResumeSplitter
      BY <2>3, ResumeSplitterChoice
    <2>4. CASE SkipSplitter
      BY <2>4, SkipSplitterChoice
    <2>5. CASE \E k \in DOMAIN system.components : ExecuteFind(k)
      BY <2>5, ExecuteFindChoice
    <2>6. CASE ResumeBind
      BY <2>6, ResumeBindChoice
    <2>7. CASE FinishSolve
      BY <2>7, FinishSolveChoice
    <2>8. CASE UNCHANGED vars
      <3>1. /\ UNCHANGED <<system, core, scopes, stop, result, solutions>>
            /\ UNCHANGED <<worklist, splitter, failed, cache, partial>>
        BY <2>8 DEF vars, search
      <3>2. Current' = Current
        BY <3>1, SearchFrame DEF Current
      <3>3. SolutionInv'
        BY <2>8, SolutionStutters DEF ChoiceInv
      <3>4. Searching => Rooted(Level(core, scopes, 1))' /\ Level(core, scopes, 1)' = Level(core, scopes, 1)
        BY <3>1, LevelFrame, ChoiceFrame DEF ChoiceInv
      <3>5. (splitter = "Suspended" =>
                /\ LowestBefore(partial)
                /\ Current >= 1 => SearchFits(core, scopes, worklist, failed, cache, Current))'
        BY <3>1, <3>2, ChoiceFrame DEF ChoiceInv
      <3>6. LowestScore'
        <4>1. /\ \A a : Consistent(a)' <=> Consistent(a)
              /\ \A v : Candidates(v)' = Candidates(v)
              /\ \A a : SumFunction([v \in Var |-> Cost(v, a[v])])'
                          = SumFunction([v \in Var |-> Cost(v, a[v])])
          BY <3>1 DEF Consistent, Facts, Candidates, Cost, Score
        <4> QED  BY <4>1, <3>1 DEF ChoiceInv, LowestScore
      <3>7. (Simple /\ (result = "failure" \/ stop \/ splitter = "Error") => Chosen(TRUE) = {})'
        BY <3>1, ChosenFrame DEF ChoiceInv
      <3> QED  BY <3>1, <3>3, <3>4, <3>5, <3>6, <3>7 DEF ChoiceInv, Searching
    <2> QED
      BY <2>1, <2>2, <2>3, <2>4, <2>5, <2>6, <2>7, <2>8 DEF Next
  <1> QED
    BY <1>1, <1>2, PTL DEF Spec

\* Backtracking, pruning by the best score known, and stopping at the first
\* solution of a variable miss nothing: no choice of inferred bindings that
\* satisfies every constraint costs less than the solution found first.
THEOREM LowestScoreHolds == Spec => []LowestScore
  <1>1. ChoiceInv => LowestScore
    BY DEF ChoiceInv
  <1> QED
    BY <1>1, ChoiceInductive, PTL

\* Where all variables are connected or none has a direct binding, solve
\* fails only if no choice satisfies the constraints.
THEOREM FailureRealHolds == Spec => []FailureReal
  <1>1. ChoiceInv => FailureReal
    BY DEF ChoiceInv, FailureReal, Simple, Chosen
  <1> QED
    BY <1>1, ChoiceInductive, PTL
=============================================================================
