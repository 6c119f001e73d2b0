------------------------- MODULE LookupCacheProofs -------------------------
(***************************************************************************)
(* For every tree of contexts: a context that is never redeclared is       *)
(* served what it declares.  The inductive invariant is Fits: a query      *)
(* object is never newer than its context, and one as new as its context   *)
(* agrees with the context's table.  It is preserved because a step that   *)
(* changes such a table counts in its revision (Moves).  Apart from that:  *)
(* a table never mixes what may not be declared together (Unmixed).        *)
(***************************************************************************)
EXTENDS LookupCache, FiniteSetTheorems, TLAPS

\* What the invariant needs of the values.
Shaped ==
    /\ table \in [Ctx -> SUBSET Decl]
    /\ revision \in [Ctx -> Nat]
    /\ \A q \in Asked : cache[q].rev \in Int

Agrees(q, found, own) ==
    /\ q[1] = "direct" => found = own
    /\ q[1] = "first" /\ own # {} => found = own
    /\ q[1] = "multi" => own \subseteq found

Fits(q) ==
    /\ cache[q].rev <= revision[q[2]]
    /\ Alone(q[2]) /\ cache[q].rev = revision[q[2]]
          => Agrees(q, cache[q].found, table[q[2]])

IInv == Shaped /\ \A q \in Asked : Fits(q)

\* No revision falls, and a table of its own changes only with a new one.
Moves(c) ==
    /\ revision'[c] >= revision[c]
    /\ Alone(c) /\ revision'[c] = revision[c] => table'[c] = table[c]

\* Publishing in the contexts W changes the table of an unshared context
\* only if the context is in W, and then its revision, counted in V, grows.
LEMMA PublishMoves ==
    ASSUME NEW W \in SUBSET Ctx, NEW V \in SUBSET Ctx, NEW d \in Decl,
           Shaped, W \subseteq V, Publish(W, d), revision' = Bumped(V),
           cache' = cache
    PROVE  Shaped' /\ cache' = cache /\ \A c \in Ctx : Moves(c)
<1>1. table' \in [Ctx -> SUBSET Decl]
  BY DEF Publish, Shaped
<1>2. revision' \in [Ctx -> Nat]
  BY DEF Bumped, Shaped
<1>3. ASSUME NEW c \in Ctx PROVE Moves(c)
  <2>1. revision'[c] = IF c \in V THEN revision[c] + 1 ELSE revision[c]
    BY DEF Bumped
  <2>2. revision[c] \in Nat
    BY DEF Shaped
  <2>3. ASSUME Alone(c), c \notin V PROVE table'[c] = table[c]
    <3>1. c \notin Keepers(W)
      BY <2>3 DEF Alone, Keepers
    <3> QED BY <3>1 DEF Publish
  <2> QED BY <2>1, <2>2, <2>3 DEF Moves
<1> QED BY <1>1, <1>2, <1>3 DEF Shaped

\* The contexts a new declaration reaches are contexts.
LEMMA ReachedContexts ==
    ASSUME NEW c \in Ctx, NEW d PROVE Reached(c, d) \in SUBSET Ctx
<1>1. Scopes[c] \in Seq(Ctx)
  BY LookupAssumption
<1> QED BY <1>1 DEF Reached

\* Every change to what is visible, and every import, moves the contexts.
LEMMA WriteMoves ==
    ASSUME Shaped,
           \/ \E c \in Ctx, d \in Decl :
                 AddDecl(c, d) \/ MakeDeclAvailable(c, d) \/ ImportDecl(c, d)
           \/ \E c \in Ctx, d, e \in Decl : ReplaceMember(c, d, e)
           \/ \E c \in Ctx, m \in Module : AddImport(c, m)
           \/ UNCHANGED vars
    PROVE  Shaped' /\ cache' = cache /\ \A c \in Ctx : Moves(c)
<1>1. ASSUME NEW c \in Ctx, NEW d \in Decl, AddDecl(c, d)
      PROVE  Shaped' /\ cache' = cache /\ \A x \in Ctx : Moves(x)
  <2>1. Primary[c] \in Ctx
    BY LookupAssumption
  <2>2. Reached(Primary[c], d) \in SUBSET Ctx
    BY <2>1, ReachedContexts
  <2> QED BY <1>1, <2>2, PublishMoves DEF AddDecl
<1>2. ASSUME NEW c \in Ctx, NEW d \in Decl, MakeDeclAvailable(c, d)
      PROVE  Shaped' /\ cache' = cache /\ \A x \in Ctx : Moves(x)
  BY <1>2, ReachedContexts, PublishMoves DEF MakeDeclAvailable
<1>3. ASSUME NEW c \in Ctx, NEW d \in Decl, ImportDecl(c, d)
      PROVE  Shaped' /\ cache' = cache /\ \A x \in Ctx : Moves(x)
  BY <1>3, PublishMoves DEF ImportDecl
<1>4. ASSUME NEW c \in Ctx, NEW d \in Decl, NEW e \in Decl, ReplaceMember(c, d, e)
      PROVE  Shaped' /\ cache' = cache /\ \A x \in Ctx : Moves(x)
  <2>1. Shaped'
    BY <1>4 DEF ReplaceMember, Bumped, Shaped
  <2>2. ASSUME NEW x \in Ctx PROVE Moves(x)
    BY <1>4 DEF ReplaceMember, Bumped, Moves, Shaped
  <2> QED BY <1>4, <2>1, <2>2 DEF ReplaceMember
<1>5. ASSUME UNCHANGED <<table, revision, cache>>
      PROVE  Shaped' /\ cache' = cache /\ \A x \in Ctx : Moves(x)
  BY <1>5 DEF Shaped, Moves
<1> QED BY <1>1, <1>2, <1>3, <1>4, <1>5 DEF AddImport, vars

\* Once the contexts have moved, a query object that fitted still fits.
LEMMA MovesKeepFit ==
    ASSUME IInv, Shaped', cache' = cache, \A c \in Ctx : Moves(c)
    PROVE  IInv'
<1>1. ASSUME NEW q \in Asked PROVE Fits(q)'
  <2>1. q[2] \in Ctx
    BY LookupAssumption DEF Queries
  <2>2. Fits(q) /\ Moves(q[2])
    BY <2>1 DEF IInv
  <2>3. cache[q].rev \in Int /\ revision[q[2]] \in Nat /\ revision'[q[2]] \in Nat
    BY <2>1 DEF IInv, Shaped
  <2> QED BY <2>1, <2>2, <2>3 DEF Fits, Moves, Agrees, Alone
<1> QED BY <1>1 DEF IInv

\* First returns the head of a sequence unless the head is empty.
LEMMA FirstHead ==
    ASSUME NEW s, NEW S, s \in Seq(S), Len(s) > 0, s[1] # {}
    PROVE  First(s) = s[1]
<1> DEFINE hits == {i \in 1..Len(s) : s[i] # {}}
<1>1. 1 \in hits /\ \A j \in hits : 1 <= j
  OBVIOUS
<1>2. (CHOOSE i \in hits : \A j \in hits : i <= j) = 1
  BY <1>1
<1> QED BY <1>1, <1>2 DEF First

\* A find-first lookup that starts in an unshared context which declares
\* something ends there.
LEMMA FoundFirstHere ==
    ASSUME Shaped, NEW c \in Ctx, Primary[c] = c, table[c] # {}
    PROVE  FoundFirst(c) = table[c]
<1> DEFINE outside ==
        First([i \in 1..Len(Imported(c)) |-> First(Walk(Imported(c)[i]))])
<1> DEFINE S == {AtLevel(Scopes[c][i]) : i \in 1..Len(Scopes[c])}
<1> DEFINE s == [i \in 1..Len(Scopes[c]) |-> AtLevel(Scopes[c][i])]
<1>1. Scopes[c] \in Seq(Ctx) /\ Len(Scopes[c]) > 0 /\ Scopes[c][1] = c
  BY LookupAssumption
<1>2. Level(c) = c
  BY DEF Level
<1>3. First(<<table[c], outside>>) = table[c]
  <2> HIDE DEF outside
  <2>1. <<table[c], outside>> \in Seq({table[c], outside})
    OBVIOUS
  <2>2. Len(<<table[c], outside>>) > 0 /\ <<table[c], outside>>[1] = table[c]
    OBVIOUS
  <2> QED BY <2>1, <2>2, FirstHead
<1>4. AtLevel(c) = table[c]
  BY <1>2, <1>3 DEF AtLevel
<1>5. s \in Seq(S) /\ Len(s) = Len(Scopes[c])
  BY <1>1
<1>6. s[1] = table[c]
  BY <1>1, <1>4
<1>7. First(s) = s[1]
  <2> HIDE DEF s, S
  <2> QED BY <1>1, <1>5, <1>6, FirstHead
<1> QED BY <1>6, <1>7 DEF FoundFirst

\* A multi-level lookup includes what its unshared context declares.
LEMMA FoundAllHere ==
    ASSUME Shaped, NEW c \in Ctx, Primary[c] = c
    PROVE  table[c] \subseteq FoundAll(c)
<1> DEFINE outside(i) ==
        LET mods == Imported(Scopes[c][i])
        IN  All([j \in 1..Len(mods) |-> All(Walk(mods[j]))])
<1> DEFINE s == [i \in 1..Len(Scopes[c]) |->
                    table[Level(Scopes[c][i])] \union outside(i)]
<1>1. Scopes[c] \in Seq(Ctx) /\ Len(Scopes[c]) > 0 /\ Scopes[c][1] = c
  BY LookupAssumption
<1>2. Level(c) = c
  BY DEF Level
<1>3. s[1] = table[c] \union outside(1) /\ 1 \in 1..Len(Scopes[c])
  BY <1>1, <1>2
<1>4. Len(s) = Len(Scopes[c])
  BY <1>1
<1>5. table[c] \subseteq All(s)
  <2> HIDE DEF s, outside
  <2> QED BY <1>3, <1>4 DEF All
<1> QED BY <1>5 DEF FoundAll

\* What a body finds agrees with the table of an unshared context.
LEMMA FreshAgrees ==
    ASSUME Shaped, NEW q \in Asked, Alone(q[2])
    PROVE  Agrees(q, Fresh(q), table[q[2]])
<1>1. q[2] \in Ctx /\ q[1] \in Queries
  BY LookupAssumption
<1>2. Primary[q[2]] = q[2]
  BY <1>1 DEF Alone
<1> QED BY <1>1, <1>2, FoundFirstHere, FoundAllHere DEF Agrees, Fresh, Queries

\* A query object that was just filled in by its body fits.
LEMMA AnswerFits ==
    ASSUME IInv, NEW p \in Asked, UNCHANGED <<table, revision>>,
           cache'[p] = Answer(p)
    PROVE  cache'[p].rev \in Int /\ Fits(p)'
<1>1. p[2] \in Ctx
  BY LookupAssumption
<1>2. revision[p[2]] \in Nat
  BY <1>1 DEF IInv, Shaped
<1>3. CASE Served(p)
  <2>1. cache'[p] = cache[p]
    BY <1>3 DEF Answer
  <2> QED BY <2>1 DEF IInv, Fits, Agrees, Alone, Shaped
<1>4. CASE ~Served(p)
  <2>1. cache'[p].rev = revision[p[2]] /\ cache'[p].found = Fresh(p)
    BY <1>4 DEF Answer
  <2>2. Alone(p[2]) => Agrees(p, Fresh(p), table[p[2]])
    BY FreshAgrees DEF IInv
  <2> QED BY <1>2, <2>1, <2>2 DEF Fits, Agrees, Alone
<1> QED BY <1>3, <1>4

\* A refreshed query object fits, and so does the one it consulted.
LEMMA LookupKeepsFit ==
    ASSUME IInv, NEW q \in Asked, Lookup(q)
    PROVE  IInv'
<1>1. q \in Queries \X Ctx /\ UNCHANGED <<table, revision>>
  BY LookupAssumption DEF Lookup
<1>2. Alone(q[2]) => Consulted(q) \ {q} = {}
  BY <1>1 DEF Consulted, Alone
<1> DEFINE more == UNION {Answer(n).found : n \in Consulted(q) \ {q}}
<1>3. ASSUME NEW p \in Asked
      PROVE  cache'[p].rev \in Int /\ Fits(p)'
  <2>1. CASE p = q
    <3>1. cache'[q] = [rev |-> revision[q[2]], found |-> Fresh(q) \union more]
      BY DEF Lookup
    <3>2. cache'[q].rev = revision[q[2]] /\ cache'[q].found = Fresh(q) \union more
      BY <3>1
    <3>3. Alone(q[2]) => Fresh(q) \union more = Fresh(q)
      BY <1>2
    <3>4. Alone(q[2]) => Agrees(q, Fresh(q), table[q[2]])
      BY FreshAgrees DEF IInv
    <3>5. revision[q[2]] \in Nat
      BY <1>1 DEF IInv, Shaped
    <3> HIDE DEF more
    <3> QED BY <1>1, <2>1, <3>2, <3>3, <3>4, <3>5 DEF Fits, Agrees, Alone
  <2>2. CASE p # q /\ p \in Consulted(q)
    <3>1. cache'[p] = Answer(p)
      BY <2>2 DEF Lookup
    <3> QED BY <1>1, <3>1, AnswerFits
  <2>3. CASE p # q /\ p \notin Consulted(q)
    <3>1. cache'[p] = cache[p]
      BY <2>3 DEF Lookup
    <3> QED BY <1>1, <3>1 DEF IInv, Shaped, Fits, Agrees, Alone
  <2> QED BY <2>1, <2>2, <2>3
<1> QED BY <1>1, <1>3 DEF IInv, Shaped

\* The invariant holds in every reachable state.
LEMMA IInvHolds == Spec => []IInv
<1>1. Init => IInv
  <2> SUFFICES ASSUME Init PROVE IInv
    OBVIOUS
  <2>1. \A q \in Asked : q[2] \in Ctx
    BY LookupAssumption
  <2> QED BY <2>1 DEF Init, IInv, Shaped, Fits
<1>2. IInv /\ [Next]_vars => IInv'
  <2> SUFFICES ASSUME IInv, [Next]_vars PROVE IInv'
    OBVIOUS
  <2>1. CASE \E q \in Asked : Lookup(q)
    BY <2>1, LookupKeepsFit
  <2>2. CASE \/ \E c \in Ctx, d \in Decl :
                   AddDecl(c, d) \/ MakeDeclAvailable(c, d) \/ ImportDecl(c, d)
             \/ \E c \in Ctx, d, e \in Decl : ReplaceMember(c, d, e)
             \/ \E c \in Ctx, m \in Module : AddImport(c, m)
             \/ UNCHANGED vars
    <3>1. Shaped' /\ cache' = cache /\ \A c \in Ctx : Moves(c)
      BY <2>2, WriteMoves DEF IInv
    <3> QED BY <3>1, MovesKeepFit
  <2> QED BY <2>1, <2>2 DEF Next
<1> QED BY <1>1, <1>2, PTL DEF Spec

\* For every tree of contexts and every sequence of changes, a direct lookup
\* in a context that is never redeclared is served what makeDeclAvailable and
\* removeVisibleDecl have left in its table.
THEOREM DirectCurrentHolds == Spec => []DirectCurrent
<1>1. IInv => DirectCurrent
  <2> SUFFICES ASSUME IInv, NEW q \in Asked, q[1] = "direct", Alone(q[2]), Served(q)
               PROVE  cache[q].found = table[q[2]]
    BY DEF DirectCurrent
  <2>1. q[2] \in Ctx
    BY LookupAssumption
  <2>2. cache[q].rev = revision[q[2]]
    BY <2>1 DEF IInv, Shaped, Fits, Served
  <2> QED BY <2>2 DEF IInv, Fits, Agrees
<1> QED BY <1>1, IInvHolds, PTL

\* For every tree of contexts, a cached unqualified lookup never loses or
\* hides a declaration of the innermost context, however stale its answer
\* is about the contexts around it.
THEOREM InnermostCurrentHolds == Spec => []InnermostCurrent
<1>1. IInv => InnermostCurrent
  <2> SUFFICES ASSUME IInv, NEW q \in Asked, Alone(q[2]), Served(q)
               PROVE  Agrees(q, cache[q].found, table[q[2]])
    BY DEF InnermostCurrent, Agrees
  <2>1. q[2] \in Ctx
    BY LookupAssumption
  <2>2. cache[q].rev = revision[q[2]]
    BY <2>1 DEF IInv, Shaped, Fits, Served
  <2> QED BY <2>2 DEF IInv, Fits
<1> QED BY <1>1, IInvHolds, PTL

-----------------------------------------------------------------------------
(* The entries of a table.                                                 *)

\* No entry, one declaration, or overloads.
Unmixed(S) == \/ S = {} \/ \E d \in Decl : S = {d}
              \/ S \subseteq Overloadable

Tables == /\ table \in [Ctx -> SUBSET Decl]
          /\ \A c \in Ctx : Unmixed(table[c])

\* Publishing where the declaration is accepted mixes nothing.
LEMMA PublishUnmixed ==
    ASSUME Tables, NEW W \in SUBSET Ctx, NEW d \in Decl,
           \A c \in W : Accepts(c, d), Publish(W, d)
    PROVE  Tables'
<1>1. table' \in [Ctx -> SUBSET Decl]
  BY DEF Publish, Tables
<1>2. ASSUME NEW x \in Ctx PROVE Unmixed(table'[x])
  <2>1. CASE x \in Keepers(W)
    <3>1. PICK c \in W : x = Primary[c]
      BY <2>1 DEF Keepers
    <3>2. table[x] = {} \/ table[x] \union {d} \subseteq Overloadable
      BY <3>1 DEF Accepts
    <3>3. table'[x] = table[x] \union {d}
      BY <2>1 DEF Publish
    <3> QED BY <3>2, <3>3 DEF Unmixed
  <2>2. CASE x \notin Keepers(W)
    BY <2>2 DEF Publish, Tables
  <2> QED BY <2>1, <2>2
<1> QED BY <1>1, <1>2 DEF Tables

\* No step mixes anything.
LEMMA NextUnmixed == Tables /\ [Next]_vars => Tables'
<1> SUFFICES ASSUME Tables, [Next]_vars PROVE Tables'
  OBVIOUS
<1>1. ASSUME NEW c \in Ctx, NEW d \in Decl
      PROVE  \A x \in Reached(c, d) : Accepts(x, d)
  BY DEF Reached
<1>2. ASSUME NEW c \in Ctx, NEW d \in Decl, AddDecl(c, d) PROVE Tables'
  <2>1. Primary[c] \in Ctx
    BY LookupAssumption
  <2>2. Reached(Primary[c], d) \in SUBSET Ctx
    BY <2>1, ReachedContexts
  <2>3. \A x \in Reached(Primary[c], d) : Accepts(x, d)
    BY <1>1, <2>1
  <2> QED BY <1>2, <2>2, <2>3, PublishUnmixed DEF AddDecl
<1>3. ASSUME NEW c \in Ctx, NEW d \in Decl, MakeDeclAvailable(c, d) PROVE Tables'
  BY <1>1, <1>3, ReachedContexts, PublishUnmixed DEF MakeDeclAvailable
<1>4. ASSUME NEW c \in Ctx, NEW d \in Decl, ImportDecl(c, d) PROVE Tables'
  BY <1>4, PublishUnmixed DEF ImportDecl
<1>5. ASSUME NEW c \in Ctx, NEW d \in Decl, NEW e \in Decl, ReplaceMember(c, d, e)
      PROVE  Tables'
  <2>1. /\ d \in table[c]
        /\ table[c] = {d} \/ table[c] \union {e} \subseteq Overloadable
        /\ table' = [table EXCEPT ![c] = (@ \ {d}) \union {e}]
    BY <1>5 DEF ReplaceMember
  <2>2. /\ table' \in [Ctx -> SUBSET Decl]
        /\ table'[c] = (table[c] \ {d}) \union {e}
        /\ \A x \in Ctx \ {c} : table'[x] = table[x]
    BY <2>1 DEF Tables
  <2>3. Unmixed(table'[c])
    BY <2>1, <2>2 DEF Unmixed
  <2> QED BY <2>2, <2>3 DEF Tables
<1>6. ASSUME UNCHANGED table PROVE Tables'
  BY <1>6 DEF Tables
<1> QED BY <1>2, <1>3, <1>4, <1>5, <1>6 DEF Next, AddImport, Lookup, vars

\* For every tree of contexts and every sequence of addDecl,
\* makeDeclAvailable, imports and replaced members, a name has one
\* declaration in a context, or overloads only.
THEOREM OverloadsOnlyHolds == Spec => []OverloadsOnly
<1>1. Init => Tables
  BY DEF Init, Tables, Unmixed
<1>2. Tables => OverloadsOnly
  <2> SUFFICES ASSUME Tables, NEW c \in Ctx, Cardinality(table[c]) > 1
               PROVE  table[c] \subseteq Overloadable
    BY DEF OverloadsOnly
  <2>1. table[c] # {}
    BY FS_EmptySet
  <2>2. \A d \in Decl : table[c] # {d}
    <3>1. \A d : Cardinality({d}) = 1
      BY FS_Singleton
    <3> QED BY <3>1
  <2> QED BY <2>1, <2>2 DEF Tables, Unmixed
<1> QED BY <1>1, <1>2, NextUnmixed, PTL DEF Spec
=============================================================================
