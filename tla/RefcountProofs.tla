--------------------------- MODULE RefcountProofs ---------------------------
(***************************************************************************)
(* For every number of threads and references: when the program keeps      *)
(* threads apart inside the runtime (Serialised), the count is the number  *)
(* of references, the memory outlives them, and the deinitialiser runs     *)
(* once.  Between the calls that is all there is to say (Quiet); inside a  *)
(* call the count is off by what the call still owes (Busy).               *)
(***************************************************************************)
EXTENDS Refcount, FiniteSetTheorems, TLAPS

\* The number of references the threads own.
Owned == Cardinality(References(handles))

\* Thread t is where the deinit of a class instance runs, or in a call of it.
InDeinit(t) == nested[t] = 1 \/ pc[t] \in {"deinit", "lastLoad", "lastStore"}

Decrementing == {"count", "decrLoad", "decrStore"}

\* What the count should be while thread t is in the runtime: a deinit runs
\* at count one, and an argument is counted until the count is decremented.
Held(t) == (IF InDeinit(t) THEN 1 + copies[t] ELSE Owned)
           + (IF pc[t] \in Decrementing THEN 1 ELSE 0)

\* All threads are in the program.
Quiet ==
    /\ freed => Owned = 0 /\ deinits = 1
    /\ ~freed => Owned = strong /\ strong >= 1 /\ deinits = 0

\* Thread t is in the runtime.
Busy(t) ==
    /\ ~freed
    /\ strong = Held(t)
    /\ deinits = IF InDeinit(t) \/ pc[t] = "free" THEN 1 ELSE 0
    /\ InDeinit(t) => scheme = "object"
    /\ InDeinit(t) \/ pc[t] = "free" => Owned = 0
    /\ nested[t] \in {0, 1} /\ copies[t] \in {0, 1}
    /\ nested[t] = 1 => pc[t] \in RetainPc \union Decrementing
    /\ copies[t] = 1 => pc[t] = "deinit"
    /\ pc[t] \in RetainPc /\ nested[t] = 0 => handles[t] \in 1..(MaxHandles - 1)
    /\ pc[t] \in {"retainStore", "decrStore", "lastStore"} => loaded[t] = strong
    /\ pc[t] \in {"decrLoad", "decrStore"} /\ scheme = "object" => strong >= 2
    /\ pc[t] = "count" => scheme = "object"
    /\ pc[t] = "test" => scheme = "box"

Shaped ==
    /\ TypeOK
    /\ \A t \in Thread : handles[t] <= MaxHandles
    /\ fatal = "no"

Others(t) == \A u \in Thread \ {t} : pc[u] = "idle"

IInv ==
    /\ Shaped
    /\ \A t \in Thread : pc[t] = "idle" => copies[t] = 0 /\ nested[t] = 0
    /\ \A t \in Thread : pc[t] # "idle" => Others(t) /\ Busy(t)
    /\ (\A t \in Thread : pc[t] = "idle") => Quiet

-----------------------------------------------------------------------------
(* References.                                                             *)

Counts == [Thread -> 0..MaxHandles]

\* There are finitely many references, fewer than a count can express.
LEMMA OwnedBounded ==
    ASSUME NEW h
    PROVE  /\ IsFiniteSet(References(h))
           /\ Cardinality(References(h)) \in Nat
           /\ Cardinality(References(h)) + 1 < Word
<1> DEFINE P == Thread \X (1..MaxHandles)
<1>1. IsFiniteSet(1..MaxHandles) /\ Cardinality(1..MaxHandles) = MaxHandles
  BY FS_Interval, RefcountAssumption
<1>2. IsFiniteSet(P) /\ Cardinality(P) = Cardinality(Thread) * MaxHandles
  BY <1>1, FS_Product, RefcountAssumption
<1>3. References(h) \in SUBSET P
  BY DEF References
<1>4. /\ IsFiniteSet(References(h))
      /\ Cardinality(References(h)) <= Cardinality(P)
  BY <1>2, <1>3, FS_Subset
<1>5. Cardinality(References(h)) \in Nat /\ Cardinality(P) \in Nat
  BY <1>2, <1>4, FS_CardinalityType
<1>6. Cardinality(P) + 1 < Word /\ Word \in Nat
  BY <1>2, RefcountAssumption
<1> HIDE DEF P
<1> QED BY <1>4, <1>5, <1>6

\* There is no reference exactly when no thread owns one.
LEMMA OwnedNone ==
    ASSUME NEW h \in Counts
    PROVE  Cardinality(References(h)) = 0 <=> \A t \in Thread : h[t] = 0
<1>1. Cardinality(References(h)) = 0 <=> References(h) = {}
  BY OwnedBounded, FS_EmptySet
<1>2. ASSUME References(h) = {}, NEW t \in Thread PROVE h[t] = 0
  <2>1. h[t] \in 0..MaxHandles
    BY DEF Counts
  <2>2. CASE h[t] # 0
    <3>1. <<t, h[t]>> \in References(h)
      BY <2>1, <2>2 DEF References
    <3> QED BY <3>1, <1>2
  <2> QED BY <2>2
<1>3. ASSUME \A t \in Thread : h[t] = 0 PROVE References(h) = {}
  BY <1>3 DEF References
<1> QED BY <1>1, <1>2, <1>3

\* A thread that gives a reference away,
LEMMA OwnedLess ==
    ASSUME NEW h \in Counts, NEW t \in Thread, h[t] > 0
    PROVE  /\ [h EXCEPT ![t] = @ - 1] \in Counts
           /\ Cardinality(References([h EXCEPT ![t] = @ - 1]))
                = Cardinality(References(h)) - 1
<1> DEFINE g == [h EXCEPT ![t] = @ - 1]
<1>1. h[t] \in 1..MaxHandles /\ g \in Counts
  BY RefcountAssumption DEF Counts
<1>2. References(g) = References(h) \ {<<t, h[t]>>}
  <2>1. ASSUME NEW u \in Thread, NEW i \in 1..MaxHandles
        PROVE  i <= g[u] <=> i <= h[u] /\ <<u, i>> # <<t, h[t]>>
    <3>1. CASE u = t
      BY <3>1, <1>1 DEF Counts
    <3>2. CASE u # t
      BY <3>2 DEF Counts
    <3> QED BY <3>1, <3>2
  <2> HIDE DEF g
  <2> QED BY <2>1 DEF References
<1>3. <<t, h[t]>> \in References(h)
  BY <1>1 DEF References
<1> HIDE DEF g
<1>4. Cardinality(References(g)) = Cardinality(References(h)) - 1
  BY <1>2, <1>3, OwnedBounded, FS_RemoveElement
<1> QED BY <1>1, <1>4 DEF g

\* and one that gets one.
LEMMA OwnedMore ==
    ASSUME NEW h \in Counts, NEW t \in Thread, h[t] < MaxHandles
    PROVE  /\ [h EXCEPT ![t] = @ + 1] \in Counts
           /\ Cardinality(References([h EXCEPT ![t] = @ + 1]))
                = Cardinality(References(h)) + 1
<1> DEFINE g == [h EXCEPT ![t] = @ + 1]
<1>1. g \in Counts /\ g[t] = h[t] + 1 /\ g[t] > 0
  BY RefcountAssumption DEF Counts
<1>2. [g EXCEPT ![t] = @ - 1] = h
  <2>1. h \in [Thread -> Int] /\ g \in [Thread -> Int]
    BY <1>1, RefcountAssumption DEF Counts
  <2>2. \A u \in Thread : [g EXCEPT ![t] = @ - 1][u] = h[u]
    BY <2>1
  <2> QED BY <2>1, <2>2
<1> HIDE DEF g
<1>3. Cardinality(References(h)) = Cardinality(References(g)) - 1
  BY <1>1, <1>2, OwnedLess
<1>4. Cardinality(References(g)) \in Nat
  BY OwnedBounded
<1>5. Cardinality(References(g)) = Cardinality(References(h)) + 1
  BY <1>3, <1>4
<1> QED BY <1>1, <1>5 DEF g

\* Counts are far from the width of a word.
LEMMA NoOverflow ==
    ASSUME NEW m \in Nat, m < Word
    PROVE  /\ m + 1 < Word => Plus1(m) = m + 1
           /\ m >= 1 => Minus1(m) = m - 1
<1>1. Word \in Nat
  BY RefcountAssumption
<1>2. m + 1 < Word => (m + 1) % Word = m + 1
  BY <1>1
<1>3. m >= 1 => (m + Word - 1) % Word = m - 1
  <2> SUFFICES ASSUME m >= 1 PROVE (m + Word - 1) % Word = m - 1
    OBVIOUS
  <2>1. (m - 1) % Word = m - 1
    BY <1>1
  <2>2. (m - 1 + Word) % Word = (m - 1) % Word
    BY <1>1
  <2> QED BY <1>1, <2>1, <2>2
<1> QED BY <1>2, <1>3 DEF Plus1, Minus1

-----------------------------------------------------------------------------
(* One thread at a time.                                                   *)

\* It is enough to look at the thread that does something.
LEMMA Step ==
    ASSUME IInv, NEW t \in Thread, Others(t), Shaped',
           \A u \in Thread \ {t} :
              pc'[u] = pc[u] /\ copies'[u] = copies[u] /\ nested'[u] = nested[u],
           pc'[t] = "idle" => Quiet' /\ copies'[t] = 0 /\ nested'[t] = 0,
           pc'[t] # "idle" => Busy(t)'
    PROVE  IInv'
<1>1. Others(t)'
  BY DEF Others
<1>2. \A u \in Thread : pc'[u] = "idle" => copies'[u] = 0 /\ nested'[u] = 0
  BY <1>1 DEF IInv, Others
<1>3. \A u \in Thread : pc'[u] # "idle" => u = t
  BY <1>1 DEF Others
<1>4. (\A u \in Thread : pc'[u] = "idle") => Quiet'
  OBVIOUS
<1> QED BY <1>1, <1>2, <1>3, <1>4 DEF IInv

\* What is known of a thread that is in the runtime.
LEMMA InRuntime ==
    ASSUME IInv, NEW t \in Thread, pc[t] # "idle"
    PROVE  /\ Busy(t) /\ Others(t) /\ Shaped
           /\ Owned \in Nat /\ Owned + 1 < Word
           /\ handles \in Counts
           /\ strong < Word /\ (pc[t] \in RetainPc => strong + 1 < Word)
<1>1. handles \in Counts
  BY RefcountAssumption DEF IInv, Shaped, TypeOK, Counts
<1>2. /\ Busy(t) /\ Others(t) /\ Shaped
      /\ Owned \in Nat /\ Owned + 1 < Word /\ Word \in Nat
  BY OwnedBounded, RefcountAssumption DEF IInv, Owned
<1>3. 2 < Word
  <2>1. Cardinality(Thread) \in Nat /\ Cardinality(Thread) # 0
    BY FS_CardinalityType, FS_EmptySet, RefcountAssumption
  <2>2. Cardinality(Thread) * MaxHandles >= 1
    BY <2>1, RefcountAssumption
  <2>3. Cardinality(Thread) * MaxHandles \in Nat
    BY <2>1, RefcountAssumption
  <2> QED BY <2>2, <2>3, RefcountAssumption
<1>4. strong < Word /\ (pc[t] \in RetainPc => strong + 1 < Word)
  BY <1>2, <1>3 DEF Busy, Held, Shaped, TypeOK, Decrementing, InDeinit, RetainPc
<1> QED BY <1>1, <1>2, <1>4

\* The caller of a retain holds a reference, or is a deinit.
LEMMA AssertRetainKeeps ==
    ASSUME IInv, NEW t \in Thread, AssertRetain(t) PROVE IInv'
<1>1. pc[t] = "assertRetain" /\ pc[t] # "idle"
  BY DEF AssertRetain, At
<1>2. /\ Busy(t) /\ Others(t) /\ Shaped
      /\ Owned \in Nat /\ Owned + 1 < Word /\ handles \in Counts
      /\ strong < Word /\ (pc[t] \in RetainPc => strong + 1 < Word)
  BY <1>1, InRuntime
<1>3. strong >= 1
  <2>1. ~InDeinit(t) => Owned # 0
    BY <1>1, <1>2, OwnedNone DEF Busy, RetainPc, InDeinit, Owned, Shaped, TypeOK
  <2> QED BY <1>1, <1>2, <2>1 DEF Busy, Held, InDeinit, Decrementing
<1>4. /\ loaded' = [loaded EXCEPT ![t] = strong]
      /\ pc' = [pc EXCEPT ![t] = "retainLoad"]
      /\ UNCHANGED <<scheme, strong, freed, deinits, handles, copies, nested, fatal>>
  BY <1>2, <1>3 DEF AssertRetain, Access, Load, Goto, Busy, Shaped, TypeOK, At
<1>5. Owned' = Owned
  BY <1>4 DEF Owned, References
<1>6. Shaped'
  BY <1>2, <1>4 DEF Shaped, TypeOK, RetainPc, ReleasePc
<1>7. Busy(t)'
  BY <1>1, <1>2, <1>4, <1>5 DEF Busy, Held, InDeinit, Decrementing, RetainPc, Shaped, TypeOK
<1>8. pc'[t] # "idle"
  BY <1>2, <1>4 DEF Shaped, TypeOK
<1>9. \A u \in Thread \ {t} :
         pc'[u] = pc[u] /\ copies'[u] = copies[u] /\ nested'[u] = nested[u]
  BY <1>2, <1>4 DEF Shaped, TypeOK
<1> QED BY <1>2, <1>6, <1>7, <1>8, <1>9, Step

LEMMA RetainLoadKeeps ==
    ASSUME IInv, NEW t \in Thread, RetainLoad(t) PROVE IInv'
<1>1. pc[t] = "retainLoad" /\ pc[t] # "idle"
  BY DEF RetainLoad, At
<1>2. /\ Busy(t) /\ Others(t) /\ Shaped
      /\ Owned \in Nat /\ Owned + 1 < Word /\ handles \in Counts
      /\ strong < Word /\ (pc[t] \in RetainPc => strong + 1 < Word)
  BY <1>1, InRuntime
<1>4. /\ loaded' = [loaded EXCEPT ![t] = strong]
      /\ pc' = [pc EXCEPT ![t] = "retainStore"]
      /\ UNCHANGED <<scheme, strong, freed, deinits, handles, copies, nested, fatal>>
  BY <1>2 DEF RetainLoad, Access, Load, Goto, Busy, Shaped, TypeOK, At
<1>5. Owned' = Owned
  BY <1>4 DEF Owned, References
<1>6. Shaped'
  BY <1>2, <1>4 DEF Shaped, TypeOK, RetainPc, ReleasePc
<1>7. Busy(t)'
  BY <1>1, <1>2, <1>4, <1>5 DEF Busy, Held, InDeinit, Decrementing, RetainPc, Shaped, TypeOK
<1>8. pc'[t] # "idle"
  BY <1>2, <1>4 DEF Shaped, TypeOK
<1>9. \A u \in Thread \ {t} :
         pc'[u] = pc[u] /\ copies'[u] = copies[u] /\ nested'[u] = nested[u]
  BY <1>2, <1>4 DEF Shaped, TypeOK
<1> QED BY <1>2, <1>6, <1>7, <1>8, <1>9, Step

LEMMA DecrementLoadKeeps ==
    ASSUME IInv, NEW t \in Thread, DecrementLoad(t) PROVE IInv'
<1>1. pc[t] = "decrLoad" /\ pc[t] # "idle"
  BY DEF DecrementLoad, At
<1>2. /\ Busy(t) /\ Others(t) /\ Shaped
      /\ Owned \in Nat /\ Owned + 1 < Word /\ handles \in Counts
      /\ strong < Word /\ (pc[t] \in RetainPc => strong + 1 < Word)
  BY <1>1, InRuntime
<1>4. /\ loaded' = [loaded EXCEPT ![t] = strong]
      /\ pc' = [pc EXCEPT ![t] = "decrStore"]
      /\ UNCHANGED <<scheme, strong, freed, deinits, handles, copies, nested, fatal>>
  BY <1>2 DEF DecrementLoad, Access, Load, Goto, Busy, Shaped, TypeOK, At
<1>5. Owned' = Owned
  BY <1>4 DEF Owned, References
<1>6. Shaped'
  BY <1>2, <1>4 DEF Shaped, TypeOK, RetainPc, ReleasePc
<1>7. Busy(t)'
  BY <1>1, <1>2, <1>4, <1>5 DEF Busy, Held, InDeinit, Decrementing, RetainPc, Shaped, TypeOK
<1>8. pc'[t] # "idle"
  BY <1>2, <1>4 DEF Shaped, TypeOK
<1>9. \A u \in Thread \ {t} :
         pc'[u] = pc[u] /\ copies'[u] = copies[u] /\ nested'[u] = nested[u]
  BY <1>2, <1>4 DEF Shaped, TypeOK
<1> QED BY <1>2, <1>6, <1>7, <1>8, <1>9, Step

LEMMA LastLoadKeeps ==
    ASSUME IInv, NEW t \in Thread, LastLoad(t) PROVE IInv'
<1>1. pc[t] = "lastLoad" /\ pc[t] # "idle"
  BY DEF LastLoad, At
<1>2. /\ Busy(t) /\ Others(t) /\ Shaped
      /\ Owned \in Nat /\ Owned + 1 < Word /\ handles \in Counts
      /\ strong < Word /\ (pc[t] \in RetainPc => strong + 1 < Word)
  BY <1>1, InRuntime
<1>4. /\ loaded' = [loaded EXCEPT ![t] = strong]
      /\ pc' = [pc EXCEPT ![t] = "lastStore"]
      /\ UNCHANGED <<scheme, strong, freed, deinits, handles, copies, nested, fatal>>
  BY <1>2 DEF LastLoad, Access, Load, Goto, Busy, Shaped, TypeOK, At
<1>5. Owned' = Owned
  BY <1>4 DEF Owned, References
<1>6. Shaped'
  BY <1>2, <1>4 DEF Shaped, TypeOK, RetainPc, ReleasePc
<1>7. Busy(t)'
  BY <1>1, <1>2, <1>4, <1>5 DEF Busy, Held, InDeinit, Decrementing, RetainPc, Shaped, TypeOK
<1>8. pc'[t] # "idle"
  BY <1>2, <1>4 DEF Shaped, TypeOK
<1>9. \A u \in Thread \ {t} :
         pc'[u] = pc[u] /\ copies'[u] = copies[u] /\ nested'[u] = nested[u]
  BY <1>2, <1>4 DEF Shaped, TypeOK
<1> QED BY <1>2, <1>6, <1>7, <1>8, <1>9, Step

LEMMA DeinitReturnsKeeps ==
    ASSUME IInv, NEW t \in Thread, DeinitReturns(t) PROVE IInv'
<1>1. pc[t] = "deinit" /\ pc[t] # "idle"
  BY DEF DeinitReturns, At
<1>2. /\ Busy(t) /\ Others(t) /\ Shaped
      /\ Owned \in Nat /\ Owned + 1 < Word /\ handles \in Counts
      /\ strong < Word /\ (pc[t] \in RetainPc => strong + 1 < Word)
  BY <1>1, InRuntime
<1>4. /\ copies[t] = 0
      /\ pc' = [pc EXCEPT ![t] = "lastLoad"]
      /\ UNCHANGED <<scheme, strong, freed, deinits, handles, copies, nested, loaded, fatal>>
  BY <1>2 DEF DeinitReturns, Access, Load, Goto, Busy, Shaped, TypeOK, At
<1>5. Owned' = Owned
  BY <1>4 DEF Owned, References
<1>6. Shaped'
  BY <1>2, <1>4 DEF Shaped, TypeOK, RetainPc, ReleasePc
<1>7. Busy(t)'
  BY <1>1, <1>2, <1>4, <1>5 DEF Busy, Held, InDeinit, Decrementing, RetainPc, Shaped, TypeOK
<1>8. pc'[t] # "idle"
  BY <1>2, <1>4 DEF Shaped, TypeOK
<1>9. \A u \in Thread \ {t} :
         pc'[u] = pc[u] /\ copies'[u] = copies[u] /\ nested'[u] = nested[u]
  BY <1>2, <1>4 DEF Shaped, TypeOK
<1> QED BY <1>2, <1>6, <1>7, <1>8, <1>9, Step

\* The count drops to zero.
LEMMA LastStoreKeeps ==
    ASSUME IInv, NEW t \in Thread, LastStore(t) PROVE IInv'
<1>1. pc[t] = "lastStore" /\ pc[t] # "idle"
  BY DEF LastStore, At
<1>2. /\ Busy(t) /\ Others(t) /\ Shaped
      /\ Owned \in Nat /\ Owned + 1 < Word /\ handles \in Counts
      /\ strong < Word /\ (pc[t] \in RetainPc => strong + 1 < Word)
  BY <1>1, InRuntime
<1>3. Minus1(loaded[t]) = 0
  BY <1>1, <1>2, NoOverflow DEF Busy, Held, InDeinit, Decrementing, RetainPc, Shaped, TypeOK
<1>4. /\ strong' = 0
      /\ pc' = [pc EXCEPT ![t] = "free"]
      /\ UNCHANGED <<scheme, freed, deinits, handles, copies, nested, loaded, fatal>>
  BY <1>2, <1>3 DEF LastStore, Access, Load, Goto, Busy, Shaped, TypeOK, At
<1>5. Owned' = Owned
  BY <1>4 DEF Owned, References
<1>6. Shaped'
  BY <1>2, <1>4 DEF Shaped, TypeOK, RetainPc, ReleasePc
<1>7. Busy(t)'
  BY <1>1, <1>2, <1>4, <1>5 DEF Busy, Held, InDeinit, Decrementing, RetainPc, Shaped, TypeOK
<1>8. pc'[t] # "idle"
  BY <1>2, <1>4 DEF Shaped, TypeOK
<1>9. \A u \in Thread \ {t} :
         pc'[u] = pc[u] /\ copies'[u] = copies[u] /\ nested'[u] = nested[u]
  BY <1>2, <1>4 DEF Shaped, TypeOK
<1> QED BY <1>2, <1>6, <1>7, <1>8, <1>9, Step

\* The last reference is one whose release no deinit waits for.
LEMMA CountKeeps ==
    ASSUME IInv, NEW t \in Thread, Count(t) PROVE IInv'
<1>1. pc[t] = "count" /\ pc[t] # "idle"
  BY DEF Count, At
<1>2. /\ Busy(t) /\ Others(t) /\ Shaped
      /\ Owned \in Nat /\ Owned + 1 < Word /\ handles \in Counts
      /\ strong < Word /\ (pc[t] \in RetainPc => strong + 1 < Word)
  BY <1>1, InRuntime
<1>3. strong >= 1 /\ scheme = "object" /\ (strong = 1 => nested[t] = 0 /\ Owned = 0)
  BY <1>1, <1>2 DEF Busy, Held, InDeinit, Decrementing, RetainPc, Shaped, TypeOK
<1>4. /\ loaded' = [loaded EXCEPT ![t] = strong]
      /\ UNCHANGED <<scheme, strong, freed, handles, copies, nested, fatal>>
      /\ \/ /\ strong = 1 /\ deinits' = deinits + 1
            /\ pc' = [pc EXCEPT ![t] = "deinit"]
         \/ /\ strong # 1 /\ deinits' = deinits
            /\ pc' = [pc EXCEPT ![t] = "decrLoad"]
  BY <1>2, <1>3 DEF Count, Access, Last, Load, Goto, Busy, Shaped, TypeOK, At
<1>5. Owned' = Owned
  BY <1>4 DEF Owned, References
<1>6. Shaped'
  BY <1>2, <1>4 DEF Shaped, TypeOK, RetainPc, ReleasePc
<1>7. Busy(t)'
  BY <1>1, <1>2, <1>3, <1>4, <1>5 DEF Busy, Held, InDeinit, Decrementing, RetainPc, Shaped, TypeOK
<1>8. pc'[t] # "idle"
  BY <1>2, <1>4 DEF Shaped, TypeOK
<1>9. \A u \in Thread \ {t} :
         pc'[u] = pc[u] /\ copies'[u] = copies[u] /\ nested'[u] = nested[u]
  BY <1>2, <1>4 DEF Shaped, TypeOK
<1> QED BY <1>2, <1>6, <1>7, <1>8, <1>9, Step

\* One reference less: the caller's, or a copy that a deinit made.
LEMMA DecrementStoreKeeps ==
    ASSUME IInv, NEW t \in Thread, DecrementStore(t) PROVE IInv'
<1>1. pc[t] = "decrStore" /\ pc[t] # "idle"
  BY DEF DecrementStore, At
<1>2. /\ Busy(t) /\ Others(t) /\ Shaped
      /\ Owned \in Nat /\ Owned + 1 < Word /\ handles \in Counts
      /\ strong < Word /\ (pc[t] \in RetainPc => strong + 1 < Word)
  BY <1>1, InRuntime
<1>3. loaded[t] = strong /\ strong >= 1 /\ Minus1(strong) = strong - 1
  BY <1>1, <1>2, NoOverflow DEF Busy, Held, InDeinit, Decrementing, RetainPc, Shaped, TypeOK
<1>4. /\ strong' = strong - 1
      /\ UNCHANGED <<scheme, freed, deinits, handles, copies, loaded, fatal>>
      /\ IF scheme = "object" THEN Return(t)
         ELSE pc' = [pc EXCEPT ![t] = "test"] /\ nested' = nested
  BY <1>2, <1>3 DEF DecrementStore, Access, Goto, Busy, At
<1>5. Owned' = Owned
  BY <1>4 DEF Owned, References
<1>a. CASE scheme # "object"
  <2>1. pc' = [pc EXCEPT ![t] = "test"] /\ nested' = nested /\ scheme = "box"
    BY <1>a, <1>2, <1>4 DEF Shaped, TypeOK
  <2>2. Shaped'
    BY <1>2, <1>3, <1>4, <2>1 DEF Shaped, TypeOK, RetainPc, ReleasePc
  <2>3. Busy(t)'
    BY <1>1, <1>2, <1>3, <1>4, <1>5, <2>1 DEF Busy, Held, InDeinit, Decrementing, RetainPc, Shaped, TypeOK
  <2> QED BY <1>2, <1>4, <2>1, <2>2, <2>3, Step DEF Shaped, TypeOK
<1>b. CASE scheme = "object" /\ nested[t] = 0
  <2>1. pc' = [pc EXCEPT ![t] = "idle"] /\ nested' = nested
    BY <1>b, <1>4 DEF Return, Goto
  <2>2. Shaped'
    BY <1>2, <1>3, <1>4, <2>1 DEF Shaped, TypeOK, RetainPc, ReleasePc
  <2>3. Quiet' /\ copies'[t] = 0 /\ nested'[t] = 0
    BY <1>1, <1>2, <1>3, <1>4, <1>5, <1>b, <2>1 DEF Quiet, Busy, Held, InDeinit, Decrementing, RetainPc, Shaped, TypeOK
  <2> QED BY <1>2, <1>4, <2>1, <2>2, <2>3, Step DEF Shaped, TypeOK
<1>c. CASE scheme = "object" /\ nested[t] # 0
  <2>1. /\ nested[t] = 1
        /\ pc' = [pc EXCEPT ![t] = "deinit"]
        /\ nested' = [nested EXCEPT ![t] = 0]
    BY <1>c, <1>2, <1>4 DEF Return, Goto, Busy
  <2>2. Shaped'
    BY <1>2, <1>3, <1>4, <2>1 DEF Shaped, TypeOK, RetainPc, ReleasePc
  <2>3. Busy(t)'
    BY <1>1, <1>2, <1>3, <1>4, <1>5, <2>1 DEF Busy, Held, InDeinit, Decrementing, RetainPc, Shaped, TypeOK
  <2> QED BY <1>2, <1>4, <2>1, <2>2, <2>3, Step DEF Shaped, TypeOK
<1> QED BY <1>a, <1>b, <1>c

\* A box is freed when nobody owns it.
LEMMA TestZeroKeeps ==
    ASSUME IInv, NEW t \in Thread, TestZero(t) PROVE IInv'
<1>1. pc[t] = "test" /\ pc[t] # "idle"
  BY DEF TestZero, At
<1>2. /\ Busy(t) /\ Others(t) /\ Shaped
      /\ Owned \in Nat /\ Owned + 1 < Word /\ handles \in Counts
      /\ strong < Word /\ (pc[t] \in RetainPc => strong + 1 < Word)
  BY <1>1, InRuntime
<1>4. /\ loaded' = [loaded EXCEPT ![t] = strong]
      /\ UNCHANGED <<scheme, strong, freed, handles, copies, nested, fatal>>
      /\ \/ /\ strong = 0 /\ deinits' = deinits + 1
            /\ pc' = [pc EXCEPT ![t] = "free"]
         \/ /\ strong # 0 /\ deinits' = deinits
            /\ pc' = [pc EXCEPT ![t] = "idle"]
  BY <1>2 DEF TestZero, Access, Last, Load, Goto, Busy, Shaped, TypeOK, At
<1>5. Owned' = Owned
  BY <1>4 DEF Owned, References
<1>6. Shaped'
  BY <1>2, <1>4 DEF Shaped, TypeOK, RetainPc, ReleasePc
<1>7. /\ strong = 0 => Busy(t)' /\ pc'[t] # "idle"
      /\ strong # 0 => Quiet' /\ copies'[t] = 0 /\ nested'[t] = 0 /\ pc'[t] = "idle"
  BY <1>1, <1>2, <1>4, <1>5 DEF Quiet, Busy, Held, InDeinit, Decrementing, RetainPc, Shaped, TypeOK
<1>9. \A u \in Thread \ {t} :
         pc'[u] = pc[u] /\ copies'[u] = copies[u] /\ nested'[u] = nested[u]
  BY <1>2, <1>4 DEF Shaped, TypeOK
<1> QED BY <1>2, <1>6, <1>7, <1>9, Step

LEMMA FreeKeeps ==
    ASSUME IInv, NEW t \in Thread, Free(t) PROVE IInv'
<1>1. pc[t] = "free" /\ pc[t] # "idle"
  BY DEF Free, At
<1>2. /\ Busy(t) /\ Others(t) /\ Shaped
      /\ Owned \in Nat /\ Owned + 1 < Word /\ handles \in Counts
      /\ strong < Word /\ (pc[t] \in RetainPc => strong + 1 < Word)
  BY <1>1, InRuntime
<1>3. nested[t] = 0
  BY <1>1, <1>2 DEF Busy, RetainPc, Decrementing
<1>4. /\ pc' = [pc EXCEPT ![t] = "idle"] /\ freed' = TRUE
      /\ UNCHANGED <<scheme, strong, deinits, handles, copies, nested, loaded, fatal>>
  BY <1>2, <1>3 DEF Free, Access, Return, Goto, Busy, At
<1>5. Owned' = Owned
  BY <1>4 DEF Owned, References
<1>6. Shaped'
  BY <1>2, <1>4 DEF Shaped, TypeOK, RetainPc, ReleasePc
<1>7. Quiet' /\ copies'[t] = 0 /\ nested'[t] = 0
  BY <1>1, <1>2, <1>4, <1>5 DEF Quiet, Busy, Held, InDeinit, Decrementing, RetainPc, Shaped, TypeOK
<1>9. \A u \in Thread \ {t} :
         pc'[u] = pc[u] /\ copies'[u] = copies[u] /\ nested'[u] = nested[u]
  BY <1>2, <1>4 DEF Shaped, TypeOK
<1>8. pc'[t] = "idle"
  BY <1>2, <1>4 DEF Shaped, TypeOK
<1> QED BY <1>2, <1>6, <1>7, <1>8, <1>9, Step

\* One reference more: the caller's, or a copy for the deinit.
LEMMA RetainStoreKeeps ==
    ASSUME IInv, NEW t \in Thread, RetainStore(t) PROVE IInv'
<1>1. pc[t] = "retainStore" /\ pc[t] # "idle"
  BY DEF RetainStore, At
<1>2. /\ Busy(t) /\ Others(t) /\ Shaped
      /\ Owned \in Nat /\ Owned + 1 < Word /\ handles \in Counts
      /\ strong < Word /\ (pc[t] \in RetainPc => strong + 1 < Word)
  BY <1>1, InRuntime
<1>3. loaded[t] = strong /\ Plus1(strong) = strong + 1
  BY <1>1, <1>2, NoOverflow DEF Busy, Held, InDeinit, Decrementing, RetainPc, Shaped, TypeOK
<1>4. /\ strong' = strong + 1
      /\ Received(t) /\ Return(t)
      /\ UNCHANGED <<scheme, freed, deinits, loaded, fatal>>
  BY <1>2, <1>3 DEF RetainStore, Access, Busy, At
<1>a. CASE nested[t] = 0
  <2>1. /\ pc' = [pc EXCEPT ![t] = "idle"]
        /\ handles' = [handles EXCEPT ![t] = @ + 1]
        /\ nested' = nested /\ copies' = copies
    BY <1>a, <1>4 DEF Return, Goto, Received
  <2>2. handles[t] < MaxHandles
    BY <1>1, <1>2, <1>a, RefcountAssumption DEF Busy, RetainPc
  <2>3. Owned' = Owned + 1 /\ handles' \in Counts
    <3>1. References(handles)' = References(handles')
      BY DEF References
    <3> QED BY <1>2, <2>1, <2>2, <3>1, OwnedMore DEF Owned
  <2>4. Shaped'
    BY <1>2, <1>4, <2>1, <2>3, RefcountAssumption
       DEF Shaped, TypeOK, RetainPc, ReleasePc, Counts
  <2>5. Quiet' /\ copies'[t] = 0 /\ nested'[t] = 0
    BY <1>1, <1>2, <1>4, <1>a, <2>1, <2>3 DEF Quiet, Busy, Held, InDeinit, Decrementing, RetainPc, Shaped, TypeOK
  <2> QED BY <1>2, <2>1, <2>4, <2>5, Step DEF Shaped, TypeOK
<1>b. CASE nested[t] # 0
  <2>1. /\ nested[t] = 1 /\ handles' = handles
        /\ pc' = [pc EXCEPT ![t] = "deinit"]
        /\ nested' = [nested EXCEPT ![t] = 0]
        /\ copies' = [copies EXCEPT ![t] = @ + 1]
    BY <1>b, <1>2, <1>4 DEF Return, Goto, Received, Busy
  <2>2. Owned' = Owned
    BY <2>1 DEF Owned, References
  <2>3. Shaped'
    BY <1>2, <1>4, <2>1 DEF Shaped, TypeOK, RetainPc, ReleasePc
  <2>4. Busy(t)'
    BY <1>1, <1>2, <1>4, <2>1, <2>2 DEF Busy, Held, InDeinit, Decrementing, RetainPc, Shaped, TypeOK
  <2> QED BY <1>2, <2>1, <2>3, <2>4, Step DEF Shaped, TypeOK
<1> QED BY <1>a, <1>b

\* A thread that is in the program, with the others, and owns a reference.
LEMMA InTheProgram ==
    ASSUME IInv, NEW t \in Thread, pc[t] = "idle", Others(t), handles[t] > 0
    PROVE  /\ Shaped /\ copies[t] = 0 /\ nested[t] = 0
           /\ Owned \in Nat /\ handles \in Counts
           /\ ~freed /\ Owned = strong /\ strong >= 1 /\ deinits = 0
<1>1. Shaped /\ copies[t] = 0 /\ nested[t] = 0
  BY DEF IInv
<1>2. Quiet
  BY DEF IInv, Others
<1>3. handles \in Counts
  BY <1>1, RefcountAssumption DEF Shaped, TypeOK, Counts
<1>4. Owned \in Nat /\ Owned # 0
  BY <1>1, <1>3, OwnedNone, OwnedBounded DEF Owned, Shaped, TypeOK
<1> QED BY <1>1, <1>2, <1>3, <1>4 DEF Quiet

\* The program never is in the runtime twice.
LEMMA Alone ==
    ASSUME IInv, Serialised = TRUE, NEW t \in Thread, InProgram(t)
    PROVE  Others(t) /\ (pc[t] = "idle" \/ pc[t] = "deinit")
BY DEF InProgram, At, Others

LEMMA RetainKeeps ==
    ASSUME IInv, Serialised = TRUE, NEW t \in Thread, Retain(t) PROVE IInv'
<1> DEFINE to == IF scheme = "object" THEN "assertRetain" ELSE "retainLoad"
<1>1. Others(t) /\ (pc[t] = "idle" \/ pc[t] = "deinit")
  BY Alone DEF Retain
<1>2. /\ pc' = [pc EXCEPT ![t] = to]
      /\ UNCHANGED <<scheme, strong, freed, deinits, handles, copies, loaded, fatal>>
  BY DEF Retain, Goto
<1>3. Owned' = Owned
  BY <1>2 DEF Owned, References
<1>a. CASE pc[t] = "idle"
  <2>1. nested' = nested /\ handles[t] \in 1..(MaxHandles - 1)
    BY <1>a DEF Retain, Enter, Deinit, IInv, Shaped, TypeOK
  <2>2. /\ Shaped /\ copies[t] = 0 /\ nested[t] = 0
        /\ Owned \in Nat /\ handles \in Counts
        /\ ~freed /\ Owned = strong /\ strong >= 1 /\ deinits = 0
    BY <1>1, <1>a, <2>1, InTheProgram, RefcountAssumption
  <2>3. Shaped'
    BY <1>2, <2>1, <2>2 DEF Shaped, TypeOK, RetainPc, ReleasePc
  <2>4. Busy(t)' /\ pc'[t] # "idle"
    BY <1>2, <1>3, <2>1, <2>2 DEF Busy, Held, InDeinit, Decrementing, RetainPc, Shaped, TypeOK
  <2> QED BY <1>1, <1>2, <2>1, <2>2, <2>3, <2>4, Step DEF Shaped, TypeOK
<1>b. CASE pc[t] = "deinit"
  <2>1. /\ Busy(t) /\ Others(t) /\ Shaped
        /\ Owned \in Nat /\ handles \in Counts
    BY <1>b, InRuntime
  <2>2. scheme = "object" /\ copies[t] = 0 /\ nested' = [nested EXCEPT ![t] = @ + 1]
    BY <1>b, <2>1 DEF Retain, Enter, Deinit, Shaped, TypeOK
  <2>3. nested[t] = 0
    BY <1>b, <2>1 DEF Busy, RetainPc, Decrementing
  <2>4. Shaped'
    BY <1>2, <2>1, <2>2 DEF Shaped, TypeOK, RetainPc, ReleasePc
  <2>5. Busy(t)' /\ pc'[t] # "idle"
    BY <1>b, <1>2, <1>3, <2>1, <2>2, <2>3 DEF Busy, Held, InDeinit, Decrementing, RetainPc, Shaped, TypeOK
  <2> QED BY <1>1, <1>2, <2>1, <2>2, <2>4, <2>5, Step DEF Shaped, TypeOK
<1> QED BY <1>1, <1>a, <1>b

\* What is released is no longer anybody's, but still counted.
LEMMA ReleaseKeeps ==
    ASSUME IInv, Serialised = TRUE, NEW t \in Thread, Release(t) PROVE IInv'
<1> DEFINE to == IF scheme = "object" THEN "count" ELSE "decrLoad"
<1>1. Others(t) /\ (pc[t] = "idle" \/ pc[t] = "deinit")
  BY Alone DEF Release
<1>2. /\ pc' = [pc EXCEPT ![t] = to]
      /\ UNCHANGED <<scheme, strong, freed, deinits, loaded, fatal>>
  BY DEF Release, Goto
<1>a. CASE pc[t] = "idle"
  <2>1. /\ handles[t] > 0 /\ handles' = [handles EXCEPT ![t] = @ - 1]
        /\ nested' = nested /\ copies' = copies
    BY <1>a DEF Release, Enter, Deinit, IInv, Shaped, TypeOK
  <2>2. /\ Shaped /\ copies[t] = 0 /\ nested[t] = 0
        /\ Owned \in Nat /\ handles \in Counts
        /\ ~freed /\ Owned = strong /\ strong >= 1 /\ deinits = 0
    BY <1>1, <1>a, <2>1, InTheProgram
  <2>3. Owned' = Owned - 1 /\ handles' \in Counts
    <3>1. References(handles)' = References(handles')
      BY DEF References
    <3> QED BY <2>1, <2>2, <3>1, OwnedLess DEF Owned
  <2>4. Shaped'
    BY <1>2, <2>1, <2>2, <2>3, RefcountAssumption
       DEF Shaped, TypeOK, RetainPc, ReleasePc, Counts
  <2>5. Busy(t)' /\ pc'[t] # "idle"
    BY <1>2, <2>1, <2>2, <2>3 DEF Busy, Held, InDeinit, Decrementing, RetainPc, Shaped, TypeOK
  <2> QED BY <1>1, <1>2, <2>1, <2>2, <2>4, <2>5, Step DEF Shaped, TypeOK
<1>b. CASE pc[t] = "deinit"
  <2>1. /\ Busy(t) /\ Others(t) /\ Shaped
        /\ Owned \in Nat /\ handles \in Counts
    BY <1>b, InRuntime
  <2>2. /\ copies[t] > 0 /\ copies' = [copies EXCEPT ![t] = @ - 1]
        /\ handles' = handles /\ nested' = [nested EXCEPT ![t] = @ + 1]
    BY <1>b, <2>1 DEF Release, Enter, Deinit, Shaped, TypeOK
  <2>3. nested[t] = 0 /\ scheme = "object" /\ copies[t] = 1
    BY <1>b, <2>1, <2>2 DEF Busy, RetainPc, Decrementing, InDeinit
  <2>4. Owned' = Owned
    BY <2>2 DEF Owned, References
  <2>5. Shaped'
    BY <1>2, <2>1, <2>2, <2>3 DEF Shaped, TypeOK, RetainPc, ReleasePc
  <2>6. Busy(t)' /\ pc'[t] # "idle"
    BY <1>b, <1>2, <2>1, <2>2, <2>3, <2>4 DEF Busy, Held, InDeinit, Decrementing, RetainPc, Shaped, TypeOK
  <2> QED BY <1>1, <1>2, <2>1, <2>2, <2>5, <2>6, Step DEF Shaped, TypeOK
<1> QED BY <1>1, <1>a, <1>b

\* References may be handed on while another thread is in the runtime.
LEMMA GiveKeeps ==
    ASSUME IInv, NEW t \in Thread, NEW u \in Thread, Give(t, u) PROVE IInv'
<1> DEFINE less == [handles EXCEPT ![t] = @ - 1]
<1>1. Shaped /\ handles \in Counts
  BY RefcountAssumption DEF IInv, Shaped, TypeOK, Counts
<1>2. /\ t # u /\ pc[t] = "idle" /\ pc[u] = "idle"
      /\ handles[t] > 0 /\ handles[u] < MaxHandles
      /\ handles' = [handles EXCEPT ![t] = @ - 1, ![u] = @ + 1]
      /\ UNCHANGED <<scheme, strong, freed, deinits, copies, pc, nested, loaded, fatal>>
  BY DEF Give, At
<1>3. less \in Counts /\ Cardinality(References(less)) = Owned - 1
  BY <1>1, <1>2, OwnedLess DEF Owned
<1>4. less[u] < MaxHandles /\ handles' = [less EXCEPT ![u] = @ + 1]
  BY <1>1, <1>2 DEF Counts
<1> HIDE DEF less
<1>5. handles' \in Counts /\ Cardinality(References(handles')) = Owned
  <2>1. Owned \in Nat
    BY OwnedBounded DEF Owned
  <2>2. /\ [less EXCEPT ![u] = @ + 1] \in Counts
        /\ Cardinality(References([less EXCEPT ![u] = @ + 1]))
             = Cardinality(References(less)) + 1
    BY <1>3, <1>4, OwnedMore
  <2>3. Cardinality(References(less)) + 1 = Owned
    BY <1>3, <2>1
  <2> QED BY <1>4, <2>2, <2>3
<1>6. Owned' = Owned
  <2>1. References(handles)' = References(handles')
    BY DEF References
  <2> QED BY <1>5, <2>1 DEF Owned
<1>7. Shaped'
  BY <1>1, <1>2, <1>5, RefcountAssumption DEF Shaped, TypeOK, Counts
<1>8. ASSUME NEW v \in Thread, pc'[v] # "idle" PROVE Others(v)' /\ Busy(v)'
  <2>1. Others(v) /\ Busy(v) /\ v # t /\ v # u
    BY <1>2, <1>8 DEF IInv
  <2>2. handles'[v] = handles[v]
    BY <1>1, <1>2, <2>1 DEF Counts
  <2> QED BY <1>2, <1>6, <2>1, <2>2
          DEF Others, Busy, Held, InDeinit
<1>9. (\A v \in Thread : pc'[v] = "idle") => Quiet'
  BY <1>2, <1>6 DEF IInv, Quiet
<1> QED BY <1>2, <1>7, <1>8, <1>9 DEF IInv

-----------------------------------------------------------------------------

LEMMA InitIInv == Init => IInv
<1> SUFFICES ASSUME Init PROVE IInv
  OBVIOUS
<1> DEFINE none == [t \in Thread |-> 0]
<1>1. none \in Counts /\ Cardinality(References(none)) = 0
  <2>1. none \in Counts
    BY RefcountAssumption DEF Counts
  <2> QED BY <2>1, OwnedNone
<1>2. handles = [none EXCEPT ![Creator] = @ + 1]
  BY RefcountAssumption DEF Init
<1>3. none[Creator] < MaxHandles
  BY RefcountAssumption
<1> HIDE DEF none
<1>4. handles \in Counts /\ Owned = 1
  <2>1. /\ [none EXCEPT ![Creator] = @ + 1] \in Counts
        /\ Cardinality(References([none EXCEPT ![Creator] = @ + 1]))
             = Cardinality(References(none)) + 1
    BY <1>1, <1>3, RefcountAssumption, OwnedMore
  <2> QED BY <1>1, <1>2, <2>1 DEF Owned
<1>5. handles \in [Thread -> Nat] /\ \A t \in Thread : handles[t] <= MaxHandles
  BY <1>4, RefcountAssumption DEF Counts
<1>6. Shaped
  BY <1>5 DEF Init, Shaped, TypeOK
<1>7. Quiet
  BY <1>4 DEF Init, Quiet
<1>8. \A t \in Thread : pc[t] = "idle" /\ copies[t] = 0 /\ nested[t] = 0
  BY DEF Init
<1> QED BY <1>6, <1>7, <1>8 DEF IInv

LEMMA NextIInv ==
    ASSUME Serialised = TRUE PROVE IInv /\ [Next]_vars => IInv'
<1> SUFFICES ASSUME IInv, [Next]_vars PROVE IInv'
  OBVIOUS
<1>1. ASSUME NEW t \in Thread, Runtime(t) PROVE IInv'
  BY <1>1, AssertRetainKeeps, RetainLoadKeeps, RetainStoreKeeps, CountKeeps,
     DecrementLoadKeeps, DecrementStoreKeeps, TestZeroKeeps,
     DeinitReturnsKeeps, LastLoadKeeps, LastStoreKeeps, FreeKeeps DEF Runtime
<1>2. CASE UNCHANGED vars
  <2>1. Owned' = Owned
    BY <1>2 DEF vars, Owned, References
  <2> QED BY <1>2, <2>1
          DEF vars, IInv, Shaped, TypeOK, Others, Quiet, Busy, Held, InDeinit
<1> QED BY <1>1, <1>2, RetainKeeps, ReleaseKeeps, GiveKeeps DEF Next

THEOREM Invariance ==
    ASSUME Serialised = TRUE PROVE Spec => []IInv
BY InitIInv, NextIInv, PTL DEF Spec

\* The counters of the runtime keep their types.
THEOREM TypeCorrect ==
    ASSUME Serialised = TRUE PROVE Spec => []TypeOK
<1>1. IInv => TypeOK
  BY DEF IInv, Shaped
<1> QED BY Invariance, <1>1, PTL

\* No assertion of the runtime fails, nothing touches the object after it was
\* freed, and nobody has a reference to it then (_cdot_AtomicRelease,
\* _cdot_AtomicRetain and those of boxes and lambdas).
THEOREM NoDanglingHolds ==
    ASSUME Serialised = TRUE PROVE Spec => []NoDangling
<1>1. IInv => NoDangling
  <2> SUFFICES ASSUME IInv PROVE NoDangling
    OBVIOUS
  <2>1. ASSUME freed PROVE \A t \in Thread : handles[t] = 0 /\ copies[t] = 0
    <3>1. \A t \in Thread : pc[t] = "idle"
      BY <2>1 DEF IInv, Busy
    <3>2. Owned = 0 /\ handles \in Counts
      BY <2>1, <3>1, RefcountAssumption DEF IInv, Quiet, Shaped, TypeOK, Counts
    <3> QED BY <3>1, <3>2, OwnedNone DEF Owned, IInv
  <2> QED BY <2>1 DEF NoDangling, IInv, Shaped
<1> QED BY Invariance, <1>1, PTL

\* The deinitialiser of an object runs once, before its memory goes, also if
\* it makes and releases references to the object itself.
THEOREM DeinitOnceHolds ==
    ASSUME Serialised = TRUE PROVE Spec => []DeinitOnce
<1>1. IInv => DeinitOnce
  <2> SUFFICES ASSUME IInv PROVE DeinitOnce
    OBVIOUS
  <2>1. CASE \A t \in Thread : pc[t] = "idle"
    BY <2>1 DEF IInv, Quiet, DeinitOnce
  <2>2. ASSUME NEW t \in Thread, pc[t] # "idle" PROVE DeinitOnce
    BY <2>2 DEF IInv, Busy, DeinitOnce
  <2> QED BY <2>1, <2>2
<1> QED BY Invariance, <1>1, PTL

\* Between calls the strong count is the number of references.
THEOREM CountExactHolds ==
    ASSUME Serialised = TRUE PROVE Spec => []CountExact
<1>1. IInv => CountExact
  BY DEF IInv, Quiet, CountExact, Owned
<1> QED BY Invariance, <1>1, PTL
=============================================================================
