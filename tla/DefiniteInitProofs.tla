------------------------ MODULE DefiniteInitProofs ------------------------
(* Proofs about DefiniteInit, for every function, every set of variables    *)
(* and every order of the worklist: what is left in the worklist's absence  *)
(* solves the equations of the dataflow problem, and the execution of an    *)
(* accepted function never reads or moves what holds no value.              *)
EXTENDS DefiniteInit, TLAPS

LEMMA FnFacts ==
    ASSUME TypeOK, NEW b \in Block
    PROVE  /\ fn.succ \in [Block -> SUBSET Block]
           /\ fn.succ[b] \subseteq Block
           /\ fn.args \subseteq Var
           /\ Code(b) \in Seq([op : Op, var : Var])
           /\ Last(b) \in Nat
           /\ DOMAIN Code(b) = 1..Last(b)
           /\ \A i \in 1..Last(b) : Code(b)[i] \in [op : Op, var : Var]
  <1>1. /\ fn.succ \in [Block -> SUBSET Block] /\ fn.args \subseteq Var
        /\ fn.code \in [Block -> Seq([op : Op, var : Var])]
    BY DEF TypeOK, Function
  <1>2. Code(b) \in Seq([op : Op, var : Var])
    BY <1>1 DEF Code
  <1>3. \A S, s : s \in Seq(S) =>
           /\ Len(s) \in Nat /\ DOMAIN s = 1..Len(s)
           /\ \A i \in 1..Len(s) : s[i] \in S
    OBVIOUS
  <1>. QED
    BY <1>1, <1>2, <1>3 DEF Last

LEMMA VarFacts ==
    ASSUME NEW v \in Var
    PROVE  /\ FieldsOf(v) \subseteq Var
           /\ v \in Bits(v) /\ Bits(v) \subseteq Var
           /\ Leaves(v) \subseteq Bits(v)
           /\ \A u \in Leaves(v) : u \in Var /\ Fields[u] = <<>>
           /\ \A u \in Bits(v) : Fields[u] = <<>> => u \in Leaves(v)
  <1>1. Fields[v] \in Seq(Var)
    BY VarAssumption
  <1>2. \A i \in DOMAIN Fields[v] : Fields[v][i] \in Var /\ Fields[Fields[v][i]] = <<>>
    BY <1>1, VarAssumption
  <1>3. Fields[v] = <<>> => FieldsOf(v) = {}
    BY DEF FieldsOf
  <1>. QED
    BY <1>2, <1>3 DEF FieldsOf, Bits, Leaves

LEMMA SetFacts ==
    ASSUME NEW S, S \subseteq Var
    PROVE  AllBits(S) \subseteq Var /\ AllLeaves(S) \subseteq Var
           /\ \A v \in AllBits(S) : Fields[v] = <<>> => v \in AllLeaves(S)
  <1>1. \A v \in S : Bits(v) \subseteq Var /\ Leaves(v) \subseteq Var
        /\ \A u \in Bits(v) : Fields[u] = <<>> => u \in Leaves(v)
    BY VarFacts
  <1>. QED  BY <1>1 DEF AllBits, AllLeaves

-----------------------------------------------------------------------------
(* Type correctness.                                                        *)

LEMMA InitType == Init => TypeOK
  <1>. SUFFICES ASSUME Init PROVE TypeOK
    OBVIOUS
  <1>1. fn \in Function
    BY FunctionAssumption DEF Init
  <1>2. fn.args \subseteq Var
    BY <1>1 DEF Function
  <1>3. EntryIn \subseteq Var
    BY <1>2, SetFacts DEF EntryIn
  <1>4. EntryOut \subseteq Var
    BY <1>3 DEF EntryOut, Gen
  <1>5. mustIn \in BlockBits /\ mustOut \in BlockBits
    BY <1>3, <1>4 DEF Init, BlockBits
  <1>6. mayIn \in BlockBits /\ mayOut \in BlockBits
    BY <1>5 DEF Init
  <1>. QED
    BY <1>1, <1>5, <1>6 DEF Init, TypeOK

LEMMA NextType == TypeOK /\ [Next]_vars => TypeOK'
  <1>. SUFFICES ASSUME TypeOK, [Next]_vars PROVE TypeOK'
    OBVIOUS
  <1>1. ASSUME NEW b \in Block, Solve(b) PROVE TypeOK'
    <2>1. CASE Pred(b) = {}
      BY <1>1, <2>1 DEF Solve, TypeOK
    <2>2. CASE Pred(b) # {}
      <3>1. MeetAll(b) \subseteq Var /\ MeetAny(b) \subseteq Var
        BY DEF MeetAll, MeetAny
      <3>2. Out(b, MeetAll(b)) \subseteq Var /\ Out(b, MeetAny(b)) \subseteq Var
        BY <3>1 DEF Out, Gen
      <3>3. Again(b, Out(b, MeetAll(b)), Out(b, MeetAny(b))) \subseteq Block
        <4>1. fn.succ[b] \subseteq Block
          BY FnFacts
        <4>. QED  BY <4>1 DEF Again, TypeOK
      <3>4. mustIn' \in BlockBits /\ mayIn' \in BlockBits
        BY <1>1, <2>2, <3>1 DEF Solve, TypeOK, BlockBits
      <3>5. mustOut' \in BlockBits /\ mayOut' \in BlockBits
        BY <1>1, <2>2, <3>2 DEF Solve, TypeOK, BlockBits
      <3>. QED
        BY <1>1, <2>2, <3>3, <3>4, <3>5 DEF Solve, TypeOK
    <2>. QED  BY <2>1, <2>2
  <1>2. CASE Start
    <2>1. fn.args \subseteq Var
      BY DEF TypeOK, Function
    <2>2. AllLeaves(fn.args) \subseteq Var
      BY <2>1, SetFacts
    <2>. QED
      BY <1>2, <2>1, <2>2, FunctionAssumption DEF Start, TypeOK, BlockBits, pass
  <1>3. CASE Execute
    <2>1. at \in Block /\ Ins.var \in Var
      <3>1. at \in Block /\ next \in DOMAIN Code(at)
        BY <1>3 DEF Execute, Store, Move, Use, Alloca, Deinit, Executing, At, TypeOK
      <3>. QED  BY <3>1, FnFacts DEF Ins
    <2>2. Leaves(Ins.var) \subseteq Var
      BY <2>1, VarFacts
    <2>3. live' \subseteq Var /\ flag' \subseteq Var /\ stale' \subseteq Var
      BY <1>3, <2>1, <2>2 DEF Execute, Store, Move, Use, Alloca, Deinit, TypeOK
    <2>. QED
      BY <1>3, <2>3 DEF Execute, TypeOK, BlockBits, pass
  <1>4. ASSUME NEW c \in Block, Branch(c) PROVE TypeOK'
    BY <1>4 DEF Branch, TypeOK, BlockBits, pass
  <1>5. CASE UNCHANGED vars
    BY <1>5 DEF vars, TypeOK, BlockBits
  <1>. QED
    BY <1>1, <1>2, <1>3, <1>4, <1>5 DEF Next

\* The state of the analysis and of the execution stays in its types, for
\* every set of blocks, variables and functions.
THEOREM TypeCorrect == Spec => []TypeOK
  BY InitType, NextType, PTL DEF Spec

-----------------------------------------------------------------------------
(* What one more instruction does to Gen and Kill.                          *)

\* What counts as initialised after an instruction was written by it, or
\* counted before and was not moved by it.
LEMMA OneMore ==
    ASSUME TypeOK, NEW b \in Block, NEW i \in 1..Last(b),
           NEW v \in MustGen(b, i + 1)
    PROVE  \/ Writes(Code(b)[i], v)
           \/ v \in MustGen(b, i) /\ ~Empties(Code(b)[i], v)
  <1>. i \in Nat /\ i - 1 + 1 = i /\ i + 1 - 1 = i
    BY FnFacts
  <1>. SUFFICES ASSUME ~Writes(Code(b)[i], v)
                PROVE  v \in MustGen(b, i) /\ ~Empties(Code(b)[i], v)
    OBVIOUS
  <1>1. v \in mustIn[b] \union Gen(b, i) /\ v \notin Kill(b, i) /\ v \in Var
    BY DEF MustGen, TypeOK, BlockBits, Gen
  <1>2. ~Empties(Code(b)[i], v)
    BY <1>1 DEF Kill
  <1>3. v \notin Kill(b, i - 1)
    <2>1. SUFFICES ASSUME v \in Kill(b, i - 1) PROVE FALSE
      OBVIOUS
    <2>2. PICK j \in 1..(i - 1) : /\ Empties(Code(b)[j], v)
                                  /\ \A k \in (j + 1)..(i - 1) : ~Writes(Code(b)[k], v)
      BY <2>1 DEF Kill
    <2>3. \A k \in (j + 1)..i : ~Writes(Code(b)[k], v)
      BY <2>2
    <2>. QED  BY <1>1, <2>2, <2>3 DEF Kill
  <1>4. v \in Gen(b, i) => v \in Gen(b, i - 1)
    <2>1. SUFFICES ASSUME v \in Gen(b, i) PROVE v \in Gen(b, i - 1)
      OBVIOUS
    <2>2. PICK j \in 1..i : /\ Writes(Code(b)[j], v)
                            /\ \A k \in (j + 1)..i : ~Empties(Code(b)[k], v)
      BY <2>1 DEF Gen
    <2>3. j \in 1..(i - 1)
      BY <2>2
    <2>. QED  BY <1>1, <2>2, <2>3 DEF Gen
  <1>. QED
    BY <1>1, <1>2, <1>3, <1>4 DEF MustGen

\* Before the first instruction only what came in counts.
LEMMA AtFirst ==
    ASSUME NEW b \in Block, NEW v \in MustGen(b, 1)
    PROVE  v \in mustIn[b]
  BY DEF MustGen, Gen

\* Nothing that a block leaves initialised is moved last in it.
LEMMA GenKeeps ==
    ASSUME TypeOK, NEW b \in Block, NEW v \in Gen(b, Last(b))
    PROVE  v \notin Kill(b, Last(b))
  <1>. Last(b) \in Nat
    BY FnFacts
  <1>1. SUFFICES ASSUME v \in Kill(b, Last(b)) PROVE FALSE
    OBVIOUS
  <1>2. PICK j \in 1..Last(b) : /\ Writes(Code(b)[j], v)
                                /\ \A k \in (j + 1)..Last(b) : ~Empties(Code(b)[k], v)
    BY DEF Gen
  <1>3. PICK m \in 1..Last(b) : /\ Empties(Code(b)[m], v)
                                /\ \A k \in (m + 1)..Last(b) : ~Writes(Code(b)[k], v)
    BY <1>1 DEF Kill
  <1>4. CASE j < m
    BY <1>2, <1>3, <1>4
  <1>5. CASE m < j
    BY <1>2, <1>3, <1>5
  <1>6. CASE j = m
    BY <1>2, <1>3, <1>6 DEF Writes, Empties
  <1>. QED  BY <1>4, <1>5, <1>6

\* A state of Fully is what it says.
LEMMA FullyMeansAll ==
    ASSUME NEW v \in Var, NEW must, NEW may, State(v, must, may) = "Fully"
    PROVE  Leaves(v) \subseteq must
  <1>. DEFINE field(i) == LeafState(Fields[v][i], must, may)
              mixed(i) == \E j \in 1..i : field(j) # field(1)
              stop == {i \in DOMAIN Fields[v] : field(i) = "Maybe" \/ mixed(i)}
  <1>1. Fields[v] \in Seq(Var)
    BY VarAssumption
  <1>2. CASE Fields[v] = <<>>
    BY <1>2 DEF State, LeafState, Leaves
  <1>3. CASE Fields[v] # <<>>
    <2>1. stop = {} /\ field(1) = "Fully"
      <3>1. State(v, must, may) =
               IF stop = {} THEN field(1)
               ELSE IF \E i \in stop : field(i) = "Maybe" /\ \A j \in stop : i <= j
                    THEN "Maybe" ELSE "Partially"
        BY <1>3 DEF State
      <3>. QED  BY <3>1
    <2>2. \A i \in DOMAIN Fields[v] : i \in 1..i
      BY <1>1
    <2>3. \A i \in DOMAIN Fields[v] : field(i) = field(1)
      BY <2>1, <2>2
    <2>4. \A i \in DOMAIN Fields[v] : Fields[v][i] \in must
      BY <2>1, <2>3 DEF LeafState
    <2>. QED  BY <1>3, <2>4 DEF Leaves, FieldsOf
  <1>. QED  BY <1>2, <1>3

-----------------------------------------------------------------------------
(* The inductive invariant: a block that is not in the worklist satisfies   *)
(* its equations, and during the execution every declared leaf that counts  *)
(* as initialised holds a value.                                            *)

Solved(b) == /\ mustIn[b] = MeetAll(b) /\ mustOut[b] = Out(b, mustIn[b])
             /\ mayIn[b] = MeetAny(b) /\ mayOut[b] = Out(b, mayIn[b])

FlowInv ==
    /\ mustIn[1] = EntryIn /\ mustOut[1] = EntryOut
    /\ mayIn[1] = EntryIn /\ mayOut[1] = EntryOut
    /\ fn \in Functions /\ 1 \notin worklist
    /\ \A b \in Block \ {1} : (Pred(b) # {} /\ b \notin worklist) => Solved(b)

Declared == InScope(fn, at, next - 1)

RunInv ==
    at # 0 =>
    /\ worklist = {} /\ Accepted
    /\ next \in 1..(Last(at) + 1)
    /\ at = 1 \/ Pred(at) # {}
    /\ at \in Reached(fn, Block)
    /\ EntryKeepsArgs =>
          \A v \in MustGen(at, next) \intersect Declared :
              Fields[v] = <<>> => v \in live

IInv == TypeOK /\ FlowInv /\ RunInv

LEMMA InitIInv == Init => IInv
  <1>. SUFFICES ASSUME Init PROVE IInv
    OBVIOUS
  <1>1. TypeOK
    BY InitType
  <1>2. FlowInv
    BY <1>1, FunctionAssumption DEF Init, FlowInv, TypeOK, BlockBits
  <1>. QED
    BY <1>1, <1>2 DEF IInv, RunInv, Init

\* A turn of the loop solves its block, and whatever it may unsolve is put
\* back.
LEMMA SolveFlow ==
    ASSUME TypeOK, FlowInv, NEW b \in Block, Solve(b)
    PROVE  FlowInv'
  <1>. DEFINE must == Out(b, MeetAll(b))
              may  == Out(b, MeetAny(b))
  <1>1. b # 1 /\ 1 \notin fn.succ[b] /\ fn' = fn /\ fn.succ[b] \subseteq Block
    BY FunctionAssumption, FnFacts DEF Solve, FlowInv
  <1>2. EntryIn' = EntryIn /\ EntryOut' = EntryOut
        /\ \A c \in Block : Pred(c)' = Pred(c)
    BY <1>1 DEF EntryIn, EntryOut, Gen, Pred, Code, Last, AllBits
  <1>3. CASE Pred(b) = {}
    <2>1. UNCHANGED <<mustIn, mustOut, mayIn, mayOut>> /\ worklist' = worklist \ {b}
      BY <1>3 DEF Solve
    <2>2. \A c \in Block : Solved(c)' = Solved(c)
      BY <1>1, <1>2, <2>1 DEF Solved, MeetAll, MeetAny, Out, Gen, Kill, Code, Last, Pred
    <2>. QED
      BY <1>1, <1>2, <1>3, <2>1, <2>2 DEF FlowInv
  <1>4. CASE Pred(b) # {}
    <2>1. /\ mustIn' = [mustIn EXCEPT ![b] = MeetAll(b)]
          /\ mustOut' = [mustOut EXCEPT ![b] = must]
          /\ mayIn' = [mayIn EXCEPT ![b] = MeetAny(b)]
          /\ mayOut' = [mayOut EXCEPT ![b] = may]
          /\ worklist' = Again(b, must, may)
      BY <1>4 DEF Solve
    <2>2. /\ mustIn'[b] = MeetAll(b) /\ mustOut'[b] = must
          /\ mayIn'[b] = MeetAny(b) /\ mayOut'[b] = may
          /\ \A c \in Block \ {b} : /\ mustIn'[c] = mustIn[c] /\ mustOut'[c] = mustOut[c]
                                   /\ mayIn'[c] = mayIn[c] /\ mayOut'[c] = mayOut[c]
      BY <2>1 DEF TypeOK, BlockBits
    <2>3. \A in : \A c \in Block : Out(c, in)' = Out(c, in')
      BY <1>1 DEF Out, Gen, Kill, Code, Last
    <2>4. 1 \notin worklist'
      BY <1>1, <2>1 DEF Again, FlowInv
    <2>5. ASSUME NEW c \in Block \ {1}, Pred(c)' # {}, c \notin worklist'
          PROVE  Solved(c)'
      <3>1. Pred(c) # {} /\ c \notin worklist \ {b}
        BY <1>2, <2>1, <2>5 DEF Again
      <3>2. (mustOut'[b] = mustOut[b] /\ mayOut'[b] = mayOut[b]) \/ b \notin Pred(c)
        BY <2>1, <2>2, <2>5 DEF Again, Pred
      <3>3. MeetAll(c)' = MeetAll(c) /\ MeetAny(c)' = MeetAny(c)
        <4>1. \A d \in Pred(c) : d \in Block /\ mustOut'[d] = mustOut[d]
                                 /\ mayOut'[d] = mayOut[d]
          BY <2>2, <3>2 DEF Pred
        <4>. QED  BY <1>2, <4>1 DEF MeetAll, MeetAny
      <3>4. CASE c = b
        BY <2>2, <2>3, <3>3, <3>4 DEF Solved
      <3>5. CASE c # b
        <4>1. Solved(c)
          BY <3>1, <3>5, <2>5 DEF FlowInv
        <4>. QED
          BY <2>2, <2>3, <3>3, <3>5, <4>1 DEF Solved
      <3>. QED  BY <3>4, <3>5
    <2>. QED
      BY <1>1, <1>2, <2>2, <2>4, <2>5, FunctionAssumption DEF FlowInv
  <1>. QED  BY <1>3, <1>4

\* What the execution does leaves the solution alone.
LEMMA RunFlow ==
    ASSUME FlowInv, UNCHANGED <<fn, worklist, mustIn, mustOut, mayIn, mayOut>>
    PROVE  FlowInv'
  BY DEF FlowInv, EntryIn, EntryOut, AllBits, Gen, Kill, Pred, Solved, MeetAll,
         MeetAny, Out, Code, Last

LEMMA NextFlow == TypeOK /\ FlowInv /\ [Next]_vars => FlowInv'
  <1>. SUFFICES ASSUME TypeOK, FlowInv, [Next]_vars PROVE FlowInv'
    OBVIOUS
  <1>1. ASSUME NEW b \in Block, Solve(b) PROVE FlowInv'
    BY <1>1, SolveFlow
  <1>2. CASE ~\E b \in Block : Solve(b)
    <2>1. UNCHANGED <<fn, worklist, mustIn, mustOut, mayIn, mayOut>>
      BY <1>2 DEF Next, Start, Execute, Branch, vars, pass
    <2>. QED  BY <2>1, RunFlow
  <1>. QED  BY <1>1, <1>2

-----------------------------------------------------------------------------
(* The execution.                                                           *)

\* What is declared after an instruction was declared by it, or before and is
\* not what it deinitialises; and the other way round.
LEMMA OneMoreDeclared ==
    ASSUME TypeOK, NEW b \in Block, NEW i \in 1..Last(b), NEW v \in Var
    PROVE  /\ v \in InScope(fn, b, i) =>
                 \/ Begins(Code(b)[i], v)
                 \/ v \in InScope(fn, b, i - 1) /\ ~Ends(Code(b)[i], v)
           /\ (v \in InScope(fn, b, i - 1) /\ ~Ends(Code(b)[i], v)) =>
                 v \in InScope(fn, b, i)
  <1>. DEFINE From(j, n) ==
                 /\ IF j = 0 THEN v \in fn.scope[b] ELSE Begins(Code(b)[j], v)
                 /\ \A k \in (j + 1)..n : ~Ends(Code(b)[k], v)
  <1>0. i \in Nat /\ i >= 1
    BY FnFacts
  <1>1. \A n : v \in InScope(fn, b, n) <=> \E j \in 0..n : From(j, n)
    BY DEF InScope, Code
  <1>2. ASSUME NEW j \in 0..i, From(j, i)
        PROVE  \/ Begins(Code(b)[i], v)
               \/ (\E m \in 0..(i - 1) : From(m, i - 1)) /\ ~Ends(Code(b)[i], v)
    <2>1. CASE j = i
      BY <1>0, <1>2, <2>1
    <2>2. CASE j # i
      <3>1. j \in 0..(i - 1) /\ From(j, i - 1)
        BY <1>0, <1>2, <2>2
      <3>2. ~Ends(Code(b)[i], v)
        BY <1>0, <1>2, <2>2
      <3>. HIDE DEF From
      <3>. QED  BY <3>1, <3>2
    <2>. QED  BY <2>1, <2>2
  <1>3. ASSUME NEW j \in 0..(i - 1), From(j, i - 1), ~Ends(Code(b)[i], v)
        PROVE  j \in 0..i /\ From(j, i)
    BY <1>0, <1>3
  <1>. HIDE DEF From
  <1>. QED  BY <1>0, <1>1, <1>2, <1>3

\* What the entry leads to is closed under the edges.
LEMMA ReachedStep ==
    ASSUME TypeOK, NEW b \in Block, b \in Reached(fn, Block), NEW c \in fn.succ[b]
    PROVE  c \in Reached(fn, Block)
  <1>1. c \in Block
    BY FnFacts
  <1>2. ASSUME NEW S \in SUBSET Block, 1 \in S,
               \A d \in S \intersect Block : fn.succ[d] \subseteq S
        PROVE  c \in S
    <2>1. b \in S
      BY <1>2 DEF Reached
    <2>. QED  BY <1>2, <2>1
  <1>. QED  BY <1>1, <1>2 DEF Reached

\* What is declared does not count as initialised there: a path leads to the
\* declaration on which nothing has stored to it.
LEMMA FirstDeclared ==
    ASSUME TypeOK, FlowInv, worklist = {},
           NEW b \in Block, b \in Reached(fn, Block), b = 1 \/ Pred(b) # {},
           NEW i \in 1..Last(b), NEW v \in Var, Begins(Code(b)[i], v)
    PROVE  v \notin MustGen(b, i)
  <1>. DEFINE P == NeverWrites(fn, v)
              S == {c \in Block : c = 1 \/ (Pred(c) # {} /\ v \notin mustIn[c])}
  <1>1. /\ v \notin EntryIn
        /\ \A j \in 1..(i - 1) : ~Writes(Code(b)[j], v)
        /\ b \in Reached(fn, P)
    <2>1. i \in DOMAIN fn.code[b] /\ fn.code[b][i].op = "alloca"
          /\ v \in Bits(fn.code[b][i].var)
      BY FnFacts DEF Begins, Code
    <2>2. DeclaresNew(fn, b, i)
      BY <2>1, FunctionAssumption DEF FlowInv, Scoped
    <2>. QED  BY <2>1, <2>2 DEF DeclaresNew, EntryIn, Code
  <1>2. 1 \in S /\ S \in SUBSET Block
    BY FunctionAssumption
  <1>3. ASSUME NEW c \in S \intersect P, NEW d \in fn.succ[c] PROVE d \in S
    <2>1. /\ c \in Block /\ d \in Block /\ d # 1 /\ c \in Pred(d) /\ Last(c) \in Nat
          /\ c = 1 \/ (Pred(c) # {} /\ v \notin mustIn[c])
      BY <1>3, FnFacts, FunctionAssumption DEF FlowInv, Pred
    <2>2. v \notin Gen(c, Last(c))
      <3>1. \A j \in 1..Last(c) : ~Writes(Code(c)[j], v)
        BY <1>3, <2>1, FnFacts DEF NeverWrites, Code
      <3>. QED  BY <3>1 DEF Gen
    <2>3. v \notin mustOut[c]
      <3>1. CASE c = 1
        BY <1>1, <2>2, <3>1 DEF FlowInv, EntryOut
      <3>2. CASE c # 1
        BY <2>1, <2>2, <3>2 DEF FlowInv, Solved, Out
      <3>. QED  BY <3>1, <3>2
    <2>4. v \notin mustIn[d]
      BY <2>1, <2>3 DEF FlowInv, Solved, MeetAll
    <2>. QED  BY <2>1, <2>4
  <1>4. \A c \in S \intersect P : fn.succ[c] \subseteq S
    BY <1>3
  <1>5. b \in S
    <2>. HIDE DEF S, P
    <2>. QED  BY <1>1, <1>2, <1>4 DEF Reached
  <1>6. v \notin mustIn[b]
    BY <1>1, <1>5 DEF FlowInv
  <1>7. v \notin Gen(b, i - 1)
    BY <1>1 DEF Gen
  <1>. QED  BY <1>6, <1>7 DEF MustGen

\* What is at hand when an instruction is executed.
LEMMA AtIns ==
    ASSUME TypeOK, at # 0, next \in DOMAIN Code(at)
    PROVE  /\ at \in Block /\ next \in 1..Last(at) /\ Ins = Code(at)[next]
           /\ Ins \in [op : Op, var : Var] /\ Ins.var \in Var
  BY FnFacts DEF TypeOK, Ins

\* The verdict and the scopes depend on the function and its solution alone.
LEMMA SameVerdict ==
    ASSUME UNCHANGED <<fn, mustIn, mayIn>>
    PROVE  Accepted' = Accepted /\ EntryKeepsArgs' = EntryKeepsArgs
  BY DEF MustGen, Gen, Kill, Code, Last, Accepted, BadUse, StateAt, Whitelisted,
         Pred, MayGen, EntryKeepsArgs, EntryIn, AllBits

LEMMA StartRun ==
    ASSUME TypeOK, FlowInv, Start
    PROVE  RunInv'
  <1>1. 1 \in Block /\ fn.args \subseteq Var
    BY FunctionAssumption, FnFacts
  <1>2. Last(1) \in Nat
    BY <1>1, FnFacts
  <1>3. \A v \in MustGen(1, 1) : Fields[v] = <<>> => v \in AllLeaves(fn.args)
    BY <1>1, AtFirst, SetFacts DEF FlowInv, EntryIn
  <1>4. UNCHANGED <<fn, worklist, mustIn, mustOut, mayIn, mayOut>> /\ at' = 1 /\ next' = 1
        /\ live' = AllLeaves(fn.args) /\ worklist = {} /\ Accepted
    BY DEF Start, pass
  <1>5. MustGen(1, 1)' = MustGen(1, 1) /\ Last(1)' = Last(1)
    BY <1>4 DEF MustGen, Gen, Kill, Code, Last
  <1>6. Accepted'
    BY <1>4, SameVerdict
  <1>7. 1 \in Reached(fn, Block)
    BY <1>1 DEF Reached
  <1>. QED
    BY <1>2, <1>3, <1>4, <1>5, <1>6, <1>7 DEF RunInv

\* An instruction is about what is declared, unless it declares it.
LEMMA InsDeclared ==
    ASSUME TypeOK, FlowInv, at # 0, next \in DOMAIN Code(at), Ins.op # "alloca"
    PROVE  Bits(Ins.var) \subseteq Declared
  <1>1. at \in Block /\ next \in DOMAIN fn.code[at] /\ Ins = fn.code[at][next]
    BY DEF TypeOK, Ins, Code
  <1>. QED  BY <1>1, FunctionAssumption DEF FlowInv, Scoped, Declared

\* An instruction leaves what counts as initialised holding a value, or out of
\* scope.
LEMMA ExecuteRun ==
    ASSUME TypeOK, FlowInv, RunInv, Execute
    PROVE  RunInv'
  <1>1. at # 0 /\ next \in DOMAIN Code(at)
    BY DEF Execute, Store, Move, Use, Alloca, Deinit, Executing, At
  <1>2. /\ at \in Block /\ next \in 1..Last(at) /\ Ins = Code(at)[next]
        /\ Ins \in [op : Op, var : Var] /\ Ins.var \in Var
    BY <1>1, AtIns
  <1>3. Last(at) \in Nat /\ next \in Nat /\ next + 1 - 1 = next
    BY <1>2, FnFacts
  <1>4. UNCHANGED <<fn, worklist, mustIn, mustOut, mayIn, mayOut, at>> /\ next' = next + 1
    BY DEF Execute, pass
  <1>5. /\ \A i : MustGen(at, i)' = MustGen(at', i')
        /\ Accepted' = Accepted /\ EntryKeepsArgs' = EntryKeepsArgs
        /\ Last(at)' = Last(at) /\ Pred(at)' = Pred(at)
        /\ Declared' = InScope(fn, at, next)
    <2>1. Declared' = InScope(fn, at, next)
      BY <1>3, <1>4 DEF Declared
    <2>. QED
      BY <1>4, <2>1, SameVerdict DEF MustGen, Gen, Kill, Code, Last, Pred
  <1>6. ASSUME EntryKeepsArgs, NEW v \in MustGen(at, next + 1), v \in InScope(fn, at, next),
               Fields[v] = <<>>
        PROVE  v \in live'
    <2>1. \/ Writes(Ins, v)
          \/ v \in MustGen(at, next) /\ ~Empties(Ins, v)
      BY <1>2, OneMore
    <2>2. v \in Var
      BY <1>6 DEF InScope
    <2>3. v \in Bits(Ins.var) => v \in Leaves(Ins.var)
      BY <1>2, <1>6, VarFacts
    <2>4. \/ Begins(Ins, v)
          \/ v \in Declared /\ ~Ends(Ins, v)
      BY <1>2, <1>6, <2>2, OneMoreDeclared DEF Declared
    <2>5. Leaves(Ins.var) \subseteq Bits(Ins.var)
      BY <1>2, VarFacts
    <2>6. ~Begins(Ins, v) \/ v \notin MustGen(at, next)
      BY <1>1, <1>2, <2>2, FirstDeclared DEF RunInv
    <2>7. (v \in MustGen(at, next) /\ v \in Declared) => v \in live
      BY <1>1, <1>6 DEF RunInv
    <2>8. CASE Store
      <3>1. ~Begins(Ins, v)
        BY <1>2, <2>8 DEF Store, Executing, At, Begins
      <3>. QED
        BY <2>1, <2>3, <2>4, <2>7, <2>8, <3>1 DEF Store, Writes
    <2>9. CASE Move
      <3>1. ~Writes(Ins, v) /\ ~Begins(Ins, v) /\ (Empties(Ins, v) <=> v \in Bits(Ins.var))
        BY <1>2, <2>9 DEF Move, Executing, At, Writes, Begins, Empties
      <3>2. live' = live \ Leaves(Ins.var)
        BY <2>9 DEF Move
      <3>. QED
        BY <2>1, <2>4, <2>5, <2>7, <3>1, <3>2
    <2>10. CASE Use
      <3>1. ~Writes(Ins, v) /\ ~Begins(Ins, v) /\ live' = live
        BY <1>2, <2>10 DEF Use, Executing, At, Writes, Begins
      <3>. QED  BY <2>1, <2>4, <2>7, <3>1
    <2>11. CASE Alloca
      <3>1. ~Writes(Ins, v) /\ live' = live
        BY <1>2, <2>11 DEF Alloca, Executing, At, Writes
      <3>. QED  BY <2>1, <2>4, <2>6, <2>7, <3>1
    <2>12. CASE Deinit
      <3>1. ~Writes(Ins, v) /\ ~Begins(Ins, v) /\ (Ends(Ins, v) <=> v \in Bits(Ins.var))
        BY <1>2, <2>12 DEF Deinit, Executing, At, Writes, Begins, Ends
      <3>2. live \ Leaves(Ins.var) \subseteq live'
        BY <2>12 DEF Deinit
      <3>. QED
        BY <2>1, <2>4, <2>5, <2>7, <3>1, <3>2
    <2>. QED
      BY <2>8, <2>9, <2>10, <2>11, <2>12 DEF Execute
  <1>7. \A v \in (MustGen(at, next) \intersect Declared)' : Fields[v] = <<>> =>
           (EntryKeepsArgs => v \in live')
    BY <1>4, <1>5, <1>6
  <1>8. next' \in 1..(Last(at)' + 1)
    BY <1>2, <1>3, <1>4, <1>5
  <1>. QED
    BY <1>1, <1>4, <1>5, <1>7, <1>8 DEF RunInv

\* A branch carries over what the block left: its successor counts as
\* initialised only what all of its predecessors do, and as possibly
\* initialised what one of them does.
LEMMA BranchMust ==
    ASSUME TypeOK, FlowInv, RunInv, NEW c \in Block, Branch(c),
           EntryKeepsArgs, NEW v \in MustGen(c, 1)
    PROVE  v \in MustGen(at, next)
  <1>1. /\ at \in Block /\ next = Last(at) + 1 /\ c \in fn.succ[at] /\ at # 0
        /\ worklist = {} /\ Last(at) \in Nat /\ c # 1 /\ at \in Pred(c)
    BY FnFacts, FunctionAssumption DEF Branch, TypeOK, RunInv, FlowInv, Pred
  <1>2. v \in mustIn[c] /\ v \in MeetAll(c)
    BY <1>1, AtFirst DEF FlowInv, Solved
  <1>3. v \in mustOut[at] /\ v \in Var
    BY <1>1, <1>2 DEF MeetAll
  <1>4. v \in (mustIn[at] \union Gen(at, Last(at))) \ Kill(at, Last(at))
    <2>1. CASE at = 1
      BY <1>3, <2>1, FunctionAssumption, GenKeeps DEF FlowInv, EntryOut, EntryKeepsArgs
    <2>2. CASE at # 1
      BY <1>1, <1>3, <2>2 DEF FlowInv, RunInv, Solved, Out
    <2>. QED  BY <2>1, <2>2
  <1>. QED  BY <1>1, <1>4 DEF MustGen

LEMMA BranchMay ==
    ASSUME TypeOK, FlowInv, RunInv, NEW c \in Block, Branch(c),
           NEW v \in MayGen(at, next)
    PROVE  v \in MayGen(c, 1)
  <1>1. /\ at \in Block /\ next = Last(at) + 1 /\ c \in fn.succ[at] /\ at # 0
        /\ worklist = {} /\ Last(at) \in Nat /\ c # 1 /\ at \in Pred(c)
    BY FnFacts, FunctionAssumption DEF Branch, TypeOK, RunInv, FlowInv, Pred
  <1>2. v \in (mayIn[at] \union Gen(at, Last(at))) \ Kill(at, Last(at)) /\ v \in Var
    BY <1>1 DEF MayGen, TypeOK, BlockBits, Gen
  <1>3. v \in mayOut[at]
    <2>1. CASE at = 1
      BY <1>2, <2>1 DEF FlowInv, EntryOut
    <2>2. CASE at # 1
      BY <1>1, <1>2, <2>2 DEF FlowInv, RunInv, Solved, Out
    <2>. QED  BY <2>1, <2>2
  <1>4. v \in mayIn[c]
    BY <1>1, <1>2, <1>3 DEF FlowInv, Solved, MeetAny
  <1>. QED  BY <1>4 DEF MayGen, Gen, Kill

\* Where a block begins, that is declared which was where the one before ended.
LEMMA BranchDeclared ==
    ASSUME TypeOK, FlowInv, NEW c \in Block, Branch(c)
    PROVE  Declared' = Declared
  <1>1. /\ at \in Block /\ next = Last(at) + 1 /\ c \in fn.succ[at]
        /\ at' = c /\ next' = 1 /\ fn' = fn /\ Last(at) \in Nat
    BY FnFacts DEF Branch, TypeOK, pass
  <1>2. fn.scope[c] = InScope(fn, at, Last(at))
    BY <1>1, FunctionAssumption DEF FlowInv, Scoped, Last, Code
  <1>3. InScope(fn, c, 0) = {v \in Var : v \in fn.scope[c]}
    BY DEF InScope
  <1>4. InScope(fn, at, Last(at)) \subseteq Var
    BY DEF InScope
  <1>5. InScope(fn, c, 0) = InScope(fn, at, Last(at))
    BY <1>2, <1>3, <1>4
  <1>. QED  BY <1>1, <1>5 DEF Declared

LEMMA BranchRun ==
    ASSUME TypeOK, FlowInv, RunInv, NEW c \in Block, Branch(c)
    PROVE  RunInv'
  <1>1. /\ at \in Block /\ next = Last(at) + 1 /\ c \in fn.succ[at] /\ at # 0
        /\ at' = c /\ next' = 1 /\ live' = live
        /\ UNCHANGED <<fn, worklist, mustIn, mustOut, mayIn, mayOut>>
    BY DEF Branch, TypeOK, pass
  <1>2. at \in Pred(c) /\ c # 1
    BY <1>1, FunctionAssumption DEF Pred, FlowInv
  <1>3. Last(c) \in Nat /\ Last(at) \in Nat
    BY <1>1, FnFacts
  <1>4. /\ MustGen(c, 1)' = MustGen(c, 1)
        /\ Accepted' = Accepted /\ EntryKeepsArgs' = EntryKeepsArgs
        /\ Last(c)' = Last(c) /\ Pred(c)' = Pred(c)
    BY <1>1, SameVerdict DEF MustGen, Gen, Kill, Code, Last, Pred
  <1>5. Declared' = Declared /\ c \in Reached(fn, Block)
    BY <1>1, BranchDeclared, ReachedStep DEF RunInv
  <1>6. ASSUME EntryKeepsArgs, NEW v \in MustGen(c, 1) \intersect Declared, Fields[v] = <<>>
        PROVE  v \in live
    BY <1>1, <1>6, BranchMust DEF RunInv
  <1>7. MustGen(at, next)' = MustGen(c, 1)
    BY <1>1, <1>4 DEF MustGen, Gen, Kill, Code, Last
  <1>. QED
    BY <1>1, <1>2, <1>3, <1>4, <1>5, <1>6, <1>7 DEF RunInv

LEMMA NextIInv == IInv /\ [Next]_vars => IInv'
  <1>. SUFFICES ASSUME IInv, [Next]_vars PROVE IInv'
    OBVIOUS
  <1>. TypeOK /\ FlowInv /\ RunInv
    BY DEF IInv
  <1>1. TypeOK' /\ FlowInv'
    BY NextType, NextFlow DEF IInv
  <1>2. ASSUME NEW b \in Block, Solve(b) PROVE RunInv'
    BY <1>2 DEF Solve, RunInv
  <1>3. ASSUME Start PROVE RunInv'
    BY <1>3, StartRun
  <1>4. ASSUME Execute PROVE RunInv'
    BY <1>4, ExecuteRun
  <1>5. ASSUME NEW c \in Block, Branch(c) PROVE RunInv'
    BY <1>5, BranchRun
  <1>6. ASSUME UNCHANGED vars PROVE RunInv'
    BY <1>6, SameVerdict
       DEF vars, RunInv, MustGen, Gen, Kill, Code, Last, Pred, Declared
  <1>7. RunInv'
    BY <1>2, <1>3, <1>4, <1>5, <1>6 DEF Next
  <1>. QED  BY <1>1, <1>7 DEF IInv

\* What an accepted function reads counts as initialised: a variable because
\* the pass verifies it, a field because the rest is what it is silent about.
LEMMA UseFromIInv == IInv => UseChecked
  <1>. SUFFICES ASSUME IInv, EntryKeepsArgs, Reads, ~SilentUse(at, next)
                PROVE  Leaves(Ins.var) \subseteq live
    BY DEF UseChecked, AnyUseChecked
  <1>. TypeOK /\ FlowInv /\ RunInv
    BY DEF IInv
  <1>1. /\ at # 0 /\ next \in DOMAIN Code(at)
        /\ Code(at)[next].op \in {"use", "move"}
    BY DEF Reads, Executing, At
  <1>2. at \in Block /\ next \in 1..Last(at) /\ Ins = Code(at)[next] /\ Ins.var \in Var
    BY <1>1, AtIns
  <1>3. StateAt(at, next) = "Fully"
    <2>1. ~BadUse(at, next)
      BY <1>1, <1>2 DEF RunInv, Accepted
    <2>. QED  BY <1>1, <2>1 DEF BadUse, SilentUse
  <1>4. Leaves(Ins.var) \subseteq MustGen(at, next)
    BY <1>2, <1>3, FullyMeansAll DEF StateAt
  <1>5. Leaves(Ins.var) \subseteq Declared
    <2>1. Bits(Ins.var) \subseteq Declared
      BY <1>1, <1>2, InsDeclared
    <2>. QED  BY <1>2, <2>1, VarFacts
  <1>6. \A v \in Leaves(Ins.var) : Fields[v] = <<>>
    BY <1>2, VarFacts
  <1>. QED
    BY <1>1, <1>4, <1>5, <1>6 DEF RunInv

\* The execution of an accepted function never reads or moves a variable, or a
\* field that the pass speaks of, that holds no value, whatever path it takes,
\* through scopes, loops and deinit calls, for every control flow graph and
\* every order of the worklist.
THEOREM UseCheckedHolds == Spec => []UseChecked
  BY InitIInv, NextIInv, UseFromIInv, PTL DEF Spec

-----------------------------------------------------------------------------
(* The solution is the meet over all paths. What a block is found not to    *)
(* leave initialised is always due to a path; and when the worklist is      *)
(* empty, the blocks where v may lack a value are closed under such paths.  *)

Lead(v) == PathsLeadTo(Spoilers(v), Passing(v))

PathInv ==
    \A v \in Var : \A b \in Block :
        /\ v \notin mustOut[b] =>
              b \in Spoilers(v) \/ (b \in Passing(v) /\ b \in Lead(v))
        /\ (b \in Flowing /\ b \notin worklist /\ v \notin mustIn[b]) => b \in Lead(v)

\* The paths depend on the function alone.
LEMMA SamePaths ==
    ASSUME fn' = fn, NEW v \in Var
    PROVE  /\ Flowing' = Flowing /\ Spoilers(v)' = Spoilers(v)
           /\ Passing(v)' = Passing(v) /\ Lead(v)' = Lead(v)
  BY DEF Flowing, Spoilers, Passing, Lead, PathsLeadTo, After, Pred, Kill, Gen,
         Code, Last, EntryOut, EntryIn, AllBits

\* A path goes on from a spoiler, and from a block it passes.
LEMMA PathStep ==
    ASSUME TypeOK, NEW v \in Var, NEW c \in Block, NEW d \in fn.succ[c],
           c \in Spoilers(v) \/ (c \in Passing(v) /\ c \in Lead(v))
    PROVE  d \in Lead(v)
  <1>1. d \in Block
    BY FnFacts
  <1>2. ASSUME NEW S \in SUBSET Block,
               After(Spoilers(v)) \union After(S \intersect Passing(v)) \subseteq S
        PROVE  d \in S
    <2>1. CASE c \in Spoilers(v)
      BY <1>2, <2>1 DEF After
    <2>2. CASE c \in Passing(v) /\ c \in Lead(v)
      <3>1. c \in S
        BY <1>2, <2>2 DEF Lead, PathsLeadTo
      <3>. QED  BY <1>2, <2>2, <3>1 DEF After
    <2>. QED  BY <2>1, <2>2
  <1>. QED  BY <1>1, <1>2 DEF Lead, PathsLeadTo

LEMMA InitPath == Init => PathInv
  <1>. SUFFICES ASSUME Init, NEW v \in Var, NEW b \in Block
                PROVE  /\ v \notin mustOut[b] => b \in Spoilers(v)
                       /\ b \notin Flowing \/ b \in worklist
    BY DEF PathInv
  <1>1. mustOut[b] = IF b = 1 THEN EntryOut ELSE Var
    BY DEF Init
  <1>2. v \notin mustOut[b] => b \in Spoilers(v)
    BY <1>1 DEF Spoilers
  <1>3. b \notin Flowing \/ b \in worklist
    BY DEF Init, Flowing
  <1>. QED  BY <1>2, <1>3

LEMMA SolvePath ==
    ASSUME TypeOK, FlowInv, PathInv, NEW b \in Block, Solve(b)
    PROVE  PathInv'
  <1>1. fn' = fn
    BY DEF Solve
  <1>2. CASE Pred(b) = {}
    <2>1. UNCHANGED <<mustIn, mustOut>> /\ worklist' = worklist \ {b} /\ b \notin Flowing
      BY <1>2 DEF Solve, Flowing
    <2>. QED
      BY <1>1, <2>1, SamePaths DEF PathInv
  <1>3. CASE Pred(b) # {}
    <2>. DEFINE must == Out(b, MeetAll(b))
    <2>1. /\ mustIn' = [mustIn EXCEPT ![b] = MeetAll(b)]
          /\ mustOut' = [mustOut EXCEPT ![b] = must]
          /\ worklist \ {b} \subseteq worklist'
      BY <1>3 DEF Solve, Again
    <2>2. /\ mustIn'[b] = MeetAll(b) /\ mustOut'[b] = must
          /\ \A c \in Block \ {b} : mustIn'[c] = mustIn[c] /\ mustOut'[c] = mustOut[c]
      BY <2>1 DEF TypeOK, BlockBits
    <2>3. ASSUME NEW v \in Var, v \notin MeetAll(b) PROVE b \in Lead(v)
      <3>1. PICK c \in Pred(b) : v \notin mustOut[c]
        BY <2>3 DEF MeetAll
      <3>2. c \in Block /\ b \in fn.succ[c]
        BY DEF Pred
      <3>. QED  BY <3>1, <3>2, PathStep DEF PathInv
    <2>4. ASSUME NEW v \in Var, v \notin must
          PROVE  b \in Spoilers(v) \/ (b \in Passing(v) /\ b \in Lead(v))
      <3>2. CASE b \in Flowing
        <4>1. v \in Kill(b, Last(b)) \/ (v \notin Gen(b, Last(b)) /\ v \notin MeetAll(b))
          BY <2>4 DEF Out
        <4>. QED  BY <2>3, <3>2, <4>1 DEF Spoilers, Passing
      <3>3. CASE b \notin Flowing
        BY <1>3, <3>3 DEF Flowing, FlowInv, Solve
      <3>. QED  BY <3>2, <3>3
    <2>. QED
      BY <1>1, <2>1, <2>2, <2>3, <2>4, SamePaths DEF PathInv
  <1>. QED  BY <1>2, <1>3

LEMMA NextPath == TypeOK /\ FlowInv /\ PathInv /\ [Next]_vars => PathInv'
  <1>. SUFFICES ASSUME TypeOK, FlowInv, PathInv, [Next]_vars PROVE PathInv'
    OBVIOUS
  <1>1. ASSUME NEW b \in Block, Solve(b) PROVE PathInv'
    BY <1>1, SolvePath
  <1>2. CASE ~\E b \in Block : Solve(b)
    <2>1. UNCHANGED <<fn, worklist, mustIn, mustOut>>
      BY <1>2 DEF Next, Start, Execute, Branch, vars, pass
    <2>. QED  BY <2>1, SamePaths DEF PathInv
  <1>. QED  BY <1>1, <1>2

LEMMA PathsFromInv == TypeOK /\ FlowInv /\ PathInv => MeetOverPaths
  <1>. SUFFICES ASSUME TypeOK, FlowInv, PathInv, worklist = {}, NEW v \in Var
                PROVE  {b \in Flowing : v \notin mustIn[b]} = Lead(v)
    BY DEF MeetOverPaths, Lead
  <1>. DEFINE S == {b \in Flowing : v \notin mustIn[b]}
  <1>1. S \subseteq Lead(v)
    BY DEF PathInv, Flowing
  <1>2. ASSUME NEW c \in Block, NEW d \in fn.succ[c], v \notin mustOut[c]
        PROVE  d \in S
    <2>1. d \in Block /\ d # 1 /\ c \in Pred(d)
      BY FnFacts, FunctionAssumption DEF FlowInv, Pred
    <2>2. mustIn[d] = MeetAll(d)
      BY <2>1 DEF FlowInv, Solved
    <2>. QED  BY <1>2, <2>1, <2>2 DEF Flowing, MeetAll
  <1>3. ASSUME NEW c \in Flowing PROVE mustOut[c] = Out(c, mustIn[c]) /\ c \in Block
    BY DEF FlowInv, Solved, Flowing
  <1>4. After(Spoilers(v)) \subseteq S
    <2>1. ASSUME NEW c \in Spoilers(v) PROVE v \notin mustOut[c] /\ c \in Block
      <3>1. CASE c \in Flowing /\ v \in Kill(c, Last(c))
        BY <1>3, <3>1 DEF Out
      <3>2. CASE c = 1 /\ v \notin EntryOut
        BY <3>2, FunctionAssumption DEF FlowInv
      <3>. QED  BY <3>1, <3>2 DEF Spoilers
    <2>. QED  BY <1>2, <2>1 DEF After
  <1>5. After(S \intersect Passing(v)) \subseteq S
    <2>1. ASSUME NEW c \in S \intersect Passing(v) PROVE v \notin mustOut[c] /\ c \in Block
      BY <1>3 DEF Out, Passing
    <2>. HIDE DEF S
    <2>. QED  BY <1>2, <2>1 DEF After
  <1>6. S \in SUBSET Block
    BY DEF Flowing
  <1>7. Lead(v) \subseteq S
    <2>. HIDE DEF S
    <2>. QED  BY <1>4, <1>5, <1>6 DEF Lead, PathsLeadTo
  <1>. QED  BY <1>1, <1>7

\* Whatever the order in which blocks are taken from the worklist, and for
\* every control flow graph: the solution of the dataflow problem says of a
\* variable and a block what the paths between them say, nothing else.
THEOREM MeetOverPathsHolds == Spec => []MeetOverPaths
  <1>1. Init => TypeOK /\ FlowInv /\ PathInv
    BY InitIInv, InitPath DEF IInv
  <1>2. TypeOK /\ FlowInv /\ PathInv /\ [Next]_vars => (TypeOK /\ FlowInv /\ PathInv)'
    BY NextType, NextFlow, NextPath
  <1>. QED
    BY <1>1, <1>2, PathsFromInv, PTL DEF Spec

-----------------------------------------------------------------------------
(* What is destroyed. The analysis is exact on both sides for variables     *)
(* without fields: what must be initialised holds a value where it is       *)
(* declared, what holds one is declared and may be initialised, and the     *)
(* flag of a variable that has one says which, until it is deinitialised    *)
(* and not stored to again.                                                 *)

Exact(v) ==
    /\ (v \in MustGen(at, next) /\ v \in Declared) => v \in live
    /\ v \in live => (v \in MayGen(at, next) /\ v \in Declared /\ v \notin stale)
    /\ (Tagged(v) /\ v \notin stale) => (v \in flag <=> v \in live)

ExactInv == (at # 0 /\ EntryKeepsArgs) => \A v \in Var : Exactly(v) => Exact(v)

LEMMA ScalarFacts ==
    ASSUME NEW v \in Var, Scalar(v)
    PROVE  /\ Fields[v] = <<>>
           /\ \A u \in Var : (v \in Leaves(u) <=> v = u) /\ (v \in Bits(u) <=> v = u)
           /\ \A S \in SUBSET Var : (v \in AllLeaves(S) <=> v \in S)
                                  /\ (v \in AllBits(S) <=> v \in S)
  <1>1. Fields[v] = <<>> /\ \A u \in Var : v \notin FieldsOf(u)
    BY DEF Scalar, IsField
  <1>2. \A u \in Var : (v \in Leaves(u) <=> v = u) /\ (v \in Bits(u) <=> v = u)
    BY <1>1 DEF Leaves, Bits
  <1>. QED  BY <1>1, <1>2 DEF AllLeaves, AllBits

\* What may be initialised before an instruction may be after it, unless it
\* moves it, and what the instruction writes is.
LEMMA OneMoreMay ==
    ASSUME TypeOK, NEW b \in Block, NEW i \in 1..Last(b), NEW v \in Var,
           \/ Writes(Code(b)[i], v)
           \/ v \in MayGen(b, i) /\ ~Empties(Code(b)[i], v)
    PROVE  v \in MayGen(b, i + 1)
  <1>. i \in Nat /\ i - 1 + 1 = i /\ i + 1 - 1 = i
    BY FnFacts
  <1>1. CASE Writes(Code(b)[i], v)
    <2>1. v \in Gen(b, i)
      BY <1>1 DEF Gen
    <2>2. v \notin Kill(b, i)
      <3>1. SUFFICES ASSUME v \in Kill(b, i) PROVE FALSE
        OBVIOUS
      <3>2. PICK j \in 1..i : /\ Empties(Code(b)[j], v)
                              /\ \A k \in (j + 1)..i : ~Writes(Code(b)[k], v)
        BY <3>1 DEF Kill
      <3>3. j = i
        BY <1>1, <3>2
      <3>. QED  BY <1>1, <3>2, <3>3 DEF Writes, Empties
    <2>. QED  BY <2>1, <2>2 DEF MayGen
  <1>2. CASE v \in MayGen(b, i) /\ ~Empties(Code(b)[i], v)
    <2>1. v \in mayIn[b] \union Gen(b, i - 1) /\ v \notin Kill(b, i - 1)
      BY <1>2 DEF MayGen
    <2>2. v \notin Kill(b, i)
      <3>1. SUFFICES ASSUME v \in Kill(b, i) PROVE FALSE
        OBVIOUS
      <3>2. PICK j \in 1..i : /\ Empties(Code(b)[j], v)
                              /\ \A k \in (j + 1)..i : ~Writes(Code(b)[k], v)
        BY <3>1 DEF Kill
      <3>3. j \in 1..(i - 1) /\ \A k \in (j + 1)..(i - 1) : ~Writes(Code(b)[k], v)
        BY <1>2, <3>2
      <3>. QED  BY <2>1, <3>2, <3>3 DEF Kill
    <2>3. v \in Gen(b, i - 1) => v \in Gen(b, i)
      <3>1. SUFFICES ASSUME v \in Gen(b, i - 1) PROVE v \in Gen(b, i)
        OBVIOUS
      <3>2. PICK j \in 1..(i - 1) :
               /\ Writes(Code(b)[j], v)
               /\ \A k \in (j + 1)..(i - 1) : ~Empties(Code(b)[k], v)
        BY <3>1 DEF Gen
      <3>3. j \in 1..i /\ \A k \in (j + 1)..i : ~Empties(Code(b)[k], v)
        BY <1>2, <3>2
      <3>. QED  BY <3>2, <3>3 DEF Gen
    <2>. QED  BY <2>1, <2>2, <2>3 DEF MayGen
  <1>. QED  BY <1>1, <1>2

\* What is tagged, and everything else that depends on the function and its
\* solution only.
LEMMA SameTags ==
    ASSUME UNCHANGED <<fn, mustIn, mayIn>>
    PROVE  /\ \A v : Tagged(v)' = Tagged(v') /\ Exactly(v)' = Exactly(v')
           /\ \A b, i : MustGen(b, i)' = MustGen(b', i') /\ MayGen(b, i)' = MayGen(b', i')
  BY DEF Tagged, Exactly, Conditional, Scalar, IsField, FieldsOf, MarksAt, StateAt, At,
         MustGen, MayGen, Gen, Kill, Code, Last

LEMMA StartExact ==
    ASSUME TypeOK, FlowInv, Start
    PROVE  ExactInv'
  <1>1. /\ UNCHANGED <<fn, mustIn, mayIn>> /\ at' = 1 /\ next' = 1
        /\ live' = AllLeaves(fn.args) /\ flag' = {u \in fn.args : Tagged(u)} /\ stale' = {}
    BY DEF Start, pass
  <1>2. 1 \in Block /\ fn.args \in SUBSET Var /\ Last(1) \in Nat
    BY FunctionAssumption, FnFacts
  <1>. SUFFICES ASSUME NEW v \in Var, Exactly(v) PROVE Exact(v)'
    BY <1>1, SameTags DEF ExactInv
  <1>0. Scalar(v)
    BY DEF Exactly
  <1>3. v \in live' <=> v \in fn.args
    BY <1>0, <1>1, <1>2, ScalarFacts
  <1>4. v \in EntryIn <=> v \in fn.args
    BY <1>0, <1>2, ScalarFacts DEF EntryIn
  <1>5. MustGen(1, 1)' = MustGen(1, 1) /\ MayGen(1, 1)' = MayGen(1, 1)
        /\ Tagged(v)' = Tagged(v)
    BY <1>1, SameTags
  <1>6. v \in MustGen(1, 1) => v \in fn.args
    BY <1>2, <1>4, AtFirst DEF FlowInv
  <1>7. v \in fn.args => v \in MayGen(1, 1)
    BY <1>4 DEF MayGen, Gen, Kill, FlowInv
  <1>8. v \in fn.args => v \in Declared'
    <2>1. fn.scope[1] = EntryIn
      BY FunctionAssumption DEF FlowInv, Scoped, EntryIn
    <2>2. v \in fn.scope[1] => v \in InScope(fn, 1, 0)
      BY DEF InScope
    <2>3. Declared' = InScope(fn, 1, 0)
      BY <1>1 DEF Declared
    <2>. QED  BY <1>4, <2>1, <2>2, <2>3
  <1>9. Tagged(v) => (v \in flag' <=> v \in fn.args)
    BY <1>1
  <1>. QED
    BY <1>1, <1>3, <1>5, <1>6, <1>7, <1>8, <1>9 DEF Exact

\* A deinit call runs if there is something to destroy; without, only if the
\* variable was deinitialised before.
LEMMA DeinitExact ==
    ASSUME TypeOK, FlowInv, RunInv, ExactInv, EntryKeepsArgs,
           at # 0, Executing("deinit"), Exactly(Ins.var)
    PROVE  /\ Ins.var \in live => DeinitRuns(at, next)
           /\ DeinitRuns(at, next) => Ins.var \in live \union stale
  <1>. DEFINE v == Ins.var
              must == MustGen(at, next)
              may == MayGen(at, next)
  <1>1. /\ at \in Block /\ next \in 1..Last(at) /\ Ins = Code(at)[next]
        /\ v \in Var /\ next \in DOMAIN Code(at) /\ Code(at)[next].op = "deinit"
    BY AtIns DEF Executing, At
  <1>2. Exact(v) /\ v \in Declared
    <2>1. v \in Bits(v) /\ Bits(v) \subseteq Declared
      BY <1>1, InsDeclared, VarFacts
    <2>. QED  BY <1>1, <2>1 DEF ExactInv
  <1>3. StateAt(at, next) = LeafState(v, must, may)
    BY <1>1, ScalarFacts DEF StateAt, State, Exactly
  <1>4. StateAt(at, next) = "Not" => v \notin live
    BY <1>2, <1>3 DEF LeafState, Exact
  <1>5. StateAt(at, next) = "Fully" => v \in live
    BY <1>2, <1>3 DEF LeafState, Exact
  <1>6. StateAt(at, next) \in {"Not", "Fully", "Maybe"}
    BY <1>3 DEF LeafState
  <1>7. (StateAt(at, next) = "Maybe" \/ MarkedBefore(at, next)) => Tagged(v)
    <2>1. StateAt(at, next) = "Maybe" => Conditional(v)
      BY <1>1 DEF Conditional, MarksAt, At
    <2>2. MarkedBefore(at, next) => Conditional(v)
      <3>1. 1..at \subseteq Block
        BY <1>1, FunctionAssumption
      <3>. QED  BY <1>1, <3>1 DEF MarkedBefore, Conditional
    <2>. QED  BY <2>1, <2>2 DEF Tagged, Exactly
  <1>8. Tagged(v) => /\ v \in live => v \in flag
                     /\ v \in flag => v \in live \union stale
    BY <1>2 DEF Exact
  <1>9. DeinitRuns(at, next) =
           IF MarkedBefore(at, next) \/ StateAt(at, next) = "Maybe"
           THEN v \in flag ELSE StateAt(at, next) # "Not"
    BY <1>1 DEF DeinitRuns
  <1>. QED
    BY <1>4, <1>5, <1>6, <1>7, <1>8, <1>9

LEMMA ExecuteExact ==
    ASSUME TypeOK, FlowInv, RunInv, ExactInv, Execute
    PROVE  ExactInv'
  <1>1. at # 0 /\ next \in DOMAIN Code(at)
    BY DEF Execute, Store, Move, Use, Alloca, Deinit, Executing, At
  <1>2. /\ at \in Block /\ next \in 1..Last(at) /\ Ins = Code(at)[next]
        /\ Ins \in [op : Op, var : Var] /\ Ins.var \in Var /\ next \in Nat
        /\ next + 1 - 1 = next
    BY <1>1, AtIns DEF TypeOK
  <1>3. UNCHANGED <<fn, worklist, mustIn, mustOut, mayIn, mayOut, at>> /\ next' = next + 1
    BY DEF Execute, pass
  <1>4. /\ MustGen(at, next)' = MustGen(at, next + 1)
        /\ MayGen(at, next)' = MayGen(at, next + 1)
        /\ Declared' = InScope(fn, at, next)
        /\ EntryKeepsArgs' = EntryKeepsArgs
        /\ \A v \in Var : Tagged(v)' = Tagged(v) /\ Exactly(v)' = Exactly(v)
    BY <1>2, <1>3, SameTags, SameVerdict DEF Declared
  <1>. SUFFICES ASSUME EntryKeepsArgs, NEW v \in Var, Exactly(v) PROVE Exact(v)'
    BY <1>1, <1>3, <1>4 DEF ExactInv
  <1>5. Exact(v) /\ Scalar(v)
    BY <1>1 DEF ExactInv, Exactly
  <1>6. /\ v \in Leaves(Ins.var) <=> v = Ins.var
        /\ v \in Bits(Ins.var) <=> v = Ins.var
    BY <1>2, <1>5, ScalarFacts
  <1>7. /\ v \in Declared' =>
              \/ Begins(Ins, v)
              \/ v \in Declared /\ ~Ends(Ins, v)
        /\ (v \in Declared /\ ~Ends(Ins, v)) => v \in Declared'
    BY <1>2, <1>4, OneMoreDeclared DEF Declared
  <1>8. v \in MustGen(at, next + 1) =>
           \/ Writes(Ins, v)
           \/ v \in MustGen(at, next) /\ ~Empties(Ins, v)
    BY <1>2, OneMore
  <1>9. (\/ Writes(Ins, v)
         \/ v \in MayGen(at, next) /\ ~Empties(Ins, v)) => v \in MayGen(at, next + 1)
    BY <1>2, OneMoreMay
  <1>10. (Ins.op # "alloca" /\ v = Ins.var) => v \in Declared
    BY <1>1, <1>6, InsDeclared
  <1>11. CASE Store
    <2>1. Ins.op \in {"init", "assign"}
      BY <1>2, <1>11 DEF Store, Executing, At
    <2>2. /\ v \in live' <=> v \in live \/ v = Ins.var
          /\ Tagged(v) => (v \in flag' <=> v \in flag \/ v = Ins.var)
          /\ v \in stale' <=> v \in stale /\ v # Ins.var
      BY <1>6, <1>11 DEF Store
    <2>3. /\ Writes(Ins, v) <=> v = Ins.var
          /\ ~Empties(Ins, v) /\ ~Begins(Ins, v) /\ ~Ends(Ins, v)
      BY <1>6, <2>1 DEF Writes, Empties, Begins, Ends
    <2>. QED
      BY <1>4, <1>5, <1>7, <1>8, <1>9, <1>10, <2>1, <2>2, <2>3 DEF Exact
  <1>12. CASE Move
    <2>1. Ins.op = "move"
      BY <1>2, <1>12 DEF Move, Executing, At
    <2>2. /\ v \in live' <=> v \in live /\ v # Ins.var
          /\ v \in flag' <=> v \in flag /\ v # Ins.var
          /\ stale' = stale
      BY <1>6, <1>12 DEF Move
    <2>3. /\ ~Writes(Ins, v) /\ (Empties(Ins, v) <=> v = Ins.var)
          /\ ~Begins(Ins, v) /\ ~Ends(Ins, v)
      BY <1>6, <2>1 DEF Writes, Empties, Begins, Ends
    <2>. QED
      BY <1>4, <1>5, <1>7, <1>8, <1>9, <2>2, <2>3 DEF Exact
  <1>13. CASE Use
    <2>1. Ins.op = "use" /\ UNCHANGED <<live, flag, stale>>
      BY <1>2, <1>13 DEF Use, Executing, At
    <2>2. ~Writes(Ins, v) /\ ~Empties(Ins, v) /\ ~Begins(Ins, v) /\ ~Ends(Ins, v)
      BY <2>1 DEF Writes, Empties, Begins, Ends
    <2>. QED
      BY <1>4, <1>5, <1>7, <1>8, <1>9, <2>1, <2>2 DEF Exact
  <1>14. CASE Alloca
    <2>1. Ins.op = "alloca" /\ UNCHANGED <<live, flag, stale>>
      BY <1>2, <1>14 DEF Alloca, Executing, At
    <2>2. ~Writes(Ins, v) /\ ~Empties(Ins, v) /\ ~Ends(Ins, v)
      BY <2>1 DEF Writes, Empties, Ends
    <2>3. Begins(Ins, v) => v \notin MustGen(at, next)
      BY <1>1, <1>2, FirstDeclared DEF RunInv
    <2>. QED
      BY <1>4, <1>5, <1>7, <1>8, <1>9, <2>1, <2>2, <2>3 DEF Exact
  <1>15. CASE Deinit
    <2>1. Executing("deinit") /\ Ins.op = "deinit" /\ UNCHANGED flag
          /\ stale' = stale \union {Ins.var}
      BY <1>2, <1>15 DEF Deinit, Executing, At
    <2>2. /\ ~Writes(Ins, v) /\ ~Empties(Ins, v) /\ ~Begins(Ins, v)
          /\ Ends(Ins, v) <=> v = Ins.var
      BY <1>6, <2>1 DEF Writes, Empties, Begins, Ends
    <2>3. CASE v = Ins.var
      <3>1. v \notin live'
        BY <1>1, <1>6, <1>15, <2>1, <2>3, DeinitExact DEF Deinit
      <3>2. v \in stale' /\ v \notin Declared'
        BY <1>7, <2>1, <2>2, <2>3
      <3>. QED  BY <3>1, <3>2 DEF Exact
    <2>4. CASE v # Ins.var
      <3>1. (v \in live' <=> v \in live) /\ (v \in stale' <=> v \in stale)
        BY <1>6, <1>15, <2>1, <2>4 DEF Deinit
      <3>. QED
        BY <1>4, <1>5, <1>7, <1>8, <1>9, <2>1, <2>2, <2>4, <3>1 DEF Exact
    <2>. QED  BY <2>3, <2>4
  <1>. QED
    BY <1>11, <1>12, <1>13, <1>14, <1>15 DEF Execute

LEMMA BranchExact ==
    ASSUME TypeOK, FlowInv, RunInv, ExactInv, NEW c \in Block, Branch(c)
    PROVE  ExactInv'
  <1>1. /\ at # 0 /\ at' = c /\ next' = 1 /\ UNCHANGED <<live, flag, stale>>
        /\ UNCHANGED <<fn, worklist, mustIn, mustOut, mayIn, mayOut>>
    BY DEF Branch, pass
  <1>2. /\ MustGen(at, next)' = MustGen(c, 1) /\ MayGen(at, next)' = MayGen(c, 1)
        /\ EntryKeepsArgs' = EntryKeepsArgs /\ Declared' = Declared
        /\ \A v \in Var : Tagged(v)' = Tagged(v) /\ Exactly(v)' = Exactly(v)
    BY <1>1, SameTags, SameVerdict, BranchDeclared
  <1>. SUFFICES ASSUME EntryKeepsArgs, NEW v \in Var, Exactly(v) PROVE Exact(v)'
    BY <1>1, <1>2 DEF ExactInv
  <1>3. Exact(v)
    BY <1>1 DEF ExactInv
  <1>4. v \in MustGen(c, 1) => v \in MustGen(at, next)
    BY BranchMust
  <1>5. v \in MayGen(at, next) => v \in MayGen(c, 1)
    BY BranchMay
  <1>. QED
    BY <1>1, <1>2, <1>3, <1>4, <1>5 DEF Exact

LEMMA NextExact == IInv /\ ExactInv /\ [Next]_vars => ExactInv'
  <1>. SUFFICES ASSUME IInv, ExactInv, [Next]_vars PROVE ExactInv'
    OBVIOUS
  <1>. TypeOK /\ FlowInv /\ RunInv
    BY DEF IInv
  <1>1. ASSUME NEW b \in Block, Solve(b) PROVE ExactInv'
    BY <1>1 DEF Solve, ExactInv
  <1>2. ASSUME Start PROVE ExactInv'
    BY <1>2, StartExact
  <1>3. ASSUME Execute PROVE ExactInv'
    BY <1>3, ExecuteExact
  <1>4. ASSUME NEW c \in Block, Branch(c) PROVE ExactInv'
    BY <1>4, BranchExact
  <1>5. ASSUME UNCHANGED vars PROVE ExactInv'
    <2>1. /\ UNCHANGED <<fn, mustIn, mayIn, at, next, live, flag, stale>>
          /\ EntryKeepsArgs' = EntryKeepsArgs /\ Declared' = Declared
      BY <1>5, SameVerdict DEF vars, Declared
    <2>2. ASSUME NEW v \in Var PROVE Exact(v)' = Exact(v) /\ Exactly(v)' = Exactly(v)
      <3>1. Tagged(v)' = Tagged(v) /\ Exactly(v)' = Exactly(v)
            /\ MustGen(at, next)' = MustGen(at, next) /\ MayGen(at, next)' = MayGen(at, next)
        BY <2>1, SameTags
      <3>. QED  BY <2>1, <3>1 DEF Exact
    <2>. QED  BY <2>1, <2>2 DEF ExactInv
  <1>. QED
    BY <1>1, <1>2, <1>3, <1>4, <1>5 DEF Next

LEMMA ReleasedFromInv == IInv /\ ExactInv => ReleasedExact
  <1>. SUFFICES ASSUME IInv, ExactInv, at # 0, EntryKeepsArgs
       PROVE  /\ \A v \in live : (Returned /\ Exactly(v)) => v \in fn.lent
              /\ (Executing("deinit") /\ Exactly(Ins.var)) =>
                    /\ Ins.var \in live => DeinitRuns(at, next)
                    /\ DeinitRuns(at, next) => Ins.var \in live \union stale
              /\ (Executing("assign") /\ Exactly(Ins.var)) =>
                    /\ IsInit(at, next) \/ Ins.var \in live
                    /\ StateAt(at, next) = "Not" => Ins.var \notin live
    BY DEF ReleasedExact
  <1>. TypeOK /\ FlowInv /\ RunInv
    BY DEF IInv
  <1>1. ASSUME NEW v \in live, Returned, Exactly(v) PROVE v \in fn.lent
    <2>1. at \in Block /\ next = Last(at) + 1 /\ fn.succ[at] = {} /\ v \in Var
          /\ Last(at) \in Nat /\ fn.lent \in SUBSET Var
      BY <1>1, FnFacts DEF Returned, TypeOK, Function
    <2>2. v \in InScope(fn, at, Last(at))
      BY <1>1, <2>1 DEF ExactInv, Exact, Declared
    <2>3. InScope(fn, at, Last(at)) = AllBits(fn.lent)
      BY <2>1, FunctionAssumption DEF FlowInv, Scoped, Last, Code
    <2>. QED  BY <1>1, <2>1, <2>2, <2>3, ScalarFacts DEF Exactly
  <1>2. ASSUME Executing("deinit"), Exactly(Ins.var)
        PROVE  /\ Ins.var \in live => DeinitRuns(at, next)
               /\ DeinitRuns(at, next) => Ins.var \in live \union stale
    BY <1>2, DeinitExact
  <1>3. ASSUME Executing("assign"), Exactly(Ins.var)
        PROVE  /\ IsInit(at, next) \/ Ins.var \in live
               /\ StateAt(at, next) = "Not" => Ins.var \notin live
    <2>. DEFINE v == Ins.var
    <2>1. /\ at \in Block /\ next \in 1..Last(at) /\ Ins = Code(at)[next] /\ v \in Var
          /\ Code(at)[next].op = "assign" /\ At(at, next, "assign")
          /\ next \in DOMAIN Code(at)
      BY <1>3, AtIns DEF Executing, At
    <2>2. Exact(v) /\ v \in Declared
      <3>1. v \in Bits(v) /\ Bits(v) \subseteq Declared
        BY <2>1, InsDeclared, VarFacts
      <3>. QED  BY <1>3, <2>1, <3>1 DEF ExactInv
    <2>3. v \notin MustGen(at, next) => IsInit(at, next)
      BY <2>1 DEF IsInit
    <2>4. StateAt(at, next) = LeafState(v, MustGen(at, next), MayGen(at, next))
      BY <1>3, <2>1, ScalarFacts DEF StateAt, State, Exactly
    <2>. QED  BY <2>2, <2>3, <2>4 DEF Exact, LeafState
  <1>. QED  BY <1>1, <1>2, <1>3

\* In an accepted function whose entry block moves no argument, whatever path
\* an execution takes through scopes and loops: a value is destroyed where its
\* variable, with or without a flag, goes out of scope; an assignment never
\* forgets or releases what is not there; nothing but what was lent is left
\* when the function returns; and what is not there is destroyed only if the
\* variable was deinitialised in an earlier turn and not stored to since.
THEOREM ReleasedExactHolds == Spec => []ReleasedExact
  <1>1. Init => ExactInv
    BY DEF Init, ExactInv
  <1>2. IInv /\ ExactInv /\ [Next]_vars => (IInv /\ ExactInv)'
    BY NextIInv, NextExact
  <1>. QED
    BY <1>1, <1>2, InitIInv, ReleasedFromInv, PTL DEF Spec
=============================================================================
