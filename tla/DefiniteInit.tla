---------------------------- MODULE DefiniteInit ----------------------------
(* The definite initialisation pass (DefinitiveInitializationPass.cpp) on   *)
(* one function, and what the code that IRGen makes of its result does at   *)
(* run time. The pass solves a forward dataflow problem with a worklist of  *)
(* basic blocks, whose order is that of a pointer set; the solution decides *)
(* which uses are errors, which deinit calls are removed or made to consult *)
(* a flag, and which assignments are initialisations. Then one execution of *)
(* the function is followed, instruction by instruction.                    *)
(*                                                                          *)
(* A variable is a memory location the pass tracks: a local, an argument,   *)
(* or a field; all have types with a deinitialiser. A function is a record: *)
(* the successors and the instructions of each block; the arguments, which  *)
(* hold a value on entry (InitializedArgs), the mutably borrowed ones among *)
(* them (lent), the locals declared with let, and the variables declared    *)
(* where a block begins (scope). Block 1 is the entry and blocks are        *)
(* numbered in the order of the function.                                   *)
EXTENDS Integers, Sequences, FiniteSets

CONSTANTS Block,      \* 1..n
          Var,        \* locals, arguments and fields
          Fields,     \* the fields of a variable, in order
          Functions   \* the functions to analyse

VARIABLES fn,                              \* the function
          worklist,                        \* WorkList
          mustIn, mustOut, mayIn, mayOut,  \* MustInMap, MustOutMap, ...
          at, next,                        \* the next instruction executed
          live,                            \* the leaves that hold a value
          flag,                            \* the flags that are set
          stale                            \* deinitialised, not stored to since

pass == <<fn, worklist, mustIn, mustOut, mayIn, mayOut>>
vars == <<fn, worklist, mustIn, mustOut, mayIn, mayOut, at, next,
          live, flag, stale>>

\* A local is declared where its alloca is; a use is a load whose value is
\* used, in code that is not unsafe.
Op == {"alloca", "init", "assign", "move", "use", "deinit"}
Function ==
    [succ : [Block -> SUBSET Block],
     code : [Block -> Seq([op : Op, var : Var])],
     args : SUBSET Var, lent : SUBSET Var, lets : SUBSET Var,
     scope : [Block -> SUBSET Var]]

\* Fields have no fields of their own here.
ASSUME VarAssumption ==
    /\ Fields \in [Var -> Seq(Var)]
    /\ \A v \in Var : \A i \in DOMAIN Fields[v] : Fields[Fields[v][i]] = <<>>

FieldsOf(v) == {Fields[v][i] : i \in DOMAIN Fields[v]}

\* A variable that is a field, and one with neither fields nor a struct
\* around it.
IsField(v) == \E u \in Var : v \in FieldsOf(u)
Scalar(v)  == Fields[v] = <<>> /\ ~IsField(v)

Bits(v)     == {v} \union FieldsOf(v)
Leaves(v)   == IF Fields[v] = <<>> THEN {v} ELSE FieldsOf(v)
AllBits(S)  == UNION {Bits(v) : v \in S}
AllLeaves(S) == UNION {Leaves(v) : v \in S}

Writes(ins, v)  == ins.op \in {"init", "assign"} /\ v \in Bits(ins.var)
Empties(ins, v) == ins.op = "move" /\ v \in Bits(ins.var)
Begins(ins, v)  == ins.op = "alloca" /\ v \in Bits(ins.var)
Ends(ins, v)    == ins.op = "deinit" /\ v \in Bits(ins.var)

\* The variables declared after the first i instructions of block b.
InScope(f, b, i) ==
    {v \in Var : \E j \in 0..i :
        /\ IF j = 0 THEN v \in f.scope[b] ELSE Begins(f.code[b][j], v)
        /\ \A k \in (j + 1)..i : ~Ends(f.code[b][k], v)}

\* The blocks that the entry leads to through blocks in P.
Reached(f, P) ==
    {d \in Block : \A S \in SUBSET Block :
        (1 \in S /\ \A c \in S \intersect P : f.succ[c] \subseteq S) => d \in S}

NeverWrites(f, v) ==
    {b \in Block : \A i \in DOMAIN f.code[b] : ~Writes(f.code[b][i], v)}

\* Nothing stores to a local before it is declared for the first time.
DeclaresNew(f, b, i) ==
    \A v \in Bits(f.code[b][i].var) :
        /\ v \notin AllBits(f.args)
        /\ \A j \in 1..(i - 1) : ~Writes(f.code[b][j], v)
        /\ b \in Reached(f, Block) => b \in Reached(f, NeverWrites(f, v))

\* The generator's scopes: instructions are about what is declared, whoever
\* leaves a scope deinitialises what it declares, and a function that returns
\* its locals and the arguments it owns.
Scoped(f) ==
    /\ f.scope[1] = AllBits(f.args)
    /\ \A b \in Block :
          /\ \A c \in f.succ[b] : f.scope[c] = InScope(f, b, Len(f.code[b]))
          /\ f.succ[b] = {} => InScope(f, b, Len(f.code[b])) = AllBits(f.lent)
          /\ \A i \in DOMAIN f.code[b] :
                IF f.code[b][i].op = "alloca" THEN DeclaresNew(f, b, i)
                ELSE Bits(f.code[b][i].var) \subseteq InScope(f, b, i - 1)

\* The entry has no predecessor.
ASSUME FunctionAssumption ==
    /\ 1 \in Block /\ Block \subseteq Nat
    /\ \A b \in Block : 1..b \subseteq Block
    /\ Functions \subseteq Function
    /\ \A f \in Functions : Scoped(f) /\ \A b \in Block : 1 \notin f.succ[b]

Pred(b) == {c \in Block : b \in fn.succ[c]}
Code(b) == fn.code[b]

-----------------------------------------------------------------------------
(* Gen and Kill after the first i instructions of a block: the last         *)
(* instruction that changes a bit decides.                                  *)

Gen(b, i) ==
    {v \in Var : \E j \in 1..i :
        /\ Writes(Code(b)[j], v)
        /\ \A k \in (j + 1)..i : ~Empties(Code(b)[k], v)}

Kill(b, i) ==
    {v \in Var : \E j \in 1..i :
        /\ Empties(Code(b)[j], v)
        /\ \A k \in (j + 1)..i : ~Writes(Code(b)[k], v)}

Last(b) == Len(Code(b))

\* Out(B) = (Gen(B) | In(B)) & ~Kill(B)
Out(b, in) == (Gen(b, Last(b)) \union in) \ Kill(b, Last(b))

\* Mutant: the join is a union.
MeetSome(b) == {v \in Var : \E c \in Pred(b) : v \in mustOut[c]}

\* The join over the predecessors: all of them, or any.
MeetAll(b) == {v \in Var : \A c \in Pred(b) : v \in mustOut[c]}

MeetAny(b) == {v \in Var : \E c \in Pred(b) : v \in mayOut[c]}

\* The entry starts with its arguments and forgets its Kill; the others start
\* with everything set.
EntryIn  == AllBits(fn.args)
EntryOut == Gen(1, Last(1)) \union EntryIn

Init ==
    /\ fn \in Functions
    /\ worklist = Block \ {1}
    /\ mustIn = [b \in Block |-> IF b = 1 THEN EntryIn ELSE {}]
    /\ mayIn = mustIn
    /\ mustOut = [b \in Block |-> IF b = 1 THEN EntryOut ELSE Var]
    /\ mayOut = mustOut
    /\ at = 0 /\ next = 1 /\ live = {} /\ flag = {} /\ stale = {}

\* Mutant: only a change of one of the two vectors counts.
AgainMay(b, must, may) ==
    (worklist \ {b}) \union (IF may # mayOut[b] THEN fn.succ[b] ELSE {})

\* Mutant: the successors are always looked at again.
AgainAlways(b, must, may) == (worklist \ {b}) \union fn.succ[b]

\* The blocks to look at again.
Again(b, must, may) ==
    (worklist \ {b}) \union
    (IF must # mustOut[b] \/ may # mayOut[b] THEN fn.succ[b] ELSE {})

\* One turn of the loop of solveDataFlowProblem.
Solve(b) ==
    /\ at = 0 /\ b \in worklist
    /\ IF Pred(b) = {}
       THEN /\ worklist' = worklist \ {b}
            /\ UNCHANGED <<mustIn, mustOut, mayIn, mayOut>>
       ELSE /\ mustIn' = [mustIn EXCEPT ![b] = MeetAll(b)]
            /\ mayIn' = [mayIn EXCEPT ![b] = MeetAny(b)]
            /\ mustOut' = [mustOut EXCEPT ![b] = Out(b, MeetAll(b))]
            /\ mayOut' = [mayOut EXCEPT ![b] = Out(b, MeetAny(b))]
            /\ worklist' = Again(b, Out(b, MeetAll(b)), Out(b, MeetAny(b)))
    /\ UNCHANGED <<fn, at, next, live, flag, stale>>

-----------------------------------------------------------------------------
(* The second pass: MustGen and MayGen before an instruction, and what is   *)
(* decided from them.                                                       *)

MustGen(b, i) == (mustIn[b] \union Gen(b, i - 1)) \ Kill(b, i - 1)
MayGen(b, i)  == (mayIn[b] \union Gen(b, i - 1)) \ Kill(b, i - 1)

LeafState(v, must, may) ==
    IF v \in must THEN "Fully" ELSE IF v \in may THEN "Maybe" ELSE "Not"

\* getInitializationState: the first field that may be uninitialised decides,
\* unless two fields before it already disagree.
State(v, must, may) ==
    LET field(i) == LeafState(Fields[v][i], must, may)
        mixed(i) == \E j \in 1..i : field(j) # field(1)
        stop     == {i \in DOMAIN Fields[v] : field(i) = "Maybe" \/ mixed(i)}
    IN  IF Fields[v] = <<>> THEN LeafState(v, must, may)
        ELSE IF stop = {} THEN field(1)
        ELSE IF \E i \in stop : field(i) = "Maybe" /\ \A j \in stop : i <= j
             THEN "Maybe" ELSE "Partially"

StateAt(b, i) == State(Code(b)[i].var, MustGen(b, i), MayGen(b, i))

At(b, i, op) == i \in DOMAIN Code(b) /\ Code(b)[i].op = op

\* An assignment to a field that its block has not assigned before may reach
\* into what is not initialised, unless nothing leads to the block.
Whitelisted(b, i) ==
    /\ Code(b)[i].op \in {"init", "assign"}
    /\ Code(b)[i].var \notin Gen(b, i - 1)
    /\ b = 1 \/ Pred(b) # {}

\* verifyMemoryUse: a load or a move of a variable needs all of it. To get at
\* a field the struct is loaded, which may be initialised in part.
BadUse(b, i) ==
    \/ /\ Code(b)[i].op \in {"use", "move"} /\ ~IsField(Code(b)[i].var)
       /\ StateAt(b, i) # "Fully"
    \/ \E s \in Var :
          /\ Code(b)[i].var \in FieldsOf(s) /\ ~Whitelisted(b, i)
          /\ State(s, MustGen(b, i), MayGen(b, i)) \in {"Not", "Maybe"}

\* The load or move of the field itself is found as well, but its operand has
\* no declaration to speak of, and nothing is diagnosed.
SilentUse(b, i) ==
    /\ Code(b)[i].op \in {"use", "move"} /\ IsField(Code(b)[i].var)
    /\ StateAt(b, i) # "Fully"

Accepted == \A b \in Block : \A i \in DOMAIN Code(b) : ~BadUse(b, i)

\* visitAssignInst: an assignment to memory whose bit is not set becomes an
\* initialisation (InitAssigns); the others release the old value first.
IsInit(b, i) ==
    \/ At(b, i, "init")
    \/ At(b, i, "assign") /\ Code(b)[i].var \notin MustGen(b, i)

\* checkDeinitilization: a deinit call for what may be uninitialised marks
\* its operand, and later calls with the same operand consult the flag too.
MarksAt(b, i, v) ==
    At(b, i, "deinit") /\ Code(b)[i].var = v /\ StateAt(b, i) = "Maybe"

Conditional(v) == \E b \in Block : \E i \in DOMAIN Code(b) : MarksAt(b, i, v)

\* Mutant: the variable is not marked, so nobody keeps its flag.
TaggedNever(v) == FALSE

\* The operand is the variable itself, unless that is a let: then each call
\* has a cast of it, which no store knows of.
Tagged(v) == Conditional(v) /\ v \notin fn.lets

MarkedBefore(b, i) ==
    /\ Code(b)[i].var \notin fn.lets
    /\ \E c \in 1..b : \E j \in DOMAIN Code(c) :
          (c < b \/ j < i) /\ MarksAt(c, j, Code(b)[i].var)

\* IRGen::visitCallInst tests the flag of a tagged deinit; one of what is not
\* initialised was removed, unless it was tagged.
DeinitRuns(b, i) ==
    IF MarkedBefore(b, i) \/ StateAt(b, i) = "Maybe"
    THEN Code(b)[i].var \in flag
    ELSE StateAt(b, i) # "Not"

-----------------------------------------------------------------------------
(* One execution of an accepted function.                                   *)

\* An argument is stored into its variable first.
Start ==
    /\ worklist = {} /\ at = 0 /\ Accepted
    /\ at' = 1 /\ next' = 1
    /\ live' = AllLeaves(fn.args)
    /\ flag' = {v \in fn.args : Tagged(v)}
    /\ stale' = {}
    /\ UNCHANGED pass

Ins == Code(at)[next]
Executing(op) == at # 0 /\ At(at, next, op)

\* A store into a tagged variable sets its flag (visitInitInst,
\* visitStoreInst); a move clears that of what it moves (visitMoveInst).
Store ==
    /\ Executing("init") \/ Executing("assign")
    /\ live' = live \union Leaves(Ins.var)
    /\ flag' = flag \union {v \in {Ins.var} : Tagged(v)}
    /\ stale' = stale \ {Ins.var}

Move ==
    /\ Executing("move")
    /\ live' = live \ Leaves(Ins.var)
    /\ flag' = flag \ {Ins.var}
    /\ UNCHANGED stale

Use == Executing("use") /\ UNCHANGED <<live, flag, stale>>

\* The flag is left as it is, also where the declaration is entered again.
Alloca == Executing("alloca") /\ UNCHANGED <<live, flag, stale>>

Deinit ==
    /\ Executing("deinit")
    /\ live' = IF DeinitRuns(at, next) THEN live \ Leaves(Ins.var) ELSE live
    /\ stale' = stale \union {Ins.var}
    /\ UNCHANGED flag

Execute ==
    /\ Store \/ Move \/ Use \/ Alloca \/ Deinit
    /\ next' = next + 1
    /\ UNCHANGED <<pass, at>>

Branch(c) ==
    /\ at # 0 /\ next = Last(at) + 1
    /\ c \in fn.succ[at]
    /\ at' = c /\ next' = 1
    /\ UNCHANGED <<pass, live, flag, stale>>

Next ==
    \/ \E b \in Block : Solve(b) \/ Branch(b)
    \/ Start
    \/ Execute

Spec == Init /\ [][Next]_vars

\* The pass runs to its end.
FairSpec == Spec /\ WF_vars(\E b \in Block : Solve(b))

Returned == at # 0 /\ next = Last(at) + 1 /\ fn.succ[at] = {}

-----------------------------------------------------------------------------
(* Properties.                                                              *)

BlockBits == [Block -> SUBSET Var]

TypeOK ==
    /\ fn \in Function
    /\ worklist \subseteq Block
    /\ mustIn \in BlockBits /\ mustOut \in BlockBits
    /\ mayIn \in BlockBits /\ mayOut \in BlockBits
    /\ at \in Block \union {0}
    /\ next \in Nat
    /\ live \subseteq Var /\ flag \subseteq Var /\ stale \subseteq Var

\* The entry block moves none of the arguments.
EntryKeepsArgs == EntryIn \intersect Kill(1, Last(1)) = {}

Reads == Executing("use") \/ Executing("move")

\* "Verify that the memory has been initialized before this use": whatever
\* path led there, what is read or moved holds a value, but for the fields
\* that verifyMemoryUse is silent about.
AnyUseChecked ==
    (Reads /\ ~SilentUse(at, next)) => Leaves(Ins.var) \subseteq live

\* The same, where the entry block moves no argument.
UseChecked == EntryKeepsArgs => AnyUseChecked

\* A scalar that is not a let which is initialised on some paths only.
Exactly(v) == Scalar(v) /\ ~(Conditional(v) /\ v \in fn.lets)

\* At every end of a scope, in loops and where the function returns: a value
\* is destroyed if there is one; what is not there is destroyed only if the
\* flag is that of an earlier turn of a loop, in which no store has followed;
\* an assignment releases the old value only if there is one and forgets none
\* if there surely is none; and the caller gets back what it lent only.
ReleasedExact ==
    (at # 0 /\ EntryKeepsArgs) =>
    /\ \A v \in live : (Returned /\ Exactly(v)) => v \in fn.lent
    /\ (Executing("deinit") /\ Exactly(Ins.var)) =>
          /\ Ins.var \in live => DeinitRuns(at, next)
          /\ DeinitRuns(at, next) => Ins.var \in live \union stale
    /\ (Executing("assign") /\ Exactly(Ins.var)) =>
          /\ IsInit(at, next) \/ Ins.var \in live
          /\ StateAt(at, next) = "Not" => Ins.var \notin live

-----------------------------------------------------------------------------
(* The solution defined by paths instead of by equations.                   *)

Flowing == {b \in Block : b # 1 /\ Pred(b) # {}}

\* Blocks whose Out lacks v whatever comes in, and those that let v through.
Spoilers(v) == {b \in Flowing : v \in Kill(b, Last(b))}
               \union (IF v \in EntryOut THEN {} ELSE {1})
Passing(v)  == {b \in Flowing : v \notin Kill(b, Last(b)) \union Gen(b, Last(b))}

After(S) == UNION {fn.succ[b] : b \in S}

\* The blocks that paths lead to from the blocks B through blocks in P: those
\* in every set that holds the successors of B, and with a block of P its
\* successors.
PathsLeadTo(B, P) ==
    {d \in Block : \A S \in SUBSET Block :
        After(B) \union After(S \intersect P) \subseteq S => d \in S}

\* A variable counts as initialised at a block exactly when no path leads
\* there from a block that leaves it without a value through blocks that do
\* not change it: no order of the worklist gives a false alarm or misses one.
MeetOverPaths ==
    worklist = {} =>
    \A v \in Var :
        {b \in Flowing : v \notin mustIn[b]} = PathsLeadTo(Spoilers(v), Passing(v))

\* The worklist runs empty, in whatever order blocks are taken from it.
FlowEnds == <>(worklist = {})
=============================================================================
