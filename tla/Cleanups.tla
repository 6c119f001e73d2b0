------------------------------ MODULE Cleanups ------------------------------
(***************************************************************************)
(* The cleanup stack of IL generation, and what the code generated with it *)
(* destroys at run time.                                                   *)
(*                                                                         *)
(* The generator visits the statements of a function in the order of the   *)
(* text.  Constructs it has entered and not left form a stack of their     *)
(* own; each remembers how deep the cleanup stack was when it was entered. *)
(* One execution of the generated code is followed at the same time: it    *)
(* runs at the insertion point, or waits in a block that the generator     *)
(* will reach later, or has left the function.  Every function is a        *)
(* behaviour: what comes next in its text is chosen freely.                *)
(*                                                                         *)
(* A value is whatever must be destroyed: a temporary, a local variable, an *)
(* owned argument.  It is destroyed by its cleanup unless it was handed on  *)
(* before.                                                                 *)
(***************************************************************************)
EXTENDS Integers, Sequences, FiniteSets

CONSTANTS
    MaxValues,  \* bound on the values of a function
    MaxOpen,    \* bound on the nesting
    Generous    \* constructs whose cleanups go wrong, to be included

ASSUME CleanupsAssumption ==
    /\ MaxValues \in Nat \ {0}
    /\ MaxOpen \in Nat \ {0, 1}
    /\ Generous \subseteq {"jump", "throw", "doReturn", "branchMove", "rethrow"}

VARIABLES
    open,   \* constructs that are being visited, the innermost last
    stack,  \* CleanupStack: values and their Ignored flags, the top last
    term,   \* the terminator of the block code is inserted in
    run,    \* where the execution is
    made,   \* number of values so far
    alive,  \* values that the execution made and nobody destroyed
    twice   \* values that were destroyed when they were not alive

vars == <<open, stack, term, run, made, alive, twice>>

Here   == <<"here", 0>>
None   == <<"none", 0>>
Caller == <<"caller", 0>>
Unwind == <<"unwind", 0>>

Value   == 1..MaxValues
Exprs   == {"discard", "declare", "return", "throw", "ifCond", "whileCond", "call"}
Kinds   == {"function", "scope", "if", "else", "while", "do", "catch"} \union Exprs
Block   == {"else", "merge", "continue", "lpad", "uncaught"} \X (1..MaxOpen)
Cleanup == [val : Value, ignored : BOOLEAN]
Construct == [kind : Kinds, depth : Nat, entry : SUBSET Value]

n   == Len(open)
Top == open[n]
Runs == run = Here

Frame(kind) == [kind |-> kind, depth |-> Len(stack), entry |-> {}]

\* Values with a cleanup above depth d that is not ignored.
Owned(s, d) == {s[i].val : i \in {j \in d + 1..Len(s) : ~s[j].ignored}}

\* eraseTemporaryCleanup, eraseAllCleanups: the cleanups of V are ignored.
Ignoring(s, V) ==
    [i \in 1..Len(s) |-> [s[i] EXCEPT !.ignored = @ \/ s[i].val \in V]]

Popped(s, d) == SubSeq(s, 1, d)

Pushed(s, v) == Append(s, [val |-> v, ignored |-> FALSE])

Leave(m) == SubSeq(open, 1, n - m)

\* A construct is entered in the place of the m innermost ones.
Enter(m, fs) ==
    /\ n - m + Len(fs) <= MaxOpen
    /\ open' = Leave(m) \o fs

-----------------------------------------------------------------------------
(* The execution.                                                          *)

\* Code that hands the values of out on, destroys those of D and makes those
\* of new, when it is executed.
Effect(executed, out, D, new) ==
    /\ alive' = IF executed THEN (alive \ (out \union D)) \union new ELSE alive
    /\ twice' = IF executed THEN twice \union (D \ (alive \ out)) ELSE twice

Does(out, D, new) == Effect(Runs, out, D, new)

\* Where the execution goes when the generator leaves the block, which falls
\* through to next when nothing else ends it.
Gone(next) == IF ~Runs THEN run ELSE IF term = None THEN next ELSE term

\* SetInsertPoint(B): what waits in one of the blocks goes on.
SetInsertPoint(B, next) ==
    /\ run' = IF Gone(next) \in B THEN Here ELSE Gone(next)
    /\ term' = None

Init ==
    /\ made \in {0, 1}
    /\ open = <<[kind |-> "function", depth |-> 0, entry |-> {}],
                [kind |-> "scope", depth |-> made, entry |-> {}]>>
    /\ stack = [i \in 1..made |-> [val |-> i, ignored |-> FALSE]]
    /\ alive = 1..made
    /\ term = None /\ run = Here /\ twice = {}

-----------------------------------------------------------------------------
(* Expressions.                                                            *)

\* A statement is visited only where no terminator ends the block.
InStatements == n > 0 /\ Top.kind \in {"scope", "do"} /\ term = None

InExpr(kind) == n > 0 /\ Top.kind = kind

\* What is ignored on a branch is ignored for all, so that nothing older than
\* the branch may be moved on it.
Branches == {"while", "do", "catch"} \union
            (IF "branchMove" \in Generous THEN {} ELSE {"if", "else"})

\* Locals: above every branch, and below the expressions of the statement.
Locals ==
    {stack[j].val : j \in {k \in 1..Len(stack) :
        /\ ~stack[k].ignored
        /\ \A i \in 1..n : open[i].kind \in Branches => open[i].depth < k
        /\ \A i \in 1..n : open[i].kind \in Exprs => k <= open[i].depth}}

Temporaries == Owned(stack, Top.depth)

\* Forward: a temporary of this expression, or a local that is moved.
Forwardable == Temporaries \union Locals

AtMostOne(S) == {{}} \union {{v} : v \in S}

\* Statements that consist of an expression.
BeginExpr(kind) ==
    /\ InStatements
    /\ kind = "throw" =>
          /\ "throw" \in Generous \/ Owned(stack, 0) = {}
          /\ \A i \in 1..n : open[i].kind # "do"
    /\ kind = "return" => Top.kind = "scope" \/ "doReturn" \in Generous
    /\ Enter(0, <<Frame(kind)>>)
    /\ UNCHANGED <<stack, term, run, made, alive, twice>>

BeginCall ==
    /\ n > 0 /\ Top.kind \in Exprs
    /\ Enter(0, <<Frame("call")>>)
    /\ UNCHANGED <<stack, term, run, made, alive, twice>>

\* The result of a call and its cleanup.
Result(s, value) ==
    IF value THEN made < MaxValues /\ made' = made + 1 /\ stack' = Pushed(s, made + 1)
             ELSE made' = made /\ stack' = s

\* The cleanups of what a call was given are emitted when it returns.
CallReturns(out, value) ==
    /\ InExpr("call")
    /\ out \in AtMostOne(Forwardable)
    /\ LET s == Ignoring(stack, out)
       IN  /\ Result(Popped(s, Top.depth), value)
           /\ Does(out, Owned(s, Top.depth), made + 1..made')
    /\ open' = Leave(1)
    /\ UNCHANGED <<term, run>>

\* The do statements around an expression, and the innermost or none.
Handlers == {i \in 1..n : open[i].kind = "do"}

IsHandler(h) ==
    IF Handlers = {} THEN h = 0 ELSE h \in Handlers /\ \A i \in Handlers : i <= h

LandingPad(h) == IF h = 0 THEN Unwind ELSE <<"lpad", h>>

\* Mutant: the landing pad destroys what the call was given, and no more.
LandingDepthTop(h) == Top.depth

LandingDepth(h) == IF h = 0 THEN 0 ELSE open[h].depth

\* The landing pad of an invoke: all cleanups up to the handler, none popped.
CallThrows(out, value, h) ==
    /\ InExpr("call") /\ Runs
    /\ IsHandler(h)
    /\ out \in AtMostOne(Forwardable)
    /\ LET s == Ignoring(stack, out)
       IN  /\ Result(Popped(s, Top.depth), value)
           /\ Does(out, Owned(s, LandingDepth(h)), {})
    /\ run' = LandingPad(h)
    /\ open' = Leave(1)
    /\ UNCHANGED term

EndDiscard ==
    /\ InExpr("discard")
    /\ Does({}, Temporaries, {})
    /\ stack' = Popped(stack, Top.depth)
    /\ open' = Leave(1)
    /\ UNCHANGED <<term, run, made>>

\* visitLocalVarDecl: the value is forwarded into the variable.
EndDeclare(v) ==
    /\ InExpr("declare")
    /\ v \in Forwardable /\ made < MaxValues
    /\ LET s == Ignoring(stack, {v})
       IN  /\ Does({v}, Owned(s, Top.depth), {made + 1})
           /\ stack' = Pushed(Popped(s, Top.depth), made + 1)
    /\ made' = made + 1
    /\ open' = Leave(1)
    /\ UNCHANGED <<term, run>>

\* visitReturnStmt, visitThrowStmt: the cleanups of the expression, then all
\* others, which stay on the stack.
EndLeave(out) ==
    /\ InExpr("return") \/ InExpr("throw")
    /\ out \in AtMostOne(Temporaries)
    /\ LET s == Ignoring(stack, out)
       IN  /\ Does(out, Owned(s, 0), {})
           /\ stack' = Popped(s, Top.depth)
    /\ term' = IF Top.kind = "return" THEN Caller ELSE Unwind
    /\ open' = Leave(1)
    /\ UNCHANGED <<run, made>>

-----------------------------------------------------------------------------
(* Statements.                                                             *)

ReturnVoid ==
    /\ InStatements
    /\ Top.kind = "scope" \/ "doReturn" \in Generous
    /\ Does({}, Owned(stack, 0), {})
    /\ term' = Caller
    /\ UNCHANGED <<open, stack, run, made>>

Loops == {i \in 1..n : open[i].kind = "while"}

\* visitBreakStmt, visitContinueStmt: to the innermost loop.
Jump(to, i) ==
    /\ InStatements
    /\ i \in Loops /\ \A j \in Loops : j <= i
    /\ "jump" \in Generous \/ Len(stack) = open[i].depth
    /\ Does({}, Owned(stack, open[i].depth), {})
    /\ term' = <<to, i>>
    /\ UNCHANGED <<open, stack, run, made>>

\* visitIfStmt, visitWhileStmt.
BeginBranch(kind, cond) ==
    /\ InStatements
    /\ Enter(0, <<[Frame(kind) EXCEPT !.entry = alive], Frame(cond)>>)
    /\ UNCHANGED <<stack, term, run, made, alive, twice>>

\* The temporaries of the condition are destroyed before the branch.
Condition(cond, other) ==
    /\ InExpr(cond)
    /\ Does({}, Temporaries, {})
    /\ stack' = Popped(stack, Top.depth)
    /\ open' = Leave(1) \o <<[Top EXCEPT !.kind = "scope"]>>
    /\ run' = run \/ (Runs /\ run' = <<other, n - 1>>)
    /\ UNCHANGED <<term, made>>

\* Mutants: a return is not told from the other ends of a scope, or the other
\* ends are taken for a return.
EmitsAlways(t) == TRUE
EmitsNever(t)  == FALSE

\* The end of a scope that ends in a return emits nothing.
EmitsAtEnd(t) == t # Caller

\* visitCompoundStmt.
EndScope ==
    /\ InExpr("scope")
    /\ Does({}, IF EmitsAtEnd(term) THEN Temporaries ELSE {}, {})
    /\ stack' = Popped(stack, Top.depth)
    /\ open' = Leave(1)
    /\ UNCHANGED <<term, run, made>>

\* The scope around the condition and the branch holds no cleanups of its
\* own, as conditions bind nothing here.
EndIf ==
    /\ InExpr("if")
    /\ SetInsertPoint({<<"else", n>>, <<"merge", n>>}, <<"merge", n>>)
    /\ open' = Leave(1)
    /\ UNCHANGED <<stack, made, alive, twice>>

BeginElse ==
    /\ InExpr("if")
    /\ SetInsertPoint({<<"else", n>>}, <<"merge", n>>)
    /\ Enter(1, <<Frame("else"), Frame("scope")>>)
    /\ UNCHANGED <<stack, made, alive, twice>>

EndElse ==
    /\ InExpr("else")
    /\ SetInsertPoint({<<"merge", n>>}, <<"merge", n>>)
    /\ open' = Leave(1)
    /\ UNCHANGED <<stack, made, alive, twice>>

\* What goes back to the condition leaves the loop in the end.
EndWhile ==
    /\ InExpr("while")
    /\ SetInsertPoint({<<"continue", n>>, <<"merge", n>>}, <<"continue", n>>)
    /\ open' = Leave(1)
    /\ UNCHANGED <<stack, made, alive, twice>>

BeginDo ==
    /\ InStatements
    /\ Enter(0, <<Frame("do")>>)
    /\ UNCHANGED <<stack, term, run, made, alive, twice>>

\* The body of a do statement has no scope of its own; then a catch block,
\* which may or may not be for this error.
EndDo ==
    /\ InExpr("do")
    /\ Does({}, Temporaries, {})
    /\ stack' = Popped(stack, Top.depth)
    /\ \/ SetInsertPoint({<<"lpad", n>>}, <<"merge", n>>)
       \/ /\ run = <<"lpad", n>>
          /\ "rethrow" \in Generous \/ Handlers # {n} \/ Owned(stack, 0) = {}
          /\ run' = <<"uncaught", n>> /\ term' = None
    /\ LET at == [Top EXCEPT !.kind = "catch"]
       IN  Enter(1, <<at, [at EXCEPT !.kind = "scope"]>>)
    /\ UNCHANGED made

\* An error that is not caught is passed to the outer handler, or thrown on.
EndCatch(h) ==
    /\ InExpr("catch")
    /\ IsHandler(h)
    /\ \/ /\ run = <<"uncaught", n>>
          /\ run' = LandingPad(h) /\ term' = None
          /\ Effect(h # 0, {}, Owned(stack, LandingDepth(h)), {})
       \/ /\ run # <<"uncaught", n>>
          /\ SetInsertPoint({<<"merge", n>>}, <<"merge", n>>)
          /\ UNCHANGED <<alive, twice>>
    /\ open' = Leave(1)
    /\ UNCHANGED <<stack, made>>

EndFunction ==
    /\ InExpr("function")
    /\ Does({}, IF term = None THEN Temporaries ELSE {}, {})
    /\ run' = Gone(Caller)
    /\ open' = <<>> /\ stack' = <<>> /\ term' = None
    /\ UNCHANGED made

Next ==
    \/ \E kind \in {"discard", "declare", "return", "throw"} : BeginExpr(kind)
    \/ BeginCall
    \/ \E out \in SUBSET Value, value \in BOOLEAN :
          \/ CallReturns(out, value)
          \/ \E h \in 0..n : CallThrows(out, value, h)
    \/ EndDiscard
    \/ \E v \in Value : EndDeclare(v)
    \/ \E out \in SUBSET Value : EndLeave(out)
    \/ ReturnVoid
    \/ \E to \in {"merge", "continue"}, i \in 1..n : Jump(to, i)
    \/ BeginBranch("if", "ifCond") \/ Condition("ifCond", "else")
    \/ BeginBranch("while", "whileCond") \/ Condition("whileCond", "merge")
    \/ EndScope \/ EndIf \/ BeginElse \/ EndElse \/ EndWhile
    \/ BeginDo \/ EndDo \/ \E h \in 0..n : EndCatch(h)
    \/ EndFunction

Spec == Init /\ [][Next]_vars

-----------------------------------------------------------------------------
(* Properties.                                                             *)

TypeOK ==
    /\ open \in Seq(Construct) /\ n <= MaxOpen
    /\ stack \in Seq(Cleanup)
    /\ term \in Block \union {None, Caller, Unwind}
    /\ run \in Block \union {Here, Caller, Unwind}
    /\ made \in 0..MaxValues
    /\ alive \subseteq 1..made
    /\ twice \subseteq 1..made

\* No value is destroyed a second time, or after it was handed on: not by
\* the landing pad of a call and the end of its scope, not by a return and
\* the ends of the scopes around it.
DestroyedOnce == twice = {}

\* When the execution has left the function, by whatever way, it has
\* destroyed or handed on all it made.
NothingLeft ==
    /\ run \in {Caller, Unwind} => alive = {}
    /\ open = <<>> => run \in {Caller, Unwind}

\* An iteration of a loop leaves what it found.
LoopBalanced ==
    \A i \in 1..n : open[i].kind = "while" =>
        \/ run # <<"continue", i>> /\ ~(i = n /\ Runs /\ term = None)
        \/ alive = open[i].entry
=============================================================================
