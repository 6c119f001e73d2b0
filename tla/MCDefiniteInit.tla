-------------------------- MODULE MCDefiniteInit --------------------------
(* Instances of DefiniteInit: a variable x, as a local, a let, an owned and *)
(* a mutably borrowed argument, and a struct s of two fields, in functions  *)
(* of four blocks: two branches that meet, one branch with a block that     *)
(* nothing reaches, a loop and a loop that is left from its body.           *)
EXTENDS DefiniteInit

Blocks == 1..4
Diamond  == <<{2, 3}, {4}, {4}, {}>>
DeadArm  == <<{2, 4}, {4}, {4}, {}>>
Loop     == <<{2}, {3, 4}, {2}, {}>>
LoopExit == <<{2}, {3, 4}, {2, 4}, {}>>
Inner    == <<{2, 3}, {3}, {4}, {}>>

Names     == {"x", "s", "s.a", "s.b"}
FieldList == [v \in Names |-> IF v = "s" THEN <<"s.a", "s.b">> ELSE <<>>]

Do(op, v)  == {<<[op |-> op, var |-> v]>>}
Then(S, T) == {s \o t : s \in S, t \in T}
Nothing    == {<<>>}

\* The variables declared at the beginning of each block are given last.
Bodies(shapes, A, B, C, D, scope) ==
    {[succ |-> h, code |-> <<a, b, c, d>>, args |-> scope[1], lent |-> {},
      lets |-> {}, scope |-> scope] :
        h \in shapes, a \in A, b \in B, c \in C, d \in D}

Lending(F) == {[f EXCEPT !.lent = f.args] : f \in F}
AsLets(F)  == {[f EXCEPT !.lets = {"x"}] : f \in F}

\* A local may be initialised where it is declared, and even moved, and is
\* deinitialised at the end of its scope.
Declare(v) == Then(Do("alloca", v), Nothing \union Do("init", v)
                                    \union Then(Do("init", v), Do("move", v)))
Middle(v)  == Nothing \union Do("use", v) \union Do("move", v) \union Do("assign", v)
              \union Then(Do("move", v), Do("assign", v))
End(v)     == Nothing \union Do("use", v) \union Do("assign", v)
Finish(v)  == Then(End(v), Do("deinit", v))

AllShapes == {Diamond, DeadArm, Loop, LoopExit}
Local     == <<{}, {"x"}, {"x"}, {"x"}>>
Argument  == <<{"x"}, {"x"}, {"x"}, {"x"}>>

Locals == Bodies(AllShapes, Declare("x"), Middle("x"), Middle("x"), Finish("x"), Local)
Owned  == Bodies(AllShapes, Nothing \union Do("move", "x"), Middle("x"), Middle("x"),
                 Finish("x"), Argument)
Lent   == Lending(Bodies(AllShapes, Nothing \union Do("move", "x"), Middle("x"),
                         Middle("x"), Do("assign", "x"), Argument))

\* The variable of the body of a loop, deinitialised at the end of each turn
\* and where the loop is left; and that of an inner scope.
Turns  == Bodies({Loop}, Nothing, Declare("x"), Finish("x"), Finish("x"),
                 <<{}, {}, {"x"}, {"x"}>>)
Scopes == Bodies({Inner}, Declare("x"), Middle("x"), Finish("x"), Nothing,
                 <<{}, {"x"}, {"x"}, {}>>)

Structs ==
    LET all == {"s", "s.a", "s.b"} IN
    Bodies(AllShapes,
        Then(Do("alloca", "s"), Nothing \union Do("init", "s")),
        Nothing \union Do("move", "s.a") \union Do("assign", "s.a")
                \union Then(Do("assign", "s.a"), Do("assign", "s.b")),
        Nothing \union Do("assign", "s.a") \union Do("move", "s") \union Do("assign", "s"),
        Then(Nothing \union Do("use", "s.b") \union Do("use", "s")
                     \union Then(Do("assign", "s.a"), Do("assign", "s.a")),
             Do("deinit", "s")),
        <<{}, all, all, all>>)

FunctionSet ==
    Locals \union AsLets(Locals) \union Owned \union Lent \union Turns
    \union AsLets(Turns) \union Scopes \union Structs

==========================================================================
