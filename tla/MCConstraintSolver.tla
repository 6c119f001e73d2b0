------------------------- MODULE MCConstraintSolver -------------------------
(***************************************************************************)
(* Three type variables, connected in different ways.  Types are chosen by *)
(* what constraints allow and by what is inferred once others are known.   *)
(***************************************************************************)
EXTENDS ConstraintSolver

B(t, s, g) == [type |-> t, score |-> s, given |-> g]

\* No two of these facts can hold together.
Pairs(F, G) == {{f, g} : f \in F, g \in G}

Sys(comp, dir, over, ba, bb, bc, no, imp) ==
    [components |-> comp,
     direct |-> [v \in Var |-> IF v \in dir THEN "Int" ELSE Unbound],
     overload |-> over,
     bindings |-> [v \in Var |-> IF v = "a" THEN ba ELSE IF v = "b" THEN bb ELSE bc],
     nogoods |-> no, implied |-> imp,
     rank |-> [t \in Type |-> IF t = "Int" THEN 0 ELSE 1]]

IntString == <<B("Int", 0, {}), B("String", 1, {})>>

StringInt == <<B("String", 0, {}), B("Int", 1, {})>>

Same == <<B("Int", 0, {}), B("String", 0, {})>>

\* a and b constrain each other; c is alone and may be bound already.
TwoComponents ==
    {Sys(<<<<"a", "b">>, <<"c">>>>, dir, over, IntString, bb, Same, no, imp) :
        dir \in SUBSET {"c"}, over \in SUBSET {"a"}, bb \in {StringInt, Same, <<>>},
        no \in SUBSET Pairs({<<"a", "Int">>, <<"a", "String">>},
                            {<<"b", "Int">>, <<"b", "String">>}),
        imp \in SUBSET {<<<<"a", "String">>, <<"b", "Int">>>>}}

\* What is inferred for c depends on a, and b or c may be bound already.
OneComponent ==
    {Sys(<<<<"a", "b", "c">>>>, dir, over, IntString, bb,
         <<B("Int", 1, {<<"a", "Int">>}), B("String", 0, {<<"a", "String">>})>>,
         no, imp) :
        dir \in {{}, {"b"}}, over \in SUBSET {"b"}, bb \in {IntString, Same},
        no \in {{}, {{<<"a", "Int">>, <<"c", "Int">>}, {<<"b", "String">>, <<"c", "Any">>}},
                {{<<"b", t>>} : t \in {"Int", "String"}},
                Pairs({<<"b", "Int">>}, {<<"c", "Int">>, <<"c", "String">>})},
        imp \in SUBSET {<<<<"b", "String">>, <<"c", "String">>>>}}

\* Nothing is inferred for c, or all of it is forbidden, bound or not.
FailingComponent ==
    {Sys(<<<<"a", "b">>, <<"c">>>>, dir, {}, IntString, Same, bc,
         {{<<"c", t>>} : t \in Type}, {}) : dir \in SUBSET {"c"}, bc \in {<<>>, Same}}

AllSystems == TwoComponents \union FailingComponent \union OneComponent
=============================================================================
