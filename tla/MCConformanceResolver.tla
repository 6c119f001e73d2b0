----------------------- MODULE MCConformanceResolver -----------------------
(***************************************************************************)
(* A struct S and instantiations T and U of templates.  S.m and T.m are    *)
(* markers: a conformance or a stored field; S.A, S.C, T.A are associated  *)
(* types, S.A.B one nested in S.A.                                         *)
(***************************************************************************)
EXTENDS ConformanceResolver

Owners ==
    [n \in Node |-> IF n \in {"S", "S.m", "S.A", "S.A.B", "S.C"} THEN "S"
                    ELSE IF n = "U" THEN "U" ELSE "T"]

Prog(f, s, t, l, i, j, x) ==
    [contexts |-> {"S", "T"}, faulty |-> f,
     needs |-> [r \in Record |-> IF r = "S" THEN s
                                   ELSE IF r = "T" THEN t ELSE {}],
     layout |-> [r \in Record |-> IF r = "T" THEN l ELSE {}],
     instantiates |-> [n \in Node |-> IF n \in i THEN {j} ELSE {}],
     resolves |-> [n \in NestedType |-> x]]

\* The field of S may be a T<S>, which may have a field of type S.
FieldPrograms ==
    {Prog({"S", "T"}, {<<"S.m", "S">>} \union s, {}, l, i, "T", Nothing) :
        s \in SUBSET {<<"T", "S.m">>},
        l \in {{}, {<<"T.m", "T">>, <<"S", "T.m">>}}, i \in SUBSET {"S.m"}}

\* The type S.A may mention S.A.B, and the type T<S>.A the conformances of S.
TypePrograms ==
    {Prog({"S", "T"}, {<<"S.A", "S">>} \union s, {<<"T.A", "T">>} \union t, {}, i, "T", x) :
        s \in SUBSET {<<"S.A.B", "S.A">>}, t \in SUBSET {<<"S", "T.A">>},
        i \in SUBSET {"S.A"}, x \in {"T.A", Nothing}}

\* An instantiation made while an associated type is resolved has a layout.
BothPrograms ==
    {Prog({"S", "T"}, {<<"S.m", "S">>, <<"S.A", "S">>}, {<<"T.A", "T">>},
          {<<"T.m", "T">>, <<"S", "T.m">>}, i, "T", Nothing) :
        i \in SUBSET {"S.A"}}

\* S.A is resolved late and instantiates U while T is shallow but T.A known.
LatePrograms ==
    {Prog({}, {<<"S.A.B", "S.A">>, <<"S.m", "S.C">>, <<"S.C", "S">>, <<"T", "S">>},
          {<<"T.A", "T">>, <<"S.A", "T.m">>, <<"T.m", "T">>},
          {}, {"S.A"}, "U", "S.C")}

\* A struct whose field or nested type mentions T is given together with T.
PossiblePrograms ==
    {p \in FieldPrograms \union TypePrograms \union BothPrograms
          \union LatePrograms :
        \A n \in Node : \A i \in p.instantiates[n] :
            Mentions(p, i) \subseteq p.instantiates[n] \union {Owner[n]}}
=============================================================================
