--------------------------- MODULE MCLookupCache ---------------------------
(***************************************************************************)
(* A file of a module that is declared twice, inside the file an instance  *)
(* of a record template, and another module to import.                     *)
(***************************************************************************)
EXTENDS LookupCache

CONSTANTS module, redecl, other, file, record

Contexts == {module, redecl, other, file, record}

PrimaryOf == [c \in Ctx |-> IF c = redecl THEN module ELSE c]

ScopesOf ==
    [c \in Ctx |-> IF c \in {module, redecl, other} THEN <<c>>
                   ELSE IF c = file THEN <<file, module>>
                   ELSE <<record, file, module>>]

Modules == {module, redecl, other}

Lookups == {<<"direct", record>>, <<"direct", module>>, <<"direct", redecl>>,
            <<"multi", record>>, <<"first", file>>}
=============================================================================
