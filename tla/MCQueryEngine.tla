--------------------------- MODULE MCQueryEngine ---------------------------
(* An instance of the query engine, named after the repository's queries:   *)
(* the driver type checks either a function f or a global variable v.       *)
(* f needs its interface, whose constraints (which may name f again) need   *)
(* conformances and, through them, names.  v has the type auto: its         *)
(* interface finishes early and returns the outcome of type checking it,    *)
(* its initialiser names an alias through a lookup that may be circular,    *)
(* the alias names v's interface, and conformances of it reset a query.     *)
EXTENDS QueryEngine

Queries ==
    {"TypecheckDecl(f)", "PrepareCallableInterface(f)", "VerifyConstraints(f)",
     "ConformsTo", "SubstAssociatedTypes", "DirectLookup",
     "PrepareGlobalVarInterface(v)", "TypecheckDecl(v)",
     "TypecheckGlobalVar(v)", "LookupSingle", "GetNeededAssociatedTypes"}

KindOf ==
    [q \in Queries |->
        CASE q \in {"TypecheckDecl(f)", "TypecheckDecl(v)"} -> "simple"
          [] q = "LookupSingle"                             -> "ignoring"
          [] q = "SubstAssociatedTypes"                     -> "uncached"
          [] OTHER                                          -> "strict"]

RefreshOf ==
    [q \in Queries |->
        CASE q \in {"DirectLookup", "LookupSingle"} -> "revision"
          [] q = "ConformsTo"                       -> "resolving"
          [] OTHER                                  -> "never"]

DepsOf ==
    [q \in Queries |->
        CASE q = "TypecheckDecl(f)" ->
                {"VerifyConstraints(f)", "PrepareCallableInterface(f)"}
          [] q = "PrepareCallableInterface(f)" ->
                {"VerifyConstraints(f)", "DirectLookup"}
          [] q = "VerifyConstraints(f)" ->
                {"PrepareCallableInterface(f)", "ConformsTo"}
          [] q = "ConformsTo" -> {"SubstAssociatedTypes"}
          [] q = "SubstAssociatedTypes" -> {"DirectLookup"}
          [] q = "PrepareGlobalVarInterface(v)" -> {"TypecheckDecl(v)"}
          [] q = "TypecheckDecl(v)" ->
                {"PrepareGlobalVarInterface(v)", "TypecheckGlobalVar(v)"}
          [] q = "TypecheckGlobalVar(v)" -> {"LookupSingle"}
          [] q = "LookupSingle" ->
                {"PrepareGlobalVarInterface(v)", "GetNeededAssociatedTypes"}
          [] OTHER -> {}]

GivesUp ==
    [q \in Queries |-> IF q = "PrepareCallableInterface(f)"
                       THEN {"VerifyConstraints(f)"} ELSE {}]

DriverJobs ==
    {{"TypecheckDecl(f)"}, {"PrepareGlobalVarInterface(v)", "TypecheckDecl(v)"}}
=============================================================================
