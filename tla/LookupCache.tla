---------------------------- MODULE LookupCache ----------------------------
(***************************************************************************)
(* Declaration contexts, the tables of visible declarations they keep, and *)
(* the lookup queries that cache what they found for one name until the    *)
(* revision of the context they started in moves on.                       *)
(*                                                                         *)
(* A context may be the redeclaration of another one, its primary context: *)
(* a namespace that is opened again, a second ModuleDecl.  The names are   *)
(* kept by the primary context, the revisions by each context.  One name   *)
(* is modelled: entries for different names never touch.  Base classes,    *)
(* conformances and extensions of records are left out.                    *)
(***************************************************************************)
EXTENDS Integers, Sequences, FiniteSets

CONSTANTS
    Ctx,          \* declaration contexts
    Primary,      \* [Ctx -> Ctx], DeclContext::primaryCtx
    Scopes,       \* [Ctx -> Seq(Ctx)], a context and its parents, inside out
    Module,       \* contexts that are ModuleDecls
    Transparent,  \* contexts that are source files
    Instance,     \* records instantiated from a template
    Importer,     \* contexts with import declarations
    Decl,         \* declarations of the one name
    Overloadable, \* declarations of one overloadable kind
    Asked,        \* lookups made: pairs of a query and the context it is for
    MaxRevision   \* bound on the revisions

Queries == {"direct", "first", "multi"}

ASSUME LookupAssumption ==
    /\ Primary \in [Ctx -> Ctx]
    /\ \A c \in Ctx : Primary[Primary[c]] = Primary[c]
    /\ Scopes \in [Ctx -> Seq(Ctx)]
    /\ \A c \in Ctx : Len(Scopes[c]) > 0 /\ Scopes[c][1] = c
    /\ Module \subseteq Ctx
    /\ Transparent \subseteq Ctx
    /\ Instance \subseteq {c \in Ctx \ Transparent : Primary[c] = c}
    /\ Importer \subseteq Ctx
    /\ Overloadable \subseteq Decl
    /\ Asked \subseteq Queries \X Ctx
    /\ \A c \in Ctx :
          <<"direct", c>> \in Asked => <<"direct", Primary[c]>> \in Asked

VARIABLES
    table,     \* DeclContext::namedDecls[Name] of each context
    revision,  \* DeclContext::revision of each context
    imports,   \* ExternalStorage::ImportedModules of each context
    cache      \* RevisionID and Result of each query object

vars == <<table, revision, imports, cache>>

Entry == [rev : Int, found : SUBSET Decl]

TypeOK ==
    /\ table \in [Ctx -> SUBSET Decl]
    /\ \A c \in Ctx : table[c] # {} => Primary[c] = c
    /\ revision \in [Ctx -> Nat]
    /\ imports \in [Ctx -> Seq(Module)]
    /\ cache \in [Asked -> Entry]

Init ==
    /\ table = [c \in Ctx |-> {}]
    /\ revision = [c \in Ctx |-> 0]
    /\ imports = [c \in Ctx |-> <<>>]
    /\ cache = [q \in Asked |-> [rev |-> -1, found |-> {}]]

-----------------------------------------------------------------------------
(* Changing what is visible.                                               *)

\* Mutant: any number of declarations of a name is accepted.
AcceptsAny(c, d) == d \notin table[Primary[c]]

\* makeDeclAvailable adds to an empty entry, or an overload to overloads.
Accepts(c, d) ==
    LET entry == table[Primary[c]]
    IN  entry = {} \/ entry \union {d} \subseteq Overloadable

\* The contexts makeDeclAvailable changes: a source file hands a declaration
\* it accepted on to its parent, even from a call for the file's parent.
Reached(c, d) ==
    {Scopes[c][i] : i \in {i \in 1..Len(Scopes[c]) :
        /\ Accepts(Scopes[c][i], d)
        /\ \A j \in 1..(i - 1) :
              Scopes[c][j] \in Transparent /\ Accepts(Scopes[c][j], d)}}

\* The names are in the table of the primary context,
Keepers(W) == {Primary[c] : c \in W}

\* Mutant: the call that appends an overload does not register the change.
BumpedFirst(W) ==
    [c \in Ctx |-> IF c \in W /\ table[Primary[c]] = {}
                     THEN revision[c] + 1 ELSE revision[c]]

\* but registerVisibleDeclChange counts in the context it is called on.
Bumped(W) ==
    [c \in Ctx |-> IF c \in W THEN revision[c] + 1 ELSE revision[c]]

Room == \A c \in Ctx : revision[c] < MaxRevision

Publish(W, d) ==
    table' = [c \in Ctx |-> IF c \in Keepers(W) THEN table[c] \union {d}
                                                ELSE table[c]]

\* addDecl(Name, D): visible through the primary context, and a member here
\* even when a conflict keeps it out of the table.
AddDecl(c, d) ==
    LET W == Reached(Primary[c], d)
    IN  /\ Room
        /\ \A x \in Ctx : d \notin table[x]
        /\ Publish(W, d)
        /\ revision' = Bumped(W \union {c})
        /\ UNCHANGED <<imports, cache>>

\* makeDeclAvailable(Name, D).
MakeDeclAvailable(c, d) ==
    /\ Room
    /\ d \notin table[Primary[c]]
    /\ Publish(Reached(c, d), d)
    /\ revision' = Bumped(Reached(c, d))
    /\ UNCHANGED <<imports, cache>>

\* makeDeclAvailable(Name, D, IsImport = true): private to the source file.
ImportDecl(c, d) ==
    /\ Room
    /\ c \in Importer
    /\ d \notin table[Primary[c]]
    /\ Accepts(c, d)
    /\ Publish({c}, d)
    /\ revision' = Bumped({c})
    /\ UNCHANGED <<imports, cache>>

\* removeVisibleDecl(D), then addDecl(E): a member of the template gives way
\* to its instantiation.  Each of the calls counts; one count stands for all.
ReplaceMember(c, d, e) ==
    /\ Room
    /\ c \in Instance
    /\ d \in table[c]
    /\ e \notin table[c]
    /\ table[c] = {d} \/ table[c] \union {e} \subseteq Overloadable
    /\ table' = [table EXCEPT ![c] = (@ \ {d}) \union {e}]
    /\ revision' = Bumped({c})
    /\ UNCHANGED <<imports, cache>>

\* addImportedModule: the list grows, no revision does.
AddImport(c, m) ==
    /\ c \in Importer
    /\ Primary[m] = m
    /\ \A i \in 1..Len(imports[Primary[c]]) : imports[Primary[c]][i] # m
    /\ imports' = [imports EXCEPT ![Primary[c]] = Append(@, m)]
    /\ UNCHANGED <<table, revision, cache>>

-----------------------------------------------------------------------------
(* Looking up.                                                             *)

\* The first of a sequence of results that is not empty.
First(s) ==
    LET hits == {i \in 1..Len(s) : s[i] # {}}
    IN  IF hits = {} THEN {}
        ELSE s[CHOOSE i \in hits : \A j \in hits : i <= j]

All(s) == UNION {s[i] : i \in 1..Len(s)}

\* MultiLevelLookupImpl goes on in the primary context of a module, but not
\* of another redeclared context, whose own table is empty.
Level(c) == IF c \in Module THEN Primary[c] ELSE c

\* What c and the contexts around it declare, inside out.
Walk(c) == [i \in 1..Len(Scopes[c]) |-> table[Level(Scopes[c][i])]]

Imported(c) == imports[Primary[Level(c)]]

\* Mutant: imported declarations hide the ones of the context.
AtLevelImportsFirst(c) ==
    LET outside == First([i \in 1..Len(Imported(c)) |-> First(Walk(Imported(c)[i]))])
    IN  First(<<outside, table[Level(c)]>>)

\* The step of a find-first lookup in one context: its own declarations,
\* then those of the modules it imports.
AtLevel(c) ==
    LET outside == First([i \in 1..Len(Imported(c)) |-> First(Walk(Imported(c)[i]))])
    IN  First(<<table[Level(c)], outside>>)

FoundFirst(c) == First([i \in 1..Len(Scopes[c]) |-> AtLevel(Scopes[c][i])])

FoundAll(c) ==
    All([i \in 1..Len(Scopes[c]) |->
           table[Level(Scopes[c][i])] \union
           LET mods == Imported(Scopes[c][i])
           IN  All([j \in 1..Len(mods) |-> All(Walk(mods[j]))])])

\* What the body of a query would find in the tables as they are.
Fresh(q) ==
    CASE q[1] = "direct" -> table[Primary[q[2]]]
      [] q[1] = "first"  -> FoundFirst(q[2])
      [] OTHER           -> FoundAll(q[2])

\* refreshCondition does not hold: the dispatch code returns the result.
Served(q) == cache[q].rev >= revision[q[2]]

\* A module's redeclaration asks the primary context's query, which answers
\* from its own cache, and adds that to what it sees itself.
Consulted(q) ==
    IF q[1] = "direct" /\ q[2] \in Module THEN {<<"direct", Primary[q[2]]>>}
                                         ELSE {}

Answer(q) ==
    IF Served(q) THEN cache[q] ELSE [rev |-> revision[q[2]], found |-> Fresh(q)]

Lookup(q) ==
    /\ ~Served(q)
    /\ cache' = [p \in Asked |->
          IF p = q
            THEN [rev   |-> revision[q[2]],
                  found |-> Fresh(q) \union
                            UNION {Answer(n).found : n \in Consulted(q) \ {q}}]
          ELSE IF p \in Consulted(q) THEN Answer(p)
          ELSE cache[p]]
    /\ UNCHANGED <<table, revision, imports>>

Next ==
    \/ \E c \in Ctx, d \in Decl :
          AddDecl(c, d) \/ MakeDeclAvailable(c, d) \/ ImportDecl(c, d)
    \/ \E c \in Ctx, d, e \in Decl : ReplaceMember(c, d, e)
    \/ \E c \in Ctx, m \in Module : AddImport(c, m)
    \/ \E q \in Asked : Lookup(q)

Spec == Init /\ [][Next]_vars

-----------------------------------------------------------------------------
(* Properties.                                                             *)

\* No other context shares c's table.
Alone(c) == \A x \in Ctx : Primary[x] = c <=> x = c

\* A name has one declaration, or overloads of one kind: the checks of
\* makeDeclAvailable hold however a declaration got into the table.
OverloadsOnly ==
    \A c \in Ctx : Cardinality(table[c]) > 1 => table[c] \subseteq Overloadable

\* A direct lookup in a context that is never redeclared and would be
\* served from the cache is served what the context declares now.
DirectCurrent ==
    \A q \in Asked : q[1] = "direct" /\ Alone(q[2]) /\ Served(q) =>
        cache[q].found = table[q[2]]

\* Scoping survives caching: whatever happened in enclosing or imported
\* contexts, a cached find-first lookup is served the declarations of the
\* innermost context if there are any, and a cached multi-level lookup
\* misses none of them.
InnermostCurrent ==
    \A q \in Asked : Alone(q[2]) /\ Served(q) =>
        /\ q[1] = "first" /\ table[q[2]] # {} => cache[q].found = table[q[2]]
        /\ q[1] = "multi" => table[q[2]] \subseteq cache[q].found
=============================================================================
