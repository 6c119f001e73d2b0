-------------------------- MODULE ConstraintSolver --------------------------
(***************************************************************************)
(* The search of Sema's constraint system (ConstraintSystem.cpp,           *)
(* ConstraintStep.cpp, ConstraintGraph.cpp): steps on a worklist bind type *)
(* variables inside nested scopes, and leaving a scope has to put back     *)
(* whatever was done in it.  A failed search is repeated, to stop at the   *)
(* first failure with its scopes left open for the diagnostics.            *)
(*                                                                         *)
(* A constraint is what it forbids (combinations of bindings, nogoods) and *)
(* what simplifying it binds (implied).  Variables bound to types that     *)
(* mention other variables, equivalent and variadic variables, constraints *)
(* added or removed by the simplification, and systems that depend on      *)
(* template parameters or met an error are left out.                       *)
(***************************************************************************)
EXTENDS Integers, FiniteSets, SequencesExt

CONSTANTS
    Var, Type,
    AnyType,       \* the last resort of a search, a type
    Unbound,   \* not a type
    Infinity,  \* the initial BestScore, above every score
    Systems    \* the systems to solve

AnyScore == 3

Fact == Var \X Type

\* A potential binding, inferred where the facts given hold.
Binding == [type : Type, score : Nat, given : SUBSET Fact]

\* components: the connected variables, in the order they are tried; direct:
\* DirectBindingMap; overload: the variables that choose an overload; rank:
\* which of two types isBetterBinding prefers, the lower.
System ==
    [components : Seq(Seq(Var)), direct : [Var -> Type \union {Unbound}],
     overload : SUBSET Var, bindings : [Var -> Seq(Binding)],
     nogoods : SUBSET SUBSET Fact, implied : SUBSET (Fact \X Fact),
     rank : [Type -> Nat]]

\* The variables of the k-th component.
Members(s, k) == ToSet(s.components[k])

\* There is a variable to solve for, and each is in one component, which its
\* constraints do not leave; implications include those through other
\* variables; no type is inferred twice (FoundBindings).
ASSUME SolverAssumption ==
    /\ IsFiniteSet(Var) /\ Var # {}
    /\ AnyType \in Type /\ Unbound \notin Type /\ Infinity \notin Nat
    /\ Systems \subseteq System
    /\ \A s \in Systems :
          /\ \A v \in Var : \E k \in DOMAIN s.components : v \in Members(s, k)
          /\ \A k \in DOMAIN s.components :
                /\ s.components[k] # <<>> /\ IsInjective(s.components[k])
                /\ \A l \in DOMAIN s.components \ {k} :
                      Members(s, k) \intersect Members(s, l) = {}
          /\ \A N \in s.nogoods \union {{p[1], p[2]} : p \in s.implied} :
                /\ N # {}
                /\ \E k \in DOMAIN s.components : \A f \in N : f[1] \in Members(s, k)
          /\ \A p, q \in s.implied : p[2] = q[1] => <<p[1], q[2]>> \in s.implied
          /\ \A v \in Var : \A i, j \in DOMAIN s.bindings[v] :
                s.bindings[v][i].type = s.bindings[v][j].type => i = j

VARIABLES
    system,
    core,      \* assignment, change log, scores and count that scopes restore
    scopes,    \* the open solver scopes and what each will put back
    worklist,  \* Worklist: the last step is next
    splitter,  \* state of the SplitterStep
    failed,    \* PrevFailed
    cache,     \* SolutionCache: the different solutions of the current component
    partial,   \* PartialSolutions
    solutions, \* Solutions
    stop,      \* StopAfterFirstFailure
    result     \* of the last solve, "none" before it returns

search == <<worklist, splitter, failed, cache, partial>>
vars == <<system, core, scopes, search, solutions, stop, result>>

Find(k) == [kind |-> "find", component |-> k]

Split == [kind |-> "split"]

\* The constraint system before it is solved.
Untouched == [assignment |-> [v \in Var |-> Unbound], changes |-> <<>>,
              score |-> 0, best |-> Infinity, bound |-> 0]

Init ==
    /\ system \in Systems
    /\ core = Untouched
    /\ scopes = <<>> /\ worklist = <<>> /\ splitter = "Idle"
    /\ failed = FALSE /\ cache = {} /\ partial = <<>>
    /\ solutions = <<>> /\ stop = FALSE /\ result = "none"

-----------------------------------------------------------------------------
(* The constraint graph.                                                   *)

\* What an assignment of some variables says.
Facts(a) == {f \in Fact : f[1] \in DOMAIN a /\ a[f[1]] = f[2]}

\* simplifyConstraints binds what the bindings imply.
Simplified(a) ==
    [v \in Var |->
        IF a[v] = Unbound
        THEN LET T == {p[2][2] : p \in {q \in system.implied :
                           q[2][1] = v /\ a[q[1][1]] = q[1][2]}}
             IN  IF T = {} THEN Unbound ELSE CHOOSE t \in T : TRUE
        ELSE a[v]]

\* Mutant: constraints are checked while one of their variables is unbound.
ConflictsEarly(a, W) ==
    \E N \in system.nogoods :
        /\ N \intersect Facts(a) # {}
        /\ \E f \in N : f[1] \in W

\* Mutant: constraints are not visited again for implied bindings.
ConflictsDirect(a, W) ==
    \E N \in system.nogoods :
        N \subseteq Facts(a) /\ \A f \in N : f[1] \in W

\* A constraint that mentions one of the variables W does not hold.
Conflicts(a, W) ==
    \/ \E N \in system.nogoods :
          N \subseteq Facts(a) /\ \E f \in N : f[1] \in W
    \/ \E p \in system.implied :
          /\ {p[1][1], p[2][1]} \intersect W # {}
          /\ p[1] \in Facts(a) /\ a[p[2][1]] \notin {p[2][2], Unbound}

\* bindTypeVariable for the facts F with the score s, and the simplification
\* of the constraints that mention them.
Bound(c, F, s) ==
    LET bindings == [v \in Var |-> IF \E t \in Type : <<v, t>> \in F
                                   THEN CHOOSE t \in Type : <<v, t>> \in F
                                   ELSE c.assignment[v]]
        after == Simplified(bindings)
        new == {v \in Var : after[v] # c.assignment[v]}
    IN  [c EXCEPT !.assignment = after,
                  !.changes = @ \o SetToSeq(new),
                  !.score = @ + s,
                  !.bound = @ + Cardinality(new)]

\* SolverScope's constructor remembers this.
Scope(c) == [changes |-> Len(c.changes), score |-> c.score, best |-> c.best,
             bound |-> c.bound]

\* Mutant: the last change is not undone.
LeftOne(c, s) ==
    LET undone == ToSet(SubSeq(c.changes, s.changes + 1, Len(c.changes) - 1))
    IN  [assignment |-> [v \in Var |-> IF v \in undone THEN Unbound
                                         ELSE c.assignment[v]],
         changes |-> SubSeq(c.changes, 1, s.changes),
         score |-> s.score, best |-> s.best, bound |-> s.bound]

\* Its destructor undoes the changes made since and puts the rest back.
Left(c, s) ==
    LET undone == ToSet(SubSeq(c.changes, s.changes + 1, Len(c.changes)))
    IN  [assignment |-> [v \in Var |-> IF v \in undone THEN Unbound
                                         ELSE c.assignment[v]],
         changes |-> SubSeq(c.changes, 1, s.changes),
         score |-> s.score, best |-> s.best, bound |-> s.bound]

-----------------------------------------------------------------------------
(* solve                                                                   *)

\* The steps end here: scopes stay open after the first failure when asked
\* to, else the outer scope is left.
Return(res) ==
    /\ result' = res
    /\ worklist' = <<>> /\ splitter' = "Idle"
    /\ failed' = FALSE /\ cache' = {} /\ partial' = <<>>

\* solve opens a scope and binds what has one binding only.  It is called
\* once, and again after a failure.
Solve ==
    /\ worklist = <<>> /\ scopes = <<>> /\ ~stop
    /\ stop' = (result = "failure")
    /\ result # "success"
    /\ LET direct == {f \in Fact : system.direct[f[1]] = f[2]}
           bound == Bound(core, direct, 0)
       IN  IF Conflicts(bound.assignment, Var)
           THEN /\ Return("failure")
                /\ IF stop' THEN core' = bound /\ scopes' = <<Scope(core)>>
                            ELSE UNCHANGED <<core, scopes>>
           ELSE /\ core' = bound /\ scopes' = <<Scope(core)>>
                /\ worklist' = <<Split>>
                /\ result' = "none"
                /\ UNCHANGED <<splitter, failed, cache, partial>>
    /\ UNCHANGED <<system, solutions>>

NextIs(kind) ==
    /\ worklist # <<>>
    /\ Last(worklist).kind = kind

\* The worklist without the step that runs.
Others == Front(worklist)

\* A step in the state Error ends the search, or lets the next step know.
Fail ==
    IF stop
    THEN Return("failure") /\ UNCHANGED <<core, scopes>>
    ELSE /\ failed' = TRUE /\ worklist' = Others
         /\ UNCHANGED <<core, scopes, cache, partial, result>>

\* SplitterStep::execute: the last component is solved first.
ExecuteSplitter ==
    /\ NextIs("split") /\ splitter = "Idle"
    /\ splitter' = "Suspended" /\ failed' = FALSE
    /\ worklist' = Others \o
          [i \in 1..(2 * Len(system.components)) |->
              IF i % 2 = 1 THEN Split ELSE Find(i \div 2)]
    /\ UNCHANGED <<system, core, scopes, cache, partial, solutions, stop, result>>

\* How good the bindings of a solution are among those of the same score,
\* lower is better (isBetterBinding).
Quality(S) ==
    SumFunction([v \in DOMAIN S.assignment |-> system.rank[S.assignment[v]]])

\* Mutant: the scores are not compared.
BestAny(C) == SetToSeq({S \in C : \A T \in C : Quality(S) <= Quality(T)})

\* The solutions of the lowest score that compareSolutions finds equally
\* good.
Best(C) ==
    LET lowest == {S \in C : \A T \in C : S.score <= T.score}
    IN  SetToSeq({S \in lowest : \A T \in lowest : Quality(S) <= Quality(T)})

\* The i-th solutions of S and of the component C are put together, copies
\* filling up where C has more of them.
Together(S, C) ==
    LET Source(i) == IF i <= Len(S) THEN S[i] ELSE S[((i - 1) % Len(S)) + 1]
    IN  [i \in 1..Max({Len(S), Len(C)}) |->
            IF i > Len(C) THEN S[i]
            ELSE [score |-> Source(i).score + C[i].score,
                  assignment |->
                     [v \in DOMAIN C[i].assignment \union DOMAIN Source(i).assignment |->
                         IF v \in DOMAIN C[i].assignment THEN C[i].assignment[v]
                         ELSE Source(i).assignment[v]]]]

\* mergePartialSolutions.
Merged(P) ==
    LET merged[n \in 0..Len(P)] ==
            IF n = 0 THEN <<[score |-> 0, assignment |-> <<>>]>>
                     ELSE Together(merged[n - 1], P[n])
    IN  merged[Len(P)]

\* SplitterStep::resume after a component.
ResumeSplitter ==
    /\ NextIs("split") /\ splitter = "Suspended"
    /\ IF failed \/ cache = {}
       THEN Fail /\ (~stop => splitter' = "Error") /\ UNCHANGED solutions
       ELSE /\ partial' = Append(partial, Best(cache))
            /\ cache' = {}
            /\ solutions' = IF Others = <<>> THEN solutions \o Merged(partial')
                                             ELSE solutions
            /\ worklist' = Others /\ failed' = FALSE
            /\ UNCHANGED <<core, scopes, splitter, result>>
    /\ UNCHANGED <<system, stop>>

\* A failed splitter that is still on the worklist.
SkipSplitter ==
    /\ NextIs("split") /\ splitter = "Error"
    /\ worklist' = Others
    /\ UNCHANGED <<system, core, scopes, splitter, failed, cache, partial,
                   solutions, stop, result>>

\* The last scope is left when the worklist is empty.
FinishSolve ==
    /\ worklist = <<>> /\ result = "none" /\ scopes # <<>>
    /\ core' = Left(core, scopes[1]) /\ scopes' = <<>>
    /\ Return(IF solutions = <<>> THEN "failure" ELSE "success")
    /\ UNCHANGED <<system, solutions, stop>>

-----------------------------------------------------------------------------
(* Guessing.                                                               *)

\* computeInitialBindings with the assignment a, by their positions.
InitialBindings(v, a) ==
    {i \in DOMAIN system.bindings[v] :
        system.bindings[v][i].given \subseteq Facts(a)}

\* A BindTypeVariableStep or DisjunctionChoiceStep.  As the BaseClasses stage
\* finds nothing (its input was cleared), Any is the only follow-up binding.
Bind(k, v) ==
    LET B == InitialBindings(v, core.assignment)
    IN  [kind |-> "bind", component |-> k, var |-> v, bindings |-> B,
         followup |-> v \notin system.overload
                         /\ \A i \in B : system.bindings[v][i].type # AnyType,
         valid |-> FALSE, scope |-> 0]

\* The positions in G, first to last.
InOrder(G) ==
    {order \in [1..Cardinality(G) -> G] :
        \A i, j \in DOMAIN order : i < j => order[i] < order[j]}

\* FindSolutionStep::execute: a guess is made for each variable of the
\* component that has none, and all of them were right when none is left.
ExecuteFind(k) ==
    /\ worklist # <<>> /\ Last(worklist) = Find(k)
    /\ LET V == system.components[k]
           unassigned == {i \in DOMAIN V : core.assignment[V[i]] = Unbound}
           guessed == {i \in unassigned : \/ V[i] \in system.overload
                                          \/ Bind(k, V[i]).bindings # {}}
           solution == [score |-> core.score, assignment |->
                        [v \in Members(system, k) |-> core.assignment[v]]]
       IN  \/ failed /\ Fail
           \/ /\ ~failed /\ guessed # {}
              /\ \E order \in InOrder(guessed) :
                    worklist' = Others \o
                       [i \in DOMAIN order |-> Bind(k, V[order[i]])]
              /\ UNCHANGED <<core, scopes, failed, cache, partial, result>>
           \/ /\ ~failed /\ guessed = {} /\ unassigned # {}
              /\ IF cache = {}
                 THEN Fail
                 ELSE /\ worklist' = Others
                      /\ UNCHANGED <<core, scopes, failed, cache, partial, result>>
           \/ /\ ~failed /\ unassigned = {}
              /\ cache' = cache \union {solution}
              /\ core' = [core EXCEPT !.best =
                             IF @ = Infinity \/ core.score < @ THEN core.score ELSE @]
              /\ worklist' = Others
              /\ UNCHANGED <<scopes, failed, partial, result>>
    /\ (result' = result => splitter' = splitter)
    /\ UNCHANGED <<system, solutions, stop>>

\* There is no other binding to try.
Exhausted(s) == s.bindings = {} /\ (s.valid \/ ~s.followup)

\* What is tried next.
Guess(s) == IF s.bindings = {}
            THEN [type |-> AnyType, score |-> AnyScore, given |-> {}]
            ELSE system.bindings[s.var][Min(s.bindings)]

\* Mutant: the last stage is entered again and again.
AdvancedSame(s) ==
    [s EXCEPT !.bindings = IF @ = {} THEN {} ELSE @ \ {Min(@)}, !.scope = 0]

\* The step when its scope is left, or opened as the n-th.
Advanced(s) ==
    [s EXCEPT !.bindings = IF @ = {} THEN {} ELSE @ \ {Min(@)},
              !.followup = @ /\ s.bindings # {},
              !.scope = 0]

\* The scope of the last guess of s is left,
GaveUp(s) == IF s.scope = 0 THEN core ELSE Left(core, scopes[s.scope])

\* the scope around it is the current one,
Outside(s) == IF s.scope = 0 THEN scopes ELSE SubSeq(scopes, 1, s.scope - 1)

\* and the step is done or, with the worklist W, followed by another one.
Backtrack(s, c, W) ==
    /\ core' = c /\ scopes' = Outside(s)
    /\ worklist' = W /\ failed' = FALSE
    /\ UNCHANGED <<splitter, cache, partial, result>>

\* A guess that leaves no variable unbound is taken for a valid one.
Valid(s, c) ==
    \/ s.valid
    \/ s.var \notin system.overload /\ c.bound = Len(system.components[s.component])

\* The guess is made in a scope of its own, which changes c into d.
Try(s, c, d) ==
    LET worse == c.best # Infinity /\ d.score > c.best
        conflict == Conflicts(d.assignment,
                       {v \in Var : d.assignment[v] # c.assignment[v]})
        inner == [Advanced(s) EXCEPT !.scope = Len(Outside(s)) + 1,
                                     !.valid = Valid(s, d)]
    IN  \/ /\ worse \/ (conflict /\ ~stop)
           /\ Backtrack(s, c, Append(Others, Advanced(s)))
        \/ /\ ~worse /\ conflict /\ stop
           /\ core' = d /\ scopes' = Append(Outside(s), Scope(c))
           /\ Return("failure")
        \/ /\ ~worse /\ ~conflict
           /\ core' = d /\ scopes' = Append(Outside(s), Scope(c))
           /\ worklist' = Others \o <<inner, Find(s.component)>>
           /\ failed' = FALSE
           /\ UNCHANGED <<splitter, cache, partial, result>>

\* BindTypeVariableStep::resume and DisjunctionChoiceStep::resume.
ResumeBind ==
    /\ NextIs("bind")
    /\ \E s \in {Last(worklist)} : \E c \in {GaveUp(s)} :
          \/ Exhausted(s) /\ Backtrack(s, c, Others)
          \/ /\ ~Exhausted(s)
             /\ \E d \in {Bound(c, {<<s.var, Guess(s).type>>}, Guess(s).score)} :
                   Try(s, c, d)
    /\ UNCHANGED <<system, solutions, stop>>

Next ==
    \/ Solve
    \/ ExecuteSplitter
    \/ ResumeSplitter
    \/ SkipSplitter
    \/ \E k \in DOMAIN system.components : ExecuteFind(k)
    \/ ResumeBind
    \/ FinishSolve

Spec == Init /\ [][Next]_vars

\* One thread runs the solver.
FairSpec == Spec /\ WF_vars(Next)

-----------------------------------------------------------------------------
(* Properties.                                                             *)

TypeOK ==
    /\ system \in System
    /\ core.assignment \in [Var -> Type \union {Unbound}]
    /\ core.changes \in Seq(Var)
    /\ core.score \in Nat /\ core.best \in Nat \union {Infinity} /\ core.bound \in Nat
    /\ \A i \in DOMAIN scopes : scopes[i].changes \in 0..Len(core.changes)
    /\ \A i \in DOMAIN worklist : worklist[i].kind \in {"split", "find", "bind"}
    /\ splitter \in {"Idle", "Suspended", "Error"}
    /\ failed \in BOOLEAN /\ stop \in BOOLEAN
    /\ result \in {"none", "success", "failure"}

\* The positions of the steps whose scope is open.
OpenSteps == {i \in DOMAIN worklist : worklist[i].kind = "bind" /\ worklist[i].scope # 0}

\* The score in the n-th scope.
ScoreIn(n) == IF n < Len(scopes) THEN scopes[n + 1].score ELSE core.score

\* The score of t for v, that of the last resort if it was not inferred.
Score(v, t) ==
    LET I == {i \in DOMAIN system.bindings[v] : system.bindings[v][i].type = t}
    IN  IF I = {} THEN AnyScore ELSE system.bindings[v][CHOOSE i \in I : TRUE].score

\* Guessing t for v may have had the score r: what was inferred may not have
\* been when the guesses were collected, and Any is still the last resort.
IsScore(v, t, r) == r = Score(v, t) \/ (t = AnyType /\ r = AnyScore)

\* Whatever was tried and given up leaves nothing behind: the bindings are
\* those in the change log ("type variable already bound!" never happens),
\* scopes are left innermost first, and the score and the count are those of
\* the guesses that are open. A search that has ended leaves the system as it
\* was, so that the second solve runs into what made the first one fail.
ScopesExact ==
    /\ {v \in Var : core.assignment[v] # Unbound} = ToSet(core.changes)
    /\ IsInjective(core.changes)
    /\ core.bound = Len(core.changes)
    /\ (result = "none" /\ scopes # <<>>) =>
          /\ {worklist[i].scope : i \in OpenSteps} = 2..Len(scopes)
          /\ \A i, j \in OpenSteps : i < j => worklist[i].scope < worklist[j].scope
          /\ ScoreIn(1) = 0
          /\ \A i \in OpenSteps :
                LET s == worklist[i]
                IN  IsScore(s.var, core.assignment[s.var],
                            ScoreIn(s.scope) - scopes[s.scope].score)
    /\ scopes = <<>> => core = Untouched

\* Nothing is forbidden and everything implied holds.
Consistent(a) ==
    /\ \A N \in system.nogoods : ~(N \subseteq Facts(a))
    /\ \A p \in system.implied : p[1] \in Facts(a) => p[2] \in Facts(a)

\* Constraints are only checked where a variable changed, and components are
\* put together unseen; still the solution found first binds every variable
\* and satisfies every constraint.
SolutionSound ==
    result = "success" =>
        LET a == solutions[1].assignment
        IN  DOMAIN a = Var /\ Consistent(a)

\* The types v may be bound to whatever else is bound.
Candidates(v) ==
    IF system.direct[v] # Unbound THEN {system.direct[v]}
    ELSE {system.bindings[v][i].type :
             i \in {j \in DOMAIN system.bindings[v] :
                       system.bindings[v][j].given = {}}}

\* The last resort included.
LastCandidates(v) ==
    IF /\ system.direct[v] = Unbound
       /\ Candidates(v) # {} /\ v \notin system.overload
    THEN Candidates(v) \union {AnyType} ELSE Candidates(v)

\* The cost of binding v to t, which is nothing for a direct binding.
Cost(v, t) ==
    IF system.direct[v] # Unbound THEN 0
    ELSE Score(v, t)

\* Backtracking, pruning, and stopping at the first solution of a variable do
\* not miss anything: no choice of inferred bindings that satisfies every
\* constraint has a lower score than the solution.
LowestScore ==
    result = "success" =>
        \A a \in [Var -> Type] :
            (Consistent(a) /\ \A v \in Var : a[v] \in Candidates(v)) =>
                solutions[1].score <= SumFunction([v \in Var |-> Cost(v, a[v])])

\* solve fails only if nothing satisfies the constraints.  That is so where
\* all variables are connected or none has a direct binding: BestScore and
\* BoundTypeVariables are those of the whole system, so a component decided
\* by direct bindings makes every guess of the others look worse than the
\* best, or look like the last one.
FailureReal ==
    (/\ result = "failure"
     /\ \/ Len(system.components) = 1
        \/ \A v \in Var : system.direct[v] = Unbound) =>
        ~ \E a \in [Var -> Type] :
            Consistent(a) /\ \A v \in Var : a[v] \in LastCandidates(v)

\* Both solves end.
SolveReturns == <>(result = "success" \/ (result = "failure" /\ stop))
=============================================================================
