------------------------- MODULE QueryEngineProofs -------------------------
(* Theorems about the query engine, for every set of queries, every         *)
(* dependency graph and every assignment of dispatch schemes.               *)
EXTENDS QueryEngine, SequenceTheorems, TLAPS

-----------------------------------------------------------------------------
(* The query stack under the three things a step can do to it.              *)

\* Every frame of the stack is a frame.
LEMMA FramesTyped ==
    ASSUME TypeOK
    PROVE  /\ Depth \in Nat
           /\ \A i \in 1..Depth : /\ stack[i].query \in Query
                                  /\ stack[i].todo \in SUBSET Query
                                  /\ stack[i].from \in Nat
<1>1. Depth \in Nat /\ \A i \in 1..Depth : stack[i] \in Frame
  BY DEF TypeOK, Depth
<1>2. QED
  BY <1>1 DEF Frame

\* The frames s are the n lowest of the stack, but for what they may still
\* ask for and whether they give up.
Below(s, n) ==
    /\ s \in Seq(Frame)
    /\ Len(s) = n
    /\ \A i \in 1..n : /\ s[i].query = stack[i].query
                       /\ s[i].from = stack[i].from
                       /\ s[i].todo \subseteq stack[i].todo

\* A frame of s gives up that did not, or may not have, done so before.
Starts(s, i) == s[i].givesUp /\ ~stack[i].givesUp

\* Only the topmost of the n frames s starts to, when the outcome o of q is a
\* failure that its body depends on.
MayStart(s, n, q, o) ==
    \A i \in 1..n : Starts(s, i) =>
        i = n /\ o # "Success" /\ q \in GivesUpOn[stack[i].query]

\* A request leaves the stack as it is, but for what its top may still ask.
LEMMA SpentShape ==
    ASSUME TypeOK, NEW q \in Query
    PROVE  /\ Below(Spent(q), Depth)
           /\ \A i \in 1..Depth : Spent(q)[i].givesUp = stack[i].givesUp
<1>1. CASE stack = <<>>
  BY <1>1 DEF Spent, TypeOK, Depth, Below
<1>2. CASE stack # <<>>
  <2>1. Depth \in Nat /\ Depth > 0 /\ Depth \in 1..Depth
    BY <1>2 DEF TypeOK, Depth
  <2>2. stack \in [1..Depth -> Frame]
    BY DEF TypeOK, Depth
  <2>3. Spent(q) = [stack EXCEPT ![Depth].todo = @ \ {q}]
    BY <1>2 DEF Spent
  <2>4. [stack[Depth] EXCEPT !.todo = @ \ {q}] \in Frame
    BY <2>1, <2>2 DEF Frame
  <2>5. Spent(q) \in [1..Depth -> Frame]
    BY <2>1, <2>2, <2>3, <2>4
  <2>6. \A i \in 1..Depth : /\ Spent(q)[i].query = stack[i].query
                            /\ Spent(q)[i].from = stack[i].from
                            /\ Spent(q)[i].todo \subseteq stack[i].todo
                            /\ Spent(q)[i].givesUp = stack[i].givesUp
    BY <2>1, <2>2, <2>3 DEF Frame
  <2>7. Spent(q) \in Seq(Frame) /\ Len(Spent(q)) = Depth
    BY <2>1, <2>5
  <2>8. QED
    BY <2>6, <2>7 DEF Below
<1>3. QED
  BY <1>1, <1>2

\* Telling the topmost frame the outcome of a request touches nothing but
\* whether it gives up, which it starts to only on a failure it depends on.
LEMMA ToldShape ==
    ASSUME NEW s \in Seq(Frame), NEW n \in Nat, Below(s, n), NEW q, NEW o,
           \A i \in 1..n : s[i].givesUp = stack[i].givesUp
    PROVE  Below(Told(s, q, o), n) /\ MayStart(Told(s, q, o), n, q, o)
<1>1. CASE Told(s, q, o) = s
  BY <1>1 DEF Starts, MayStart
<1>2. CASE Told(s, q, o) # s
  <2>1. /\ s # <<>> /\ o # "Success" /\ q \in GivesUpOn[s[Len(s)].query]
        /\ Told(s, q, o) = [s EXCEPT ![Len(s)].givesUp = TRUE]
    BY <1>2 DEF Told
  <2>2. Len(s) = n /\ s \in [1..n -> Frame] /\ n \in 1..n
    <3>1. Len(s) \in 1..Len(s) /\ s \in [1..Len(s) -> Frame]
      BY <2>1
    <3>2. QED
      BY <3>1 DEF Below
  <2>3. [s[n] EXCEPT !.givesUp = TRUE] \in Frame
    <3>1. s[n] \in Frame
      BY <2>2
    <3>2. QED
      BY <3>1 DEF Frame
  <2>4. Told(s, q, o) \in [1..n -> Frame]
    <3>1. Told(s, q, o) = [s EXCEPT ![n] = [s[n] EXCEPT !.givesUp = TRUE]]
      BY <2>1, <2>2
    <3>2. QED
      BY <2>2, <2>3, <3>1
  <2>5. Told(s, q, o) \in Seq(Frame) /\ Len(Told(s, q, o)) = n
    BY <2>4
  <2>6. Told(s, q, o)[n] = [s[n] EXCEPT !.givesUp = TRUE]
    BY <2>1, <2>2
  <2>7. \A i \in 1..n : i # n => Told(s, q, o)[i] = s[i]
    BY <2>1, <2>2
  <2>8. \A i \in 1..n : /\ Told(s, q, o)[i].query = s[i].query
                        /\ Told(s, q, o)[i].from = s[i].from
                        /\ Told(s, q, o)[i].todo = s[i].todo
    <3>1. s[n] \in Frame
      BY <2>2
    <3>2. QED
      BY <2>6, <2>7, <3>1 DEF Frame
  <2>9. s[n].query = stack[n].query
    BY <2>2 DEF Below
  <2>10. Below(Told(s, q, o), n)
    BY <2>5, <2>8 DEF Below
  <2>11. \A i \in 1..n : Starts(Told(s, q, o), i) => i = n
    BY <2>7 DEF Starts
  <2>12. QED
    BY <2>1, <2>2, <2>9, <2>10, <2>11 DEF MayStart
<1>3. QED
  BY <1>1, <1>2

\* What a request that is answered at once does to the stack.
LEMMA AnsweredShape ==
    ASSUME TypeOK, NEW q \in Query, NEW o
    PROVE  /\ Below(Told(Spent(q), q, o), Depth)
           /\ MayStart(Told(Spent(q), q, o), Depth, q, o)
<1>1. Spent(q) \in Seq(Frame) /\ Depth \in Nat /\ Below(Spent(q), Depth)
  BY SpentShape, FramesTyped DEF Below
<1>2. QED
  BY <1>1, SpentShape, ToldShape

\* The frame of a body that is entered.
Entered(q) == [query |-> q, todo |-> Deps[q], from |-> Noted(q),
               givesUp |-> FALSE]

\* Entering a body puts one frame on top of those of its callers.
LEMMA PushShape ==
    ASSUME TypeOK, NEW q \in Query, NEW s, s = Append(Spent(q), Entered(q))
    PROVE  /\ s \in Seq(Frame)
           /\ Depth \in Nat
           /\ Len(s) = Depth + 1
           /\ s[Depth + 1] = Entered(q)
           /\ \A i \in 1..Depth : /\ s[i].query = stack[i].query
                                  /\ s[i].from = stack[i].from
                                  /\ s[i].todo \subseteq stack[i].todo
                                  /\ ~Starts(s, i)
<1>1. Spent(q) \in Seq(Frame) /\ Len(Spent(q)) = Depth
  BY SpentShape DEF Below
<1>2. Depth \in Nat /\ Entered(q) \in Frame
  BY QueryAssumption DEF TypeOK, Depth, Entered, Frame, Noted
<1>3. \A i \in 1..Depth : s[i] = Spent(q)[i]
  BY <1>1, <1>2
<1>4. \A i \in 1..Depth : ~Starts(s, i)
  BY <1>3, SpentShape DEF Starts
<1>5. QED
  BY <1>1, <1>2, <1>3, <1>4, SpentShape DEF Below

\* Leaving a body uncovers the frames of its callers.
LEMMA PopShape ==
    ASSUME TypeOK, stack # <<>>
    PROVE  /\ Popped \in Seq(Frame)
           /\ Depth \in Nat \ {0}
           /\ Len(Popped) = Depth - 1
           /\ \A i \in 1..(Depth - 1) : Popped[i] = stack[i]
           /\ Top \in Frame
<1>1. Depth \in Nat \ {0}
  BY DEF TypeOK, Depth
<1>2. \A i \in 1..Depth : stack[i] \in Frame
  BY DEF TypeOK, Depth
<1>3. Popped \in Seq(Frame) /\ Len(Popped) = Depth - 1
  <2>1. 1 \in Int /\ Depth - 1 \in Int /\ \A i \in 1..(Depth - 1) : stack[i] \in Frame
    BY <1>1, <1>2
  <2>2. SubSeq(stack, 1, Depth - 1) \in Seq(Frame)
    BY <2>1, SubSeqProperties
  <2>3. Len(SubSeq(stack, 1, Depth - 1)) = IF 1 <= Depth - 1 THEN Depth - 1 - 1 + 1 ELSE 0
    BY <2>1, SubSeqProperties
  <2>4. QED
    BY <1>1, <2>2, <2>3 DEF Popped
<1>4. \A i \in 1..(Depth - 1) : Popped[i] = stack[i]
  BY <1>1 DEF TypeOK, Popped, Depth
<1>5. Top \in Frame
  BY <1>1, <1>2 DEF Top
<1>6. QED
  BY <1>1, <1>3, <1>4, <1>5

\* What the end of a body does to the stack.
LEMMA ReturnedShape ==
    ASSUME TypeOK, stack # <<>>, NEW q, NEW o
    PROVE  /\ Below(Told(Popped, q, o), Depth - 1)
           /\ MayStart(Told(Popped, q, o), Depth - 1, q, o)
<1>1. Popped \in Seq(Frame) /\ Depth - 1 \in Nat
  BY PopShape
<1>2. Below(Popped, Depth - 1) /\ \A i \in 1..(Depth - 1) : Popped[i] = stack[i]
  BY PopShape DEF Below
<1>3. QED
  BY <1>1, <1>2, ToldShape

-----------------------------------------------------------------------------
(* Types.                                                                   *)

\* The statuses, revisions, stack frames and histories of the engine keep
\* their types under every dispatch and every way a body ends.
THEOREM TypeCorrect == Spec => []TypeOK
<1>1. Init => TypeOK
  <2> SUFFICES ASSUME Init PROVE TypeOK
    OBVIOUS
  <2>1. /\ stat \in [Query -> Status]
        /\ recorded \in [Query -> Nat \union {-1}]
        /\ asOf \in [Query -> Nat \union {-1}]
    BY DEF Init, Status
  <2>2. stack \in Seq(Frame) /\ rev \in Nat
    BY DEF Init
  <2>3. completed \in BOOLEAN /\ diagnosed \subseteq Query
    BY DEF Init
  <2>4. replies \subseteq Query \X Outcomes
    BY DEF Init
  <2>5. QED
    BY <2>1, <2>2, <2>3, <2>4, QueryAssumption DEF TypeOK, Init
<1>2. ASSUME TypeOK, [Next]_vars
      PROVE  TypeOK'
  <2>0. /\ \A q \in Query : /\ Recorded(q) \in [Query -> Nat \union {-1}]
                            /\ Seen(q) \in Status
                            /\ StatusOnEntry(q) \in Status
        /\ \A q \in Query, s \in Final : StatusAfter(q, s) \in Status
        /\ \A s \in Status : Outcome(s) \in Outcomes
    BY <1>2 DEF TypeOK, Recorded, Noted, Seen, StatusOnEntry, StatusAfter,
                Outcome, Outcomes, Status, Final
  <2>1. ASSUME NEW q \in Query, RequestSettled(q) PROVE TypeOK'
    <3>1. stack' \in Seq(Frame)
      BY <1>2, <2>1, AnsweredShape DEF RequestSettled, Below
    <3>2. QED
      BY <1>2, <2>0, <2>1, <3>1 DEF RequestSettled, TypeOK, Reply
  <2>2. ASSUME NEW q \in Query, RequestCircular(q) PROVE TypeOK'
    <3>1. stack' \in Seq(Frame)
      BY <1>2, <2>2, AnsweredShape DEF RequestCircular, Below
    <3>2. QED
      BY <1>2, <2>0, <2>2, <3>1 DEF RequestCircular, TypeOK, Reply, Outcomes
  <2>3. ASSUME NEW q \in Query, RequestIdle(q) PROVE TypeOK'
    <3>1. stack' \in Seq(Frame)
      BY <1>2, <2>3, PushShape DEF RequestIdle, Entered
    <3>2. QED
      BY <1>2, <2>0, <2>3, <3>1 DEF RequestIdle, TypeOK
  <2>4. ASSUME NEW s \in Final, FinishAndReturn(s) PROVE TypeOK'
    <3>0. stack # <<>>
      BY <2>4 DEF FinishAndReturn, MayFinish
    <3>1. stack' \in Seq(Frame) /\ Top.query \in Query /\ Top.from \in Nat
      BY <1>2, <2>4, <3>0, PopShape, ReturnedShape
      DEF FinishAndReturn, Frame, Below
    <3>2. Outcome(s) \in Outcomes /\ StatusAfter(Top.query, s) \in Status
      BY <2>0, <3>1 DEF Status
    <3>3. QED
      BY <1>2, <2>4, <3>1, <3>2 DEF FinishAndReturn, TypeOK, Reply
  <2>5. ASSUME NEW o \in {"Success", "Error"}, ReturnUnfinished(o) PROVE TypeOK'
    <3>1. stack' \in Seq(Frame) /\ Top.query \in Query
      BY <1>2, <2>5, PopShape, ReturnedShape DEF ReturnUnfinished, Frame, Below
    <3>2. QED
      BY <1>2, <2>5, <3>1 DEF ReturnUnfinished, TypeOK, Reply, Outcomes
  <2>6. ASSUME FinishAndContinue PROVE TypeOK'
    <3>1. Top.query \in Query /\ Top.from \in Nat
      BY <1>2, <2>6, PopShape DEF FinishAndContinue, Frame
    <3>2. QED
      BY <1>2, <2>6, <3>1 DEF FinishAndContinue, TypeOK, Status, Final
  <2>7. ASSUME NEW q \in Query, Invalidate(q) PROVE TypeOK'
    BY <1>2, <2>7 DEF Invalidate, TypeOK, Status
  <2>8. CASE AddDeclaration
    BY <1>2, <2>8 DEF AddDeclaration, TypeOK
  <2>9. CASE CompleteRecord
    BY <1>2, <2>9 DEF CompleteRecord, TypeOK
  <2>10. CASE UNCHANGED vars
    BY <1>2, <2>10 DEF vars, TypeOK
  <2>11. QED
    BY <1>2, <2>1, <2>2, <2>3, <2>4, <2>5, <2>6, <2>7, <2>8, <2>9, <2>10
    DEF Next, Return
<1>3. QED
  BY <1>1, <1>2, PTL DEF Spec

-----------------------------------------------------------------------------
(* The recursion is cut.                                                    *)

\* A guarded query whose body runs does not say Idle, so that the next
\* request for it cannot enter the body a second time.
GuardedNotIdle ==
    \A i \in 1..Depth :
        Guarded(stack[i].query) => stat[stack[i].query] # "Idle"

\* The induction step, one case per action.
LEMMA NoReentryStep ==
    ASSUME TypeOK, NoReentry, GuardedNotIdle, [Next]_vars
    PROVE  (NoReentry /\ GuardedNotIdle)'
<1> USE DEF NoReentry, GuardedNotIdle
<1>0. Depth' = Len(stack')
  BY DEF Depth
<1>1. ASSUME NEW q \in Query, NEW o, stack' = Told(Spent(q), q, o), stat' = stat
      PROVE  (NoReentry /\ GuardedNotIdle)'
  <2>1. /\ Depth' = Depth
        /\ \A i \in 1..Depth : stack'[i].query = stack[i].query
    BY <1>0, <1>1, AnsweredShape DEF Below
  <2>2. QED
    BY <1>1, <2>1 DEF Guarded
<1>2. ASSUME NEW q \in Query, RequestIdle(q)
      PROVE  (NoReentry /\ GuardedNotIdle)'
  <2>1. stack' = Append(Spent(q), Entered(q))
    BY <1>2 DEF RequestIdle, Entered
  <2>2. /\ Depth \in Nat /\ Depth' = Depth + 1
        /\ stack'[Depth + 1].query = q
        /\ \A i \in 1..Depth : stack'[i].query = stack[i].query
    BY <1>0, <2>1, PushShape DEF Entered
  <2>3. Guarded(q) => stat[q] = "Idle"
    BY <1>2 DEF RequestIdle, Seen, RefreshDue, Guarded
  <2>4. Guarded(q) => \A i \in 1..Depth : stack[i].query # q
    BY <2>3
  <2>5. Guarded(q) => stat'[q] # "Idle"
    BY <1>2 DEF RequestIdle, StatusOnEntry, Guarded, TypeOK
  <2>6. \A r \in Query : r # q => stat'[r] = stat[r]
    BY <1>2 DEF RequestIdle, TypeOK
  <2>7. \A i \in 1..Depth : stack[i].query \in Query
    BY FramesTyped
  <2>8. \A i \in 1..(Depth + 1) : i \in 1..Depth \/ i = Depth + 1
    BY <2>2
  <2>9. NoReentry'
    BY <2>2, <2>4, <2>8 DEF Guarded
  <2>10. GuardedNotIdle'
    BY <2>2, <2>4, <2>5, <2>6, <2>7, <2>8 DEF Guarded
  <2>11. QED
    BY <2>9, <2>10
<1>3. ASSUME stack # <<>>, NEW q, NEW o, stack' = Told(Popped, q, o),
             \A r \in Query : Guarded(r) /\ stat[r] # "Idle" => stat'[r] # "Idle"
      PROVE  (NoReentry /\ GuardedNotIdle)'
  <2>1. /\ Depth \in Nat \ {0} /\ Depth' = Depth - 1
        /\ \A i \in 1..(Depth - 1) : stack'[i].query = stack[i].query
    <3>1. Below(stack', Depth - 1)
      BY <1>3, ReturnedShape
    <3>2. Depth \in Nat \ {0}
      BY <1>3, PopShape
    <3>3. QED
      BY <1>0, <3>1, <3>2 DEF Below
  <2>2. \A i \in 1..Depth : stack[i].query \in Query
    BY FramesTyped
  <2>3. QED
    BY <1>3, <2>1, <2>2 DEF Guarded
<1>4. ASSUME NEW s \in Final, FinishAndReturn(s)
      PROVE  (NoReentry /\ GuardedNotIdle)'
  <2>1. \A r \in Query : Guarded(r) /\ stat[r] # "Idle" => stat'[r] # "Idle"
    BY <1>4 DEF FinishAndReturn, StatusAfter, Guarded, Final, TypeOK
  <2>2. QED
    BY <1>3, <1>4, <2>1 DEF FinishAndReturn, MayFinish
<1>5. ASSUME NEW o \in {"Success", "Error"}, ReturnUnfinished(o)
      PROVE  (NoReentry /\ GuardedNotIdle)'
  BY <1>3, <1>5 DEF ReturnUnfinished
<1>6. CASE FinishAndContinue
  <2>1. \A r \in Query : stat[r] # "Idle" => stat'[r] # "Idle"
    BY <1>6 DEF FinishAndContinue, TypeOK
  <2>2. \A i \in 1..Depth : stack[i].query \in Query
    BY FramesTyped
  <2>3. QED
    BY <1>0, <1>6, <2>1, <2>2 DEF FinishAndContinue, Guarded, Depth
<1>7. ASSUME NEW q \in Query, Invalidate(q)
      PROVE  (NoReentry /\ GuardedNotIdle)'
  <2>1. \A r \in Query : Guarded(r) => stat'[r] = stat[r]
    BY <1>7 DEF Invalidate, Guarded, TypeOK
  <2>2. \A i \in 1..Depth : stack[i].query \in Query
    BY FramesTyped
  <2>3. QED
    BY <1>0, <1>7, <2>1, <2>2 DEF Invalidate, Guarded, Depth
<1>8. CASE UNCHANGED <<stack, stat>>
  BY <1>8 DEF Guarded, Depth
<1>9. QED
  BY <1>1, <1>2, <1>4, <1>5, <1>6, <1>7, <1>8
  DEF Next, Return, vars, RequestSettled, RequestCircular, AddDeclaration,
      CompleteRecord

\* The body of a guarded query is on the stack at most once, for every
\* dependency graph: the dispatch status cuts every cyclic request.
THEOREM NoReentryHolds == Spec => []NoReentry
<1>1. Init => NoReentry /\ GuardedNotIdle
  BY DEF Init, NoReentry, GuardedNotIdle, Depth
<1>2. TypeOK /\ NoReentry /\ GuardedNotIdle /\ [Next]_vars
        => (NoReentry /\ GuardedNotIdle)'
  BY NoReentryStep
<1>3. QED
  BY <1>1, <1>2, TypeCorrect, PTL DEF Spec

-----------------------------------------------------------------------------
(* Running means executing or given up, and a reported cycle is a cycle.    *)

\* A body asks only for what it depends on, so that whatever is above a
\* query on the stack is something the query can reach.
StackIsPath ==
    /\ \A i \in 1..Depth : stack[i].todo \subseteq Deps[stack[i].query]
    /\ \A i, j \in 1..Depth : i < j =>
          \A S \in SUBSET Query :
              Holds(S, stack[i].query) => stack[j].query \in S

\* Entering a body extends the path of dependencies the stack spells out;
\* nothing else changes it.
LEMMA StackIsPathStep ==
    ASSUME TypeOK, StackIsPath, [Next]_vars
    PROVE  StackIsPath'
<1>0. Depth' = Len(stack') /\ Depth \in Nat
  BY FramesTyped DEF Depth
<1>1. ASSUME NEW q \in Query, NEW o, stack' = Told(Spent(q), q, o)
      PROVE  StackIsPath'
  <2>1. /\ Depth' = Depth
        /\ \A i \in 1..Depth : /\ stack'[i].query = stack[i].query
                               /\ stack'[i].todo \subseteq stack[i].todo
    BY <1>0, <1>1, AnsweredShape DEF Below
  <2>2. QED
    BY <2>1 DEF StackIsPath
<1>2. ASSUME NEW q \in Query, RequestIdle(q)
      PROVE  StackIsPath'
  <2>1. stack' = Append(Spent(q), Entered(q))
    BY <1>2 DEF RequestIdle, Entered
  <2>2. /\ Depth' = Depth + 1
        /\ stack'[Depth + 1].query = q
        /\ stack'[Depth + 1].todo = Deps[q]
        /\ \A i \in 1..Depth : /\ stack'[i].query = stack[i].query
                               /\ stack'[i].todo \subseteq stack[i].todo
    BY <1>0, <2>1, PushShape DEF Entered
  <2>3. \A i \in 1..(Depth + 1) : i \in 1..Depth \/ i = Depth + 1
    BY <1>0
  <2>4. ASSUME NEW i \in 1..Depth, NEW S \in SUBSET Query,
               Holds(S, stack[i].query)
        PROVE  q \in S
    <3>1. stack # <<>> /\ Depth \in 1..Depth
      BY <1>0 DEF TypeOK, Depth
    <3>2. q \in Deps[Top.query]
      BY <1>2, <3>1 DEF RequestIdle, MayRequest, StackIsPath, Top
    <3>3. CASE i = Depth
      BY <2>4, <3>2, <3>3 DEF Holds, Top
    <3>4. CASE i # Depth
      <4>1. Top.query \in S
        BY <1>0, <2>4, <3>1, <3>4 DEF StackIsPath, Top
      <4>2. QED
        BY <2>4, <3>2, <4>1 DEF Holds
    <3>5. QED
      BY <3>3, <3>4
  <2>5. \A i \in 1..Depth' : stack'[i].todo \subseteq Deps[stack'[i].query]
    BY <2>2, <2>3 DEF StackIsPath
  <2>6. ASSUME NEW i \in 1..Depth', NEW j \in 1..Depth', i < j,
               NEW S \in SUBSET Query, Holds(S, stack'[i].query)
        PROVE  stack'[j].query \in S
    <3>1. i \in 1..Depth /\ stack'[i].query = stack[i].query
      BY <1>0, <2>2, <2>3, <2>6
    <3>2. CASE j = Depth + 1
      BY <2>2, <2>4, <2>6, <3>1, <3>2
    <3>3. CASE j \in 1..Depth
      BY <2>2, <2>6, <3>1, <3>3 DEF StackIsPath
    <3>4. QED
      BY <2>2, <2>3, <3>2, <3>3
  <2>7. QED
    BY <2>5, <2>6 DEF StackIsPath, Holds
<1>3. ASSUME stack # <<>>, NEW q, NEW o, stack' = Told(Popped, q, o)
      PROVE  StackIsPath'
  <2>1. /\ Depth' = Depth - 1
        /\ \A i \in 1..(Depth - 1) : /\ stack'[i].query = stack[i].query
                                     /\ stack'[i].todo \subseteq stack[i].todo
    BY <1>0, <1>3, ReturnedShape DEF Below
  <2>2. QED
    BY <1>0, <2>1 DEF StackIsPath
<1>4. CASE UNCHANGED stack
  BY <1>4 DEF StackIsPath, Depth
<1>5. QED
  BY <1>1, <1>2, <1>3, <1>4
  DEF Next, Return, vars, RequestSettled, RequestCircular, FinishAndReturn,
      MayFinish, ReturnUnfinished, FinishAndContinue, Invalidate,
      AddDeclaration, CompleteRecord

\* A request for what is on the stack closes a cycle of dependencies, on
\* which both the query asked for and the one that asks lie.
LEMMA RequestClosesCycle ==
    ASSUME TypeOK, StackIsPath, NEW q \in Query, MayRequest(q), q \in Executing
    PROVE  stack # <<>> /\ q \in Cyclic /\ Top.query \in Cyclic
<1>1. PICK i \in 1..Depth : stack[i].query = q
  BY DEF Executing
<1>2. /\ stack # <<>> /\ Depth \in Nat /\ Depth \in 1..Depth
      /\ Top.query \in Query
  BY <1>1, FramesTyped DEF TypeOK, Depth, Top
<1>3. q \in Deps[Top.query]
  BY <1>2 DEF MayRequest, StackIsPath, Top
<1>4. ASSUME NEW S \in SUBSET Query, Deps[q] \subseteq S,
             \A x \in S : Deps[x] \subseteq S
      PROVE  q \in S /\ (i = Depth \/ Top.query \in S)
  <2>1. Holds(S, q)
    BY <1>4 DEF Holds
  <2>2. CASE i = Depth
    BY <1>1, <1>3, <1>4, <2>2 DEF Top
  <2>3. CASE i # Depth
    <3>1. Top.query \in S
      BY <1>1, <1>2, <2>1, <2>3 DEF StackIsPath, Top
    <3>2. QED
      BY <1>3, <1>4, <3>1
  <2>4. QED
    BY <2>2, <2>3
<1>5. q \in Cyclic
  BY <1>4 DEF Cyclic, OnCycle, Holds
<1>6. ASSUME NEW S \in SUBSET Query, Holds(S, Top.query)
      PROVE  Top.query \in S
  <2>1. q \in S /\ Deps[q] \subseteq S /\ \A x \in S : Deps[x] \subseteq S
    BY <1>3, <1>6 DEF Holds
  <2>2. CASE i = Depth
    BY <1>1, <2>1, <2>2 DEF Top
  <2>3. CASE i # Depth
    BY <1>4, <2>1, <2>3
  <2>4. QED
    BY <2>2, <2>3
<1>7. Top.query \in Cyclic
  BY <1>2, <1>6 DEF Cyclic, OnCycle
<1>8. QED
  BY <1>2, <1>5, <1>7

\* Only strict queries are ever marked Running.
RunningStrict == \A q \in Query : stat[q] = "Running" => Kind[q] = "strict"

\* A body that gives up is on a cycle.
GivesUpOnCycle ==
    \A i \in 1..Depth : stack[i].givesUp =>
        GivesUpOn[stack[i].query] # {} /\ stack[i].query \in Cyclic

\* The queries that bodies give up on have not failed.
NeverFailing == \A q \in NeverFails : stat[q] \notin {"Dependent", "Aborted"}

\* What is on a cycle is the same in every state.
LEMMA CyclicConstant == Cyclic' = Cyclic
BY DEF Cyclic, OnCycle, Holds

\* Every dispatch and every way a body ends keeps Running on the stack, but
\* for a body that gives up.
LEMMA RunningStep ==
    ASSUME TypeOK, RunningIsExecuting, RunningStrict, GivesUpOnCycle,
           [Next]_vars
    PROVE  (RunningIsExecuting /\ RunningStrict)'
<1> DEFINE Left(q) == GivesUpOn[q] # {} /\ q \in Cyclic
           Runs == \A q \in Query : stat[q] = "Running" =>
                      Kind[q] = "strict" /\ (q \in Executing \/ Left(q))
<1>0. /\ Depth' = Len(stack')
      /\ RunningIsExecuting /\ RunningStrict <=> Runs
      /\ (RunningIsExecuting /\ RunningStrict)' <=> Runs'
  BY CyclicConstant DEF Depth, RunningIsExecuting, RunningStrict
<1> SUFFICES Runs'
  BY <1>0
<1>r. \A q \in Query : stat[q] = "Running" =>
         Kind[q] = "strict" /\ (q \in Executing \/ Left(q))
  BY <1>0
<1>s. SUFFICES ASSUME NEW r \in Query, stat'[r] = "Running"
               PROVE  Kind[r] = "strict" /\ (r \in Executing' \/ Left(r))
  BY CyclicConstant
<1> HIDE DEF Left, Runs
<1>1. ASSUME stat'[r] = stat[r], Depth \in Nat, Depth' \in Nat, Depth <= Depth',
             \A i \in 1..Depth : stack'[i].query = stack[i].query
      PROVE  Kind[r] = "strict" /\ (r \in Executing' \/ Left(r))
  <2>1. Kind[r] = "strict" /\ (r \in Executing \/ Left(r))
    BY <1>r, <1>s, <1>1
  <2>2. CASE r \in Executing
    <3>1. PICK i \in 1..Depth : stack[i].query = r
      BY <2>2 DEF Executing
    <3>2. i \in 1..Depth' /\ stack'[i].query = r
      BY <1>1, <3>1
    <3>3. QED
      BY <2>1, <3>2 DEF Executing
  <2>3. QED
    BY <2>1, <2>2
<1>2. ASSUME NEW q \in Query, NEW o, stack' = Told(Spent(q), q, o), stat' = stat
      PROVE  Kind[r] = "strict" /\ (r \in Executing' \/ Left(r))
  <2>1. /\ Depth \in Nat /\ Depth' = Depth
        /\ \A i \in 1..Depth : stack'[i].query = stack[i].query
    BY <1>0, <1>2, AnsweredShape, FramesTyped DEF Below
  <2>2. QED
    BY <1>1, <1>2, <2>1
<1>3. ASSUME NEW q \in Query, RequestIdle(q)
      PROVE  Kind[r] = "strict" /\ (r \in Executing' \/ Left(r))
  <2>1. stack' = Append(Spent(q), Entered(q))
    BY <1>3 DEF RequestIdle, Entered
  <2>2. /\ Depth \in Nat /\ Depth' = Depth + 1
        /\ stack'[Depth + 1].query = q
        /\ \A i \in 1..Depth : stack'[i].query = stack[i].query
    BY <1>0, <2>1, PushShape DEF Entered
  <2>3. stat' = [stat EXCEPT ![q] = StatusOnEntry(q)]
    BY <1>3 DEF RequestIdle
  <2>4. CASE r = q
    <3>1. Depth + 1 \in 1..Depth' /\ r \in Executing'
      BY <2>2, <2>4 DEF Executing
    <3>2. StatusOnEntry(q) = "Running"
      BY <1>s, <2>3, <2>4 DEF TypeOK
    <3>3. Kind[q] = "strict" \/ stat[q] = "Running"
      BY <3>2 DEF StatusOnEntry
    <3>4. QED
      BY <1>r, <2>4, <3>1, <3>3
  <2>5. CASE r # q
    <3>1. stat'[r] = stat[r]
      BY <2>3, <2>5 DEF TypeOK
    <3>2. QED
      BY <1>1, <2>2, <3>1
  <2>6. QED
    BY <2>4, <2>5
<1>4. ASSUME stack # <<>>, NEW q, NEW o, stack' = Told(Popped, q, o),
             stat'[r] = stat[r], r # Top.query \/ Left(r)
      PROVE  Kind[r] = "strict" /\ (r \in Executing' \/ Left(r))
  <2>1. /\ Depth \in Nat \ {0} /\ Depth' = Depth - 1
        /\ \A i \in 1..(Depth - 1) : stack'[i].query = stack[i].query
    <3>1. Below(stack', Depth - 1)
      BY <1>4, ReturnedShape
    <3>2. Depth \in Nat \ {0}
      BY <1>4, PopShape
    <3>3. QED
      BY <1>0, <3>1, <3>2 DEF Below
  <2>2. Kind[r] = "strict" /\ (r \in Executing \/ Left(r))
    BY <1>r, <1>s, <1>4
  <2>3. CASE r \in Executing /\ ~Left(r)
    <3>1. PICK i \in 1..Depth : stack[i].query = r
      BY <2>3 DEF Executing
    <3>2. i # Depth
      BY <1>4, <2>3, <3>1 DEF Top
    <3>3. i \in 1..Depth' /\ stack'[i].query = r
      BY <2>1, <3>1, <3>2
    <3>4. QED
      BY <2>2, <3>3 DEF Executing
  <2>4. QED
    BY <2>2, <2>3
<1>5. ASSUME NEW s \in Final, FinishAndReturn(s)
      PROVE  Kind[r] = "strict" /\ (r \in Executing' \/ Left(r))
  <2>1. stack # <<>> /\ stack' = Told(Popped, Top.query, Outcome(s))
    BY <1>5 DEF FinishAndReturn, MayFinish
  <2>2. stat' = [stat EXCEPT ![Top.query] = StatusAfter(Top.query, s)]
    BY <1>5 DEF FinishAndReturn
  <2>3. Top.query \in Query
    BY <2>1, PopShape DEF Frame
  <2>4. CASE r = Top.query
    <3>1. StatusAfter(r, s) = "Running"
      BY <1>s, <2>2, <2>3, <2>4 DEF TypeOK
    <3>2. stat[r] = "Running" /\ Kind[r] # "strict"
      BY <3>1 DEF StatusAfter, Final
    <3>3. QED
      BY <1>r, <3>2
  <2>5. CASE r # Top.query
    <3>1. stat'[r] = stat[r]
      BY <2>2, <2>5 DEF TypeOK
    <3>2. QED
      BY <1>4, <2>1, <2>5, <3>1
  <2>6. QED
    BY <2>4, <2>5
<1>6. ASSUME NEW o \in {"Success", "Error"}, ReturnUnfinished(o)
      PROVE  Kind[r] = "strict" /\ (r \in Executing' \/ Left(r))
  <2>1. /\ stack # <<>> /\ stack' = Told(Popped, Top.query, o)
        /\ stat' = stat
    BY <1>6 DEF ReturnUnfinished
  <2>2. r # Top.query \/ Left(r)
    <3>1. CASE Top.givesUp
      <4>1. Depth \in 1..Depth
        BY <2>1, PopShape
      <4>2. Left(Top.query)
        BY <3>1, <4>1 DEF GivesUpOnCycle, Top, Left
      <4>3. QED
        BY <4>2
    <3>2. CASE ~Top.givesUp
      <4>1. stat[Top.query] = "Done"
        BY <1>6, <3>2 DEF ReturnUnfinished
      <4>2. QED
        BY <1>s, <2>1, <4>1
    <3>3. QED
      BY <3>1, <3>2
  <2>3. QED
    BY <1>4, <2>1, <2>2
<1>7. ASSUME NEW q \in Query, UNCHANGED stack, NEW s, s # "Running",
             stat' = [stat EXCEPT ![q] = s]
      PROVE  Kind[r] = "strict" /\ (r \in Executing' \/ Left(r))
  <2>1. stat'[r] = stat[r]
    BY <1>s, <1>7 DEF TypeOK
  <2>2. Depth' = Depth /\ Depth \in Nat
    BY <1>0, <1>7, FramesTyped DEF Depth
  <2>3. QED
    BY <1>1, <1>7, <2>1, <2>2
<1>8. CASE FinishAndContinue
  <2>1. Top.query \in Query
    BY <1>8, PopShape DEF FinishAndContinue, Frame
  <2>2. QED
    BY <1>7, <1>8, <2>1 DEF FinishAndContinue
<1>9. ASSUME NEW q \in Query, Invalidate(q)
      PROVE  Kind[r] = "strict" /\ (r \in Executing' \/ Left(r))
  BY <1>7, <1>9 DEF Invalidate
<1>10. CASE UNCHANGED <<stack, stat>>
  <2>1. Depth' = Depth /\ Depth \in Nat
    BY <1>0, <1>10, FramesTyped DEF Depth
  <2>2. QED
    BY <1>1, <1>10, <2>1
<1>11. QED
  BY <1>2, <1>3, <1>5, <1>6, <1>8, <1>9, <1>10
  DEF Next, Return, vars, RequestSettled, RequestCircular, AddDeclaration,
      CompleteRecord

\* The queries bodies give up on end in Done or DoneWithError.
LEMMA NeverFailingStep ==
    ASSUME TypeOK, NeverFailing, [Next]_vars
    PROVE  NeverFailing'
<1> SUFFICES ASSUME NEW r \in NeverFails
             PROVE  stat'[r] \notin {"Dependent", "Aborted"}
  BY DEF NeverFailing
<1>0. r \in Query /\ stat[r] \notin {"Dependent", "Aborted"}
  BY QueryAssumption DEF NeverFailing
<1>1. ASSUME NEW q \in Query, RequestIdle(q)
      PROVE  stat'[r] \notin {"Dependent", "Aborted"}
  BY <1>0, <1>1 DEF RequestIdle, StatusOnEntry, TypeOK
<1>2. ASSUME NEW s \in Final, FinishAndReturn(s)
      PROVE  stat'[r] \notin {"Dependent", "Aborted"}
  <2>1. /\ stat' = [stat EXCEPT ![Top.query] = StatusAfter(Top.query, s)]
        /\ Top.query = r => s \notin {"Dependent", "Aborted"}
    BY <1>2 DEF FinishAndReturn, MayFinish
  <2>2. StatusAfter(r, s) \in {stat[r], "Done", s}
    BY DEF StatusAfter
  <2>3. QED
    BY <1>0, <2>1, <2>2 DEF TypeOK
<1>3. CASE FinishAndContinue
  BY <1>0, <1>3 DEF FinishAndContinue, TypeOK
<1>4. ASSUME NEW q \in Query, Invalidate(q)
      PROVE  stat'[r] \notin {"Dependent", "Aborted"}
  BY <1>0, <1>4 DEF Invalidate, TypeOK
<1>5. CASE UNCHANGED stat
  BY <1>0, <1>5
<1>6. QED
  BY <1>1, <1>2, <1>3, <1>4, <1>5
  DEF Next, Return, vars, RequestSettled, RequestCircular, ReturnUnfinished,
      AddDeclaration, CompleteRecord

\* A request for a query that bodies give up on fails only if the query is
\* found Running, and then it is on the stack: the body that asks is on a
\* cycle.
LEMMA GivesUpOnCycleStep ==
    ASSUME TypeOK, StackIsPath, RunningIsExecuting, NeverFailing,
           GivesUpOnCycle, [Next]_vars
    PROVE  GivesUpOnCycle'
<1> DEFINE Left(q) == GivesUpOn[q] # {} /\ q \in Cyclic
<1>0. /\ Depth' = Len(stack') /\ Depth \in Nat
      /\ \A i \in 1..Depth : stack[i].query \in Query
      /\ \A i \in 1..Depth : stack[i].givesUp => Left(stack[i].query)
      /\ \A q \in Query, d \in Query :
            d \in GivesUpOn[q] => d \in NeverFails /\ GivesUpOn[d] = {}
                                  /\ d \notin EarlyFinish
  BY FramesTyped, GiveUpAssumption DEF Depth, GivesUpOnCycle
<1>s. SUFFICES ASSUME NEW i \in 1..Depth', stack'[i].givesUp
               PROVE  Left(stack'[i].query)
  BY CyclicConstant DEF GivesUpOnCycle
<1> HIDE DEF Left
<1>1. ASSUME NEW n \in Nat, n <= Depth, Below(stack', n), NEW q \in Query, NEW o,
             MayStart(stack', n, q, o),
             n > 0 /\ o # "Success" /\ q \in GivesUpOn[stack[n].query]
                => Left(stack[n].query)
      PROVE  Left(stack'[i].query)
  <2>1. /\ i \in 1..n /\ i \in 1..Depth /\ n \in 1..n
        /\ stack'[i].query = stack[i].query
    BY <1>0, <1>1, <1>s DEF Below
  <2>2. CASE stack[i].givesUp
    BY <1>0, <2>1, <2>2
  <2>3. CASE ~stack[i].givesUp
    <3>1. Starts(stack', i)
      BY <1>s, <2>3 DEF Starts
    <3>2. i = n /\ o # "Success" /\ q \in GivesUpOn[stack[i].query]
      BY <1>1, <2>1, <3>1 DEF MayStart
    <3>3. QED
      BY <1>1, <2>1, <3>2
  <2>4. QED
    BY <2>2, <2>3
<1>2. ASSUME NEW q \in Query, RequestSettled(q)
      PROVE  Left(stack'[i].query)
  <2>1. stack' = Told(Spent(q), q, Outcome(Seen(q))) /\ Seen(q) \in Final
    BY <1>2 DEF RequestSettled
  <2>2. Seen(q) = stat[q]
    BY <2>1 DEF Seen, Final
  <2>3. q \in NeverFails => Outcome(Seen(q)) = "Success"
    BY <2>1, <2>2 DEF NeverFailing, Outcome, Final
  <2>4. Depth > 0 /\ Outcome(Seen(q)) # "Success"
           /\ q \in GivesUpOn[stack[Depth].query] => Left(stack[Depth].query)
    BY <1>0, <2>3
  <2>5. QED
    BY <1>0, <1>1, <2>1, <2>4, AnsweredShape
<1>3. ASSUME NEW q \in Query, RequestCircular(q)
      PROVE  Left(stack'[i].query)
  <2>1. stack' = Told(Spent(q), q, "Error") /\ MayRequest(q) /\ stat[q] = "Running"
    BY <1>3 DEF RequestCircular, Seen
  <2>2. ASSUME Depth > 0, q \in GivesUpOn[stack[Depth].query]
        PROVE  Left(stack[Depth].query)
    <3>1. Depth \in 1..Depth /\ GivesUpOn[q] = {}
      BY <1>0, <2>2
    <3>2. q \in Executing
      BY <2>1, <3>1 DEF RunningIsExecuting
    <3>3. Top.query \in Cyclic
      BY <2>1, <3>2, RequestClosesCycle
    <3>4. QED
      BY <2>2, <3>3 DEF Top, Left
  <2>3. QED
    BY <1>0, <1>1, <2>1, <2>2, AnsweredShape
<1>4. ASSUME NEW q \in Query, RequestIdle(q)
      PROVE  Left(stack'[i].query)
  <2>1. stack' = Append(Spent(q), Entered(q))
    BY <1>4 DEF RequestIdle, Entered
  <2>2. /\ Depth' = Depth + 1
        /\ ~stack'[Depth + 1].givesUp
        /\ \A j \in 1..Depth : /\ stack'[j].query = stack[j].query
                               /\ ~Starts(stack', j)
    <3>1. Entered(q).givesUp = FALSE
      BY DEF Entered
    <3>2. stack'[Depth + 1] = Entered(q)
      BY <2>1, PushShape
    <3>3. ~stack'[Depth + 1].givesUp
      BY <3>1, <3>2
    <3>4. QED
      BY <1>0, <2>1, <3>3, PushShape
  <2>3. i \in 1..Depth
    <3>1. i # Depth + 1
      BY <1>s, <2>2
    <3>2. QED
      BY <1>0, <2>2, <3>1
  <2>4. stack[i].givesUp /\ stack'[i].query = stack[i].query
    BY <1>s, <2>2, <2>3 DEF Starts
  <2>5. QED
    BY <1>0, <2>3, <2>4
<1>5. ASSUME stack # <<>>, NEW o, stack' = Told(Popped, Top.query, o),
             Top.query \in NeverFails /\ GivesUpOn[Top.query] = {}
                /\ Top.query \notin EarlyFinish => o = "Success"
      PROVE  Left(stack'[i].query)
  <2>1. /\ Depth - 1 \in Nat /\ Depth - 1 <= Depth
        /\ Top.query \in Query
    BY <1>5, PopShape DEF Frame
  <2>2. ASSUME Depth - 1 > 0, o # "Success",
               Top.query \in GivesUpOn[stack[Depth - 1].query]
        PROVE  Left(stack[Depth - 1].query)
    <3>1. Depth - 1 \in 1..Depth
      BY <1>0, <2>2
    <3>2. QED
      BY <1>0, <1>5, <2>1, <2>2, <3>1
  <2>3. QED
    BY <1>1, <1>5, <2>1, <2>2, ReturnedShape
<1>6. ASSUME NEW s \in Final, FinishAndReturn(s)
      PROVE  Left(stack'[i].query)
  <2>1. /\ stack # <<>> /\ stack' = Told(Popped, Top.query, Outcome(s))
        /\ Top.query \in NeverFails => s \notin {"Dependent", "Aborted"}
    BY <1>6 DEF FinishAndReturn, MayFinish
  <2>2. Top.query \in NeverFails => Outcome(s) = "Success"
    BY <2>1 DEF Outcome, Final
  <2>3. QED
    BY <1>5, <2>1, <2>2
<1>7. ASSUME NEW o \in {"Success", "Error"}, ReturnUnfinished(o)
      PROVE  Left(stack'[i].query)
  <2>1. /\ stack # <<>> /\ stack' = Told(Popped, Top.query, o)
        /\ Top.givesUp \/ Top.query \in EarlyFinish
    BY <1>7 DEF ReturnUnfinished
  <2>2. Top.givesUp => GivesUpOn[Top.query] # {}
    <3>1. Depth \in 1..Depth
      BY <2>1, PopShape
    <3>2. QED
      BY <3>1 DEF GivesUpOnCycle, Top
  <2>3. QED
    BY <1>5, <2>1, <2>2
<1>8. CASE UNCHANGED stack
  BY <1>0, <1>8, <1>s DEF Depth
<1>9. QED
  BY <1>2, <1>3, <1>4, <1>6, <1>7, <1>8
  DEF Next, Return, vars, FinishAndContinue, Invalidate, AddDeclaration,
      CompleteRecord

\* The inductive invariant: the stack is a path of dependencies, Running is
\* on it or left behind by a body that gave up, and bodies give up on cycles.
StatusSound ==
    /\ StackIsPath
    /\ RunningIsExecuting
    /\ RunningStrict
    /\ GivesUpOnCycle
    /\ NeverFailing

\* The conjuncts of the invariant need each other, so they go together.
THEOREM StatusSoundHolds == Spec => []StatusSound
<1>1. Init => StatusSound
  <2> SUFFICES ASSUME Init PROVE StatusSound
    OBVIOUS
  <2>1. stack = <<>> /\ Depth = 0 /\ stat = [q \in Query |-> "Idle"]
    BY DEF Init, Depth
  <2>2. StackIsPath /\ GivesUpOnCycle
    BY <2>1 DEF StackIsPath, GivesUpOnCycle
  <2>3. RunningIsExecuting /\ RunningStrict
    BY <2>1 DEF RunningIsExecuting, RunningStrict
  <2>4. NeverFailing
    <3>1. ASSUME NEW q \in NeverFails
          PROVE  stat[q] \notin {"Dependent", "Aborted"}
      <4>1. q \in Query
        BY QueryAssumption
      <4>2. stat[q] = "Idle"
        BY <2>1, <4>1
      <4>3. QED
        BY <4>2
    <3>2. QED
      BY <3>1 DEF NeverFailing
  <2>5. QED
    BY <2>2, <2>3, <2>4 DEF StatusSound
<1>2. ASSUME TypeOK, StatusSound, [Next]_vars
      PROVE  StatusSound'
  <2>1. /\ StackIsPath /\ RunningIsExecuting /\ RunningStrict
        /\ GivesUpOnCycle /\ NeverFailing
    BY <1>2 DEF StatusSound
  <2>2. StackIsPath'
    BY <1>2, <2>1, StackIsPathStep
  <2>3. (RunningIsExecuting /\ RunningStrict)'
    BY <1>2, <2>1, RunningStep
  <2>4. GivesUpOnCycle'
    BY <1>2, <2>1, GivesUpOnCycleStep
  <2>5. NeverFailing'
    BY <1>2, <2>1, NeverFailingStep
  <2>6. QED
    BY <2>2, <2>3, <2>4, <2>5 DEF StatusSound
<1>3. QED
  BY <1>1, <1>2, TypeCorrect, PTL DEF Spec

\* A query says Running only while its body is on the stack, or after its
\* body gave up because it depends on itself.
THEOREM RunningIsExecutingHolds == Spec => []RunningIsExecuting
<1>1. StatusSound => RunningIsExecuting
  BY DEF StatusSound
<1>2. QED
  BY <1>1, StatusSoundHolds, PTL

\* A circular dependency is reported only for a query that depends on itself,
\* whatever bodies have given up before.
THEOREM GenuineCyclesHolds == Spec => []GenuineCycles
<1>1. Init => GenuineCycles
  BY DEF Init, GenuineCycles
<1>2. ASSUME TypeOK, StatusSound, GenuineCycles, [Next]_vars
      PROVE  GenuineCycles'
  <2>1. ASSUME NEW q \in Query, RequestCircular(q)
        PROVE  GenuineCycles'
    <3>1. stat[q] = "Running" /\ MayRequest(q)
      BY <2>1 DEF RequestCircular, Seen
    <3>2. q \in Executing \/ q \in Cyclic
      BY <1>2, <3>1 DEF StatusSound, RunningIsExecuting
    <3>3. q \in Cyclic
      BY <1>2, <3>1, <3>2, RequestClosesCycle DEF StatusSound
    <3>4. QED
      BY <1>2, <2>1, <3>3, CyclicConstant DEF GenuineCycles, RequestCircular
  <2>2. ASSUME UNCHANGED diagnosed
        PROVE  GenuineCycles'
    BY <1>2, <2>2, CyclicConstant DEF GenuineCycles
  <2>3. QED
    BY <1>2, <2>1, <2>2
    DEF Next, Return, vars, RequestSettled, RequestIdle, FinishAndReturn,
        ReturnUnfinished, FinishAndContinue, Invalidate, AddDeclaration,
        CompleteRecord
<1>3. QED
  BY <1>1, <1>2, StatusSoundHolds, TypeCorrect, PTL DEF Spec

-----------------------------------------------------------------------------
(* A memoised query has one answer.                                         *)

\* While the body of a memoised query runs, its object says Running.
MemoisedRunning ==
    \A i \in 1..Depth :
        stack[i].query \in Memoised => stat[stack[i].query] = "Running"

\* What the callers of a memoised query were told is what its status says;
\* before it is final only a cycle report can have answered a caller.
RepliesMatchStatus ==
    \A q \in Memoised : \A o \in Outcomes :
        <<q, o>> \in replies /\ q \notin diagnosed
            => stat[q] \in Final /\ o = Outcome(stat[q])

\* Answers of a memoised query repeat the outcome its object keeps.
LEMMA MemoisedStep ==
    ASSUME TypeOK, NoReentry, GivesUpOnCycle, MemoisedRunning,
           RepliesMatchStatus, [Next]_vars
    PROVE  (MemoisedRunning /\ RepliesMatchStatus)'
<1>0. /\ Depth' = Len(stack') /\ Depth \in Nat
      /\ \A i \in 1..Depth : stack[i].query \in Query
      /\ \A q \in Memoised : q \in Query /\ Guarded(q)
                             /\ q \notin EarlyFinish /\ GivesUpOn[q] = {}
                             /\ q \notin Invalidated
  BY FramesTyped DEF Depth, Memoised, Guarded
<1>a. ASSUME NEW q \in Query, NEW o, stack' = Told(Spent(q), q, o), stat' = stat
      PROVE  MemoisedRunning'
  <2>1. /\ Depth' = Depth
        /\ \A i \in 1..Depth : stack'[i].query = stack[i].query
    BY <1>0, <1>a, AnsweredShape DEF Below
  <2>2. QED
    BY <1>a, <2>1 DEF MemoisedRunning, Memoised, Guarded
<1>1. ASSUME NEW q \in Query, RequestSettled(q)
      PROVE  (MemoisedRunning /\ RepliesMatchStatus)'
  <2>1. MemoisedRunning'
    BY <1>a, <1>1 DEF RequestSettled
  <2>2. q \in Memoised => Seen(q) = stat[q]
    BY <1>0 DEF Seen, RefreshDue, Guarded
  <2>3. RepliesMatchStatus'
    BY <1>1, <2>2 DEF RequestSettled, RepliesMatchStatus, Reply
  <2>4. QED
    BY <2>1, <2>3
<1>2. ASSUME NEW q \in Query, RequestCircular(q)
      PROVE  (MemoisedRunning /\ RepliesMatchStatus)'
  <2>1. MemoisedRunning'
    BY <1>a, <1>2 DEF RequestCircular
  <2>2. RepliesMatchStatus'
    BY <1>2 DEF RequestCircular, RepliesMatchStatus, Reply
  <2>3. QED
    BY <2>1, <2>2
<1>3. ASSUME NEW q \in Query, RequestIdle(q)
      PROVE  (MemoisedRunning /\ RepliesMatchStatus)'
  <2>1. stack' = Append(Spent(q), Entered(q))
    BY <1>3 DEF RequestIdle, Entered
  <2>2. /\ Depth' = Depth + 1
        /\ stack'[Depth + 1].query = q
        /\ \A i \in 1..Depth : stack'[i].query = stack[i].query
    BY <1>0, <2>1, PushShape DEF Entered
  <2>3. \A i \in 1..(Depth + 1) : i \in 1..Depth \/ i = Depth + 1
    BY <1>0
  <2>4. /\ \A r \in Query : r # q => stat'[r] = stat[r]
        /\ stat'[q] = StatusOnEntry(q)
    BY <1>3 DEF RequestIdle, TypeOK
  <2>5. q \in Memoised => stat[q] = "Idle" /\ stat'[q] = "Running"
    BY <1>0, <1>3, <2>4 DEF RequestIdle, Seen, RefreshDue, Guarded, StatusOnEntry
  <2>6. MemoisedRunning'
    <3>1. ASSUME NEW i \in 1..Depth', stack'[i].query \in Memoised
          PROVE  stat'[stack'[i].query] = "Running"
      BY <1>0, <2>2, <2>3, <2>4, <2>5, <3>1 DEF MemoisedRunning
    <3>2. QED
      BY <3>1 DEF MemoisedRunning, Memoised, Guarded
  <2>7. RepliesMatchStatus'
    <3>1. ASSUME NEW r \in Memoised, NEW o \in Outcomes,
                 <<r, o>> \in replies, r \notin diagnosed
          PROVE  stat'[r] \in Final /\ o = Outcome(stat'[r])
      <4>1. stat[r] \in Final /\ o = Outcome(stat[r])
        BY <3>1 DEF RepliesMatchStatus
      <4>2. r # q
        BY <2>5, <4>1 DEF Final
      <4>3. QED
        BY <1>0, <2>4, <4>1, <4>2
    <3>2. QED
      BY <1>3, <3>1 DEF RequestIdle, RepliesMatchStatus, Memoised, Guarded
  <2>8. QED
    BY <2>6, <2>7
<1>4. ASSUME NEW s \in Final, FinishAndReturn(s)
      PROVE  (MemoisedRunning /\ RepliesMatchStatus)'
  <2>0. stack # <<>> /\ stack' = Told(Popped, Top.query, Outcome(s))
    BY <1>4 DEF FinishAndReturn, MayFinish
  <2>1. /\ Depth \in Nat \ {0} /\ Depth' = Depth - 1
        /\ \A i \in 1..(Depth - 1) : stack'[i].query = stack[i].query
        /\ Top.query \in Query
    <3>1. Below(stack', Depth - 1)
      BY <2>0, ReturnedShape
    <3>2. Depth \in Nat \ {0} /\ Top.query \in Query
      BY <2>0, PopShape DEF Frame
    <3>3. QED
      BY <1>0, <3>1, <3>2 DEF Below
  <2>2. /\ \A r \in Query : r # Top.query => stat'[r] = stat[r]
        /\ stat'[Top.query] = StatusAfter(Top.query, s)
        /\ replies' \subseteq replies \union {<<Top.query, Outcome(s)>>}
        /\ diagnosed' = diagnosed
    BY <1>4, <2>1 DEF FinishAndReturn, TypeOK, Reply
  <2>3. ASSUME Top.query \in Memoised
        PROVE  /\ stat[Top.query] = "Running"
               /\ stat'[Top.query] = s
               /\ \A i \in 1..(Depth - 1) : stack[i].query # Top.query
    <3>1. Guarded(Top.query)
      BY <1>0, <2>3
    <3>2. stat[Top.query] = "Running"
      BY <2>1, <2>3 DEF MemoisedRunning, Top
    <3>3. stat'[Top.query] = s
      BY <2>2, <3>1 DEF StatusAfter, Guarded
    <3>4. \A i \in 1..(Depth - 1) : stack[i].query # Top.query
      BY <2>1, <3>1 DEF NoReentry, Top
    <3>5. QED
      BY <3>2, <3>3, <3>4
  <2>4. MemoisedRunning'
    <3>1. ASSUME NEW i \in 1..Depth', stack'[i].query \in Memoised
          PROVE  stat'[stack'[i].query] = "Running"
      <4>1. i \in 1..(Depth - 1) /\ i \in 1..Depth
        BY <2>1
      <4>2. stack'[i].query = stack[i].query /\ stack[i].query \in Query
        BY <1>0, <2>1, <4>1
      <4>3. stack[i].query # Top.query
        BY <2>3, <3>1, <4>1, <4>2
      <4>4. QED
        BY <2>2, <3>1, <4>1, <4>2, <4>3 DEF MemoisedRunning
    <3>2. QED
      BY <3>1 DEF MemoisedRunning, Memoised, Guarded
  <2>5. RepliesMatchStatus'
    <3>1. ASSUME NEW r \in Memoised, NEW o \in Outcomes,
                 <<r, o>> \in replies', r \notin diagnosed
          PROVE  stat'[r] \in Final /\ o = Outcome(stat'[r])
      <4>1. CASE r = Top.query
        <5>1. <<r, o>> \notin replies
          BY <2>3, <3>1, <4>1 DEF RepliesMatchStatus, Final
        <5>2. o = Outcome(s)
          BY <2>2, <3>1, <5>1
        <5>3. QED
          BY <2>3, <3>1, <4>1, <5>2
      <4>2. CASE r # Top.query
        BY <1>0, <2>2, <3>1, <4>2 DEF RepliesMatchStatus
      <4>3. QED
        BY <4>1, <4>2
    <3>2. QED
      BY <2>2, <3>1 DEF RepliesMatchStatus, Memoised, Guarded
  <2>6. QED
    BY <2>4, <2>5
<1>5. ASSUME NEW o \in {"Success", "Error"}, ReturnUnfinished(o)
      PROVE  (MemoisedRunning /\ RepliesMatchStatus)'
  <2>1. /\ Depth \in 1..Depth
        /\ Depth' = Depth - 1
        /\ \A i \in 1..(Depth - 1) : stack'[i].query = stack[i].query
    <3>1. Below(stack', Depth - 1)
      BY <1>5, ReturnedShape DEF ReturnUnfinished
    <3>2. Depth \in Nat \ {0}
      BY <1>5, PopShape DEF ReturnUnfinished
    <3>3. QED
      BY <1>0, <3>1, <3>2 DEF Below
  <2>2. Top.query \notin Memoised
    <3>1. Top.givesUp => GivesUpOn[Top.query] # {}
      BY <2>1 DEF GivesUpOnCycle, Top
    <3>2. QED
      BY <1>0, <1>5, <3>1 DEF ReturnUnfinished
  <2>3. MemoisedRunning'
    BY <1>0, <1>5, <2>1 DEF ReturnUnfinished, MemoisedRunning, Memoised, Guarded
  <2>4. RepliesMatchStatus'
    BY <1>5, <2>2 DEF ReturnUnfinished, RepliesMatchStatus, Reply
  <2>5. QED
    BY <2>3, <2>4
<1>6. ASSUME NEW t \in Query, t \notin Memoised,
             \A r \in Query : r # t => stat'[r] = stat[r],
             UNCHANGED <<stack, replies, diagnosed>>
      PROVE  (MemoisedRunning /\ RepliesMatchStatus)'
  <2>1. \A r \in Memoised : stat'[r] = stat[r]
    BY <1>0, <1>6
  <2>2. QED
    BY <1>6, <2>1 DEF MemoisedRunning, RepliesMatchStatus, Depth
<1>7. CASE FinishAndContinue
  <2>1. Top.query \in Query /\ Top.query \notin Memoised
    BY <1>0, <1>7, PopShape DEF FinishAndContinue, Frame
  <2>2. \A r \in Query : r # Top.query => stat'[r] = stat[r]
    BY <1>7 DEF FinishAndContinue, TypeOK
  <2>3. QED
    BY <1>6, <1>7, <2>1, <2>2 DEF FinishAndContinue
<1>8. ASSUME NEW q \in Query, Invalidate(q)
      PROVE  (MemoisedRunning /\ RepliesMatchStatus)'
  <2>1. q \notin Memoised /\ \A r \in Query : r # q => stat'[r] = stat[r]
    BY <1>0, <1>8 DEF Invalidate, TypeOK
  <2>2. QED
    BY <1>6, <1>8, <2>1 DEF Invalidate
<1>9. CASE UNCHANGED <<stack, stat, replies, diagnosed>>
  BY <1>9 DEF MemoisedRunning, RepliesMatchStatus, Depth
<1>10. QED
  BY <1>1, <1>2, <1>3, <1>4, <1>5, <1>7, <1>8, <1>9
  DEF Next, Return, vars, AddDeclaration, CompleteRecord

\* Callers of a memoised query are told the same outcome, unless the query
\* was reported to depend on itself.
THEOREM ConsistentAnswersHolds == Spec => []ConsistentAnswers
<1>1. Init => MemoisedRunning /\ RepliesMatchStatus
  BY DEF Init, MemoisedRunning, RepliesMatchStatus, Depth
<1>0. StatusSound => GivesUpOnCycle
  BY DEF StatusSound
<1>2. TypeOK /\ NoReentry /\ GivesUpOnCycle
        /\ MemoisedRunning /\ RepliesMatchStatus /\ [Next]_vars
        => (MemoisedRunning /\ RepliesMatchStatus)'
  BY MemoisedStep
<1>3. RepliesMatchStatus => ConsistentAnswers
  BY DEF RepliesMatchStatus, ConsistentAnswers
<1>4. QED
  BY <1>0, <1>1, <1>2, <1>3, TypeCorrect, NoReentryHolds, StatusSoundHolds, PTL
  DEF Spec

-----------------------------------------------------------------------------
(* The cache is not older than the last declaration.                        *)

\* No query whose refresh condition reads the revision depends on itself.
LookupsAcyclic == \A q \in Query : Refresh[q] = "revision" => ~OnCycle(q)

\* The queries the argument is about: their cached results depend on the
\* revision, and their own bodies do not lead back to them.
AcyclicLookups == {q \in Query : Refresh[q] = "revision" /\ ~OnCycle(q)}

\* The revision an object records is never later than the start of a body
\* that has yet to store its result, nor than the start of the body whose
\* result it keeps.
RevisionSound(q) ==
    /\ recorded[q] <= rev
    /\ asOf[q] <= rev
    /\ \A i \in 1..Depth : stack[i].query = q =>
          recorded[q] <= stack[i].from /\ stack[i].from <= rev
    /\ Outcome(stat[q]) = "Success" => recorded[q] <= asOf[q]

RevisionsSound == \A q \in AcyclicLookups : RevisionSound(q)

\* A query that does not depend on itself is not on the stack when it is
\* asked for.
LEMMA AcyclicNotExecuting ==
    ASSUME TypeOK, StackIsPath, NEW q \in Query, ~OnCycle(q), MayRequest(q)
    PROVE  \A i \in 1..Depth : stack[i].query # q
<1>1. q \notin Cyclic
  BY DEF Cyclic
<1>2. q \notin Executing
  BY <1>1, RequestClosesCycle
<1>3. QED
  BY <1>2 DEF Executing

\* Entering no body leaves the recorded revision of a lookup as it is: an
\* object that is found final or running exists and was not refreshed.
LEMMA FoundIsRecorded ==
    ASSUME TypeOK, NEW q \in Query, NEW r \in Query, Refresh[r] = "revision",
           Seen(q) # "Idle"
    PROVE  Recorded(q)[r] = recorded[r]
<1>1. CASE r = q
  <2>1. ~RefreshDue(q) /\ stat[q] # "Idle"
    BY <1>1 DEF Seen
  <2>2. recorded[q] # -1
    BY <1>1, <2>1 DEF RefreshDue, TypeOK
  <2>3. QED
    BY <1>1, <2>1, <2>2 DEF Recorded, TypeOK
<1>2. CASE r # q
  BY <1>2 DEF Recorded, TypeOK
<1>3. QED
  BY <1>1, <1>2

\* A lookup is dispatched by one of the two schemes that keep its result.
LEMMA LookupKind ==
    ASSUME NEW r \in Query, Refresh[r] = "revision"
    PROVE  Kind[r] \in {"strict", "ignoring"}
BY QueryAssumption DEF Kinds

\* Whatever leaves the stack, or the frames of r on it, as they were or
\* shorter, and r's status, result and revision too, keeps r sound.
LEMMA RevisionKept ==
    ASSUME TypeOK, NEW r \in Query, RevisionSound(r),
           rev' \in Nat, rev <= rev', recorded'[r] = recorded[r],
           asOf'[r] = asOf[r],
           Outcome(stat'[r]) = "Success" => Outcome(stat[r]) = "Success",
           Depth' \in Nat, Depth' <= Depth,
           \A i \in 1..Depth' : /\ stack'[i].query = stack[i].query
                                /\ stack'[i].from = stack[i].from
    PROVE  RevisionSound(r)'
<1>1. /\ Depth \in Nat /\ rev \in Nat
      /\ recorded[r] \in Int /\ asOf[r] \in Int
      /\ \A i \in 1..Depth : stack[i].from \in Nat
  BY FramesTyped DEF TypeOK
<1>2. recorded'[r] <= rev' /\ asOf'[r] <= rev'
  BY <1>1 DEF RevisionSound
<1>3. ASSUME NEW i \in 1..Depth', stack'[i].query = r
      PROVE  recorded'[r] <= stack'[i].from /\ stack'[i].from <= rev'
  BY <1>1, <1>3 DEF RevisionSound
<1>4. Outcome(stat'[r]) = "Success" => recorded'[r] <= asOf'[r]
  BY DEF RevisionSound
<1>5. QED
  BY <1>2, <1>3, <1>4 DEF RevisionSound, Outcome

\* A request answered at once changes no revision.
LEMMA RevisionAnswered ==
    ASSUME TypeOK, NEW q \in Query, NEW r \in Query, Refresh[r] = "revision",
           RevisionSound(r), Seen(q) # "Idle",
           NEW o, stack' = Told(Spent(q), q, o),
           recorded' = Recorded(q), UNCHANGED <<stat, asOf, rev>>
    PROVE  RevisionSound(r)'
<1>1. Depth' = Depth /\ Depth \in Nat /\ rev \in Nat
  BY AnsweredShape, FramesTyped DEF Depth, TypeOK, Below
<1>2. recorded'[r] = recorded[r]
  BY FoundIsRecorded
<1>3. \A i \in 1..Depth' : /\ stack'[i].query = stack[i].query
                           /\ stack'[i].from = stack[i].from
  BY <1>1, AnsweredShape DEF Below
<1>4. QED
  BY <1>1, <1>2, <1>3, RevisionKept

\* A body begins at the present revision, which is not earlier than the one
\* its object records; its object is not final until it ends.
LEMMA RevisionEntered ==
    ASSUME TypeOK, StackIsPath, NEW q \in Query, NEW r \in AcyclicLookups,
           RevisionSound(r), RequestIdle(q)
    PROVE  RevisionSound(r)'
<1>1. rev \in Nat /\ Depth \in Nat
  BY FramesTyped DEF TypeOK
<1>2. stack' = Append(Spent(q), Entered(q)) /\ rev' = rev /\ asOf' = asOf
  BY DEF RequestIdle, Entered
<1>3. /\ Depth' = Depth + 1
      /\ stack'[Depth + 1].query = q
      /\ stack'[Depth + 1].from = Noted(q)
  BY <1>1, <1>2, PushShape DEF Depth, Entered
<1>4. \A i \in 1..Depth : /\ stack'[i].query = stack[i].query
                          /\ stack'[i].from = stack[i].from
  BY <1>2, PushShape
<1>5. r \in Query /\ Refresh[r] = "revision" /\ ~OnCycle(r)
  BY DEF AcyclicLookups
<1>6. recorded[r] \in Int /\ asOf[r] \in Int
  BY <1>5 DEF TypeOK
<1>7. \A i \in 1..Depth' : i \in 1..Depth \/ i = Depth + 1
  BY <1>1, <1>3
<1>8. CASE r = q
  <2>1. \A i \in 1..Depth : stack[i].query # q
    BY <1>5, <1>8, AcyclicNotExecuting DEF RequestIdle
  <2>2. recorded'[r] <= rev
    <3>1. recorded'[r] = rev \/ recorded'[r] = recorded[r]
      BY <1>5, <1>8 DEF RequestIdle, Recorded, Noted, TypeOK
    <3>2. QED
      BY <1>1, <3>1 DEF RevisionSound
  <2>3. Outcome(stat'[r]) # "Success"
    <3>1. stat'[r] = StatusOnEntry(r)
      BY <1>8 DEF RequestIdle, TypeOK
    <3>2. StatusOnEntry(r) \in {"Running", "Idle"}
      BY <1>5, LookupKind DEF StatusOnEntry
    <3>3. QED
      BY <3>1, <3>2 DEF Outcome
  <2>4. ASSUME NEW i \in 1..Depth', stack'[i].query = r
        PROVE  recorded'[r] <= stack'[i].from /\ stack'[i].from <= rev'
    <3>1. i = Depth + 1
      BY <1>4, <1>7, <1>8, <2>1, <2>4
    <3>2. stack'[i].from = rev
      BY <1>3, <1>5, <1>8, <3>1 DEF Noted
    <3>3. rev <= rev'
      BY <1>1, <1>2
    <3>4. QED
      BY <2>2, <3>2, <3>3
  <2>5. asOf'[r] <= rev'
    BY <1>2 DEF RevisionSound
  <2>6. QED
    BY <1>2, <2>2, <2>3, <2>4, <2>5 DEF RevisionSound, Outcome
<1>9. CASE r # q
  <2>1. recorded'[r] = recorded[r] /\ stat'[r] = stat[r]
    BY <1>5, <1>9 DEF RequestIdle, Recorded, TypeOK
  <2>2. ASSUME NEW i \in 1..Depth', stack'[i].query = r
        PROVE  recorded'[r] <= stack'[i].from /\ stack'[i].from <= rev'
    <3>1. i \in 1..Depth
      BY <1>3, <1>7, <1>9, <2>2
    <3>2. QED
      BY <1>2, <1>4, <2>1, <2>2, <3>1 DEF RevisionSound
  <2>3. QED
    BY <1>2, <2>1, <2>2 DEF RevisionSound, Outcome
<1>10. QED
  BY <1>8, <1>9

\* A body that stores its result stores the revision at which it began,
\* which is not earlier than the one its object records.
LEMMA RevisionStored ==
    ASSUME TypeOK, NEW r \in Query, Refresh[r] = "revision", RevisionSound(r),
           stack # <<>>, NEW s \in Final,
           stat' = [stat EXCEPT ![Top.query] = StatusAfter(Top.query, s)],
           asOf' = [asOf EXCEPT ![Top.query] =
                       IF Outcome(s) = "Success" THEN Top.from ELSE @],
           UNCHANGED <<recorded, rev>>,
           NEW q, NEW o, stack' = Told(Popped, q, o) \/ stack' = stack
    PROVE  RevisionSound(r)'
<1>1. /\ rev \in Nat /\ Depth \in Nat \ {0}
      /\ recorded[r] \in Int /\ asOf[r] \in Int
      /\ Top = stack[Depth] /\ Depth \in 1..Depth
      /\ Top.from \in Nat /\ Top.query \in Query
  BY PopShape DEF TypeOK, Frame, Top
<1>2. /\ Depth' \in Nat /\ Depth' <= Depth
      /\ \A i \in 1..Depth' : /\ stack'[i].query = stack[i].query
                               /\ stack'[i].from = stack[i].from
  <2>1. CASE stack' = Told(Popped, q, o)
    <3>1. Below(stack', Depth - 1)
      BY <2>1, ReturnedShape
    <3>2. Depth' = Depth - 1
      BY <3>1 DEF Below, Depth
    <3>3. QED
      BY <1>1, <3>1, <3>2 DEF Below
  <2>2. CASE stack' = stack
    BY <1>1, <2>2 DEF Depth
  <2>3. QED
    BY <2>1, <2>2
<1>3. CASE r # Top.query
  <2>1. stat'[r] = stat[r] /\ asOf'[r] = asOf[r]
    BY <1>3 DEF TypeOK
  <2>2. QED
    BY <1>1, <1>2, <2>1, RevisionKept
<1>4. CASE r = Top.query
  <2>1. recorded[r] <= Top.from /\ Top.from <= rev
    BY <1>1, <1>4 DEF RevisionSound
  <2>2. stat'[r] = s
    BY <1>1, <1>4, LookupKind DEF StatusAfter, TypeOK
  <2>3. asOf'[r] = IF Outcome(s) = "Success" THEN Top.from ELSE asOf[r]
    BY <1>1, <1>4 DEF TypeOK
  <2>4. asOf'[r] <= rev'
    BY <1>1, <2>1, <2>3 DEF RevisionSound
  <2>5. Outcome(stat'[r]) = "Success" => recorded'[r] <= asOf'[r]
    BY <2>1, <2>2, <2>3
  <2>6. ASSUME NEW i \in 1..Depth', stack'[i].query = r
        PROVE  recorded'[r] <= stack'[i].from /\ stack'[i].from <= rev'
    BY <1>1, <1>2, <2>6 DEF RevisionSound
  <2>7. recorded'[r] <= rev'
    BY DEF RevisionSound
  <2>8. QED
    BY <2>4, <2>5, <2>6, <2>7 DEF RevisionSound, Outcome
<1>5. QED
  BY <1>3, <1>4

\* The induction step, one case per action.
LEMMA RevisionsSoundStep ==
    ASSUME TypeOK, StackIsPath, RevisionsSound, [Next]_vars
    PROVE  RevisionsSound'
<1> SUFFICES ASSUME NEW r \in AcyclicLookups PROVE RevisionSound(r)'
  BY DEF RevisionsSound, AcyclicLookups, OnCycle, Holds
<1>0. /\ r \in Query /\ Refresh[r] = "revision" /\ RevisionSound(r)
      /\ rev \in Nat /\ Depth \in Nat
  BY FramesTyped DEF AcyclicLookups, RevisionsSound, TypeOK
<1>1. ASSUME NEW q \in Query, RequestSettled(q)
      PROVE  RevisionSound(r)'
  BY <1>0, <1>1, RevisionAnswered DEF RequestSettled, Final
<1>2. ASSUME NEW q \in Query, RequestCircular(q)
      PROVE  RevisionSound(r)'
  BY <1>0, <1>2, RevisionAnswered DEF RequestCircular
<1>3. ASSUME NEW q \in Query, RequestIdle(q)
      PROVE  RevisionSound(r)'
  BY <1>0, <1>3, RevisionEntered
<1>4. ASSUME NEW s \in Final, FinishAndReturn(s)
      PROVE  RevisionSound(r)'
  BY <1>0, <1>4, RevisionStored DEF FinishAndReturn, MayFinish
<1>5. ASSUME NEW o \in {"Success", "Error"}, ReturnUnfinished(o)
      PROVE  RevisionSound(r)'
  <2>1. /\ Depth' \in Nat /\ Depth' <= Depth
        /\ \A i \in 1..Depth' : /\ stack'[i].query = stack[i].query
                                 /\ stack'[i].from = stack[i].from
    <3>1. Below(stack', Depth - 1)
      BY <1>5, ReturnedShape DEF ReturnUnfinished
    <3>2. Depth \in Nat \ {0}
      BY <1>5, PopShape DEF ReturnUnfinished
    <3>3. QED
      BY <3>1, <3>2 DEF Below, Depth
  <2>2. QED
    BY <1>0, <1>5, <2>1, RevisionKept DEF ReturnUnfinished
<1>6. CASE FinishAndContinue
  <2>1. stack # <<>> /\ Top.query \in Query /\ Top.query \in EarlyFinish
    BY <1>6, PopShape DEF FinishAndContinue, Frame
  <2>2. StatusAfter(Top.query, "Done") = "Done"
    BY <2>1, QueryAssumption DEF StatusAfter
  <2>3. Outcome("Done") = "Success" /\ "Done" \in Final
    BY DEF Outcome, Final
  <2>4. stat' = [stat EXCEPT ![Top.query] = StatusAfter(Top.query, "Done")]
    BY <1>6, <2>2 DEF FinishAndContinue
  <2>5. asOf' = [asOf EXCEPT ![Top.query] =
                    IF Outcome("Done") = "Success" THEN Top.from ELSE @]
    BY <1>6, <2>3 DEF FinishAndContinue
  <2>6. QED
    BY <1>0, <1>6, <2>1, <2>3, <2>4, <2>5, RevisionStored DEF FinishAndContinue
<1>7. ASSUME NEW q \in Query, Invalidate(q)
      PROVE  RevisionSound(r)'
  <2>1. stat'[r] = "Idle" \/ stat'[r] = stat[r]
    BY <1>0, <1>7 DEF Invalidate, TypeOK
  <2>2. Outcome(stat'[r]) = "Success" => Outcome(stat[r]) = "Success"
    BY <2>1 DEF Outcome
  <2>3. QED
    BY <1>0, <1>7, <2>2, RevisionKept DEF Invalidate, Depth
<1>8. CASE UNCHANGED <<stat, recorded, asOf, stack>> /\ rev' \in {rev, rev + 1}
  BY <1>0, <1>8, RevisionKept DEF Depth
<1>9. QED
  BY <1>0, <1>1, <1>2, <1>3, <1>4, <1>5, <1>6, <1>7, <1>8
  DEF Next, Return, vars, AddDeclaration, CompleteRecord

\* A lookup that does not depend on itself is answered from the cache only
\* with a result whose body began after the last declaration was added,
\* whatever cycles there are among the other queries.
THEOREM AcyclicLookupsServeCurrent ==
    Spec => [](\A q \in AcyclicLookups :
                 Outcome(Seen(q)) = "Success" => asOf[q] = rev)
<1> DEFINE Serves == \A q \in AcyclicLookups :
                        Outcome(Seen(q)) = "Success" => asOf[q] = rev
<1>1. Init => StackIsPath /\ RevisionsSound
  BY DEF Init, StackIsPath, RevisionsSound, RevisionSound, AcyclicLookups,
         Outcome, Depth
<1>2. TypeOK /\ StackIsPath /\ RevisionsSound /\ [Next]_vars
        => StackIsPath' /\ RevisionsSound'
  BY StackIsPathStep, RevisionsSoundStep
<1>3. TypeOK /\ RevisionsSound => Serves
  <2> SUFFICES ASSUME TypeOK, RevisionsSound,
                      NEW q \in AcyclicLookups, Outcome(Seen(q)) = "Success"
               PROVE  asOf[q] = rev
    OBVIOUS
  <2>1. q \in Query /\ Refresh[q] = "revision" /\ RevisionSound(q)
    BY DEF AcyclicLookups, RevisionsSound
  <2>2. Seen(q) # "Idle"
    BY DEF Outcome
  <2>3. Seen(q) = stat[q] /\ ~RefreshDue(q)
    BY <2>2 DEF Seen
  <2>4. ~(recorded[q] < rev)
    BY <2>1, <2>2, <2>3 DEF RefreshDue
  <2>5. recorded[q] <= asOf[q] /\ asOf[q] <= rev
    BY <2>1, <2>3 DEF RevisionSound
  <2>6. recorded[q] \in Int /\ asOf[q] \in Int /\ rev \in Int
    BY <2>1 DEF TypeOK
  <2>7. QED
    BY <2>4, <2>5, <2>6
<1> HIDE DEF Serves
<1>4. Spec => []Serves
  BY <1>1, <1>2, <1>3, TypeCorrect, PTL DEF Spec
<1>5. QED
  BY <1>4 DEF Serves

\* If no query with a revision in its refresh condition depends on itself,
\* what the cache answers was computed after the last declaration was added.
THEOREM CacheServesCurrentHolds ==
    ASSUME LookupsAcyclic
    PROVE  Spec => []CacheServesCurrent
<1> DEFINE Serves == \A q \in AcyclicLookups :
                        Outcome(Seen(q)) = "Success" => asOf[q] = rev
<1>1. Serves => CacheServesCurrent
  BY LookupsAcyclic DEF LookupsAcyclic, AcyclicLookups, CacheServesCurrent
<1>2. Spec => []Serves
  BY AcyclicLookupsServeCurrent
<1> HIDE DEF Serves
<1>3. QED
  BY <1>1, <1>2, PTL
=============================================================================
