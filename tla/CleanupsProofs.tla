--------------------------- MODULE CleanupsProofs ---------------------------
(* Theorems about the cleanup stack, for every function of any number of    *)
(* values and any nesting that keeps clear of the constructs in Generous.   *)
EXTENDS Cleanups, SequenceTheorems, TLAPS

-----------------------------------------------------------------------------
(* The cleanup stack under ignoring, popping and pushing.                   *)

\* Values with a cleanup up to depth d that is not ignored.
Below(s, d) == {s[i].val : i \in {j \in 1..Len(s) : j <= d /\ ~s[j].ignored}}

\* Later cleanups are those of later values.
Increasing(s) ==
    \A i, j \in 1..Len(s) : i < j => s[i].val < s[j].val

LEMMA CleanupsTyped ==
    ASSUME NEW s \in Seq(Cleanup), NEW i \in 1..Len(s)
    PROVE  /\ s[i] \in Cleanup
           /\ s[i].val \in Value /\ s[i].val \in Int
           /\ s[i].ignored \in BOOLEAN
  <1>1. s[i] \in Cleanup
    OBVIOUS
  <1>2. s[i].val \in Value /\ s[i].ignored \in BOOLEAN
    BY <1>1 DEF Cleanup
  <1>. QED
    BY <1>1, <1>2 DEF Value

LEMMA OwnedIsAbove ==
    ASSUME NEW s \in Seq(Cleanup), NEW d \in Nat, NEW v
    PROVE  v \in Owned(s, d) <=>
               \E j \in 1..Len(s) : d < j /\ ~s[j].ignored /\ s[j].val = v
  <1>1. Len(s) \in Nat
    OBVIOUS
  <1>2. \A j : j \in d + 1..Len(s) <=> j \in 1..Len(s) /\ d < j
    BY <1>1
  <1>. QED
    BY <1>2 DEF Owned

\* What a stack owns in all is what lies below and what lies above a depth.
LEMMA Split ==
    ASSUME NEW s \in Seq(Cleanup), Increasing(s), NEW d \in Nat
    PROVE  /\ Owned(s, 0) = Owned(s, d) \union Below(s, d)
           /\ Owned(s, d) \intersect Below(s, d) = {}
  <1>1. \A v : v \in Owned(s, 0) <=> v \in Owned(s, d) \/ v \in Below(s, d)
    BY OwnedIsAbove DEF Below
  <1>2. \A i, j \in 1..Len(s) : i # j => s[i].val # s[j].val
    <2>1. \A i \in 1..Len(s) : s[i].val \in Int
      BY CleanupsTyped
    <2>. QED  BY <2>1 DEF Increasing
  <1>3. \A v : ~(v \in Owned(s, d) /\ v \in Below(s, d))
    <2>. SUFFICES ASSUME NEW v, v \in Owned(s, d), v \in Below(s, d) PROVE FALSE
      OBVIOUS
    <2>1. PICK j \in 1..Len(s) : d < j /\ s[j].val = v
      BY OwnedIsAbove
    <2>2. PICK i \in 1..Len(s) : i <= d /\ s[i].val = v
      BY DEF Below
    <2>. QED  BY <1>2, <2>1, <2>2
  <1>. QED  BY <1>1, <1>3

\* Ignoring values leaves depths and values and takes the values from what
\* is owned.
LEMMA IgnoringShape ==
    ASSUME NEW s \in Seq(Cleanup), NEW V
    PROVE  /\ Ignoring(s, V) \in Seq(Cleanup)
           /\ Len(Ignoring(s, V)) = Len(s)
           /\ \A i \in 1..Len(s) :
                 /\ Ignoring(s, V)[i].val = s[i].val
                 /\ Ignoring(s, V)[i].ignored <=> s[i].ignored \/ s[i].val \in V
           /\ Increasing(s) => Increasing(Ignoring(s, V))
  <1>1. Len(s) \in Nat /\ \A i \in 1..Len(s) : s[i] \in Cleanup
    OBVIOUS
  <1>2. \A i \in 1..Len(s) :
            /\ [s[i] EXCEPT !.ignored = @ \/ s[i].val \in V] \in Cleanup
            /\ [s[i] EXCEPT !.ignored = @ \/ s[i].val \in V].val = s[i].val
    BY <1>1 DEF Cleanup
  <1>3. \A i \in 1..Len(s) :
            [s[i] EXCEPT !.ignored = @ \/ s[i].val \in V].ignored
               = (s[i].ignored \/ s[i].val \in V)
    BY <1>1 DEF Cleanup
  <1>4. Ignoring(s, V) \in [1..Len(s) -> Cleanup]
    BY <1>2 DEF Ignoring
  <1>5. Ignoring(s, V) \in Seq(Cleanup) /\ Len(Ignoring(s, V)) = Len(s)
    BY <1>1, <1>4
  <1>6. \A i \in 1..Len(s) :
            Ignoring(s, V)[i] = [s[i] EXCEPT !.ignored = @ \/ s[i].val \in V]
    BY DEF Ignoring
  <1>7. \A i \in 1..Len(s) :
            /\ Ignoring(s, V)[i].val = s[i].val
            /\ Ignoring(s, V)[i].ignored <=> s[i].ignored \/ s[i].val \in V
    BY <1>2, <1>3, <1>6
  <1>. QED
    BY <1>5, <1>7 DEF Increasing

LEMMA IgnoringOwned ==
    ASSUME NEW s \in Seq(Cleanup), NEW V, NEW d \in Nat
    PROVE  /\ Owned(Ignoring(s, V), d) = Owned(s, d) \ V
           /\ Below(Ignoring(s, V), d) = Below(s, d) \ V
  <1>1. \A v : v \in Owned(Ignoring(s, V), d) <=> v \in Owned(s, d) \ V
    BY IgnoringShape, OwnedIsAbove
  <1>2. \A v : v \in Below(Ignoring(s, V), d) <=> v \in Below(s, d) \ V
    BY IgnoringShape DEF Below
  <1>. QED  BY <1>1, <1>2

LEMMA PoppedShape ==
    ASSUME NEW s \in Seq(Cleanup), NEW d \in 0..Len(s)
    PROVE  /\ Popped(s, d) \in Seq(Cleanup)
           /\ Len(Popped(s, d)) = d
           /\ \A i \in 1..d : Popped(s, d)[i] = s[i]
           /\ Increasing(s) => Increasing(Popped(s, d))
           /\ Owned(Popped(s, d), 0) = Below(s, d)
           /\ \A e \in 0..d : Below(Popped(s, d), e) = Below(s, e)
  <1>1. /\ Popped(s, d) \in Seq(Cleanup)
        /\ Len(Popped(s, d)) = d
        /\ \A i \in 1..d : Popped(s, d)[i] = s[i]
    BY SubSeqProperties DEF Popped
  <1>2. Increasing(s) => Increasing(Popped(s, d))
    BY <1>1 DEF Increasing
  <1>3. \A v : v \in Owned(Popped(s, d), 0) <=> v \in Below(s, d)
    BY <1>1, OwnedIsAbove DEF Below
  <1>4. \A e \in 0..d : \A v : v \in Below(Popped(s, d), e) <=> v \in Below(s, e)
    BY <1>1 DEF Below
  <1>5. \A e \in 0..d : Below(Popped(s, d), e) = Below(s, e)
    BY <1>4
  <1>6. Owned(Popped(s, d), 0) = Below(s, d)
    BY <1>3
  <1>. QED  BY <1>1, <1>2, <1>5, <1>6

LEMMA NothingOwned ==
    ASSUME NEW s \in Seq(Cleanup), Owned(s, 0) = {}, NEW d
    PROVE  Below(s, d) = {}
  <1>1. ASSUME NEW j \in 1..Len(s), ~s[j].ignored PROVE FALSE
    <2>1. 0 < j
      OBVIOUS
    <2>2. s[j].val \in Owned(s, 0)
      BY <1>1, <2>1, OwnedIsAbove
    <2>. QED  BY <2>2
  <1>. QED
    BY <1>1 DEF Below

LEMMA PushedShape ==
    ASSUME NEW s \in Seq(Cleanup), NEW v \in Value
    PROVE  /\ Pushed(s, v) \in Seq(Cleanup)
           /\ Len(Pushed(s, v)) = Len(s) + 1
           /\ \A i \in 1..Len(s) : Pushed(s, v)[i] = s[i]
           /\ Pushed(s, v)[Len(s) + 1].val = v
           /\ (Increasing(s) /\ \A i \in 1..Len(s) : s[i].val < v) => Increasing(Pushed(s, v))
           /\ Owned(Pushed(s, v), 0) = Owned(s, 0) \union {v}
           /\ \A e \in 0..Len(s) : Below(Pushed(s, v), e) = Below(s, e)
  <1>1. [val |-> v, ignored |-> FALSE] \in Cleanup
    BY DEF Cleanup
  <1>2. /\ Pushed(s, v) \in Seq(Cleanup)
        /\ Len(Pushed(s, v)) = Len(s) + 1
        /\ \A i \in 1..Len(s) : Pushed(s, v)[i] = s[i]
        /\ Pushed(s, v)[Len(s) + 1] = [val |-> v, ignored |-> FALSE]
    BY <1>1, AppendProperties DEF Pushed
  <1>3. \A u : u \in Owned(Pushed(s, v), 0) <=> u \in Owned(s, 0) \/ u = v
    <2>1. \A j : j \in 1..Len(s) + 1 <=> j \in 1..Len(s) \/ j = Len(s) + 1
      OBVIOUS
    <2>. QED  BY <1>2, <2>1, OwnedIsAbove
  <1>4. \A e \in 0..Len(s) : \A u : u \in Below(Pushed(s, v), e) <=> u \in Below(s, e)
    BY <1>2 DEF Below
  <1>5. \A e \in 0..Len(s) : Below(Pushed(s, v), e) = Below(s, e)
    BY <1>4
  <1>6. Owned(Pushed(s, v), 0) = Owned(s, 0) \union {v}
    BY <1>3
  <1>7. (Increasing(s) /\ \A i \in 1..Len(s) : s[i].val < v) => Increasing(Pushed(s, v))
    <2>. SUFFICES ASSUME Increasing(s), \A i \in 1..Len(s) : s[i].val < v,
                         NEW i \in 1..Len(s) + 1, NEW j \in 1..Len(s) + 1, i < j
                  PROVE  Pushed(s, v)[i].val < Pushed(s, v)[j].val
      BY <1>2 DEF Increasing
    <2>1. i \in 1..Len(s) /\ Pushed(s, v)[i] = s[i]
      BY <1>2
    <2>2. CASE j \in 1..Len(s)
      BY <1>2, <2>1, <2>2 DEF Increasing
    <2>3. CASE j = Len(s) + 1
      BY <1>2, <2>1, <2>3
    <2>. QED  BY <2>2, <2>3
  <1>. QED  BY <1>2, <1>5, <1>6, <1>7

-----------------------------------------------------------------------------
(* The constructs that are open.                                            *)

LEMMA FramesTyped ==
    ASSUME TypeOK
    PROVE  /\ n \in Nat /\ n <= MaxOpen /\ MaxOpen \in Nat /\ made \in Nat
           /\ MaxValues \in Nat
           /\ Len(stack) \in Nat
           /\ \A i \in 1..n : /\ open[i] \in Construct
                              /\ open[i].kind \in Kinds
                              /\ open[i].depth \in Nat
                              /\ open[i].entry \subseteq Value
           /\ n > 0 => n \in 1..n /\ Top = open[n]
  <1>1. open \in Seq(Construct) /\ n <= MaxOpen /\ stack \in Seq(Cleanup)
        /\ made \in 0..MaxValues
    BY DEF TypeOK
  <1>2. n \in Nat /\ \A i \in 1..n : open[i] \in Construct
    BY <1>1 DEF n
  <1>3. \A i \in 1..n : /\ open[i].kind \in Kinds /\ open[i].depth \in Nat
                        /\ open[i].entry \subseteq Value
    BY <1>2 DEF Construct
  <1>4. Len(stack) \in Nat
    BY <1>1
  <1>. QED  BY <1>1, <1>2, <1>3, <1>4, CleanupsAssumption DEF Top

LEMMA LeaveShape ==
    ASSUME TypeOK, NEW m \in 0..n
    PROVE  /\ Leave(m) \in Seq(Construct)
           /\ Len(Leave(m)) = n - m
           /\ \A i \in 1..n - m : Leave(m)[i] = open[i]
  <1>1. open \in Seq(Construct) /\ n \in Nat
    BY FramesTyped DEF TypeOK
  <1>. QED
    BY <1>1, SubSeqProperties DEF Leave, n

LEMMA EnterOne ==
    ASSUME TypeOK, NEW m \in 0..n, NEW f \in Construct
    PROVE  /\ Leave(m) \o <<f>> \in Seq(Construct)
           /\ Len(Leave(m) \o <<f>>) = n - m + 1
           /\ \A i \in 1..n - m : (Leave(m) \o <<f>>)[i] = open[i]
           /\ (Leave(m) \o <<f>>)[n - m + 1] = f
  <1>1. /\ Leave(m) \in Seq(Construct) /\ Len(Leave(m)) = n - m
        /\ \A i \in 1..n - m : Leave(m)[i] = open[i]
    BY LeaveShape
  <1>2. n \in Nat
    BY FramesTyped
  <1>3. <<f>> \in Seq(Construct) /\ Len(<<f>>) = 1 /\ <<f>>[1] = f
    OBVIOUS
  <1>. QED
    BY <1>1, <1>2, <1>3, ConcatProperties

LEMMA EnterTwo ==
    ASSUME TypeOK, NEW m \in 0..n, NEW fs \in Seq(Construct), Len(fs) = 2
    PROVE  /\ Leave(m) \o fs \in Seq(Construct)
           /\ Len(Leave(m) \o fs) = n - m + 2
           /\ \A i \in 1..n - m : (Leave(m) \o fs)[i] = open[i]
           /\ (Leave(m) \o fs)[n - m + 1] = fs[1]
           /\ (Leave(m) \o fs)[n - m + 2] = fs[2]
  <1>1. /\ Leave(m) \in Seq(Construct) /\ Len(Leave(m)) = n - m
        /\ \A i \in 1..n - m : Leave(m)[i] = open[i]
    BY LeaveShape
  <1>2. n \in Nat
    BY FramesTyped
  <1>3. /\ Leave(m) \o fs \in Seq(Construct)
        /\ Len(Leave(m) \o fs) = (n - m) + 2
        /\ \A i \in 1..(n - m) + 2 :
              (Leave(m) \o fs)[i] = IF i <= n - m THEN Leave(m)[i] ELSE fs[i - (n - m)]
    <2>. DEFINE s == Leave(m)
    <2>1. s \in Seq(Construct) /\ Len(s) = n - m
      BY <1>1
    <2>. HIDE DEF s
    <2>2. /\ s \o fs \in Seq(Construct)
          /\ Len(s \o fs) = Len(s) + Len(fs)
          /\ \A i \in 1..Len(s) + Len(fs) :
                (s \o fs)[i] = IF i <= Len(s) THEN s[i] ELSE fs[i - Len(s)]
      BY <2>1, ConcatProperties
    <2>. QED  BY <2>1, <2>2 DEF s
  <1>4. \A i \in 1..n - m : (Leave(m) \o fs)[i] = open[i]
    BY <1>1, <1>2, <1>3
  <1>5. (Leave(m) \o fs)[n - m + 1] = fs[1] /\ (Leave(m) \o fs)[n - m + 2] = fs[2]
    <2>. DEFINE k == n - m
    <2>1. k \in Nat
      BY <1>2
    <2>2. \A i \in 1..k + 2 : (Leave(m) \o fs)[i] = IF i <= k THEN Leave(m)[i] ELSE fs[i - k]
      BY <1>3
    <2>. HIDE DEF k
    <2>3. (k + 1) - k = 1 /\ (k + 2) - k = 2 /\ k + 1 \in 1..k + 2 /\ k + 2 \in 1..k + 2
          /\ ~(k + 1 <= k) /\ ~(k + 2 <= k)
      BY <2>1
    <2>4. (Leave(m) \o fs)[k + 1] = fs[1] /\ (Leave(m) \o fs)[k + 2] = fs[2]
      BY <2>2, <2>3
    <2>. QED  BY <2>4 DEF k
  <1>. QED
    BY <1>3, <1>4, <1>5

LEMMA FrameTyped ==
    ASSUME TypeOK, NEW kind \in Kinds
    PROVE  /\ Frame(kind) \in Construct
           /\ Frame(kind).kind = kind /\ Frame(kind).depth = Len(stack)
           /\ [Frame(kind) EXCEPT !.entry = alive] \in Construct
           /\ [Frame(kind) EXCEPT !.entry = alive].kind = kind
           /\ [Frame(kind) EXCEPT !.entry = alive].depth = Len(stack)
           /\ [Frame(kind) EXCEPT !.entry = alive].entry = alive
  <1>1. Len(stack) \in Nat /\ alive \subseteq Value
    BY FramesTyped DEF TypeOK, Value
  <1>. QED
    BY <1>1 DEF Frame, Construct

LEMMA KindChanged ==
    ASSUME TypeOK, n > 0, NEW kind \in Kinds
    PROVE  /\ [Top EXCEPT !.kind = kind] \in Construct
           /\ [Top EXCEPT !.kind = kind].kind = kind
           /\ [Top EXCEPT !.kind = kind].depth = Top.depth
  <1>1. Top \in Construct
    BY FramesTyped
  <1>. QED
    BY <1>1 DEF Construct

-----------------------------------------------------------------------------
(* The invariant.                                                           *)

\* Constructs that own no cleanups of their own once their parts are done.
Tight == {"if", "else", "while", "catch"}

\* What may be around a construct.
Around(kind) ==
    IF kind = "function" THEN {}
    ELSE IF kind = "scope" THEN {"function"} \union Tight
    ELSE IF kind = "call" THEN Exprs
    ELSE IF kind = "ifCond" THEN {"if"}
    ELSE IF kind = "whileCond" THEN {"while"}
    ELSE IF kind \in {"return", "throw"} THEN {"scope"}
    ELSE {"scope", "do"}

\* The constructs that have a block of this name.
WaitsAt(block) ==
    IF block = "else" THEN {"if"}
    ELSE IF block = "merge" THEN Tight
    ELSE IF block = "continue" THEN {"while"}
    ELSE IF block = "lpad" THEN {"do"}
    ELSE {"catch"}

StackInv ==
    /\ Increasing(stack)
    /\ \A i \in 1..Len(stack) : stack[i].val <= made

OpenInv ==
    /\ n > 0 => open[1].kind = "function" /\ open[1].depth = 0
    /\ \A i \in 2..n : open[i - 1].kind \in Around(open[i].kind)
    /\ \A i, j \in 1..n : i < j => open[i].depth <= open[j].depth
    /\ \A i \in 1..n : open[i].depth <= Len(stack)
    /\ \A i \in 2..n : open[i - 1].kind \in Tight => open[i].depth = open[i - 1].depth
    /\ (n > 0 /\ open[n].kind \in Tight) => open[n].depth = Len(stack)
    /\ \A i \in 1..n : open[i].kind = "throw" => Below(stack, open[i].depth) = {}

TermInv ==
    /\ term # None => n > 0 /\ open[n].kind \notin Exprs
    /\ term \in {Caller, Unwind} => open[n].kind # "do"
    /\ term = Unwind => Owned(stack, 0) = {}
    /\ term \in Block =>
          /\ term[1] \in {"merge", "continue"} /\ term[2] \in 1..n
          /\ open[term[2]].kind = "while" /\ open[term[2]].depth = Len(stack)

\* What is alive is what the cleanups say, at the place where the execution
\* is or will go on.
AliveInv ==
    /\ Runs => n > 0 /\ alive = IF term \in {Caller, Unwind} THEN {} ELSE Owned(stack, 0)
    /\ run \in Block =>
          /\ run[2] \in 1..n /\ open[run[2]].kind \in WaitsAt(run[1])
          /\ alive = Below(stack, open[run[2]].depth)
          /\ (run[1] = "uncaught" /\ \A i \in 1..run[2] : open[i].kind # "do") => alive = {}
    /\ run \in {Caller, Unwind} => alive = {}

EntryInv ==
    \A i \in 1..n :
        (open[i].kind = "while" /\ (Runs \/ run[2] >= i)) =>
            open[i].entry = Below(stack, open[i].depth)

IInv ==
    /\ TypeOK
    /\ StackInv
    /\ OpenInv
    /\ TermInv
    /\ AliveInv
    /\ EntryInv
    /\ twice = {}

-----------------------------------------------------------------------------
(* What a step leaves of the constructs and of the cleanups they hold.      *)

Forks == {"if", "else", "while", "do", "catch"}

\* The first m constructs stay, with what lies below those that have blocks.
Kept(m) ==
    /\ m \in 0..n /\ m <= n'
    /\ \A i \in 1..m :
          /\ open'[i] = open[i]
          /\ open[i].kind \in Forks => Below(stack', open[i].depth) = Below(stack, open[i].depth)

LEMMA BlockFacts ==
    /\ Here # None /\ Here # Caller /\ Here # Unwind
    /\ None # Caller /\ None # Unwind /\ Caller # Unwind
    /\ Here \notin Block /\ None \notin Block /\ Caller \notin Block /\ Unwind \notin Block
    /\ Here[2] = 0 /\ Caller[2] = 0 /\ Unwind[2] = 0
    /\ \A b \in Block : /\ b = <<b[1], b[2]>> /\ b[2] \in 1..MaxOpen
                        /\ b[1] \in {"else", "merge", "continue", "lpad", "uncaught"}
  BY DEF Here, None, Caller, Unwind, Block

LEMMA RunCases ==
    ASSUME TypeOK
    PROVE  /\ run \in Block \/ run = Here \/ run = Caller \/ run = Unwind
           /\ term \in Block \/ term = None \/ term = Caller \/ term = Unwind
           /\ run \notin Block => run[2] = 0
           /\ run \in Block => ~Runs /\ run[2] \in 1..MaxOpen
           /\ run \in {Caller, Unwind} => ~Runs
  BY BlockFacts DEF TypeOK, Runs

LEMMA OpenStep ==
    ASSUME TypeOK, TypeOK', OpenInv, NEW m \in 1..n, m <= n',
           \A i \in 1..m : /\ open'[i] = open[i]
                           /\ Below(stack', open[i].depth) \subseteq Below(stack, open[i].depth),
           open[m].depth <= Len(stack'),
           open[m].kind \in Tight => open[m].depth = Len(stack'),
           \A i \in m + 1..n' : /\ open'[i].depth = Len(stack')
                                /\ open'[i - 1].kind \in Around(open'[i].kind)
                                /\ open'[i].kind = "throw" => Owned(stack', 0) = {}
    PROVE  OpenInv'
  <1>n. n \in Nat /\ n' \in Nat /\ Len(stack') \in Nat /\ Len(stack) \in Nat
    BY FramesTyped DEF TypeOK, n
  <1>d. \A i \in 1..n : open[i].depth \in Nat
    BY FramesTyped
  <1>o. \A i \in 1..m : i \in 1..n /\ open'[i] = open[i]
    BY <1>n
  <1>s. \A i \in 1..n' : i \in 1..m \/ i \in m + 1..n'
    BY <1>n
  <1>m. \A i \in 1..m : open[i].depth <= open[m].depth
    BY <1>n, <1>d DEF OpenInv
  <1>1. n' > 0 => open'[1].kind = "function" /\ open'[1].depth = 0
    BY <1>n, <1>o DEF OpenInv
  <1>2. \A i \in 2..n' : open'[i - 1].kind \in Around(open'[i].kind)
    <2>. SUFFICES ASSUME NEW i \in 2..n' PROVE open'[i - 1].kind \in Around(open'[i].kind)
      OBVIOUS
    <2>1. CASE i <= m
      <3>1. i \in 2..n /\ i \in 1..m /\ i - 1 \in 1..m
        BY <1>n, <2>1
      <3>. QED  BY <3>1 DEF OpenInv
    <2>2. CASE i > m
      BY <1>n, <2>2
    <2>. QED  BY <1>n, <2>1, <2>2
  <1>3. \A i, j \in 1..n' : i < j => open'[i].depth <= open'[j].depth
    <2>. SUFFICES ASSUME NEW i \in 1..n', NEW j \in 1..n', i < j
                  PROVE  open'[i].depth <= open'[j].depth
      OBVIOUS
    <2>1. CASE j <= m
      <3>1. i \in 1..m /\ j \in 1..m
        BY <1>n, <2>1
      <3>. QED  BY <3>1, <1>o DEF OpenInv
    <2>2. CASE i <= m /\ j > m
      <3>1. i \in 1..m /\ j \in m + 1..n'
        BY <1>n, <2>2
      <3>2. open'[i].depth = open[i].depth /\ open'[j].depth = Len(stack')
        BY <3>1, <1>o
      <3>3. open[i].depth <= open[m].depth
        BY <3>1, <1>m
      <3>4. open[i].depth \in Nat /\ open[m].depth \in Nat
        BY <3>1, <1>d, <1>o
      <3>. QED  BY <3>2, <3>3, <3>4, <1>n
    <2>3. CASE i > m
      BY <1>n, <2>3
    <2>. QED  BY <1>n, <2>1, <2>2, <2>3
  <1>4. \A i \in 1..n' : open'[i].depth <= Len(stack')
    BY <1>n, <1>d, <1>m, <1>o, <1>s
  <1>5. \A i \in 2..n' : open'[i - 1].kind \in Tight => open'[i].depth = open'[i - 1].depth
    <2>. SUFFICES ASSUME NEW i \in 2..n', open'[i - 1].kind \in Tight
                  PROVE  open'[i].depth = open'[i - 1].depth
      OBVIOUS
    <2>1. CASE i <= m
      <3>1. i \in 2..n /\ i \in 1..m /\ i - 1 \in 1..m
        BY <1>n, <2>1
      <3>. QED  BY <3>1 DEF OpenInv
    <2>2. CASE i = m + 1
      BY <1>n, <1>o, <2>2
    <2>3. CASE i > m + 1
      BY <1>n, <2>3
    <2>. QED  BY <1>n, <2>1, <2>2, <2>3
  <1>6. (n' > 0 /\ open'[n'].kind \in Tight) => open'[n'].depth = Len(stack')
    BY <1>n, <1>o
  <1>7. \A i \in 1..n' : open'[i].kind = "throw" => Below(stack', open'[i].depth) = {}
    <2>1. \A i \in 1..m : open'[i].kind = "throw" => Below(stack', open'[i].depth) = {}
      BY <1>o DEF OpenInv
    <2>2. Owned(stack', 0) = {} => Below(stack', Len(stack')) = {}
      <3>1. stack' \in Seq(Cleanup)
        BY DEF TypeOK
      <3>. QED  BY <3>1, NothingOwned
    <2>3. \A i \in m + 1..n' : open'[i].kind = "throw" => Below(stack', open'[i].depth) = {}
      BY <2>2
    <2>. QED  BY <1>s, <2>1, <2>3
  <1>. QED
    BY <1>1, <1>2, <1>3, <1>4, <1>5, <1>6, <1>7 DEF OpenInv, n

\* Where the execution does not come back from outside of a loop, what the
\* loop found is still there.
LEMMA EntryStep ==
    ASSUME TypeOK, TypeOK', EntryInv, NEW m, Kept(m),
           Runs \/ run' = run \/ (run \in Block /\ run[2] = n),
           \A i \in m + 1..n' :
               (open'[i].kind = "while" /\ (Runs' \/ run'[2] >= i)) =>
                   open'[i].entry = Below(stack', open'[i].depth)
    PROVE  EntryInv'
  <1>n. n \in Nat /\ n' \in Nat /\ m \in Nat /\ m <= n
    BY FramesTyped DEF TypeOK, n, Kept
  <1>. SUFFICES ASSUME NEW i \in 1..n', open'[i].kind = "while", Runs' \/ run'[2] >= i
                PROVE  open'[i].entry = Below(stack', open'[i].depth)
    BY DEF EntryInv, n
  <1>1. CASE i <= m
    <2>1. i \in 1..n /\ open'[i] = open[i]
          /\ Below(stack', open[i].depth) = Below(stack, open[i].depth)
      BY <1>n, <1>1 DEF Kept, Forks
    <2>2. Runs \/ run[2] >= i
      BY <1>n, <2>1, RunCases DEF Runs
    <2>. QED  BY <2>1, <2>2 DEF EntryInv
  <1>2. CASE i > m
    BY <1>n, <1>2
  <1>. QED  BY <1>n, <1>1, <1>2

\* An execution that waits or has left is not touched by a step that leaves
\* its block alone.
LEMMA WaitStep ==
    ASSUME TypeOK, TypeOK', AliveInv, NEW m, Kept(m),
           m = n \/ (m = n - 1 /\ open[n].kind \notin Forks),
           ~Runs, run' = run, alive' = alive
    PROVE  AliveInv'
  <1>n. n \in Nat /\ n' \in Nat /\ m \in Nat /\ m <= n /\ m <= n'
    BY FramesTyped DEF TypeOK, n, Kept
  <1>1. ~Runs' /\ (run \in {Caller, Unwind} => alive = {})
    BY DEF Runs, AliveInv
  <1>2. ASSUME run \in Block
        PROVE  /\ run[2] \in 1..n' /\ open'[run[2]].kind \in WaitsAt(run[1])
               /\ alive = Below(stack', open'[run[2]].depth)
               /\ (run[1] = "uncaught" /\ \A i \in 1..run[2] : open'[i].kind # "do") => alive = {}
    <2>1. /\ run[2] \in 1..n /\ open[run[2]].kind \in WaitsAt(run[1])
          /\ alive = Below(stack, open[run[2]].depth)
          /\ (run[1] = "uncaught" /\ \A i \in 1..run[2] : open[i].kind # "do") => alive = {}
      BY <1>2 DEF AliveInv
    <2>2. WaitsAt(run[1]) \subseteq Forks
      BY DEF WaitsAt, Forks, Tight
    <2>3. run[2] \in 1..m
      BY <1>n, <2>1, <2>2
    <2>4. open'[run[2]] = open[run[2]]
          /\ Below(stack', open[run[2]].depth) = Below(stack, open[run[2]].depth)
      BY <2>1, <2>2, <2>3 DEF Kept
    <2>5. \A i \in 1..run[2] : open'[i] = open[i]
      BY <1>n, <2>3 DEF Kept
    <2>6. run[2] \in 1..n'
      BY <1>n, <2>3
    <2>7. (run[1] = "uncaught" /\ \A i \in 1..run[2] : open'[i].kind # "do") => alive = {}
      BY <2>1, <2>5
    <2>. QED  BY <2>1, <2>4, <2>6, <2>7
  <1>. QED
    BY <1>1, <1>2 DEF AliveInv, n

-----------------------------------------------------------------------------
(* What a step makes of the cleanups.                                       *)

\* The stack s is that of the state, but for the cleanups of out.
Like(s, out) ==
    /\ s \in Seq(Cleanup)
    /\ Len(s) = Len(stack)
    /\ Increasing(s)
    /\ \A i \in 1..Len(s) : s[i].val = stack[i].val
    /\ \A d \in Nat : /\ Owned(s, d) = Owned(stack, d) \ out
                      /\ Below(s, d) = Below(stack, d) \ out

LEMMA LikeStack ==
    ASSUME TypeOK, StackInv
    PROVE  Like(stack, {})
  BY DEF TypeOK, StackInv, Like

LEMMA LikeIgnoring ==
    ASSUME TypeOK, StackInv, NEW out
    PROVE  Like(Ignoring(stack, out), out)
  <1>1. stack \in Seq(Cleanup) /\ Increasing(stack)
    BY DEF TypeOK, StackInv
  <1>. QED
    BY <1>1, IgnoringShape, IgnoringOwned DEF Like

\* The cleanups above a depth are gone and that of a result may be new.
LEMMA ResultStep ==
    ASSUME TypeOK, StackInv, NEW s, NEW out, Like(s, out),
           NEW d \in 0..Len(stack), NEW value \in BOOLEAN,
           Result(Popped(s, d), value)
    PROVE  /\ stack' \in Seq(Cleanup)
           /\ made' \in made..MaxValues
           /\ StackInv'
           /\ Len(stack') = IF value THEN d + 1 ELSE d
           /\ Owned(stack', 0) = (Below(stack, d) \ out) \union (made + 1..made')
           /\ \A e \in 0..d : Below(stack', e) = Below(stack, e) \ out
  <1>n. made \in 0..MaxValues /\ MaxValues \in Nat /\ Len(stack) \in Nat
    BY FramesTyped DEF TypeOK
  <1>l. /\ s \in Seq(Cleanup) /\ Len(s) = Len(stack) /\ Increasing(s)
        /\ \A i \in 1..Len(s) : s[i].val = stack[i].val
        /\ \A e \in Nat : Below(s, e) = Below(stack, e) \ out
    BY DEF Like
  <1>p. /\ Popped(s, d) \in Seq(Cleanup)
        /\ Len(Popped(s, d)) = d
        /\ \A i \in 1..d : Popped(s, d)[i] = s[i]
        /\ Increasing(Popped(s, d))
        /\ Owned(Popped(s, d), 0) = Below(stack, d) \ out
        /\ \A e \in 0..d : Below(Popped(s, d), e) = Below(stack, e) \ out
    BY <1>n, <1>l, PoppedShape
  <1>m. \A i \in 1..d : Popped(s, d)[i].val \in Int /\ Popped(s, d)[i].val <= made
    <2>1. \A i \in 1..d : Popped(s, d)[i].val \in Int
      BY <1>p, CleanupsTyped
    <2>2. \A i \in 1..d : i \in 1..Len(stack) /\ Popped(s, d)[i].val = stack[i].val
      BY <1>n, <1>l, <1>p
    <2>. QED  BY <2>1, <2>2 DEF StackInv
  <1>1. CASE ~value
    <2>1. made' = made /\ stack' = Popped(s, d)
      BY <1>1 DEF Result
    <2>2. made + 1..made' = {}
      BY <1>n, <2>1
    <2>3. StackInv'
      BY <1>p, <1>m, <2>1 DEF StackInv
    <2>. QED  BY <1>1, <1>n, <1>p, <2>1, <2>2, <2>3
  <1>2. CASE value
    <2>1. made < MaxValues /\ made' = made + 1 /\ stack' = Pushed(Popped(s, d), made + 1)
      BY <1>2 DEF Result
    <2>2. made + 1 \in Value /\ made + 1..made' = {made + 1}
      BY <1>n, <2>1 DEF Value
    <2>3. /\ stack' \in Seq(Cleanup)
          /\ Len(stack') = d + 1
          /\ \A i \in 1..d : stack'[i] = Popped(s, d)[i]
          /\ stack'[d + 1].val = made + 1
          /\ Increasing(stack')
          /\ Owned(stack', 0) = Owned(Popped(s, d), 0) \union {made + 1}
          /\ \A e \in 0..d : Below(stack', e) = Below(Popped(s, d), e)
      <3>1. \A i \in 1..d : Popped(s, d)[i].val < made + 1
        BY <1>n, <1>m
      <3>. DEFINE P == Popped(s, d)
      <3>2. /\ P \in Seq(Cleanup) /\ Len(P) = d /\ Increasing(P)
            /\ \A i \in 1..Len(P) : P[i].val < made + 1
        BY <1>p, <3>1
      <3>3. stack' = Pushed(P, made + 1)
        BY <2>1
      <3>. HIDE DEF P
      <3>4. /\ Pushed(P, made + 1) \in Seq(Cleanup)
            /\ Len(Pushed(P, made + 1)) = Len(P) + 1
            /\ \A i \in 1..Len(P) : Pushed(P, made + 1)[i] = P[i]
            /\ Pushed(P, made + 1)[Len(P) + 1].val = made + 1
            /\ Increasing(Pushed(P, made + 1))
            /\ Owned(Pushed(P, made + 1), 0) = Owned(P, 0) \union {made + 1}
            /\ \A e \in 0..Len(P) : Below(Pushed(P, made + 1), e) = Below(P, e)
        BY <2>2, <3>2, PushedShape
      <3>5. /\ stack' \in Seq(Cleanup)
            /\ Len(stack') = d + 1
            /\ \A i \in 1..d : stack'[i] = P[i]
            /\ stack'[d + 1].val = made + 1
            /\ Increasing(stack')
            /\ Owned(stack', 0) = Owned(P, 0) \union {made + 1}
            /\ \A e \in 0..d : Below(stack', e) = Below(P, e)
        BY <3>2, <3>3, <3>4
      <3>. QED  BY <3>5 DEF P
    <2>4. \A i \in 1..d + 1 : stack'[i].val <= made'
      <3>. SUFFICES ASSUME NEW i \in 1..d + 1 PROVE stack'[i].val <= made'
        OBVIOUS
      <3>1. CASE i = d + 1
        BY <1>n, <2>1, <2>3, <3>1
      <3>2. CASE i \in 1..d
        BY <1>n, <1>m, <2>1, <2>3, <3>2
      <3>. QED  BY <1>n, <3>1, <3>2
    <2>5. StackInv'
      BY <2>3, <2>4 DEF StackInv
    <2>. QED  BY <1>2, <1>n, <1>p, <2>1, <2>2, <2>3, <2>5
  <1>. QED  BY <1>1, <1>2

\* What lies below a depth lies below a greater one.
LEMMA BelowGrows ==
    ASSUME NEW s \in Seq(Cleanup), NEW d \in Nat, NEW e \in Nat, d <= e
    PROVE  /\ Below(s, d) \subseteq Below(s, e)
           /\ Below(s, e) \subseteq Owned(s, 0)
           /\ Owned(s, e) \subseteq Owned(s, d)
           /\ Len(s) <= e => Below(s, e) = Owned(s, 0) /\ Owned(s, e) = {}
  <1>1. Below(s, d) \subseteq Below(s, e)
    BY DEF Below
  <1>2. \A v : v \in Below(s, e) => v \in Owned(s, 0)
    BY OwnedIsAbove DEF Below
  <1>3. \A v : v \in Owned(s, e) => v \in Owned(s, d)
    BY OwnedIsAbove
  <1>4. ASSUME Len(s) <= e PROVE \A v : (v \in Below(s, e) <=> v \in Owned(s, 0)) /\ v \notin Owned(s, e)
    BY <1>4, OwnedIsAbove DEF Below
  <1>. QED  BY <1>1, <1>2, <1>3, <1>4

\* What is handed on has a cleanup of its own, on this side of all branches.
LEMMA ForwardableFacts ==
    ASSUME IInv, Generous = {}, n > 0, NEW out, out \subseteq Forwardable
    PROVE  /\ out \subseteq Owned(stack, 0)
           /\ \A i \in 1..n : open[i].kind \in Forks =>
                 Below(stack, open[i].depth) \ out = Below(stack, open[i].depth)
  <1>n. /\ n \in Nat /\ n \in 1..n /\ stack \in Seq(Cleanup) /\ Increasing(stack)
        /\ Top = open[n] /\ \A i \in 1..n : open[i].depth \in Nat
    BY FramesTyped DEF IInv, TypeOK, StackInv
  <1>1. Temporaries \subseteq Owned(stack, 0)
    BY <1>n, BelowGrows DEF Temporaries
  <1>2. Locals \subseteq Owned(stack, 0)
    <2>1. \A v : v \in Locals => \E j \in 1..Len(stack) : 0 < j /\ ~stack[j].ignored /\ stack[j].val = v
      BY DEF Locals
    <2>. QED  BY <1>n, <2>1, OwnedIsAbove
  <1>3. ASSUME NEW i \in 1..n, open[i].kind \in Forks, NEW v, v \in out
        PROVE  v \notin Below(stack, open[i].depth)
    <2>1. CASE v \in Temporaries
      <3>1. open[i].depth <= open[n].depth
        BY <1>n DEF IInv, OpenInv
      <3>2. Below(stack, open[i].depth) \subseteq Below(stack, open[n].depth)
        BY <1>n, <3>1, BelowGrows
      <3>. QED  BY <1>n, <2>1, <3>2, Split DEF Temporaries
    <2>2. CASE v \in Locals
      <3>1. Branches = Forks
        BY DEF Branches, Forks
      <3>2. PICK j \in 1..Len(stack) : stack[j].val = v /\ open[i].depth < j
        BY <1>3, <2>2, <3>1 DEF Locals
      <3>. SUFFICES ASSUME v \in Below(stack, open[i].depth) PROVE FALSE
        OBVIOUS
      <3>3. PICK k \in 1..Len(stack) : stack[k].val = v /\ k <= open[i].depth
        BY DEF Below
      <3>4. k < j
        BY <1>n, <3>2, <3>3
      <3>5. stack[k].val \in Int
        BY <1>n, CleanupsTyped
      <3>. QED  BY <3>2, <3>3, <3>4, <3>5, <1>n DEF Increasing
    <2>. QED  BY <1>3, <2>1, <2>2 DEF Forwardable
  <1>. QED  BY <1>1, <1>2, <1>3 DEF Forwardable

-----------------------------------------------------------------------------
(* Entering and leaving constructs.                                         *)

LEMMA InvFacts ==
    ASSUME IInv
    PROVE  /\ n \in Nat /\ n <= MaxOpen /\ MaxOpen \in Nat
           /\ Len(stack) \in Nat /\ made \in Nat /\ made <= MaxValues /\ MaxValues \in Nat
           /\ stack \in Seq(Cleanup) /\ Increasing(stack)
           /\ \A i \in 1..n : open[i].depth \in Nat /\ open[i].depth <= Len(stack)
           /\ n > 0 => n \in 1..n /\ Top = open[n]
           /\ (n > 0 /\ open[n].kind # "function") => n \in 2..n /\ n - 1 \in 1..n
                  /\ open[n - 1].kind \in Around(open[n].kind)
           /\ Owned(stack, 0) = Below(stack, Len(stack))
           /\ alive \subseteq 1..made
           /\ Runs /\ term \notin {Caller, Unwind} => alive = Owned(stack, 0)
           /\ twice = {}
  <1>1. TypeOK /\ twice = {} /\ alive \subseteq 1..made /\ made \in 0..MaxValues
    BY DEF IInv, TypeOK
  <1>2. /\ n \in Nat /\ n <= MaxOpen /\ MaxOpen \in Nat /\ MaxValues \in Nat
        /\ Len(stack) \in Nat /\ \A i \in 1..n : open[i].depth \in Nat
        /\ n > 0 => n \in 1..n /\ Top = open[n]
    BY <1>1, FramesTyped
  <1>3. stack \in Seq(Cleanup) /\ Increasing(stack)
    BY DEF IInv, TypeOK, StackInv
  <1>4. \A i \in 1..n : open[i].depth <= Len(stack)
    BY DEF IInv, OpenInv
  <1>5. (n > 0 /\ open[n].kind # "function") => n \in 2..n /\ n - 1 \in 1..n
            /\ open[n - 1].kind \in Around(open[n].kind)
    BY <1>2 DEF IInv, OpenInv
  <1>6. Owned(stack, 0) = Below(stack, Len(stack))
    BY <1>2, <1>3, BelowGrows
  <1>7. Runs /\ term \notin {Caller, Unwind} => alive = Owned(stack, 0)
    BY DEF IInv, AliveInv
  <1>. QED  BY <1>1, <1>2, <1>3, <1>4, <1>5, <1>6, <1>7

LEMMA SplitAt ==
    ASSUME IInv, NEW i \in 1..n
    PROVE  /\ Owned(stack, 0) = Owned(stack, open[i].depth) \union Below(stack, open[i].depth)
           /\ Owned(stack, open[i].depth) \intersect Below(stack, open[i].depth) = {}
  <1>1. open[i].depth \in Nat /\ stack \in Seq(Cleanup) /\ Increasing(stack)
    BY InvFacts
  <1>. QED  BY <1>1, Split

LEMMA EnterStep ==
    ASSUME IInv, TypeOK', n \in 1..n', \A i \in 1..n : open'[i] = open[i],
           open[n].kind \notin Tight,
           \A i \in n + 1..n' : /\ open'[i].depth = Len(stack)
                                /\ open'[i - 1].kind \in Around(open'[i].kind)
                                /\ open'[i].kind = "throw" => Owned(stack, 0) = {}
                                /\ open'[i].kind = "while" => open'[i].entry = alive,
           term = None,
           UNCHANGED <<stack, term, run, made, alive, twice>>
    PROVE  IInv'
  <1>n. n' \in Nat /\ n \in Nat
    BY InvFacts DEF IInv, TypeOK, n
  <1>k. Kept(n)
    BY <1>n DEF Kept
  <1>1. OpenInv'
    <2>1. open[n].depth <= Len(stack)
      BY InvFacts
    <2>. QED  BY <2>1, OpenStep DEF IInv
  <1>2. StackInv' /\ twice' = {}
    BY DEF IInv, StackInv, Increasing
  <1>3. TermInv'
    BY BlockFacts DEF TermInv
  <1>4. AliveInv'
    <2>1. CASE Runs
      BY <2>1, <1>n, BlockFacts, InvFacts DEF AliveInv, Runs
    <2>2. CASE ~Runs
      BY <2>2, <1>k, WaitStep DEF IInv
    <2>. QED  BY <2>1, <2>2
  <1>5. EntryInv'
    <2>1. ASSUME NEW i \in n + 1..n', open'[i].kind = "while", Runs' \/ run'[2] >= i
          PROVE  open'[i].entry = Below(stack', open'[i].depth)
      <3>1. run[2] <= n /\ run[2] \in Int
        BY <1>n, RunCases DEF IInv, AliveInv
      <3>2. Runs
        BY <1>n, <2>1, <3>1 DEF Runs
      <3>3. alive = Owned(stack, 0)
        BY <3>2, BlockFacts, InvFacts
      <3>. QED  BY <2>1, <3>3, InvFacts
    <2>. QED  BY <1>k, <2>1, EntryStep DEF IInv
  <1>. QED  BY <1>1, <1>2, <1>3, <1>4, <1>5 DEF IInv

LEMMA LeaveStep ==
    ASSUME IInv, TypeOK', n > 0, open[n].kind # "function", open' = Leave(1),
           NEW out,
           \A e \in 0..open[n].depth : Below(stack', e) = Below(stack, e) \ out,
           \A i \in 1..n - 1 : open[i].kind \in Forks =>
               Below(stack, open[i].depth) \ out = Below(stack, open[i].depth),
           open[n].depth <= Len(stack'),
           open[n - 1].kind \in Tight => open[n].depth = Len(stack')
    PROVE  /\ n' = n - 1 /\ n - 1 \in 1..n /\ n \in 2..n
           /\ \A i \in 1..n - 1 : open'[i] = open[i]
           /\ Kept(n - 1)
           /\ OpenInv'
           /\ Runs \/ run' = run \/ (run \in Block /\ run[2] = n) => EntryInv'
           /\ (~Runs /\ run' = run /\ alive' = alive /\ open[n].kind \notin Forks) => AliveInv'
  <1>n. n \in 2..n /\ n - 1 \in 1..n /\ n \in Nat
    BY InvFacts
  <1>1. n' = n - 1 /\ \A i \in 1..n - 1 : open'[i] = open[i]
    <2>0. TypeOK /\ 1 \in 0..n
      BY <1>n DEF IInv
    <2>1. Len(Leave(1)) = n - 1 /\ \A i \in 1..n - 1 : Leave(1)[i] = open[i]
      BY <2>0, LeaveShape
    <2>2. n' = Len(open')
      BY DEF n
    <2>. QED  BY <2>1, <2>2
  <1>d. \A i \in 1..n - 1 : open[i].depth \in 0..open[n].depth
    <2>1. \A i \in 1..n : open[i].depth \in Nat
      BY InvFacts
    <2>. QED  BY <1>n, <2>1 DEF IInv, OpenInv
  <1>2. Kept(n - 1)
    <2>1. n - 1 \in 0..n /\ n - 1 <= n'
      BY <1>n, <1>1
    <2>2. ASSUME NEW i \in 1..n - 1, open[i].kind \in Forks
          PROVE  Below(stack', open[i].depth) = Below(stack, open[i].depth)
      BY <1>d, <2>2
    <2>. QED  BY <1>1, <2>1, <2>2 DEF Kept
  <1>3. OpenInv'
    <2>1. \A i \in 1..n - 1 : Below(stack', open[i].depth) \subseteq Below(stack, open[i].depth)
      BY <1>d
    <2>l. Len(stack') \in Nat /\ \A i \in 1..n : open[i].depth \in Nat
      BY InvFacts DEF TypeOK
    <2>2. open[n - 1].depth <= Len(stack')
      BY <1>n, <1>d, <2>l
    <2>3. open[n - 1].kind \in Tight => open[n - 1].depth = Len(stack')
      BY <1>n DEF IInv, OpenInv
    <2>4. \A i \in n - 1 + 1..n' : FALSE
      BY <1>n, <1>1
    <2>5. n - 1 \in 1..n /\ n - 1 <= n'
      BY <1>n, <1>1
    <2>. QED  BY <1>1, <2>1, <2>2, <2>3, <2>4, <2>5, OpenStep DEF IInv
  <1>4. \A i \in n - 1 + 1..n' : FALSE
    BY <1>n, <1>1
  <1>5. Runs \/ run' = run \/ (run \in Block /\ run[2] = n) => EntryInv'
    BY <1>2, <1>4, EntryStep DEF IInv
  <1>6. (~Runs /\ run' = run /\ alive' = alive /\ open[n].kind \notin Forks) => AliveInv'
    BY <1>2, WaitStep DEF IInv
  <1>. QED  BY <1>n, <1>1, <1>2, <1>3, <1>5, <1>6

\* What generated code does to values that it may do it to.
LEMMA DoesStep ==
    ASSUME IInv, NEW out, NEW D, NEW new, Does(out, D, new),
           Runs => D \subseteq alive \ out
    PROVE  /\ twice' = {}
           /\ ~Runs => alive' = alive
           /\ Runs => alive' = (alive \ (out \union D)) \union new
  BY DEF Does, Effect, IInv

\* Values are handed on one at a time, or none is.
LEMMA AtMostOneFacts ==
    ASSUME NEW S, NEW out, out \in AtMostOne(S)
    PROVE  out \subseteq S
  BY DEF AtMostOne

\* Cleanups are those of values that were made.
LEMMA OwnedMade ==
    ASSUME TypeOK, StackInv, NEW d \in Nat
    PROVE  Owned(stack, d) \subseteq 1..made /\ Below(stack, d) \subseteq 1..made
  <1>1. \A i \in 1..Len(stack) : stack[i].val \in 1..made
    <2>1. stack \in Seq(Cleanup) /\ made \in Nat
      BY FramesTyped DEF TypeOK
    <2>2. \A i \in 1..Len(stack) : stack[i].val \in Value
      BY <2>1, CleanupsTyped
    <2>. QED  BY <2>1, <2>2 DEF StackInv, Value
  <1>2. \A v \in Owned(stack, d) : v \in 1..made
    BY <1>1, OwnedIsAbove DEF TypeOK
  <1>. QED  BY <1>1, <1>2 DEF Below

LEMMA EffectTyped ==
    ASSUME TypeOK, made' \in made..MaxValues,
           NEW executed \in BOOLEAN, NEW out, NEW D, NEW new, Effect(executed, out, D, new),
           D \subseteq 1..made, new \subseteq 1..made'
    PROVE  alive' \subseteq 1..made' /\ twice' \subseteq 1..made' /\ made' \in 0..MaxValues
  <1>1. made \in Nat /\ made' \in Nat /\ made <= made' /\ MaxValues \in Nat
    BY FramesTyped
  <1>2. 1..made \subseteq 1..made'
    BY <1>1
  <1>3. alive \subseteq 1..made /\ twice \subseteq 1..made
    BY DEF TypeOK
  <1>4. alive' \subseteq 1..made'
    <2>1. CASE executed
      BY <1>2, <1>3, <2>1 DEF Effect
    <2>2. CASE ~executed
      BY <1>2, <1>3, <2>2 DEF Effect
    <2>. QED  BY <2>1, <2>2
  <1>5. twice' \subseteq 1..made'
    <2>1. CASE executed
      BY <1>2, <1>3, <2>1 DEF Effect
    <2>2. CASE ~executed
      BY <1>2, <1>3, <2>2 DEF Effect
    <2>. QED  BY <2>1, <2>2
  <1>. QED  BY <1>1, <1>4, <1>5

LEMMA LeaveTyped ==
    ASSUME TypeOK, n > 0, open' = Leave(1), stack' \in Seq(Cleanup),
           term' \in Block \union {None, Caller, Unwind},
           run' \in Block \union {Here, Caller, Unwind},
           made' \in 0..MaxValues, alive' \subseteq 1..made', twice' \subseteq 1..made'
    PROVE  TypeOK'
  <1>1. n \in Nat /\ MaxOpen \in Nat /\ n <= MaxOpen /\ 1 \in 0..n
    BY FramesTyped
  <1>2. Leave(1) \in Seq(Construct) /\ Len(Leave(1)) = n - 1
    BY <1>1, LeaveShape
  <1>3. open' \in Seq(Construct) /\ n' = n - 1
    BY <1>2 DEF n
  <1>4. n' <= MaxOpen
    BY <1>1, <1>3
  <1>. QED  BY <1>3, <1>4 DEF TypeOK

-----------------------------------------------------------------------------
(* Expressions.                                                             *)

\* What the end of an expression or a scope makes of cleanups and constructs,
\* whatever it makes of the execution.
LEMMA ExprLeaves ==
    ASSUME IInv, Generous = {}, n > 0,
           open[n].kind \in {"discard", "declare", "call", "return", "throw", "scope"},
           NEW out, out \subseteq Forwardable, NEW s, Like(s, out),
           NEW value \in BOOLEAN, Result(Popped(s, Top.depth), value),
           open[n].kind = "scope" => ~value,
           NEW executed \in BOOLEAN, NEW D, NEW new, Effect(executed, out, D, new),
           D \subseteq Owned(stack, 0), new \subseteq 1..made',
           open' = Leave(1),
           term' \in Block \union {None, Caller, Unwind},
           run' \in Block \union {Here, Caller, Unwind}
    PROVE  /\ TypeOK' /\ StackInv' /\ OpenInv'
           /\ n' = n - 1 /\ n - 1 \in 1..n /\ n \in 2..n
           /\ \A i \in 1..n - 1 : open'[i] = open[i]
           /\ Kept(n - 1)
           /\ Runs \/ run' = run => EntryInv'
           /\ (~Runs /\ run' = run /\ alive' = alive) => AliveInv'
  <1>n. /\ n \in Nat /\ n \in 1..n /\ Top = open[n] /\ made \in Nat /\ MaxValues \in Nat
        /\ Top.depth \in Nat /\ Top.depth <= Len(stack) /\ Len(stack) \in Nat
        /\ Top.depth \in 0..Len(stack)
    BY InvFacts
  <1>t. TypeOK /\ StackInv
    BY DEF IInv
  <1>r. /\ stack' \in Seq(Cleanup)
        /\ made' \in made..MaxValues
        /\ StackInv'
        /\ Len(stack') = IF value THEN Top.depth + 1 ELSE Top.depth
        /\ Owned(stack', 0) = (Below(stack, Top.depth) \ out) \union (made + 1..made')
        /\ \A e \in 0..Top.depth : Below(stack', e) = Below(stack, e) \ out
    BY <1>n, <1>t, ResultStep
  <1>1. TypeOK'
    <2>1. Owned(stack, 0) \subseteq 1..made
      BY <1>t, OwnedMade
    <2>2. D \subseteq 1..made
      BY <2>1
    <2>3. alive' \subseteq 1..made' /\ twice' \subseteq 1..made' /\ made' \in 0..MaxValues
      BY <1>t, <1>r, <2>2, EffectTyped
    <2>. QED  BY <1>t, <1>r, <2>3, LeaveTyped
  <1>2. /\ n' = n - 1 /\ n - 1 \in 1..n /\ n \in 2..n
        /\ \A i \in 1..n - 1 : open'[i] = open[i]
        /\ OpenInv' /\ Kept(n - 1)
        /\ Runs \/ run' = run => EntryInv'
        /\ (~Runs /\ run' = run /\ alive' = alive) => AliveInv'
    <2>1. \A i \in 1..n - 1 : open[i].kind \in Forks =>
               Below(stack, open[i].depth) \ out = Below(stack, open[i].depth)
      <3>1. \A i \in 1..n - 1 : i \in 1..n
        BY <1>n
      <3>. QED  BY <3>1, ForwardableFacts
    <2>2. open[n - 1].kind \in Tight => open[n].depth = Len(stack')
      <3>1. CASE open[n].kind = "scope"
        BY <1>n, <1>r, <3>1
      <3>2. CASE open[n].kind # "scope"
        <4>1. open[n - 1].kind \in Exprs \union {"scope", "do"}
          BY <3>2, InvFacts DEF Around
        <4>. QED  BY <4>1 DEF Tight, Exprs
      <3>. QED  BY <3>1, <3>2
    <2>3. open[n].depth <= Len(stack')
      BY <1>n, <1>r
    <2>4. open[n].kind \notin Forks /\ open[n].kind # "function"
      BY DEF Forks
    <2>5. \A e \in 0..open[n].depth : Below(stack', e) = Below(stack, e) \ out
      BY <1>n, <1>r
    <2>. QED  BY <1>1, <2>1, <2>2, <2>3, <2>4, <2>5, LeaveStep
  <1>. QED  BY <1>1, <1>2, <1>r

LEMMA PopFacts ==
    ASSUME IInv, n > 0, NEW out, NEW s, Like(s, out),
           NEW value \in BOOLEAN, Result(Popped(s, Top.depth), value)
    PROVE  /\ Owned(stack', 0) = (Below(stack, Top.depth) \ out) \union (made + 1..made')
           /\ Owned(stack, 0) = Owned(stack, Top.depth) \union Below(stack, Top.depth)
           /\ Owned(stack, Top.depth) \intersect Below(stack, Top.depth) = {}
           /\ Owned(s, Top.depth) = Owned(stack, Top.depth) \ out
           /\ Len(stack') = IF value THEN Top.depth + 1 ELSE Top.depth
  <1>n. /\ n \in 1..n /\ Top = open[n] /\ Top.depth \in Nat /\ Top.depth \in 0..Len(stack)
    BY InvFacts
  <1>1. TypeOK /\ StackInv
    BY DEF IInv
  <1>2. /\ Owned(stack', 0) = (Below(stack, Top.depth) \ out) \union (made + 1..made')
        /\ Len(stack') = IF value THEN Top.depth + 1 ELSE Top.depth
    BY <1>n, <1>1, ResultStep
  <1>3. /\ Owned(stack, 0) = Owned(stack, Top.depth) \union Below(stack, Top.depth)
        /\ Owned(stack, Top.depth) \intersect Below(stack, Top.depth) = {}
    BY <1>n, SplitAt
  <1>4. Owned(s, Top.depth) = Owned(stack, Top.depth) \ out
    BY <1>n DEF Like
  <1>. QED  BY <1>2, <1>3, <1>4

\* An expression that ends in its place: the cleanups of its temporaries are
\* emitted and popped, the cleanup of its result is pushed.
LEMMA ExprEnds ==
    ASSUME IInv, Generous = {}, n > 0, open[n].kind \in {"discard", "declare", "call"},
           NEW out, out \subseteq Forwardable, NEW s, Like(s, out),
           NEW value \in BOOLEAN, Result(Popped(s, Top.depth), value),
           Does(out, Owned(s, Top.depth), made + 1..made'), made' \in Nat,
           open' = Leave(1), UNCHANGED <<term, run>>
    PROVE  IInv'
  <1>n. n \in 1..n /\ Top = open[n] /\ made \in Nat /\ Top.depth \in Nat
    BY InvFacts
  <1>none. term = None
    BY DEF IInv, TermInv, Exprs
  <1>1. Effect(Runs, out, Owned(s, Top.depth), made + 1..made') /\ Runs \in BOOLEAN
    BY DEF Does, Runs
  <1>2. Owned(s, Top.depth) \subseteq Owned(stack, 0)
    <2>1. Owned(s, Top.depth) = Owned(stack, Top.depth) \ out
      BY <1>n DEF Like
    <2>. QED  BY <1>n, <2>1, SplitAt
  <1>3. made + 1..made' \subseteq 1..made'
    BY <1>n
  <1>4. /\ term' \in Block \union {None, Caller, Unwind}
        /\ run' \in Block \union {Here, Caller, Unwind}
    BY DEF IInv, TypeOK
  <1>5. /\ TypeOK' /\ StackInv' /\ OpenInv' /\ EntryInv'
        /\ n' = n - 1 /\ n - 1 \in 1..n
        /\ (~Runs /\ run' = run /\ alive' = alive) => AliveInv'
    <2>. DEFINE D == Owned(s, Top.depth)
                new == made + 1..made'
    <2>1. /\ Effect(Runs, out, D, new) /\ Runs \in BOOLEAN
          /\ D \subseteq Owned(stack, 0) /\ new \subseteq 1..made'
      BY <1>1, <1>2, <1>3
    <2>2. /\ open[n].kind \in {"discard", "declare", "call", "return", "throw", "scope"}
          /\ open[n].kind # "scope" /\ run' = run
      OBVIOUS
    <2>. HIDE DEF D, new
    <2>. QED  BY <1>4, <2>1, <2>2, ExprLeaves
  <1>p. /\ Owned(stack', 0) = (Below(stack, Top.depth) \ out) \union (made + 1..made')
        /\ Owned(stack, 0) = Owned(stack, Top.depth) \union Below(stack, Top.depth)
        /\ Owned(stack, Top.depth) \intersect Below(stack, Top.depth) = {}
        /\ Owned(s, Top.depth) = Owned(stack, Top.depth) \ out
    BY PopFacts
  <1>6. Runs => alive = Owned(stack, 0)
    BY <1>none, BlockFacts, InvFacts
  <1>7. twice' = {} /\ (~Runs => alive' = alive)
    <2>1. Runs => Owned(s, Top.depth) \subseteq alive \ out
      BY <1>p, <1>6
    <2>. QED  BY <2>1, DoesStep
  <1>8. AliveInv'
    <2>1. CASE Runs
      <3>1. alive' = (Owned(stack, 0) \ (out \union Owned(s, Top.depth))) \union (made + 1..made')
        BY <2>1, <1>6 DEF Does, Effect
      <3>2. alive' = Owned(stack', 0)
        BY <3>1, <1>p
      <3>3. n' > 0 /\ term' = None /\ Runs' /\ run' = Here
        BY <1>5, <1>none, <2>1 DEF Runs
      <3>. QED  BY <3>2, <3>3, BlockFacts DEF AliveInv
    <2>2. CASE ~Runs
      BY <1>5, <1>7, <2>2
    <2>. QED  BY <2>1, <2>2
  <1>9. TermInv'
    BY <1>none, BlockFacts DEF TermInv
  <1>. QED  BY <1>5, <1>7, <1>8, <1>9 DEF IInv

LEMMA CallReturnsStep ==
    ASSUME IInv, Generous = {}, NEW out, NEW value \in BOOLEAN, CallReturns(out, value)
    PROVE  IInv'
  <1>1. Like(Ignoring(stack, out), out)
    BY LikeIgnoring DEF IInv
  <1>2. n > 0 /\ open[n].kind = "call"
    BY DEF CallReturns, InExpr, Top
  <1>3. out \subseteq Forwardable
    BY AtMostOneFacts DEF CallReturns
  <1>4. made' \in Nat
    BY InvFacts DEF CallReturns, Result
  <1>. QED  BY <1>1, <1>2, <1>3, <1>4, ExprEnds DEF CallReturns

LEMMA EndDiscardStep ==
    ASSUME IInv, Generous = {}, EndDiscard
    PROVE  IInv'
  <1>1. Like(stack, {})
    BY LikeStack DEF IInv
  <1>2. n > 0 /\ open[n].kind = "discard"
    BY DEF EndDiscard, InExpr, Top
  <1>3. Result(Popped(stack, Top.depth), FALSE)
    BY DEF EndDiscard, Result
  <1>4. made + 1..made' = {}
    <2>1. made' = made /\ made \in Nat
      BY InvFacts DEF EndDiscard
    <2>. QED  BY <2>1
  <1>5. made' \in Nat
    BY InvFacts DEF EndDiscard
  <1>. QED  BY <1>1, <1>2, <1>3, <1>4, <1>5, ExprEnds DEF EndDiscard, Temporaries

LEMMA EndDeclareStep ==
    ASSUME IInv, Generous = {}, NEW v, EndDeclare(v)
    PROVE  IInv'
  <1>1. Like(Ignoring(stack, {v}), {v})
    BY LikeIgnoring DEF IInv
  <1>2. n > 0 /\ open[n].kind = "declare"
    BY DEF EndDeclare, InExpr, Top
  <1>3. Result(Popped(Ignoring(stack, {v}), Top.depth), TRUE)
    BY DEF EndDeclare, Result
  <1>4. made + 1..made' = {made + 1}
    <2>1. made' = made + 1 /\ made \in Nat
      BY InvFacts DEF EndDeclare
    <2>. QED  BY <2>1
  <1>5. made' \in Nat
    BY InvFacts DEF EndDeclare
  <1>. QED  BY <1>1, <1>2, <1>3, <1>4, <1>5, ExprEnds DEF EndDeclare

\* The landing pad of a call: what is below the handler stays.
LEMMA CallThrowsStep ==
    ASSUME IInv, Generous = {}, NEW out, NEW value \in BOOLEAN, NEW h \in 0..n,
           CallThrows(out, value, h)
    PROVE  IInv'
  <1>. DEFINE s == Ignoring(stack, out)
              D == Owned(s, LandingDepth(h))
  <1>1. Like(s, out)
    BY LikeIgnoring DEF IInv
  <1>2. n > 0 /\ open[n].kind = "call" /\ Runs
    BY DEF CallThrows, InExpr, Top
  <1>3. out \subseteq Forwardable
    BY AtMostOneFacts DEF CallThrows
  <1>4. /\ Result(Popped(s, Top.depth), value) /\ Does(out, D, {})
        /\ run' = LandingPad(h) /\ open' = Leave(1) /\ term' = term
    BY DEF CallThrows
  <1>. HIDE DEF s
  <1>n. n \in 1..n /\ n \in Nat /\ Top = open[n] /\ MaxOpen \in Nat /\ n <= MaxOpen
    BY <1>2, InvFacts
  <1>none. term = None
    BY <1>2 DEF IInv, TermInv, Exprs
  <1>h. h # 0 => h \in 1..n /\ open[h].kind = "do" /\ h \in Handlers
    BY DEF CallThrows, IsHandler, Handlers
  <1>d. LandingDepth(h) \in Nat /\ (h = 0 => LandingDepth(h) = 0)
        /\ (h # 0 => LandingDepth(h) = open[h].depth)
    BY <1>h, InvFacts DEF LandingDepth
  <1>5. D = Owned(stack, LandingDepth(h)) \ out
    BY <1>1, <1>d DEF Like
  <1>6. D \subseteq Owned(stack, 0)
    <2>1. Owned(stack, LandingDepth(h)) \subseteq Owned(stack, 0)
      BY <1>d, BelowGrows, InvFacts
    <2>. QED  BY <1>5, <2>1
  <1>7. run' \in Block \union {Here, Caller, Unwind}
    BY <1>4, <1>h, <1>n DEF LandingPad, Block
  <1>8. /\ TypeOK' /\ StackInv' /\ OpenInv' /\ EntryInv'
        /\ n' = n - 1 /\ n - 1 \in 1..n
        /\ Kept(n - 1)
    <2>1. Effect(Runs, out, D, {}) /\ Runs \in BOOLEAN
      BY <1>4 DEF Does, Runs
    <2>2. term' \in Block \union {None, Caller, Unwind}
      BY <1>4 DEF IInv, TypeOK
    <2>3. {} \subseteq 1..made'
      OBVIOUS
    <2>. HIDE DEF D
    <2>. QED  BY <1>1, <1>2, <1>3, <1>4, <1>6, <1>7, <2>1, <2>2, <2>3, ExprLeaves
  <1>9. alive = Owned(stack, 0)
    BY <1>2, <1>none, BlockFacts, InvFacts
  <1>10. twice' = {} /\ alive' = Owned(stack, 0) \ (out \union D)
    <2>1. D \subseteq alive \ out
      BY <1>5, <1>6, <1>9
    <2>2. twice' = {}
      BY <1>4, <2>1, DoesStep
    <2>3. alive' = Owned(stack, 0) \ (out \union D)
      BY <1>2, <1>4, <1>9 DEF Does, Effect
    <2>. QED  BY <2>2, <2>3
  <1>11. AliveInv'
    <2>1. CASE h = 0
      <3>1. alive' = {}
        BY <1>5, <1>10, <1>d, <2>1
      <3>2. run' = Unwind /\ ~Runs'
        BY <1>4, <2>1, BlockFacts DEF LandingPad, Runs
      <3>. QED  BY <3>1, <3>2, BlockFacts DEF AliveInv
    <2>2. CASE h # 0
      <3>1. h \in 1..n - 1 /\ h \in 1..n /\ open'[h] = open[h]
            /\ Below(stack', open[h].depth) = Below(stack, open[h].depth)
        <4>1. h # n
          BY <1>2, <1>h, <2>2
        <4>2. h \in 1..n - 1
          BY <1>h, <1>n, <2>2, <4>1
        <4>. QED  BY <1>8, <1>h, <2>2, <4>2 DEF Kept, Forks
      <3>2. /\ Owned(stack, 0) = Owned(stack, open[h].depth) \union Below(stack, open[h].depth)
            /\ Owned(stack, open[h].depth) \intersect Below(stack, open[h].depth) = {}
        BY <3>1, SplitAt
      <3>3. Below(stack, open[h].depth) \ out = Below(stack, open[h].depth)
        BY <1>2, <1>3, <1>h, <2>2, ForwardableFacts DEF Forks
      <3>4. alive' = Below(stack', open'[h].depth)
        BY <1>5, <1>10, <1>d, <2>2, <3>1, <3>2, <3>3
      <3>5. run' = <<"lpad", h>> /\ run' \in Block
        BY <1>4, <1>h, <1>n, <2>2 DEF LandingPad, Block
      <3>6. ~Runs' /\ run' \notin {Caller, Unwind}
        BY <3>5, BlockFacts DEF Runs
      <3>7. /\ run'[2] \in 1..n' /\ run'[1] = "lpad" /\ run'[2] = h
            /\ open'[h].kind \in WaitsAt("lpad")
        BY <1>8, <1>h, <2>2, <3>1, <3>5 DEF WaitsAt
      <3>. QED  BY <3>4, <3>5, <3>6, <3>7 DEF AliveInv
    <2>. QED  BY <2>1, <2>2
  <1>12. TermInv'
    BY <1>none, <1>4, BlockFacts DEF TermInv
  <1>. QED  BY <1>8, <1>10, <1>11, <1>12 DEF IInv

\* Return and throw: all that is alive is destroyed or handed on.
LEMMA EndLeaveStep ==
    ASSUME IInv, Generous = {}, NEW out, EndLeave(out)
    PROVE  IInv'
  <1>. DEFINE s == Ignoring(stack, out)
              D == Owned(s, 0)
  <1>1. Like(s, out)
    BY LikeIgnoring DEF IInv
  <1>2. n > 0 /\ open[n].kind \in {"return", "throw"}
    BY DEF EndLeave, InExpr, Top
  <1>3. out \subseteq Forwardable
    BY AtMostOneFacts DEF EndLeave, Forwardable
  <1>4. /\ Does(out, D, {}) /\ stack' = Popped(s, Top.depth) /\ made' = made
        /\ run' = run /\ open' = Leave(1)
        /\ term' = IF Top.kind = "return" THEN Caller ELSE Unwind
    BY DEF EndLeave
  <1>5. Result(Popped(s, Top.depth), FALSE)
    BY <1>4 DEF Result
  <1>. HIDE DEF s
  <1>n. n \in 1..n /\ n \in Nat /\ Top = open[n]
    BY <1>2, InvFacts
  <1>none. term = None
    BY <1>2 DEF IInv, TermInv, Exprs
  <1>6. D = Owned(stack, 0) \ out
    BY <1>1 DEF Like
  <1>7. /\ TypeOK' /\ StackInv' /\ OpenInv' /\ EntryInv'
        /\ n' = n - 1 /\ n - 1 \in 1..n
        /\ \A i \in 1..n - 1 : open'[i] = open[i]
        /\ (~Runs /\ run' = run /\ alive' = alive) => AliveInv'
    <2>1. Effect(Runs, out, D, {}) /\ Runs \in BOOLEAN
      BY <1>4 DEF Does, Runs
    <2>2. /\ term' \in Block \union {None, Caller, Unwind}
          /\ run' \in Block \union {Here, Caller, Unwind}
      BY <1>4 DEF IInv, TypeOK
    <2>3. D \subseteq Owned(stack, 0)
      BY <1>6
    <2>4. /\ open[n].kind \in {"discard", "declare", "call", "return", "throw", "scope"}
          /\ open[n].kind # "scope" /\ {} \subseteq 1..made'
      BY <1>2
    <2>. HIDE DEF D
    <2>. QED  BY <1>1, <1>2, <1>3, <1>4, <1>5, <2>1, <2>2, <2>3, <2>4, ExprLeaves
  <1>8. Runs => alive = Owned(stack, 0)
    BY <1>none, BlockFacts, InvFacts
  <1>9. twice' = {} /\ (~Runs => alive' = alive)
    BY <1>4, <1>6, <1>8, DoesStep
  <1>10. AliveInv'
    <2>1. CASE Runs
      <3>1. alive' = {}
        BY <1>4, <1>6, <1>8, <2>1 DEF Does, Effect
      <3>2. n' > 0 /\ term' \in {Caller, Unwind} /\ run' = Here
        BY <1>4, <1>7, <2>1 DEF Runs
      <3>. QED  BY <3>1, <3>2, BlockFacts DEF AliveInv
    <2>2. CASE ~Runs
      BY <1>4, <1>7, <1>9, <2>2
    <2>. QED  BY <2>1, <2>2
  <1>11. TermInv'
    <2>1. open'[n'].kind = "scope" /\ n' > 0
      <3>1. open[n - 1].kind = "scope"
        BY <1>2, InvFacts DEF Around
      <3>. QED  BY <1>7, <3>1
    <2>2. term' = Unwind => Owned(stack', 0) = {}
      <3>. SUFFICES ASSUME term' = Unwind PROVE Owned(stack', 0) = {}
        OBVIOUS
      <3>1. open[n].kind = "throw"
        BY <1>2, <1>4, <1>n, BlockFacts
      <3>2. Below(stack, Top.depth) = {}
        BY <1>n, <3>1 DEF IInv, OpenInv
      <3>3. made + 1..made' = {}
        BY <1>4, InvFacts
      <3>4. Owned(stack', 0) = (Below(stack, Top.depth) \ out) \union (made + 1..made')
        BY <1>1, <1>2, <1>5, PopFacts
      <3>. QED  BY <3>2, <3>3, <3>4
    <2>3. term' \notin Block
      BY <1>4, BlockFacts
    <2>. QED  BY <2>1, <2>2, <2>3 DEF TermInv, Exprs, n
  <1>. QED  BY <1>7, <1>9, <1>10, <1>11 DEF IInv

-----------------------------------------------------------------------------
(* Statements.                                                              *)

\* The end of a scope: nothing is left to be destroyed after a return, a
\* throw or a jump.
LEMMA EndScopeStep ==
    ASSUME IInv, Generous = {}, EndScope
    PROVE  IInv'
  <1>. DEFINE D == IF EmitsAtEnd(term) THEN Temporaries ELSE {}
  <1>1. Like(stack, {})
    BY LikeStack DEF IInv
  <1>2. n > 0 /\ open[n].kind = "scope"
    BY DEF EndScope, InExpr, Top
  <1>4. /\ Does({}, D, {}) /\ stack' = Popped(stack, Top.depth) /\ made' = made
        /\ run' = run /\ term' = term /\ open' = Leave(1)
    BY DEF EndScope
  <1>5. Result(Popped(stack, Top.depth), FALSE)
    BY <1>4 DEF Result
  <1>n. n \in 1..n /\ n \in Nat /\ Top = open[n] /\ Top.depth \in Nat
        /\ Top.depth <= Len(stack) /\ Len(stack) \in Nat
    BY <1>2, InvFacts
  <1>6. Temporaries \subseteq Owned(stack, 0)
    BY <1>n, SplitAt DEF Temporaries
  <1>7. /\ TypeOK' /\ StackInv' /\ OpenInv' /\ EntryInv'
        /\ n' = n - 1 /\ n - 1 \in 1..n
        /\ \A i \in 1..n - 1 : open'[i] = open[i]
        /\ (~Runs /\ run' = run /\ alive' = alive) => AliveInv'
    <2>1. Effect(Runs, {}, D, {}) /\ Runs \in BOOLEAN
      BY <1>4 DEF Does, Runs
    <2>2. /\ term' \in Block \union {None, Caller, Unwind}
          /\ run' \in Block \union {Here, Caller, Unwind}
      BY <1>4 DEF IInv, TypeOK
    <2>3. D \subseteq Owned(stack, 0)
      BY <1>6
    <2>4. /\ open[n].kind \in {"discard", "declare", "call", "return", "throw", "scope"}
          /\ {} \subseteq 1..made' /\ {} \subseteq Forwardable
      BY <1>2
    <2>. HIDE DEF D
    <2>. QED  BY <1>1, <1>2, <1>4, <1>5, <2>1, <2>2, <2>3, <2>4, ExprLeaves
  <1>new. made + 1..made' = {}
    BY <1>4, InvFacts
  <1>p. /\ Owned(stack', 0) = (Below(stack, Top.depth) \ {}) \union (made + 1..made')
        /\ Owned(stack, 0) = Owned(stack, Top.depth) \union Below(stack, Top.depth)
        /\ Owned(stack, Top.depth) \intersect Below(stack, Top.depth) = {}
        /\ Len(stack') = Top.depth
    BY <1>1, <1>2, <1>5, PopFacts
  <1>8. Owned(stack', 0) = Below(stack, Top.depth)
    BY <1>p, <1>new
  <1>u. term = Unwind => Owned(stack, 0) = {}
    BY DEF IInv, TermInv
  <1>9. Runs => D \subseteq alive
    <2>1. CASE term = Caller
      BY <2>1 DEF EmitsAtEnd
    <2>2. CASE term = Unwind
      BY <1>6, <1>u, <2>2
    <2>3. CASE term \notin {Caller, Unwind}
      BY <1>6, <2>3, InvFacts
    <2>. QED  BY <2>1, <2>2, <2>3
  <1>10. twice' = {} /\ (~Runs => alive' = alive) /\ (Runs => alive' = alive \ D)
    <2>. HIDE DEF D
    <2>. QED  BY <1>4, <1>9, DoesStep
  <1>11. AliveInv'
    <2>1. CASE Runs
      <3>1. CASE term \in {Caller, Unwind}
        <4>1. alive = {}
          BY <2>1, <3>1 DEF IInv, AliveInv
        <4>2. alive' = {}
          BY <1>10, <2>1, <4>1
        <4>. QED  BY <1>4, <1>7, <2>1, <3>1, <4>2, BlockFacts DEF AliveInv, Runs
      <3>2. CASE term \notin {Caller, Unwind}
        <4>1. alive = Owned(stack, 0) /\ D = Owned(stack, Top.depth)
          BY <2>1, <3>2, InvFacts DEF EmitsAtEnd, Temporaries
        <4>2. alive' = Owned(stack', 0)
          BY <1>p, <1>8, <1>10, <2>1, <4>1
        <4>. QED  BY <1>4, <1>7, <2>1, <3>2, <4>2, BlockFacts DEF AliveInv, Runs
      <3>. QED  BY <3>1, <3>2
    <2>2. CASE ~Runs
      BY <1>4, <1>7, <1>10, <2>2
    <2>. QED  BY <2>1, <2>2
  <1>12. TermInv'
    <2>1. open'[n'].kind \notin Exprs /\ open'[n'].kind # "do" /\ n' > 0
      <3>1. open[n - 1].kind \in {"function"} \union Tight
        BY <1>2, InvFacts DEF Around
      <3>. QED  BY <1>7, <3>1 DEF Tight, Exprs
    <2>2. term' = Unwind => Owned(stack', 0) = {}
      BY <1>4, <1>p, <1>8, <1>u
    <2>3. ASSUME term' \in Block
          PROVE  /\ term'[1] \in {"merge", "continue"} /\ term'[2] \in 1..n'
                 /\ open'[term'[2]].kind = "while" /\ open'[term'[2]].depth = Len(stack')
      <3>1. /\ term[1] \in {"merge", "continue"} /\ term[2] \in 1..n
            /\ open[term[2]].kind = "while" /\ open[term[2]].depth = Len(stack)
        BY <1>4, <2>3 DEF IInv, TermInv
      <3>2. term[2] \in 1..n - 1 /\ open'[term[2]] = open[term[2]]
        BY <1>2, <1>7, <1>n, <3>1
      <3>3. open[term[2]].depth <= open[n].depth
        BY <1>n, <3>1, <3>2 DEF IInv, OpenInv
      <3>4. open[term[2]].depth = Len(stack')
        BY <1>p, <1>n, <3>1, <3>3
      <3>. QED  BY <1>4, <1>7, <3>1, <3>2, <3>4
    <2>. QED  BY <2>1, <2>2, <2>3 DEF TermInv, n
  <1>. QED  BY <1>7, <1>10, <1>11, <1>12 DEF IInv

\* A terminator: the constructs and the stack stay as they are.
LEMMA TerminatorStep ==
    ASSUME IInv, n > 0, term = None, NEW D, D \subseteq Owned(stack, 0), Does({}, D, {}),
           term' \in Block \union {Caller, Unwind}, TermInv',
           term' \in {Caller, Unwind} => D = Owned(stack, 0),
           term' \in Block => D = {},
           UNCHANGED <<open, stack, run, made>>
    PROVE  IInv'
  <1>1. n' = n /\ n \in 1..n /\ made \in Nat
    BY InvFacts DEF n
  <1>2. Runs => alive = Owned(stack, 0)
    BY BlockFacts, InvFacts
  <1>3. twice' = {} /\ (~Runs => alive' = alive) /\ (Runs => alive' = alive \ D)
    BY <1>2, DoesStep
  <1>4. TypeOK'
    <2>1. alive' \subseteq 1..made'
      BY <1>3 DEF IInv, TypeOK
    <2>. QED  BY <1>1, <1>3, <2>1 DEF IInv, TypeOK
  <1>5. StackInv' /\ OpenInv' /\ EntryInv'
    <2>1. StackInv'
      BY DEF IInv, StackInv, Increasing
    <2>2. OpenInv'
      <3>1. \A i \in 1..n : open'[i] = open[i] /\ Below(stack', open[i].depth) = Below(stack, open[i].depth)
        BY DEF Below
      <3>2. open[n].depth <= Len(stack') /\ (open[n].kind \in Tight => open[n].depth = Len(stack'))
        BY <1>1 DEF IInv, OpenInv
      <3>3. \A i \in n + 1..n' : FALSE
        BY <1>1
      <3>4. TypeOK /\ OpenInv /\ n <= n'
        BY <1>1 DEF IInv
      <3>. QED  BY <1>1, <1>4, <3>1, <3>2, <3>3, <3>4, OpenStep
    <2>3. EntryInv'
      BY <1>1 DEF IInv, EntryInv, Below, Runs
    <2>. QED  BY <2>1, <2>2, <2>3
  <1>6. AliveInv'
    <2>1. CASE Runs
      <3>1. alive' = IF term' \in {Caller, Unwind} THEN {} ELSE Owned(stack, 0)
        BY <1>2, <1>3, <2>1, BlockFacts
      <3>2. Owned(stack', 0) = Owned(stack, 0) /\ run' = Here /\ n' > 0
        BY <1>1, <2>1 DEF Runs
      <3>. QED  BY <3>1, <3>2, BlockFacts DEF AliveInv
    <2>2. CASE ~Runs
      <3>1. Kept(n)
        BY <1>1, InvFacts DEF Kept
      <3>. QED  BY <1>3, <1>4, <2>2, <3>1, WaitStep DEF IInv
    <2>. QED  BY <2>1, <2>2
  <1>. QED  BY <1>3, <1>4, <1>5, <1>6 DEF IInv

LEMMA ReturnVoidStep ==
    ASSUME IInv, Generous = {}, ReturnVoid
    PROVE  IInv'
  <1>1. /\ n > 0 /\ open[n].kind = "scope" /\ term = None
        /\ Does({}, Owned(stack, 0), {}) /\ term' = Caller
        /\ UNCHANGED <<open, stack, run, made>>
    BY DEF ReturnVoid, InStatements, Top
  <1>2. TermInv'
    <2>1. n' > 0 /\ open'[n'].kind = "scope"
      BY <1>1 DEF n
    <2>2. term' # Unwind /\ term' \notin Block
      BY <1>1, BlockFacts
    <2>. QED  BY <2>1, <2>2 DEF TermInv, Exprs, n
  <1>. QED  BY <1>1, <1>2, BlockFacts, TerminatorStep

LEMMA JumpStep ==
    ASSUME IInv, Generous = {}, NEW to \in {"merge", "continue"}, NEW i \in 1..n, Jump(to, i)
    PROVE  IInv'
  <1>1. /\ n > 0 /\ open[n].kind \in {"scope", "do"} /\ term = None
        /\ open[i].kind = "while" /\ Len(stack) = open[i].depth
        /\ Does({}, Owned(stack, open[i].depth), {}) /\ term' = <<to, i>>
        /\ UNCHANGED <<open, stack, run, made>>
    BY DEF Jump, InStatements, Top, Loops
  <1>2. Owned(stack, open[i].depth) = {}
    BY <1>1, InvFacts, BelowGrows
  <1>3. n' = n /\ n \in 1..n /\ n \in Nat /\ n <= MaxOpen /\ MaxOpen \in Nat
    BY <1>1, InvFacts DEF n
  <1>4. term' \in Block /\ term'[1] = to /\ term'[2] = i
    BY <1>1, <1>3 DEF Block
  <1>5. TermInv'
    <2>1. open'[n'].kind \notin Exprs /\ n' > 0
      BY <1>1, <1>3 DEF Exprs
    <2>2. term' \notin {Caller, Unwind}
      BY <1>4, BlockFacts
    <2>. QED  BY <1>1, <1>3, <1>4, <2>1, <2>2 DEF TermInv, n
  <1>. QED  BY <1>1, <1>2, <1>4, <1>5, BlockFacts, TerminatorStep

-----------------------------------------------------------------------------
(* Entering statements and expressions.                                     *)

LEMMA EnterTyped ==
    ASSUME TypeOK, NEW fs \in Seq(Construct), NEW m \in 0..n,
           open' = Leave(m) \o fs, n' <= MaxOpen,
           stack' \in Seq(Cleanup),
           term' \in Block \union {None, Caller, Unwind},
           run' \in Block \union {Here, Caller, Unwind},
           made' = made, alive' \subseteq 1..made, twice' \subseteq 1..made
    PROVE  TypeOK'
  <1>1. Leave(m) \in Seq(Construct)
    BY LeaveShape
  <1>2. open' \in Seq(Construct)
    BY <1>1, ConcatProperties
  <1>. QED  BY <1>2 DEF TypeOK

LEMMA BeginOne ==
    ASSUME IInv, NEW kind \in Kinds \ {"while"}, n > 0, term = None,
           Enter(0, <<Frame(kind)>>), open[n].kind \in Around(kind),
           open[n].kind \notin Tight,
           kind = "throw" => Owned(stack, 0) = {},
           UNCHANGED <<stack, term, run, made, alive, twice>>
    PROVE  IInv'
  <1>n. n \in Nat /\ n \in 1..n /\ 0 \in 0..n /\ TypeOK
    BY InvFacts DEF IInv
  <1>f. Frame(kind) \in Construct /\ Frame(kind).kind = kind /\ Frame(kind).depth = Len(stack)
    BY <1>n, FrameTyped
  <1>1. /\ n' = n + 1
        /\ \A i \in 1..n : open'[i] = open[i]
        /\ open'[n + 1] = Frame(kind)
    <2>1. open' = Leave(0) \o <<Frame(kind)>>
      BY DEF Enter
    <2>2. /\ Len(Leave(0) \o <<Frame(kind)>>) = n - 0 + 1
          /\ \A i \in 1..n - 0 : (Leave(0) \o <<Frame(kind)>>)[i] = open[i]
          /\ (Leave(0) \o <<Frame(kind)>>)[n - 0 + 1] = Frame(kind)
      BY <1>n, <1>f, EnterOne
    <2>. QED  BY <1>n, <2>1, <2>2 DEF n
  <1>2. TypeOK'
    <2>1. n' <= MaxOpen
      <3>1. Len(<<Frame(kind)>>) = 1
        OBVIOUS
      <3>. QED  BY <1>n, <1>1, <3>1 DEF Enter
    <2>2. <<Frame(kind)>> \in Seq(Construct) /\ open' = Leave(0) \o <<Frame(kind)>>
      BY <1>f DEF Enter
    <2>. QED  BY <1>n, <2>1, <2>2, EnterTyped DEF TypeOK
  <1>3. \A i \in n + 1..n' : /\ open'[i].depth = Len(stack)
                             /\ open'[i - 1].kind \in Around(open'[i].kind)
                             /\ open'[i].kind = "throw" => Owned(stack, 0) = {}
                             /\ open'[i].kind = "while" => open'[i].entry = alive
    <2>. SUFFICES ASSUME NEW i \in n + 1..n'
                  PROVE  /\ open'[i].depth = Len(stack)
                         /\ open'[i - 1].kind \in Around(open'[i].kind)
                         /\ open'[i].kind = "throw" => Owned(stack, 0) = {}
                         /\ open'[i].kind = "while" => open'[i].entry = alive
      OBVIOUS
    <2>1. i = n + 1 /\ i - 1 = n
      BY <1>n, <1>1
    <2>. QED  BY <1>n, <1>f, <1>1, <2>1
  <1>4. n \in 1..n'
    BY <1>n, <1>1
  <1>. QED  BY <1>1, <1>2, <1>3, <1>4, EnterStep

LEMMA BeginExprStep ==
    ASSUME IInv, Generous = {}, NEW kind \in {"discard", "declare", "return", "throw"},
           BeginExpr(kind)
    PROVE  IInv'
  <1>1. /\ n > 0 /\ open[n].kind \in {"scope", "do"} /\ term = None
        /\ kind = "throw" => Owned(stack, 0) = {} /\ open[n].kind # "do"
        /\ kind = "return" => open[n].kind = "scope"
        /\ Enter(0, <<Frame(kind)>>)
        /\ UNCHANGED <<stack, term, run, made, alive, twice>>
    <2>1. n > 0 => n \in 1..n
      BY InvFacts
    <2>. QED  BY <2>1 DEF BeginExpr, InStatements, Top
  <1>2. kind \in Kinds \ {"while"} /\ open[n].kind \in Around(kind) /\ open[n].kind \notin Tight
    BY <1>1 DEF Kinds, Exprs, Around, Tight
  <1>. QED  BY <1>1, <1>2, BeginOne

LEMMA BeginCallStep ==
    ASSUME IInv, BeginCall
    PROVE  IInv'
  <1>1. /\ n > 0 /\ open[n].kind \in Exprs
        /\ Enter(0, <<Frame("call")>>)
        /\ UNCHANGED <<stack, term, run, made, alive, twice>>
    BY DEF BeginCall, Top
  <1>2. /\ "call" \in Kinds \ {"while"} /\ open[n].kind \in Around("call")
        /\ open[n].kind \notin Tight
    BY <1>1 DEF Kinds, Exprs, Around, Tight
  <1>3. term = None
    BY <1>1 DEF IInv, TermInv
  <1>. QED  BY <1>1, <1>2, <1>3, BeginOne

LEMMA BeginDoStep ==
    ASSUME IInv, BeginDo
    PROVE  IInv'
  <1>1. /\ n > 0 /\ open[n].kind \in {"scope", "do"} /\ term = None
        /\ Enter(0, <<Frame("do")>>)
        /\ UNCHANGED <<stack, term, run, made, alive, twice>>
    BY DEF BeginDo, InStatements, Top
  <1>2. /\ "do" \in Kinds \ {"while"} /\ open[n].kind \in Around("do")
        /\ open[n].kind \notin Tight
    BY <1>1 DEF Kinds, Exprs, Around, Tight
  <1>. QED  BY <1>1, <1>2, BeginOne

\* Two constructs in the place of the m innermost ones.
LEMMA EnteredTwo ==
    ASSUME TypeOK, NEW m \in 0..n, NEW f \in Construct, NEW g \in Construct,
           Enter(m, <<f, g>>),
           stack' \in Seq(Cleanup),
           term' \in Block \union {None, Caller, Unwind},
           run' \in Block \union {Here, Caller, Unwind},
           made' = made, alive' \subseteq 1..made, twice' \subseteq 1..made
    PROVE  /\ TypeOK'
           /\ n' = n - m + 2
           /\ \A i \in 1..n - m : open'[i] = open[i]
           /\ open'[n - m + 1] = f /\ open'[n - m + 2] = g
  <1>1. PICK fs \in Seq(Construct) :
            /\ open' = Leave(m) \o fs /\ n - m + Len(fs) <= MaxOpen
            /\ Len(fs) = 2 /\ fs[1] = f /\ fs[2] = g
    <2>1. <<f, g>> \in Seq(Construct) /\ Len(<<f, g>>) = 2
      OBVIOUS
    <2>2. <<f, g>>[1] = f /\ <<f, g>>[2] = g
      OBVIOUS
    <2>. QED  BY <2>1, <2>2 DEF Enter
  <1>2. /\ Len(Leave(m) \o fs) = n - m + 2
        /\ \A i \in 1..n - m : (Leave(m) \o fs)[i] = open[i]
        /\ (Leave(m) \o fs)[n - m + 1] = fs[1]
        /\ (Leave(m) \o fs)[n - m + 2] = fs[2]
    BY <1>1, EnterTwo
  <1>3. /\ n' = n - m + 2
        /\ \A i \in 1..n - m : open'[i] = open[i]
        /\ open'[n - m + 1] = f /\ open'[n - m + 2] = g
    BY <1>1, <1>2 DEF n
  <1>5. n' <= MaxOpen
    BY <1>1, <1>3
  <1>6. TypeOK'
    BY <1>1, <1>5, EnterTyped
  <1>. QED  BY <1>3, <1>6

LEMMA BeginBranchStep ==
    ASSUME IInv, NEW kind, NEW cond,
           (kind = "if" /\ cond = "ifCond") \/ (kind = "while" /\ cond = "whileCond"),
           BeginBranch(kind, cond)
    PROVE  IInv'
  <1>n. n \in Nat /\ (n > 0 => n \in 1..n) /\ 0 \in 0..n /\ TypeOK
    BY InvFacts DEF IInv
  <1>0. PICK f \in Construct, g \in Construct :
            /\ f.kind = kind /\ f.depth = Len(stack) /\ f.entry = alive
            /\ g.kind = cond /\ g.depth = Len(stack)
            /\ Enter(0, <<f, g>>)
    <2>1. kind \in Kinds /\ cond \in Kinds
      BY DEF Kinds, Exprs
    <2>2. Enter(0, <<[Frame(kind) EXCEPT !.entry = alive], Frame(cond)>>)
      BY DEF BeginBranch
    <2>. QED  BY <1>n, <2>1, <2>2, FrameTyped
  <1>c. /\ n > 0 /\ open[n].kind \in {"scope", "do"} /\ term = None
        /\ UNCHANGED <<stack, term, run, made, alive, twice>>
    BY DEF BeginBranch, InStatements, Top
  <1>1. /\ TypeOK'
        /\ n' = n + 2
        /\ \A i \in 1..n : open'[i] = open[i]
        /\ open'[n + 1] = f /\ open'[n + 2] = g
    <2>1. /\ stack' \in Seq(Cleanup)
          /\ term' \in Block \union {None, Caller, Unwind}
          /\ run' \in Block \union {Here, Caller, Unwind}
          /\ made' = made /\ alive' \subseteq 1..made /\ twice' \subseteq 1..made
      BY <1>c, <1>n DEF TypeOK
    <2>2. /\ TypeOK'
          /\ n' = n - 0 + 2
          /\ \A i \in 1..n - 0 : open'[i] = open[i]
          /\ open'[n - 0 + 1] = f /\ open'[n - 0 + 2] = g
      BY <1>0, <1>n, <2>1, EnteredTwo
    <2>. QED  BY <1>n, <2>2
  <1>3. \A i \in n + 1..n' : /\ open'[i].depth = Len(stack)
                             /\ open'[i - 1].kind \in Around(open'[i].kind)
                             /\ open'[i].kind = "throw" => Owned(stack, 0) = {}
                             /\ open'[i].kind = "while" => open'[i].entry = alive
    <2>. SUFFICES ASSUME NEW i \in n + 1..n'
                  PROVE  /\ open'[i].depth = Len(stack)
                         /\ open'[i - 1].kind \in Around(open'[i].kind)
                         /\ open'[i].kind = "throw" => Owned(stack, 0) = {}
                         /\ open'[i].kind = "while" => open'[i].entry = alive
      OBVIOUS
    <2>1. CASE i = n + 1
      <3>1. i - 1 = n /\ open'[i] = f /\ open'[n] = open[n]
        BY <1>c, <1>n, <1>1, <2>1
      <3>. QED  BY <1>0, <1>c, <3>1 DEF Around
    <2>2. CASE i = n + 2
      <3>1. i - 1 = n + 1 /\ open'[i] = g /\ open'[n + 1] = f
        BY <1>n, <1>1, <2>2
      <3>. QED  BY <1>0, <3>1 DEF Around
    <2>. QED  BY <1>n, <1>1, <2>1, <2>2
  <1>4. n \in 1..n' /\ open[n].kind \notin Tight
    BY <1>c, <1>n, <1>1 DEF Tight
  <1>. QED  BY <1>c, <1>1, <1>3, <1>4, EnterStep

\* A condition was evaluated: the execution enters the branch or passes it.
LEMMA ConditionStep ==
    ASSUME IInv, Generous = {}, NEW cond, NEW other,
           (cond = "ifCond" /\ other = "else") \/ (cond = "whileCond" /\ other = "merge"),
           Condition(cond, other)
    PROVE  IInv'
  <1>1. /\ n > 0 /\ open[n].kind = cond /\ Does({}, Temporaries, {})
        /\ stack' = Popped(stack, Top.depth)
        /\ open' = Leave(1) \o <<[Top EXCEPT !.kind = "scope"]>>
        /\ run' = run \/ (Runs /\ run' = <<other, n - 1>>)
        /\ UNCHANGED <<term, made>>
    BY DEF Condition, InExpr, Top
  <1>n. /\ n \in Nat /\ n \in 2..n /\ n - 1 \in 1..n /\ 1 \in 0..n /\ Top = open[n]
        /\ Top.depth \in Nat /\ Top.depth \in 0..Len(stack) /\ made \in Nat
        /\ n <= MaxOpen /\ MaxOpen \in Nat /\ TypeOK
    BY <1>1, InvFacts DEF IInv
  <1>none. term = None
    BY <1>1 DEF IInv, TermInv, Exprs
  <1>b. /\ open[n - 1].kind = IF cond = "ifCond" THEN "if" ELSE "while"
        /\ open[n - 1].kind \in Tight /\ open[n - 1].depth = open[n].depth
    <2>1. open[n - 1].kind = IF cond = "ifCond" THEN "if" ELSE "while"
      BY <1>1, InvFacts DEF Around
    <2>2. open[n - 1].kind \in Tight
      BY <2>1 DEF Tight
    <2>. QED  BY <1>n, <2>1, <2>2 DEF IInv, OpenInv
  <1>2. PICK f \in Construct :
            f.kind = "scope" /\ f.depth = Top.depth /\ open' = Leave(1) \o <<f>>
    <2>1. "scope" \in Kinds
      BY DEF Kinds
    <2>. QED  BY <1>1, <1>n, <2>1, KindChanged
  <1>3. /\ n' = n
        /\ \A i \in 1..n - 1 : open'[i] = open[i]
        /\ open'[n] = f
    <2>1. /\ Len(Leave(1) \o <<f>>) = n - 1 + 1
          /\ \A i \in 1..n - 1 : (Leave(1) \o <<f>>)[i] = open[i]
          /\ (Leave(1) \o <<f>>)[n - 1 + 1] = f
      BY <1>n, EnterOne
    <2>. QED  BY <1>2, <1>n, <2>1 DEF n
  <1>4. Like(stack, {}) /\ Result(Popped(stack, Top.depth), FALSE)
    BY <1>1, LikeStack DEF IInv, Result
  <1>5. /\ stack' \in Seq(Cleanup) /\ StackInv'
        /\ Len(stack') = Top.depth
        /\ \A e \in 0..Top.depth : Below(stack', e) = Below(stack, e)
    <2>1. /\ stack' \in Seq(Cleanup) /\ StackInv'
          /\ Len(stack') = IF FALSE THEN Top.depth + 1 ELSE Top.depth
          /\ \A e \in 0..Top.depth : Below(stack', e) = Below(stack, e) \ {}
      BY <1>4, <1>n, ResultStep DEF IInv
    <2>. QED  BY <2>1
  <1>p. /\ Owned(stack', 0) = Below(stack, Top.depth)
        /\ Owned(stack, 0) = Owned(stack, Top.depth) \union Below(stack, Top.depth)
        /\ Owned(stack, Top.depth) \intersect Below(stack, Top.depth) = {}
    <2>1. made + 1..made' = {}
      BY <1>1, <1>n
    <2>2. /\ Owned(stack', 0) = (Below(stack, Top.depth) \ {}) \union (made + 1..made')
          /\ Owned(stack, 0) = Owned(stack, Top.depth) \union Below(stack, Top.depth)
          /\ Owned(stack, Top.depth) \intersect Below(stack, Top.depth) = {}
      BY <1>1, <1>4, PopFacts
    <2>. QED  BY <2>1, <2>2
  <1>6. Runs => alive = Owned(stack, 0)
    BY <1>none, BlockFacts, InvFacts
  <1>7. /\ twice' = {} /\ (~Runs => alive' = alive)
        /\ Runs => alive' = Below(stack, Top.depth)
    <2>1. Temporaries = Owned(stack, Top.depth)
      BY DEF Temporaries
    <2>2. twice' = {} /\ (~Runs => alive' = alive) /\ (Runs => alive' = alive \ Temporaries)
      BY <1>1, <1>6, <1>p, <2>1, DoesStep
    <2>. QED  BY <1>6, <1>p, <2>1, <2>2
  <1>w. Runs /\ run' # run => /\ run' = <<other, n - 1>> /\ run' \in Block
                             /\ run'[1] = other /\ run'[2] = n - 1
    BY <1>1, <1>n DEF Block
  <1>8. TypeOK'
    <2>1. open' \in Seq(Construct)
      BY <1>2, <1>n, EnterOne
    <2>2. run' \in Block \union {Here, Caller, Unwind}
      BY <1>1, <1>w DEF IInv, TypeOK
    <2>3. alive' \subseteq 1..made
      <3>1. Below(stack, Top.depth) \subseteq 1..made
        BY <1>n, OwnedMade DEF IInv
      <3>. QED  BY <1>7, <3>1 DEF IInv, TypeOK
    <2>. QED  BY <1>1, <1>3, <1>5, <1>7, <1>n, <2>1, <2>2, <2>3 DEF TypeOK
  <1>9. Kept(n - 1)
    <2>1. \A i \in 1..n - 1 : open[i].depth \in 0..Top.depth
      <3>1. \A i \in 1..n : open[i].depth \in Nat
        BY InvFacts
      <3>. QED  BY <1>n, <3>1 DEF IInv, OpenInv
    <2>. QED  BY <1>3, <1>5, <1>n, <2>1 DEF Kept
  <1>10. OpenInv'
    <2>1. \A i \in 1..n - 1 : Below(stack', open[i].depth) \subseteq Below(stack, open[i].depth)
      <3>1. \A i \in 1..n : open[i].depth \in Nat
        BY InvFacts
      <3>2. \A i \in 1..n - 1 : open[i].depth \in 0..Top.depth
        BY <1>n, <3>1 DEF IInv, OpenInv
      <3>. QED  BY <1>5, <3>2
    <2>2. open[n - 1].depth <= Len(stack') /\ open[n - 1].depth = Len(stack')
      BY <1>5, <1>b, <1>n
    <2>3. \A i \in n - 1 + 1..n' : /\ open'[i].depth = Len(stack')
                                   /\ open'[i - 1].kind \in Around(open'[i].kind)
                                   /\ open'[i].kind = "throw" => Owned(stack', 0) = {}
      <3>. SUFFICES ASSUME NEW i \in n - 1 + 1..n'
                    PROVE  /\ open'[i].depth = Len(stack')
                           /\ open'[i - 1].kind \in Around(open'[i].kind)
                           /\ open'[i].kind = "throw" => Owned(stack', 0) = {}
        OBVIOUS
      <3>1. i = n /\ open'[i - 1] = open[n - 1] /\ open'[i] = f
        BY <1>3, <1>n
      <3>. QED  BY <1>2, <1>5, <1>b, <3>1 DEF Around
    <2>4. n - 1 \in 1..n /\ n - 1 <= n'
      BY <1>3, <1>n
    <2>. QED  BY <1>3, <1>8, <2>1, <2>2, <2>3, <2>4, OpenStep DEF IInv
  <1>11. EntryInv'
    <2>1. ASSUME NEW i \in n - 1 + 1..n' PROVE open'[i].kind # "while"
      <3>1. i = n /\ open'[i] = f
        BY <1>3, <1>n
      <3>. QED  BY <1>2, <3>1
    <2>2. Runs \/ run' = run
      BY <1>1
    <2>. QED  BY <1>8, <1>9, <2>1, <2>2, EntryStep DEF IInv
  <1>12. AliveInv'
    <2>1. CASE ~Runs
      <3>1. open[n].kind \notin Forks
        BY <1>1 DEF Forks
      <3>. QED  BY <1>1, <1>7, <1>8, <1>9, <2>1, <3>1, WaitStep DEF IInv
    <2>2. CASE Runs /\ run' = run
      <3>1. run' = Here /\ n' > 0 /\ term' = None /\ alive' = Owned(stack', 0)
        BY <1>1, <1>3, <1>7, <1>none, <1>p, <2>2 DEF Runs
      <3>. QED  BY <3>1, BlockFacts DEF AliveInv
    <2>3. CASE Runs /\ run' # run
      <3>1. /\ run' \in Block /\ run'[1] = other /\ run'[2] = n - 1 /\ n - 1 \in 1..n'
            /\ open'[n - 1] = open[n - 1]
        BY <1>3, <1>n, <1>w, <2>3
      <3>2. open'[n - 1].kind \in WaitsAt(other) /\ other # "uncaught"
        BY <1>b, <1>1, <3>1 DEF WaitsAt, Tight
      <3>3. alive' = Below(stack', open'[n - 1].depth)
        BY <1>5, <1>7, <1>b, <1>n, <2>3, <3>1
      <3>4. ~Runs' /\ run' \notin {Caller, Unwind}
        BY <3>1, BlockFacts DEF Runs
      <3>. QED  BY <3>1, <3>2, <3>3, <3>4 DEF AliveInv
    <2>. QED  BY <1>1, <2>1, <2>2, <2>3
  <1>13. TermInv'
    BY <1>1, <1>none, BlockFacts DEF TermInv
  <1>. QED  BY <1>5, <1>7, <1>8, <1>10, <1>11, <1>12, <1>13 DEF IInv

-----------------------------------------------------------------------------
(* Where blocks begin.                                                      *)

\* When the generator leaves the block, the execution waits where the stack
\* says what is alive, or it has left.
LEMMA GoneSettled ==
    ASSUME IInv, n > 0, open[n].kind \in Tight,
           NEW w \in {"merge", "continue"}, open[n].kind \in WaitsAt(w)
    PROVE  /\ Gone(<<w, n>>) # Here
           /\ ~Runs => Gone(<<w, n>>) = run
           /\ Gone(<<w, n>>) \in {Caller, Unwind} => alive = {}
           /\ Gone(<<w, n>>) \in Block \union {Caller, Unwind}
           /\ Gone(<<w, n>>) \in Block =>
                 /\ Gone(<<w, n>>)[2] \in 1..n
                 /\ open[Gone(<<w, n>>)[2]].kind \in WaitsAt(Gone(<<w, n>>)[1])
                 /\ alive = Below(stack, open[Gone(<<w, n>>)[2]].depth)
                 /\ Runs => Gone(<<w, n>>)[1] \in {"merge", "continue"}
                 /\ (/\ Gone(<<w, n>>)[1] = "uncaught"
                     /\ \A i \in 1..Gone(<<w, n>>)[2] : open[i].kind # "do") => alive = {}
  <1>n. n \in 1..n /\ n \in Nat /\ n <= MaxOpen /\ MaxOpen \in Nat
    BY InvFacts
  <1>d. open[n].depth = Len(stack) /\ Owned(stack, 0) = Below(stack, Len(stack))
    BY InvFacts DEF IInv, OpenInv
  <1>r. run \in Block \/ run = Here \/ run = Caller \/ run = Unwind
    BY RunCases DEF IInv
  <1>t. term \in Block \/ term = None \/ term = Caller \/ term = Unwind
    BY RunCases DEF IInv
  <1>1. CASE ~Runs
    <2>1. Gone(<<w, n>>) = run
      BY <1>1 DEF Gone
    <2>. QED  BY <1>1, <1>r, <2>1 DEF IInv, AliveInv, Runs
  <1>2. CASE Runs /\ term = None
    <2>1. Gone(<<w, n>>) = <<w, n>>
      BY <1>2 DEF Gone
    <2>2. <<w, n>> \in Block /\ <<w, n>>[1] = w /\ <<w, n>>[2] = n
      BY <1>n DEF Block
    <2>3. alive = Below(stack, open[n].depth)
      BY <1>2, <1>d, BlockFacts, InvFacts
    <2>4. w # "uncaught"
      OBVIOUS
    <2>5. <<w, n>> \notin {Caller, Unwind} /\ <<w, n>> # Here
      BY <2>2, BlockFacts
    <2>. HIDE DEF Gone
    <2>. QED  BY <1>2, <1>n, <2>1, <2>2, <2>3, <2>4, <2>5
  <1>3. CASE Runs /\ term \in {Caller, Unwind}
    <2>1. Gone(<<w, n>>) = term
      BY <1>3, BlockFacts DEF Gone
    <2>. QED  BY <1>3, <2>1, BlockFacts DEF IInv, AliveInv
  <1>4. CASE Runs /\ term \in Block
    <2>1. Gone(<<w, n>>) = term /\ term \notin {Caller, Unwind} /\ term # Here
      BY <1>4, BlockFacts DEF Gone
    <2>2. /\ term[1] \in {"merge", "continue"} /\ term[2] \in 1..n
          /\ open[term[2]].kind = "while" /\ open[term[2]].depth = Len(stack)
      BY <1>4 DEF IInv, TermInv
    <2>3. open[term[2]].kind \in WaitsAt(term[1]) /\ term[1] # "uncaught"
      BY <2>2 DEF WaitsAt, Tight
    <2>4. alive = Below(stack, open[term[2]].depth)
      BY <1>4, <1>d, <2>1, <2>2, InvFacts
    <2>. QED  BY <1>4, <2>1, <2>2, <2>3, <2>4
  <1>. QED  BY <1>1, <1>2, <1>3, <1>4, <1>t

\* The innermost construct ends, or goes on as another; what waits for this
\* goes on, what waits for another one still waits.
LEMMA BlockStep ==
    ASSUME IInv, TypeOK', n > 0, open[n].kind \in Tight,
           NEW w \in {"merge", "continue"}, open[n].kind \in WaitsAt(w),
           NEW B, SetInsertPoint(B, <<w, n>>),
           \A b \in B : b \in Block /\ b[2] = n,
           LET G == Gone(<<w, n>>)
           IN  (G \in Block /\ G[2] = n) =>
                  \/ G \in B
                  \/ /\ n \in 1..n' /\ open'[n].kind \in WaitsAt(G[1])
                     /\ open'[n].depth = open[n].depth /\ G[1] # "uncaught",
           OpenInv', Kept(n - 1), n - 1 \in 1..n',
           \A i \in n..n' : open'[i].kind # "while",
           UNCHANGED <<stack, made, alive, twice>>
    PROVE  IInv'
  <1>. DEFINE G == Gone(<<w, n>>)
  <1>n. n \in 1..n /\ n \in Nat /\ n' \in Nat /\ n - 1 \in Nat
    BY InvFacts DEF TypeOK, n
  <1>d. open[n].depth = Len(stack) /\ Owned(stack, 0) = Below(stack, Len(stack))
    BY InvFacts DEF IInv, OpenInv
  <1>g. /\ G # Here
        /\ ~Runs => G = run
        /\ G \in {Caller, Unwind} => alive = {}
        /\ G \in Block \union {Caller, Unwind}
        /\ G \in Block =>
              /\ G[2] \in 1..n
              /\ open[G[2]].kind \in WaitsAt(G[1])
              /\ alive = Below(stack, open[G[2]].depth)
              /\ (G[1] = "uncaught" /\ \A i \in 1..G[2] : open[i].kind # "do") => alive = {}
    BY GoneSettled
  <1>1. /\ run' = IF G \in B THEN Here ELSE G
        /\ term' = None
    BY DEF SetInsertPoint
  <1>2. (G \in Block /\ G[2] = n) =>
                  \/ G \in B
                  \/ /\ n \in 1..n' /\ open'[n].kind \in WaitsAt(G[1])
                     /\ open'[n].depth = open[n].depth /\ G[1] # "uncaught"
    OBVIOUS
  <1>. HIDE DEF G
  <1>3. StackInv'
    BY DEF IInv, StackInv, Increasing
  <1>4. TermInv'
    BY <1>1, BlockFacts DEF TermInv
  <1>5. EntryInv'
    <2>1. Runs \/ run' = run \/ (run \in Block /\ run[2] = n)
      BY <1>1, <1>g
    <2>2. \A i \in n - 1 + 1..n' : open'[i].kind # "while"
      BY <1>n
    <2>. QED  BY <2>1, <2>2, EntryStep DEF IInv
  <1>6. AliveInv'
    <2>1. CASE G \in B
      <3>1. alive = Owned(stack, 0)
        BY <1>d, <1>g, <2>1
      <3>2. run' = Here /\ n' > 0 /\ Owned(stack', 0) = Owned(stack, 0)
        BY <1>1, <1>n, <2>1
      <3>. QED  BY <1>1, <3>1, <3>2, BlockFacts DEF AliveInv
    <2>2. CASE G \notin B /\ G \in {Caller, Unwind}
      <3>1. run' = G /\ alive' = {}
        BY <1>1, <1>g, <2>2
      <3>. QED  BY <1>g, <2>2, <3>1, BlockFacts DEF AliveInv, Runs
    <2>3. CASE G \notin B /\ G \in Block /\ G[2] # n
      <3>1. run' = G /\ ~Runs' /\ G \notin {Caller, Unwind}
        BY <1>1, <1>g, <2>3, BlockFacts DEF Runs
      <3>2. G[2] \in 1..n - 1
        BY <1>g, <1>n, <2>3
      <3>3. \A i \in 1..n - 1 : open'[i] = open[i]
        BY DEF Kept
      <3>4. open'[G[2]] = open[G[2]] /\ G[2] \in 1..n'
        BY <1>n, <3>2, <3>3
      <3>5. alive' = Below(stack', open'[G[2]].depth)
        BY <1>g, <2>3, <3>4 DEF Below
      <3>6. \A i \in 1..G[2] : open'[i] = open[i]
        BY <1>n, <3>2, <3>3
      <3>7. (G[1] = "uncaught" /\ \A i \in 1..G[2] : open'[i].kind # "do") => alive' = {}
        BY <1>g, <2>3, <3>6
      <3>. QED  BY <1>g, <2>3, <3>1, <3>4, <3>5, <3>7 DEF AliveInv
    <2>4. CASE G \notin B /\ G \in Block /\ G[2] = n
      <3>1. run' = G /\ ~Runs' /\ G \notin {Caller, Unwind}
        BY <1>1, <1>g, <2>4, BlockFacts DEF Runs
      <3>2. /\ n \in 1..n' /\ open'[n].kind \in WaitsAt(G[1])
            /\ open'[n].depth = open[n].depth /\ G[1] # "uncaught"
        BY <1>2, <2>4
      <3>3. alive' = Below(stack', open'[G[2]].depth)
        BY <1>g, <2>4, <3>2 DEF Below
      <3>. QED  BY <2>4, <3>1, <3>2, <3>3 DEF AliveInv
    <2>. QED  BY <1>g, <2>1, <2>2, <2>3, <2>4
  <1>. QED  BY <1>3, <1>4, <1>5, <1>6 DEF IInv

\* A construct is left that holds no cleanups of its own.
LEMMA TightLeft ==
    ASSUME IInv, n > 0, open[n].kind \in Tight, open' = Leave(1), TypeOK', stack' = stack
    PROVE  /\ n' = n - 1 /\ n - 1 \in 1..n' /\ n - 1 \in 1..n /\ n \in 2..n
           /\ \A i \in 1..n - 1 : open'[i] = open[i]
           /\ OpenInv' /\ Kept(n - 1)
           /\ Runs \/ run' = run \/ (run \in Block /\ run[2] = n) => EntryInv'
           /\ \A i \in n..n' : open'[i].kind # "while"
  <1>1. open[n].kind # "function" /\ open[n].depth = Len(stack)
    BY DEF Tight, IInv, OpenInv
  <1>n. n \in 2..n /\ n \in Nat
    BY <1>1, InvFacts
  <1>2. /\ \A e \in 0..open[n].depth : Below(stack', e) = Below(stack, e) \ {}
        /\ \A i \in 1..n - 1 : open[i].kind \in Forks =>
               Below(stack, open[i].depth) \ {} = Below(stack, open[i].depth)
        /\ open[n].depth = Len(stack') /\ open[n].depth <= Len(stack')
    BY <1>1, InvFacts
  <1>3. /\ n' = n - 1 /\ n - 1 \in 1..n
        /\ \A i \in 1..n - 1 : open'[i] = open[i]
        /\ Kept(n - 1)
        /\ OpenInv'
        /\ Runs \/ run' = run \/ (run \in Block /\ run[2] = n) => EntryInv'
    BY <1>1, <1>2, LeaveStep
  <1>. QED  BY <1>3, <1>n

LEMMA BlockTyped ==
    ASSUME IInv, n > 0, open[n].kind \in Tight, open' = Leave(1),
           NEW w \in {"merge", "continue"}, open[n].kind \in WaitsAt(w),
           NEW B, SetInsertPoint(B, <<w, n>>), UNCHANGED <<stack, made, alive, twice>>
    PROVE  TypeOK'
  <1>1. Gone(<<w, n>>) \in Block \union {Caller, Unwind}
    BY GoneSettled
  <1>2. /\ run' \in Block \union {Here, Caller, Unwind}
        /\ term' \in Block \union {None, Caller, Unwind}
    BY <1>1 DEF SetInsertPoint
  <1>3. TypeOK /\ stack' \in Seq(Cleanup) /\ made' \in 0..MaxValues
        /\ alive' \subseteq 1..made' /\ twice' \subseteq 1..made'
    BY DEF IInv, TypeOK
  <1>. QED  BY <1>2, <1>3, LeaveTyped

\* The ends of if, else and while, and of catch for an error of its own.
LEMMA TightEnds ==
    ASSUME IInv, n > 0, open[n].kind \in Tight, open' = Leave(1),
           NEW w \in {"merge", "continue"}, open[n].kind \in WaitsAt(w),
           NEW B, SetInsertPoint(B, <<w, n>>),
           \A b \in B : b \in Block /\ b[2] = n,
           LET G == Gone(<<w, n>>) IN (G \in Block /\ G[2] = n) => G \in B,
           UNCHANGED <<stack, made, alive, twice>>
    PROVE  IInv'
  <1>1. TypeOK'
    BY BlockTyped
  <1>2. /\ n' = n - 1 /\ n - 1 \in 1..n' /\ OpenInv' /\ Kept(n - 1)
        /\ \A i \in n..n' : open'[i].kind # "while"
    BY <1>1, TightLeft
  <1>. QED  BY <1>1, <1>2, BlockStep

\* The blocks of each construct.
LEMMA BlocksOf ==
    ASSUME NEW b \in Block, NEW kind, kind \in WaitsAt(b[1]), NEW i, b[2] = i
    PROVE  /\ kind = "if" => b \in {<<"else", i>>, <<"merge", i>>}
           /\ kind = "else" => b = <<"merge", i>>
           /\ kind = "while" => b \in {<<"continue", i>>, <<"merge", i>>}
           /\ kind = "catch" => b \in {<<"uncaught", i>>, <<"merge", i>>}
           /\ kind = "do" => b = <<"lpad", i>>
           /\ kind # "function"
  <1>1. b = <<b[1], i>> /\ b[1] \in {"else", "merge", "continue", "lpad", "uncaught"}
    BY BlockFacts
  <1>2. CASE b[1] = "else"
    BY <1>1, <1>2 DEF WaitsAt
  <1>3. CASE b[1] = "merge"
    BY <1>1, <1>3 DEF WaitsAt, Tight
  <1>4. CASE b[1] = "continue"
    BY <1>1, <1>4 DEF WaitsAt
  <1>5. CASE b[1] = "lpad"
    BY <1>1, <1>5 DEF WaitsAt
  <1>6. CASE b[1] = "uncaught"
    BY <1>1, <1>6 DEF WaitsAt
  <1>. QED  BY <1>1, <1>2, <1>3, <1>4, <1>5, <1>6

LEMMA NamedBlock ==
    ASSUME IInv, n > 0, NEW w \in {"else", "merge", "continue", "lpad", "uncaught"}
    PROVE  <<w, n>> \in Block /\ <<w, n>>[1] = w /\ <<w, n>>[2] = n
  <1>1. n \in 1..MaxOpen
    BY InvFacts
  <1>. QED  BY <1>1 DEF Block

LEMMA EndIfStep ==
    ASSUME IInv, EndIf
    PROVE  IInv'
  <1>. DEFINE B == {<<"else", n>>, <<"merge", n>>}
              G == Gone(<<"merge", n>>)
  <1>1. /\ n > 0 /\ open[n].kind = "if" /\ open' = Leave(1)
        /\ SetInsertPoint(B, <<"merge", n>>) /\ UNCHANGED <<stack, made, alive, twice>>
    BY DEF EndIf, InExpr, Top
  <1>2. open[n].kind \in Tight /\ open[n].kind \in WaitsAt("merge")
    BY <1>1 DEF Tight, WaitsAt
  <1>3. \A b \in B : b \in Block /\ b[2] = n
    BY <1>1, NamedBlock
  <1>4. G \in Block => open[G[2]].kind \in WaitsAt(G[1])
    BY <1>1, <1>2, GoneSettled
  <1>5. (G \in Block /\ G[2] = n) => G \in B
    <2>. HIDE DEF G
    <2>. QED  BY <1>1, <1>4, BlocksOf
  <1>. HIDE DEF B
  <1>. QED  BY <1>1, <1>2, <1>3, <1>5, TightEnds

LEMMA EndElseStep ==
    ASSUME IInv, EndElse
    PROVE  IInv'
  <1>. DEFINE B == {<<"merge", n>>}
              G == Gone(<<"merge", n>>)
  <1>1. /\ n > 0 /\ open[n].kind = "else" /\ open' = Leave(1)
        /\ SetInsertPoint(B, <<"merge", n>>) /\ UNCHANGED <<stack, made, alive, twice>>
    BY DEF EndElse, InExpr, Top
  <1>2. open[n].kind \in Tight /\ open[n].kind \in WaitsAt("merge")
    BY <1>1 DEF Tight, WaitsAt
  <1>3. \A b \in B : b \in Block /\ b[2] = n
    BY <1>1, NamedBlock
  <1>4. G \in Block => open[G[2]].kind \in WaitsAt(G[1])
    BY <1>1, <1>2, GoneSettled
  <1>5. (G \in Block /\ G[2] = n) => G \in B
    <2>. HIDE DEF G
    <2>. QED  BY <1>1, <1>4, BlocksOf
  <1>. HIDE DEF B
  <1>. QED  BY <1>1, <1>2, <1>3, <1>5, TightEnds

LEMMA EndWhileStep ==
    ASSUME IInv, EndWhile
    PROVE  IInv'
  <1>. DEFINE B == {<<"continue", n>>, <<"merge", n>>}
              G == Gone(<<"continue", n>>)
  <1>1. /\ n > 0 /\ open[n].kind = "while" /\ open' = Leave(1)
        /\ SetInsertPoint(B, <<"continue", n>>) /\ UNCHANGED <<stack, made, alive, twice>>
    BY DEF EndWhile, InExpr, Top
  <1>2. open[n].kind \in Tight /\ open[n].kind \in WaitsAt("continue")
    BY <1>1 DEF Tight, WaitsAt
  <1>3. \A b \in B : b \in Block /\ b[2] = n
    BY <1>1, NamedBlock
  <1>4. G \in Block => open[G[2]].kind \in WaitsAt(G[1])
    BY <1>1, <1>2, GoneSettled
  <1>5. (G \in Block /\ G[2] = n) => G \in B
    <2>. HIDE DEF G
    <2>. QED  BY <1>1, <1>4, BlocksOf
  <1>. HIDE DEF B
  <1>. QED  BY <1>1, <1>2, <1>3, <1>5, TightEnds

LEMMA BeginElseStep ==
    ASSUME IInv, BeginElse
    PROVE  IInv'
  <1>. DEFINE B == {<<"else", n>>}
              G == Gone(<<"merge", n>>)
  <1>1. /\ n > 0 /\ open[n].kind = "if" /\ Enter(1, <<Frame("else"), Frame("scope")>>)
        /\ SetInsertPoint(B, <<"merge", n>>) /\ UNCHANGED <<stack, made, alive, twice>>
    BY DEF BeginElse, InExpr, Top
  <1>2. open[n].kind \in Tight /\ open[n].kind \in WaitsAt("merge")
    BY <1>1 DEF Tight, WaitsAt
  <1>3. \A b \in B : b \in Block /\ b[2] = n
    BY <1>1, NamedBlock
  <1>4. /\ G \in Block => open[G[2]].kind \in WaitsAt(G[1])
        /\ G \in Block \union {Caller, Unwind}
    BY <1>1, <1>2, GoneSettled
  <1>n. /\ n \in Nat /\ n \in 2..n /\ n - 1 \in 1..n /\ 1 \in 0..n /\ TypeOK
        /\ open[n].depth = Len(stack) /\ open[n - 1].kind \in {"scope", "do"}
    <2>1. n \in Nat /\ n \in 2..n /\ n - 1 \in 1..n
      BY <1>1, InvFacts
    <2>2. open[n - 1].kind \in Around("if")
      BY <1>1, InvFacts
    <2>3. open[n].depth = Len(stack) /\ TypeOK
      BY <1>1, <1>2 DEF IInv, OpenInv
    <2>. QED  BY <2>1, <2>2, <2>3 DEF Around
  <1>5. PICK f \in Construct, g \in Construct :
            /\ f.kind = "else" /\ f.depth = Len(stack)
            /\ g.kind = "scope" /\ g.depth = Len(stack)
            /\ Enter(1, <<f, g>>)
    <2>1. "else" \in Kinds /\ "scope" \in Kinds
      BY DEF Kinds
    <2>. QED  BY <1>1, <1>n, <2>1, FrameTyped
  <1>6. /\ TypeOK' /\ n' = n + 1
        /\ \A i \in 1..n - 1 : open'[i] = open[i]
        /\ open'[n] = f /\ open'[n + 1] = g
    <2>1. /\ stack' \in Seq(Cleanup)
          /\ made' = made /\ alive' \subseteq 1..made /\ twice' \subseteq 1..made
      BY <1>1, <1>n DEF TypeOK
    <2>2. /\ term' \in Block \union {None, Caller, Unwind}
          /\ run' \in Block \union {Here, Caller, Unwind}
      BY <1>1, <1>4 DEF SetInsertPoint
    <2>3. /\ TypeOK' /\ n' = n - 1 + 2
          /\ \A i \in 1..n - 1 : open'[i] = open[i]
          /\ open'[n - 1 + 1] = f /\ open'[n - 1 + 2] = g
      BY <1>5, <1>n, <2>1, <2>2, EnteredTwo
    <2>. QED  BY <1>n, <2>3
  <1>7. Kept(n - 1)
    BY <1>1, <1>6, <1>n DEF Kept, Below
  <1>8. OpenInv'
    <2>1. \A i \in 1..n - 1 : Below(stack', open[i].depth) \subseteq Below(stack, open[i].depth)
      BY <1>1 DEF Below
    <2>2. open[n - 1].depth <= Len(stack') /\ open[n - 1].kind \notin Tight
      BY <1>1, <1>n, InvFacts DEF Tight
    <2>3. ASSUME NEW i \in n - 1 + 1..n'
          PROVE  /\ open'[i].depth = Len(stack')
                 /\ open'[i - 1].kind \in Around(open'[i].kind)
                 /\ open'[i].kind = "throw" => Owned(stack', 0) = {}
      <3>1. CASE i = n
        <4>1. open'[i] = f /\ open'[i - 1] = open[n - 1]
          BY <1>6, <1>n, <3>1
        <4>. QED  BY <1>1, <1>5, <1>n, <4>1 DEF Around
      <3>2. CASE i = n + 1
        <4>1. open'[i] = g /\ open'[i - 1] = f
          BY <1>6, <1>n, <3>2
        <4>. QED  BY <1>1, <1>5, <4>1 DEF Around, Tight
      <3>. QED  BY <1>6, <1>n, <3>1, <3>2
    <2>4. n - 1 \in 1..n /\ n - 1 <= n'
      BY <1>6, <1>n
    <2>. QED  BY <1>6, <2>1, <2>2, <2>3, <2>4, OpenStep DEF IInv
  <1>9. ASSUME NEW i \in n..n' PROVE open'[i].kind # "while"
    <2>1. i = n \/ i = n + 1
      BY <1>6, <1>n
    <2>. QED  BY <1>5, <1>6, <2>1
  <1>10. (G \in Block /\ G[2] = n) =>
             \/ G \in B
             \/ /\ n \in 1..n' /\ open'[n].kind \in WaitsAt(G[1])
                /\ open'[n].depth = open[n].depth /\ G[1] # "uncaught"
    <2>. HIDE DEF G
    <2>. SUFFICES ASSUME G \in Block, G[2] = n, G \notin B
                  PROVE  /\ n \in 1..n' /\ open'[n].kind \in WaitsAt(G[1])
                         /\ open'[n].depth = open[n].depth /\ G[1] # "uncaught"
      OBVIOUS
    <2>1. G = <<"merge", n>>
      BY <1>1, <1>4, BlocksOf
    <2>2. G[1] = "merge"
      BY <2>1
    <2>. QED  BY <1>5, <1>6, <1>n, <2>2 DEF WaitsAt, Tight
  <1>11. n - 1 \in 1..n'
    BY <1>6, <1>n
  <1>. HIDE DEF B
  <1>. QED  BY <1>1, <1>2, <1>3, <1>6, <1>7, <1>8, <1>9, <1>10, <1>11, BlockStep

\* The end of a catch: an error that is not caught goes to the outer handler,
\* and leaves what is below it.
LEMMA EndCatchStep ==
    ASSUME IInv, NEW h \in 0..n, EndCatch(h)
    PROVE  IInv'
  <1>1. /\ n > 0 /\ open[n].kind = "catch" /\ open' = Leave(1) /\ IsHandler(h)
        /\ UNCHANGED <<stack, made>>
    BY DEF EndCatch, InExpr, Top
  <1>2. open[n].kind \in Tight /\ open[n].kind \in WaitsAt("merge")
    BY <1>1 DEF Tight, WaitsAt
  <1>n. /\ n \in Nat /\ n \in 2..n /\ n - 1 \in 1..n /\ MaxOpen \in Nat /\ n <= MaxOpen
        /\ open[n].depth = Len(stack) /\ Owned(stack, 0) = Below(stack, Len(stack))
    BY <1>1, <1>2, InvFacts DEF IInv, OpenInv
  <1>3. CASE run # <<"uncaught", n>>
    <2>. DEFINE B == {<<"merge", n>>}
                G == Gone(<<"merge", n>>)
    <2>1. SetInsertPoint(B, <<"merge", n>>) /\ UNCHANGED <<alive, twice>>
      BY <1>3 DEF EndCatch
    <2>2. \A b \in B : b \in Block /\ b[2] = n
      BY <1>1, NamedBlock
    <2>3. /\ ~Runs => G = run
          /\ G \in Block => /\ open[G[2]].kind \in WaitsAt(G[1])
                            /\ Runs => G[1] \in {"merge", "continue"}
      BY <1>1, <1>2, GoneSettled
    <2>4. (G \in Block /\ G[2] = n) => G \in B
      <3>. HIDE DEF G
      <3>1. (G \in Block /\ G[2] = n) => G = <<"uncaught", n>> \/ G \in B
        BY <1>1, <2>3, BlocksOf
      <3>2. G = <<"uncaught", n>> => G[1] = "uncaught"
        OBVIOUS
      <3>. QED  BY <1>3, <2>3, <3>1, <3>2
    <2>. HIDE DEF B
    <2>. QED  BY <1>1, <1>2, <2>1, <2>2, <2>4, TightEnds
  <1>4. CASE run = <<"uncaught", n>>
    <2>1. /\ run' = LandingPad(h) /\ term' = None
          /\ Effect(h # 0, {}, Owned(stack, LandingDepth(h)), {})
      BY <1>4 DEF EndCatch
    <2>2. run \in Block /\ run[1] = "uncaught" /\ run[2] = n
      BY <1>1, <1>4, NamedBlock
    <2>3. /\ alive = Owned(stack, 0)
          /\ (\A i \in 1..n : open[i].kind # "do") => alive = {}
      BY <1>n, <2>2 DEF IInv, AliveInv
    <2>h. h # 0 => h \in 1..n /\ open[h].kind = "do" /\ h # n /\ h \in 1..n - 1
      <3>1. h # 0 => h \in Handlers
        BY <1>1 DEF IsHandler
      <3>2. h # 0 => h \in 1..n /\ open[h].kind = "do"
        BY <3>1 DEF Handlers
      <3>. QED  BY <1>1, <1>n, <3>2
    <2>d. h # 0 => /\ Owned(stack, 0) = Owned(stack, open[h].depth) \union Below(stack, open[h].depth)
                   /\ Owned(stack, open[h].depth) \intersect Below(stack, open[h].depth) = {}
                   /\ LandingDepth(h) = open[h].depth
      BY <2>h, SplitAt DEF LandingDepth
    <2>4. /\ twice' = {}
          /\ alive' = IF h = 0 THEN alive ELSE Below(stack, open[h].depth)
      <3>1. CASE h = 0
        BY <2>1, <3>1 DEF Effect, IInv
      <3>2. CASE h # 0
        BY <2>1, <2>3, <2>d, <3>2 DEF Effect, IInv
      <3>. QED  BY <3>1, <3>2
    <2>5. run' \in Block \union {Here, Caller, Unwind}
      BY <2>1, <2>h, <1>n DEF LandingPad, Block
    <2>6. TypeOK'
      <3>1. alive' \subseteq alive
        <4>1. CASE h = 0
          BY <2>4, <4>1
        <4>2. CASE h # 0
          BY <2>3, <2>4, <2>d, <4>2
        <4>. QED  BY <4>1, <4>2
      <3>2. TypeOK /\ stack' \in Seq(Cleanup) /\ made' \in 0..MaxValues
            /\ alive' \subseteq 1..made' /\ twice' \subseteq 1..made'
        BY <1>1, <2>4, <3>1 DEF IInv, TypeOK
      <3>3. term' \in Block \union {None, Caller, Unwind}
        BY <2>1
      <3>. QED  BY <1>1, <2>5, <3>2, <3>3, LeaveTyped
    <2>7. /\ n' = n - 1 /\ n - 1 \in 1..n' /\ OpenInv' /\ Kept(n - 1)
          /\ \A i \in 1..n - 1 : open'[i] = open[i]
          /\ EntryInv'
      BY <1>1, <1>2, <2>2, <2>6, TightLeft
    <2>8. StackInv'
      BY <1>1 DEF IInv, StackInv, Increasing
    <2>9. AliveInv'
      <3>1. CASE h = 0
        <4>1. Handlers = {}
          BY <1>1, <1>n, <3>1 DEF IsHandler, Handlers
        <4>2. alive' = {}
          BY <2>3, <2>4, <3>1, <4>1 DEF Handlers
        <4>3. run' = Unwind
          BY <2>1, <3>1 DEF LandingPad
        <4>. QED  BY <4>2, <4>3, BlockFacts DEF AliveInv, Runs
      <3>2. CASE h # 0
        <4>1. run' = <<"lpad", h>> /\ run' \in Block
          BY <1>n, <2>1, <2>h, <3>2 DEF LandingPad, Block
        <4>2. run'[1] = "lpad" /\ run'[2] = h /\ h \in 1..n' /\ open'[h] = open[h]
          BY <2>7, <2>h, <3>2, <4>1
        <4>3. open'[h].kind \in WaitsAt("lpad")
          BY <2>h, <3>2, <4>2 DEF WaitsAt
        <4>4. alive' = Below(stack', open'[h].depth)
          BY <1>1, <2>4, <3>2, <4>2 DEF Below
        <4>5. ~Runs' /\ run' \notin {Caller, Unwind}
          BY <4>1, BlockFacts DEF Runs
        <4>. QED  BY <4>1, <4>2, <4>3, <4>4, <4>5 DEF AliveInv
      <3>. QED  BY <3>1, <3>2
    <2>10. TermInv'
      BY <2>1, BlockFacts DEF TermInv
    <2>. QED  BY <2>4, <2>6, <2>7, <2>8, <2>9, <2>10 DEF IInv
  <1>. QED  BY <1>3, <1>4

\* The body of a do statement ends: the catch block begins with what was
\* there before the body.
LEMMA EndDoStep ==
    ASSUME IInv, Generous = {}, EndDo
    PROVE  IInv'
  <1>. DEFINE G == Gone(<<"merge", n>>)
  <1>1. /\ n > 0 /\ open[n].kind = "do" /\ Does({}, Temporaries, {})
        /\ stack' = Popped(stack, Top.depth) /\ made' = made /\ term' = None
    BY DEF EndDo, SetInsertPoint, InExpr, Top
  <1>n. /\ n \in Nat /\ n \in 2..n /\ n - 1 \in 1..n /\ 1 \in 0..n /\ Top = open[n]
        /\ Top.depth \in Nat /\ Top.depth \in 0..Len(stack) /\ made \in Nat
        /\ TypeOK /\ open[n - 1].kind \in {"scope", "do"}
    <2>1. /\ n \in Nat /\ n \in 2..n /\ n - 1 \in 1..n /\ Top = open[n] /\ made \in Nat
          /\ Top.depth \in Nat /\ Top.depth \in 0..Len(stack)
      BY <1>1, InvFacts
    <2>2. open[n - 1].kind \in Around("do")
      BY <1>1, InvFacts
    <2>. QED  BY <2>1, <2>2 DEF Around, IInv
  <1>c. term \notin {Caller, Unwind}
    BY <1>1 DEF IInv, TermInv
  <1>2. PICK f \in Construct, g \in Construct :
            /\ f.kind = "catch" /\ f.depth = Top.depth
            /\ g.kind = "scope" /\ g.depth = Top.depth
            /\ Enter(1, <<f, g>>)
    <2>1. "catch" \in Kinds /\ "scope" \in Kinds
      BY DEF Kinds
    <2>2. /\ [Top EXCEPT !.kind = "catch"] \in Construct
          /\ [Top EXCEPT !.kind = "catch"].kind = "catch"
          /\ [Top EXCEPT !.kind = "catch"].depth = Top.depth
      BY <1>1, <1>n, <2>1, KindChanged
    <2>3. PICK f \in Construct : f = [Top EXCEPT !.kind = "catch"] /\ f.kind = "catch" /\ f.depth = Top.depth
      BY <2>2
    <2>4. /\ [f EXCEPT !.kind = "scope"] \in Construct
          /\ [f EXCEPT !.kind = "scope"].kind = "scope"
          /\ [f EXCEPT !.kind = "scope"].depth = Top.depth
      BY <2>1, <2>3 DEF Construct
    <2>5. Enter(1, <<f, [f EXCEPT !.kind = "scope"]>>)
      BY <2>3 DEF EndDo
    <2>. QED  BY <2>3, <2>4, <2>5
  <1>3. Like(stack, {}) /\ Result(Popped(stack, Top.depth), FALSE)
    BY <1>1, LikeStack DEF IInv, Result
  <1>4. /\ stack' \in Seq(Cleanup) /\ StackInv'
        /\ Len(stack') = Top.depth
        /\ \A e \in 0..Top.depth : Below(stack', e) = Below(stack, e)
    <2>1. /\ stack' \in Seq(Cleanup) /\ StackInv'
          /\ Len(stack') = IF FALSE THEN Top.depth + 1 ELSE Top.depth
          /\ \A e \in 0..Top.depth : Below(stack', e) = Below(stack, e) \ {}
      BY <1>3, <1>n, ResultStep DEF IInv
    <2>. QED  BY <2>1
  <1>p. /\ Owned(stack', 0) = Below(stack, Top.depth)
        /\ Owned(stack, 0) = Owned(stack, Top.depth) \union Below(stack, Top.depth)
        /\ Owned(stack, Top.depth) \intersect Below(stack, Top.depth) = {}
    <2>1. made + 1..made' = {}
      BY <1>1, <1>n
    <2>2. /\ Owned(stack', 0) = (Below(stack, Top.depth) \ {}) \union (made + 1..made')
          /\ Owned(stack, 0) = Owned(stack, Top.depth) \union Below(stack, Top.depth)
          /\ Owned(stack, Top.depth) \intersect Below(stack, Top.depth) = {}
      BY <1>1, <1>3, PopFacts
    <2>. QED  BY <2>1, <2>2
  <1>5. /\ twice' = {} /\ (~Runs => alive' = alive)
        /\ Runs => alive = Owned(stack, 0) /\ alive' = Below(stack, Top.depth)
    <2>1. Temporaries = Owned(stack, Top.depth)
      BY DEF Temporaries
    <2>2. Runs => alive = Owned(stack, 0)
      BY <1>c, InvFacts
    <2>3. twice' = {} /\ (~Runs => alive' = alive) /\ (Runs => alive' = alive \ Temporaries)
      BY <1>1, <1>p, <2>1, <2>2, DoesStep
    <2>. QED  BY <1>p, <2>1, <2>2, <2>3
  <1>d. \A i \in 1..n : open[i].depth \in Nat /\ open[i].depth \in 0..Top.depth
    <2>1. \A i \in 1..n : open[i].depth \in Nat
      BY InvFacts
    <2>. QED  BY <1>n, <2>1 DEF IInv, OpenInv
  <1>g. /\ ~Runs => G = run
        /\ Runs => \/ G = <<"merge", n>>
                   \/ /\ G = term /\ term \in Block /\ term[2] \in 1..n - 1
                      /\ term[1] \in {"merge", "continue"} /\ open[term[2]].kind = "while"
                      /\ Top.depth = Len(stack) /\ open[term[2]].depth = Len(stack)
    <2>1. CASE ~Runs
      BY <2>1 DEF Gone
    <2>2. CASE Runs /\ term = None
      BY <2>2 DEF Gone
    <2>3. CASE Runs /\ term # None
      <3>1. G = term /\ term \in Block
        BY <1>c, <2>3, RunCases DEF Gone, IInv
      <3>2. /\ term[1] \in {"merge", "continue"} /\ term[2] \in 1..n
            /\ open[term[2]].kind = "while" /\ open[term[2]].depth = Len(stack)
        BY <3>1 DEF IInv, TermInv
      <3>3. term[2] \in 1..n - 1
        BY <1>1, <1>n, <3>2
      <3>4. Top.depth = Len(stack)
        BY <1>d, <1>n, <3>2, InvFacts
      <3>. QED  BY <2>3, <3>1, <3>2, <3>3, <3>4
    <2>. QED  BY <2>1, <2>2, <2>3
  <1>r. \/ run' = IF G \in {<<"lpad", n>>} THEN Here ELSE G
        \/ /\ run = <<"lpad", n>> /\ run' = <<"uncaught", n>>
           /\ Handlers # {n} \/ Owned(stack, 0) = {}
    BY DEF EndDo, SetInsertPoint
  <1>b. \A w \in {"else", "merge", "continue", "lpad", "uncaught"} :
            <<w, n>> \in Block /\ <<w, n>>[1] = w /\ <<w, n>>[2] = n
    BY <1>1, NamedBlock
  <1>. HIDE DEF G
  <1>6. run' \in Block \union {Here, Caller, Unwind}
    BY <1>b, <1>g, <1>r DEF IInv, TypeOK
  <1>7. /\ TypeOK' /\ n' = n + 1
        /\ \A i \in 1..n - 1 : open'[i] = open[i]
        /\ open'[n] = f /\ open'[n + 1] = g
    <2>1. alive' \subseteq 1..made /\ twice' \subseteq 1..made
      <3>1. Below(stack, Top.depth) \subseteq 1..made
        BY <1>n, OwnedMade DEF IInv
      <3>. QED  BY <1>5, <3>1 DEF IInv, TypeOK
    <2>2. term' \in Block \union {None, Caller, Unwind}
      BY <1>1
    <2>3. /\ TypeOK' /\ n' = n - 1 + 2
          /\ \A i \in 1..n - 1 : open'[i] = open[i]
          /\ open'[n - 1 + 1] = f /\ open'[n - 1 + 2] = g
      BY <1>1, <1>2, <1>4, <1>6, <1>n, <2>1, <2>2, EnteredTwo
    <2>. QED  BY <1>n, <2>3
  <1>8. Kept(n - 1)
    <2>1. \A i \in 1..n - 1 : Below(stack', open[i].depth) = Below(stack, open[i].depth)
      BY <1>4, <1>d, <1>n
    <2>. QED  BY <1>7, <1>n, <2>1 DEF Kept
  <1>9. OpenInv'
    <2>1. \A i \in 1..n - 1 : Below(stack', open[i].depth) \subseteq Below(stack, open[i].depth)
      BY <1>4, <1>d, <1>n
    <2>2. open[n - 1].depth <= Len(stack') /\ open[n - 1].kind \notin Tight
      BY <1>4, <1>d, <1>n DEF Tight
    <2>3. ASSUME NEW i \in n - 1 + 1..n'
          PROVE  /\ open'[i].depth = Len(stack')
                 /\ open'[i - 1].kind \in Around(open'[i].kind)
                 /\ open'[i].kind = "throw" => Owned(stack', 0) = {}
      <3>1. CASE i = n
        <4>1. open'[i] = f /\ open'[i - 1] = open[n - 1]
          BY <1>7, <1>n, <3>1
        <4>. QED  BY <1>2, <1>4, <1>n, <4>1 DEF Around
      <3>2. CASE i = n + 1
        <4>1. open'[i] = g /\ open'[i - 1] = f
          BY <1>7, <1>n, <3>2
        <4>. QED  BY <1>2, <1>4, <4>1 DEF Around, Tight
      <3>. QED  BY <1>7, <1>n, <3>1, <3>2
    <2>4. n - 1 \in 1..n /\ n - 1 <= n'
      BY <1>7, <1>n
    <2>. QED  BY <1>7, <2>1, <2>2, <2>3, <2>4, OpenStep DEF IInv
  <1>10. EntryInv'
    <2>1. ASSUME NEW i \in n - 1 + 1..n' PROVE open'[i].kind # "while"
      <3>1. i = n \/ i = n + 1
        BY <1>7, <1>n
      <3>. QED  BY <1>2, <1>7, <3>1
    <2>2. Runs \/ run' = run \/ (run \in Block /\ run[2] = n)
      BY <1>b, <1>g, <1>r
    <2>. QED  BY <1>7, <1>8, <2>1, <2>2, EntryStep DEF IInv
  <1>11. AliveInv'
    <2>k. \A i \in 1..n - 1 : /\ i \in 1..n' /\ open'[i] = open[i]
                              /\ Below(stack', open[i].depth) = Below(stack, open[i].depth)
      BY <1>4, <1>7, <1>d, <1>n
    <2>n. n \in 1..n' /\ open'[n] = f /\ Below(stack', f.depth) = Below(stack, Top.depth)
      BY <1>2, <1>4, <1>7, <1>n
    <2>1. CASE Runs /\ G = <<"merge", n>>
      <3>1. run' = <<"merge", n>>
        BY <1>b, <1>r, <2>1, BlockFacts DEF Runs
      <3>2. run' \in Block /\ run'[1] = "merge" /\ run'[2] = n
        BY <1>b, <3>1
      <3>3. f.kind \in WaitsAt("merge")
        BY <1>2 DEF WaitsAt, Tight
      <3>4. ~Runs' /\ run' \notin {Caller, Unwind}
        BY <3>2, BlockFacts DEF Runs
      <3>. QED  BY <1>5, <2>1, <2>n, <3>2, <3>3, <3>4 DEF AliveInv
    <2>2. CASE Runs /\ G # <<"merge", n>>
      <3>1. /\ G = term /\ term \in Block /\ term[2] \in 1..n - 1
            /\ term[1] \in {"merge", "continue"} /\ open[term[2]].kind = "while"
            /\ Top.depth = Len(stack) /\ open[term[2]].depth = Len(stack)
        BY <1>g, <2>2
      <3>2. run' = term
        <4>1. G # <<"lpad", n>> /\ run # <<"lpad", n>>
          BY <1>b, <2>2, <3>1, BlockFacts DEF Runs
        <4>. QED  BY <1>r, <3>1, <4>1
      <3>3. /\ term[2] \in 1..n' /\ open'[term[2]] = open[term[2]]
            /\ Below(stack', open[term[2]].depth) = Below(stack, open[term[2]].depth)
        BY <2>k, <3>1
      <3>4. open'[term[2]].kind \in WaitsAt(term[1]) /\ term[1] # "uncaught"
        BY <3>1, <3>3 DEF WaitsAt, Tight
      <3>5. alive' = Below(stack', open'[term[2]].depth)
        BY <1>5, <2>2, <3>1, <3>3
      <3>6. ~Runs' /\ run' \notin {Caller, Unwind}
        BY <3>1, <3>2, BlockFacts DEF Runs
      <3>. QED  BY <3>1, <3>2, <3>3, <3>4, <3>5, <3>6 DEF AliveInv
    <2>3. CASE ~Runs /\ run \in {Caller, Unwind}
      <3>1. run' = run /\ alive' = {}
        BY <1>5, <1>b, <1>g, <1>r, <2>3, BlockFacts DEF IInv, AliveInv
      <3>. QED  BY <2>3, <3>1, BlockFacts DEF AliveInv, Runs
    <2>4. CASE ~Runs /\ run \in Block /\ run[2] # n
      <3>1. run' = run
        BY <1>b, <1>g, <1>r, <2>4
      <3>2. /\ run[2] \in 1..n /\ open[run[2]].kind \in WaitsAt(run[1])
            /\ alive = Below(stack, open[run[2]].depth)
            /\ (run[1] = "uncaught" /\ \A i \in 1..run[2] : open[i].kind # "do") => alive = {}
        BY <2>4 DEF IInv, AliveInv
      <3>3. run[2] \in 1..n - 1
        BY <1>n, <2>4, <3>2
      <3>4. \A i \in 1..run[2] : open'[i] = open[i]
        BY <1>7, <1>n, <3>3
      <3>5. /\ run[2] \in 1..n' /\ open'[run[2]].kind \in WaitsAt(run[1])
            /\ alive' = Below(stack', open'[run[2]].depth)
        BY <1>5, <2>4, <2>k, <3>2, <3>3
      <3>6. (run[1] = "uncaught" /\ \A i \in 1..run[2] : open'[i].kind # "do") => alive' = {}
        BY <1>5, <2>4, <3>2, <3>4
      <3>7. ~Runs' /\ run' \notin {Caller, Unwind}
        BY <2>4, <3>1, BlockFacts DEF Runs
      <3>. QED  BY <2>4, <3>1, <3>5, <3>6, <3>7 DEF AliveInv
    <2>5. CASE ~Runs /\ run \in Block /\ run[2] = n
      <3>1. open[n].kind \in WaitsAt(run[1]) /\ alive = Below(stack, Top.depth)
        BY <1>n, <2>5 DEF IInv, AliveInv
      <3>2. run = <<"lpad", n>>
        BY <1>1, <2>5, <3>1, BlocksOf
      <3>3. CASE run' = Here
        <4>1. alive' = Owned(stack', 0) /\ term' = None /\ n' > 0
          BY <1>1, <1>5, <1>n, <1>p, <1>7, <2>5, <3>1
        <4>. QED  BY <3>3, <4>1, BlockFacts DEF AliveInv
      <3>4. CASE run' # Here
        <4>1. run' = <<"uncaught", n>> /\ (Handlers # {n} \/ Owned(stack, 0) = {})
          BY <1>g, <1>r, <2>5, <3>2, <3>4
        <4>2. run' \in Block /\ run'[1] = "uncaught" /\ run'[2] = n
          BY <1>b, <4>1
        <4>3. f.kind \in WaitsAt("uncaught")
          BY <1>2 DEF WaitsAt
        <4>4. (\A i \in 1..n : open'[i].kind # "do") => alive' = {}
          <5>1. CASE Owned(stack, 0) = {}
            BY <1>5, <1>p, <2>5, <3>1, <5>1
          <5>2. CASE Handlers # {n}
            <6>1. n \in Handlers
              BY <1>1, <1>n DEF Handlers
            <6>2. PICK i \in Handlers : i # n
              BY <5>2, <6>1
            <6>3. i \in 1..n - 1 /\ i \in 1..n /\ open[i].kind = "do"
              BY <1>n, <6>2 DEF Handlers
            <6>. QED  BY <1>7, <6>3
          <5>. QED  BY <4>1, <5>1, <5>2
        <4>5. ~Runs' /\ run' \notin {Caller, Unwind}
          BY <4>2, BlockFacts DEF Runs
        <4>. QED  BY <1>5, <2>5, <2>n, <3>1, <4>2, <4>3, <4>4, <4>5 DEF AliveInv
      <3>. QED  BY <3>3, <3>4
    <2>. QED  BY <2>1, <2>2, <2>3, <2>4, <2>5, RunCases DEF IInv, Runs
  <1>12. TermInv'
    BY <1>1, BlockFacts DEF TermInv
  <1>. QED  BY <1>4, <1>5, <1>7, <1>9, <1>10, <1>11, <1>12 DEF IInv

\* The end of the function.
LEMMA EndFunctionStep ==
    ASSUME IInv, EndFunction
    PROVE  IInv'
  <1>. DEFINE D == IF term = None THEN Temporaries ELSE {}
  <1>1. /\ n > 0 /\ open[n].kind = "function" /\ Does({}, D, {})
        /\ run' = Gone(Caller) /\ open' = <<>> /\ stack' = <<>> /\ term' = None /\ made' = made
    BY DEF EndFunction, InExpr, Top
  <1>2. n = 1 /\ Top = open[1] /\ Top.depth = 0
    <2>1. n \in Nat /\ n \in 1..n /\ Top = open[n]
      BY <1>1, InvFacts
    <2>2. ~(n \in 2..n)
      <3>. SUFFICES ASSUME n \in 2..n PROVE FALSE
        OBVIOUS
      <3>1. open[n - 1].kind \in Around("function")
        BY <1>1 DEF IInv, OpenInv
      <3>. QED  BY <3>1 DEF Around
    <2>. QED  BY <1>1, <2>1, <2>2 DEF IInv, OpenInv
  <1>3. Temporaries = Owned(stack, 0)
    BY <1>2 DEF Temporaries
  <1>4. run \notin Block /\ (Runs => term \notin Block)
    <2>1. run \notin Block
      <3>. SUFFICES ASSUME run \in Block PROVE FALSE
        OBVIOUS
      <3>1. run[2] \in 1..n /\ open[run[2]].kind \in WaitsAt(run[1])
        BY DEF IInv, AliveInv
      <3>2. open[run[2]].kind = "function"
        BY <1>1, <1>2, <3>1
      <3>. QED  BY <3>1, <3>2, BlocksOf
    <2>2. term \notin Block
      <3>. SUFFICES ASSUME term \in Block PROVE FALSE
        OBVIOUS
      <3>1. term[2] \in 1..n /\ open[term[2]].kind = "while"
        BY DEF IInv, TermInv
      <3>. QED  BY <1>1, <1>2, <3>1
    <2>. QED  BY <2>1, <2>2
  <1>5. /\ run' \in {Caller, Unwind} /\ alive' = {} /\ twice' = {}
    <2>1. CASE ~Runs
      <3>1. run' = run /\ run \in {Caller, Unwind} /\ alive = {}
        <4>1. run' = run
          BY <1>1, <2>1 DEF Gone
        <4>2. run \in {Caller, Unwind}
          BY <1>4, <2>1, RunCases DEF IInv, Runs
        <4>. QED  BY <4>1, <4>2 DEF IInv, AliveInv
      <3>2. twice' = {} /\ alive' = alive
        BY <1>1, <2>1, DoesStep
      <3>. QED  BY <3>1, <3>2
    <2>2. CASE Runs /\ term = None
      <3>1. alive = Owned(stack, 0) /\ D = Owned(stack, 0) /\ run' = Caller
        BY <1>1, <1>3, <2>2, BlockFacts, InvFacts DEF Gone
      <3>2. twice' = {} /\ alive' = (alive \ ({} \union D)) \union {}
        BY <1>1, <2>2, <3>1, DoesStep
      <3>. QED  BY <3>1, <3>2
    <2>3. CASE Runs /\ term # None
      <3>1. term \in {Caller, Unwind} /\ D = {} /\ run' = term
        BY <1>1, <1>4, <2>3, RunCases DEF Gone, IInv
      <3>2. alive = {}
        BY <2>3, <3>1 DEF IInv, AliveInv
      <3>3. twice' = {} /\ alive' = (alive \ ({} \union D)) \union {}
        BY <1>1, <2>3, <3>1, DoesStep
      <3>. QED  BY <3>1, <3>2, <3>3
    <2>. QED  BY <2>1, <2>2, <2>3
  <1>6. n' = 0 /\ Len(stack') = 0 /\ MaxOpen \in Nat
    BY <1>1, InvFacts DEF n
  <1>7. TypeOK'
    <2>1. open' \in Seq(Construct) /\ stack' \in Seq(Cleanup)
      BY <1>1
    <2>2. made' \in 0..MaxValues
      BY <1>1 DEF IInv, TypeOK
    <2>. QED  BY <1>1, <1>5, <1>6, <2>1, <2>2 DEF TypeOK
  <1>8. StackInv'
    BY <1>6 DEF StackInv, Increasing
  <1>9. OpenInv'
    BY <1>6 DEF OpenInv
  <1>10. TermInv'
    BY <1>1, BlockFacts DEF TermInv
  <1>11. AliveInv'
    BY <1>5, BlockFacts DEF AliveInv, Runs
  <1>12. EntryInv'
    BY <1>6 DEF EntryInv
  <1>. QED  BY <1>5, <1>7, <1>8, <1>9, <1>10, <1>11, <1>12 DEF IInv

-----------------------------------------------------------------------------
(* The invariant holds in every state.                                      *)

LEMMA InitInv ==
    ASSUME Init
    PROVE  IInv
  <1>. DEFINE f == [kind |-> "function", depth |-> 0, entry |-> {}]
              g == [kind |-> "scope", depth |-> made, entry |-> {}]
  <1>1. /\ made \in {0, 1} /\ open = <<f, g>>
        /\ stack = [i \in 1..made |-> [val |-> i, ignored |-> FALSE]]
        /\ alive = 1..made /\ term = None /\ run = Here /\ twice = {}
    BY DEF Init
  <1>2. made \in Nat /\ made \in 0..MaxValues /\ \A i \in 1..made : i \in Value
    BY <1>1, CleanupsAssumption DEF Value
  <1>3. /\ stack \in Seq(Cleanup) /\ Len(stack) = made
        /\ \A i \in 1..made : stack[i].val = i /\ ~stack[i].ignored
    <2>1. \A i \in 1..made : [val |-> i, ignored |-> FALSE] \in Cleanup
      BY <1>2 DEF Cleanup
    <2>2. stack \in [1..made -> Cleanup]
      BY <1>1, <2>1
    <2>3. stack \in Seq(Cleanup) /\ Len(stack) = made
      BY <1>2, <2>2
    <2>4. \A i \in 1..made : stack[i] = [val |-> i, ignored |-> FALSE]
      BY <1>1
    <2>. QED  BY <2>3, <2>4
  <1>4. f \in Construct /\ g \in Construct
    BY <1>2 DEF Construct, Kinds
  <1>5. /\ f.kind = "function" /\ f.depth = 0 /\ g.kind = "scope" /\ g.depth = made
    OBVIOUS
  <1>. HIDE DEF f, g
  <1>6. /\ open \in Seq(Construct) /\ n = 2 /\ open[1] = f /\ open[2] = g
    BY <1>1, <1>4 DEF n
  <1>7. TypeOK
    <2>1. 2 <= MaxOpen
      BY CleanupsAssumption
    <2>2. n <= MaxOpen
      BY <1>6, <2>1
    <2>. QED  BY <1>1, <1>2, <1>3, <1>6, <2>2 DEF TypeOK
  <1>8. StackInv
    BY <1>2, <1>3 DEF StackInv, Increasing
  <1>9. OpenInv
    <2>1. \A i \in 1..n : i = 1 \/ i = 2
      BY <1>6
    <2>2. "function" \in Around("scope") /\ "function" \notin Tight /\ "scope" \notin Tight
      BY DEF Around, Tight
    <2>3. \A i \in 2..n : i = 2 /\ i - 1 = 1
      BY <1>6
    <2>. QED  BY <1>2, <1>3, <1>5, <1>6, <2>1, <2>2, <2>3 DEF OpenInv
  <1>10. TermInv
    BY <1>1, BlockFacts DEF TermInv
  <1>11. AliveInv
    <2>1. \A v : v \in Owned(stack, 0) <=> v \in 1..made
      BY <1>2, <1>3, OwnedIsAbove
    <2>2. alive = Owned(stack, 0)
      BY <1>1, <2>1
    <2>. QED  BY <1>1, <1>6, <2>2, BlockFacts DEF AliveInv
  <1>12. EntryInv
    BY <1>5, <1>6 DEF EntryInv
  <1>. QED  BY <1>1, <1>7, <1>8, <1>9, <1>10, <1>11, <1>12 DEF IInv

LEMMA StutterInv ==
    ASSUME IInv, UNCHANGED vars
    PROVE  IInv'
  <1>1. /\ open' = open /\ stack' = stack /\ term' = term /\ run' = run
        /\ made' = made /\ alive' = alive /\ twice' = twice
    BY DEF vars
  <1>2. TypeOK' /\ twice' = {}
    BY <1>1 DEF IInv, TypeOK, n
  <1>3. StackInv'
    BY <1>1 DEF IInv, StackInv, Increasing
  <1>4. OpenInv'
    BY <1>1 DEF IInv, OpenInv, n, Below
  <1>5. TermInv'
    BY <1>1 DEF IInv, TermInv, n, Owned
  <1>6. AliveInv'
    BY <1>1 DEF IInv, AliveInv, n, Owned, Below, Runs
  <1>7. EntryInv'
    BY <1>1 DEF IInv, EntryInv, n, Below, Runs
  <1>. QED  BY <1>2, <1>3, <1>4, <1>5, <1>6, <1>7 DEF IInv

LEMMA NextInv ==
    ASSUME IInv, Generous = {}, Next
    PROVE  IInv'
  <1>1. ASSUME NEW kind \in {"discard", "declare", "return", "throw"}, BeginExpr(kind)
        PROVE  IInv'
    BY <1>1, BeginExprStep
  <1>2. CASE BeginCall
    BY <1>2, BeginCallStep
  <1>3. ASSUME NEW out \in SUBSET Value, NEW value \in BOOLEAN, CallReturns(out, value)
        PROVE  IInv'
    BY <1>3, CallReturnsStep
  <1>4. ASSUME NEW out \in SUBSET Value, NEW value \in BOOLEAN, NEW h \in 0..n,
               CallThrows(out, value, h)
        PROVE  IInv'
    BY <1>4, CallThrowsStep
  <1>5. CASE EndDiscard
    BY <1>5, EndDiscardStep
  <1>6. ASSUME NEW v \in Value, EndDeclare(v)
        PROVE  IInv'
    BY <1>6, EndDeclareStep
  <1>7. ASSUME NEW out \in SUBSET Value, EndLeave(out)
        PROVE  IInv'
    BY <1>7, EndLeaveStep
  <1>8. CASE ReturnVoid
    BY <1>8, ReturnVoidStep
  <1>9. ASSUME NEW to \in {"merge", "continue"}, NEW i \in 1..n, Jump(to, i)
        PROVE  IInv'
    BY <1>9, JumpStep
  <1>10. CASE BeginBranch("if", "ifCond") \/ BeginBranch("while", "whileCond")
    BY <1>10, BeginBranchStep
  <1>11. CASE Condition("ifCond", "else") \/ Condition("whileCond", "merge")
    BY <1>11, ConditionStep
  <1>12. CASE EndScope
    BY <1>12, EndScopeStep
  <1>13. CASE EndIf
    BY <1>13, EndIfStep
  <1>14. CASE BeginElse
    BY <1>14, BeginElseStep
  <1>15. CASE EndElse
    BY <1>15, EndElseStep
  <1>16. CASE EndWhile
    BY <1>16, EndWhileStep
  <1>17. CASE BeginDo
    BY <1>17, BeginDoStep
  <1>18. CASE EndDo
    BY <1>18, EndDoStep
  <1>19. ASSUME NEW h \in 0..n, EndCatch(h)
         PROVE  IInv'
    BY <1>19, EndCatchStep
  <1>20. CASE EndFunction
    BY <1>20, EndFunctionStep
  <1>. QED
    BY <1>1, <1>2, <1>3, <1>4, <1>5, <1>6, <1>7, <1>8, <1>9, <1>10, <1>11, <1>12,
       <1>13, <1>14, <1>15, <1>16, <1>17, <1>18, <1>19, <1>20 DEF Next

\* What is alive is, at every place where the execution can be, what the
\* cleanup stack of that place says.
THEOREM InvariantHolds ==
    ASSUME Generous = {}
    PROVE  Spec => []IInv
  <1>1. Init => IInv
    BY InitInv
  <1>2. IInv /\ [Next]_vars => IInv'
    BY NextInv, StutterInv
  <1>. QED
    BY <1>1, <1>2, PTL DEF Spec

-----------------------------------------------------------------------------
(* What follows from it.                                                    *)

\* The state has its type (the construct and cleanup stacks of ILGenPass).
THEOREM TypeCorrect ==
    ASSUME Generous = {}
    PROVE  Spec => []TypeOK
  <1>1. IInv => TypeOK
    BY DEF IInv
  <1>. QED
    BY <1>1, InvariantHolds, PTL

\* No cleanup that is emitted destroys a value that was destroyed or handed
\* on before, on any way through any function.
THEOREM DestroyedOnceHolds ==
    ASSUME Generous = {}
    PROVE  Spec => []DestroyedOnce
  <1>1. IInv => DestroyedOnce
    BY DEF IInv, DestroyedOnce
  <1>. QED
    BY <1>1, InvariantHolds, PTL

\* A return, the end of the text and an error that leaves the function have
\* destroyed all that was not handed on, and one of them is always reached.
THEOREM NothingLeftHolds ==
    ASSUME Generous = {}
    PROVE  Spec => []NothingLeft
  <1>1. ASSUME IInv PROVE NothingLeft
    <2>1. run \in {Caller, Unwind} => alive = {}
      BY <1>1 DEF IInv, AliveInv
    <2>2. open = <<>> => run \in {Caller, Unwind}
      <3>. SUFFICES ASSUME open = <<>> PROVE run \in {Caller, Unwind}
        OBVIOUS
      <3>1. n = 0
        BY DEF n
      <3>2. ~Runs /\ run \notin Block
        BY <1>1, <3>1 DEF IInv, AliveInv
      <3>. QED  BY <1>1, <3>2, RunCases DEF IInv, Runs
    <2>. QED  BY <2>1, <2>2 DEF NothingLeft
  <1>. QED
    BY <1>1, InvariantHolds, PTL

\* Whatever way an iteration of a loop takes to its end, it leaves what it
\* found.
THEOREM LoopBalancedHolds ==
    ASSUME Generous = {}
    PROVE  Spec => []LoopBalanced
  <1>1. ASSUME IInv PROVE LoopBalanced
    <2>. SUFFICES ASSUME NEW i \in 1..n, open[i].kind = "while",
                         run = <<"continue", i>> \/ (i = n /\ Runs /\ term = None)
                  PROVE  alive = open[i].entry
      BY DEF LoopBalanced
    <2>n. i \in Nat /\ n \in Nat /\ i <= n /\ n <= MaxOpen /\ MaxOpen \in Nat /\ i \in 1..MaxOpen
      BY <1>1, InvFacts
    <2>1. CASE run = <<"continue", i>>
      <3>1. run \in Block /\ run[2] = i
        BY <2>1, <2>n DEF Block
      <3>2. alive = Below(stack, open[i].depth)
        BY <1>1, <3>1 DEF IInv, AliveInv
      <3>. QED  BY <1>1, <2>n, <3>1, <3>2 DEF IInv, EntryInv
    <2>2. CASE i = n /\ Runs /\ term = None
      <3>1. alive = Below(stack, Len(stack))
        BY <1>1, <2>2, BlockFacts, InvFacts
      <3>2. open[i].depth = Len(stack)
        BY <1>1, <2>2 DEF IInv, OpenInv, Tight
      <3>. QED  BY <1>1, <2>2, <3>1, <3>2 DEF IInv, EntryInv
    <2>. QED  BY <2>1, <2>2
  <1>. QED
    BY <1>1, InvariantHolds, PTL
=============================================================================
