------------------------ MODULE DependencyGraphProofs ------------------------
(***************************************************************************)
(* Proofs about DependencyGraph for every plan, whatever the order in      *)
(* which it lists its tasks and their dependencies.  The search keeps a    *)
(* chain of calls, each waiting for the next, above a memo of final        *)
(* depths; the sort keeps, for each task, the number of its dependencies   *)
(* that are not yet sorted.                                                *)
(***************************************************************************)
EXTENDS DependencyGraph, FiniteSetTheorems, SequenceTheorems, TLAPS

Listed(s)  == {s[i] : i \in DOMAIN s}
Once(s)    == \A i, j \in DOMAIN s : s[i] = s[j] => i = j
Call       == [id : Tasks, left : SUBSET Names, deepest : Nat]
Done(call) == deps[call.id] \ call.left

\* A remembered depth is final: so are the depths it was computed from.
Final(memo) ==
    \A x \in DOMAIN memo :
        IF Independent(x) THEN memo[x] = 0
        ELSE /\ deps[x] \subseteq DOMAIN memo
             /\ \A y \in deps[x] : memo[y] < memo[x]
             /\ \E y \in deps[x] : memo[x] = memo[y] + 1

\* A call has the depths of the dependencies it is through with and keeps the
\* deepest ...
Waiting(call, memo) ==
    /\ call.id \notin DOMAIN memo
    /\ ~Independent(call.id)
    /\ call.left \subseteq deps[call.id]
    /\ Done(call) \subseteq DOMAIN memo
    /\ \A y \in Done(call) : memo[y] <= call.deepest
    /\ IF Done(call) = {} THEN call.deepest = 0
       ELSE \E y \in Done(call) : memo[y] = call.deepest

\* ... and each waits for the one above it.
Chained(calls, memo) ==
    /\ \A i, j \in DOMAIN calls : calls[i].id = calls[j].id => i = j
    /\ \A i \in DOMAIN calls : Waiting(calls[i], memo)
    /\ \A i \in DOMAIN calls : i + 1 \in DOMAIN calls => calls[i + 1].id \in calls[i].left

SearchInv == Final(depths) /\ Chained(stack, depths)

\* What each phase says of the verdict.
Verdicts ==
    /\ phase = "group" <=> verdict = "none"
    /\ phase = "cycle" => verdict = "cycle"
    /\ phase = "grouped" => verdict = "ok"
    /\ verdict = "ok" => Tasks \subseteq DOMAIN depths
    /\ verdict = "cycle" => Cyclic(deps)
    /\ phase \in {"group", "cycle", "grouped"} => sorted = << >>

\* A task is queued when the last of its dependencies is sorted, and only then.
SortExact ==
    phase \in {"sort", "sorted"} =>
        /\ Once(sorted) /\ Once(queue)
        /\ Listed(sorted) \cap Listed(queue) = {}
        /\ \A t \in Tasks :
            /\ inDegree[t] = Cardinality(deps[t] \ Listed(sorted))
            /\ t \in Listed(sorted) \cup Listed(queue) <=> deps[t] \subseteq Listed(sorted)
        /\ phase = "sorted" => queue = << >>

IInv == TypeOK /\ SearchInv /\ Verdicts /\ SortExact /\ SortedInOrder

-----------------------------------------------------------------------------
(* Natural numbers, sequences and the names of a plan.                     *)

\* A set of natural numbers that is not empty has a least element.
LEMMA Smallest ==
    ASSUME NEW T \in SUBSET Nat, T # {}
    PROVE  \E n \in T : \A m \in T : n <= m
<1> DEFINE Below == {pair \in Nat \X Nat : pair[1] < pair[2]}
<1>1. IsWellFoundedOn(Below, Nat)
  BY NatLessThanWellFounded DEF OpToRel
<1>2. \A m, n \in Nat : m < n => <<m, n>> \in Below
  OBVIOUS
<1> HIDE DEF Below
<1>3. PICK n \in T : \A m \in T : <<m, n>> \notin Below
  BY <1>1, WFMin
<1>4. \A m \in T : ~(m < n)
  BY <1>2, <1>3, Zenon
<1>5. QED
  BY <1>4

\* What a task waits for is finite.
LEMMA DependenciesFinite ==
    ASSUME TypeOK, NEW t \in Tasks, NEW S
    PROVE  IsFiniteSet(deps[t] \ S) /\ Cardinality(deps[t] \ S) \in Nat
<1>1. IsFiniteSet(Tasks \cup Outside)
  BY PlanAssumption, FS_Union
<1>2. deps[t] \ S \in SUBSET (Tasks \cup Outside)
  BY DEF TypeOK, Plans
<1>3. QED
  BY <1>1, <1>2, FS_Subset, FS_CardinalityType

\* An order of a set lists each of its elements once.
LEMMA OrderLists ==
    ASSUME NEW S, IsFiniteSet(S), NEW order \in Orders(S)
    PROVE  order \in Seq(S) /\ Once(order) /\ Listed(order) = S
<1> DEFINE n == Cardinality(S)
<1>1. n \in Nat
  BY FS_CardinalityType
<1>2. order \in [1..n -> S] /\ \A i, j \in 1..n : order[i] = order[j] => i = j
  BY DEF Orders
<1>3. order \in Injection(1..n, S)
  BY <1>2 DEF Injection, IsInjective
<1>4. Cardinality(1..n) = n
  BY <1>1, FS_Interval
<1>5. order \in Surjection(1..n, S)
  BY <1>3, <1>4, FS_Injection
<1>6. \A s \in S : \E i \in 1..n : order[i] = s
  BY <1>5 DEF Surjection
<1>7. order \in Seq(S)
  BY <1>1, <1>2, SeqDef
<1>8. QED
  BY <1>2, <1>6, <1>7 DEF Once, Listed

\* What returning to the loop of a call does to the calls in progress.
LEMMA ReturnedFacts ==
    ASSUME NEW calls \in Seq(Call), calls # << >>, NEW x, NEW d \in Nat
    PROVE  LET r == Returned(calls, x, d)
               n == Len(calls)
           IN  /\ r \in Seq(Call) /\ DOMAIN r = 1..n /\ n \in Nat \ {0}
               /\ \A i \in 1..n : i # n => r[i] = calls[i]
               /\ r[n].id = calls[n].id
               /\ r[n].left = calls[n].left \ {x}
               /\ r[n].deepest = Larger(calls[n].deepest, d)
<1> DEFINE n == Len(calls)
           last == [calls[n] EXCEPT !.left = @ \ {x}, !.deepest = Larger(@, d)]
           r == Returned(calls, x, d)
<1>1. n \in Nat \ {0} /\ calls \in [1..n -> Call]
  BY LenProperties, EmptySeq
<1>2. calls[n] \in Call
  BY <1>1
<1>3. last \in Call /\ last.id = calls[n].id /\ last.left = calls[n].left \ {x}
      /\ last.deepest = Larger(calls[n].deepest, d)
  BY <1>2 DEF Call, Larger
<1>4. r = [calls EXCEPT ![n] = last]
  BY <1>1, <1>2 DEF Returned, Call
<1> HIDE DEF n, last, r
<1>5. r \in [1..n -> Call] /\ r[n] = last /\ \A i \in 1..n : i # n => r[i] = calls[i]
  BY <1>1, <1>3, <1>4
<1>6. r \in Seq(Call)
  BY <1>1, <1>5, SeqDef
<1>7. QED
  BY <1>1, <1>3, <1>5, <1>6 DEF n, r

-----------------------------------------------------------------------------
(* The search.                                                             *)

\* The memo after the depth d has been found for x.
Extends(more, memo, x, d) ==
    /\ DOMAIN more = DOMAIN memo \cup {x}
    /\ more[x] = d
    /\ \A y \in DOMAIN memo : more[y] = memo[y]

\* A call that has its answer goes on waiting for the others.
LEMMA WaitingAnswered ==
    ASSUME NEW call \in Call, NEW after \in Call, NEW memo, NEW more, NEW x, NEW d \in Nat,
           Waiting(call, memo), Extends(more, memo, x, d), \A y \in DOMAIN memo : memo[y] \in Nat,
           x # call.id, x \in call.left,
           after.id = call.id, after.left = call.left \ {x},
           after.deepest = Larger(call.deepest, d)
    PROVE  Waiting(after, more)
<1>1. x \in deps[call.id] /\ Done(after) = Done(call) \cup {x}
  BY DEF Waiting, Done
<1>2. after.id \notin DOMAIN more /\ Done(after) \subseteq DOMAIN more
  BY <1>1 DEF Waiting, Extends
<1>3. \A y \in Done(call) : more[y] = memo[y] /\ memo[y] \in Nat /\ memo[y] <= call.deepest
  BY DEF Waiting, Extends
<1>4. call.deepest \in Nat /\ more[x] = d
  BY DEF Call, Extends
<1>5. \A y \in Done(after) : more[y] <= after.deepest
  BY <1>1, <1>3, <1>4 DEF Larger
<1>6. \E y \in Done(after) : more[y] = after.deepest
  <2>1. CASE Done(call) = {}
    BY <1>1, <1>4, <2>1 DEF Waiting, Larger
  <2>2. CASE Done(call) # {}
    <3>1. PICK y \in Done(call) : memo[y] = call.deepest
      BY <2>2 DEF Waiting
    <3>2. QED
      BY <1>1, <1>3, <1>4, <3>1 DEF Larger
  <2>3. QED
    BY <2>1, <2>2
<1>7. QED
  BY <1>1, <1>2, <1>5, <1>6 DEF Waiting

\* A call that is not the one answered waits as before.
LEMMA WaitingStays ==
    ASSUME NEW call, NEW memo, NEW more, NEW x, NEW d,
           Waiting(call, memo), Extends(more, memo, x, d), x # call.id
    PROVE  Waiting(call, more)
BY DEF Waiting, Extends

\* Returning a depth to the call that asked for it keeps the chain.
LEMMA AnswerKeeps ==
    ASSUME NEW calls \in Seq(Call), NEW memo, NEW more, NEW x, NEW d \in Nat,
           Chained(calls, memo), Extends(more, memo, x, d), \A y \in DOMAIN memo : memo[y] \in Nat,
           \A i \in DOMAIN calls : calls[i].id # x,
           calls # << >> => x \in calls[Len(calls)].left
    PROVE  Returned(calls, x, d) \in Seq(Call) /\ Chained(Returned(calls, x, d), more)
<1> DEFINE n == Len(calls)
           r == Returned(calls, x, d)
<1>1. CASE calls = << >>
  BY <1>1 DEF Returned, Chained
<1>2. CASE calls # << >>
  <2>1. /\ r \in Seq(Call) /\ DOMAIN r = 1..n /\ n \in Nat \ {0} /\ DOMAIN calls = 1..n
        /\ \A i \in 1..n : i # n => r[i] = calls[i]
        /\ r[n].id = calls[n].id /\ r[n].left = calls[n].left \ {x}
        /\ r[n].deepest = Larger(calls[n].deepest, d)
    BY <1>2, ReturnedFacts, LenProperties
  <2> HIDE DEF n, r
  <2>2. \A i \in 1..n : r[i].id = calls[i].id
    BY <2>1
  <2>3. \A i, j \in DOMAIN r : r[i].id = r[j].id => i = j
    BY <2>1, <2>2 DEF Chained
  <2>4. ASSUME NEW i \in DOMAIN r PROVE Waiting(r[i], more)
    <3>1. i \in 1..n /\ calls[i].id # x /\ Waiting(calls[i], memo)
      BY <2>1 DEF Chained
    <3>2. CASE i # n
      BY <2>1, <3>1, <3>2, WaitingStays
    <3>3. CASE i = n
      <4>1. r[n] \in Call /\ calls[n] \in Call /\ x \in calls[n].left
        BY <1>2, <2>1, <3>1, <3>3, LenProperties, ElementOfSeq DEF n
      <4>2. QED
        BY <2>1, <3>1, <3>3, <4>1, WaitingAnswered
    <3>4. QED
      BY <3>2, <3>3
  <2>5. ASSUME NEW i \in DOMAIN r, i + 1 \in DOMAIN r PROVE r[i + 1].id \in r[i].left
    <3>1. i \in 1..n /\ i # n /\ i + 1 \in 1..n
      BY <2>1, <2>5
    <3>2. r[i] = calls[i] /\ r[i + 1].id = calls[i + 1].id /\ calls[i + 1].id \in calls[i].left
      BY <2>1, <2>2, <3>1 DEF Chained
    <3>3. QED
      BY <3>2
  <2>6. QED
    BY <2>1, <2>3, <2>4, <2>5 DEF Chained, r
<1>3. QED
  BY <1>1, <1>2

\* So does the memo, when the depth that is added is final.
LEMMA FinalExtends ==
    ASSUME NEW memo, NEW more, NEW x, NEW d, Final(memo), Extends(more, memo, x, d), x \notin DOMAIN memo,
           IF Independent(x) THEN d = 0
           ELSE /\ deps[x] \subseteq DOMAIN memo
                /\ \A y \in deps[x] : memo[y] < d
                /\ \E y \in deps[x] : d = memo[y] + 1
    PROVE  Final(more)
<1> SUFFICES ASSUME NEW z \in DOMAIN more
             PROVE  IF Independent(z) THEN more[z] = 0
                    ELSE /\ deps[z] \subseteq DOMAIN more
                         /\ \A y \in deps[z] : more[y] < more[z]
                         /\ \E y \in deps[z] : more[z] = more[y] + 1
  BY DEF Final
<1>1. CASE z = x
  BY <1>1 DEF Extends
<1>2. CASE z # x
  <2>1. z \in DOMAIN memo /\ more[z] = memo[z]
    BY <1>2 DEF Extends
  <2>2. QED
    BY <2>1 DEF Extends, Final
<1>3. QED
  BY <1>1, <1>2

\* The call on top of the stack, and the calls below it.
LEMMA TopFacts ==
    ASSUME TypeOK, stack # << >>
    PROVE  LET n == Len(stack)
               caller == SubSeq(stack, 1, n - 1)
           IN  /\ n \in Nat \ {0} /\ DOMAIN stack = 1..n /\ stack \in [1..n -> Call]
               /\ Top = stack[n] /\ Top \in Call
               /\ caller \in Seq(Call) /\ Len(caller) = n - 1 /\ DOMAIN caller = 1..n-1
               /\ \A i \in 1..n-1 : caller[i] = stack[i]
<1> DEFINE n == Len(stack)
           caller == SubSeq(stack, 1, n - 1)
<1>1. stack \in Seq(Call)
  BY DEF TypeOK, Call
<1>2. n \in Nat \ {0} /\ DOMAIN stack = 1..n /\ stack \in [1..n -> Call]
  BY <1>1, LenProperties, EmptySeq
<1>3. \A i \in 1..n-1 : stack[i] \in Call
  BY <1>2
<1> HIDE DEF n
<1>4. n - 1 \in Nat /\ n - 1 \in Int
  BY <1>2
<1>5. /\ SubSeq(stack, 1, n - 1) \in Seq(Call)
      /\ Len(SubSeq(stack, 1, n - 1)) = IF 1 <= n - 1 THEN n - 1 - 1 + 1 ELSE 0
      /\ \A i \in 1 .. n - 1 - 1 + 1 : SubSeq(stack, 1, n - 1)[i] = stack[1 + i - 1]
  BY <1>3, <1>4, SubSeqProperties
<1>6. Len(caller) = n - 1 /\ \A i \in 1..n-1 : caller[i] = stack[i]
  BY <1>4, <1>5
<1>7. DOMAIN caller = 1..n-1
  BY <1>5, <1>6, LenProperties
<1>8. QED
  BY <1>2, <1>5, <1>6, <1>7 DEF Top, n

\* A remembered depth is a natural number, and a call with an answer to a name it
\* waits for is an answer to a name that is not on the stack.
LEMMA MemoTyped ==
    ASSUME TypeOK, NEW x, NEW d \in Nat, x \in Names, Remember(x, d), x \notin DOMAIN depths
    PROVE  /\ Extends(depths', depths, x, d)
           /\ DOMAIN depths' \subseteq Names
           /\ \A y \in DOMAIN depths' : depths'[y] \in Nat
BY DEF TypeOK, Remember, Extends

\* What a call of computeDepth finds of the state, made by the loop over the tasks
\* or by a call that waits for x.
Asked(x) == x \in Names /\ (stack # << >> => x \in Top.left)

LEMMA KnownKeeps ==
    ASSUME TypeOK, SearchInv, NEW x, Asked(x), Known(x)
    PROVE  TypeOK' /\ SearchInv'
<1>1. stack \in Seq(Call) /\ \A y \in DOMAIN depths : depths[y] \in Nat
  BY DEF TypeOK, Call
<1>2. Extends(depths, depths, x, depths[x]) /\ depths[x] \in Nat
  BY <1>1 DEF Known, Extends
<1>3. \A i \in DOMAIN stack : stack[i].id # x
  BY DEF SearchInv, Chained, Waiting, Known
<1>4. stack # << >> => x \in stack[Len(stack)].left
  BY DEF Asked, Top
<1>5. Returned(stack, x, depths[x]) \in Seq(Call) /\ Chained(Returned(stack, x, depths[x]), depths)
  BY <1>1, <1>2, <1>3, <1>4, AnswerKeeps DEF SearchInv
<1>6. TypeOK'
  BY <1>5 DEF Known, TypeOK, kahnVars, Call, Names
<1>7. Final(depths)' = Final(depths) /\ Chained(stack, depths)'
  BY <1>5 DEF Known, Final, Independent, Chained, Waiting, Done
<1>8. QED
  BY <1>6, <1>7 DEF SearchInv

LEMMA LeafKeeps ==
    ASSUME TypeOK, SearchInv, NEW x, Asked(x), Leaf(x)
    PROVE  TypeOK' /\ SearchInv'
<1>1. stack \in Seq(Call) /\ \A y \in DOMAIN depths : depths[y] \in Nat
  BY DEF TypeOK, Call
<1>2. /\ Extends(depths', depths, x, 0) /\ DOMAIN depths' \subseteq Names
      /\ \A y \in DOMAIN depths' : depths'[y] \in Nat
  BY MemoTyped DEF Leaf, Asked
<1>3. \A i \in DOMAIN stack : stack[i].id # x
  BY DEF Leaf, Computing
<1>4. stack # << >> => x \in stack[Len(stack)].left
  BY DEF Asked, Top
<1>5. Returned(stack, x, 0) \in Seq(Call) /\ Chained(Returned(stack, x, 0), depths')
  BY <1>1, <1>2, <1>3, <1>4, AnswerKeeps DEF SearchInv
<1>6. Final(depths')
  BY <1>2, FinalExtends DEF Leaf, SearchInv
<1>7. TypeOK'
  BY <1>2, <1>5 DEF Leaf, TypeOK, kahnVars, Call, Names
<1>8. Final(depths)' /\ Chained(stack, depths)'
  BY <1>5, <1>6 DEF Leaf, Final, Independent, Chained, Waiting, Done
<1>9. QED
  BY <1>7, <1>8 DEF SearchInv

LEMMA EnterKeeps ==
    ASSUME TypeOK, SearchInv, NEW x, Asked(x), Enter(x)
    PROVE  TypeOK' /\ SearchInv'
<1> DEFINE n == Len(stack)
           call == [id |-> x, left |-> deps[x], deepest |-> 0]
<1>1. stack \in Seq(Call) /\ x \in Tasks /\ deps[x] # {} /\ deps[x] \subseteq Names
  BY DEF TypeOK, Call, Enter, Independent, Plans, Names
<1>2. call \in Call
  BY <1>1 DEF Call
<1>3. n \in Nat /\ DOMAIN stack = 1..n
  BY <1>1, LenProperties
<1> HIDE DEF call
<1>4. /\ Append(stack, call) \in Seq(Call) /\ Len(Append(stack, call)) = n + 1
      /\ \A i \in 1..n : Append(stack, call)[i] = stack[i]
      /\ Append(stack, call)[n + 1] = call
  BY <1>1, <1>2, AppendProperties
<1>5. DOMAIN Append(stack, call) = 1..n+1
  BY <1>4, LenProperties
<1>6. stack' = Append(stack, call)
  BY DEF Enter, call
<1>7. TypeOK'
  BY <1>4, <1>6 DEF Enter, TypeOK, kahnVars, Call, Names
<1>8. call.id = x /\ call.left = deps[x] /\ call.deepest = 0
  BY DEF call
<1>9. Waiting(call, depths)
  BY <1>1, <1>8 DEF Waiting, Done, Enter
<1>10. n # 0 => x \in stack[n].left
  BY <1>1, <1>3, EmptySeq DEF Asked, Top
<1>11. \A i \in 1..n : stack[i].id # x
  BY <1>3 DEF Enter, Computing
<1> HIDE DEF n
<1>12. Chained(Append(stack, call), depths)
  <2> DEFINE s == Append(stack, call)
  <2>1. /\ DOMAIN s = 1..n+1 /\ n \in Nat /\ s[n + 1] = call /\ DOMAIN stack = 1..n
        /\ \A i \in 1..n : s[i] = stack[i]
    BY <1>3, <1>4, <1>5
  <2> HIDE DEF s
  <2>2. ASSUME NEW i \in DOMAIN s, NEW j \in DOMAIN s, s[i].id = s[j].id PROVE i = j
    <3>1. CASE i = n + 1
      BY <1>8, <1>11, <2>1, <2>2, <3>1
    <3>2. CASE j = n + 1
      BY <1>8, <1>11, <2>1, <2>2, <3>2
    <3>3. CASE i # n + 1 /\ j # n + 1
      BY <2>1, <2>2, <3>3 DEF SearchInv, Chained
    <3>4. QED
      BY <3>1, <3>2, <3>3
  <2>3. ASSUME NEW i \in DOMAIN s PROVE Waiting(s[i], depths)
    <3>1. CASE i = n + 1
      BY <1>9, <2>1, <3>1
    <3>2. CASE i # n + 1
      BY <2>1, <3>2 DEF SearchInv, Chained
    <3>3. QED
      BY <3>1, <3>2
  <2>4. ASSUME NEW i \in DOMAIN s, i + 1 \in DOMAIN s PROVE s[i + 1].id \in s[i].left
    <3>1. CASE i = n
      BY <1>8, <1>10, <2>1, <3>1
    <3>2. CASE i # n
      <4>1. i \in 1..n /\ i + 1 \in 1..n
        BY <2>1, <2>4, <3>2
      <4>2. QED
        BY <2>1, <4>1 DEF SearchInv, Chained
    <3>3. QED
      BY <3>1, <3>2
  <2>5. QED
    BY <2>2, <2>3, <2>4 DEF Chained, s
<1>13. Chained(stack, depths)' /\ Final(depths)'
  BY <1>6, <1>12 DEF SearchInv, Enter, Final, Independent, Chained, Waiting, Done
<1>14. QED
  BY <1>7, <1>13 DEF SearchInv

LEMMA LeaveKeeps ==
    ASSUME TypeOK, SearchInv, Leave
    PROVE  TypeOK' /\ SearchInv'
<1> DEFINE n == Len(stack)
           caller == SubSeq(stack, 1, n - 1)
           x == Top.id
           d == Top.deepest + 1
<1>1. /\ n \in Nat \ {0} /\ DOMAIN stack = 1..n /\ Top = stack[n] /\ Top \in Call
      /\ caller \in Seq(Call) /\ Len(caller) = n - 1 /\ DOMAIN caller = 1..n-1
      /\ \A i \in 1..n-1 : caller[i] = stack[i]
  BY TopFacts DEF Leave
<1>2. x \in Tasks /\ d \in Nat /\ Top.deepest \in Nat
  BY <1>1 DEF Call
<1>3. Remember(x, d) /\ stack' = Returned(caller, x, d) /\ UNCHANGED <<deps, phase, kahnVars, verdict>>
      /\ Top.left = {}
  BY DEF Leave
<1> HIDE DEF n, caller, x, d
<1>4. Waiting(Top, depths)
  BY <1>1 DEF SearchInv, Chained
<1>5. x \notin DOMAIN depths /\ ~Independent(x) /\ Done(Top) = deps[x] /\ deps[x] # {}
  BY <1>2, <1>3, <1>4 DEF Waiting, Done, Independent, x
<1>6. /\ Extends(depths', depths, x, d) /\ DOMAIN depths' \subseteq Names
      /\ \A y \in DOMAIN depths' : depths'[y] \in Nat
  BY <1>2, <1>3, <1>5, MemoTyped DEF Names
<1>7. Final(depths')
  <2>1. deps[x] \subseteq DOMAIN depths /\ \A y \in deps[x] : depths[y] \in Nat
    BY <1>4, <1>5 DEF Waiting, TypeOK
  <2>2. \A y \in deps[x] : depths[y] < d
    BY <1>2, <1>4, <1>5, <2>1 DEF Waiting, d
  <2>3. \E y \in deps[x] : d = depths[y] + 1
    BY <1>4, <1>5 DEF Waiting, d
  <2>4. QED
    BY <1>5, <1>6, <2>1, <2>2, <2>3, FinalExtends DEF SearchInv
<1>8. Chained(caller, depths)
  <2>1. \A i \in DOMAIN caller : i \in DOMAIN stack /\ caller[i] = stack[i]
    BY <1>1
  <2>2. QED
    BY <2>1 DEF SearchInv, Chained
<1>9. \A i \in DOMAIN caller : caller[i].id # x
  BY <1>1 DEF SearchInv, Chained, x
<1>10. caller # << >> => x \in caller[Len(caller)].left
  <2>1. SUFFICES ASSUME caller # << >> PROVE x \in caller[n - 1].left
    BY <1>1
  <2>2. Len(caller) # 0
    BY <1>1, <2>1, EmptySeq
  <2>3. n - 1 \in DOMAIN stack /\ n - 1 + 1 = n /\ caller[n - 1] = stack[n - 1]
    BY <1>1, <2>2
  <2>4. QED
    BY <1>1, <2>3 DEF SearchInv, Chained, x
<1>11. \A y \in DOMAIN depths : depths[y] \in Nat
  BY DEF TypeOK
<1>12. Returned(caller, x, d) \in Seq(Call) /\ Chained(Returned(caller, x, d), depths')
  BY <1>1, <1>2, <1>6, <1>8, <1>9, <1>10, <1>11, AnswerKeeps
<1>13. TypeOK'
  BY <1>3, <1>6, <1>12 DEF TypeOK, kahnVars, Call, Names
<1>14. Final(depths)' /\ Chained(stack, depths)'
  BY <1>3, <1>7, <1>12 DEF Final, Independent, Chained, Waiting, Done
<1>15. QED
  BY <1>13, <1>14 DEF SearchInv

\* A name that is met while its depth is being computed closes a cycle: the calls
\* from that name to the top of the stack.
LEMMA CycleFound ==
    ASSUME TypeOK, SearchInv, NEW x, Asked(x), FoundCycle(x)
    PROVE  Cyclic(deps)
<1> DEFINE n == Len(stack)
<1>1. PICK k \in DOMAIN stack : stack[k].id = x
  BY DEF FoundCycle, Computing
<1>2. n \in Nat /\ DOMAIN stack = 1..n /\ \A i \in 1..n : stack[i] \in Call
  BY LenProperties, ElementOfSeq DEF TypeOK, Call
<1>3. stack # << >>
  BY <1>1
<1>4. x \in stack[n].left
  BY <1>3 DEF Asked, Top
<1> HIDE DEF n
<1> DEFINE some == {stack[i].id : i \in k..n}
<1>5. k..n \subseteq 1..n /\ k \in k..n
  BY <1>1, <1>2
<1>6. some \in SUBSET Tasks /\ some # {}
  BY <1>2, <1>5 DEF Call
<1>7. ASSUME NEW i \in k..n PROVE deps[stack[i].id] \cap some # {}
  <2>1. stack[i].left \subseteq deps[stack[i].id]
    BY <1>2, <1>5 DEF SearchInv, Chained, Waiting
  <2>2. CASE i = n
    BY <1>1, <1>4, <1>5, <2>1, <2>2
  <2>3. CASE i # n
    <3>1. i + 1 \in k..n /\ i \in 1..n /\ i + 1 \in 1..n
      BY <1>2, <1>5, <2>3
    <3>2. stack[i + 1].id \in stack[i].left
      BY <1>2, <3>1 DEF SearchInv, Chained
    <3>3. QED
      BY <2>1, <3>1, <3>2
  <2>4. QED
    BY <2>2, <2>3
<1>8. \A t \in some : deps[t] \cap some # {}
  BY <1>7
<1> HIDE DEF some
<1>9. QED
  BY <1>6, <1>8 DEF Cyclic

\* Where every task has a final depth no tasks wait for each other: the one with
\* the least depth would wait for a lesser one.
LEMMA DepthsRefuteCycles ==
    ASSUME TypeOK, Final(depths), Tasks \subseteq DOMAIN depths
    PROVE  ~Cyclic(deps)
<1> SUFFICES ASSUME NEW some \in SUBSET Tasks, some # {},
                    \A t \in some : deps[t] \cap some # {}
             PROVE  FALSE
  BY DEF Cyclic
<1> DEFINE found == {depths[t] : t \in some}
<1>1. found \in SUBSET Nat /\ found # {}
  BY DEF TypeOK
<1> HIDE DEF found
<1>2. PICK least \in found : \A m \in found : least <= m
  BY <1>1, Smallest
<1>3. PICK t \in some : depths[t] = least
  BY DEF found
<1>4. PICK y \in deps[t] : y \in some
  OBVIOUS
<1>5. depths[y] < depths[t]
  BY <1>4 DEF Final, Independent
<1>6. depths[y] \in found /\ depths[y] \in Nat /\ depths[t] \in Nat
  BY <1>4 DEF found, TypeOK
<1>7. QED
  BY <1>2, <1>3, <1>5, <1>6

\* Every step of the search keeps what the search has established.
LEMMA SearchStep ==
    ASSUME IInv, NextTask \/ NextDependency \/ Leave \/ Grouped
    PROVE  IInv'
<1>1. phase = "group" /\ verdict = "none" /\ sorted = << >>
  BY DEF NextTask, NextDependency, Leave, Grouped, IInv, Verdicts
<1>2. ASSUME NEW x, Asked(x), ComputeDepth(x) PROVE IInv'
  <2>1. CASE Known(x) \/ Leaf(x) \/ Enter(x)
    <3>1. TypeOK' /\ SearchInv'
      BY <1>2, <2>1, KnownKeeps, LeafKeeps, EnterKeeps DEF IInv
    <3>2. UNCHANGED <<deps, phase, sorted, verdict>>
      BY <2>1 DEF Known, Leaf, Enter, kahnVars
    <3>3. Verdicts' /\ SortExact' /\ SortedInOrder'
      BY <1>1, <3>2 DEF Verdicts, SortExact, SortedInOrder
    <3>4. QED
      BY <3>1, <3>3 DEF IInv
  <2>2. CASE FoundCycle(x)
    <3>1. Cyclic(deps)
      BY <1>2, <2>2, CycleFound DEF IInv
    <3>2. UNCHANGED <<deps, depths, stack, inDegree, queue, sorted>>
          /\ phase' = "cycle" /\ verdict' = "cycle"
      BY <2>2 DEF FoundCycle, dfsVars, kahnVars
    <3>3. TypeOK'
      BY <3>2 DEF IInv, TypeOK
    <3>4. SearchInv'
      BY <3>2 DEF IInv, SearchInv, Final, Independent, Chained, Waiting, Done
    <3>5. Cyclic(deps)'
      BY <3>1, <3>2
    <3>6. Verdicts' /\ SortExact' /\ SortedInOrder'
      BY <1>1, <3>2, <3>5 DEF Verdicts, SortExact, SortedInOrder
    <3>7. QED
      BY <3>3, <3>4, <3>6 DEF IInv
  <2>3. QED
    BY <1>2, <2>1, <2>2 DEF ComputeDepth
<1>3. CASE NextTask
  BY <1>2, <1>3 DEF NextTask, Asked, Names
<1>4. CASE NextDependency
  <2>1. Top \in Call
    BY <1>4, TopFacts DEF NextDependency, IInv
  <2>2. \A x \in Top.left : Asked(x)
    BY <2>1 DEF Asked, Call
  <2>3. QED
    BY <1>2, <1>4, <2>2 DEF NextDependency
<1>5. CASE Leave
  <2>1. TypeOK' /\ SearchInv'
    BY <1>5, LeaveKeeps DEF IInv
  <2>2. UNCHANGED <<deps, phase, sorted, verdict>>
    BY <1>5 DEF Leave, kahnVars
  <2>3. Verdicts' /\ SortExact' /\ SortedInOrder'
    BY <1>1, <2>2 DEF Verdicts, SortExact, SortedInOrder
  <2>4. QED
    BY <2>1, <2>3 DEF IInv
<1>6. CASE Grouped
  <2>1. UNCHANGED <<deps, depths, stack, inDegree, queue, sorted>>
        /\ phase' = "grouped" /\ verdict' = "ok" /\ Tasks \subseteq DOMAIN depths
    BY <1>6 DEF Grouped, dfsVars, kahnVars
  <2>2. TypeOK'
    BY <2>1 DEF IInv, TypeOK
  <2>3. SearchInv'
    BY <2>1 DEF IInv, SearchInv, Final, Independent, Chained, Waiting, Done
  <2>4. Verdicts' /\ SortExact' /\ SortedInOrder'
    BY <1>1, <2>1 DEF Verdicts, SortExact, SortedInOrder
  <2>5. QED
    BY <2>2, <2>3, <2>4 DEF IInv
<1>7. QED
  BY <1>3, <1>4, <1>5, <1>6

-----------------------------------------------------------------------------
(* The sort.                                                               *)

\* The sort leaves the search as it was.
LEMMA SearchOver ==
    ASSUME SearchInv, UNCHANGED <<deps, depths, stack>>
    PROVE  SearchInv'
BY DEF SearchInv, Final, Independent, Chained, Waiting, Done

LEMMA StartSortKeeps ==
    ASSUME IInv, StartSort
    PROVE  IInv'
<1> DEFINE free == {t \in Tasks : deps[t] = {}}
<1>1. UNCHANGED <<deps, depths, stack, sorted, verdict>> /\ phase' = "sort" /\ sorted = << >>
      /\ verdict # "none" /\ phase \in {"cycle", "grouped"}
  BY DEF StartSort, dfsVars, IInv, Verdicts
<1>2. PICK order \in Orders(free) : queue' = order
  BY DEF StartSort
<1>3. IsFiniteSet(free)
  BY PlanAssumption, FS_Subset
<1> HIDE DEF free
<1>4. order \in Seq(free) /\ Once(order) /\ Listed(order) = free
  BY <1>3, OrderLists
<1>5. queue' \in Seq(Tasks)
  BY <1>2, <1>4, SeqMonotonic DEF free
<1>6. inDegree' = [t \in Tasks |-> Cardinality(deps[t])]
  BY DEF StartSort
<1>7. \A t \in Tasks : Cardinality(deps[t] \ {}) \in Nat /\ deps[t] \ {} = deps[t]
  BY DependenciesFinite DEF IInv
<1>8. TypeOK'
  BY <1>1, <1>5, <1>6, <1>7 DEF IInv, TypeOK
<1>9. Listed(<< >>) = {} /\ Once(<< >>)
  BY DEF Listed, Once
<1>10. Once(queue') /\ Listed(queue') = free
  BY <1>2, <1>4
<1>11. SortExact'
  <2>1. \A t \in Tasks : /\ inDegree'[t] = Cardinality(deps[t] \ {})
                         /\ t \in free <=> deps[t] \subseteq {}
    BY <1>6, <1>7 DEF free
  <2>2. Once(sorted') /\ Listed(sorted') = {}
    BY <1>1, <1>9
  <2>3. QED
    BY <1>1, <1>10, <2>1, <2>2 DEF SortExact, Once, Listed
<1>12. Verdicts' /\ SearchInv'
  BY <1>1, SearchOver DEF IInv, Verdicts, Cyclic
<1>13. SortedInOrder'
  BY <1>1 DEF SortedInOrder
<1>14. QED
  BY <1>8, <1>11, <1>12, <1>13 DEF IInv

\* Adding an element to a sequence that has not got it.
LEMMA ListedAppend ==
    ASSUME NEW S, NEW s \in Seq(S), NEW e \in S
    PROVE  /\ Listed(Append(s, e)) = Listed(s) \cup {e}
           /\ Once(s) /\ e \notin Listed(s) => Once(Append(s, e))
<1> DEFINE n == Len(s)
           r == Append(s, e)
<1>1. /\ n \in Nat /\ DOMAIN s = 1..n /\ DOMAIN r = 1..n+1
      /\ r[n + 1] = e /\ \A i \in 1..n : r[i] = s[i]
  BY AppendProperties, LenProperties
<1> HIDE DEF n, r
<1>2. Listed(r) = Listed(s) \cup {e}
  BY <1>1 DEF Listed
<1>3. ASSUME Once(s), e \notin Listed(s), NEW i \in DOMAIN r, NEW j \in DOMAIN r, r[i] = r[j]
      PROVE  i = j
  <2>1. CASE i = n + 1
    BY <1>1, <1>3, <2>1 DEF Listed
  <2>2. CASE j = n + 1
    BY <1>1, <1>3, <2>2 DEF Listed
  <2>3. CASE i \in 1..n /\ j \in 1..n
    BY <1>1, <1>3, <2>3 DEF Once
  <2>4. QED
    BY <1>1, <1>3, <2>1, <2>2, <2>3
<1>4. QED
  BY <1>2, <1>3 DEF Once, r

\* Taking the head of a sequence that lists it once.
LEMMA ListedTail ==
    ASSUME NEW S, NEW s \in Seq(S), s # << >>, Once(s)
    PROVE  Head(s) \in Listed(s) /\ Listed(Tail(s)) = Listed(s) \ {Head(s)} /\ Once(Tail(s))
<1> DEFINE n == Len(s)
           r == Tail(s)
<1>1. /\ n \in Nat \ {0} /\ DOMAIN s = 1..n /\ DOMAIN r = 1..n-1 /\ Head(s) = s[1]
      /\ \A i \in 1..n-1 : r[i] = s[i + 1]
  BY HeadTailProperties, LenProperties, EmptySeq
<1> HIDE DEF n, r
<1>2. \A i \in 1..n : s[i] = s[1] => i = 1
  BY <1>1 DEF Once
<1>3. \A i \in 1..n-1 : i + 1 \in 1..n /\ i + 1 # 1
  BY <1>1
<1>4. \A i \in 1..n : i # 1 => i - 1 \in 1..n-1 /\ i - 1 + 1 = i
  BY <1>1
<1>5. ASSUME NEW e \in Listed(s) \ {s[1]} PROVE e \in Listed(r)
  <2>1. PICK i \in 1..n : e = s[i]
    BY <1>1 DEF Listed
  <2>2. r[i - 1] = e /\ i - 1 \in 1..n-1
    BY <1>1, <1>4, <2>1
  <2>3. QED
    BY <1>1, <2>2 DEF Listed
<1>6. ASSUME NEW e \in Listed(r) PROVE e \in Listed(s) \ {s[1]}
  <2>1. PICK i \in 1..n-1 : e = r[i]
    BY <1>1 DEF Listed
  <2>2. QED
    BY <1>1, <1>2, <1>3, <2>1 DEF Listed
<1>7. Once(r)
  BY SMTT(30), <1>1, <1>3 DEF Once
<1>8. s[1] \in Listed(s)
  BY <1>1 DEF Listed
<1>9. QED
  BY <1>1, <1>5, <1>6, <1>7, <1>8 DEF r

\* Joining two sequences that have nothing in common.
LEMMA ListedConcat ==
    ASSUME NEW S, NEW s \in Seq(S), NEW r \in Seq(S), Once(s), Once(r),
           Listed(s) \cap Listed(r) = {}
    PROVE  Listed(s \o r) = Listed(s) \cup Listed(r) /\ Once(s \o r)
<1> DEFINE m == Len(s)
           n == Len(r)
           c == s \o r
<1>1. /\ m \in Nat /\ n \in Nat /\ DOMAIN s = 1..m /\ DOMAIN r = 1..n /\ DOMAIN c = 1..m+n
      /\ \A i \in 1..m+n : c[i] = IF i <= m THEN s[i] ELSE r[i - m]
  BY ConcatProperties, LenProperties
<1> HIDE DEF m, n, c
<1>2. \A i \in 1..m : i \in 1..m+n /\ c[i] = s[i]
  BY <1>1
<1>3. \A i \in 1..n : i + m \in 1..m+n /\ ~(i + m <= m) /\ i + m - m = i
  BY <1>1
<1>4. \A i \in 1..n : i + m \in 1..m+n /\ c[i + m] = r[i]
  BY <1>1, <1>3
<1>5. \A i \in 1..m+n : i \in 1..m \/ (i - m \in 1..n /\ c[i] = r[i - m])
  BY <1>1
<1>6. ASSUME NEW e \in Listed(c) PROVE e \in Listed(s) \cup Listed(r)
  BY <1>1, <1>2, <1>5 DEF Listed
<1>7. \A e \in Listed(s) : e \in Listed(c)
  BY <1>1, <1>2 DEF Listed
<1>8. \A e \in Listed(r) : e \in Listed(c)
  BY <1>1, <1>4 DEF Listed
<1>9. ASSUME NEW i \in 1..m+n, NEW j \in 1..m+n, c[i] = c[j] PROVE i = j
  <2>1. CASE i \in 1..m /\ j \in 1..m
    BY <1>1, <1>2, <1>9, <2>1 DEF Once
  <2>2. CASE i \in 1..m /\ j \notin 1..m
    BY <1>1, <1>2, <1>5, <1>9, <2>2 DEF Listed
  <2>3. CASE i \notin 1..m /\ j \in 1..m
    BY <1>1, <1>2, <1>5, <1>9, <2>3 DEF Listed
  <2>4. CASE i \notin 1..m /\ j \notin 1..m
    <3>1. i - m \in 1..n /\ j - m \in 1..n /\ r[i - m] = r[j - m]
      BY <1>5, <1>9, <2>4
    <3>2. i - m = j - m
      BY <1>1, <3>1 DEF Once
    <3>3. QED
      BY <1>1, <3>2
  <2>5. QED
    BY <2>1, <2>2, <2>3, <2>4
<1>10. QED
  BY <1>1, <1>6, <1>7, <1>8, <1>9 DEF Once, c

\* Sorting the head of the queue takes it from the dependencies of those after it.
LEMMA SortNextKeeps ==
    ASSUME IInv, SortNext
    PROVE  IInv'
<1> DEFINE h == Head(queue)
           L == Listed(sorted)
           Q == Listed(queue)
           after == {t \in Tasks : h \in deps[t]}
           free == {t \in after : inDegree'[t] = 0}
<1>1. /\ phase = "sort" /\ queue # << >> /\ sorted' = Append(sorted, h)
      /\ inDegree' = [t \in Tasks |-> IF t \in after THEN inDegree[t] - 1 ELSE inDegree[t]]
      /\ UNCHANGED <<deps, phase, depths, stack, verdict>>
  BY DEF SortNext, dfsVars
<1>2. PICK order \in Orders(free) : queue' = Tail(queue) \o order
  BY DEF SortNext
<1>3. /\ Once(sorted) /\ Once(queue) /\ L \cap Q = {}
      /\ \A t \in Tasks : /\ inDegree[t] = Cardinality(deps[t] \ L)
                          /\ t \in L \cup Q <=> deps[t] \subseteq L
  BY <1>1 DEF IInv, SortExact
<1>4. sorted \in Seq(Tasks) /\ queue \in Seq(Tasks) /\ h \in Tasks /\ Tail(queue) \in Seq(Tasks)
  BY <1>1, HeadTailProperties DEF IInv, TypeOK
<1>5. free \in SUBSET Tasks /\ IsFiniteSet(free)
  BY PlanAssumption, FS_Subset
<1>6. \A t \in Tasks : t \in free <=> h \in deps[t] /\ inDegree'[t] = 0
  OBVIOUS
<1> HIDE DEF free
<1>7. order \in Seq(free) /\ Once(order) /\ Listed(order) = free
  BY <1>5, OrderLists
<1>8. order \in Seq(Tasks)
  BY <1>5, <1>7, SeqMonotonic
<1>9. h \in Q /\ Listed(Tail(queue)) = Q \ {h} /\ Once(Tail(queue))
  BY <1>1, <1>3, <1>4, ListedTail
<1>10. Listed(sorted') = L \cup {h} /\ Once(sorted')
  BY <1>1, <1>3, <1>4, <1>9, ListedAppend
<1> HIDE DEF h, L, Q, after
<1>11. h \notin L
  BY <1>3, <1>9
<1>12. ASSUME NEW t \in Tasks
       PROVE  /\ inDegree'[t] = Cardinality(deps[t] \ (L \cup {h})) /\ inDegree'[t] \in Nat
              /\ inDegree'[t] = 0 <=> deps[t] \subseteq L \cup {h}
  <2>1. IsFiniteSet(deps[t] \ L) /\ Cardinality(deps[t] \ L) \in Nat
        /\ IsFiniteSet(deps[t] \ (L \cup {h})) /\ Cardinality(deps[t] \ (L \cup {h})) \in Nat
    BY DependenciesFinite DEF IInv
  <2>2. deps[t] \ (L \cup {h}) = (deps[t] \ L) \ {h}
    OBVIOUS
  <2>3. Cardinality((deps[t] \ L) \ {h}) =
            IF h \in deps[t] \ L THEN Cardinality(deps[t] \ L) - 1 ELSE Cardinality(deps[t] \ L)
    BY <2>1, FS_RemoveElement
  <2>4. inDegree'[t] = IF h \in deps[t] THEN inDegree[t] - 1 ELSE inDegree[t]
    BY <1>1 DEF after
  <2>5. inDegree'[t] = Cardinality(deps[t] \ (L \cup {h}))
    BY <1>3, <1>11, <2>2, <2>3, <2>4
  <2>6. Cardinality(deps[t] \ (L \cup {h})) = 0 <=> deps[t] \ (L \cup {h}) = {}
    BY <2>1, FS_EmptySet
  <2>7. QED
    BY <2>1, <2>5, <2>6
<1>13. free \cap (L \cup Q) = {}
  BY <1>3, <1>5, <1>6, <1>11
<1>14. Listed(queue') = (Q \ {h}) \cup free /\ Once(queue')
  <2>1. Listed(Tail(queue)) \cap Listed(order) = {}
    BY <1>7, <1>9, <1>13
  <2>2. /\ Listed(Tail(queue) \o order) = Listed(Tail(queue)) \cup Listed(order)
        /\ Once(Tail(queue) \o order)
    BY <1>4, <1>7, <1>8, <1>9, <2>1, ListedConcat
  <2>3. QED
    BY <1>2, <1>7, <1>9, <2>2, Zenon
<1>15. ASSUME NEW t \in Tasks
       PROVE  t \in (L \cup {h}) \cup ((Q \ {h}) \cup free) <=> deps[t] \subseteq L \cup {h}
  <2>1. CASE h \in deps[t]
    <3>1. t \in free <=> deps[t] \subseteq L \cup {h}
      BY <1>6, <1>12, <2>1
    <3>2. t \notin L \cup Q
      BY <1>3, <1>11, <2>1
    <3>3. QED
      BY <1>9, <3>1, <3>2
  <2>2. CASE h \notin deps[t]
    <3>1. t \notin free
      BY <1>6, <2>2
    <3>2. deps[t] \subseteq L <=> deps[t] \subseteq L \cup {h}
      BY <2>2
    <3>3. QED
      BY <1>3, <1>9, <3>1, <3>2
  <2>3. QED
    BY <2>1, <2>2
<1>16. SortExact'
  <2>1. Listed(sorted') \cap Listed(queue') = {}
    BY <1>3, <1>9, <1>10, <1>13, <1>14
  <2>2. \A t \in Tasks :
            /\ inDegree'[t] = Cardinality(deps'[t] \ Listed(sorted'))
            /\ t \in Listed(sorted') \cup Listed(queue') <=> deps'[t] \subseteq Listed(sorted')
    BY <1>1, <1>10, <1>12, <1>14, <1>15
  <2>3. QED
    BY <1>1, <1>10, <1>14, <2>1, <2>2 DEF SortExact, Once, Listed
<1>17. TypeOK'
  <2>1. sorted' \in Seq(Tasks)
    BY <1>1, <1>4, AppendProperties DEF h
  <2>2. queue' \in Seq(Tasks)
    BY <1>2, <1>4, <1>8, ConcatProperties
  <2>3. inDegree' \in [Tasks -> Nat]
    BY <1>1, <1>12
  <2>4. QED
    BY <1>1, <2>1, <2>2, <2>3 DEF IInv, TypeOK
<1>18. Verdicts' /\ SearchInv'
  BY <1>1, SearchOver DEF IInv, Verdicts, Cyclic
<1>19. SortedInOrder'
  <2> DEFINE n == Len(sorted)
  <2>1. /\ n \in Nat /\ DOMAIN sorted = 1..n /\ DOMAIN sorted' = 1..n+1
        /\ sorted'[n + 1] = h /\ \A i \in 1..n : sorted'[i] = sorted[i]
    <3>1. h \in Tasks
      BY <1>4
    <3>2. QED
      BY <1>1, <1>4, <3>1, <1>17, AppendProperties, LenProperties DEF h, TypeOK
  <2> HIDE DEF n
  <2>2. ASSUME NEW i \in 1..n+1, NEW x \in deps[sorted'[i]]
        PROVE  \E j \in 1..i-1 : sorted'[j] = x
    <3>1. CASE i \in 1..n
      <4>1. PICK j \in 1..i-1 : sorted[j] = x
        BY <2>1, <2>2, <3>1 DEF IInv, SortedInOrder
      <4>2. j \in 1..n
        BY <2>1, <3>1
      <4>3. QED
        BY <2>1, <4>1, <4>2
    <3>2. CASE i = n + 1
      <4>1. x \in L
        BY <1>3, <1>4, <1>9, <2>1, <2>2, <3>2
      <4>2. PICK j \in 1..n : sorted[j] = x
        BY <2>1, <4>1 DEF L, Listed
      <4>3. j \in 1..i-1
        BY <2>1, <3>2
      <4>4. QED
        BY <2>1, <4>2, <4>3
    <3>3. QED
      BY <2>1, <3>1, <3>2
  <2>3. QED
    BY <1>1, <1>10, <2>1, <2>2 DEF SortedInOrder, Once
<1>20. QED
  BY <1>16, <1>17, <1>18, <1>19 DEF IInv

\* What the sort has established is about its own variables and the plan.
LEMMA SortOver ==
    ASSUME SortExact, SortedInOrder, UNCHANGED <<deps, inDegree, queue, sorted>>,
           \/ phase' = phase
           \/ phase = "sort" /\ phase' = "sorted" /\ queue = << >>
    PROVE  SortExact' /\ SortedInOrder'
<1>1. /\ Listed(sorted)' = Listed(sorted) /\ Listed(queue)' = Listed(queue)
      /\ Once(sorted)' = Once(sorted) /\ Once(queue)' = Once(queue)
  BY DEF Listed, Once
<1>2. SortExact'
  BY <1>1 DEF SortExact
<1>3. SortedInOrder'
  BY DEF SortedInOrder
<1>4. QED
  BY <1>2, <1>3

LEMMA SortEndsKeeps ==
    ASSUME IInv, SortEnds
    PROVE  IInv'
<1>1. /\ UNCHANGED <<deps, depths, stack, inDegree, queue, sorted, verdict>>
      /\ phase = "sort" /\ phase' = "sorted" /\ queue = << >>
  BY DEF SortEnds, dfsVars, kahnVars
<1>2. TypeOK' /\ Verdicts' /\ SearchInv'
  BY <1>1, SearchOver DEF IInv, TypeOK, Verdicts, Cyclic
<1>3. SortExact' /\ SortedInOrder'
  BY <1>1, SortOver DEF IInv
<1>4. QED
  BY <1>2, <1>3 DEF IInv

-----------------------------------------------------------------------------
(* The theorems.                                                           *)

\* The invariant: depths that are final, calls that wait for each other, a verdict
\* that is right, and the counts of the sort.
THEOREM Inductive == Spec => []IInv
<1>1. Init => IInv
  <2> SUFFICES ASSUME Init PROVE IInv
    OBVIOUS
  <2>1. TypeOK
    BY EmptySeq DEF Init, TypeOK
  <2>2. SearchInv
    BY DEF Init, SearchInv, Final, Chained
  <2>3. Verdicts /\ SortExact /\ SortedInOrder
    BY DEF Init, Verdicts, SortExact, SortedInOrder
  <2>4. QED
    BY <2>1, <2>2, <2>3 DEF IInv
<1>2. IInv /\ [Next]_vars => IInv'
  <2> SUFFICES ASSUME IInv, [Next]_vars PROVE IInv'
    OBVIOUS
  <2>1. CASE NextTask \/ NextDependency \/ Leave \/ Grouped
    BY <2>1, SearchStep
  <2>2. CASE StartSort
    BY <2>2, StartSortKeeps
  <2>3. CASE SortNext
    BY <2>3, SortNextKeeps
  <2>4. CASE SortEnds
    BY <2>4, SortEndsKeeps
  <2>5. CASE UNCHANGED vars
    <3>1. UNCHANGED <<deps, phase, depths, stack, inDegree, queue, sorted, verdict>>
      BY <2>5 DEF vars, dfsVars, kahnVars
    <3>2. TypeOK' /\ Verdicts' /\ SearchInv'
      BY <3>1, SearchOver DEF IInv, TypeOK, Verdicts, Cyclic
    <3>3. SortExact' /\ SortedInOrder'
      BY <3>1, SortOver DEF IInv
    <3>4. QED
      BY <3>2, <3>3 DEF IInv
  <2>6. QED
    BY <2>1, <2>2, <2>3, <2>4, <2>5 DEF Next
<1>3. QED
  BY <1>1, <1>2, PTL DEF Spec

\* GetParallelGroups gives every plan it accepts the depths of the definition,
\* whatever the order in which the plan lists its tasks.
THEOREM DepthsAlwaysExact == Spec => []DepthsExact
<1>1. IInv => DepthsExact
  <2> SUFFICES ASSUME IInv, phase = "grouped", NEW t \in Tasks
               PROVE  IF deps[t] = {} THEN depths[t] = 0
                      ELSE /\ \A x \in deps[t] : DepthIn([u \in Tasks |-> depths[u]], x) < depths[t]
                           /\ \E x \in deps[t] : depths[t] = DepthIn([u \in Tasks |-> depths[u]], x) + 1
    BY DEF DepthsExact, IsDepth
  <2>1. Tasks \subseteq DOMAIN depths /\ Final(depths)
    BY DEF IInv, Verdicts, SearchInv
  <2>2. CASE deps[t] = {}
    BY <2>1, <2>2 DEF Final, Independent
  <2>3. CASE deps[t] # {}
    <3>1. /\ deps[t] \subseteq DOMAIN depths
          /\ \A x \in deps[t] : depths[x] < depths[t]
          /\ \E x \in deps[t] : depths[t] = depths[x] + 1
      BY <2>1, <2>3 DEF Final, Independent
    <3>2. \A x \in deps[t] : DepthIn([u \in Tasks |-> depths[u]], x) = depths[x]
      BY <2>1, <3>1 DEF DepthIn, Final, Independent
    <3>3. QED
      BY <2>3, <3>1, <3>2
  <2>4. QED
    BY <2>2, <2>3
<1>2. QED
  BY <1>1, Inductive, PTL

\* The verdict is a cycle exactly when tasks wait for each other.
LEMMA VerdictRight == IInv => CyclesRefused
<1> SUFFICES ASSUME IInv, verdict # "none" PROVE verdict = "cycle" <=> Cyclic(deps)
  BY DEF CyclesRefused
<1>1. verdict = "cycle" => Cyclic(deps)
  BY DEF IInv, Verdicts
<1>2. verdict = "ok" => ~Cyclic(deps)
  BY DepthsRefuteCycles DEF IInv, Verdicts, SearchInv
<1>3. verdict \in {"ok", "cycle"}
  BY DEF IInv, TypeOK
<1>4. QED
  BY <1>1, <1>2, <1>3

\* GetParallelGroups refuses exactly the plans with tasks that wait for each other.
THEOREM CyclesAlwaysRefused == Spec => []CyclesRefused
BY VerdictRight, Inductive, PTL

\* TopologicalSort never lists a task twice or before something it depends on.
THEOREM AlwaysSortedInOrder == Spec => []SortedInOrder
<1>1. IInv => SortedInOrder
  BY DEF IInv
<1>2. QED
  BY <1>1, Inductive, PTL

\* A sequence that lists tasks once lists all of them when it is as long as they are many.
LEMMA AllListed ==
    ASSUME NEW s \in Seq(Tasks), Once(s)
    PROVE  Len(s) = Cardinality(Tasks) <=> Listed(s) = Tasks
<1> DEFINE n == Len(s)
<1>1. n \in Nat /\ s \in [1..n -> Tasks] /\ DOMAIN s = 1..n
  BY LenProperties
<1>2. s \in Injection(1..n, Tasks)
  BY <1>1 DEF Once, Injection, IsInjective
<1>3. Cardinality(1..n) = n
  BY SMTT(30), <1>1, FS_Interval
<1>4. n = Cardinality(Tasks) <=> s \in Surjection(1..n, Tasks)
  BY <1>2, <1>3, FS_Injection, PlanAssumption
<1>5. s \in Surjection(1..n, Tasks) <=> Listed(s) = Tasks
  BY <1>1 DEF Surjection, Listed
<1>6. QED
  BY <1>4, <1>5

\* The two algorithms agree, but for the plans that name a task they do not have.
THEOREM SortAgreesWithGroups == Spec => []SortsWhatIsGrouped
<1>1. IInv => SortsWhatIsGrouped
  <2> SUFFICES ASSUME IInv, phase = "sorted"
               PROVE  Len(sorted) = Cardinality(Tasks) <=> verdict = "ok" /\ ~Dangling(deps)
    BY DEF SortsWhatIsGrouped
  <2> DEFINE L == Listed(sorted)
  <2>1. /\ sorted \in Seq(Tasks) /\ Once(sorted)
        /\ \A t \in Tasks : t \in L <=> deps[t] \subseteq L
    <3>1. queue = << >> /\ Listed(<< >>) = {}
      BY DEF IInv, SortExact, Listed
    <3>2. QED
      BY <3>1 DEF IInv, TypeOK, SortExact
  <2>2. Len(sorted) = Cardinality(Tasks) <=> L = Tasks
    BY <2>1, AllListed
  <2>3. verdict = "ok" <=> ~Cyclic(deps)
    BY VerdictRight DEF CyclesRefused, IInv, Verdicts, TypeOK
  <2>4. deps \in [Tasks -> SUBSET (Tasks \cup Outside)] /\ L \subseteq Tasks
    BY <2>1, LenProperties DEF IInv, TypeOK, Plans, Listed
  <2>5. L = Tasks => ~Dangling(deps)
    BY <2>1, PlanAssumption DEF Dangling
  <2>6. L = Tasks => ~Cyclic(deps)
    <3> SUFFICES ASSUME L = Tasks, NEW some \in SUBSET Tasks, some # {},
                        \A t \in some : deps[t] \cap some # {}
                 PROVE  FALSE
      BY DEF Cyclic
    <3> DEFINE places == {i \in DOMAIN sorted : sorted[i] \in some}
    <3>1. DOMAIN sorted \subseteq Nat
      BY <2>1, LenProperties
    <3>2. PICK t \in some : TRUE
      OBVIOUS
    <3>3. \A u \in some : \E i \in DOMAIN sorted : sorted[i] = u
      BY DEF Listed
    <3>4. places \in SUBSET Nat /\ places # {}
      BY <3>1, <3>2, <3>3
    <3>5. PICK i \in places : \A j \in places : i <= j
      BY <3>4, Smallest
    <3>6. PICK x \in deps[sorted[i]] : x \in some
      BY <3>5
    <3>7. PICK j \in 1..i-1 : sorted[j] = x
      BY <3>5, <3>6 DEF IInv, SortedInOrder
    <3>8. i \in Nat /\ i \in 1..Len(sorted) /\ DOMAIN sorted = 1..Len(sorted) /\ Len(sorted) \in Nat
      BY <2>1, <3>5, LenProperties
    <3>9. j \in places /\ ~(i <= j)
      BY <3>6, <3>7, <3>8
    <3>10. QED
      BY <3>5, <3>9
  <2>7. ~Cyclic(deps) /\ ~Dangling(deps) => L = Tasks
    <3> SUFFICES ASSUME L # Tasks, ~Dangling(deps) PROVE Cyclic(deps)
      OBVIOUS
    <3> DEFINE some == Tasks \ L
    <3>1. some \in SUBSET Tasks /\ some # {}
      BY <2>4
    <3>2. ASSUME NEW t \in some PROVE deps[t] \cap some # {}
      <4>1. PICK x \in deps[t] : x \notin L
        BY <2>1
      <4>2. x \in Tasks
        BY <2>4, <4>1 DEF Dangling
      <4>3. QED
        BY <4>1, <4>2
    <3> HIDE DEF some
    <3>3. QED
      BY <3>1, <3>2 DEF Cyclic
  <2>8. QED
    BY <2>2, <2>3, <2>5, <2>6, <2>7
<1>2. QED
  BY <1>1, Inductive, PTL

=============================================================================
