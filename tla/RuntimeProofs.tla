---------------------------- MODULE RuntimeProofs ----------------------------
(***************************************************************************)
(* Proofs about the two modules of src/kernel/runtime.c that say how       *)
(* scripts run: Runtime, for every limit, clock, number of boot scripts,   *)
(* pending jobs and nested entries, and JsMemory, for every heap, limit    *)
(* and set of sizes.                                                       *)
(***************************************************************************)
EXTENDS Runtime, JsMemory, SequenceTheorems, Induction

-----------------------------------------------------------------------------
(* Runtime: the invariant.                                                 *)

(* Only js_runtime_eval nests: all entries but the outermost are its.      *)
NestedOnly == \A i \in 1 .. (Len(stack) - 1) : stack[i].kind = "nested"

(* The kernel has a context from js_runtime_start until it halts.          *)
Alive == pc \notin {"start", "halted"} => runtime /\ context

(***************************************************************************)
(* What may be pending, by where the C code is: nothing before a boot      *)
(* script, and from the drained queue to the next command nothing but what *)
(* the prompt left; only a failure goes to the prompt past the queue.      *)
(***************************************************************************)
Pending ==
  /\ pc \in {"start", "load"} => InC /\ jobs = <<>>
  /\ pc = "prompt" /\ ~InC => stranded
  /\ pc = "input" /\ ~InC => Outermost.kind = "prompt"
  /\ pc \in {"prompt", "input"} /\ ~stranded => \A i \in DOMAIN jobs : jobs[i] = "prompt"

(* Inductive: the guard, and what is pending where. *)
Inv == TypeOK /\ NestedOnly /\ Alive /\ GuardExact /\ Pending

-----------------------------------------------------------------------------

(* The invariant holds when the kernel starts. *)
LEMMA InitInv == Init => Inv
  <1> SUFFICES ASSUME Init
               PROVE  Inv
    OBVIOUS
  <1>1. TypeOK
    <2>1. stack \in Seq(Entry) /\ Len(stack) = 0 /\ jobs \in Seq(Kinds) /\ Len(jobs) = 0
      BY EmptySeq DEF Init
    <2>2. runtime \in BOOLEAN /\ context \in BOOLEAN /\ stranded \in BOOLEAN /\ InC
      BY Zenon DEF Init, InC
    <2>3. now \in 0 .. UintMax /\ deadline \in 0 .. UintMax /\ script \in 1 .. (Scripts + 1)
      BY RuntimeAssumption DEF Init
    <2>4. Len(stack) <= MaxDepth /\ Len(jobs) <= MaxJobs
      BY <2>1, RuntimeAssumption
    <2> QED  BY <2>1, <2>2, <2>3, <2>4, Zenon DEF Init, TypeOK
  <1>2. NestedOnly /\ Alive
    BY DEF Init, NestedOnly, Alive
  <1>3. GuardExact
    BY DEF Init, GuardExact, InC
  <1>4. Pending
    BY DEF Init, Pending, InC
  <1> QED  BY <1>1, <1>2, <1>3, <1>4 DEF Inv

(* The empty sequence, for provers that do not compute lengths. *)
LEMMA EmptyHasNone == Len(<<>>) = 0
  OBVIOUS

(* What js_runtime_eval leaves when it returns: the entry below is on top  *)
(* and disarmed, and all else of the entries is as it was.                 *)
LEMMA Uncovered ==
  ASSUME NEW s \in Seq(Entry), Len(s) > 1,
         NEW t, t = [Tail(s) EXCEPT ![1].disarmed = TRUE]
  PROVE  /\ t \in Seq(Entry) /\ t # <<>> /\ Len(t) = Len(s) - 1
         /\ Head(t) = t[1] /\ t[1].disarmed
         /\ \A i \in 1 .. Len(t) : t[i].kind = s[i + 1].kind
  <1> DEFINE q == Tail(s)
             e == [q[1] EXCEPT !.disarmed = TRUE]
  <1>1. /\ q \in Seq(Entry) /\ Len(q) = Len(s) - 1 /\ Len(s) \in Nat
        /\ \A i \in 1 .. Len(q) : q[i] = s[i + 1]
    BY HeadTailProperties, LenProperties
  <1>2. 1 \in 1 .. Len(q) /\ q[1] \in Entry
    BY <1>1, LenProperties, ElementOfSeq
  <1>3. t = [q EXCEPT ![1] = e]
    OBVIOUS
  <1>4. e \in Entry /\ e.disarmed /\ e.kind = q[1].kind
    BY <1>2 DEF Entry
  <1> HIDE DEF q, e
  <1>5. /\ t \in Seq(Entry) /\ Len(t) = Len(q)
        /\ \A i \in 1 .. Len(q) : t[i] = IF i = 1 THEN e ELSE q[i]
    <2>1. ASSUME NEW seq \in Seq(Entry), 1 \in 1 .. Len(seq)
          PROVE  /\ [seq EXCEPT ![1] = e] \in Seq(Entry)
                 /\ Len([seq EXCEPT ![1] = e]) = Len(seq)
                 /\ \A j \in 1 .. Len(seq) : [seq EXCEPT ![1] = e][j] = IF j = 1 THEN e ELSE seq[j]
      BY <1>4, <2>1, ExceptSeq
    <2>2. /\ [q EXCEPT ![1] = e] \in Seq(Entry)
          /\ Len([q EXCEPT ![1] = e]) = Len(q)
          /\ \A j \in 1 .. Len(q) : [q EXCEPT ![1] = e][j] = IF j = 1 THEN e ELSE q[j]
      BY <1>1, <1>2, <2>1
    <2> QED  BY <1>3, <2>2, Zenon
  <1>6. t # <<>> /\ Head(t) = t[1]
    <2>1. Len(t) # 0
      BY <1>1, <1>5
    <2>2. t # <<>>
      BY <2>1, EmptyHasNone, Zenon
    <2> QED  BY <1>5, <2>2
  <1>7. ASSUME NEW i \in 1 .. Len(t)
        PROVE  t[i].kind = s[i + 1].kind
    BY <1>1, <1>2, <1>4, <1>5
  <1> QED  BY <1>1, <1>2, <1>4, <1>5, <1>6, <1>7

(* Each action keeps the invariant. *)
LEMMA StepInv == Inv /\ [Next]_vars => Inv'
  <1> SUFFICES ASSUME Inv, [Next]_vars
               PROVE  Inv'
    OBVIOUS
  <1> USE RuntimeAssumption DEF Inv
  <1>1. CASE Tick
    BY <1>1 DEF Tick,
      TypeOK, NestedOnly, Alive, GuardExact, Pending, InC, Top, Outermost
  <1>2. CASE NoRuntime
    BY <1>2 DEF NoRuntime, Goto,
      TypeOK, NestedOnly, Alive, GuardExact, Pending, InC, Top, Outermost
  <1>3. CASE NoContext
    BY <1>3 DEF NoContext, Goto,
      TypeOK, NestedOnly, Alive, GuardExact, Pending, InC, Top, Outermost
  <1>4. CASE NoApi
    BY <1>4 DEF NoApi, Into, Enter, Entry, Kinds, Guarded, js_runtime_report_exception,
      TypeOK, NestedOnly, Alive, GuardExact, Pending, InC, Top, Outermost
  <1>5. CASE Abandon
    BY <1>5 DEF Abandon, Goto,
      TypeOK, NestedOnly, Alive, GuardExact, Pending, InC, Top, Outermost
  <1>6. CASE Started
    BY <1>6 DEF Started, Goto,
      TypeOK, NestedOnly, Alive, GuardExact, Pending, InC, Top, Outermost
  <1>7. CASE RunScript
    BY <1>7 DEF RunScript, Into, Enter, Entry, Kinds, Guarded, execution_deadline,
      TypeOK, NestedOnly, Alive, GuardExact, Pending, InC, Top, Outermost
  <1>8. CASE shell_evaluate
    BY <1>8 DEF shell_evaluate, Into, Enter, Entry, Kinds, Guarded,
      TypeOK, NestedOnly, Alive, GuardExact, Pending, InC, Top, Outermost
  <1>9. CASE EvaluateLine
    BY <1>9 DEF EvaluateLine, Into, Enter, Entry, Kinds, Guarded, execution_deadline,
      TypeOK, NestedOnly, Alive, GuardExact, Pending, InC, Top, Outermost
  <1>10. CASE PromptAgain
    BY <1>10 DEF PromptAgain, Goto,
      TypeOK, NestedOnly, Alive, GuardExact, Pending, InC, Top, Outermost
  <1>11. CASE shell_print_result
    BY <1>11 DEF shell_print_result, Into, Enter, Entry, Kinds, Guarded,
      TypeOK, NestedOnly, Alive, GuardExact, Pending, InC, Top, Outermost
  <1>12. CASE shell_write_prompt
    BY <1>12 DEF shell_write_prompt, Into, Enter, Entry, Kinds, Guarded,
      TypeOK, NestedOnly, Alive, GuardExact, Pending, InC, Top, Outermost
  <1>13. CASE ExecutePendingJob
    BY <1>13 DEF ExecutePendingJob, Into, Enter, Entry, Kinds, Guarded, execution_deadline,
      TypeOK, NestedOnly, Alive, GuardExact, Pending, InC, Top, Outermost
  <1>14. CASE Drained
    <2>1. script' \in 1 .. (Scripts + 1) /\ pc' \in {"load", "prompt"} /\ stranded' = FALSE
      BY <1>14 DEF Drained, Goto, InShell, TypeOK
    <2>2. TypeOK'
      BY <1>14, <2>1 DEF Drained, Goto, TypeOK, InC
    <2>3. NestedOnly' /\ Alive' /\ GuardExact' /\ Pending'
      BY <1>14, <2>1 DEF Drained, Goto, NestedOnly, Alive, GuardExact, Pending, InC, Top
    <2> QED  BY <2>2, <2>3
  <1>15. CASE Enqueue
    <2>1. TypeOK'
      <3>1. Outermost \in Entry
        BY <1>15, LenProperties, ElementOfSeq, EmptySeq DEF Enqueue, InC, Outermost, TypeOK
      <3>2. Outermost.kind \in Kinds
        BY <3>1 DEF Entry
      <3>3. jobs' \in Seq(Kinds) /\ Len(jobs') = Len(jobs) + 1
        BY <1>15, <3>2, AppendProperties DEF Enqueue, TypeOK
      <3>4. Len(jobs) + 1 <= MaxJobs
        BY <1>15, LenProperties DEF Enqueue, TypeOK
      <3> QED  BY <1>15, <3>3, <3>4 DEF Enqueue, TypeOK, InC
    <2>2. NestedOnly' /\ Alive'
      BY <1>15 DEF Enqueue, TypeOK, NestedOnly, Alive, GuardExact, Pending, InC, Top, Outermost
    <2>3. GuardExact'
      BY <1>15 DEF Enqueue, TypeOK, NestedOnly, GuardExact, InC, Top
    <2>4. Pending'
      BY <1>15 DEF Enqueue, TypeOK, NestedOnly, Alive, GuardExact, Pending, InC, Top, Outermost
    <2> QED  BY <2>1, <2>2, <2>3, <2>4
  <1>16. CASE js_runtime_eval
    BY <1>16 DEF js_runtime_eval, Into, Enter, Entry, Kinds, Guarded, execution_deadline,
      TypeOK, NestedOnly, Alive, GuardExact, Pending, InC, Top, Outermost
  <1>17. CASE NestedReturns
    <2>1. /\ stack' \in Seq(Entry) /\ stack' # <<>> /\ Len(stack') = Len(stack) - 1
          /\ Head(stack') = stack'[1] /\ stack'[1].disarmed
          /\ \A i \in 1 .. Len(stack') : stack'[i].kind = stack[i + 1].kind
      BY <1>17, Uncovered DEF NestedReturns, TypeOK
    <2>2. stack # <<>> /\ Len(stack) \in Nat /\ Top = stack[1]
      BY <1>17, LenProperties, EmptySeq DEF NestedReturns, TypeOK, Top
    <2>3. deadline' = UintMax
      BY <1>17, <2>2 DEF NestedReturns, Disarm, Guarded, NestedOnly
    <2>4. TypeOK'
      BY <1>17, <2>1, <2>2, <2>3 DEF NestedReturns, TypeOK, InC
    <2>5. NestedOnly' /\ Alive'
      BY <1>17, <2>1, <2>2 DEF NestedReturns, NestedOnly, Alive
    <2>6. GuardExact'
      BY <2>1, <2>3 DEF GuardExact, InC, Top
    <2>7. (Outermost.kind)' = Outermost.kind
      BY <1>17, <2>1, <2>2 DEF NestedReturns, Outermost
    <2>8. Pending'
      BY <1>17, <2>1, <2>2, <2>7 DEF NestedReturns, Pending, InC, Outermost
    <2> QED  BY <2>4, <2>5, <2>6, <2>8
  <1>18. CASE Returns
    BY <1>18 DEF Returns, Disarm, Guarded, AfterEval, InShell,
      TypeOK, NestedOnly, Alive, GuardExact, Pending, InC, Top, Outermost
  <1>19. CASE Throws
    <2>1. Outermost = Top /\ ~InC
      <3>1. stack # <<>>
        BY <1>19, EmptyHasNone DEF Throws
      <3> QED  BY <1>19, <3>1 DEF Throws, Outermost, Top, InC
    <2>2. deadline' = UintMax
      BY <1>19, <2>1 DEF Throws, Disarm, GuardExact
    <2>3. ASSUME NEW where \in {"prompt", "halted", "drain"},
                 Into("report", where), stranded' = TRUE \/ (where = "drain" /\ UNCHANGED stranded)
          PROVE  Inv'
      <3>1. /\ stack' = <<Enter("report")>> /\ Len(stack') = 1 /\ stack' # <<>>
            /\ Head(stack') = Enter("report") /\ stack'[1] = Enter("report")
        BY <2>3 DEF Into
      <3>2. Enter("report") \in Entry /\ Enter("report").kind = "report"
        BY DEF Enter, Entry, Kinds, Guarded, TypeOK
      <3>3. runtime /\ context
        BY <2>1 DEF TypeOK
      <3>4. TypeOK'
        <4>1. stack' \in Seq(Entry) /\ Len(stack') <= MaxDepth
          BY <3>1, <3>2, RuntimeAssumption
        <4>2. /\ deadline' \in 0 .. UintMax /\ stranded' \in BOOLEAN
              /\ UNCHANGED <<now, runtime, context, script, jobs>>
          <5>1. stranded' \in BOOLEAN
            BY <2>3, Zenon DEF TypeOK
          <5> QED  BY <1>19, <2>2, <5>1 DEF Throws, TypeOK
        <4> QED  BY <2>3, <3>3, <4>1, <4>2 DEF Into, TypeOK, InC
      <3>5. NestedOnly' /\ Alive'
        BY <1>19, <3>1, <3>3 DEF Throws, NestedOnly, Alive
      <3>6. GuardExact'
        BY <2>2, <3>1, <3>2 DEF GuardExact, InC, Top, Guarded
      <3>7. Pending'
        BY <1>19, <2>3, <3>1 DEF Throws, Into, Pending, InC
      <3> QED  BY <3>4, <3>5, <3>6, <3>7
    <2>4. ASSUME stack' = <<>>, UNCHANGED <<pc, stranded>>
          PROVE  Inv'
      <3>1. TypeOK'
        BY <1>19, <2>2, <2>4, EmptySeq DEF Throws, TypeOK, InC
      <3>2. NestedOnly' /\ Alive' /\ GuardExact' /\ Pending'
        BY <1>19, <2>1, <2>2, <2>4 DEF Throws, NestedOnly, Alive, GuardExact, Pending, InC
      <3> QED  BY <3>1, <3>2
    <2>5. CASE js_runtime_report_exception(AfterFailure) /\ stranded' = TRUE
      BY <2>3, <2>5 DEF js_runtime_report_exception, AfterFailure
    <2>6. CASE js_runtime_report_exception("drain") /\ UNCHANGED stranded
      BY <2>3, <2>6 DEF js_runtime_report_exception
    <2> QED  BY <1>19, <2>4, <2>5, <2>6 DEF Throws
  <1>20. CASE Interrupted
    BY <1>17, <1>19, <1>20 DEF Interrupted
  <1>21. CASE UNCHANGED vars
    BY <1>21 DEF vars, TypeOK, NestedOnly, Alive, GuardExact, Pending, InC, Top, Outermost
  <1> QED
    BY <1>1, <1>2, <1>3, <1>4, <1>5, <1>6, <1>7, <1>8, <1>9, <1>10, <1>11, <1>12,
       <1>13, <1>14, <1>15, <1>16, <1>17, <1>18, <1>19, <1>20, <1>21 DEF Next

(* Every reachable state satisfies the invariant. *)
THEOREM AlwaysInv == Spec => []Inv
  BY InitInv, StepInv, PTL DEF Spec

(* The kernel's C code is where it can be, and enters QuickJS only with a  *)
(* runtime and a context.                                                  *)
THEOREM TypesHold == Spec => []TypeOK
  <1>1. Inv => TypeOK
    BY DEF Inv
  <1> QED  BY <1>1, AlwaysInv, PTL

(* The deadline is that of the innermost entry, or none.                   *)
THEOREM GuardIsExact == Spec => []GuardExact
  <1>1. Inv => GuardExact
    BY DEF Inv
  <1> QED  BY <1>1, AlwaysInv, PTL

(* No job waits behind the prompt, unless a command or a job failed.       *)
THEOREM JobsAreSettled == Spec => []JobsSettled
  <1>1. Inv => JobsSettled
    BY DEF Inv, Pending, JobsSettled, InC
  <1> QED  BY <1>1, AlwaysInv, PTL

-----------------------------------------------------------------------------
(* JsMemory: sums of usable sizes.                                         *)

(* The sum of the usable sizes of the grants in S. *)
Total(S) == MapThenSumSet(heap_usable_size, S)

(* What the fold of MapThenSumSet picks from a set. *)
Pick(s) == CHOOSE g \in s : TRUE

(* sum is the function that the fold of MapThenSumSet defines on the subsets of S. *)
Sums(S, sum) ==
  sum = [s \in SUBSET S |-> IF s = {} THEN 0
                            ELSE heap_usable_size(Pick(s)) + sum[s \ {Pick(s)}]]

(* The fold looks its function up at the set. *)
LEMMA TotalIsFold ==
  ASSUME NEW S
  PROVE  Total(S) = (CHOOSE sum : Sums(S, sum))[S]
  BY DEF Total, MapThenSumSet, MapThenFoldSet, Sums, Pick

(* What a fold picks is in the set, and what is left is a smaller set. *)
LEMMA Picked ==
  ASSUME NEW s, s # {}
  PROVE  Pick(s) \in s /\ s \ {Pick(s)} \in SUBSET s /\ s \ {Pick(s)} # s
  BY DEF Pick

(* Two such functions agree on the subsets they both have.                 *)
LEMMA SumsAgree ==
  ASSUME NEW A, NEW a, Sums(A, a), NEW B, NEW b, Sums(B, b),
         NEW S, IsFiniteSet(S), S \subseteq A, S \subseteq B
  PROVE  a[S] = b[S]
  <1> DEFINE C == {s \in SUBSET S : a[s] = b[s]}
  <1>1. ASSUME NEW s \in SUBSET S, \A t \in SUBSET s : t # s => t \in C
        PROVE  s \in C
    <2>1. s \in SUBSET A /\ s \in SUBSET B
      OBVIOUS
    <2>2. CASE s = {}
      <3>1. a[s] = 0 /\ b[s] = 0
        BY <2>1, <2>2 DEF Sums
      <3> QED  BY <3>1
    <2>3. CASE s # {}
      <3>1. s \ {Pick(s)} \in C
        BY <1>1, <2>3, Picked
      <3>2. a[s] = heap_usable_size(Pick(s)) + a[s \ {Pick(s)}]
        BY <2>1, <2>3 DEF Sums
      <3>3. b[s] = heap_usable_size(Pick(s)) + b[s \ {Pick(s)}]
        BY <2>1, <2>3 DEF Sums
      <3> QED  BY <3>1, <3>2, <3>3
    <2> QED  BY <2>2, <2>3
  <1> HIDE DEF C
  <1>2. S \in C
    BY <1>1, SubsetInduction
  <1> QED  BY <1>2 DEF C

(* The fold's function exists for every finite set. *)
LEMMA SumsExist ==
  ASSUME NEW S, IsFiniteSet(S)
  PROVE  \E sum : Sums(S, sum)
  <1> DEFINE C == {s \in SUBSET S : \E sum : Sums(s, sum)}
             f(s) == (CHOOSE sum : Sums(s, sum))[s]
  <1>1. ASSUME NEW s \in SUBSET S, \A t \in SUBSET s : t # s => t \in C
        PROVE  s \in C
    <2> DEFINE sum == [t \in SUBSET s |-> IF t = {} THEN 0
                                          ELSE heap_usable_size(Pick(t)) + f(t \ {Pick(t)})]
    <2>1. ASSUME NEW t \in SUBSET s, t # s
          PROVE  sum[t] = f(t)
      <3>1. PICK g : Sums(t, g)
        BY <1>1, <2>1
      <3>2. Sums(t, CHOOSE h : Sums(t, h))
        BY <3>1
      <3> DEFINE h == CHOOSE x : Sums(t, x)
      <3>3. Sums(t, h) /\ f(t) = h[t]
        BY <3>2
      <3> HIDE DEF h
      <3>4. CASE t = {}
        <4>1. h[t] = 0
          BY <3>3, <3>4 DEF Sums
        <4> QED  BY <3>3, <3>4, <4>1
      <3>5. CASE t # {}
        <4> DEFINE u == t \ {Pick(t)}
        <4>1. h[t] = heap_usable_size(Pick(t)) + h[u]
          BY <3>3, <3>5 DEF Sums
        <4>2. u \in SUBSET s /\ u # s /\ u \subseteq t
          BY <3>5, Picked
        <4> DEFINE k == CHOOSE x : Sums(u, x)
        <4>3. Sums(u, k) /\ f(u) = k[u]
          <5>1. \E x : Sums(u, x)
            BY <1>1, <4>2
          <5> QED  BY <5>1
        <4> HIDE DEF k
        <4>4. IsFiniteSet(u)
          BY <4>2, FS_Subset
        <4> HIDE DEF u
        <4>5. k[u] = h[u]
          BY <3>3, <4>2, <4>3, <4>4, SumsAgree
        <4>6. sum[t] = heap_usable_size(Pick(t)) + f(u)
          BY <3>5 DEF u
        <4> HIDE DEF f, sum
        <4> QED  BY <3>3, <4>1, <4>3, <4>5, <4>6
      <3> QED  BY <3>4, <3>5
    <2>2. ASSUME NEW t \in SUBSET s, t # {}
          PROVE  f(t \ {Pick(t)}) = sum[t \ {Pick(t)}]
      <3>1. t \ {Pick(t)} \in SUBSET s /\ t \ {Pick(t)} # s
        BY <2>2, Picked
      <3> HIDE DEF f, sum
      <3> QED  BY <3>1, <2>1
    <2>3. sum = [t \in SUBSET s |-> IF t = {} THEN 0
                                    ELSE heap_usable_size(Pick(t)) + sum[t \ {Pick(t)}]]
      <3>1. sum = [t \in SUBSET s |-> sum[t]]
        OBVIOUS
      <3>2. \A t \in SUBSET s :
              sum[t] = IF t = {} THEN 0 ELSE heap_usable_size(Pick(t)) + f(t \ {Pick(t)})
        OBVIOUS
      <3> HIDE DEF f, sum
      <3>3. \A t \in SUBSET s :
              sum[t] = IF t = {} THEN 0 ELSE heap_usable_size(Pick(t)) + sum[t \ {Pick(t)}]
        BY <2>2, <3>2
      <3> QED  BY <3>1, <3>3
    <2> HIDE DEF sum
    <2>4. Sums(s, sum)
      BY <2>3 DEF Sums
    <2> QED  BY <2>4
  <1>2. \A s \in SUBSET S : s \in C
    <2> HIDE DEF C
    <2> QED  BY <1>1, SubsetInduction
  <1> QED  BY <1>2

(* The sum over a finite set, in terms of the sum over a smaller one.      *)
LEMMA TotalUnfolds ==
  ASSUME NEW S, IsFiniteSet(S)
  PROVE  Total(S) = IF S = {} THEN 0
                    ELSE heap_usable_size(Pick(S)) + Total(S \ {Pick(S)})
  <1> DEFINE T == S \ {Pick(S)}
             a == CHOOSE sum : Sums(S, sum)
             b == CHOOSE sum : Sums(T, sum)
  <1>1. IsFiniteSet(T)
    BY FS_RemoveElement
  <1>2. Total(S) = a[S] /\ Total(T) = b[T]
    BY TotalIsFold
  <1>3. Sums(S, a)
    BY SumsExist
  <1>4. Sums(T, b)
    <2> HIDE DEF T
    <2> QED  BY <1>1, SumsExist
  <1> HIDE DEF a, b
  <1>5. a[S] = IF S = {} THEN 0 ELSE heap_usable_size(Pick(S)) + a[T]
    BY <1>3 DEF Sums
  <1>6. T \subseteq S
    OBVIOUS
  <1> HIDE DEF T
  <1>7. a[T] = b[T]
    BY <1>1, <1>3, <1>4, <1>6, SumsAgree
  <1> QED  BY <1>2, <1>5, <1>7 DEF T

(***************************************************************************)
(* The sum is a natural, and any element can be taken out of it.           *)
(***************************************************************************)
LEMMA TotalWithout ==
  ASSUME NEW S, IsFiniteSet(S), \A g \in S : heap_usable_size(g) \in Nat
  PROVE  /\ Total(S) \in Nat
         /\ \A g \in S : Total(S) = heap_usable_size(g) + Total(S \ {g})
  <1> DEFINE Good(s) == /\ Total(s) \in Nat
                        /\ \A g \in s : Total(s) = heap_usable_size(g) + Total(s \ {g})
             C == {s \in SUBSET S : Good(s)}
  <1>1. ASSUME NEW s \in SUBSET S, \A t \in SUBSET s : t # s => t \in C
        PROVE  s \in C
    <2>1. CASE s = {}
      <3>1. Total(s) = 0
        BY <2>1, FS_EmptySet, TotalUnfolds
      <3> QED  BY <2>1, <3>1
    <2>2. CASE s # {}
      <3> DEFINE x == Pick(s)
      <3>1. x \in s /\ s \ {x} \in C /\ heap_usable_size(x) \in Nat
        BY <1>1, <2>2, Picked
      <3>2. IsFiniteSet(s)
        BY FS_Subset
      <3>3. Total(s) = heap_usable_size(x) + Total(s \ {x})
        BY <2>2, <3>2, TotalUnfolds
      <3> HIDE DEF x
      <3>4. Total(s \ {x}) \in Nat /\ Total(s) \in Nat
        BY <3>1, <3>3
      <3>5. ASSUME NEW g \in s
            PROVE  Total(s) = heap_usable_size(g) + Total(s \ {g})
        <4>1. CASE g = x
          BY <4>1, <3>3
        <4>2. CASE g # x
          <5>1. g \in s \ {x} /\ x \in s \ {g} /\ heap_usable_size(g) \in Nat
            BY <3>1, <4>2
          <5>2. s \ {g} \in C /\ (s \ {x}) \ {g} \in C
            <6>1. s \ {g} \in SUBSET s /\ s \ {g} # s
              OBVIOUS
            <6>2. (s \ {x}) \ {g} \in SUBSET s /\ (s \ {x}) \ {g} # s
              BY <3>1
            <6> QED  BY <6>1, <6>2, <1>1
          <5>3. Total(s \ {x}) = heap_usable_size(g) + Total((s \ {x}) \ {g})
            BY <3>1, <5>1
          <5>4. Total(s \ {g}) = heap_usable_size(x) + Total((s \ {g}) \ {x})
            BY <5>1, <5>2
          <5>5. (s \ {g}) \ {x} = (s \ {x}) \ {g}
            OBVIOUS
          <5>6. Total((s \ {x}) \ {g}) \in Nat
            BY <5>2
          <5> QED  BY <3>1, <3>3, <5>1, <5>3, <5>4, <5>5, <5>6
        <4> QED  BY <4>1, <4>2
      <3> QED  BY <3>4, <3>5
    <2> QED  BY <2>1, <2>2
  <1>2. \A s \in SUBSET S : s \in C
    <2> HIDE DEF C
    <2> QED  BY <1>1, SubsetInduction
  <1> QED  BY <1>2

(* The sum over a set with one more element. *)
LEMMA TotalWith ==
  ASSUME NEW S, IsFiniteSet(S), \A g \in S : heap_usable_size(g) \in Nat,
         NEW x, x \notin S, heap_usable_size(x) \in Nat
  PROVE  Total(S \cup {x}) = Total(S) + heap_usable_size(x)
  <1> DEFINE T == S \cup {x}
  <1>1. IsFiniteSet(T) /\ x \in T /\ T \ {x} = S /\ \A g \in T : heap_usable_size(g) \in Nat
    BY FS_AddElement
  <1> HIDE DEF T
  <1>2. Total(T) = heap_usable_size(x) + Total(S) /\ Total(S) \in Nat
    BY <1>1, TotalWithout
  <1> QED  BY <1>2 DEF T

-----------------------------------------------------------------------------
(* The invariant of the accounts.                                          *)

(* A grant of at least a unit. *)
Block == [ptr : Heap!Units, units : Nat \ {0}, asked : Nat]

(* The grants of those in G that start at a pointer in J.                  *)
Held(G, J) == {g \in G : g.ptr \in J}

(* Finitely many grants that start at different pointers. *)
Apart(G) ==
  /\ IsFiniteSet(G)
  /\ G \subseteq Block
  /\ \A g, h \in G : g.ptr = h.ptr => g = h

(* The accounts n and z of the pointers in J. *)
Sound(G, J, n, z) ==
  /\ J \subseteq {g.ptr : g \in G}
  /\ IsFiniteSet(J)
  /\ n = Cardinality(J)
  /\ z = Total(Held(G, J))

(* The limit is one of the two that are ever set, and it is kept. *)
LimitKept ==
  /\ malloc_limit \in {SizeMax, JsLimit}
  /\ LimitHolds

(* Inductive: the accounts add up, over grants that lie apart. *)
Accounts ==
  /\ Apart(grants)
  /\ Sound(grants, js, malloc_count, malloc_size)
  /\ LimitKept

(* Rounding up to units gives at least one, and less than one unit more. *)
LEMMA Rounded ==
  ASSUME NEW s \in Nat, s # 0
  PROVE  /\ UnitsFor(s) \in Nat /\ UnitsFor(s) # 0
         /\ UnitsFor(s) * Alignment \in Nat
         /\ UnitsFor(s) * Alignment <= s + Alignment - 1
  <1> DEFINE x == s + Alignment - 1
  <1>1. Alignment \in Nat \ {0} /\ x \in Nat /\ x >= Alignment
    BY JsMemoryAssumption
  <1>2. ASSUME NEW a \in Nat, NEW y \in Nat \ {0}, a >= y
        PROVE  a \div y \in Nat /\ a \div y # 0 /\ (a \div y) * y \in Nat
               /\ (a \div y) * y <= a
    BY <1>2
  <1> HIDE DEF x
  <1>3. UnitsFor(s) = x \div Alignment
    BY DEF UnitsFor, x
  <1>4. (x \div Alignment) * Alignment <= s + Alignment - 1
    BY <1>1, <1>2 DEF x
  <1> QED  BY <1>1, <1>2, <1>3, <1>4

(* What a grant for a request takes, and that it starts elsewhere than     *)
(* those it lies apart from.                                               *)
LEMMA FreshGrant ==
  ASSUME NEW s \in Requests, s # 0, NEW g \in Heap!GrantFor(UnitsFor(s)),
         NEW others, others \subseteq Block,
         Heap!Fits(g, others)
  PROVE  /\ g \in Block
         /\ heap_usable_size(g) \in Nat
         /\ heap_usable_size(g) <= s + Overshoot
         /\ \A o \in others : o.ptr # g.ptr
  <1> DEFINE n == UnitsFor(s)
  <1>1. /\ s \in Nat /\ Slack \in Nat /\ HeapUnits \in Nat /\ Alignment \in Nat \ {0}
    BY JsMemoryAssumption
  <1>2. n \in Nat /\ n # 0 /\ n * Alignment \in Nat /\ n * Alignment <= s + Alignment - 1
    BY <1>1, Rounded
  <1> HIDE DEF n
  <1>3. /\ g.ptr \in Heap!Units /\ g.units \in n .. (n + Slack) /\ g.asked = n
        /\ g = [ptr |-> g.ptr, units |-> g.units, asked |-> g.asked]
    BY DEF Heap!GrantFor, n
  <1>4. g.units \in Nat /\ g.units # 0 /\ g.units <= n + Slack
    BY <1>1, <1>2, <1>3
  <1>5. g \in Block
    BY <1>2, <1>3, <1>4 DEF Block
  <1>6. heap_usable_size(g) \in Nat /\ heap_usable_size(g) <= s + Overshoot
    <2>1. ASSUME NEW a \in Nat, NEW b \in Nat, NEW c \in Nat, NEW y \in Nat, a <= b + c
          PROVE  a * y \in Nat /\ a * y <= b * y + c * y /\ c * y \in Nat /\ b * y \in Nat
      <3>1. PICK d \in Nat : b + c = a + d
        <4>1. b + c - a \in Nat
          BY <2>1
        <4> QED  BY <4>1
      <3>2. b * y + c * y = a * y + d * y /\ d * y \in Nat /\ a * y \in Nat /\ b * y \in Nat
            /\ c * y \in Nat
        <4>1. (b + c) * y = b * y + c * y /\ (a + d) * y = a * y + d * y
          OBVIOUS
        <4> QED  BY <3>1, <4>1
      <3> QED  BY <3>2
    <2>2. g.units * Alignment \in Nat /\ g.units * Alignment <= n * Alignment + Slack * Alignment
          /\ Slack * Alignment \in Nat
      BY <1>1, <1>2, <1>4, <2>1
    <2> QED  BY <1>1, <1>2, <2>2 DEF heap_usable_size, Overshoot
  <1>7. ASSUME NEW o \in others
        PROVE  o.ptr # g.ptr
    <2>1. o.ptr \in Nat /\ o.units \in Nat /\ o.units # 0 /\ g.ptr \in Nat
      BY <1>1, <1>3 DEF Heap!Units, Block
    <2>2. o.ptr \in Heap!Extent(o) /\ g.ptr \in Heap!Extent(g)
      BY <1>4, <2>1 DEF Heap!Extent
    <2> QED  BY <2>2 DEF Heap!Fits
  <1> QED  BY <1>5, <1>6, <1>7

(* What the grants of an apart set weigh, and which start in J.            *)
LEMMA HeldOf ==
  ASSUME NEW G, Apart(G), NEW J
  PROVE  /\ Held(G, J) \subseteq G /\ IsFiniteSet(Held(G, J))
         /\ \A g \in G : heap_usable_size(g) \in Nat
         /\ Total(Held(G, J)) \in Nat
  <1>1. Held(G, J) \subseteq G /\ IsFiniteSet(Held(G, J))
    BY FS_Subset DEF Held, Apart
  <1>2. ASSUME NEW g \in G
        PROVE  heap_usable_size(g) \in Nat
    <2>1. g.units \in Nat /\ Alignment \in Nat
      BY JsMemoryAssumption DEF Apart, Block
    <2> QED  BY <2>1 DEF heap_usable_size
  <1>3. Total(Held(G, J)) \in Nat
    BY <1>1, <1>2, TotalWithout
  <1> QED  BY <1>1, <1>2, <1>3

(* A grant more: charged when its pointer is added to J.                   *)
LEMMA Gain ==
  ASSUME NEW G, Apart(G), NEW J, NEW n, NEW z, Sound(G, J, n, z),
         NEW g \in Block, heap_usable_size(g) \in Nat, \A o \in G : o.ptr # g.ptr
  PROVE  /\ Apart(G \cup {g})
         /\ Sound(G \cup {g}, J \cup {g.ptr}, n + 1, z + heap_usable_size(g))
         /\ Sound(G \cup {g}, J, n, z)
  <1>1. Apart(G \cup {g})
    <2>1. IsFiniteSet(G \cup {g})
      BY FS_AddElement DEF Apart
    <2> QED  BY <2>1 DEF Apart
  <1>2. g.ptr \notin J
    BY DEF Sound
  <1>3. Held(G \cup {g}, J) = Held(G, J)
    BY <1>2 DEF Held
  <1>4. Held(G \cup {g}, J \cup {g.ptr}) = Held(G, J) \cup {g}
    BY DEF Held
  <1>5. Total(Held(G, J) \cup {g}) = z + heap_usable_size(g)
    <2>1. g \notin Held(G, J)
      BY DEF Held
    <2>2. IsFiniteSet(Held(G, J)) /\ \A h \in Held(G, J) : heap_usable_size(h) \in Nat
      BY HeldOf
    <2> QED  BY <2>1, <2>2, TotalWith DEF Sound
  <1>6. IsFiniteSet(J \cup {g.ptr}) /\ Cardinality(J \cup {g.ptr}) = n + 1
    BY <1>2, FS_AddElement DEF Sound
  <1>7. J \cup {g.ptr} \subseteq {h.ptr : h \in G \cup {g}}
    BY DEF Sound
  <1>8. Sound(G \cup {g}, J \cup {g.ptr}, n + 1, z + heap_usable_size(g))
    BY <1>4, <1>5, <1>6, <1>7 DEF Sound
  <1>9. Sound(G \cup {g}, J, n, z)
    BY <1>3 DEF Sound
  <1> QED  BY <1>1, <1>8, <1>9

(* A grant less: what it was charged can be taken off the accounts. *)
LEMMA Loss ==
  ASSUME NEW G, Apart(G), NEW J, NEW n, NEW z, Sound(G, J, n, z), NEW h \in G
  PROVE  /\ Apart(G \ {h})
         /\ heap_usable_size(h) \in Nat /\ z \in Nat
         /\ h.ptr \in J => /\ n \in Nat \ {0} /\ heap_usable_size(h) <= z
                            /\ Sound(G \ {h}, J \ {h.ptr}, n - 1, z - heap_usable_size(h))
         /\ h.ptr \notin J => Sound(G \ {h}, J, n, z)
  <1>1. Apart(G \ {h})
    BY FS_RemoveElement DEF Apart
  <1>2. heap_usable_size(h) \in Nat /\ z \in Nat
    BY HeldOf DEF Sound
  <1>3. ASSUME h.ptr \in J
        PROVE  /\ n \in Nat \ {0} /\ heap_usable_size(h) <= z
               /\ Sound(G \ {h}, J \ {h.ptr}, n - 1, z - heap_usable_size(h))
    <2>1. Held(G \ {h}, J \ {h.ptr}) = Held(G, J) \ {h}
      BY DEF Held, Apart
    <2>2. h \in Held(G, J)
      BY <1>3 DEF Held
    <2>3. z = heap_usable_size(h) + Total(Held(G, J) \ {h})
      <3>1. IsFiniteSet(Held(G, J)) /\ \A g \in Held(G, J) : heap_usable_size(g) \in Nat
        BY HeldOf
      <3> QED  BY <2>2, <3>1, TotalWithout DEF Sound
    <2>4. Total(Held(G, J) \ {h}) \in Nat
      BY <1>1, <2>1, HeldOf
    <2>5. Total(Held(G \ {h}, J \ {h.ptr})) = z - heap_usable_size(h)
      <3>1. Total(Held(G \ {h}, J \ {h.ptr})) = Total(Held(G, J) \ {h})
        BY <2>1, Zenon
      <3> DEFINE rest == Total(Held(G, J) \ {h})
                 u == heap_usable_size(h)
      <3>2. rest \in Nat /\ u \in Nat /\ z = u + rest
        BY <1>2, <2>3, <2>4, <3>1
      <3> HIDE DEF rest, u
      <3>3. rest = z - u
        BY <3>2
      <3> QED  BY <3>1, <3>3, Zenon DEF rest, u
    <2>6. /\ IsFiniteSet(J \ {h.ptr}) /\ Cardinality(J \ {h.ptr}) = n - 1
          /\ n \in Nat \ {0}
      <3>1. IsFiniteSet(J) /\ n = Cardinality(J)
        BY DEF Sound
      <3>2. IsFiniteSet(J \ {h.ptr}) /\ Cardinality(J \ {h.ptr}) = Cardinality(J) - 1
        BY <1>3, <3>1, FS_RemoveElement
      <3>3. Cardinality(J) \in Nat /\ Cardinality(J \ {h.ptr}) \in Nat
        BY <3>1, <3>2, FS_CardinalityType
      <3> QED  BY <3>1, <3>2, <3>3
    <2>7. J \ {h.ptr} \subseteq {g.ptr : g \in G \ {h}}
      BY DEF Sound
    <2>8. Sound(G \ {h}, J \ {h.ptr}, n - 1, z - heap_usable_size(h))
      BY <2>5, <2>6, <2>7 DEF Sound
    <2> QED  BY <1>2, <2>3, <2>4, <2>6, <2>8
  <1>4. ASSUME h.ptr \notin J
        PROVE  Sound(G \ {h}, J, n, z)
    <2>1. Held(G \ {h}, J) = Held(G, J)
      BY <1>4 DEF Held
    <2>2. J \subseteq {g.ptr : g \in G \ {h}}
      BY <1>4 DEF Sound
    <2> QED  BY <2>1, <2>2 DEF Sound
  <1> QED  BY <1>1, <1>2, <1>3, <1>4

(* The grant of a held pointer. *)
LEMMA GrantHeld ==
  ASSUME NEW p \in {g.ptr : g \in grants}
  PROVE  GrantAt(p) \in grants /\ GrantAt(p).ptr = p
  BY DEF GrantAt

-----------------------------------------------------------------------------
(* The steps.                                                              *)

(* The invariant holds of no grants at all. *)
LEMMA InitAccounts == InitMemory => Accounts
  <1> SUFFICES ASSUME InitMemory PROVE Accounts
    OBVIOUS
  <1>1. grants = {} /\ js = {} /\ malloc_count = 0 /\ malloc_size = 0
    BY DEF InitMemory, Heap!Init
  <1>2. Held({}, {}) = {} /\ IsFiniteSet({}) /\ Cardinality({}) = 0
    BY FS_EmptySet DEF Held
  <1>3. Total({}) = 0
    BY <1>2, TotalUnfolds
  <1>4. Apart(grants) /\ Sound(grants, js, malloc_count, malloc_size)
    BY <1>1, <1>2, <1>3 DEF Apart, Sound
  <1>5. LimitKept
    <2>1. Overshoot \in Nat /\ JsLimit \in Nat
      BY JsMemoryAssumption DEF Overshoot
    <2> QED  BY <1>1, <2>1 DEF InitMemory, LimitKept, LimitHolds
  <1> QED  BY <1>4, <1>5 DEF Accounts

(* A charge that was compared with the limit keeps the limit: the request  *)
(* is what is compared, and a grant exceeds it by Overshoot at most.       *)
LEMMA ChargeKeepsLimit ==
  ASSUME LimitKept, NEW base \in Nat, NEW s \in Nat, NEW usable \in Nat,
         s <= malloc_limit - base, usable <= s + Overshoot,
         malloc_size' = base + usable, malloc_limit' = malloc_limit
  PROVE  LimitKept'
  <1>1. JsLimit \in Nat /\ SizeMax \in Nat /\ Overshoot \in Nat /\ malloc_limit \in Nat
    BY JsMemoryAssumption DEF Overshoot, LimitKept
  <1> QED  BY <1>1 DEF LimitKept, LimitHolds, Overshoot

(* runtime_malloc. *)
LEMMA MallocStep ==
  ASSUME Accounts, NEW s \in Requests, NEW g \in Heap!GrantFor(UnitsFor(s)),
         runtime_malloc(s, g)
  PROVE  Accounts'
  <1>1. /\ s # 0 /\ Heap!Fits(g, grants) /\ grants' = grants \cup {g}
        /\ js' = js \cup {g.ptr} /\ malloc_count' = malloc_count + 1
        /\ malloc_size' = malloc_size + heap_usable_size(g)
        /\ malloc_limit' = malloc_limit /\ s <= malloc_limit - malloc_size
    BY DEF runtime_malloc, heap_allocate, Heap!Allocate
  <1>2. /\ Apart(grants) /\ Sound(grants, js, malloc_count, malloc_size) /\ LimitKept
    BY DEF Accounts
  <1>3. grants \subseteq Block
    BY <1>2 DEF Apart
  <1>4. /\ g \in Block /\ heap_usable_size(g) \in Nat
        /\ heap_usable_size(g) <= s + Overshoot /\ \A o \in grants : o.ptr # g.ptr
    BY <1>1, <1>3, FreshGrant
  <1>5. Apart(grants') /\ Sound(grants', js', malloc_count', malloc_size')
    BY <1>1, <1>2, <1>4, Gain
  <1>6. LimitKept'
    <2>1. malloc_size \in Nat /\ s \in Nat
      BY <1>2, HeldOf, JsMemoryAssumption DEF Sound
    <2> QED  BY <1>1, <1>2, <1>4, <2>1, ChargeKeepsLimit
  <1> QED  BY <1>5, <1>6 DEF Accounts

(* malloc: a grant that QuickJS does not hold. *)
LEMMA OthersMallocStep ==
  ASSUME Accounts, NEW s \in Requests, NEW g \in Heap!GrantFor(UnitsFor(s)),
         malloc(s, g)
  PROVE  Accounts'
  <1>1. /\ s # 0 /\ Heap!Fits(g, grants) /\ grants' = grants \cup {g}
        /\ js' = js /\ malloc_count' = malloc_count
        /\ malloc_size' = malloc_size /\ malloc_limit' = malloc_limit
    BY DEF malloc, heap_allocate, Heap!Allocate, state
  <1>2. Apart(grants) /\ Sound(grants, js, malloc_count, malloc_size)
    BY DEF Accounts
  <1>3. grants \subseteq Block
    BY <1>2 DEF Apart
  <1>4. g \in Block /\ heap_usable_size(g) \in Nat /\ \A o \in grants : o.ptr # g.ptr
    BY <1>1, <1>3, FreshGrant
  <1>5. Apart(grants') /\ Sound(grants', js', malloc_count', malloc_size')
    BY <1>1, <1>2, <1>4, Gain
  <1> QED  BY <1>1, <1>5 DEF Accounts, LimitKept, LimitHolds

(* runtime_free: the clamps are not taken. *)
LEMMA FreeStep ==
  ASSUME Accounts, NEW p, runtime_free(p)
  PROVE  Accounts'
  <1> DEFINE h == GrantAt(p)
  <1>1. /\ Apart(grants) /\ Sound(grants, js, malloc_count, malloc_size) /\ LimitKept
    BY DEF Accounts
  <1>2. h \in grants /\ h.ptr = p
    BY <1>1, GrantHeld DEF runtime_free, Sound
  <1>3. /\ p \in js /\ grants' = grants \ {h} /\ js' = js \ {p}
        /\ malloc_count' = IF malloc_count # 0 THEN malloc_count - 1 ELSE malloc_count
        /\ malloc_size' = IF heap_usable_size(h) <= malloc_size
                          THEN malloc_size - heap_usable_size(h) ELSE malloc_size
        /\ malloc_limit' = malloc_limit
    BY DEF runtime_free, heap_release, Heap!Release
  <1> HIDE DEF h
  <1>4. /\ Apart(grants \ {h}) /\ malloc_count \in Nat \ {0}
        /\ heap_usable_size(h) \in Nat /\ malloc_size \in Nat
        /\ heap_usable_size(h) <= malloc_size
        /\ Sound(grants \ {h}, js \ {p}, malloc_count - 1, malloc_size - heap_usable_size(h))
    BY <1>1, <1>2, <1>3, Loss
  <1>5. malloc_count' = malloc_count - 1 /\ malloc_size' = malloc_size - heap_usable_size(h)
    BY <1>3, <1>4
  <1>6. Apart(grants') /\ Sound(grants', js', malloc_count', malloc_size')
    BY <1>3, <1>4, <1>5
  <1>7. LimitKept'
    <2>1. JsLimit \in Nat /\ Overshoot \in Nat
      BY JsMemoryAssumption DEF Overshoot
    <2> QED  BY <1>1, <1>3, <1>4, <1>5, <2>1 DEF LimitKept, LimitHolds, Overshoot
  <1> QED  BY <1>6, <1>7 DEF Accounts

(* free: of a pointer that QuickJS does not hold. *)
LEMMA OthersFreeStep ==
  ASSUME Accounts, NEW p, free(p)
  PROVE  Accounts'
  <1> DEFINE h == GrantAt(p)
  <1>1. /\ Apart(grants) /\ Sound(grants, js, malloc_count, malloc_size)
    BY DEF Accounts
  <1>2. h \in grants /\ h.ptr = p /\ p \notin js
    BY GrantHeld DEF free, Others
  <1>3. /\ grants' = grants \ {h} /\ js' = js /\ malloc_count' = malloc_count
        /\ malloc_size' = malloc_size /\ malloc_limit' = malloc_limit
    BY DEF free, heap_release, Heap!Release, state
  <1> HIDE DEF h
  <1>4. Apart(grants \ {h}) /\ Sound(grants \ {h}, js, malloc_count, malloc_size)
    BY <1>1, <1>2, Loss
  <1>5. Apart(grants') /\ Sound(grants', js', malloc_count', malloc_size')
    BY <1>3, <1>4
  <1> QED  BY <1>3, <1>5 DEF Accounts, LimitKept, LimitHolds

(* runtime_realloc: what the old grant was charged is off the accounts     *)
(* before the new size is compared, so the subtraction is not clamped.     *)
LEMMA ReallocStep ==
  ASSUME Accounts, NEW p, NEW s \in Requests, NEW g \in Heap!GrantFor(UnitsFor(s)),
         runtime_realloc(p, s, g)
  PROVE  Accounts'
  <1> DEFINE h == GrantAt(p)
             base == IF malloc_size >= heap_usable_size(h)
                     THEN malloc_size - heap_usable_size(h) ELSE 0
  <1>1. /\ Apart(grants) /\ Sound(grants, js, malloc_count, malloc_size) /\ LimitKept
    BY DEF Accounts
  <1>2. h \in grants /\ h.ptr = p
    BY <1>1, GrantHeld DEF runtime_realloc, Sound
  <1>3. /\ p \in js /\ s # 0 /\ Heap!Fits(g, grants \ {h})
        /\ grants' = (grants \ {h}) \cup {g} /\ js' = (js \ {p}) \cup {g.ptr}
        /\ malloc_count' = malloc_count /\ malloc_size' = base + heap_usable_size(g)
        /\ malloc_limit' = malloc_limit /\ s <= malloc_limit - base
    BY DEF runtime_realloc, heap_reallocate, Heap!Reallocate
  <1> HIDE DEF h, base
  <1>4. /\ Apart(grants \ {h}) /\ malloc_count \in Nat \ {0}
        /\ heap_usable_size(h) \in Nat /\ malloc_size \in Nat
        /\ heap_usable_size(h) <= malloc_size
        /\ Sound(grants \ {h}, js \ {p}, malloc_count - 1, malloc_size - heap_usable_size(h))
    BY <1>1, <1>2, <1>3, Loss
  <1>5. base = malloc_size - heap_usable_size(h) /\ base \in Nat
    BY <1>4 DEF base
  <1>6. grants \ {h} \subseteq Block
    BY <1>4 DEF Apart
  <1>7. /\ g \in Block /\ heap_usable_size(g) \in Nat
        /\ heap_usable_size(g) <= s + Overshoot /\ \A o \in grants \ {h} : o.ptr # g.ptr
    BY <1>3, <1>6, FreshGrant
  <1>8. Sound(grants \ {h}, js \ {p}, malloc_count - 1, base)
    BY <1>4, <1>5
  <1>9. /\ Apart((grants \ {h}) \cup {g})
        /\ Sound((grants \ {h}) \cup {g}, (js \ {p}) \cup {g.ptr},
                 (malloc_count - 1) + 1, base + heap_usable_size(g))
    BY <1>4, <1>7, <1>8, Gain
  <1>10. (malloc_count - 1) + 1 = malloc_count
    BY <1>4
  <1>11. Apart(grants') /\ Sound(grants', js', malloc_count', malloc_size')
    BY <1>3, <1>9, <1>10
  <1>12. LimitKept'
    <2>1. s \in Nat
      BY JsMemoryAssumption
    <2> QED  BY <1>1, <1>3, <1>5, <1>7, <2>1, ChargeKeepsLimit
  <1> QED  BY <1>11, <1>12 DEF Accounts

(* realloc: of a pointer that QuickJS does not hold. *)
LEMMA OthersReallocStep ==
  ASSUME Accounts, NEW p, NEW s \in Requests, NEW g \in Heap!GrantFor(UnitsFor(s)),
         realloc(p, s, g)
  PROVE  Accounts'
  <1> DEFINE h == GrantAt(p)
  <1>1. /\ Apart(grants) /\ Sound(grants, js, malloc_count, malloc_size)
    BY DEF Accounts
  <1>2. h \in grants /\ h.ptr = p /\ p \notin js
    BY GrantHeld DEF realloc, Others
  <1>3. /\ s # 0 /\ Heap!Fits(g, grants \ {h})
        /\ grants' = (grants \ {h}) \cup {g} /\ js' = js
        /\ malloc_count' = malloc_count /\ malloc_size' = malloc_size
        /\ malloc_limit' = malloc_limit
    BY DEF realloc, heap_reallocate, Heap!Reallocate, state
  <1> HIDE DEF h
  <1>4. Apart(grants \ {h}) /\ Sound(grants \ {h}, js, malloc_count, malloc_size)
    BY <1>1, <1>2, Loss
  <1>5. grants \ {h} \subseteq Block
    BY <1>4 DEF Apart
  <1>6. /\ g \in Block /\ heap_usable_size(g) \in Nat
        /\ \A o \in grants \ {h} : o.ptr # g.ptr
    BY <1>3, <1>5, FreshGrant
  <1>7. /\ Apart((grants \ {h}) \cup {g})
        /\ Sound((grants \ {h}) \cup {g}, js, malloc_count, malloc_size)
    BY <1>4, <1>6, Gain
  <1>8. Apart(grants') /\ Sound(grants', js', malloc_count', malloc_size')
    BY <1>3, <1>7
  <1> QED  BY <1>3, <1>8 DEF Accounts, LimitKept, LimitHolds

(* The invariant is kept by every step. *)
LEMMA StepAccounts == Accounts /\ [NextMemory]_memory => Accounts'
  <1> SUFFICES ASSUME Accounts, [NextMemory]_memory PROVE Accounts'
    OBVIOUS
  <1>1. CASE SetMemoryLimit
    <2>1. Overshoot \in Nat /\ JsLimit \in Nat
      BY JsMemoryAssumption DEF Overshoot
    <2>2. malloc_size \in Nat
      BY HeldOf DEF Accounts, Sound
    <2>3. LimitKept'
      BY <1>1, <2>1, <2>2 DEF SetMemoryLimit, LimitKept, LimitHolds, Overshoot
    <2> QED  BY <1>1, <2>3 DEF SetMemoryLimit, Accounts
  <1>2. CASE UNCHANGED memory
    BY <1>2 DEF memory, Accounts, LimitKept, LimitHolds
  <1>3. ASSUME NEW s \in Requests, NEW g \in Heap!GrantFor(UnitsFor(s)),
               \/ runtime_malloc(s, g)
               \/ malloc(s, g)
               \/ \E p \in Heap!Units : runtime_realloc(p, s, g) \/ realloc(p, s, g)
        PROVE  Accounts'
    BY <1>3, MallocStep, OthersMallocStep, ReallocStep, OthersReallocStep
  <1>4. ASSUME NEW p \in Heap!Units, runtime_free(p) \/ free(p)
        PROVE  Accounts'
    BY <1>4, FreeStep, OthersFreeStep
  <1> QED  BY <1>1, <1>2, <1>3, <1>4 DEF NextMemory

(* Every reachable state satisfies the invariant. *)
THEOREM AlwaysAccounts == MemorySpec => []Accounts
  BY InitAccounts, StepAccounts, PTL DEF MemorySpec

(* malloc_count and malloc_size, which QuickJS reads, are the number and   *)
(* the usable size of the blocks it holds.                                 *)
THEOREM AccountsAreExact == MemorySpec => []AccountsExact
  <1>1. Accounts => AccountsExact
    BY DEF Accounts, Sound, AccountsExact, Total, Held
  <1> QED  BY <1>1, AlwaysAccounts, PTL

(* QuickJS never holds more than its limit and the overshoot of one call.  *)
THEOREM LimitIsKept == MemorySpec => []LimitHolds
  <1>1. Accounts => LimitHolds
    BY DEF Accounts, LimitKept
  <1> QED  BY <1>1, AlwaysAccounts, PTL
=============================================================================
