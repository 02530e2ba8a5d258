------------------------------ MODULE Runtime ------------------------------
(***************************************************************************)
(* How the kernel runs JavaScript (src/kernel/runtime.c, and kmain, which  *)
(* drives it): the boot scripts, then one shell command after the other,   *)
(* each followed by the jobs (promise reactions) it left; and the guard,   *)
(* one deadline for all, that QuickJS asks now and then whether to break   *)
(* off what it is executing.                                               *)
(*                                                                         *)
(* There is one thread.  What a script does is not modelled: it lets time  *)
(* pass, leaves jobs, calls a native binding that evaluates more source,   *)
(* and returns or throws.  C code is always at one place, pc; while it     *)
(* waits for QuickJS, stack holds the entries into it, the innermost       *)
(* first, and pc says where C goes on when the outermost has returned.     *)
(***************************************************************************)
EXTENDS Integers, Sequences

CONSTANTS
  Limit,    \* JS_EXECUTION_LIMIT_US
  UintMax,  \* UINT64_MAX: the clock's last value, and the deadline of none
  Scripts,  \* how many scripts kmain runs before the shell
  MaxJobs,  \* at most so many jobs are pending (a bound)
  MaxDepth  \* at most so many entries into QuickJS are nested (a bound)

ASSUME RuntimeAssumption ==
  /\ UintMax \in Nat /\ Limit \in 1 .. (UintMax - 1)
  /\ Scripts \in Nat \ {0} /\ MaxJobs \in Nat /\ MaxDepth \in Nat \ {0}

VARIABLES
  now,      \* platform_uptime_us
  deadline, \* guard.deadline
  runtime,  \* whether the pointer is set
  context,  \* whether the pointer is set
  script,   \* the boot script being run; Scripts + 1 in the shell
  pc,       \* where the C code is, or goes on after the entries in stack
  stack,    \* the entries into QuickJS
  jobs,     \* rt->job_list: for each pending job, the outermost entry's kind
  stranded  \* history: a command or a job failed since jobs were last drained

vars == <<now, deadline, runtime, context, script, pc, stack, jobs, stranded>>

(***************************************************************************)
(* The entries: "eval" is a boot script or a command, "nested" a call of   *)
(* js_runtime_eval from a binding, "job" JS_ExecutePendingJob; the others  *)
(* look up the shell's evaluator or format a result, an exception or the   *)
(* prompt, which can run any script code too (a getter, a toString).       *)
(***************************************************************************)
Guarded == {"eval", "nested", "job"}
Kinds == Guarded \cup {"lookup", "print", "report", "prompt"}

Entry == [kind : Kinds,
          begun : 0 .. UintMax,     \* history: when it was made
          disarmed : BOOLEAN]   \* history: a nested evaluation returned into it

Enter(kind) == [kind |-> kind, begun |-> now, disarmed |-> FALSE]

Top == Head(stack)
Outermost == stack[Len(stack)]
InC == stack = <<>>
InShell == script > Scripts

-----------------------------------------------------------------------------

execution_deadline == IF now > UintMax - Limit THEN UintMax ELSE now + Limit

(* Mutant: == for !=. *)
HandlesNoDeadline == deadline = UintMax /\ now >= deadline

interrupt_handler == deadline # UintMax /\ now >= deadline

Init ==
  /\ now = 0
  /\ deadline = 0
  /\ runtime = FALSE /\ context = FALSE
  /\ script = 1
  /\ pc = "start"
  /\ stack = <<>>
  /\ jobs = <<>>
  /\ stranded = FALSE

Tick ==
  /\ now < UintMax
  /\ now' = now + 1
  /\ UNCHANGED <<deadline, runtime, context, script, pc, stack, jobs, stranded>>

(* Control stays in C and moves to where. *)
Goto(where) == pc' = where /\ UNCHANGED stack

(* C enters QuickJS and goes on at where, or wherever the return decides. *)
Into(kind, where) == stack' = <<Enter(kind)>> /\ pc' = where

js_runtime_report_exception(where) == Into("report", where)

(***************************************************************************)
(* js_runtime_start up to its JS_Eval: no runtime, no context, an API that *)
(* cannot be installed (reported, then all is freed), or ready to go.      *)
(***************************************************************************)
NoRuntime ==
  /\ pc = "start"
  /\ Goto("halted")
  /\ UNCHANGED <<now, deadline, runtime, context, script, jobs, stranded>>

NoContext ==
  /\ pc = "start"
  /\ deadline' = UintMax
  /\ Goto("halted")
  /\ UNCHANGED <<now, runtime, context, script, jobs, stranded>>

NoApi ==
  /\ pc = "start"
  /\ deadline' = UintMax
  /\ runtime' = TRUE /\ context' = TRUE
  /\ js_runtime_report_exception("abandon")
  /\ UNCHANGED <<now, script, jobs, stranded>>

(* Mutant: the pointer to the freed runtime stays. *)
AbandonKeepsRuntime ==
  /\ pc = "abandon" /\ InC
  /\ context' = FALSE
  /\ Goto("halted")
  /\ UNCHANGED <<now, deadline, runtime, script, jobs, stranded>>

Abandon ==
  /\ pc = "abandon" /\ InC
  /\ runtime' = FALSE /\ context' = FALSE
  /\ Goto("halted")
  /\ UNCHANGED <<now, deadline, script, jobs, stranded>>

Started ==
  /\ pc = "start"
  /\ deadline' = UintMax
  /\ runtime' = TRUE /\ context' = TRUE
  /\ Goto("load")
  /\ UNCHANGED <<now, script, jobs, stranded>>

-----------------------------------------------------------------------------

(* The JS_Eval of js_runtime_start, and those of js_runtime_run, by kmain. *)
RunScript ==
  /\ pc = "load" /\ InC
  /\ deadline' = execution_deadline
  /\ Into("eval", "evaluated")
  /\ UNCHANGED <<now, runtime, context, script, jobs, stranded>>

(* ENTER: shell_evaluate looks up __shellEval, with no deadline yet. *)
shell_evaluate ==
  /\ pc = "input" /\ InC
  /\ Into("lookup", "evaluate")
  /\ UNCHANGED <<now, deadline, runtime, context, script, jobs, stranded>>

(* Then it calls what it found or, if that is no function (or the lookup  *)
(* threw), js_runtime_eval; both arm the guard.                           *)
EvaluateLine ==
  /\ pc = "evaluate" /\ InC
  /\ deadline' = execution_deadline
  /\ Into("eval", "evaluated")
  /\ UNCHANGED <<now, runtime, context, script, jobs, stranded>>

(* ^C, an overlong line, or ENTER with nothing typed. *)
PromptAgain ==
  /\ pc = "input" /\ InC
  /\ Goto("prompt")
  /\ UNCHANGED <<now, deadline, runtime, context, script, jobs, stranded>>

(* After js_runtime_start, js_runtime_run or shell_evaluate has its result: *)
(* a failing boot script ends the boot, a failing command is reported and   *)
(* its jobs stay pending.                                                   *)
AfterFailure == IF InShell THEN "prompt" ELSE "halted"

(* Mutant: back to the prompt, the jobs are forgotten. *)
PrintsWithoutDraining ==
  /\ pc = "print" /\ InC
  /\ Into("print", "prompt")
  /\ UNCHANGED <<now, deadline, runtime, context, script, jobs, stranded>>

shell_print_result ==
  /\ pc = "print" /\ InC
  /\ Into("print", "drain")
  /\ UNCHANGED <<now, deadline, runtime, context, script, jobs, stranded>>

shell_write_prompt ==
  /\ pc = "prompt" /\ InC
  /\ Into("prompt", "input")
  /\ UNCHANGED <<now, deadline, runtime, context, script, jobs, stranded>>

(* js_runtime_drain_jobs: the first pending job. *)
ExecutePendingJob ==
  /\ pc = "drain" /\ InC
  /\ jobs # <<>>
  /\ deadline' = execution_deadline
  /\ jobs' = Tail(jobs)
  /\ Into("job", "drain")
  /\ UNCHANGED <<now, runtime, context, script, stranded>>

(* No more jobs: on to the next script or, at the end, to the prompt. *)
Drained ==
  /\ pc = "drain" /\ InC
  /\ jobs = <<>>
  /\ stranded' = FALSE
  /\ script' = IF InShell THEN script ELSE script + 1
  /\ Goto(IF script < Scripts THEN "load" ELSE "prompt")
  /\ UNCHANGED <<now, deadline, runtime, context, jobs>>

-----------------------------------------------------------------------------
(* What QuickJS does while it executes script code. *)

Enqueue ==
  /\ ~InC
  /\ Len(jobs) < MaxJobs
  /\ jobs' = Append(jobs, Outermost.kind)
  /\ UNCHANGED <<now, deadline, runtime, context, script, pc, stack, stranded>>

(* A native binding calls js_runtime_eval. *)
js_runtime_eval ==
  /\ ~InC
  /\ Len(stack) < MaxDepth
  /\ context
  /\ deadline' = execution_deadline
  /\ stack' = <<Enter("nested")>> \o stack
  /\ UNCHANGED <<now, runtime, context, script, pc, jobs, stranded>>

(* Mutant: the deadline of the entry that ended stays. *)
Stays(kind) == UNCHANGED deadline

(* After a guarded entry, no deadline is set; the others leave it alone. *)
Disarm(kind) == deadline' = IF kind \in Guarded THEN UintMax ELSE deadline

(* js_runtime_eval is back in the script that called the binding. *)
NestedReturns ==
  /\ Len(stack) > 1
  /\ Disarm(Top.kind)
  /\ stack' = [Tail(stack) EXCEPT ![1].disarmed = TRUE]
  /\ UNCHANGED <<now, runtime, context, script, pc, jobs, stranded>>

(* Where C goes on after a script or a command: a command prints. *)
AfterEval == IF InShell THEN "print" ELSE "drain"

(* The outermost entry returns normally. *)
Returns ==
  /\ Len(stack) = 1
  /\ Disarm(Top.kind)
  /\ stack' = <<>>
  /\ pc' = IF pc = "evaluated" THEN AfterEval ELSE pc
  /\ UNCHANGED <<now, runtime, context, script, jobs, stranded>>

(***************************************************************************)
(* The outermost entry ends with an exception: that of a script, a command *)
(* or a job is reported and ends what the kernel was at; that of the       *)
(* formatter is reported; one in a lookup or a conversion to text is       *)
(* dropped.                                                                *)
(***************************************************************************)
Throws ==
  /\ Len(stack) = 1
  /\ Disarm(Top.kind)
  /\ \/ /\ Top.kind \in Guarded
        /\ js_runtime_report_exception(AfterFailure)
        /\ stranded' = TRUE
     \/ /\ Top.kind = "print"
        /\ js_runtime_report_exception("drain")
        /\ UNCHANGED stranded
     \/ /\ Top.kind \in Kinds \ Guarded
        /\ stack' = <<>>
        /\ UNCHANGED <<pc, stranded>>
  /\ UNCHANGED <<now, runtime, context, script, jobs>>

(* QuickJS polls interrupt_handler and throws what no script can catch. *)
Interrupted ==
  /\ ~InC
  /\ interrupt_handler
  /\ NestedReturns \/ Throws

Next ==
  \/ Tick
  \/ NoRuntime \/ NoContext \/ NoApi \/ Abandon \/ Started
  \/ RunScript \/ shell_evaluate \/ EvaluateLine \/ PromptAgain
  \/ shell_print_result \/ shell_write_prompt
  \/ ExecutePendingJob \/ Drained
  \/ Enqueue \/ js_runtime_eval \/ NestedReturns \/ Returns \/ Throws \/ Interrupted

(***************************************************************************)
(* Time passes, and QuickJS polls at every loop and call: script code that *)
(* keeps running past a deadline is interrupted.                           *)
(***************************************************************************)
Spec == Init /\ [][Next]_vars /\ WF_vars(Tick) /\ WF_vars(Interrupted)

-----------------------------------------------------------------------------

(***************************************************************************)
(* Types, and the pointers: they are set and freed together (where         *)
(* js_runtime_eval tests only context, js_runtime_drain_jobs tests only    *)
(* runtime), and QuickJS is entered, to report an exception too, only      *)
(* while they are set.                                                     *)
(***************************************************************************)
TypeOK ==
  /\ now \in 0 .. UintMax /\ deadline \in 0 .. UintMax
  /\ runtime \in BOOLEAN /\ context \in BOOLEAN /\ stranded \in BOOLEAN
  /\ script \in 1 .. (Scripts + 1)
  /\ pc \in {"start", "abandon", "load", "evaluate", "evaluated", "print",
             "drain", "prompt", "input", "halted"}
  /\ stack \in Seq(Entry) /\ Len(stack) <= MaxDepth
  /\ jobs \in Seq(Kinds) /\ Len(jobs) <= MaxJobs
  /\ runtime = context
  /\ ~InC => runtime /\ context

(***************************************************************************)
(* The deadline is that of the innermost entry: none while the kernel, its *)
(* lookup of the evaluator or its formatting runs (whatever script code    *)
(* these run into), so that what an interrupted evaluation left is         *)
(* reported undisturbed and no stale deadline meets the next one; and the  *)
(* whole limit from its own start for a guarded entry, unless an           *)
(* evaluation nested in it has disarmed the guard.                         *)
(***************************************************************************)
GuardExact ==
  /\ runtime /\ InC => deadline = UintMax
  /\ ~InC => deadline = IF Top.kind \in Guarded /\ ~Top.disarmed /\ Top.begun <= UintMax - Limit
                        THEN Top.begun + Limit ELSE UintMax

(***************************************************************************)
(* When the shell waits for input, or a boot script is about to start, no  *)
(* job is pending but what writing the prompt has left since, unless the   *)
(* last command or one of its jobs failed.                                 *)
(***************************************************************************)
JobsSettled ==
  pc \in {"load", "input"} /\ InC /\ ~stranded => \A i \in DOMAIN jobs : jobs[i] = "prompt"

(* Nothing runs on forever under a deadline. *)
DeadlineEnds == (runtime /\ deadline # UintMax) ~> (deadline = UintMax)
=============================================================================
