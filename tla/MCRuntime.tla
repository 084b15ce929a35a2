------------------------------ MODULE MCRuntime ------------------------------
(***************************************************************************)
(* What runs below the robot's own code, one part in a behaviour: the      *)
(* allocator, the logger or the scheduler.  They share nothing, so that    *)
(* one run over all three adds their states and does not multiply them.    *)
(***************************************************************************)
EXTENDS LinkedAllocator, Logger, Scheduler

VARIABLE part

MCLevel == [w \in Writers |-> CASE w = "thread" -> 0 [] w = "irq" -> 1 [] OTHER -> 2]

NewTask(type, at_second, interval, count_max, garbage) ==
  [type |-> type, scheduled_at |-> at_second, interval |-> interval,
   count_max |-> count_max, count_current_ |-> garbage, disposed |-> FALSE]

MCNewTasks == {NewTask("kLater", 1, 2, 0, 0),
               NewTask("kRepeatUntil", 0, 1, 2, 0), NewTask("kRepeatUntil", 1, 1, 2, 2),
               NewTask("kRepeatInterval", 0, 2, 0, 0)}

runtimeVars == <<part, allocVars, logVars, schedVars>>

RuntimeInit ==
  /\ part \in {"allocator", "logger", "scheduler"}
  /\ AllocInit /\ LogInit /\ SchedInit

RuntimeNext ==
  \/ part = "allocator" /\ AllocNext /\ UNCHANGED <<part, logVars, schedVars>>
  \/ part = "logger" /\ LogNext /\ UNCHANGED <<part, allocVars, schedVars>>
  \/ part = "scheduler" /\ SchedNext /\ UNCHANGED <<part, allocVars, logVars>>

RuntimeSpec == RuntimeInit /\ [][RuntimeNext]_runtimeVars /\ LogFairness /\ SchedFairness
==============================================================================
