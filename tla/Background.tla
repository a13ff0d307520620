------------------------------ MODULE Background ------------------------------
(***************************************************************************)
(* The cooperative main loop (kernel/background.c): background() calls     *)
(* every task of the list once; the command line and every wait in the     *)
(* code call it, as POLL(), again and again, also from inside a task.      *)
(* Nothing keeps a task from running inside itself.                        *)
(*                                                                         *)
(* The list is the prefix of slots with a function, task_remove compacts   *)
(* it; the flags are an array of their own.                                *)
(***************************************************************************)
EXTENDS Integers, Sequences, SequencesExt

CONSTANTS
    Tasks,          \* the functions
    TaskSlots,      \* CFG_MAX_BACKGROUND_TASKS
    Polling,        \* Tasks that call POLL()
    Removed,        \* Tasks that are removed after they were added
    Suspendable,    \* Tasks that are suspended and resumed
    MaxNesting      \* bound: background() nested in itself

ASSUME BackgroundAssumption ==
    /\ TaskSlots \in Nat \ {0} /\ MaxNesting \in Nat \ {0}
    /\ Polling \subseteq Tasks /\ Removed \subseteq Tasks
    /\ Suspendable \subseteq Tasks

VARIABLES
    bg_tasklist, bg_task_flag,  \* flag: TASK_FLAG_SUSPEND of each slot
    bg_stack,                   \* the background() calls: [idx, func]
    suspended,                  \* history: tasks suspended and not resumed or removed
    displaced                   \* history: tasks that got the flag of another one

bgVars == <<bg_tasklist, bg_task_flag, bg_stack, suspended, displaced>>

BgTop == Last(bg_stack)
InTask == bg_stack # << >> /\ BgTop.func # "none"
Listed == { bg_tasklist[k] : k \in 1 .. Len(bg_tasklist) }
RunningTasks == { bg_stack[d].func : d \in 1 .. Len(bg_stack) } \ {"none"}

\* Only the command line suspends and resumes; it and every task add and remove.
Cli == bg_stack = << >>

BgInit ==
    /\ bg_tasklist = << >> /\ bg_task_flag = [k \in 1 .. TaskSlots |-> FALSE]
    /\ bg_stack = << >> /\ suspended = {} /\ displaced = {}

-----------------------------------------------------------------------------

\* task_add; no caller adds a function twice.  A full list ends in sal_assert,
\* which the callers never reach.  The flag of the slot is left as it is.
TaskAdd(f) ==
    /\ Cli \/ InTask
    /\ f \notin Listed /\ Len(bg_tasklist) < TaskSlots
    /\ bg_tasklist' = Append(bg_tasklist, f)
    /\ displaced' = IF bg_task_flag[Len(bg_tasklist) + 1] THEN displaced \cup {f} ELSE displaced
    /\ UNCHANGED <<bg_task_flag, bg_stack, suspended>>

Slot(f) == CHOOSE k \in 1 .. Len(bg_tasklist) : bg_tasklist[k] = f

TaskSuspend(f) ==
    /\ Cli /\ f \in Listed \cap Suspendable
    /\ bg_task_flag' = [bg_task_flag EXCEPT ![Slot(f)] = TRUE]
    /\ suspended' = suspended \cup {f} /\ displaced' = displaced \ {f}
    /\ UNCHANGED <<bg_tasklist, bg_stack>>

\* Mutant of TaskResume: the flag of the first slot is cleared.
TaskResumeFirst(f) ==
    /\ Cli /\ f \in Listed \cap Suspendable
    /\ bg_task_flag' = [bg_task_flag EXCEPT ![1] = FALSE]
    /\ suspended' = suspended \ {f} /\ displaced' = displaced \ {f}
    /\ UNCHANGED <<bg_tasklist, bg_stack>>

TaskResume(f) ==
    /\ Cli /\ f \in Listed \cap Suspendable
    /\ bg_task_flag' = [bg_task_flag EXCEPT ![Slot(f)] = FALSE]
    /\ suspended' = suspended \ {f} /\ displaced' = displaced \ {f}
    /\ UNCHANGED <<bg_tasklist, bg_stack>>

\* task_remove moves the functions and their arguments down, not the flags: a
\* task behind f gets the flag of the slot before its own.
Shifted(f) ==
    { bg_tasklist[k] : k \in { k \in Slot(f) + 1 .. Len(bg_tasklist) :
                                 bg_task_flag[k - 1] # bg_task_flag[k] } }

TaskRemove(f) ==
    /\ Cli \/ InTask
    /\ f \in Listed \cap Removed
    /\ bg_tasklist' = [k \in 1 .. Len(bg_tasklist) - 1 |->
                          IF k < Slot(f) THEN bg_tasklist[k] ELSE bg_tasklist[k + 1]]
    /\ suspended' = suspended \ {f}
    /\ displaced' = (displaced \cup Shifted(f)) \ {f}
    /\ UNCHANGED <<bg_task_flag, bg_stack>>

\* background() begins, from the main loop or from POLL() in a task.
BgEnter ==
    /\ Cli \/ (InTask /\ BgTop.func \in Polling)
    /\ Len(bg_stack) < MaxNesting
    /\ bg_stack' = Append(bg_stack, [idx |-> 1, func |-> "none"])
    /\ UNCHANGED <<bg_tasklist, bg_task_flag, suspended, displaced>>

\* Mutant of Step: a suspended task ends the walk.
StepBreak ==
    /\ bg_stack # << >> /\ BgTop.func = "none" /\ BgTop.idx <= Len(bg_tasklist)
    /\ bg_stack' = IF bg_task_flag[BgTop.idx]
                   THEN [bg_stack EXCEPT ![Len(bg_stack)].idx = TaskSlots + 1]
                   ELSE [bg_stack EXCEPT ![Len(bg_stack)].func = bg_tasklist[BgTop.idx]]
    /\ UNCHANGED <<bg_tasklist, bg_task_flag, suspended, displaced>>

\* One turn of the loop: skip a suspended task, or call it.
Step ==
    /\ bg_stack # << >> /\ BgTop.func = "none" /\ BgTop.idx <= Len(bg_tasklist)
    /\ bg_stack' = IF bg_task_flag[BgTop.idx]
                   THEN [bg_stack EXCEPT ![Len(bg_stack)].idx = @ + 1]
                   ELSE [bg_stack EXCEPT ![Len(bg_stack)].func = bg_tasklist[BgTop.idx]]
    /\ UNCHANGED <<bg_tasklist, bg_task_flag, suspended, displaced>>

TaskReturns ==
    /\ InTask
    /\ bg_stack' = [bg_stack EXCEPT ![Len(bg_stack)].idx = @ + 1, ![Len(bg_stack)].func = "none"]
    /\ UNCHANGED <<bg_tasklist, bg_task_flag, suspended, displaced>>

BgLeave ==
    /\ bg_stack # << >> /\ BgTop.func = "none" /\ BgTop.idx > Len(bg_tasklist)
    /\ bg_stack' = Front(bg_stack)
    /\ UNCHANGED <<bg_tasklist, bg_task_flag, suspended, displaced>>

BgNext ==
    \/ \E f \in Tasks : TaskAdd(f) \/ TaskSuspend(f) \/ TaskResume(f) \/ TaskRemove(f)
    \/ BgEnter \/ Step \/ TaskReturns \/ BgLeave

BgSpec == BgInit /\ [][BgNext]_bgVars

\* The main loop polls and every task returns.
BgFairness ==
    /\ WF_bgVars(BgEnter /\ Cli) /\ WF_bgVars(Step \/ BgLeave)
    /\ \A f \in Tasks : SF_bgVars(TaskReturns /\ BgTop.func = f)
BgFairSpec == BgSpec /\ BgFairness

-----------------------------------------------------------------------------
BgTypeOK ==
    /\ bg_tasklist \in Seq(Tasks) /\ Len(bg_tasklist) <= TaskSlots
    /\ bg_task_flag \in [1 .. TaskSlots -> BOOLEAN]
    /\ bg_stack \in Seq([idx : 1 .. TaskSlots + 1, func : Tasks \cup {"none"}])
    /\ Len(bg_stack) <= MaxNesting
    /\ suspended \subseteq Tasks /\ displaced \subseteq Tasks

\* A task that was suspended is not called before it is resumed, and no other
\* task is held back: the driver's own words are "Put task into suspend state"
\* (background.c:94).  Only a removal among flagged slots breaks it, for the tasks
\* that it moves to another flag and for one added later to a slot it left
\* flagged, and that until they are suspended or resumed themselves.  The list
\* is not overrun.
SuspendFollowsTask ==
    /\ BgTypeOK
    /\ \A k \in 1 .. Len(bg_tasklist) :
          bg_tasklist[k] \notin displaced => (bg_task_flag[k] <=> bg_tasklist[k] \in suspended)

\* Every task that stays in the list and is not held back by a flag is called
\* again and again, although a task that is removed makes the walk skip its
\* successor.
TasksKeepRunning ==
    \A f \in Tasks :
        []<>(f \in RunningTasks \/ f \notin Listed \/ bg_task_flag[Slot(f)])
=============================================================================
