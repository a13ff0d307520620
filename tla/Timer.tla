-------------------------------- MODULE Timer --------------------------------
(***************************************************************************)
(* The kernel's timer service (kernel/timer.c).  sys_timer_task is a       *)
(* background task of the cooperative main loop: once per tick it walks    *)
(* the table of timers and calls those that are due.  A callback that      *)
(* waits calls POLL(), which runs the background tasks again, so that      *)
(* sys_timer_task nests inside a callback; other background tasks, and     *)
(* the callback, may add and remove timers while a walk is in progress.    *)
(*                                                                         *)
(* The table is the prefix of entries with a callback: timer_remove        *)
(* compacts it.  Ticks are modelled by what is compared: how many ticks    *)
(* ago "start" was (saturating at MaxAge), and whether the tick has        *)
(* changed since previous_tick was stored.  The 2^32-tick wrap of the      *)
(* subtraction is thereby left out.                                        *)
(***************************************************************************)
EXTENDS Integers, Sequences, FiniteSets, SequencesExt

CONSTANTS
    Timers,         \* the callbacks
    Interval,       \* Timers -> Nat, ticks; 0 is every tick
    Slots,          \* CFG_MAX_REGISTERED_TIMERS
    Nested,         \* Timers whose callback calls POLL()
    Removes,        \* <<f, g>>: while the callback f runs, g may be removed
    MaxAge,         \* bound: ages saturate here, at no less than any interval
    MaxDepth        \* bound: sys_timer_task nested in itself

ASSUME TimerAssumption ==
    /\ MaxAge \in Nat /\ Interval \in [Timers -> 0 .. MaxAge] /\ "none" \notin Timers
    /\ Slots \in Nat \ {0} /\ MaxDepth \in Nat \ {0}
    /\ Nested \subseteq Timers /\ Removes \subseteq Timers \X Timers

VARIABLES
    timer,          \* the table: [cbk, age, inprogress], age in ticks since start
    ticked,         \* previous_tick != sal_get_ticks()
    stack,          \* the sys_timer_task calls: [i, cbk, age], cbk "none" in the walk
    since,          \* history: ticks since the timer was added or last called
    stranded        \* history: timers whose entry moved while their callback ran

vars == <<timer, ticked, stack, since, stranded>>

Top == Last(stack)
Older(n) == IF n < MaxAge THEN n + 1 ELSE n

Registered == { timer[k].cbk : k \in 1 .. Len(timer) }
Running == { stack[d].cbk : d \in 1 .. Len(stack) } \ {"none"}
InCallback == stack # << >> /\ Top.cbk # "none"

Init ==
    /\ timer = << >> /\ ticked = FALSE /\ stack = << >>
    /\ since = [f \in Timers |-> 0] /\ stranded = {}

-----------------------------------------------------------------------------
\* The hardware's tick; also while callbacks run.
Tick ==
    /\ ticked' = TRUE
    /\ timer' = [k \in DOMAIN timer |-> [timer[k] EXCEPT !.age = Older(@)]]
    /\ stack' = [d \in DOMAIN stack |-> [stack[d] EXCEPT !.age = Older(@)]]
    /\ since' = [f \in Timers |-> Older(since[f])]
    /\ UNCHANGED stranded

\* Who may act: the command line, outside of any callback, or a callback (or a
\* background task that runs while the callback polls).
Idle == stack = << >>
MayRemove(f) ==
    \/ Idle
    \/ InCallback /\ <<Top.cbk, f>> \in Removes

\* timer_add: a timer that is registered is restarted where it is.
TimerAdd(f) ==
    /\ Idle
    /\ IF f \in Registered
       THEN timer' = [k \in DOMAIN timer |->
                         IF timer[k].cbk = f THEN [timer[k] EXCEPT !.age = 0] ELSE timer[k]]
       ELSE /\ Len(timer) < Slots
            /\ timer' = Append(timer, [cbk |-> f, age |-> 0, inprogress |-> FALSE])
    /\ since' = [since EXCEPT ![f] = 0]
    /\ UNCHANGED <<ticked, stack, stranded>>

Entry(f) == CHOOSE k \in 1 .. Len(timer) : timer[k].cbk = f

\* The walks that are in these callbacks look for them where they were.
Moved(f) == { g \in Running \cap Registered : Entry(g) > Entry(f) }

\* Mutant of TimerRemove: the inprogress flags stay where they are.
TimerRemoveKeepFlags(f) ==
    /\ MayRemove(f) /\ f \in Registered
    /\ LET rest == SelectSeq(timer, LAMBDA e : e.cbk # f)
       IN  timer' = [k \in DOMAIN rest |-> [rest[k] EXCEPT !.inprogress = timer[k].inprogress]]
    /\ stranded' = (stranded \cup Moved(f)) \ {f}
    /\ UNCHANGED <<ticked, stack, since>>

\* timer_remove: the entries behind it move down, with their inprogress flags.
TimerRemove(f) ==
    /\ MayRemove(f) /\ f \in Registered
    /\ timer' = [k \in 1 .. Len(timer) - 1 |->
                    IF k < Entry(f) THEN timer[k] ELSE timer[k + 1]]
    /\ stranded' = (stranded \cup Moved(f)) \ {f}
    /\ UNCHANGED <<ticked, stack, since>>

\* background() calls sys_timer_task, from the main loop or from POLL() in a
\* callback; within a tick it returns at once.
Enter ==
    /\ ticked
    /\ Idle \/ (InCallback /\ Top.cbk \in Nested)
    /\ Len(stack) < MaxDepth
    /\ stack' = Append(stack, [i |-> 1, cbk |-> "none", age |-> 0])
    /\ UNCHANGED <<timer, ticked, since, stranded>>

Due(e) == Interval[e.cbk] = 0 \/ e.age >= Interval[e.cbk]

\* Mutant of Call: a timer that is being called is called again.
CallReentrant ==
    /\ stack # << >> /\ Top.cbk = "none" /\ Top.i <= Len(timer)
    /\ Due(timer[Top.i])
    /\ timer' = [timer EXCEPT ![Top.i].inprogress = TRUE]
    /\ stack' = [stack EXCEPT ![Len(stack)].cbk = timer[Top.i].cbk, ![Len(stack)].age = 0]
    /\ since' = [since EXCEPT ![timer[Top.i].cbk] = 0]
    /\ UNCHANGED <<ticked, stranded>>

\* The walk calls an entry that is due and not being called already.
Call ==
    /\ stack # << >> /\ Top.cbk = "none" /\ Top.i <= Len(timer)
    /\ ~timer[Top.i].inprogress /\ Due(timer[Top.i])
    /\ timer' = [timer EXCEPT ![Top.i].inprogress = TRUE]
    /\ stack' = [stack EXCEPT ![Len(stack)].cbk = timer[Top.i].cbk, ![Len(stack)].age = 0]
    /\ since' = [since EXCEPT ![timer[Top.i].cbk] = 0]
    /\ UNCHANGED <<ticked, stranded>>

\* Mutant of Skip: the walk ends at a timer that need not be called.
SkipBreak ==
    /\ stack # << >> /\ Top.cbk = "none" /\ Top.i <= Len(timer)
    /\ timer[Top.i].inprogress \/ ~Due(timer[Top.i])
    /\ stack' = [stack EXCEPT ![Len(stack)].i = Slots + 1]
    /\ UNCHANGED <<timer, ticked, since, stranded>>

Skip ==
    /\ stack # << >> /\ Top.cbk = "none" /\ Top.i <= Len(timer)
    /\ timer[Top.i].inprogress \/ ~Due(timer[Top.i])
    /\ stack' = [stack EXCEPT ![Len(stack)].i = @ + 1]
    /\ UNCHANGED <<timer, ticked, since, stranded>>

\* Mutant of Return: start is not renewed.
ReturnNoStart ==
    /\ InCallback
    /\ timer' = [k \in DOMAIN timer |->
                    IF k = Top.i /\ timer[k].cbk = Top.cbk
                    THEN [timer[k] EXCEPT !.inprogress = FALSE] ELSE timer[k]]
    /\ stack' = [stack EXCEPT ![Len(stack)].i = @ + 1, ![Len(stack)].cbk = "none"]
    /\ UNCHANGED <<ticked, since, stranded>>

\* "Double check in case it's removed during execution"
Return ==
    /\ InCallback
    /\ timer' = [k \in DOMAIN timer |->
                    IF k = Top.i /\ timer[k].cbk = Top.cbk
                    THEN [timer[k] EXCEPT !.inprogress = FALSE, !.age = Top.age]
                    ELSE timer[k]]
    /\ stack' = [stack EXCEPT ![Len(stack)].i = @ + 1, ![Len(stack)].cbk = "none"]
    /\ UNCHANGED <<ticked, since, stranded>>

\* The end of the walk stores previous_tick.
Leave ==
    /\ stack # << >> /\ Top.cbk = "none" /\ Top.i > Len(timer)
    /\ stack' = Front(stack)
    /\ ticked' = FALSE
    /\ UNCHANGED <<timer, since, stranded>>

Walk == Call \/ Skip \/ Leave
Next ==
    \/ Tick \/ Enter \/ Walk \/ Return
    \/ \E f \in Timers : TimerAdd(f) \/ TimerRemove(f)

Spec == Init /\ [][Next]_vars

\* Time passes, the main loop polls, and every callback returns.  One that
\* polls cannot return while another runs inside it: strong fairness.
Fairness ==
    /\ WF_vars(Tick) /\ WF_vars(Enter /\ Idle) /\ WF_vars(Walk)
    /\ \A f \in Timers : SF_vars(Return /\ Top.cbk = f)
FairSpec == Spec /\ Fairness

-----------------------------------------------------------------------------
Entries == [cbk : Timers, age : 0 .. MaxAge, inprogress : BOOLEAN]
Frames  == [i : 1 .. Slots + 1, cbk : Timers \cup {"none"}, age : 0 .. MaxAge]

TypeOK ==
    /\ timer \in Seq(Entries) /\ Len(timer) <= Slots
    /\ ticked \in BOOLEAN
    /\ stack \in Seq(Frames) /\ Len(stack) <= MaxDepth
    /\ since \in [Timers -> 0 .. MaxAge] /\ stranded \subseteq Timers

\* "To avoid reentrance" (timer.c:24): a callback is never entered while it
\* is running further down the stack, however the walks nest and the table
\* changes in between.
NoReentrance ==
    \A d, e \in 1 .. Len(stack) : d # e /\ stack[d].cbk # "none" => stack[d].cbk # stack[e].cbk

\* A timer is never called before its interval has passed since it was added,
\* re-added or last called.
NeverEarly ==
    [][ \A f \in Timers : f \in Running' /\ f \notin Running => since[f] >= Interval[f] ]_vars

\* inprogress marks the timers whose callbacks are running; the driver's own
\* words are "Double check in case it's removed during execution" (timer.c:62).
\* Whatever is removed in whichever walk, the only others that are marked are
\* those whose entry a removal moved down while their callback ran: the check
\* finds another timer in their place, or none, and they stay marked until they
\* are removed themselves.  The table is not overrun.
MarkIsRunning ==
    /\ TypeOK
    /\ \A k \in 1 .. Len(timer) :
          timer[k].inprogress <=> timer[k].cbk \in Running \cup stranded

\* A timer that stays registered is called again and again, unless it is
\* restarted again and again ("since" is 0 after a call and after a timer_add)
\* or its entry has moved while its callback ran.
KeepsRunning ==
    \A f \in Timers : []<>(f \notin Registered \/ since[f] = 0 \/ f \in stranded)
=============================================================================
