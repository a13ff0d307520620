--------------------------- MODULE MainLoop_proofs ---------------------------
(* The main loop: timers and background tasks.                                *)
(*                                                                            *)
(* The safety of Timer for every table size, set of timers and intervals, for *)
(* walks nested to any depth, whoever removes whom: no callback is entered    *)
(* twice, or early, and a mark is given back unless a removal has moved the   *)
(* entry down while its callback ran.                                         *)
(*                                                                            *)
(* The safety of Background for every set of tasks, size of the list and      *)
(* depth of nesting: the list is not overrun, whoever adds and removes, and   *)
(* the flags stay with their tasks, but for those that task_remove, which     *)
(* moves the functions and not the flags, has displaced.                      *)
EXTENDS Timer, Background, SequenceTheorems, TLAPS

USE TimerAssumption

(* A function has one entry in the table.                                     *)
OneEntry == \A k, l \in 1..Len(timer) : timer[k].cbk = timer[l].cbk => k = l

(* The entry of a function that is running is marked.                         *)
Marked ==
    \A k \in 1..Len(timer), d \in 1..Len(stack) :
        timer[k].cbk = stack[d].cbk => timer[k].inprogress

(* What the table, or the return of a callback, takes for the time since the  *)
(* last call is not more than it.                                             *)
Ages ==
    /\ \A k \in 1..Len(timer) : ~timer[k].inprogress => timer[k].age <= since[timer[k].cbk]
    /\ \A d \in 1..Len(stack) : stack[d].cbk # "none" => stack[d].age <= since[stack[d].cbk]

InTable == \A d \in 1..Len(stack) : stack[d].cbk # "none" => stack[d].i <= Slots

(* A mark is taken away where the walk of its callback looks for it, so that  *)
(* it stands there, or belongs to a timer that was moved away from there.     *)
GivenBack ==
    \A k \in 1..Len(timer) : timer[k].inprogress =>
        \/ timer[k].cbk \in stranded
        \/ \E d \in 1..Len(stack) : stack[d].cbk = timer[k].cbk /\ stack[d].i = k

(* A timer that was moved is in the table, marked, and before the place where *)
(* the walk looks for it.                                                     *)
Stranded ==
    /\ \A g \in stranded : \E k \in 1..Len(timer) : timer[k].cbk = g /\ timer[k].inprogress
    /\ \A k \in 1..Len(timer), d \in 1..Len(stack) :
          timer[k].cbk = stack[d].cbk /\ timer[k].cbk \in stranded => k < stack[d].i

IInv ==
    TypeOK /\ OneEntry /\ NoReentrance /\ Marked /\ Ages /\ InTable /\ GivenBack /\ Stranded

-----------------------------------------------------------------------------
(* Sequences as functions, and what a change of one field leaves.             *)
LEMMA FunctionSeq ==
    ASSUME NEW S, NEW n \in Nat, NEW q \in [1..n -> S]
    PROVE  q \in Seq(S) /\ Len(q) = n
OBVIOUS

LEMMA OlderType ==
    ASSUME NEW a \in 0..MaxAge
    PROVE  Older(a) \in 0..MaxAge /\ \A b \in 0..MaxAge : a <= b => Older(a) <= Older(b)
BY DEF Older

LEMMA Changed ==
    ASSUME NEW e \in Entries, NEW a \in 0..MaxAge, NEW m \in BOOLEAN
    PROVE  /\ [e EXCEPT !.age = a] \in Entries
           /\ [e EXCEPT !.age = a].cbk = e.cbk /\ [e EXCEPT !.age = a].age = a
           /\ [e EXCEPT !.age = a].inprogress = e.inprogress
           /\ [e EXCEPT !.inprogress = m] \in Entries
           /\ [e EXCEPT !.inprogress = m].cbk = e.cbk
           /\ [e EXCEPT !.inprogress = m].age = e.age
           /\ [e EXCEPT !.inprogress = m].inprogress = m
BY DEF Entries

LEMMA Returned ==
    ASSUME NEW e \in Entries, NEW a \in 0..MaxAge
    PROVE  LET r == [e EXCEPT !.inprogress = FALSE, !.age = a]
           IN  r \in Entries /\ r.cbk = e.cbk /\ r.age = a /\ r.inprogress = FALSE
BY DEF Entries

LEMMA NewCbk ==
    ASSUME NEW e \in Frames, NEW c \in Timers \cup {"none"}
    PROVE  /\ [e EXCEPT !.cbk = c] \in Frames
           /\ [e EXCEPT !.cbk = c].cbk = c /\ [e EXCEPT !.cbk = c].i = e.i
           /\ [e EXCEPT !.cbk = c].age = e.age
BY DEF Frames

LEMMA NewAge ==
    ASSUME NEW e \in Frames, NEW a \in 0..MaxAge
    PROVE  /\ [e EXCEPT !.age = a] \in Frames
           /\ [e EXCEPT !.age = a].cbk = e.cbk /\ [e EXCEPT !.age = a].i = e.i
           /\ [e EXCEPT !.age = a].age = a
BY DEF Frames

LEMMA NewIndex ==
    ASSUME NEW e \in Frames, NEW j \in 1..(Slots + 1)
    PROVE  /\ [e EXCEPT !.i = j] \in Frames
           /\ [e EXCEPT !.i = j].cbk = e.cbk /\ [e EXCEPT !.i = j].i = j
           /\ [e EXCEPT !.i = j].age = e.age
BY DEF Frames

(* The types taken apart.                                                     *)
LEMMA Parts ==
    ASSUME TypeOK
    PROVE  /\ Len(timer) \in Nat /\ DOMAIN timer = 1..Len(timer)
           /\ \A k \in 1..Len(timer) :
                 /\ timer[k] \in Entries /\ timer[k].cbk \in Timers
                 /\ timer[k].age \in 0..MaxAge /\ timer[k].inprogress \in BOOLEAN
           /\ Len(stack) \in Nat /\ DOMAIN stack = 1..Len(stack)
           /\ \A d \in 1..Len(stack) :
                 /\ stack[d] \in Frames /\ stack[d].i \in 1..(Slots + 1)
                 /\ stack[d].cbk \in Timers \cup {"none"} /\ stack[d].age \in 0..MaxAge
           /\ stack # << >> => Len(stack) \in 1..Len(stack) /\ Top = stack[Len(stack)]
           /\ \A f \in Timers : since[f] \in 0..MaxAge
<1>1. timer \in Seq(Entries) /\ stack \in Seq(Frames) /\ since \in [Timers -> 0..MaxAge]
  BY DEF TypeOK
<1>2. /\ Len(timer) \in Nat /\ DOMAIN timer = 1..Len(timer)
      /\ \A k \in 1..Len(timer) : timer[k] \in Entries
  BY <1>1, LenProperties, ElementOfSeq
<1>3. /\ Len(stack) \in Nat /\ DOMAIN stack = 1..Len(stack)
      /\ \A d \in 1..Len(stack) : stack[d] \in Frames
  BY <1>1, LenProperties, ElementOfSeq
<1>4. stack # << >> => Len(stack) \in 1..Len(stack)
  BY <1>1, EmptySeq
<1>5. \A k \in 1..Len(timer) :
          timer[k].cbk \in Timers /\ timer[k].age \in 0..MaxAge /\ timer[k].inprogress \in BOOLEAN
  BY <1>2 DEF Entries
<1>6. \A d \in 1..Len(stack) :
          /\ stack[d].i \in 1..(Slots + 1) /\ stack[d].cbk \in Timers \cup {"none"}
          /\ stack[d].age \in 0..MaxAge
  BY <1>3 DEF Frames
<1>. QED
  BY <1>1, <1>2, <1>3, <1>4, <1>5, <1>6 DEF Top, Last

-----------------------------------------------------------------------------
LEMMA InitInv == Init => IInv
<1>. SUFFICES ASSUME Init PROVE IInv
  OBVIOUS
<1>1. << >> \in Seq(Entries) /\ << >> \in Seq(Frames) /\ Len(<< >>) = 0
  BY EmptySeq
<1>2. timer \in Seq(Entries) /\ Len(timer) <= Slots /\ stack \in Seq(Frames) /\ Len(stack) <= MaxDepth
  BY <1>1 DEF Init
<1>3. TypeOK
  <2>1. ticked \in BOOLEAN
    BY DEF Init
  <2>2. since \in [Timers -> 0..MaxAge] /\ stranded \subseteq Timers
    BY DEF Init
  <2>. QED
    BY <1>2, <2>1, <2>2 DEF TypeOK
<1>. QED
  BY <1>1, <1>3 DEF Init, IInv, OneEntry, NoReentrance, Marked, Ages, InTable, GivenBack, Stranded

LEMMA TickStep ==
    ASSUME IInv, Tick
    PROVE  IInv'
<1>1. /\ TypeOK /\ OneEntry /\ NoReentrance /\ Marked /\ Ages /\ InTable
      /\ GivenBack /\ Stranded
  BY DEF IInv
<1>2. \A k \in 1..Len(timer) : [timer[k] EXCEPT !.age = Older(timer[k].age)] \in Entries
  BY <1>1, Parts, Changed, OlderType
<1>3. \A d \in 1..Len(stack) : [stack[d] EXCEPT !.age = Older(stack[d].age)] \in Frames
  BY <1>1, Parts, OlderType DEF Frames
<1>4. /\ timer' = [k \in 1..Len(timer) |-> [timer[k] EXCEPT !.age = Older(timer[k].age)]]
      /\ stack' = [d \in 1..Len(stack) |-> [stack[d] EXCEPT !.age = Older(stack[d].age)]]
      /\ since' = [f \in Timers |-> Older(since[f])] /\ ticked' = TRUE /\ stranded' = stranded
  BY <1>1, Parts DEF Tick
<1>5. timer' \in Seq(Entries) /\ Len(timer') = Len(timer)
  <2>1. timer' \in [1..Len(timer) -> Entries]
    BY <1>2, <1>4
  <2>. QED
    BY <1>1, <2>1, Parts, FunctionSeq
<1>6. stack' \in Seq(Frames) /\ Len(stack') = Len(stack)
  <2>1. stack' \in [1..Len(stack) -> Frames]
    BY <1>3, <1>4
  <2>. QED
    BY <1>1, <2>1, Parts, FunctionSeq
<1>7. since' \in [Timers -> 0..MaxAge]
  BY <1>1, <1>4, Parts, OlderType
<1>8. TypeOK'
  BY <1>1, <1>4, <1>5, <1>6, <1>7 DEF TypeOK
<1>9. \A k \in 1..Len(timer) : /\ timer'[k].cbk = timer[k].cbk
                               /\ timer'[k].inprogress = timer[k].inprogress
                               /\ timer'[k].age = Older(timer[k].age)
  <2>. TAKE k \in 1..Len(timer)
  <2>1. timer[k] \in Entries /\ timer'[k] = [timer[k] EXCEPT !.age = Older(timer[k].age)]
    BY <1>1, <1>4, Parts
  <2>. QED
    BY <2>1 DEF Entries
<1>10. \A d \in 1..Len(stack) : /\ stack'[d].cbk = stack[d].cbk /\ stack'[d].i = stack[d].i
                                /\ stack'[d].age = Older(stack[d].age)
  <2>. TAKE d \in 1..Len(stack)
  <2>1. stack[d] \in Frames /\ stack'[d] = [stack[d] EXCEPT !.age = Older(stack[d].age)]
    BY <1>1, <1>4, Parts
  <2>. QED
    BY <2>1 DEF Frames
<1>11. OneEntry' /\ NoReentrance' /\ Marked' /\ InTable'
  <2>1. OneEntry'
    BY <1>1, <1>5, <1>9 DEF OneEntry
  <2>2. NoReentrance'
    BY <1>1, <1>6, <1>10 DEF NoReentrance
  <2>3. Marked'
    BY <1>1, <1>5, <1>6, <1>9, <1>10 DEF Marked
  <2>4. InTable'
    BY <1>1, <1>6, <1>10 DEF InTable
  <2>. QED
    BY <2>1, <2>2, <2>3, <2>4
<1>12. Ages'
  <2>1. ASSUME NEW k \in 1..Len(timer), ~timer[k].inprogress
        PROVE  Older(timer[k].age) <= since'[timer[k].cbk]
    BY <1>1, <1>4, <2>1, Parts, OlderType DEF Ages
  <2>2. ASSUME NEW d \in 1..Len(stack), stack[d].cbk # "none"
        PROVE  Older(stack[d].age) <= since'[stack[d].cbk]
    BY <1>1, <1>4, <2>2, Parts, OlderType DEF Ages
  <2>. QED
    BY <1>5, <1>6, <1>9, <1>10, <2>1, <2>2 DEF Ages
<1>13. GivenBack' /\ Stranded'
  <2>1. GivenBack'
    BY <1>1, <1>4, <1>5, <1>6, <1>9, <1>10 DEF GivenBack
  <2>2. Stranded'
    BY <1>1, <1>4, <1>5, <1>6, <1>9, <1>10 DEF Stranded
  <2>. QED
    BY <2>1, <2>2
<1>. QED
  BY <1>8, <1>11, <1>12, <1>13 DEF IInv

(* timer_add in the main loop: nothing is running.                            *)
LEMMA TimerAddStep ==
    ASSUME IInv, NEW f \in Timers, TimerAdd(f)
    PROVE  IInv'
<1>1. /\ TypeOK /\ OneEntry /\ NoReentrance /\ Marked /\ Ages /\ InTable
      /\ GivenBack /\ Stranded
  BY DEF IInv
<1>2. stack' = stack /\ Len(stack) = 0 /\ ticked' = ticked /\ since' = [since EXCEPT ![f] = 0]
      /\ stranded' = stranded
  BY EmptySeq DEF TimerAdd, Idle
<1>3. since' \in [Timers -> 0..MaxAge] /\ \A g \in Timers : since'[g] = IF g = f THEN 0 ELSE since[g]
  BY <1>1, <1>2 DEF TypeOK
<1>4. NoReentrance' /\ Marked' /\ InTable'
  BY <1>2 DEF NoReentrance, Marked, InTable
<1>5. CASE f \in Registered
  <2>1. timer' = [k \in 1..Len(timer) |->
                     IF timer[k].cbk = f THEN [timer[k] EXCEPT !.age = 0] ELSE timer[k]]
    BY <1>1, <1>5, Parts DEF TimerAdd
  <2>2. timer' \in [1..Len(timer) -> Entries]
    <3>. SUFFICES ASSUME NEW k \in 1..Len(timer)
                  PROVE  [timer[k] EXCEPT !.age = 0] \in Entries /\ timer[k] \in Entries
      BY <2>1
    <3>1. timer[k] \in Entries /\ 0 \in 0..MaxAge
      BY <1>1, Parts
    <3>. QED
      BY <3>1, Changed
  <2>3. timer' \in Seq(Entries) /\ Len(timer') = Len(timer)
    BY <1>1, <2>2, Parts, FunctionSeq
  <2>4. \A k \in 1..Len(timer) : /\ timer'[k].cbk = timer[k].cbk
                                 /\ timer'[k].inprogress = timer[k].inprogress
                                 /\ timer'[k].age = IF timer[k].cbk = f THEN 0 ELSE timer[k].age
    <3>. TAKE k \in 1..Len(timer)
    <3>1. /\ timer[k] \in Entries
          /\ timer'[k] = IF timer[k].cbk = f THEN [timer[k] EXCEPT !.age = 0] ELSE timer[k]
      BY <1>1, <2>1, Parts
    <3>. QED
      BY <3>1 DEF Entries
  <2>5. TypeOK'
    BY <1>1, <1>2, <1>3, <2>3 DEF TypeOK
  <2>6. OneEntry'
    BY <1>1, <2>3, <2>4 DEF OneEntry
  <2>7. Ages'
    <3>1. ASSUME NEW k \in 1..Len(timer), ~timer[k].inprogress
          PROVE  timer'[k].age <= since'[timer[k].cbk]
      <4>1. timer[k].age <= since[timer[k].cbk] /\ timer[k].cbk \in Timers
        BY <1>1, <3>1, Parts DEF Ages
      <4>. QED
        BY <1>3, <2>4, <4>1
    <3>. QED
      BY <1>2, <2>3, <2>4, <3>1 DEF Ages
  <2>8. GivenBack' /\ Stranded'
    BY <1>1, <1>2, <2>3, <2>4 DEF GivenBack, Stranded
  <2>. QED
    BY <1>4, <2>5, <2>6, <2>7, <2>8 DEF IInv
<1>6. CASE f \notin Registered
  <2>. DEFINE e == [cbk |-> f, age |-> 0, inprogress |-> FALSE]
  <2>1. timer' = Append(timer, e) /\ Len(timer) < Slots /\ \A k \in 1..Len(timer) : timer[k].cbk # f
    BY <1>6 DEF TimerAdd, Registered
  <2>2. e \in Entries /\ e.cbk = f /\ e.age = 0 /\ ~e.inprogress
    BY DEF Entries
  <2>. HIDE DEF e
  <2>3. timer \in Seq(Entries) /\ Len(timer) \in Nat
    BY <1>1, Parts DEF TypeOK
  <2>4. /\ timer' \in Seq(Entries) /\ Len(timer') = Len(timer) + 1
        /\ \A k \in 1..Len(timer) : timer'[k] = timer[k]
        /\ timer'[Len(timer) + 1] = e
    BY <2>1, <2>2, <2>3, AppendProperties
  <2>5. \A k \in 1..Len(timer') : k \in 1..Len(timer) \/ k = Len(timer) + 1
    BY <2>3, <2>4
  <2>6. TypeOK'
    BY <1>1, <1>2, <1>3, <2>1, <2>3, <2>4 DEF TypeOK
  <2>7. OneEntry'
    BY <1>1, <2>1, <2>2, <2>4, <2>5 DEF OneEntry
  <2>8. Ages'
    <3>1. ASSUME NEW k \in 1..Len(timer'), ~timer'[k].inprogress
          PROVE  timer'[k].age <= since'[timer'[k].cbk]
      <4>1. CASE k \in 1..Len(timer)
        BY <1>1, <1>3, <2>1, <2>4, <3>1, <4>1, Parts DEF Ages
      <4>2. CASE k = Len(timer) + 1
        BY <1>3, <2>2, <2>4, <4>2
      <4>. QED
        BY <2>5, <4>1, <4>2
    <3>. QED
      BY <1>2, <3>1 DEF Ages
  <2>9. GivenBack' /\ Stranded'
    <3>1. \A k \in 1..Len(timer') : timer'[k].inprogress => k \in 1..Len(timer) /\ timer'[k] = timer[k]
      BY <2>2, <2>4, <2>5
    <3>2. GivenBack'
      BY <1>1, <1>2, <3>1 DEF GivenBack
    <3>3. \A k \in 1..Len(timer) : k \in 1..Len(timer')
      BY <2>3, <2>4
    <3>4. Stranded'
      BY <1>1, <1>2, <2>4, <3>3 DEF Stranded
    <3>. QED
      BY <3>2, <3>4
  <2>. QED
    BY <1>4, <2>6, <2>7, <2>8, <2>9 DEF IInv
<1>. QED
  BY <1>5, <1>6

(* timer_remove: the entries behind it move down with all their fields.       *)
LEMMA TableWithout ==
    ASSUME TypeOK, OneEntry, NEW f \in Timers, TimerRemove(f)
    PROVE  /\ Len(timer') = Len(timer) - 1 /\ timer' \in Seq(Entries)
           /\ \A k \in 1..Len(timer') :
                 \E l \in 1..Len(timer) : timer'[k] = timer[l] /\ l \in {k, k + 1}
           /\ Entry(f) \in 1..Len(timer) /\ timer[Entry(f)].cbk = f
           /\ \A k \in 1..Len(timer') :
                 timer'[k] = IF k < Entry(f) THEN timer[k] ELSE timer[k + 1]
           /\ \A k \in 1..Len(timer') : timer'[k].cbk # f
           /\ \A k, l \in 1..Len(timer') : timer'[k].cbk = timer'[l].cbk => k = l
<1>. DEFINE i == Entry(f)
<1>1. i \in 1..Len(timer) /\ timer[i].cbk = f
  <2>1. \E k \in 1..Len(timer) : timer[k].cbk = f
    BY DEF TimerRemove, Registered
  <2>. QED
    BY <2>1 DEF Entry
<1>2. timer' = [k \in 1..(Len(timer) - 1) |-> IF k < i THEN timer[k] ELSE timer[k + 1]]
  BY DEF TimerRemove
<1>. HIDE DEF i
<1>3. Len(timer) \in Nat /\ Len(timer) - 1 \in Nat
  BY <1>1, Parts
<1>4. \A k \in 1..(Len(timer) - 1) : k \in 1..Len(timer) /\ k + 1 \in 1..Len(timer)
  BY <1>3
<1>5. timer' \in [1..(Len(timer) - 1) -> Entries]
  BY <1>2, <1>4, Parts
<1>6. timer' \in Seq(Entries) /\ Len(timer') = Len(timer) - 1
  BY <1>3, <1>5, FunctionSeq
<1>7. \A k \in 1..(Len(timer) - 1) : timer'[k] = IF k < i THEN timer[k] ELSE timer[k + 1]
  BY <1>2
<1>8. ASSUME NEW k \in 1..(Len(timer) - 1)
      PROVE  /\ \E l \in 1..Len(timer) : timer'[k] = timer[l] /\ l \in {k, k + 1}
             /\ timer'[k].cbk # f
  <2>1. CASE k < i
    <3>1. k # i /\ k \in 1..Len(timer) /\ timer'[k] = timer[k]
      BY <1>1, <1>4, <1>7, <2>1
    <3>. QED
      BY <1>1, <3>1 DEF OneEntry
  <2>2. CASE ~(k < i)
    <3>1. k + 1 # i /\ k + 1 \in 1..Len(timer) /\ timer'[k] = timer[k + 1]
      BY <1>1, <1>4, <1>7, <2>2
    <3>. QED
      BY <1>1, <3>1 DEF OneEntry
  <2>. QED
    BY <2>1, <2>2
<1>9. ASSUME NEW k \in 1..(Len(timer) - 1), NEW l \in 1..(Len(timer) - 1),
             timer'[k].cbk = timer'[l].cbk
      PROVE  k = l
  <2>. DEFINE a == IF k < i THEN k ELSE k + 1
              b == IF l < i THEN l ELSE l + 1
  <2>1. a \in 1..Len(timer) /\ b \in 1..Len(timer) /\ timer'[k] = timer[a] /\ timer'[l] = timer[b]
    BY <1>4, <1>7
  <2>2. a = b
    BY <1>9, <2>1 DEF OneEntry
  <2>. QED
    BY <1>1, <2>2
<1>. QED
  BY <1>1, <1>6, <1>7, <1>8, <1>9 DEF i

LEMMA TimerRemoveStep ==
    ASSUME IInv, NEW f \in Timers, TimerRemove(f)
    PROVE  IInv'
<1>. DEFINE i == Entry(f)
<1>1. /\ TypeOK /\ OneEntry /\ NoReentrance /\ Marked /\ Ages /\ InTable
      /\ GivenBack /\ Stranded
  BY DEF IInv
<1>2. /\ UNCHANGED <<ticked, stack, since>>
      /\ stranded' = (stranded \cup Moved(f)) \ {f}
  BY DEF TimerRemove
<1>3. /\ Len(timer') = Len(timer) - 1 /\ timer' \in Seq(Entries)
      /\ \A k \in 1..Len(timer') :
            \E l \in 1..Len(timer) : timer'[k] = timer[l] /\ l \in {k, k + 1}
      /\ \A k, l \in 1..Len(timer') : timer'[k].cbk = timer'[l].cbk => k = l
      /\ i \in 1..Len(timer) /\ timer[i].cbk = f
      /\ \A k \in 1..Len(timer') : timer'[k] = IF k < i THEN timer[k] ELSE timer[k + 1]
      /\ \A k \in 1..Len(timer') : timer'[k].cbk # f
  BY <1>1, TableWithout
<1>4. TypeOK'
  <2>1. Len(timer') <= Slots
    BY <1>1, <1>3, Parts DEF TypeOK
  <2>2. stranded' \subseteq Timers
    <3>1. Registered \subseteq Timers
      BY <1>1, Parts DEF Registered
    <3>. QED
      BY <1>1, <1>2, <3>1 DEF TypeOK, Moved
  <2>. QED
    BY <1>1, <1>2, <1>3, <2>1, <2>2 DEF TypeOK
<1>5. OneEntry'
  BY <1>3 DEF OneEntry
<1>6. NoReentrance' /\ InTable'
  BY <1>1, <1>2 DEF NoReentrance, InTable
<1>7. Marked'
  <2>. SUFFICES ASSUME NEW k \in 1..Len(timer'), NEW d \in 1..Len(stack), timer'[k].cbk = stack[d].cbk
                PROVE  timer'[k].inprogress
    BY <1>2 DEF Marked
  <2>1. PICK l \in 1..Len(timer) : timer'[k] = timer[l]
    BY <1>3
  <2>. QED
    BY <1>1, <2>1 DEF Marked
<1>8. Ages'
  BY <1>1, <1>2, <1>3 DEF Ages
(* What is behind the removed entry and runs is moved.                        *)
<1>9. \A k \in 1..Len(timer) : Entry(timer[k].cbk) = k
  BY <1>1 DEF Entry, OneEntry
<1>10. ASSUME NEW k \in 1..Len(timer), NEW d \in 1..Len(stack), stack[d].cbk = timer[k].cbk, k > i
       PROVE  timer[k].cbk \in stranded'
  <2>1. timer[k].cbk \in Registered /\ timer[k].cbk \in Running
    BY <1>1, <1>10, Parts DEF Registered, Running
  <2>2. timer[k].cbk # f
    BY <1>1, <1>3, <1>10 DEF OneEntry
  <2>. QED
    BY <1>2, <1>9, <1>10, <2>1, <2>2 DEF Moved
<1>11. ASSUME NEW g \in Moved(f)
       PROVE  \E k \in 1..Len(timer), d \in 1..Len(stack) :
                 timer[k].cbk = g /\ stack[d].cbk = g /\ k > i
  BY <1>9 DEF Moved, Registered, Running
<1>12. Len(timer) \in Nat /\ Len(timer') \in Nat
  BY <1>1, <1>3, Parts
<1>. HIDE DEF i
<1>13. GivenBack'
  <2>. SUFFICES ASSUME NEW k \in 1..Len(timer'), timer'[k].inprogress, timer'[k].cbk \notin stranded'
                PROVE  \E d \in 1..Len(stack) : stack[d].cbk = timer'[k].cbk /\ stack[d].i = k
    BY <1>2 DEF GivenBack
  <2>. DEFINE l == IF k < i THEN k ELSE k + 1
  <2>1. l \in 1..Len(timer) /\ timer'[k] = timer[l] /\ timer[l].cbk # f
    <3>1. l \in 1..Len(timer)
      BY <1>3, <1>12
    <3>2. timer'[k] = timer[l] /\ timer'[k].cbk # f
      BY <1>3
    <3>. HIDE DEF l
    <3>. QED
      BY <3>1, <3>2
  <2>2. timer[l].cbk \notin stranded
    BY <1>2, <2>1
  <2>3. PICK d \in 1..Len(stack) : stack[d].cbk = timer[l].cbk /\ stack[d].i = l
    BY <1>1, <2>1, <2>2 DEF GivenBack
  <2>4. ~(l > i)
    BY <1>10, <2>1, <2>3
  <2>5. l = k
    BY <1>3, <2>4
  <2>. QED
    BY <2>1, <2>3, <2>5
<1>14. Stranded'
  <2>1. ASSUME NEW g \in stranded'
        PROVE  \E k \in 1..Len(timer') : timer'[k].cbk = g /\ timer'[k].inprogress
    <3>1. g # f /\ (g \in stranded \/ g \in Moved(f))
      BY <1>2
    <3>2. PICK l \in 1..Len(timer) : timer[l].cbk = g /\ timer[l].inprogress
      <4>1. CASE g \in stranded
        BY <1>1, <4>1 DEF Stranded
      <4>2. CASE g \in Moved(f)
        BY <1>1, <1>11, <4>2 DEF Marked
      <4>. QED
        BY <3>1, <4>1, <4>2
    <3>3. l # i
      BY <1>3, <3>1, <3>2
    <3>4. CASE l < i
      <4>1. l \in 1..Len(timer') /\ timer'[l] = timer[l]
        BY <1>3, <1>12, <3>4
      <4>. QED
        BY <3>2, <4>1
    <3>5. CASE l > i
      <4>. DEFINE k == l - 1
      <4>1. k \in 1..Len(timer') /\ ~(k < i) /\ k + 1 = l
        BY <1>3, <1>12, <3>5
      <4>. HIDE DEF k
      <4>2. timer'[k] = timer[l]
        BY <1>3, <4>1
      <4>. QED
        BY <3>2, <4>1, <4>2
    <3>. QED
      BY <1>3, <3>3, <3>4, <3>5
  <2>2. ASSUME NEW k \in 1..Len(timer'), NEW d \in 1..Len(stack),
               timer'[k].cbk = stack[d].cbk, timer'[k].cbk \in stranded'
        PROVE  k < stack[d].i
    <3>. DEFINE l == IF k < i THEN k ELSE k + 1
    <3>1. l \in 1..Len(timer) /\ timer'[k] = timer[l] /\ k <= l /\ (k < l <=> l > i)
      BY <1>3, <1>12
    <3>2. stack[d].i \in Nat /\ k \in Nat
      BY <1>1, Parts
    <3>. HIDE DEF l
    <3>3. CASE timer[l].cbk \in stranded
      <4>1. l < stack[d].i
        BY <1>1, <2>2, <3>1, <3>3 DEF Stranded
      <4>. QED
        BY <3>1, <3>2, <4>1
    <3>4. CASE timer[l].cbk \notin stranded
      <4>1. timer[l].cbk \in Moved(f)
        BY <1>2, <2>2, <3>1, <3>4
      <4>2. l > i
        BY <1>1, <1>11, <3>1, <4>1 DEF OneEntry
      <4>3. timer[l].inprogress
        BY <1>1, <2>2, <3>1 DEF Marked
      <4>4. PICK e \in 1..Len(stack) : stack[e].cbk = timer[l].cbk /\ stack[e].i = l
        BY <1>1, <3>1, <3>4, <4>3 DEF GivenBack
      <4>5. timer[l].cbk # "none"
        BY <1>1, <3>1, Parts
      <4>6. e = d
        BY <1>1, <2>2, <3>1, <4>4, <4>5 DEF NoReentrance
      <4>. QED
        BY <3>1, <3>2, <4>2, <4>4, <4>6
    <3>. QED
      BY <3>3, <3>4
  <2>. QED
    BY <1>2, <2>1, <2>2 DEF Stranded
<1>. QED
  BY <1>4, <1>5, <1>6, <1>7, <1>8, <1>13, <1>14 DEF IInv

-----------------------------------------------------------------------------
(* A step that changes the frame at the top, or adds one that calls nothing.  *)
LEMMA TopFrame ==
    ASSUME TypeOK, stack # << >>, NEW fr \in Frames, stack' = [stack EXCEPT ![Len(stack)] = fr]
    PROVE  /\ stack' \in Seq(Frames) /\ Len(stack') = Len(stack)
           /\ \A d \in 1..Len(stack) : stack'[d] = IF d = Len(stack) THEN fr ELSE stack[d]
<1>1. stack \in Seq(Frames) /\ Len(stack) \in 1..Len(stack)
  BY Parts DEF TypeOK
<1>. QED
  BY <1>1, ExceptSeq

LEMMA EnterStep ==
    ASSUME IInv, Enter
    PROVE  IInv'
<1>. DEFINE fr == [i |-> 1, cbk |-> "none", age |-> 0]
<1>1. /\ TypeOK /\ OneEntry /\ NoReentrance /\ Marked /\ Ages /\ InTable
      /\ GivenBack /\ Stranded
  BY DEF IInv
<1>2. fr \in Frames /\ fr.cbk = "none"
  BY DEF Frames
<1>. HIDE DEF fr
<1>3. stack' = Append(stack, fr) /\ Len(stack) < MaxDepth /\ UNCHANGED <<timer, ticked, since, stranded>>
  BY DEF Enter, fr
<1>4. /\ stack' \in Seq(Frames) /\ Len(stack') = Len(stack) + 1 /\ Len(stack) \in Nat
      /\ \A d \in 1..Len(stack) : stack'[d] = stack[d]
      /\ stack'[Len(stack) + 1] = fr
  BY <1>1, <1>2, <1>3, AppendProperties, Parts DEF TypeOK
<1>5. \A d \in 1..Len(stack') : d \in 1..Len(stack) \/ stack'[d].cbk = "none"
  BY <1>2, <1>4
<1>6. TypeOK'
  BY <1>1, <1>3, <1>4 DEF TypeOK
<1>7. OneEntry' /\ InTable'
  BY <1>1, <1>3, <1>4, <1>5 DEF OneEntry, InTable
<1>8. NoReentrance'
  BY <1>1, <1>4, <1>5 DEF NoReentrance
<1>9. Marked'
  <2>1. \A k \in 1..Len(timer) : timer[k].cbk # "none"
    BY <1>1, Parts
  <2>. QED
    BY <1>1, <1>3, <1>4, <1>5, <2>1 DEF Marked
<1>10. Ages'
  BY <1>1, <1>3, <1>4, <1>5 DEF Ages
<1>11. GivenBack' /\ Stranded'
  <2>1. \A k \in 1..Len(timer) : timer[k].cbk # "none"
    BY <1>1, Parts
  <2>2. GivenBack'
    BY <1>1, <1>3, <1>4 DEF GivenBack
  <2>3. Stranded'
    BY <1>1, <1>3, <1>4, <1>5, <2>1 DEF Stranded
  <2>. QED
    BY <2>2, <2>3
<1>. QED
  BY <1>6, <1>7, <1>8, <1>9, <1>10, <1>11 DEF IInv

(* What a call does: the entry was not marked, so that it is not running.     *)
LEMMA CallFacts ==
    ASSUME IInv, Call
    PROVE  /\ stack # << >> /\ Top.cbk = "none" /\ Top.i \in 1..Len(timer)
           /\ Len(timer') = Len(timer) /\ timer' \in Seq(Entries)
           /\ \A k \in 1..Len(timer) :
                 /\ timer'[k].cbk = timer[k].cbk /\ timer'[k].age = timer[k].age
                 /\ timer'[k].inprogress = (k = Top.i \/ timer[k].inprogress)
           /\ Len(stack') = Len(stack) /\ stack' \in Seq(Frames)
           /\ \A d \in 1..Len(stack) : d # Len(stack) => stack'[d] = stack[d]
           /\ stack'[Len(stack)].cbk = timer[Top.i].cbk
           /\ stack'[Len(stack)].i = Top.i /\ stack'[Len(stack)].age = 0
           /\ \A d \in 1..Len(stack) : stack[d].cbk # timer[Top.i].cbk
           /\ since' = [since EXCEPT ![timer[Top.i].cbk] = 0] /\ ticked' = ticked
           /\ stranded' = stranded
           /\ ~timer[Top.i].inprogress /\ Due(timer[Top.i])
           /\ Len(stack) \in 1..Len(stack) /\ stack[Len(stack)].cbk = "none"
<1>. DEFINE i == Top.i
            f == timer[i].cbk
            fr == [[Top EXCEPT !.cbk = f] EXCEPT !.age = 0]
<1>1. TypeOK /\ Marked
  BY DEF IInv
<1>2. /\ stack # << >> /\ Top.cbk = "none" /\ i <= Len(timer) /\ ~timer[i].inprogress
      /\ Due(timer[i]) /\ UNCHANGED <<ticked, stranded>> /\ since' = [since EXCEPT ![f] = 0]
      /\ timer' = [timer EXCEPT ![i].inprogress = TRUE]
      /\ stack' = [stack EXCEPT ![Len(stack)].cbk = f, ![Len(stack)].age = 0]
  BY DEF Call
<1>3. Top \in Frames /\ Top = stack[Len(stack)] /\ Len(stack) \in 1..Len(stack)
  BY <1>1, <1>2, Parts
<1>4. i \in 1..Len(timer) /\ i \in 1..(Slots + 1)
  BY <1>1, <1>2, <1>3, Parts DEF Frames
<1>5. timer[i] \in Entries /\ f \in Timers
  BY <1>1, <1>4, Parts
<1>6. fr \in Frames /\ fr.i = i /\ fr.cbk = f /\ fr.age = 0
  <2>. DEFINE mid == [Top EXCEPT !.cbk = f]
  <2>1. mid \in Frames /\ mid.i = i /\ mid.cbk = f
    BY <1>3, <1>5, NewCbk
  <2>. HIDE DEF mid
  <2>2. fr = [mid EXCEPT !.age = 0] /\ 0 \in 0..MaxAge
    BY DEF mid
  <2>. QED
    BY <2>1, <2>2, NewAge
<1>7. stack' = [stack EXCEPT ![Len(stack)] = fr]
  <2>1. stack \in [1..Len(stack) -> Frames]
    BY <1>1, LenProperties DEF TypeOK
  <2>. QED
    BY <1>2, <1>3, <2>1
<1>8. /\ stack' \in Seq(Frames) /\ Len(stack') = Len(stack)
      /\ \A d \in 1..Len(stack) : stack'[d] = IF d = Len(stack) THEN fr ELSE stack[d]
  <2>. HIDE DEF fr
  <2>. QED
    BY <1>1, <1>2, <1>6, <1>7, TopFrame
<1>9. /\ timer' \in Seq(Entries) /\ Len(timer') = Len(timer)
      /\ \A k \in 1..Len(timer) :
            timer'[k] = IF k = i THEN [timer[i] EXCEPT !.inprogress = TRUE] ELSE timer[k]
  <2>1. timer \in Seq(Entries) /\ [timer[i] EXCEPT !.inprogress = TRUE] \in Entries
    BY <1>1, <1>5, Changed DEF TypeOK
  <2>2. timer' = [timer EXCEPT ![i] = [timer[i] EXCEPT !.inprogress = TRUE]]
    BY <1>2
  <2>. QED
    BY <1>4, <2>1, <2>2, ExceptSeq
<1>10. \A k \in 1..Len(timer) :
          /\ timer'[k].cbk = timer[k].cbk /\ timer'[k].age = timer[k].age
          /\ timer'[k].inprogress = (k = i \/ timer[k].inprogress)
  <2>. TAKE k \in 1..Len(timer)
  <2>1. timer[k] \in Entries
    BY <1>1, Parts
  <2>2. CASE k = i
    <3>1. timer'[k] = [timer[k] EXCEPT !.inprogress = TRUE]
      BY <1>9, <2>2
    <3>. QED
      BY <2>1, <2>2, <3>1 DEF Entries
  <2>3. CASE k # i
    BY <1>9, <2>1, <2>3 DEF Entries
  <2>. QED
    BY <2>2, <2>3
<1>11. \A d \in 1..Len(stack) : stack[d].cbk # f
  BY <1>1, <1>2, <1>4 DEF Marked
<1>. QED
  BY <1>2, <1>3, <1>4, <1>6, <1>8, <1>9, <1>10, <1>11

LEMMA CallStep ==
    ASSUME IInv, Call
    PROVE  IInv'
<1>. DEFINE n == Len(stack)
            i == Top.i
            f == timer[i].cbk
<1>1. /\ TypeOK /\ OneEntry /\ NoReentrance /\ Marked /\ Ages /\ InTable
      /\ GivenBack /\ Stranded
  BY DEF IInv
<1>2. /\ i \in 1..Len(timer) /\ Len(timer') = Len(timer) /\ timer' \in Seq(Entries)
      /\ n \in 1..n /\ stack[n].cbk = "none"
      /\ \A k \in 1..Len(timer) :
            /\ timer'[k].cbk = timer[k].cbk /\ timer'[k].age = timer[k].age
            /\ timer'[k].inprogress = (k = i \/ timer[k].inprogress)
      /\ Len(stack') = n /\ stack' \in Seq(Frames)
      /\ \A d \in 1..n : d # n => stack'[d] = stack[d]
      /\ stack'[n].cbk = f /\ stack'[n].i = i /\ stack'[n].age = 0
      /\ \A d \in 1..n : stack[d].cbk # f
      /\ since' = [since EXCEPT ![f] = 0] /\ UNCHANGED <<ticked, stranded>>
      /\ ~timer[i].inprogress
  BY CallFacts
<1>3. f \in Timers
  BY <1>1, <1>2, Parts
<1>. HIDE DEF i, f, n
<1>4. since' \in [Timers -> 0..MaxAge] /\ \A g \in Timers : since'[g] = IF g = f THEN 0 ELSE since[g]
  BY <1>1, <1>2, <1>3 DEF TypeOK
<1>5. TypeOK'
  BY <1>1, <1>2, <1>4 DEF TypeOK, n
<1>6. OneEntry'
  BY <1>1, <1>2 DEF OneEntry
<1>7. NoReentrance'
  BY <1>1, <1>2, <1>3 DEF NoReentrance, n
<1>8. Marked'
  <2>. SUFFICES ASSUME NEW k \in 1..Len(timer), NEW d \in 1..n, timer[k].cbk = stack'[d].cbk
                PROVE  timer'[k].inprogress
    BY <1>2 DEF Marked
  <2>1. CASE d = n
    <3>1. k = i
      BY <1>1, <1>2, <1>3, <2>1 DEF OneEntry, f
    <3>. QED
      BY <1>2, <3>1
  <2>2. CASE d # n
    BY <1>1, <1>2, <2>2 DEF Marked, n
  <2>. QED
    BY <2>1, <2>2
<1>9. Ages'
  <2>1. ASSUME NEW k \in 1..Len(timer), ~timer'[k].inprogress
        PROVE  timer'[k].age <= since'[timer'[k].cbk]
    <3>1. k # i /\ ~timer[k].inprogress /\ timer[k].cbk # f
      BY <1>1, <1>2, <2>1 DEF OneEntry, f
    <3>. QED
      BY <1>1, <1>2, <1>4, <3>1, Parts DEF Ages
  <2>2. ASSUME NEW d \in 1..n, stack'[d].cbk # "none"
        PROVE  stack'[d].age <= since'[stack'[d].cbk]
    <3>1. CASE d = n
      BY <1>2, <1>3, <1>4, <3>1
    <3>2. CASE d # n
      <4>1. /\ stack'[d] = stack[d] /\ stack[d].cbk # f /\ stack[d].cbk \in Timers
            /\ stack[d].age <= since[stack[d].cbk]
        BY <1>1, <1>2, <2>2, <3>2, Parts DEF Ages, n
      <4>. QED
        BY <1>4, <4>1
    <3>. QED
      BY <3>1, <3>2
  <2>. QED
    BY <1>2, <2>1, <2>2 DEF Ages
<1>10. InTable'
  <2>1. i <= Slots
    BY <1>1, <1>2, Parts DEF TypeOK
  <2>. QED
    BY <1>1, <1>2, <1>3, <2>1 DEF InTable, n
<1>11. GivenBack'
  <2>. SUFFICES ASSUME NEW k \in 1..Len(timer), timer'[k].inprogress, timer[k].cbk \notin stranded
                PROVE  \E d \in 1..n : stack'[d].cbk = timer[k].cbk /\ stack'[d].i = k
    <3>1. Len(timer') = Len(timer) /\ Len(stack') = n /\ stranded' = stranded
          /\ \A k \in 1..Len(timer) : timer'[k].cbk = timer[k].cbk
      BY <1>2
    <3>. QED
      BY <3>1, Zenon DEF GivenBack
  <2>1. CASE k = i
    BY <1>2, <2>1 DEF f
  <2>2. CASE k # i
    <3>1. PICK d \in 1..n : stack[d].cbk = timer[k].cbk /\ stack[d].i = k
      BY <1>1, <1>2, <2>2 DEF GivenBack, n
    <3>2. d # n
      BY <1>1, <1>2, <3>1, Parts DEF n
    <3>. QED
      BY <1>2, <3>1, <3>2
  <2>. QED
    BY <2>1, <2>2
<1>12. Stranded'
  <2>1. f \notin stranded
    BY <1>1, <1>2 DEF Stranded, OneEntry, f
  <2>2. ASSUME NEW g \in stranded
        PROVE  \E k \in 1..Len(timer) : timer'[k].cbk = g /\ timer'[k].inprogress
    <3>1. PICK k \in 1..Len(timer) : timer[k].cbk = g /\ timer[k].inprogress
      BY <1>1 DEF Stranded
    <3>2. timer'[k].cbk = g /\ timer'[k].inprogress
      BY <1>2, <3>1
    <3>. QED
      BY <3>2
  <2>3. ASSUME NEW k \in 1..Len(timer), NEW d \in 1..n,
               timer[k].cbk = stack'[d].cbk, timer[k].cbk \in stranded
        PROVE  k < stack'[d].i
    <3>1. d # n
      BY <1>2, <2>1, <2>3
    <3>. QED
      BY <1>1, <1>2, <2>3, <3>1 DEF Stranded, n
  <2>. QED
    BY <1>2, <2>2, <2>3 DEF Stranded
<1>. QED
  BY <1>5, <1>6, <1>7, <1>8, <1>9, <1>10, <1>11, <1>12 DEF IInv

LEMMA SkipStep ==
    ASSUME IInv, Skip
    PROVE  IInv'
<1>. DEFINE n == Len(stack)
            fr == [Top EXCEPT !.i = Top.i + 1]
<1>1. /\ TypeOK /\ OneEntry /\ NoReentrance /\ Marked /\ Ages /\ InTable
      /\ GivenBack /\ Stranded
  BY DEF IInv
<1>2. /\ stack # << >> /\ Top.cbk = "none" /\ Top.i <= Len(timer)
      /\ stack' = [stack EXCEPT ![n].i = @ + 1] /\ UNCHANGED <<timer, ticked, since, stranded>>
  BY DEF Skip
<1>3. Top \in Frames /\ Top = stack[n] /\ n \in 1..n /\ Top.i + 1 \in 1..(Slots + 1)
  <2>1. Top \in Frames /\ Top = stack[n] /\ n \in 1..n /\ Top.i \in 1..(Slots + 1)
    BY <1>1, <1>2, Parts
  <2>2. Len(timer) \in Nat /\ Len(timer) <= Slots
    BY <1>1, Parts DEF TypeOK
  <2>. QED
    BY <1>2, <2>1, <2>2
<1>4. fr \in Frames /\ fr.cbk = "none"
  BY <1>2, <1>3, NewIndex
<1>5. stack' = [stack EXCEPT ![n] = fr]
  BY <1>2, <1>3
<1>6. /\ stack' \in Seq(Frames) /\ Len(stack') = n
      /\ \A d \in 1..n : stack'[d] = IF d = n THEN fr ELSE stack[d]
  <2>. HIDE DEF fr
  <2>. QED
    BY <1>1, <1>2, <1>4, <1>5, TopFrame
<1>7. \A d \in 1..n : stack'[d] = stack[d] \/ (d = n /\ stack'[d].cbk = "none")
  BY <1>4, <1>6
<1>. HIDE DEF n
<1>8. TypeOK'
  BY <1>1, <1>2, <1>6 DEF TypeOK, n
<1>9. OneEntry' /\ InTable'
  BY <1>1, <1>2, <1>6, <1>7 DEF OneEntry, InTable, n
<1>10. NoReentrance'
  BY <1>1, <1>2, <1>3, <1>6, <1>7 DEF NoReentrance, n
<1>11. Marked'
  <2>1. \A k \in 1..Len(timer) : timer[k].cbk # "none"
    BY <1>1, Parts
  <2>. QED
    BY <1>1, <1>2, <1>6, <1>7, <2>1 DEF Marked, n
<1>12. Ages'
  BY <1>1, <1>2, <1>6, <1>7 DEF Ages, n
<1>13. GivenBack'
  <2>. SUFFICES ASSUME NEW k \in 1..Len(timer), timer[k].inprogress, timer[k].cbk \notin stranded
                PROVE  \E d \in 1..n : stack'[d].cbk = timer[k].cbk /\ stack'[d].i = k
    BY <1>2, <1>6 DEF GivenBack
  <2>1. PICK d \in 1..n : stack[d].cbk = timer[k].cbk /\ stack[d].i = k
    BY <1>1 DEF GivenBack, n
  <2>2. d # n
    BY <1>1, <1>2, <1>3, <2>1, Parts
  <2>. QED
    BY <1>6, <2>1, <2>2
<1>14. Stranded'
  <2>1. ASSUME NEW k \in 1..Len(timer), NEW d \in 1..n,
               timer[k].cbk = stack'[d].cbk, timer[k].cbk \in stranded
        PROVE  k < stack'[d].i
    <3>1. timer[k].cbk # "none"
      BY <1>1, Parts
    <3>2. stack'[d] = stack[d]
      BY <1>7, <2>1, <3>1
    <3>. QED
      BY <1>1, <2>1, <3>2 DEF Stranded, n
  <2>2. timer' = timer /\ stranded' = stranded /\ Len(stack') = n
    BY <1>2, <1>6
  <2>. QED
    BY <1>1, <2>1, <2>2 DEF Stranded
<1>. QED
  BY <1>8, <1>9, <1>10, <1>11, <1>12, <1>13, <1>14 DEF IInv

(* What the end of a callback does: at the place the walk remembers, if the   *)
(* entry there is still the callback's, it takes the mark away.               *)
LEMMA ReturnFacts ==
    ASSUME IInv, Return
    PROVE  /\ stack # << >> /\ Top = stack[Len(stack)] /\ Top.cbk \in Timers
           /\ Len(stack) \in 1..Len(stack)
           /\ Len(timer') = Len(timer) /\ timer' \in Seq(Entries)
           /\ \A k \in 1..Len(timer) :
                 LET ends == k = Top.i /\ timer[k].cbk = Top.cbk
                 IN  /\ timer'[k].cbk = timer[k].cbk
                     /\ timer'[k].inprogress = (~ends /\ timer[k].inprogress)
                     /\ timer'[k].age = IF ends THEN Top.age ELSE timer[k].age
           /\ Len(stack') = Len(stack) /\ stack' \in Seq(Frames)
           /\ \A d \in 1..Len(stack) : d # Len(stack) => stack'[d] = stack[d]
           /\ stack'[Len(stack)].cbk = "none"
           /\ UNCHANGED <<since, ticked, stranded>>
<1>. DEFINE i == Top.i
            f == Top.cbk
            fr == [[Top EXCEPT !.i = i + 1] EXCEPT !.cbk = "none"]
            Back(k) == [timer[k] EXCEPT !.inprogress = FALSE, !.age = Top.age]
<1>1. TypeOK /\ InTable
  BY DEF IInv
<1>2. /\ stack # << >> /\ f # "none" /\ UNCHANGED <<ticked, since, stranded>>
      /\ timer' = [k \in DOMAIN timer |-> IF k = i /\ timer[k].cbk = f THEN Back(k) ELSE timer[k]]
      /\ stack' = [stack EXCEPT ![Len(stack)].i = @ + 1, ![Len(stack)].cbk = "none"]
  BY DEF Return, InCallback
<1>3. Top \in Frames /\ Top = stack[Len(stack)] /\ Len(stack) \in 1..Len(stack)
  BY <1>1, <1>2, Parts
<1>4. f \in Timers /\ Top.age \in 0..MaxAge /\ i \in 1..(Slots + 1) /\ i <= Slots
  BY <1>1, <1>2, <1>3, Parts DEF InTable
<1>5. i + 1 \in 1..(Slots + 1)
  BY <1>4
<1>6. fr \in Frames /\ fr.cbk = "none"
  <2>. DEFINE mid == [Top EXCEPT !.i = i + 1]
  <2>1. mid \in Frames
    BY <1>3, <1>5, NewIndex
  <2>. HIDE DEF mid
  <2>2. fr = [mid EXCEPT !.cbk = "none"]
    BY DEF mid
  <2>. QED
    BY <2>1, <2>2, NewCbk
<1>7. stack' = [stack EXCEPT ![Len(stack)] = fr]
  <2>1. stack \in [1..Len(stack) -> Frames]
    BY <1>1, LenProperties DEF TypeOK
  <2>. QED
    BY <1>2, <1>3, <2>1
<1>8. /\ stack' \in Seq(Frames) /\ Len(stack') = Len(stack)
      /\ \A d \in 1..Len(stack) : stack'[d] = IF d = Len(stack) THEN fr ELSE stack[d]
  <2>. HIDE DEF fr
  <2>. QED
    BY <1>1, <1>2, <1>6, <1>7, TopFrame
<1>9. \A k \in 1..Len(timer) :
          /\ timer[k] \in Entries /\ Back(k) \in Entries
          /\ Back(k).cbk = timer[k].cbk /\ Back(k).age = Top.age /\ Back(k).inprogress = FALSE
  <2>. TAKE k \in 1..Len(timer)
  <2>1. timer[k] \in Entries
    BY <1>1, Parts
  <2>. QED
    BY <1>4, <2>1, Returned
<1>. HIDE DEF Back
<1>10. timer' = [k \in 1..Len(timer) |-> IF k = i /\ timer[k].cbk = f THEN Back(k) ELSE timer[k]]
  BY <1>1, <1>2, Parts
<1>11. timer' \in Seq(Entries) /\ Len(timer') = Len(timer)
  <2>1. timer' \in [1..Len(timer) -> Entries]
    BY <1>9, <1>10
  <2>. QED
    BY <1>1, <2>1, Parts, FunctionSeq
<1>12. ASSUME NEW k \in 1..Len(timer)
       PROVE  LET ends == k = Top.i /\ timer[k].cbk = Top.cbk
              IN  /\ timer'[k].cbk = timer[k].cbk
                  /\ timer'[k].inprogress = (~ends /\ timer[k].inprogress)
                  /\ timer'[k].age = IF ends THEN Top.age ELSE timer[k].age
  <2>1. timer[k].inprogress \in BOOLEAN
    BY <1>1, Parts
  <2>2. CASE k = i /\ timer[k].cbk = f
    <3>1. timer'[k] = Back(k)
      BY <1>10, <2>2
    <3>. QED
      BY <1>9, <2>2, <3>1
  <2>3. CASE ~(k = i /\ timer[k].cbk = f)
    <3>1. timer'[k] = timer[k]
      BY <1>10, <2>3
    <3>. QED
      BY <2>1, <2>3, <3>1
  <2>. QED
    BY <2>2, <2>3
<1>. QED
  BY <1>2, <1>3, <1>4, <1>6, <1>8, <1>11, <1>12

LEMMA ReturnStep ==
    ASSUME IInv, Return
    PROVE  IInv'
<1>. DEFINE n == Len(stack)
            Ends(k) == k = Top.i /\ timer[k].cbk = Top.cbk
<1>1. /\ TypeOK /\ OneEntry /\ NoReentrance /\ Marked /\ Ages /\ InTable
      /\ GivenBack /\ Stranded
  BY DEF IInv
<1>2. /\ Top = stack[n] /\ Top.cbk \in Timers /\ n \in 1..n
      /\ Len(timer') = Len(timer) /\ timer' \in Seq(Entries)
      /\ \A k \in 1..Len(timer) :
            /\ timer'[k].cbk = timer[k].cbk
            /\ timer'[k].inprogress = (~Ends(k) /\ timer[k].inprogress)
            /\ timer'[k].age = IF Ends(k) THEN Top.age ELSE timer[k].age
      /\ Len(stack') = n /\ stack' \in Seq(Frames)
      /\ \A d \in 1..n : d # n => stack'[d] = stack[d]
      /\ stack'[n].cbk = "none"
      /\ UNCHANGED <<since, ticked, stranded>>
  BY ReturnFacts
<1>. HIDE DEF n
<1>3. TypeOK'
  BY <1>1, <1>2 DEF TypeOK, n
<1>4. OneEntry'
  BY <1>1, <1>2 DEF OneEntry
<1>5. NoReentrance'
  BY <1>1, <1>2 DEF NoReentrance, n
<1>6. Marked'
  <2>. SUFFICES ASSUME NEW k \in 1..Len(timer), NEW d \in 1..n, timer[k].cbk = stack'[d].cbk
                PROVE  timer'[k].inprogress
    BY <1>2 DEF Marked
  <2>1. timer[k].cbk # "none"
    BY <1>1, Parts
  <2>2. d # n /\ stack'[d] = stack[d]
    BY <1>2, <2>1
  <2>3. timer[k].inprogress
    BY <1>1, <2>2 DEF Marked, n
  <2>4. stack[d].cbk # Top.cbk
    BY <1>1, <1>2, <2>1, <2>2 DEF NoReentrance, n
  <2>. QED
    BY <1>2, <2>2, <2>3, <2>4
<1>7. Ages'
  <2>1. ASSUME NEW k \in 1..Len(timer), ~timer'[k].inprogress
        PROVE  timer'[k].age <= since'[timer'[k].cbk]
    <3>1. CASE Ends(k)
      <4>1. Top.age <= since[Top.cbk]
        BY <1>1, <1>2 DEF Ages, n
      <4>. QED
        BY <1>2, <3>1, <4>1
    <3>2. CASE ~Ends(k)
      BY <1>1, <1>2, <2>1, <3>2 DEF Ages
    <3>. QED
      BY <3>1, <3>2
  <2>2. ASSUME NEW d \in 1..n, stack'[d].cbk # "none"
        PROVE  stack'[d].age <= since'[stack'[d].cbk]
    BY <1>1, <1>2, <2>2 DEF Ages, n
  <2>. QED
    BY <1>2, <2>1, <2>2 DEF Ages
<1>8. InTable'
  BY <1>1, <1>2 DEF InTable, n
<1>9. GivenBack'
  <2>. SUFFICES ASSUME NEW k \in 1..Len(timer), timer'[k].inprogress, timer[k].cbk \notin stranded
                PROVE  \E d \in 1..n : stack'[d].cbk = timer[k].cbk /\ stack'[d].i = k
    BY <1>2 DEF GivenBack
  <2>1. ~Ends(k) /\ timer[k].inprogress
    BY <1>2
  <2>2. PICK d \in 1..n : stack[d].cbk = timer[k].cbk /\ stack[d].i = k
    BY <1>1, <2>1 DEF GivenBack, n
  <2>3. d # n
    BY <1>2, <2>1, <2>2
  <2>. QED
    BY <1>2, <2>2, <2>3
<1>10. Stranded'
  <2>1. ASSUME NEW g \in stranded
        PROVE  \E k \in 1..Len(timer) : timer'[k].cbk = g /\ timer'[k].inprogress
    <3>1. PICK k \in 1..Len(timer) : timer[k].cbk = g /\ timer[k].inprogress
      BY <1>1 DEF Stranded
    <3>2. CASE Ends(k)
      <4>1. k < stack[n].i
        BY <1>1, <1>2, <3>1, <3>2 DEF Stranded, n
      <4>2. stack[n].i = k /\ k \in Nat
        BY <1>1, <1>2, <3>2, Parts
      <4>. QED
        BY <4>1, <4>2
    <3>3. CASE ~Ends(k)
      BY <1>2, <3>1, <3>3
    <3>. QED
      BY <3>2, <3>3
  <2>2. ASSUME NEW k \in 1..Len(timer), NEW d \in 1..n,
               timer[k].cbk = stack'[d].cbk, timer[k].cbk \in stranded
        PROVE  k < stack'[d].i
    <3>1. timer[k].cbk # "none"
      BY <1>1, Parts
    <3>2. d # n /\ stack'[d] = stack[d]
      BY <1>2, <2>2, <3>1
    <3>. QED
      BY <1>1, <2>2, <3>2 DEF Stranded, n
  <2>. QED
    BY <1>2, <2>1, <2>2 DEF Stranded
<1>. QED
  BY <1>3, <1>4, <1>5, <1>6, <1>7, <1>8, <1>9, <1>10 DEF IInv

(* The end of a walk takes its frame, which is in no callback, off the stack. *)
LEMMA LeaveFacts ==
    ASSUME TypeOK, Leave
    PROVE  /\ stack' \in Seq(Frames) /\ Len(stack) \in Nat \ {0}
           /\ Len(stack') = Len(stack) - 1
           /\ \A d \in 1..Len(stack') : d \in 1..Len(stack) /\ stack'[d] = stack[d]
           /\ stack[Len(stack)].cbk = "none"
           /\ ticked' = FALSE /\ UNCHANGED <<timer, since, stranded>>
<1>2. /\ stack # << >> /\ stack' = SubSeq(stack, 1, Len(stack) - 1)
      /\ stack[Len(stack)].cbk = "none"
      /\ ticked' = FALSE /\ UNCHANGED <<timer, since, stranded>>
  BY Parts DEF Leave, Front
<1>3. stack \in Seq(Frames) /\ Len(stack) \in Nat \ {0}
  BY <1>2, Parts DEF TypeOK
<1>4. /\ stack' \in Seq(Frames) /\ Len(stack') = Len(stack) - 1
      /\ \A d \in 1..Len(stack') : d \in 1..Len(stack) /\ stack'[d] = stack[d]
  <2>. DEFINE m == Len(stack) - 1
  <2>1. m \in Nat /\ \A d \in 1..m : d \in 1..Len(stack) /\ stack[d] \in Frames
    BY <1>3, Parts
  <2>2. /\ SubSeq(stack, 1, m) \in Seq(Frames)
        /\ Len(SubSeq(stack, 1, m)) = IF 1 <= m THEN m - 1 + 1 ELSE 0
        /\ \A d \in 1..(m - 1 + 1) : SubSeq(stack, 1, m)[d] = stack[1 + d - 1]
    <3>. HIDE DEF m
    <3>. QED
      BY <2>1, SubSeqProperties
  <2>3. Len(stack') = m
    <3>1. stack' = SubSeq(stack, 1, m)
      BY <1>2
    <3>. HIDE DEF m
    <3>2. (IF 1 <= m THEN m - 1 + 1 ELSE 0) = m
      BY <2>1
    <3>. QED
      BY <2>2, <3>1, <3>2
  <2>4. \A d \in 1..m : stack'[d] = stack[d]
    BY <1>2, <2>1, <2>2
  <2>. QED
    BY <1>2, <2>1, <2>2, <2>3, <2>4
<1>. QED
  BY <1>2, <1>3, <1>4

LEMMA LeaveStep ==
    ASSUME IInv, Leave
    PROVE  IInv'
<1>1. /\ TypeOK /\ OneEntry /\ NoReentrance /\ Marked /\ Ages /\ InTable
      /\ GivenBack /\ Stranded
  BY DEF IInv
<1>2. /\ stack' \in Seq(Frames) /\ Len(stack) \in Nat \ {0}
      /\ Len(stack') = Len(stack) - 1
      /\ \A d \in 1..Len(stack') : d \in 1..Len(stack) /\ stack'[d] = stack[d]
      /\ stack[Len(stack)].cbk = "none"
      /\ ticked' = FALSE /\ UNCHANGED <<timer, since, stranded>>
  BY <1>1, LeaveFacts
<1>5. TypeOK'
  <2>1. /\ timer \in Seq(Entries) /\ Len(timer) <= Slots /\ since \in [Timers -> 0..MaxAge]
        /\ stranded \subseteq Timers /\ Len(stack) <= MaxDepth /\ MaxDepth \in Nat
    BY <1>1 DEF TypeOK
  <2>2. Len(stack') <= MaxDepth
    BY <1>2, <2>1
  <2>. QED
    BY <1>2, <2>1, <2>2 DEF TypeOK
<1>6. OneEntry' /\ NoReentrance' /\ Marked' /\ Ages' /\ InTable'
  BY <1>1, <1>2 DEF OneEntry, NoReentrance, Marked, Ages, InTable
<1>7. GivenBack'
  <2>. SUFFICES ASSUME NEW k \in 1..Len(timer), timer[k].inprogress, timer[k].cbk \notin stranded
                PROVE  \E d \in 1..Len(stack') : stack'[d].cbk = timer[k].cbk /\ stack'[d].i = k
    BY <1>2 DEF GivenBack
  <2>1. PICK d \in 1..Len(stack) : stack[d].cbk = timer[k].cbk /\ stack[d].i = k
    BY <1>1 DEF GivenBack
  <2>2. stack[Len(stack)].cbk = "none" /\ timer[k].cbk # "none"
    BY <1>1, <1>2, Parts
  <2>3. d \in 1..Len(stack')
    BY <1>2, <2>1, <2>2
  <2>. QED
    BY <1>2, <2>1, <2>3
<1>8. Stranded'
  BY <1>1, <1>2 DEF Stranded
<1>. QED
  BY <1>5, <1>6, <1>7, <1>8 DEF IInv

-----------------------------------------------------------------------------
LEMMA NextInv ==
    ASSUME IInv, [Next]_vars
    PROVE  IInv'
<1>1. CASE UNCHANGED vars
  BY <1>1
  DEF vars, IInv, TypeOK, OneEntry, NoReentrance, Marked, Ages, InTable, GivenBack, Stranded
<1>2. CASE Next
  BY <1>2, TickStep, EnterStep, CallStep, SkipStep, LeaveStep, ReturnStep, TimerAddStep,
     TimerRemoveStep DEF Next, Walk
<1>. QED
  BY <1>1, <1>2

LEMMA Invariant == Spec => []IInv
<1>1. IInv /\ [Next]_vars => IInv'
  BY NextInv
<1>. QED
  BY <1>1, InitInv, PTL DEF Spec

(* Types: the table is not overrun, whoever adds and removes.                 *)
THEOREM TypeCorrect == Spec => []TypeOK
  BY Invariant, PTL DEF IInv

(* "To avoid reentrance" (timer.c:24), for every nesting, and whichever       *)
(* callbacks remove whichever timers.                                         *)
THEOREM NoReentranceCorrect == Spec => []NoReentrance
  BY Invariant, PTL DEF IInv

(* sys_timer_task: whoever removes whom, and in whichever walk, no mark gets  *)
(* to another entry, and the only marks that stay behind are those of timers  *)
(* whose entry was moved down while their callback ran.                       *)
THEOREM MarkIsRunningCorrect == Spec => []MarkIsRunning
<1>1. ASSUME IInv
      PROVE  MarkIsRunning
  <2>1. TypeOK /\ OneEntry /\ Marked /\ GivenBack /\ Stranded
    BY <1>1 DEF IInv
  <2>2. ASSUME NEW k \in 1..Len(timer)
        PROVE  timer[k].inprogress <=> timer[k].cbk \in Running \cup stranded
    <3>1. timer[k].cbk # "none" /\ timer[k].inprogress \in BOOLEAN
      BY <2>1, Parts
    <3>2. timer[k].cbk \in stranded => timer[k].inprogress
      BY <2>1 DEF Stranded, OneEntry
    <3>. QED
      BY <2>1, <3>1, <3>2 DEF Marked, GivenBack, Running
  <2>. QED
    BY <2>1, <2>2 DEF MarkIsRunning
<1>2. IInv => MarkIsRunning
  BY <1>1
<1>. QED
  BY <1>2, Invariant, PTL

(* Only the call of an entry brings a new callback onto the stack.            *)
LEMMA QuietSteps ==
    ASSUME TypeOK, [Next]_vars, ~Call, ~Return, NEW d \in 1..Len(stack')
    PROVE  stack'[d].cbk = "none" \/ \E e \in 1..Len(stack) : stack'[d].cbk = stack[e].cbk
<1>1. CASE stack' = stack
  BY <1>1
<1>2. CASE Tick
  <2>1. stack' = [e \in 1..Len(stack) |-> [stack[e] EXCEPT !.age = Older(stack[e].age)]]
    BY <1>2, Parts DEF Tick
  <2>2. Len(stack') = Len(stack)
    <3>1. stack' \in [1..Len(stack) -> Frames]
      BY <2>1, Parts, OlderType, NewAge
    <3>. QED
      BY <3>1, Parts, FunctionSeq
  <2>3. stack[d] \in Frames /\ Older(stack[d].age) \in 0..MaxAge
    BY <2>2, Parts, OlderType
  <2>4. stack'[d].cbk = stack[d].cbk
    BY <2>1, <2>2, <2>3, NewAge
  <2>. QED
    BY <2>2, <2>4
<1>3. CASE Enter
  <2>. DEFINE fr == [i |-> 1, cbk |-> "none", age |-> 0]
  <2>1. fr \in Frames /\ fr.cbk = "none"
    BY DEF Frames
  <2>2. stack' = Append(stack, fr)
    BY <1>3 DEF Enter
  <2>. HIDE DEF fr
  <2>3. /\ Len(stack') = Len(stack) + 1 /\ Len(stack) \in Nat /\ stack'[Len(stack) + 1] = fr
        /\ \A e \in 1..Len(stack) : stack'[e] = stack[e]
    BY <2>1, <2>2, AppendProperties, Parts DEF TypeOK
  <2>. QED
    BY <2>1, <2>3
<1>4. CASE Skip
  <2>. DEFINE n == Len(stack)
              fr == [Top EXCEPT !.i = Top.i + 1]
  <2>1. /\ stack # << >> /\ Top.cbk = "none" /\ Top.i <= Len(timer)
        /\ stack' = [stack EXCEPT ![n].i = @ + 1]
    BY <1>4 DEF Skip
  <2>2. Top \in Frames /\ Top = stack[n] /\ n \in 1..n /\ Top.i + 1 \in 1..(Slots + 1)
    <3>1. Top \in Frames /\ Top = stack[n] /\ n \in 1..n /\ Top.i \in 1..(Slots + 1)
      BY <2>1, Parts
    <3>2. Len(timer) \in Nat /\ Len(timer) <= Slots
      BY Parts DEF TypeOK
    <3>. QED
      BY <2>1, <3>1, <3>2
  <2>3. fr \in Frames /\ fr.cbk = "none"
    BY <2>1, <2>2, NewIndex
  <2>4. stack' = [stack EXCEPT ![n] = fr]
    BY <2>1, <2>2
  <2>. HIDE DEF fr
  <2>5. Len(stack') = n /\ \A e \in 1..n : stack'[e] = IF e = n THEN fr ELSE stack[e]
    BY <2>1, <2>3, <2>4, TopFrame
  <2>. QED
    BY <2>3, <2>5
<1>5. CASE Leave
  BY <1>5, LeaveFacts
<1>. QED
  BY <1>1, <1>2, <1>3, <1>4, <1>5 DEF Next, Walk, TimerAdd, TimerRemove, vars

(* A callback that was not on the stack is one that is called, when it is due. *)
LEMMA NotEarlyStep ==
    ASSUME IInv, [Next]_vars, NEW f \in Timers, f \in Running', f \notin Running
    PROVE  since[f] >= Interval[f]
<1>1. TypeOK /\ Ages
  BY DEF IInv
<1>2. PICK d \in 1..Len(stack') : stack'[d].cbk = f
  BY DEF Running
<1>3. \A e \in 1..Len(stack) : stack[e].cbk # f
  BY DEF Running
<1>4. CASE Call
  <2>. DEFINE i == Top.i
  <2>1. /\ i \in 1..Len(timer) /\ Len(stack') = Len(stack)
        /\ \A e \in 1..Len(stack) : e # Len(stack) => stack'[e] = stack[e]
        /\ stack'[Len(stack)].cbk = timer[i].cbk
        /\ ~timer[i].inprogress /\ Due(timer[i])
    BY <1>4, CallFacts
  <2>2. timer[i].cbk = f
    BY <1>2, <1>3, <2>1
  <2>3. timer[i].age <= since[f]
    BY <1>1, <2>1, <2>2 DEF Ages
  <2>4. /\ since[f] \in 0..MaxAge /\ timer[i].age \in 0..MaxAge /\ Interval[f] \in 0..MaxAge
        /\ Interval[f] = 0 \/ timer[i].age >= Interval[f]
    BY <1>1, <2>1, <2>2, Parts DEF Due
  <2>. QED
    BY <2>3, <2>4
<1>5. CASE Return
  <2>1. /\ Len(stack') = Len(stack) /\ stack'[Len(stack)].cbk = "none"
        /\ \A e \in 1..Len(stack) : e # Len(stack) => stack'[e] = stack[e]
    BY <1>5, ReturnFacts
  <2>. QED
    BY <1>2, <1>3, <2>1
<1>6. CASE ~Call /\ ~Return
  BY <1>1, <1>2, <1>3, <1>6, QuietSteps
<1>. QED
  BY <1>4, <1>5, <1>6

(* sys_timer_task: whoever removes and restarts timers, a callback is entered *)
(* only once its interval has passed since it was added or last called.       *)
THEOREM NeverEarlyCorrect == Spec => NeverEarly
<1>1. IInv /\ [Next]_vars
          => [\A f \in Timers : f \in Running' /\ f \notin Running => since[f] >= Interval[f]]_vars
  BY NotEarlyStep
<1>. QED
  BY <1>1, Invariant, PTL DEF Spec, NeverEarly

-----------------------------------------------------------------------------
(* The tasks of the main loop.                                                *)
USE BackgroundAssumption

BgFrames == [idx : 1..(TaskSlots + 1), func : Tasks \cup {"none"}]

(* A walk that is in a task remembers a slot of the list.                     *)
InList == \A d \in 1..Len(bg_stack) : bg_stack[d].func # "none" => bg_stack[d].idx <= TaskSlots

(* A function is in the list once, and a slot is flagged exactly if the task  *)
(* in it is suspended, where no removal has displaced it.                     *)
OneSlot == \A k, l \in 1..Len(bg_tasklist) : bg_tasklist[k] = bg_tasklist[l] => k = l
Flagged ==
    /\ suspended \subseteq Listed
    /\ \A k \in 1..Len(bg_tasklist) :
          bg_tasklist[k] \notin displaced => (bg_task_flag[k] <=> bg_tasklist[k] \in suspended)

-----------------------------------------------------------------------------
(* The types taken apart.                                                     *)
LEMMA BgParts ==
    ASSUME BgTypeOK
    PROVE  /\ Len(bg_tasklist) \in Nat /\ Len(bg_tasklist) <= TaskSlots
           /\ \A k \in 1..Len(bg_tasklist) : k \in 1..TaskSlots /\ bg_tasklist[k] \in Tasks
           /\ \A k \in 1..TaskSlots : bg_task_flag[k] \in BOOLEAN
           /\ bg_stack \in Seq(BgFrames) /\ Len(bg_stack) \in Nat /\ DOMAIN bg_stack = 1..Len(bg_stack)
           /\ Len(bg_stack) <= MaxNesting
           /\ \A d \in 1..Len(bg_stack) : bg_stack[d] \in BgFrames
           /\ bg_stack # << >> => Len(bg_stack) \in 1..Len(bg_stack) /\ BgTop = bg_stack[Len(bg_stack)]
<1>1. /\ bg_tasklist \in Seq(Tasks) /\ bg_stack \in Seq(BgFrames) /\ Len(bg_stack) <= MaxNesting
      /\ Len(bg_tasklist) <= TaskSlots /\ bg_task_flag \in [1..TaskSlots -> BOOLEAN]
  BY DEF BgTypeOK, BgFrames
<1>2. /\ Len(bg_tasklist) \in Nat
      /\ \A k \in 1..Len(bg_tasklist) : bg_tasklist[k] \in Tasks
  BY <1>1, LenProperties, ElementOfSeq
<1>3. /\ Len(bg_stack) \in Nat /\ DOMAIN bg_stack = 1..Len(bg_stack)
      /\ \A d \in 1..Len(bg_stack) : bg_stack[d] \in BgFrames
  BY <1>1, LenProperties, ElementOfSeq
<1>4. bg_stack # << >> => Len(bg_stack) \in 1..Len(bg_stack)
  BY <1>1, EmptySeq
<1>. QED
  BY <1>1, <1>2, <1>3, <1>4 DEF BgTop, Last

LEMMA BgInitInv == BgInit => BgTypeOK /\ InList /\ OneSlot /\ Flagged
<1>. SUFFICES ASSUME BgInit PROVE BgTypeOK /\ InList /\ OneSlot /\ Flagged
  OBVIOUS
<1>1. << >> \in Seq(Tasks) /\ << >> \in Seq(BgFrames) /\ Len(<< >>) = 0
  BY EmptySeq
<1>2. [k \in 1..TaskSlots |-> FALSE] \in [1..TaskSlots -> BOOLEAN]
  OBVIOUS
<1>3. \A k \in 1..TaskSlots : bg_task_flag[k] = FALSE
  BY DEF BgInit
<1>4. BgTypeOK
  BY <1>1, <1>2 DEF BgInit, BgTypeOK, BgFrames
<1>5. InList /\ OneSlot
  BY <1>1 DEF BgInit, InList, OneSlot
<1>6. Flagged
  BY <1>1, <1>3 DEF BgInit, Flagged
<1>. QED
  BY <1>4, <1>5, <1>6

-----------------------------------------------------------------------------
(* Steps of a walk: they change the bg_stack only.                               *)
LEMMA BgTopFrame ==
    ASSUME BgTypeOK, InList, bg_stack # << >>, NEW fr \in BgFrames,
           fr.func # "none" => fr.idx <= TaskSlots, bg_stack' = [bg_stack EXCEPT ![Len(bg_stack)] = fr]
    PROVE  /\ bg_stack' \in Seq(BgFrames) /\ Len(bg_stack') = Len(bg_stack)
           /\ \A d \in 1..Len(bg_stack') : bg_stack'[d].func # "none" => bg_stack'[d].idx <= TaskSlots
<1>1. bg_stack \in Seq(BgFrames) /\ Len(bg_stack) \in 1..Len(bg_stack)
  BY BgParts
<1>2. /\ bg_stack' \in Seq(BgFrames) /\ Len(bg_stack') = Len(bg_stack)
      /\ \A d \in 1..Len(bg_stack) : bg_stack'[d] = IF d = Len(bg_stack) THEN fr ELSE bg_stack[d]
  BY <1>1, ExceptSeq
<1>3. ASSUME NEW d \in 1..Len(bg_stack), bg_stack'[d].func # "none"
      PROVE  bg_stack'[d].idx <= TaskSlots
  <2>1. CASE d = Len(bg_stack)
    BY <1>2, <1>3, <2>1
  <2>2. CASE d # Len(bg_stack)
    BY <1>2, <1>3, <2>2 DEF InList
  <2>. QED
    BY <2>1, <2>2
<1>. QED
  BY <1>2, <1>3

LEMMA EnterStack ==
    ASSUME BgTypeOK, InList, BgEnter
    PROVE  /\ bg_stack' \in Seq(BgFrames) /\ Len(bg_stack') <= MaxNesting
           /\ \A d \in 1..Len(bg_stack') : bg_stack'[d].func # "none" => bg_stack'[d].idx <= TaskSlots
<1>. DEFINE fr == [idx |-> 1, func |-> "none"]
<1>1. fr \in BgFrames /\ fr.func = "none"
  BY DEF BgFrames
<1>2. bg_stack' = Append(bg_stack, fr) /\ Len(bg_stack) < MaxNesting
  BY DEF BgEnter
<1>. HIDE DEF fr
<1>3. /\ bg_stack' \in Seq(BgFrames) /\ Len(bg_stack') = Len(bg_stack) + 1 /\ Len(bg_stack) \in Nat
      /\ \A d \in 1..Len(bg_stack) : bg_stack'[d] = bg_stack[d]
      /\ bg_stack'[Len(bg_stack) + 1] = fr
  BY <1>1, <1>2, BgParts, AppendProperties
<1>. QED
  BY <1>1, <1>2, <1>3 DEF InList

LEMMA StepStack ==
    ASSUME BgTypeOK, InList, Step
    PROVE  /\ bg_stack' \in Seq(BgFrames) /\ Len(bg_stack') <= MaxNesting
           /\ \A d \in 1..Len(bg_stack') : bg_stack'[d].func # "none" => bg_stack'[d].idx <= TaskSlots
<1>. DEFINE next == BgTop.idx + 1
            on == [BgTop EXCEPT !.idx = next]
            in == [BgTop EXCEPT !.func = bg_tasklist[BgTop.idx]]
<1>1. /\ bg_stack # << >> /\ BgTop.func = "none" /\ BgTop.idx <= Len(bg_tasklist)
      /\ bg_stack' = IF bg_task_flag[BgTop.idx]
                  THEN [bg_stack EXCEPT ![Len(bg_stack)].idx = @ + 1]
                  ELSE [bg_stack EXCEPT ![Len(bg_stack)].func = bg_tasklist[BgTop.idx]]
  BY DEF Step
<1>2. /\ BgTop \in BgFrames /\ BgTop = bg_stack[Len(bg_stack)] /\ Len(bg_stack) \in 1..Len(bg_stack)
      /\ Len(bg_stack) <= MaxNesting
  BY <1>1, BgParts
<1>3. BgTop.idx \in 1..TaskSlots /\ bg_tasklist[BgTop.idx] \in Tasks
  <2>1. BgTop.idx \in 1..(TaskSlots + 1)
    BY <1>2 DEF BgFrames
  <2>. QED
    BY <1>1, <2>1, BgParts
<1>4. on \in BgFrames /\ on.func = "none"
  <2>1. next \in 1..(TaskSlots + 1)
    BY <1>3
  <2>. HIDE DEF next
  <2>. QED
    BY <1>1, <1>2, <2>1 DEF BgFrames
<1>5. in \in BgFrames /\ in.idx <= TaskSlots
  BY <1>2, <1>3 DEF BgFrames
<1>6. bg_stack' = [bg_stack EXCEPT ![Len(bg_stack)] = on] \/ bg_stack' = [bg_stack EXCEPT ![Len(bg_stack)] = in]
  BY <1>1, <1>2
<1>. HIDE DEF on, in
<1>. QED
  BY <1>1, <1>2, <1>4, <1>5, <1>6, BgTopFrame

LEMMA ReturnStack ==
    ASSUME BgTypeOK, InList, TaskReturns
    PROVE  /\ bg_stack' \in Seq(BgFrames) /\ Len(bg_stack') <= MaxNesting
           /\ \A d \in 1..Len(bg_stack') : bg_stack'[d].func # "none" => bg_stack'[d].idx <= TaskSlots
<1>. DEFINE next == BgTop.idx + 1
            mid == [BgTop EXCEPT !.idx = next]
            fr == [mid EXCEPT !.func = "none"]
<1>1. /\ bg_stack # << >> /\ BgTop.func # "none"
      /\ bg_stack' = [bg_stack EXCEPT ![Len(bg_stack)].idx = @ + 1, ![Len(bg_stack)].func = "none"]
  BY DEF TaskReturns, InTask
<1>2. /\ BgTop \in BgFrames /\ BgTop = bg_stack[Len(bg_stack)] /\ Len(bg_stack) \in 1..Len(bg_stack)
      /\ Len(bg_stack) <= MaxNesting
  BY <1>1, BgParts
<1>3. next \in 1..(TaskSlots + 1)
  <2>1. BgTop.idx \in 1..(TaskSlots + 1) /\ BgTop.idx <= TaskSlots
    BY <1>1, <1>2 DEF BgFrames, InList
  <2>. QED
    BY <2>1
<1>4. fr \in BgFrames /\ fr.func = "none"
  <2>. HIDE DEF next
  <2>1. mid \in BgFrames
    BY <1>2, <1>3 DEF BgFrames
  <2>. HIDE DEF mid
  <2>. QED
    BY <2>1 DEF BgFrames
<1>5. bg_stack' = [bg_stack EXCEPT ![Len(bg_stack)] = fr]
  <2>1. bg_stack \in [1..Len(bg_stack) -> BgFrames]
    BY BgParts, LenProperties
  <2>. QED
    BY <1>1, <1>2, <2>1
<1>. HIDE DEF fr
<1>. QED
  BY <1>1, <1>2, <1>4, <1>5, BgTopFrame

LEMMA LeaveStack ==
    ASSUME BgTypeOK, InList, BgLeave
    PROVE  /\ bg_stack' \in Seq(BgFrames) /\ Len(bg_stack') <= MaxNesting
           /\ \A d \in 1..Len(bg_stack') : bg_stack'[d].func # "none" => bg_stack'[d].idx <= TaskSlots
<1>. DEFINE m == Len(bg_stack) - 1
<1>1. bg_stack # << >> /\ bg_stack' = SubSeq(bg_stack, 1, m)
  BY DEF BgLeave, Front
<1>2. m \in Nat /\ m <= MaxNesting /\ \A d \in 1..m : d \in 1..Len(bg_stack) /\ bg_stack[d] \in BgFrames
  BY <1>1, BgParts
<1>. HIDE DEF m
<1>3. /\ SubSeq(bg_stack, 1, m) \in Seq(BgFrames)
      /\ Len(SubSeq(bg_stack, 1, m)) = IF 1 <= m THEN m - 1 + 1 ELSE 0
      /\ \A d \in 1..(m - 1 + 1) : SubSeq(bg_stack, 1, m)[d] = bg_stack[1 + d - 1]
  BY <1>2, SubSeqProperties
<1>4. (IF 1 <= m THEN m - 1 + 1 ELSE 0) = m /\ \A d \in 1..m : 1 + d - 1 = d
  BY <1>2
<1>5. bg_stack' \in Seq(BgFrames) /\ Len(bg_stack') = m /\ \A d \in 1..m : bg_stack'[d] = bg_stack[d]
  BY <1>1, <1>2, <1>3, <1>4
<1>. QED
  BY <1>2, <1>5 DEF InList

LEMMA WalkStep ==
    ASSUME BgTypeOK, InList, BgEnter \/ Step \/ TaskReturns \/ BgLeave
    PROVE  BgTypeOK' /\ InList' /\ UNCHANGED <<bg_tasklist, bg_task_flag, suspended, displaced>>
<1>1. UNCHANGED <<bg_tasklist, bg_task_flag, suspended, displaced>>
  BY DEF BgEnter, Step, TaskReturns, BgLeave
<1>2. /\ bg_stack' \in Seq(BgFrames) /\ Len(bg_stack') <= MaxNesting
      /\ \A d \in 1..Len(bg_stack') : bg_stack'[d].func # "none" => bg_stack'[d].idx <= TaskSlots
  BY EnterStack, StepStack, ReturnStack, LeaveStack
<1>. QED
  BY <1>1, <1>2 DEF BgTypeOK, InList, BgFrames

-----------------------------------------------------------------------------
(* Steps of the list: they leave the bg_stack alone.                             *)
LEMMA AddList ==
    ASSUME BgTypeOK, NEW f \in Tasks, TaskAdd(f)
    PROVE  LET n == Len(bg_tasklist)
           IN  /\ bg_tasklist' \in Seq(Tasks) /\ Len(bg_tasklist') = n + 1 /\ n < TaskSlots
               /\ \A k \in 1..n : bg_tasklist'[k] = bg_tasklist[k]
               /\ bg_tasklist'[n + 1] = f
               /\ \A k \in 1..n : bg_tasklist[k] # f
<1>1. bg_tasklist \in Seq(Tasks)
  BY DEF BgTypeOK
<1>2. f \notin Listed /\ Len(bg_tasklist) < TaskSlots /\ bg_tasklist' = Append(bg_tasklist, f)
  BY DEF TaskAdd
<1>. QED
  BY <1>1, <1>2, AppendProperties DEF Listed

LEMMA SlotOf ==
    ASSUME NEW f \in Listed
    PROVE  Slot(f) \in 1..Len(bg_tasklist) /\ bg_tasklist[Slot(f)] = f
BY DEF Slot, Listed

LEMMA RemoveList ==
    ASSUME BgTypeOK, NEW f \in Tasks, TaskRemove(f)
    PROVE  LET n == Len(bg_tasklist)
           IN  /\ bg_tasklist' \in Seq(Tasks) /\ Len(bg_tasklist') = n - 1 /\ n \in 1..TaskSlots
               /\ Slot(f) \in 1..n /\ bg_tasklist[Slot(f)] = f
               /\ \A k \in 1..(n - 1) :
                     bg_tasklist'[k] = bg_tasklist[IF k < Slot(f) THEN k ELSE k + 1]
<1>. DEFINE n == Len(bg_tasklist)
            new == [k \in 1..(n - 1) |->
                       IF k < Slot(f) THEN bg_tasklist[k] ELSE bg_tasklist[k + 1]]
<1>1. f \in Listed /\ bg_tasklist' = new
  BY DEF TaskRemove
<1>2. Slot(f) \in 1..n /\ bg_tasklist[Slot(f)] = f
  BY <1>1, SlotOf
<1>3. n \in 1..TaskSlots
  BY <1>2, BgParts
<1>4. new \in [1..(n - 1) -> Tasks]
  BY <1>3, BgParts
<1>5. new \in Seq(Tasks) /\ Len(new) = n - 1
  <2>1. n - 1 \in Nat
    BY <1>3
  <2>. HIDE DEF new, n
  <2>. QED
    BY <1>4, <2>1
<1>. QED
  BY <1>1, <1>2, <1>3, <1>5

LEMMA CommandStep ==
    ASSUME BgTypeOK, InList, NEW f \in Tasks,
           TaskAdd(f) \/ TaskSuspend(f) \/ TaskResume(f) \/ TaskRemove(f)
    PROVE  BgTypeOK' /\ InList'
<1>1. bg_stack' = bg_stack
  BY DEF TaskAdd, TaskSuspend, TaskResume, TaskRemove
<1>2. bg_tasklist' \in Seq(Tasks) /\ Len(bg_tasklist') <= TaskSlots
  <2>1. CASE TaskAdd(f)
    BY <2>1, AddList, BgParts
  <2>2. CASE TaskSuspend(f) \/ TaskResume(f)
    BY <2>2 DEF TaskSuspend, TaskResume, BgTypeOK
  <2>3. CASE TaskRemove(f)
    BY <2>3, RemoveList
  <2>. QED
    BY <2>1, <2>2, <2>3
<1>3. bg_task_flag' \in [1..TaskSlots -> BOOLEAN] /\ suspended' \subseteq Tasks
      /\ displaced' \subseteq Tasks
  <2>1. CASE TaskRemove(f)
    <3>1. Slot(f) \in Nat /\ \A k \in 1..Len(bg_tasklist) : bg_tasklist[k] \in Tasks
      BY <2>1, RemoveList, BgParts
    <3>2. \A k \in (Slot(f) + 1)..Len(bg_tasklist) : k \in 1..Len(bg_tasklist)
      BY <3>1, BgParts
    <3>3. Shifted(f) \subseteq Tasks
      BY <3>1, <3>2 DEF Shifted
    <3>. QED
      BY <2>1, <3>3 DEF TaskRemove, BgTypeOK
  <2>. QED
    BY <2>1 DEF TaskAdd, TaskSuspend, TaskResume, BgTypeOK
<1>. QED
  BY <1>1, <1>2, <1>3 DEF BgTypeOK, InList

LEMMA BgTypeInv == BgSpec => [](BgTypeOK /\ InList)
<1>1. ASSUME BgTypeOK, InList, [BgNext]_bgVars
      PROVE  BgTypeOK' /\ InList'
  <2>1. CASE UNCHANGED bgVars
    BY <1>1, <2>1 DEF bgVars, BgTypeOK, InList
  <2>2. CASE BgNext
    BY <1>1, <2>2, WalkStep, CommandStep DEF BgNext
  <2>. QED
    BY <1>1, <2>1, <2>2
<1>2. BgTypeOK /\ InList /\ [BgNext]_bgVars => (BgTypeOK /\ InList)'
  BY <1>1
<1>. QED
  BY <1>2, BgInitInv, PTL DEF BgSpec

(* Types: the list is not overrun by tasks that add and remove in any nesting *)
(* of walks.                                                                  *)
THEOREM BgTypeCorrect == BgSpec => []BgTypeOK
  BY BgTypeInv, PTL

-----------------------------------------------------------------------------
(* The flags.                                                                 *)
LEMMA AddFlags ==
    ASSUME BgTypeOK, OneSlot, Flagged, NEW f \in Tasks, TaskAdd(f)
    PROVE  OneSlot' /\ Flagged'
<1>. DEFINE n == Len(bg_tasklist)
<1>1. /\ n \in Nat /\ n < TaskSlots /\ Len(bg_tasklist') = n + 1
      /\ \A k \in 1..n : bg_tasklist'[k] = bg_tasklist[k] /\ bg_tasklist[k] # f
      /\ bg_tasklist'[n + 1] = f
      /\ f \notin Listed /\ UNCHANGED <<bg_task_flag, suspended>>
      /\ displaced' = IF bg_task_flag[n + 1] THEN displaced \cup {f} ELSE displaced
  BY AddList, BgParts DEF TaskAdd
<1>2. f \notin suspended
  BY <1>1 DEF Flagged
<1>3. OneSlot'
  BY <1>1 DEF OneSlot
<1>4. suspended' \subseteq Listed'
  BY <1>1 DEF Flagged, Listed
<1>5. ASSUME NEW k \in 1..(n + 1), bg_tasklist'[k] \notin displaced'
      PROVE  bg_task_flag'[k] <=> bg_tasklist'[k] \in suspended'
  <2>1. CASE k \in 1..n
    <3>1. bg_tasklist[k] \notin displaced
      BY <1>1, <1>5, <2>1
    <3>. QED
      BY <1>1, <2>1, <3>1 DEF Flagged
  <2>2. CASE k = n + 1
    BY <1>1, <1>2, <1>5, <2>2
  <2>. QED
    BY <1>1, <2>1, <2>2
<1>. QED
  BY <1>1, <1>3, <1>4, <1>5 DEF Flagged

LEMMA SuspendFlags ==
    ASSUME BgTypeOK, OneSlot, Flagged, NEW f \in Tasks, TaskSuspend(f) \/ TaskResume(f)
    PROVE  OneSlot' /\ Flagged'
<1>1. f \in Listed /\ bg_tasklist' = bg_tasklist /\ displaced' = displaced \ {f}
  BY DEF TaskSuspend, TaskResume
<1>2. /\ Slot(f) \in 1..Len(bg_tasklist) /\ Slot(f) \in 1..TaskSlots /\ bg_tasklist[Slot(f)] = f
      /\ bg_task_flag \in [1..TaskSlots -> BOOLEAN]
      /\ \A k \in 1..Len(bg_tasklist) : k \in 1..TaskSlots
  BY <1>1, SlotOf, BgParts DEF BgTypeOK
<1>3. \A k \in 1..Len(bg_tasklist) : bg_tasklist[k] = f <=> k = Slot(f)
  BY <1>2 DEF OneSlot
<1>4. OneSlot'
  BY <1>1 DEF OneSlot
<1>5. CASE TaskSuspend(f)
  <2>1. /\ bg_task_flag' = [bg_task_flag EXCEPT ![Slot(f)] = TRUE]
        /\ suspended' = suspended \cup {f}
    BY <1>5 DEF TaskSuspend
  <2>2. suspended' \subseteq Listed'
    BY <1>1, <2>1 DEF Flagged, Listed
  <2>3. \A k \in 1..Len(bg_tasklist) : bg_tasklist[k] \notin displaced' =>
            (bg_task_flag'[k] <=> bg_tasklist[k] \in suspended')
    BY <1>1, <1>2, <1>3, <2>1 DEF Flagged
  <2>. QED
    BY <1>1, <1>4, <2>2, <2>3 DEF Flagged
<1>6. CASE TaskResume(f)
  <2>1. /\ bg_task_flag' = [bg_task_flag EXCEPT ![Slot(f)] = FALSE]
        /\ suspended' = suspended \ {f}
    BY <1>6 DEF TaskResume
  <2>2. suspended' \subseteq Listed'
    BY <1>1, <2>1 DEF Flagged, Listed
  <2>3. \A k \in 1..Len(bg_tasklist) : bg_tasklist[k] \notin displaced' =>
            (bg_task_flag'[k] <=> bg_tasklist[k] \in suspended')
    BY <1>1, <1>2, <1>3, <2>1 DEF Flagged
  <2>. QED
    BY <1>1, <1>4, <2>2, <2>3 DEF Flagged
<1>. QED
  BY <1>5, <1>6

(* A task that moves keeps the value of its flag, or is displaced.            *)
LEMMA RemoveFlags ==
    ASSUME BgTypeOK, OneSlot, Flagged, NEW f \in Tasks, TaskRemove(f)
    PROVE  OneSlot' /\ Flagged'
<1>. DEFINE n == Len(bg_tasklist)
            s == Slot(f)
            From(k) == IF k < s THEN k ELSE k + 1
<1>1. /\ suspended' = suspended \ {f} /\ bg_task_flag' = bg_task_flag
      /\ displaced' = (displaced \cup Shifted(f)) \ {f}
  BY DEF TaskRemove
<1>2. /\ Len(bg_tasklist') = n - 1 /\ n \in 1..TaskSlots /\ s \in 1..n /\ bg_tasklist[s] = f
      /\ \A k \in 1..(n - 1) : bg_tasklist'[k] = bg_tasklist[From(k)]
  BY RemoveList
<1>3. \A k, l \in 1..(n - 1) : From(k) \in 1..n /\ From(k) # s /\ (From(k) = From(l) => k = l)
  BY <1>2
<1>4. \A k \in (s + 1)..n : bg_tasklist[k] \notin Shifted(f) => bg_task_flag[k - 1] = bg_task_flag[k]
  BY DEF Shifted
<1>5. /\ \A k, l \in 1..n : bg_tasklist[k] = bg_tasklist[l] => k = l
      /\ \A k \in 1..n : bg_tasklist[k] \notin displaced =>
            (bg_task_flag[k] <=> bg_tasklist[k] \in suspended)
      /\ \A g \in suspended : \E k \in 1..n : bg_tasklist[k] = g
  BY DEF OneSlot, Flagged, Listed
<1>. HIDE DEF n, s
<1>6. ASSUME NEW k \in 1..(n - 1), bg_tasklist'[k] \notin displaced'
      PROVE  bg_task_flag'[k] <=> bg_tasklist'[k] \in suspended'
  <2>. DEFINE l == From(k)
              g == bg_tasklist[l]
  <2>1. l \in 1..n /\ l # s /\ bg_tasklist'[k] = g
    BY <1>2, <1>3
  <2>2. g # f
    BY <1>2, <1>5, <2>1
  <2>3. g \notin displaced /\ g \notin Shifted(f)
    BY <1>1, <1>6, <2>1, <2>2
  <2>4. bg_task_flag[k] = bg_task_flag[l]
    <3>1. CASE k < s
      BY <3>1
    <3>2. CASE ~(k < s)
      <4>1. l = k + 1 /\ l \in (s + 1)..n /\ l - 1 = k
        BY <1>2, <3>2
      <4>. QED
        BY <1>4, <2>3, <4>1
    <3>. QED
      BY <3>1, <3>2
  <2>5. bg_task_flag[l] <=> g \in suspended
    BY <1>5, <2>1, <2>3
  <2>. HIDE DEF l, g
  <2>. QED
    BY <1>1, <2>1, <2>2, <2>4, <2>5
<1>7. OneSlot'
  <2>. HIDE DEF From
  <2>. QED
    BY <1>2, <1>3, <1>5 DEF OneSlot
<1>8. suspended' \subseteq Listed'
  <2>. SUFFICES ASSUME NEW g \in suspended, g # f
                PROVE  \E k \in 1..(n - 1) : bg_tasklist'[k] = g
    BY <1>1, <1>2 DEF Listed
  <2>1. PICK l \in 1..n : bg_tasklist[l] = g
    BY <1>5
  <2>2. l # s
    BY <1>2, <2>1
  <2>3. CASE l < s
    <3>1. l \in 1..(n - 1) /\ From(l) = l
      BY <1>2, <2>3
    <3>. QED
      BY <1>2, <2>1, <3>1
  <2>4. CASE l > s
    <3>1. l - 1 \in 1..(n - 1) /\ From(l - 1) = l
      BY <1>2, <2>4
    <3>. QED
      BY <1>2, <2>1, <3>1
  <2>. QED
    BY <1>2, <2>2, <2>3, <2>4
<1>. QED
  BY <1>2, <1>6, <1>7, <1>8 DEF Flagged

(* "Put task into suspend state" (background.c:94): for every list, whatever  *)
(* is added, removed, suspended and resumed in any order, the suspended tasks *)
(* and only they are held back, but for the tasks that a removal moved to     *)
(* another flag and those added to a slot that a removal left flagged.        *)
THEOREM SuspendFollowsTaskCorrect == BgSpec => []SuspendFollowsTask
<1>1. ASSUME BgTypeOK, InList, OneSlot, Flagged, [BgNext]_bgVars
      PROVE  OneSlot' /\ Flagged'
  <2>1. CASE UNCHANGED bgVars
    BY <1>1, <2>1 DEF bgVars, OneSlot, Flagged, Listed
  <2>2. CASE BgEnter \/ Step \/ TaskReturns \/ BgLeave
    <3>1. UNCHANGED <<bg_tasklist, bg_task_flag, suspended, displaced>>
      BY <1>1, <2>2, WalkStep
    <3>. QED
      BY <1>1, <3>1 DEF OneSlot, Flagged, Listed
  <2>3. CASE \E f \in Tasks : TaskAdd(f) \/ TaskSuspend(f) \/ TaskResume(f) \/ TaskRemove(f)
    BY <1>1, <2>3, AddFlags, SuspendFlags, RemoveFlags
  <2>. QED
    BY <1>1, <2>1, <2>2, <2>3 DEF BgNext
<1>2. (BgTypeOK /\ InList) /\ OneSlot /\ Flagged /\ [BgNext]_bgVars => (OneSlot /\ Flagged)'
  BY <1>1
<1>3. BgTypeOK /\ Flagged => SuspendFollowsTask
  BY DEF Flagged, SuspendFollowsTask
<1>. QED
  BY <1>2, <1>3, BgInitInv, BgTypeInv, PTL DEF BgSpec
=============================================================================
