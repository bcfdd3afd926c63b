-------------------------------- MODULE Alarms --------------------------------
(***************************************************************************)
(* The system clock of the processor: a tick counter that wraps, and the   *)
(* alarms that hang on it in a doubly linked list (alt_tick, alt_alarm and *)
(* alt_llist of the HAL, and the interrupt routine of the timer).          *)
(*                                                                         *)
(* An alarm keeps the tick of its next call modulo W and a flag that says  *)
(* that the counter has to wrap first.  A tick walks the list with its     *)
(* interrupts off and calls what is due; a callback returns the ticks to   *)
(* its next call, or 0, and may start or stop another alarm.               *)
(***************************************************************************)
EXTENDS Integers

CONSTANTS Alarm,        \* the alt_alarm structures
          head,         \* alt_alarm_list
          none,         \* the links of a structure that was never started
          W,            \* 2^32: alt_u32 wraps
          Delays        \* bound: the periods that are asked for

ASSUME NodeAssumption == head \notin Alarm /\ none \notin Alarm \union {head}
\* One tick less than the counter holds: an alarm is started one tick late
\* on purpose, and the flag tells one turn of the counter only.
ASSUME DelayAssumption == W \in Nat /\ W > 1 /\ Delays \subseteq 1 .. W - 2

VARIABLES running,      \* _alt_tick_rate is set
          TO,           \* the time-out bit of the timer
          nticks,       \* _alt_nticks
          time, rollover,
          llist,        \* the links next and previous
          alarm,        \* where alt_tick stands in the list; head when it does not run
          next,         \* the link it saved before the call
          calling,      \* it is in the callback of alarm
          left,         \* observed only: the ticks until the call that was asked for; -1 when it is late
          older         \* observed only: which linked alarm was started before which

vars == <<running, TO, nticks, time, rollover, llist, alarm, next, calling, left, older>>

Node == Alarm \union {head}
Linked == {a \in Alarm : llist.next[a] \notin {a, none}}
-----------------------------------------------------------------------------
(* sys/alt_llist.h.                                                        *)

Insert(l, e) ==
  LET first == l.next[head]
  IN [previous |-> [l.previous EXCEPT ![e] = head, ![first] = e],
      next     |-> [l.next EXCEPT ![e] = first, ![head] = e]]

\* Fault: only the forward link is closed.
FaultRemove(l, e) ==
  [previous |-> [l.previous EXCEPT ![e] = e],
   next     |-> [l.next EXCEPT ![l.previous[e]] = l.next[e], ![e] = e]]
\* The element ends pointing at itself, so that removing it again is harmless.
Remove(l, e) ==
  LET n == [l.next EXCEPT ![l.previous[e]] = l.next[e]]
      p == [l.previous EXCEPT ![l.next[e]] = l.previous[e]]
  IN [previous |-> [p EXCEPT ![e] = e], next |-> [n EXCEPT ![e] = e]]
-----------------------------------------------------------------------------
Init == /\ running = FALSE /\ TO = FALSE /\ nticks = 0
        /\ time = [a \in Alarm |-> 0] /\ rollover = [a \in Alarm |-> FALSE]
        /\ llist = LET link == [x \in Node |-> IF x = head THEN head ELSE none]
                   IN [next |-> link, previous |-> link]
        /\ alarm = head /\ next = head /\ calling = FALSE
        /\ left = [a \in Alarm |-> 0] /\ older = {}

\* alt_avalon_timer_sc_init, alt_sysclk_init: from now on there is a clock.
TimerInit == /\ ~running /\ running' = TRUE
             /\ UNCHANGED <<TO, nticks, time, rollover, llist, alarm, next, calling, left, older>>

\* The timer runs freely; it has one bit for the ticks nobody has taken yet.
Elapse == /\ running /\ TO' = TRUE
          /\ UNCHANGED <<running, nticks, time, rollover, llist, alarm, next, calling, left, older>>

\* The program runs between two ticks, a callback inside one: interrupts are off.
Between == alarm = head \/ calling

\* Fault: the flag is set only where the counter stands well after t.
FaultWraps(t) == t + 1 < nticks
\* The counter has to wrap before it reaches t.
Wraps(t) == t < nticks

\* alt_alarm_start of an alarm that does not run: n ticks and the one under
\* way.  Without a clock it fails.  A callback does not start its own alarm.
Start(a, n) ==
  /\ Between /\ running
  /\ a \notin Linked /\ a # alarm
  /\ LET t == (n + nticks + 1) % W
     IN time' = [time EXCEPT ![a] = t] /\ rollover' = [rollover EXCEPT ![a] = Wraps(t)]
  /\ llist' = Insert(llist, a)
  /\ left' = [left EXCEPT ![a] = n + 1]
  /\ older' = older \union {<<b, a>> : b \in Linked}
  /\ UNCHANGED <<running, TO, nticks, alarm, next, calling>>

\* alt_alarm_stop of an alarm that was started once.  The caller's duty: a
\* callback never stops the alarm that the walk has saved as the next.
Stop(a) ==
  /\ Between
  /\ llist.next[a] # none
  /\ calling => a # next
  /\ llist' = Remove(llist, a)
  /\ older' = {p \in older : a # p[1] /\ a # p[2]}
  /\ UNCHANGED <<running, TO, nticks, time, rollover, alarm, next, calling, left>>

\* alt_avalon_timer_sc_irq acknowledges the timer and enters alt_tick.
Tick == /\ TO /\ alarm = head
        /\ TO' = FALSE
        /\ nticks' = (nticks + 1) % W
        /\ alarm' = llist.next[head]
        /\ left' = [a \in Alarm |-> IF a \in Linked /\ left[a] >= 0 THEN left[a] - 1 ELSE left[a]]
        /\ UNCHANGED <<running, time, rollover, llist, next, calling, older>>

\* Fault: the flag is never cleared.
FaultHeld == rollover[alarm]
\* The tick that wraps the counter clears the flag.
Held == rollover[alarm] /\ nticks # 0
Due == time[alarm] <= nticks /\ ~Held

Visiting == alarm # head /\ ~calling

Pass == /\ Visiting /\ ~Due
        /\ rollover' = [rollover EXCEPT ![alarm] = Held]
        /\ alarm' = llist.next[alarm]
        /\ UNCHANGED <<running, TO, nticks, time, llist, next, calling, left, older>>

Call == /\ Visiting /\ Due
        /\ rollover' = [rollover EXCEPT ![alarm] = FALSE]
        /\ next' = llist.next[alarm]
        /\ calling' = TRUE
        /\ UNCHANGED <<running, TO, nticks, time, llist, alarm, left, older>>

\* The callback asks for its next call in p ticks.
Again(p) == /\ calling
            /\ LET t == (time[alarm] + p) % W
               IN /\ time' = [time EXCEPT ![alarm] = t]
                  /\ rollover' = [rollover EXCEPT ![alarm] = rollover[alarm] \/ Wraps(t)]
            /\ left' = [left EXCEPT ![alarm] = p]
            /\ UNCHANGED <<llist, older>>

\* It returns 0: the alarm is stopped.
Last == /\ calling
        /\ llist' = Remove(llist, alarm)
        /\ older' = {p \in older : alarm # p[1] /\ alarm # p[2]}
        /\ UNCHANGED <<time, rollover, left>>

Return == /\ Last \/ \E p \in Delays : Again(p)
          /\ calling' = FALSE
          /\ alarm' = next /\ next' = head
          /\ UNCHANGED <<running, TO, nticks>>

Next == \/ TimerInit \/ Elapse \/ Tick \/ Pass \/ Call \/ Return
        \/ \E a \in Alarm : Stop(a) \/ \E n \in Delays \union {0} : Start(a, n)

\* The timer runs, its interrupt is taken, and callbacks return.
Fairness == WF_vars(TimerInit) /\ WF_vars(Elapse) /\ WF_vars(Tick) /\ WF_vars(Pass \/ Call)
            /\ WF_vars(Return)

Spec == Init /\ [][Next]_vars /\ Fairness
-----------------------------------------------------------------------------
TypeOK ==
  /\ running \in BOOLEAN /\ TO \in BOOLEAN /\ nticks \in 0 .. W - 1
  /\ time \in [Alarm -> 0 .. W - 1] /\ rollover \in [Alarm -> BOOLEAN]
  /\ llist \in [next : [Node -> Node \union {none}], previous : [Node -> Node \union {none}]]
  /\ alarm \in Node /\ next \in Node /\ calling \in BOOLEAN
  /\ left \in [Alarm -> -1 .. W - 1]
  /\ older \subseteq Alarm \X Alarm

\* The links are the order in which the alarms were started, the last one
\* first, and nothing else: each points to the youngest of those started
\* before it, and back to the one that points to it.  So a walk meets every
\* running alarm once and comes to the head again, whatever callbacks start
\* and stop on its way.
Behind(x) == IF x = head THEN Linked ELSE {b \in Linked : <<b, x>> \in older}
ListSound ==
  \A x \in Linked \union {head} :
    LET y == llist.next[x]
    IN /\ llist.previous[y] = x
       /\ IF Behind(x) = {} THEN y = head
          ELSE y \in Behind(x) /\ Behind(x) = {y} \union Behind(y)

\* Every alarm is called by exactly the tick that was asked for, not earlier
\* and not later, across the wrap of the counter, which loses the carry of
\* the sum the alarm keeps (alt_tick.c:107-116, alt_alarm_start.c:80-95).
OnTime ==
  /\ Visiting => (Due <=> left[alarm] = 0)
  /\ alarm = head => \A a \in Linked : left[a] > 0

\* An alarm that is running is called in the end, unless it is stopped.
AlarmsGoOff ==
  \A a \in Alarm : a \in Linked ~> a \notin Linked \/ (calling /\ alarm = a)
=============================================================================
