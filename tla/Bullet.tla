------------------------------- MODULE Bullet -------------------------------
(***************************************************************************)
(* The life of the bullets, bullet.sv: one instance per element of Bullets.*)
(* A bullet lives in two clock domains: launching and recalling is clocked *)
(* by VGA_VS (a frame edge), the lifetime counter by the clock divider (a  *)
(* timer edge); a reset level, high outside a round, parks the bullet      *)
(* asynchronously in both.  Its way through the arena is BulletFlight's.   *)
(***************************************************************************)
EXTENDS Naturals

CONSTANTS Bullets,      \* bullet1 .. bullet6
          Limit         \* timer edges counted before the recall: 4

ASSUME LimitAssumption == Limit \in Nat \ {0}

VARIABLES
  tempshot,     \* tempshot[b]: b is in flight (output shot)
  timer_ip,     \* b's lifetime is being counted
  counter,      \* timer edges counted, stops at Limit
  timer_done    \* b's lifetime is over

bulletVars == <<tempshot, timer_ip, counter, timer_done>>

None == [b \in Bullets |-> FALSE]
Zero == [b \in Bullets |-> 0]

BulletTypeOK == /\ tempshot \in [Bullets -> BOOLEAN]
                /\ timer_ip \in [Bullets -> BOOLEAN]
                /\ timer_done \in [Bullets -> BOOLEAN]
                /\ counter \in [Bullets -> 0 .. Limit]

BulletInit == /\ tempshot = None /\ timer_ip = None
              /\ counter = Zero /\ timer_done = None
-----------------------------------------------------------------------------
(* A frame edge, given the triggers: recalling wins over launching,        *)
(* launching over flying.                                                  *)

\* The lifetime is over: home, whatever else the inputs ask for.
Recalled(b, trigger) == timer_done[b]

Launches(b, trigger) == ~Recalled(b, trigger) /\ trigger[b] /\ ~tempshot[b]
Flies(b, trigger) == ~Recalled(b, trigger) /\ tempshot[b]

\* Fault: a recall leaves the timer running.
FaultTimerKeeps(b, trigger) == Launches(b, trigger) \/ Flies(b, trigger) \/ timer_ip[b]
\* Launching and flying keep the timer running, a recall stops it; a parked
\* bullet that is not triggered leaves it as it is.
TimerRuns(b, trigger) ==
  ~Recalled(b, trigger) /\ (Launches(b, trigger) \/ Flies(b, trigger) \/ timer_ip[b])

BulletFrame(trigger) ==
  /\ tempshot' = [b \in Bullets |-> Launches(b, trigger) \/ Flies(b, trigger)]
  /\ timer_ip' = [b \in Bullets |-> TimerRuns(b, trigger)]
  /\ UNCHANGED <<counter, timer_done>>
-----------------------------------------------------------------------------
\* The edge after the counter has stopped at Limit ends the lifetime.
Expires(b) == timer_ip[b] /\ counter[b] = Limit

\* Fault: the counter of a parked bullet keeps its count.
FaultCount(b) == IF counter[b] = Limit \/ ~timer_ip[b] THEN counter[b] ELSE counter[b] + 1
Count(b) == IF ~timer_ip[b] THEN 0
            ELSE IF counter[b] = Limit THEN Limit
            ELSE counter[b] + 1

\* A timer edge.
BulletTimer == /\ counter' = [b \in Bullets |-> Count(b)]
               /\ timer_done' = [b \in Bullets |-> Expires(b)]
               /\ UNCHANGED <<tempshot, timer_ip>>

\* The reset level is (or becomes) high: both always_ff blocks clear.
BulletParked == /\ tempshot' = None /\ timer_ip' = None
                /\ counter' = Zero /\ timer_done' = None
=============================================================================
