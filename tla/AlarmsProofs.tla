----------------------------- MODULE AlarmsProofs -----------------------------
(***************************************************************************)
(* Every alarm is called by exactly the tick it asked for, and the list of *)
(* alarms keeps its shape, whatever the width of the tick counter, the     *)
(* number of alarms and the order in which they are started and stopped.   *)
(***************************************************************************)
EXTENDS Alarms, TLAPS

In(l) == {a \in Alarm : l.next[a] \notin {a, none}}
After(l, o, x) == IF x = head THEN In(l) ELSE {b \in In(l) : <<b, x>> \in o}

Links == [Node -> Node \union {none}]
Shape(l) == /\ l = [previous |-> l.previous, next |-> l.next]
            /\ l.next \in Links /\ l.previous \in Links

\* The order of starting is a strict total order of what is linked.
Order(S, o) ==
  /\ o \subseteq S \X S
  /\ \A a \in S : <<a, a>> \notin o
  /\ \A a, b, c \in S : <<a, b>> \in o /\ <<b, c>> \in o => <<a, c>> \in o
  /\ \A a, b \in S : a = b \/ <<a, b>> \in o \/ <<b, a>> \in o

\* The links are that order, the youngest first.
Chained(l, o) ==
  \A x \in In(l) \union {head} :
    /\ l.next[x] \in In(l) \union {head} /\ l.previous[x] \in In(l) \union {head}
    /\ l.previous[l.next[x]] = x /\ l.next[l.previous[x]] = x
    /\ l.next[x] = head => After(l, o, x) = {}
    /\ l.next[x] # head => /\ l.next[x] \in After(l, o, x)
                           /\ \A b \in After(l, o, x) : b = l.next[x] \/ <<b, l.next[x]>> \in o

\* What is not linked points at itself, or was never started.
Idle(l) == \A a \in Alarm \ In(l) : l.previous[a] = l.next[a]

ListOK(l, o) == Shape(l) /\ Order(In(l), o) /\ Chained(l, o) /\ Idle(l)

\* An insertion links one more.
LEMMA InsertIn ==
  ASSUME NEW l, NEW o, ListOK(l, o), NEW e \in Alarm, e \notin In(l)
  PROVE  /\ Shape(Insert(l, e))
         /\ In(Insert(l, e)) = In(l) \union {e}
<1>1. l.next[head] \in Node /\ l.next[head] # e /\ l.next[head] # none /\ head \in Node
  BY NodeAssumption DEF ListOK, Chained, Node, In
<1>2. Shape(Insert(l, e))
  BY <1>1 DEF Insert, Shape, ListOK, Links, Node
<1>3. \A a \in Alarm : Insert(l, e).next[a] = IF a = e THEN l.next[head] ELSE l.next[a]
  BY NodeAssumption DEF Insert, Shape, ListOK, Links, Node
<1>4. In(Insert(l, e)) = In(l) \union {e}
  BY <1>1, <1>3 DEF In
<1> QED BY <1>2, <1>4

\* The order that a new alarm, the youngest, makes.
With(l, o, e) == o \union {<<b, e>> : b \in In(l)}

LEMMA InsertList ==
  ASSUME NEW l, NEW o, ListOK(l, o), NEW e \in Alarm, e \notin In(l)
  PROVE  /\ ListOK(Insert(l, e), With(l, o, e))
         /\ \A x \in In(l) : After(Insert(l, e), With(l, o, e), x) = After(l, o, x)
<1> DEFINE m == Insert(l, e)
           p == With(l, o, e)
           S == In(l)
           first == l.next[head]
<1>0. head \notin Alarm /\ head \in Node /\ e \in Node /\ S \subseteq Alarm
  BY NodeAssumption DEF Node, In
<1>1. Shape(m) /\ In(m) = S \union {e}
  BY InsertIn
<1>2. first \in S \union {head} /\ first # e
  BY <1>0 DEF ListOK, Chained
<1>3. \A x \in Node : m.next[x] = IF x = head THEN e ELSE IF x = e THEN first ELSE l.next[x]
  BY <1>0 DEF Insert, ListOK, Shape, Links
<1>4. \A x \in Node : m.previous[x] = IF x = first THEN e ELSE IF x = e THEN head ELSE l.previous[x]
  BY <1>0, <1>2 DEF Insert, ListOK, Shape, Links
<1>5. \A a, b : <<a, b>> \in p <=> (<<a, b>> \in o \/ (b = e /\ a \in S))
  BY DEF With
<1>6. o \subseteq S \X S
  BY DEF ListOK, Order
<1>7. Order(S \union {e}, p)
  <2>1. p \subseteq (S \union {e}) \X (S \union {e})
    BY <1>6 DEF With
  <2>2. \A a \in S \union {e} : <<a, a>> \notin p
    BY <1>5, <1>6 DEF ListOK, Order
  <2>3. \A a, b, c \in S \union {e} : <<a, b>> \in p /\ <<b, c>> \in p => <<a, c>> \in p
    BY <1>5, <1>6 DEF ListOK, Order
  <2>4. \A a, b \in S \union {e} : a = b \/ <<a, b>> \in p \/ <<b, a>> \in p
    BY <1>5 DEF ListOK, Order
  <2> QED BY <2>1, <2>2, <2>3, <2>4 DEF Order
<1>8. \A x \in S : After(m, p, x) = After(l, o, x)
  <2> SUFFICES ASSUME NEW x \in S, NEW b PROVE b \in After(m, p, x) <=> b \in After(l, o, x)
    OBVIOUS
  <2>1. x # head /\ x # e
    BY <1>0
  <2> QED BY <2>1, <1>1, <1>5, <1>6 DEF After
<1>9. After(m, p, e) = S /\ After(m, p, head) = S \union {e}
  BY <1>0, <1>1, <1>5, <1>6 DEF After
<1>10. S \subseteq Node /\ \A x \in S \union {head} :
         /\ l.next[x] \in S \union {head} /\ l.previous[x] \in S \union {head}
         /\ l.previous[l.next[x]] = x /\ l.next[l.previous[x]] = x
  BY <1>0 DEF ListOK, Chained, Node
<1>11. Chained(m, p)
  <2> SUFFICES ASSUME NEW x \in S \union {e, head}
               PROVE  /\ m.next[x] \in S \union {e, head} /\ m.previous[x] \in S \union {e, head}
                      /\ m.previous[m.next[x]] = x /\ m.next[m.previous[x]] = x
                      /\ m.next[x] = head => After(m, p, x) = {}
                      /\ m.next[x] # head =>
                           /\ m.next[x] \in After(m, p, x)
                           /\ \A b \in After(m, p, x) : b = m.next[x] \/ <<b, m.next[x]>> \in p
    BY <1>1 DEF Chained
  <2>1. /\ m.next[x] \in S \union {e, head} /\ m.previous[x] \in S \union {e, head}
        /\ m.previous[m.next[x]] = x /\ m.next[m.previous[x]] = x
    BY <1>0, <1>2, <1>3, <1>4, <1>10
  <2>2. CASE x = head
    BY <2>1, <2>2, <1>0, <1>3, <1>5, <1>9
  <2>3. CASE x = e
    <3>1. m.next[x] = first /\ After(m, p, x) = After(l, o, head)
      BY <2>3, <1>0, <1>3, <1>9 DEF After
    <3>2. /\ first = head => After(l, o, head) = {}
          /\ first # head => /\ first \in After(l, o, head)
                             /\ \A b \in After(l, o, head) : b = first \/ <<b, first>> \in o
      BY <1>0 DEF ListOK, Chained
    <3> QED BY <2>1, <3>1, <3>2, <1>5
  <2>4. CASE x \in S
    <3>1. m.next[x] = l.next[x] /\ After(m, p, x) = After(l, o, x)
      BY <2>4, <1>0, <1>3, <1>8, <1>10
    <3>2. /\ l.next[x] = head => After(l, o, x) = {}
          /\ l.next[x] # head => /\ l.next[x] \in After(l, o, x)
                                 /\ \A b \in After(l, o, x) : b = l.next[x] \/ <<b, l.next[x]>> \in o
      BY <2>4 DEF ListOK, Chained
    <3> QED BY <2>1, <3>1, <3>2, <1>5
  <2> QED BY <2>2, <2>3, <2>4
<1>12. Idle(m)
  BY <1>0, <1>1, <1>2, <1>3, <1>4 DEF Idle, ListOK, Node
<1> QED BY <1>1, <1>7, <1>8, <1>11, <1>12 DEF ListOK

\* The order that is left without an alarm.
Without(o, e) == {q \in o : e # q[1] /\ e # q[2]}

LEMMA RemoveList ==
  ASSUME NEW l, NEW o, ListOK(l, o), NEW e \in Alarm, e \in In(l)
  PROVE  /\ ListOK(Remove(l, e), Without(o, e))
         /\ In(Remove(l, e)) = In(l) \ {e}
         /\ \A x \in In(l) \ {e} : After(Remove(l, e), Without(o, e), x) = After(l, o, x) \ {e}
<1> DEFINE m == Remove(l, e)
           p == Without(o, e)
           S == In(l)
           nx == l.next[e]
           pv == l.previous[e]
<1>0. head \notin Alarm /\ head \in Node /\ e \in Node /\ S \subseteq Alarm /\ S \subseteq Node
      /\ none \notin Node
  BY NodeAssumption DEF Node, In
<1>1. \A x \in S \union {head} :
         /\ l.next[x] \in S \union {head} /\ l.previous[x] \in S \union {head}
         /\ l.previous[l.next[x]] = x /\ l.next[l.previous[x]] = x
  BY DEF ListOK, Chained
<1>2. nx \in S \union {head} /\ pv \in S \union {head} /\ nx # e /\ pv # e
  BY <1>1 DEF In
<1>3. Shape(m)
  BY <1>0, <1>2 DEF Remove, ListOK, Shape, Links
<1>4. \A x \in Node : m.next[x] = IF x = e THEN e ELSE IF x = pv THEN nx ELSE l.next[x]
  BY <1>0, <1>2 DEF Remove, ListOK, Shape, Links
<1>5. \A x \in Node : m.previous[x] = IF x = e THEN e ELSE IF x = nx THEN pv ELSE l.previous[x]
  BY <1>0, <1>2 DEF Remove, ListOK, Shape, Links
<1>6. o \subseteq S \X S /\ \A a, b : <<a, b>> \in p <=> (<<a, b>> \in o /\ a # e /\ b # e)
  <2>1. o \subseteq S \X S
    BY DEF ListOK, Order
  <2> QED BY <2>1 DEF Without
<1>7. nx = pv => nx = head
  <2> SUFFICES ASSUME nx = pv, nx # head PROVE FALSE
    OBVIOUS
  <2>1. l.next[nx] = e /\ l.next[e] = nx /\ nx \in S
    BY <1>1, <1>2
  <2>2. e \in After(l, o, nx) /\ nx \in After(l, o, e)
    BY <2>1, <1>0 DEF ListOK, Chained
  <2>3. <<e, nx>> \in o /\ <<nx, e>> \in o
    BY <2>2, <1>0 DEF After
  <2> QED BY <2>1, <2>3 DEF ListOK, Order
<1>8. In(m) = S \ {e}
  <2> SUFFICES ASSUME NEW a \in Alarm
               PROVE  m.next[a] \notin {a, none} <=> (l.next[a] \notin {a, none} /\ a # e)
    BY DEF In
  <2>1. CASE a = e
    BY <2>1, <1>0, <1>4
  <2>2. CASE a # e /\ a = pv
    <3>1. a \in S /\ m.next[a] = nx /\ nx # none /\ nx # a
      BY <2>2, <1>0, <1>2, <1>4, <1>7
    <3> QED BY <3>1, <2>2 DEF In
  <2>3. CASE a # e /\ a # pv
    BY <2>3, <1>4 DEF Node
  <2> QED BY <2>1, <2>2, <2>3
<1>9. Order(S \ {e}, p)
  <2>1. p \subseteq (S \ {e}) \X (S \ {e})
    BY <1>6 DEF Without
  <2>2. \A a \in S \ {e} : <<a, a>> \notin p
    BY <1>6 DEF ListOK, Order
  <2>3. \A a, b, c \in S \ {e} : <<a, b>> \in p /\ <<b, c>> \in p => <<a, c>> \in p
    BY <1>6 DEF ListOK, Order
  <2>4. \A a, b \in S \ {e} : a = b \/ <<a, b>> \in p \/ <<b, a>> \in p
    BY <1>6 DEF ListOK, Order
  <2> QED BY <2>1, <2>2, <2>3, <2>4 DEF Order
<1>10. \A x \in (S \ {e}) \union {head} : After(m, p, x) = After(l, o, x) \ {e}
  <2> SUFFICES ASSUME NEW x \in (S \ {e}) \union {head}, NEW b
               PROVE  b \in After(m, p, x) <=> b \in After(l, o, x) /\ b # e
    OBVIOUS
  <2> QED BY <1>0, <1>6, <1>8 DEF After
<1>11. Chained(m, p)
  <2> SUFFICES ASSUME NEW x \in (S \ {e}) \union {head}
               PROVE  /\ m.next[x] \in (S \ {e}) \union {head}
                      /\ m.previous[x] \in (S \ {e}) \union {head}
                      /\ m.previous[m.next[x]] = x /\ m.next[m.previous[x]] = x
                      /\ m.next[x] = head => After(l, o, x) \ {e} = {}
                      /\ m.next[x] # head =>
                           /\ m.next[x] \in After(l, o, x) \ {e}
                           /\ \A b \in After(l, o, x) \ {e} :
                                b = m.next[x] \/ <<b, m.next[x]>> \in p
    BY <1>8, <1>10 DEF Chained
  <2>0. x # e /\ x \in Node
    BY <1>0
  <2>1. /\ m.next[x] \in (S \ {e}) \union {head}
        /\ m.previous[x] \in (S \ {e}) \union {head}
        /\ m.previous[m.next[x]] = x /\ m.next[m.previous[x]] = x
    BY <1>0, <1>1, <1>2, <1>4, <1>5, <2>0
  <2>2. /\ l.next[x] = head => After(l, o, x) = {}
        /\ l.next[x] # head => /\ l.next[x] \in After(l, o, x)
                               /\ \A b \in After(l, o, x) : b = l.next[x] \/ <<b, l.next[x]>> \in o
    BY DEF ListOK, Chained
  <2>3. CASE x = pv
    <3>1. l.next[x] = e /\ m.next[x] = nx
      BY <2>3, <2>0, <1>1, <1>4
    <3>2. /\ nx = head => After(l, o, e) = {}
          /\ nx # head => /\ nx \in After(l, o, e)
                          /\ \A b \in After(l, o, e) : b = nx \/ <<b, nx>> \in o
      BY DEF ListOK, Chained
    <3>3. e \in After(l, o, x) /\ \A b \in After(l, o, x) \ {e} : b \in After(l, o, e)
      BY <3>1, <2>2, <1>0, <1>6 DEF After
    <3>4. \A b \in After(l, o, e) : b \in After(l, o, x) /\ b # e
      <4> SUFFICES ASSUME NEW b \in After(l, o, e) PROVE b \in After(l, o, x) /\ b # e
        OBVIOUS
      <4>1. b \in S /\ <<b, e>> \in o
        BY <1>0 DEF After
      <4>2. b # e
        BY <4>1 DEF ListOK, Order
      <4>3. CASE x = head
        BY <4>1, <4>2, <4>3 DEF After
      <4>4. CASE x # head
        <5>1. <<e, x>> \in o /\ x \in S
          BY <4>4, <3>3 DEF After
        <5>2. <<b, x>> \in o
          BY <5>1, <4>1 DEF ListOK, Order
        <5> QED BY <5>2, <4>1, <4>2, <4>4 DEF After
      <4> QED BY <4>3, <4>4
    <3> QED BY <2>1, <3>1, <3>2, <3>3, <3>4, <1>2, <1>6
  <2>4. CASE x # pv
    <3>1. m.next[x] = l.next[x] /\ l.next[x] # e
      BY <2>4, <2>0, <1>1, <1>4
    <3> QED BY <2>1, <2>2, <3>1, <1>6
  <2> QED BY <2>3, <2>4
<1>12. Idle(m)
  <2> SUFFICES ASSUME NEW a \in Alarm \ (S \ {e}) PROVE m.previous[a] = m.next[a]
    BY <1>8 DEF Idle
  <2>1. a \in Node
    BY DEF Node
  <2>2. CASE a = e
    BY <2>2, <2>1, <1>4, <1>5
  <2>3. CASE a # e
    <3>1. a \notin S /\ a # nx /\ a # pv
      BY <2>3, <1>0, <1>2
    <3>2. l.previous[a] = l.next[a]
      BY <3>1 DEF ListOK, Idle
    <3> QED BY <3>1, <3>2, <2>1, <2>3, <1>4, <1>5
  <2> QED BY <2>2, <2>3
<1> QED BY <1>3, <1>8, <1>9, <1>10, <1>11, <1>12 DEF ListOK

\* To remove what is not linked changes nothing.
LEMMA RemoveIdle ==
  ASSUME NEW l, NEW o, ListOK(l, o), NEW e \in Alarm, e \notin In(l), l.next[e] # none
  PROVE  Remove(l, e) = l /\ Without(o, e) = o
<1>1. l.next[e] = e /\ l.previous[e] = e
  BY DEF ListOK, Idle, In
<1>2. Remove(l, e) = l
  BY <1>1 DEF Remove, ListOK, Shape, Links
<1>3. o \subseteq In(l) \X In(l)
  BY DEF ListOK, Order
<1> QED BY <1>2, <1>3 DEF Without
-----------------------------------------------------------------------------
(* The walk and the times.                                                 *)

\* The alarms that the walk of this tick has still to meet.
Pos == IF calling THEN next ELSE alarm
Pending == IF Pos = head THEN {} ELSE {Pos} \union Behind(Pos)

Walk ==
  /\ ~calling => alarm \in Linked \union {head}
  /\ calling => /\ alarm \in Alarm /\ llist.next[alarm] # none
                /\ next \in Linked \union {head}
                /\ alarm \notin Pending
  /\ calling /\ alarm \in Linked => left[alarm] = 0

\* The flag of an alarm that this tick has not met yet is one tick old.
InTime(a) ==
  /\ left[a] \in 0 .. W - 1
  /\ time[a] = (nticks + left[a]) % W
  /\ a \in Pending => (rollover[a] /\ nticks # 0 <=> nticks + left[a] >= W)
  /\ a \notin Pending => /\ rollover[a] <=> nticks + left[a] >= W
                         /\ left[a] >= 1 \/ (calling /\ a = alarm)

IInv == TypeOK /\ ListOK(llist, older) /\ Walk /\ \A a \in Linked : InTime(a)

\* A counter that wraps, k ticks on.
LEMMA Turn ==
  ASSUME NEW w \in Nat, w > 1, NEW n \in 0 .. w - 1, NEW k \in 0 .. w - 1
  PROVE  /\ (n + k) % w = IF n + k < w THEN n + k ELSE n + k - w
         /\ (n + k) % w \in 0 .. w - 1
<1>1. CASE n + k < w
  BY <1>1
<1>2. CASE n + k >= w
  <2>1. (n + k) % w = n + k - w
    BY <1>2
  <2> QED BY <1>2, <2>1
<1> QED BY <1>1, <1>2

\* One tick on: the counter has moved and what is left has shrunk by as much.
LEMMA TurnOne ==
  ASSUME NEW w \in Nat, w > 1, NEW n \in 0 .. w - 1, NEW k \in 1 .. w - 1,
         NEW n1, n1 = (n + 1) % w, NEW k1, k1 = k - 1
  PROVE  /\ n1 = IF n + 1 < w THEN n + 1 ELSE 0
         /\ n1 \in 0 .. w - 1
         /\ (n + k) % w = (n1 + k1) % w
<1>1. n1 = (IF n + 1 < w THEN n + 1 ELSE n + 1 - w)
  <2>1. 1 \in 0 .. w - 1
    OBVIOUS
  <2> QED BY <2>1, Turn
<1>2. n1 \in 0 .. w - 1 /\ k1 \in 0 .. w - 1 /\ k \in 0 .. w - 1
  BY <1>1
<1>3. (n + k) % w = IF n + k < w THEN n + k ELSE n + k - w
  BY <1>2, Turn
<1>4. (n1 + k1) % w = IF n1 + k1 < w THEN n1 + k1 ELSE n1 + k1 - w
  BY <1>2, Turn
<1> QED BY <1>1, <1>2, <1>3, <1>4

\* What a walk meets behind x is the next link and what is behind that.
LEMMA Ahead ==
  ASSUME NEW l, NEW o, ListOK(l, o), NEW x \in In(l) \union {head}
  PROVE  /\ l.next[x] \in In(l) \union {head}
         /\ l.next[x] = head => After(l, o, x) = {}
         /\ l.next[x] # head => After(l, o, x) = {l.next[x]} \union After(l, o, l.next[x])
         /\ x # head => x \notin After(l, o, x)
<1> DEFINE y == l.next[x]
<1>0. head \notin In(l)
  BY NodeAssumption DEF In
<1>1. /\ y \in In(l) \union {head}
      /\ y = head => After(l, o, x) = {}
      /\ y # head => /\ y \in After(l, o, x)
                     /\ \A b \in After(l, o, x) : b = y \/ <<b, y>> \in o
  BY DEF ListOK, Chained
<1>2. Order(In(l), o)
  BY DEF ListOK
<1>3. y # head => After(l, o, x) = {y} \union After(l, o, y)
  <2> SUFFICES ASSUME y # head, NEW b PROVE b \in After(l, o, x) <=> b = y \/ b \in After(l, o, y)
    OBVIOUS
  <2>1. y \in In(l) /\ y \in After(l, o, x) /\ After(l, o, y) = {c \in In(l) : <<c, y>> \in o}
    BY <1>1 DEF After
  <2>2. b \in After(l, o, x) => b = y \/ b \in After(l, o, y)
    BY <1>1, <2>1 DEF After
  <2>3. ASSUME b \in After(l, o, y) PROVE b \in After(l, o, x)
    <3>1. b \in In(l) /\ <<b, y>> \in o
      BY <2>1, <2>3
    <3>2. CASE x = head
      BY <3>1, <3>2 DEF After
    <3>3. CASE x # head
      <4>1. x \in In(l) /\ <<y, x>> \in o
        BY <3>3, <2>1 DEF After
      <4>2. <<b, x>> \in o
        BY <4>1, <3>1, <2>1, <1>2 DEF Order
      <4> QED BY <4>2, <3>1, <3>3 DEF After
    <3> QED BY <3>2, <3>3
  <2> QED BY <2>1, <2>2, <2>3
<1>4. x # head => x \notin After(l, o, x)
  BY <1>2 DEF After, Order
<1> QED BY <1>1, <1>3, <1>4

LEMMA Names == Linked = In(llist) /\ \A x : Behind(x) = After(llist, older, x)
  BY DEF Linked, In, Behind, After

\* An alarm that the walk is at is due by the tick it asked for.
LEMMA DueOnTime ==
  ASSUME IInv, Visiting
  PROVE  /\ alarm \in Linked /\ alarm \in Pending
         /\ Held <=> nticks + left[alarm] >= W
         /\ Due <=> left[alarm] = 0
<1>1. alarm \in Linked /\ alarm \in Pending
  BY DEF IInv, Walk, Visiting, Pending, Pos
<1>2. /\ left[alarm] \in 0 .. W - 1 /\ time[alarm] = (nticks + left[alarm]) % W
      /\ Held <=> nticks + left[alarm] >= W
  BY <1>1 DEF IInv, InTime, Held
<1>3. nticks \in 0 .. W - 1 /\ W \in Nat /\ W > 1
  BY DelayAssumption DEF IInv, TypeOK
<1>4. time[alarm] = IF nticks + left[alarm] < W THEN nticks + left[alarm] ELSE nticks + left[alarm] - W
  <2>1. \A n, k \in 0 .. W - 1 : (n + k) % W = IF n + k < W THEN n + k ELSE n + k - W
    BY <1>3, Turn
  <2> QED BY <1>2, <1>3, <2>1
<1> QED BY <1>1, <1>2, <1>3, <1>4 DEF Due
-----------------------------------------------------------------------------
LEMMA InitIInv == Init => IInv
<1> SUFFICES ASSUME Init PROVE IInv
  OBVIOUS
<1>1. head \notin Alarm /\ none # head /\ head \in Node
  BY NodeAssumption DEF Node
<1>2. /\ llist.next = [x \in Node |-> IF x = head THEN head ELSE none]
      /\ llist.previous = llist.next
      /\ llist = [next |-> llist.next, previous |-> llist.previous]
  BY DEF Init
<1>3. In(llist) = {}
  BY <1>1, <1>2 DEF In, Node
<1>4. TypeOK
  <2>1. llist \in [next : [Node -> Node \union {none}], previous : [Node -> Node \union {none}]]
    <3>1. llist.next \in [Node -> Node \union {none}]
      BY <1>1, <1>2
    <3> QED BY <1>2, <3>1
  <2>2. 0 \in 0 .. W - 1 /\ 0 \in -1 .. W - 1
    BY DelayAssumption
  <2> QED BY <1>1, <2>1, <2>2 DEF Init, TypeOK
<1>5. Shape(llist)
  BY <1>2 DEF Shape, Links, Node
<1>6. Order(In(llist), older)
  BY <1>3 DEF Order, Init
<1>7. Chained(llist, older)
  BY <1>1, <1>2, <1>3 DEF Chained, After
<1>8. Idle(llist)
  BY <1>2 DEF Idle
<1>9. Walk
  BY DEF Walk, Init
<1> QED BY <1>3, <1>4, <1>5, <1>6, <1>7, <1>8, <1>9, Names DEF IInv, ListOK

\* Starting an alarm keeps the list, the walk and every time.
LEMMA StartStep ==
  ASSUME IInv, NEW a \in Alarm, NEW n \in Delays \union {0}, Start(a, n)
  PROVE  IInv'
<1> DEFINE t == (n + nticks + 1) % W
<1>0. /\ W \in Nat /\ W > 1 /\ nticks \in 0 .. W - 1 /\ n + 1 \in 0 .. W - 1 /\ n \in Nat
      /\ a \notin Linked /\ a # alarm /\ a \in Node /\ a # head
  BY DelayAssumption, NodeAssumption DEF IInv, TypeOK, Start, Node
<1>1. t \in 0 .. W - 1 /\ t = (nticks + (n + 1)) % W /\ (Wraps(t) <=> nticks + (n + 1) >= W)
  <2>1. t = (nticks + (n + 1)) % W
    BY <1>0
  <2>2. t \in 0 .. W - 1 /\ t = IF nticks + (n + 1) < W THEN nticks + (n + 1) ELSE nticks + (n + 1) - W
    <3>1. \A i, k \in 0 .. W - 1 : /\ (i + k) % W = IF i + k < W THEN i + k ELSE i + k - W
                                   /\ (i + k) % W \in 0 .. W - 1
      BY <1>0, Turn
    <3> QED BY <3>1, <2>1, <1>0
  <2> QED BY <1>0, <2>1, <2>2 DEF Wraps
<1>2. /\ llist' = Insert(llist, a) /\ older' = With(llist, older, a)
      /\ time' = [time EXCEPT ![a] = t] /\ rollover' = [rollover EXCEPT ![a] = Wraps(t)]
      /\ left' = [left EXCEPT ![a] = n + 1]
      /\ UNCHANGED <<running, TO, nticks, alarm, next, calling>>
  BY Names DEF Start, With
<1>3. /\ ListOK(llist', older') /\ Linked' = Linked \union {a}
      /\ \A x \in Linked : Behind(x)' = Behind(x)
  <2>1. ListOK(llist, older) /\ a \notin In(llist)
    BY <1>0, Names DEF IInv
  <2>2. Linked' = In(llist') /\ \A x : Behind(x)' = After(llist', older', x)
    BY DEF Linked, In, Behind, After
  <2>3. In(llist') = In(llist) \union {a}
    BY <1>2, <2>1, InsertIn
  <2>4. /\ ListOK(llist', older')
        /\ \A x \in In(llist) : After(llist', older', x) = After(llist, older, x)
    BY <1>2, <2>1, InsertList
  <2> QED BY <2>2, <2>3, <2>4, Names
<1>4. Pending' = Pending /\ a \notin Pending /\ Pos \in Linked \union {head}
  <2>1. Pos' = Pos /\ Pos \in Linked \union {head}
    BY <1>2 DEF Pos, IInv, Walk
  <2>2. Pos # head => Behind(Pos)' = Behind(Pos)
    BY <1>3, <2>1
  <2>3. Behind(Pos) \subseteq Linked
    BY DEF Behind
  <2>4. Pos' # head => Behind(Pos') = Behind(Pos) /\ Behind(Pos)' = Behind(Pos)
    BY <2>1, <2>2
  <2>5. Pos # head => Pending' = {Pos} \union Behind(Pos)
    BY <2>1, <2>2 DEF Pending
  <2>6. Pos = head => Pending' = {}
    BY <2>1 DEF Pending
  <2> QED BY <1>0, <2>1, <2>3, <2>5, <2>6 DEF Pending
<1>5. TypeOK'
  <2>1. older' \subseteq Alarm \X Alarm
    BY <1>2 DEF IInv, TypeOK, With, In
  <2>2. llist' \in [next : [Node -> Node \union {none}], previous : [Node -> Node \union {none}]]
    BY <1>3 DEF ListOK, Shape, Links
  <2> QED BY <1>0, <1>1, <1>2, <2>1, <2>2 DEF IInv, TypeOK, Wraps
<1>6. Walk'
  <2>1. ~calling' => alarm' \in Linked' \union {head}
    BY <1>2, <1>3 DEF IInv, Walk
  <2>2. calling' => alarm' \in Alarm /\ next' \in Linked' \union {head} /\ alarm' \notin Pending'
    BY <1>2, <1>3, <1>4 DEF IInv, Walk
  <2>3. calling' => llist'.next[alarm'] # none
    <3> SUFFICES ASSUME calling PROVE llist'.next[alarm] # none
      BY <1>2
    <3>1. alarm \in Alarm /\ alarm \in Node /\ alarm # head /\ llist.next[alarm] # none
      BY NodeAssumption DEF IInv, Walk, Node
    <3>2. llist'.next[alarm] = llist.next[alarm]
      BY <1>0, <1>2, <3>1 DEF Insert, IInv, ListOK, Shape, Links
    <3> QED BY <3>1, <3>2
  <2>4. calling' /\ alarm' \in Linked' => left'[alarm'] = 0
    BY <1>0, <1>2, <1>3 DEF IInv, Walk, TypeOK
  <2> QED BY <2>1, <2>2, <2>3, <2>4 DEF Walk
<1>7. ASSUME NEW b \in Linked' PROVE InTime(b)'
  <2>1. CASE b = a
    <3>1. left'[a] = n + 1 /\ time'[a] = t /\ rollover'[a] = Wraps(t)
      BY <1>2 DEF IInv, TypeOK
    <3> QED BY <2>1, <3>1, <1>0, <1>1, <1>2, <1>4 DEF InTime
  <2>2. CASE b # a
    <3>1. left'[b] = left[b] /\ time'[b] = time[b] /\ rollover'[b] = rollover[b] /\ b \in Linked
      BY <2>2, <1>2, <1>3 DEF IInv, TypeOK
    <3>2. InTime(b)
      BY <3>1 DEF IInv
    <3> QED BY <3>1, <3>2, <1>2, <1>4 DEF InTime
  <2> QED BY <2>1, <2>2
<1> QED BY <1>3, <1>5, <1>6, <1>7 DEF IInv

\* An alarm that is taken off the list leaves the order of the others alone.
LEMMA Unlink ==
  ASSUME ListOK(llist, older), NEW a \in Alarm, llist.next[a] # none,
         llist' = Remove(llist, a), older' = Without(older, a)
  PROVE  /\ ListOK(llist', older') /\ Linked' = Linked \ {a}
         /\ \A x \in (Linked \ {a}) : Behind(x)' = Behind(x) \ {a}
<1>1. Linked' = In(llist') /\ \A x : Behind(x)' = After(llist', older', x)
  BY DEF Linked, In, Behind, After
<1>2. CASE a \in Linked
  BY <1>1, <1>2, RemoveList, Names
<1>3. CASE a \notin Linked
  <2>1. llist' = llist /\ older' = older
    BY <1>3, RemoveIdle, Names
  <2>2. \A x \in Linked : Behind(x) = Behind(x) \ {a}
    BY <1>3 DEF Behind
  <2> QED BY <1>1, <1>3, <2>1, <2>2, Names
<1> QED BY <1>2, <1>3

\* So does stopping one.
LEMMA StopStep ==
  ASSUME IInv, NEW a \in Alarm, Stop(a)
  PROVE  IInv'
<1>0. a \in Node /\ a # head /\ llist.next[a] # none /\ ListOK(llist, older)
  BY NodeAssumption DEF IInv, Stop, Node
<1>1. /\ llist' = Remove(llist, a) /\ older' = Without(older, a)
      /\ UNCHANGED <<running, TO, nticks, time, rollover, alarm, next, calling, left>>
  BY DEF Stop, Without
<1>2. /\ ListOK(llist', older') /\ Linked' = Linked \ {a}
      /\ \A x \in (Linked \ {a}) : Behind(x)' = Behind(x) \ {a}
  BY <1>0, <1>1, Unlink
<1>3. Pos' = Pos /\ Pos # a /\ Pos \in Linked \union {head}
  BY <1>0, <1>1 DEF Pos, IInv, Walk, Stop, Between
<1>4. Pending' = Pending \ {a}
  <2>1. Pos # head => Behind(Pos)' = Behind(Pos) \ {a}
    BY <1>2, <1>3
  <2>2. Pos # head => Pending' = {Pos} \union (Behind(Pos) \ {a})
    BY <1>3, <2>1 DEF Pending
  <2>3. Pos = head => Pending' = {}
    BY <1>3 DEF Pending
  <2> QED BY <1>3, <2>2, <2>3 DEF Pending
<1>5. TypeOK'
  <2>1. older' \subseteq Alarm \X Alarm
    BY <1>1 DEF IInv, TypeOK, Without
  <2>2. llist' \in [next : [Node -> Node \union {none}], previous : [Node -> Node \union {none}]]
    BY <1>2 DEF ListOK, Shape, Links
  <2> QED BY <1>1, <2>1, <2>2 DEF IInv, TypeOK
<1>6. Walk'
  <2>1. ~calling' => alarm' \in Linked' \union {head}
    BY <1>1, <1>2, <1>3 DEF IInv, Walk, Pos
  <2>2. calling' => alarm' \in Alarm /\ next' \in Linked' \union {head} /\ alarm' \notin Pending'
    BY <1>1, <1>2, <1>3, <1>4 DEF IInv, Walk, Pos
  <2>3. calling' => llist'.next[alarm'] # none
    <3> SUFFICES ASSUME calling PROVE llist'.next[alarm] # none
      BY <1>1
    <3>1. alarm \in Alarm /\ alarm \in Node /\ alarm # none /\ llist.next[alarm] # none
      BY NodeAssumption DEF IInv, Walk, Node
    <3>2. CASE a \in Linked
      <4>1. a # none /\ llist.next[a] \in Node /\ llist.next[a] # none /\ llist.previous[a] \in Node
        BY <3>2, <1>0, Names, NodeAssumption DEF ListOK, Chained, Node, In
      <4>2. llist'.next[alarm] = IF alarm = a THEN a ELSE IF alarm = llist.previous[a] THEN llist.next[a]
                                 ELSE llist.next[alarm]
        BY <1>0, <1>1, <3>1, <4>1 DEF Remove, ListOK, Shape, Links
      <4> QED BY <3>1, <4>1, <4>2
    <3>3. CASE a \notin Linked
      BY <1>0, <1>1, <3>1, <3>3, RemoveIdle, Names
    <3> QED BY <3>2, <3>3
  <2>4. calling' /\ alarm' \in Linked' => left'[alarm'] = 0
    BY <1>1, <1>2 DEF IInv, Walk
  <2> QED BY <2>1, <2>2, <2>3, <2>4 DEF Walk
<1>7. ASSUME NEW b \in Linked' PROVE InTime(b)'
  <2>1. b \in Linked /\ b # a /\ InTime(b)
    BY <1>2 DEF IInv
  <2> QED BY <2>1, <1>1, <1>4 DEF InTime
<1> QED BY <1>2, <1>5, <1>6, <1>7 DEF IInv

\* The tick counts every running alarm down, and the walk has all of them to
\* meet: none of them is late before.
LEMMA TickStep ==
  ASSUME IInv, Tick
  PROVE  IInv'
<1>0. /\ W \in Nat /\ W > 1 /\ nticks \in 0 .. W - 1 /\ alarm = head /\ ~calling
      /\ head \notin Alarm /\ ListOK(llist, older)
  BY DelayAssumption, NodeAssumption DEF IInv, TypeOK, Tick, Walk
<1>1. /\ nticks' = (nticks + 1) % W /\ alarm' = llist.next[head]
      /\ UNCHANGED <<running, time, rollover, llist, next, calling, older>> /\ TO' = FALSE
      /\ left' = [a \in Alarm |-> IF a \in Linked /\ left[a] >= 0 THEN left[a] - 1 ELSE left[a]]
  BY DEF Tick
<1>2. /\ nticks' \in 0 .. W - 1
      /\ nticks' = IF nticks + 1 < W THEN nticks + 1 ELSE 0
  <2>1. 1 \in 1 .. W - 1 /\ 0 = 1 - 1
    BY <1>0
  <2> QED BY <1>0, <1>1, <2>1, TurnOne
<1> DEFINE y == llist.next[head]
<1>3. /\ Linked' = Linked /\ Pos' = y /\ \A x : Behind(x)' = Behind(x)
      /\ Pending' = IF y = head THEN {} ELSE {y} \union Behind(y)
  <2>1. Pos' = y /\ Linked' = Linked
    BY <1>0, <1>1 DEF Linked, Pos
  <2> QED BY <1>1, <2>1 DEF Behind, Pending
<1>4. Pos' \in Linked \union {head} /\ Pending' = Linked
  <2>1. head \in In(llist) \union {head} /\ After(llist, older, head) = Linked
    BY Names DEF After
  <2>2. /\ y \in In(llist) \union {head}
        /\ y = head => Linked = {}
        /\ y # head => Linked = {y} \union After(llist, older, y)
    BY <1>0, <2>1, Ahead
  <2> QED BY <1>3, <2>2, Names
<1>5. \A a \in Linked : left[a] \in 1 .. W - 1 /\ left'[a] = left[a] - 1
  <2> SUFFICES ASSUME NEW a \in Linked PROVE left[a] \in 1 .. W - 1 /\ left'[a] = left[a] - 1
    OBVIOUS
  <2>1. Pending = {} /\ InTime(a) /\ a \in Alarm
    BY <1>0 DEF Pending, Pos, IInv, Linked
  <2> QED BY <2>1, <1>0, <1>1 DEF InTime
<1>6. TypeOK'
  <2>1. left' \in [Alarm -> -1 .. W - 1]
    <3> SUFFICES ASSUME NEW a \in Alarm
                 PROVE  (IF a \in Linked /\ left[a] >= 0 THEN left[a] - 1 ELSE left[a]) \in -1 .. W - 1
      BY <1>1
    <3>1. left[a] \in -1 .. W - 1
      BY DEF IInv, TypeOK
    <3> QED BY <3>1, <1>0
  <2>2. alarm' \in Node
    BY <1>1, <1>3, <1>4 DEF Node, Linked
  <2> QED BY <1>1, <1>2, <2>1, <2>2 DEF IInv, TypeOK
<1>7. Walk'
  BY <1>0, <1>1, <1>3, <1>4 DEF Walk
<1>8. ASSUME NEW a \in Linked' PROVE InTime(a)'
  <2>1. /\ a \in Linked /\ a \notin Pending /\ ~(calling /\ a = alarm) /\ a \in Pending'
        /\ InTime(a)
    BY <1>0, <1>3, <1>4 DEF IInv, Pending, Pos
  <2>2. left[a] \in 1 .. W - 1 /\ left'[a] = left[a] - 1
    BY <2>1, <1>5
  <2>3. time[a] = (nticks' + left'[a]) % W
    <3>1. (nticks + left[a]) % W = (nticks' + left'[a]) % W
      BY <1>0, <1>1, <2>2, TurnOne
    <3> QED BY <3>1, <2>1 DEF InTime
  <2>4. rollover[a] <=> nticks + left[a] >= W
    BY <2>1 DEF InTime
  <2>5. rollover[a] /\ nticks' # 0 <=> nticks' + left'[a] >= W
    BY <2>2, <2>4, <1>0, <1>2
  <2> QED BY <2>1, <2>2, <2>3, <2>5, <1>0, <1>1 DEF InTime
<1> QED BY <1>0, <1>1, <1>6, <1>7, <1>8 DEF IInv

\* Where the walk stands, and what is behind it.
LEMMA Stand ==
  ASSUME IInv, Visiting
  PROVE  LET y == llist.next[alarm]
         IN /\ y \in Linked \union {head}
            /\ Behind(alarm) = IF y = head THEN {} ELSE {y} \union Behind(y)
            /\ alarm \notin Behind(alarm)
            /\ Pending = {alarm} \union Behind(alarm)
<1>1. alarm \in In(llist) /\ alarm # head /\ ListOK(llist, older)
  BY Names, DueOnTime, NodeAssumption DEF IInv, Visiting
<1>2. /\ llist.next[alarm] \in Linked \union {head}
      /\ Behind(alarm) = IF llist.next[alarm] = head THEN {}
                         ELSE {llist.next[alarm]} \union Behind(llist.next[alarm])
      /\ alarm \notin Behind(alarm)
  BY <1>1, Ahead, Names
<1>3. Pending = {alarm} \union Behind(alarm)
  BY <1>1 DEF Pending, Pos, Visiting
<1> QED BY <1>2, <1>3

\* An alarm that is not due loses its flag by the tick that wraps.
LEMMA PassStep ==
  ASSUME IInv, Pass
  PROVE  IInv'
<1> DEFINE y == llist.next[alarm]
<1>0. Visiting /\ W \in Nat /\ W > 1 /\ nticks \in 0 .. W - 1 /\ ~calling /\ ~Due
  BY DelayAssumption DEF IInv, TypeOK, Pass, Visiting
<1>1. /\ rollover' = [rollover EXCEPT ![alarm] = Held] /\ alarm' = y
      /\ UNCHANGED <<running, TO, nticks, time, llist, next, calling, left, older>>
  BY DEF Pass
<1>2. /\ alarm \in Linked /\ alarm \in Alarm /\ alarm \in Pending
      /\ Held <=> nticks + left[alarm] >= W
      /\ left[alarm] # 0
  BY <1>0, DueOnTime DEF Linked
<1>3. /\ y \in Linked \union {head}
      /\ Pending' = Pending \ {alarm} /\ Linked' = Linked
  <2>1. Linked' = Linked /\ Pos' = y
    BY <1>0, <1>1 DEF Linked, Pos
  <2>2. Pending' = IF y = head THEN {} ELSE {y} \union Behind(y)
    BY <1>1, <2>1 DEF Pending, Behind
  <2> QED BY <2>1, <2>2, <1>0, Stand
<1>4. TypeOK'
  BY <1>1, <1>3 DEF IInv, TypeOK, Held, Node, Linked
<1>5. Walk'
  BY <1>0, <1>1, <1>3 DEF Walk
<1>6. ASSUME NEW a \in Linked' PROVE InTime(a)'
  <2>1. a \in Linked /\ a \in Alarm /\ InTime(a)
    BY <1>3 DEF IInv, Linked
  <2>2. CASE a = alarm
    <3>1. rollover'[a] = Held /\ a \notin Pending'
      BY <2>2, <1>1, <1>2, <1>3 DEF IInv, TypeOK
    <3>2. left[a] >= 1
      BY <2>1, <2>2, <1>2 DEF InTime
    <3>3. rollover'[a] <=> nticks + left[a] >= W
      BY <2>2, <3>1, <1>2
    <3> QED BY <3>1, <3>2, <3>3, <2>1, <1>1 DEF InTime
  <2>3. CASE a # alarm
    <3>1. rollover'[a] = rollover[a] /\ (a \in Pending' <=> a \in Pending)
      BY <2>1, <2>3, <1>1, <1>3 DEF IInv, TypeOK
    <3> QED BY <3>1, <2>1, <1>0, <1>1 DEF InTime
  <2> QED BY <2>2, <2>3
<1> QED BY <1>1, <1>4, <1>5, <1>6 DEF IInv

LEMMA CallStep ==
  ASSUME IInv, Call
  PROVE  IInv'
<1> DEFINE y == llist.next[alarm]
<1>0. Visiting /\ W \in Nat /\ W > 1 /\ nticks \in 0 .. W - 1 /\ ~calling /\ Due
  BY DelayAssumption DEF IInv, TypeOK, Call, Visiting
<1>1. /\ rollover' = [rollover EXCEPT ![alarm] = FALSE] /\ next' = y /\ calling' = TRUE
      /\ UNCHANGED <<running, TO, nticks, time, llist, alarm, left, older>>
  BY DEF Call
<1>2. /\ alarm \in Linked /\ alarm \in Alarm /\ alarm \in Pending
      /\ left[alarm] = 0
  BY <1>0, DueOnTime DEF Linked
<1>3. /\ y \in Linked \union {head}
      /\ Pending' = Pending \ {alarm} /\ Linked' = Linked
  <2>1. Linked' = Linked /\ Pos' = y
    BY <1>0, <1>1 DEF Linked, Pos
  <2>2. Pending' = IF y = head THEN {} ELSE {y} \union Behind(y)
    BY <1>1, <2>1 DEF Pending, Behind
  <2> QED BY <2>1, <2>2, <1>0, Stand
<1>4. TypeOK'
  BY <1>1, <1>3 DEF IInv, TypeOK, Node, Linked
<1>5. Walk'
  BY <1>1, <1>2, <1>3, NodeAssumption DEF Walk, Linked
<1>6. ASSUME NEW a \in Linked' PROVE InTime(a)'
  <2>1. a \in Linked /\ a \in Alarm /\ InTime(a)
    BY <1>3 DEF IInv, Linked
  <2>2. CASE a = alarm
    <3>1. rollover'[a] = FALSE /\ a \notin Pending'
      BY <2>2, <1>1, <1>2, <1>3 DEF IInv, TypeOK
    <3>2. ~(nticks + left[a] >= W)
      BY <2>2, <1>0, <1>2
    <3> QED BY <2>2, <3>1, <3>2, <2>1, <1>1 DEF InTime
  <2>3. CASE a # alarm
    <3>1. rollover'[a] = rollover[a] /\ (a \in Pending' <=> a \in Pending)
      BY <2>1, <2>3, <1>1, <1>3 DEF IInv, TypeOK
    <3> QED BY <3>1, <2>1, <1>0, <1>1 DEF InTime
  <2> QED BY <2>2, <2>3
<1> QED BY <1>1, <1>4, <1>5, <1>6 DEF IInv

\* A callback that asks for another call in p ticks.
LEMMA AgainStep ==
  ASSUME IInv, Return, NEW p \in Delays, Again(p)
  PROVE  IInv'
<1> DEFINE t == (time[alarm] + p) % W
<1>0. /\ W \in Nat /\ W > 1 /\ nticks \in 0 .. W - 1 /\ calling
      /\ alarm \in Alarm /\ alarm # head /\ alarm \notin Pending
      /\ next \in Linked \union {head} /\ p \in 1 .. W - 2
      /\ time[alarm] \in 0 .. W - 1 /\ rollover[alarm] \in BOOLEAN
  BY DelayAssumption, NodeAssumption DEF IInv, TypeOK, Return, Walk, Again
<1>1. /\ time' = [time EXCEPT ![alarm] = t]
      /\ rollover' = [rollover EXCEPT ![alarm] = rollover[alarm] \/ Wraps(t)]
      /\ left' = [left EXCEPT ![alarm] = p]
      /\ calling' = FALSE /\ alarm' = next /\ next' = head
      /\ UNCHANGED <<llist, older, running, TO, nticks>>
  BY DEF Return, Again
<1>2. /\ t \in 0 .. W - 1
      /\ t = IF time[alarm] + p < W THEN time[alarm] + p ELSE time[alarm] + p - W
  <2>1. p \in 0 .. W - 1
    BY <1>0
  <2> QED BY <1>0, <2>1, Turn
<1>3. Pending' = Pending /\ Linked' = Linked
  <2>1. Pos' = next /\ Pos = next /\ Linked' = Linked
    BY <1>0, <1>1 DEF Pos, Linked
  <2> QED BY <1>1, <2>1 DEF Pending, Behind
<1>4. TypeOK'
  <2>1. time' \in [Alarm -> 0 .. W - 1] /\ left' \in [Alarm -> -1 .. W - 1]
    BY <1>0, <1>1, <1>2 DEF IInv, TypeOK
  <2>2. rollover' \in [Alarm -> BOOLEAN]
    BY <1>0, <1>1 DEF IInv, TypeOK, Wraps
  <2>3. alarm' \in Node /\ next' \in Node
    BY <1>0, <1>1 DEF Node, Linked
  <2> QED BY <1>1, <2>1, <2>2, <2>3 DEF IInv, TypeOK
<1>5. Walk'
  BY <1>0, <1>1, <1>3 DEF Walk
<1>6. ASSUME NEW a \in Linked' PROVE InTime(a)'
  <2>1. a \in Linked /\ a \in Alarm /\ InTime(a)
    BY <1>3 DEF IInv, Linked
  <2>2. CASE a = alarm
    <3>1. left[a] = 0 /\ time[a] = (nticks + 0) % W
      BY <2>1, <2>2, <1>0 DEF IInv, Walk, InTime
    <3>2. rollover[a] = FALSE /\ time[a] = nticks
      <4>1. (nticks + 0) % W = nticks
        BY <1>0
      <4>2. ~(nticks + left[a] >= W)
        BY <3>1, <1>0
      <4> QED BY <3>1, <4>1, <4>2, <2>1, <2>2, <1>0 DEF InTime
    <3>3. time'[a] = (nticks + p) % W /\ left'[a] = p /\ (rollover'[a] <=> Wraps(t))
      BY <2>1, <2>2, <3>2, <1>1 DEF IInv, TypeOK
    <3>4. Wraps(t) <=> nticks + p >= W
      BY <2>2, <3>2, <1>0, <1>2 DEF Wraps
    <3>5. a \notin Pending' /\ p \in 0 .. W - 1 /\ p >= 1
      BY <2>2, <1>0, <1>3
    <3> QED BY <3>3, <3>4, <3>5, <1>1 DEF InTime
  <2>3. CASE a # alarm
    <3>1. rollover'[a] = rollover[a] /\ time'[a] = time[a] /\ left'[a] = left[a]
      BY <2>1, <2>3, <1>1 DEF IInv, TypeOK
    <3> QED BY <3>1, <2>1, <2>3, <1>1, <1>3 DEF InTime
  <2> QED BY <2>2, <2>3
<1> QED BY <1>1, <1>4, <1>5, <1>6 DEF IInv

\* A callback that asks for none.
LEMMA LastStep ==
  ASSUME IInv, Return, Last
  PROVE  IInv'
<1>0. /\ calling /\ alarm \in Alarm /\ llist.next[alarm] # none /\ alarm \notin Pending
      /\ next \in Linked \union {head} /\ ListOK(llist, older) /\ alarm # head
  BY NodeAssumption DEF IInv, Last, Walk
<1>1. /\ llist' = Remove(llist, alarm) /\ older' = Without(older, alarm)
      /\ calling' = FALSE /\ alarm' = next /\ next' = head
      /\ UNCHANGED <<time, rollover, left, running, TO, nticks>>
  BY DEF Return, Last, Without
<1>2. /\ ListOK(llist', older') /\ Linked' = Linked \ {alarm}
      /\ \A x \in (Linked \ {alarm}) : Behind(x)' = Behind(x) \ {alarm}
  BY <1>0, <1>1, Unlink
<1>3. Pos = next /\ Pos' = next /\ next # alarm
  BY <1>0, <1>1 DEF Pos, Pending
<1>4. Pending' = Pending
  <2>1. next # head => alarm \notin Behind(next)
    BY <1>0, <1>3 DEF Pending
  <2>2. next # head => {b \in Linked' : <<b, next>> \in older'} = Behind(next)
    <3> SUFFICES ASSUME next # head, NEW b
                 PROVE  (b \in Linked' /\ <<b, next>> \in older') <=> b \in Behind(next)
      OBVIOUS
    <3> QED BY <1>1, <1>2, <1>3, <2>1 DEF Behind, Without
  <2>3. Pending' = IF next = head THEN {} ELSE {next} \union {b \in Linked' : <<b, next>> \in older'}
    BY <1>1, <1>3 DEF Pending, Behind
  <2> QED BY <1>3, <2>2, <2>3 DEF Pending
<1>5. TypeOK'
  <2>1. older' \subseteq Alarm \X Alarm
    BY <1>1 DEF IInv, TypeOK, Without
  <2>2. llist' \in [next : [Node -> Node \union {none}], previous : [Node -> Node \union {none}]]
    BY <1>2 DEF ListOK, Shape, Links
  <2>3. alarm' \in Node /\ next' \in Node
    BY <1>0, <1>1 DEF Node, Linked
  <2> QED BY <1>1, <2>1, <2>2, <2>3 DEF IInv, TypeOK
<1>6. Walk'
  BY <1>0, <1>1, <1>2, <1>3 DEF Walk
<1>7. ASSUME NEW a \in Linked' PROVE InTime(a)'
  <2>1. a \in Linked /\ a # alarm /\ InTime(a)
    BY <1>2 DEF IInv
  <2> QED BY <2>1, <1>1, <1>4 DEF InTime
<1> QED BY <1>2, <1>5, <1>6, <1>7 DEF IInv
-----------------------------------------------------------------------------
LEMMA NextIInv == IInv /\ [Next]_vars => IInv'
<1> SUFFICES ASSUME IInv, [Next]_vars PROVE IInv'
  OBVIOUS
<1>1. ASSUME UNCHANGED <<nticks, time, rollover, llist, alarm, next, calling, left, older>>,
             running' \in BOOLEAN, TO' \in BOOLEAN
      PROVE  IInv'
  <2>1. TypeOK'
    BY <1>1 DEF IInv, TypeOK
  <2>2. ListOK(llist', older')
    BY <1>1 DEF IInv
  <2>3. Linked' = Linked /\ Pending' = Pending
    BY <1>1 DEF Linked, Pending, Pos, Behind
  <2>4. Walk'
    BY <1>1, <2>3 DEF IInv, Walk
  <2>5. \A a \in Linked' : InTime(a)'
    BY <1>1, <2>3 DEF IInv, InTime
  <2> QED BY <2>1, <2>2, <2>4, <2>5 DEF IInv
<1>2. CASE TimerInit \/ Elapse \/ UNCHANGED vars
  BY <1>1, <1>2 DEF TimerInit, Elapse, vars, IInv, TypeOK
<1>3. CASE Tick
  BY <1>3, TickStep
<1>4. CASE Pass \/ Call
  BY <1>4, PassStep, CallStep
<1>5. CASE Return
  BY <1>5, LastStep, AgainStep DEF Return
<1>6. ASSUME NEW a \in Alarm, Stop(a) PROVE IInv'
  BY <1>6, StopStep
<1>7. ASSUME NEW a \in Alarm, NEW n \in Delays \union {0}, Start(a, n) PROVE IInv'
  BY <1>7, StartStep
<1> QED BY <1>2, <1>3, <1>4, <1>5, <1>6, <1>7 DEF Next

\* What is proved below of every reachable state.
THEOREM Invariance == Spec => []IInv
<1> QED BY InitIInv, NextIInv, PTL DEF Spec

\* The variables keep their types: the saved link is always a node of the list,
\* and no alarm is ever late.
THEOREM TypeCorrect == Spec => []TypeOK
<1>1. IInv => TypeOK
  BY DEF IInv
<1> QED BY <1>1, Invariance, PTL

\* alt_llist.h: the list of alarms is the order in which they were started,
\* forwards and backwards, whatever is started and stopped inside a walk.
THEOREM ListCorrect == Spec => []ListSound
<1>1. IInv => ListSound
  <2> SUFFICES ASSUME IInv, NEW x \in Linked \union {head}
               PROVE  LET y == llist.next[x]
                      IN /\ llist.previous[y] = x
                         /\ IF Behind(x) = {} THEN y = head
                            ELSE y \in Behind(x) /\ Behind(x) = {y} \union Behind(y)
    BY DEF ListSound
  <2>1. ListOK(llist, older) /\ x \in In(llist) \union {head}
    BY Names DEF IInv
  <2>2. llist.previous[llist.next[x]] = x
    BY <2>1 DEF ListOK, Chained
  <2> QED BY <2>1, <2>2, Ahead, Names
<1> QED BY <1>1, Invariance, PTL

\* alt_tick.c:107-116 and alt_alarm_start.c:80-95: every alarm is called by the
\* tick it asked for, for every width of the counter and every number of alarms.
THEOREM CalledOnTime == Spec => []OnTime
<1>1. IInv => OnTime
  <2> SUFFICES ASSUME IInv PROVE OnTime
    OBVIOUS
  <2>1. Visiting => (Due <=> left[alarm] = 0)
    BY DueOnTime
  <2>2. ASSUME alarm = head, NEW a \in Linked PROVE left[a] > 0
    <3>1. ~calling /\ a \notin Pending /\ InTime(a)
      BY <2>2, NodeAssumption DEF IInv, Walk, Pending, Pos
    <3> QED BY <3>1 DEF InTime
  <2> QED BY <2>1, <2>2 DEF OnTime
<1> QED BY <1>1, Invariance, PTL
=============================================================================
