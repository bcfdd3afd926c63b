-------------------------- MODULE TransfersProofs --------------------------
(***************************************************************************)
(* Proofs about Transfers, for any keys, ports, limits, time-out and range *)
(* of the clock: a chip that works is never given up, every report reaches *)
(* the program once and in order, and a key that stays down stays visible  *)
(* in the ports while they are rewritten.                                  *)
(***************************************************************************)
EXTENDS Transfers, SequenceTheorems, TLAPS

\* Why a working chip is in time: since the poll the clock has gone on by a
\* millisecond for each transaction, and by one more before the first.
Launched == nak_count + retry_count + (IF pc = "launch" THEN 0 ELSE 1)
InTime == Dispatching => 
            /\ USB_XFER_TIMEOUT <= deadline
            /\ (pc = "wait" => alive \/ HXFRDN)
                 => reading + USB_XFER_TIMEOUT <= deadline + Launched + (IF ticked THEN 1 ELSE 0)

\* What the chip holds, and when: a report in its buffer is exactly what puts
\* its toggle ahead of the one that is saved.
ChipInv == /\ alive /\ busy => pc = "wait" /\ ~HXFRDN
           /\ HXFRDN => pc = "wait"
           /\ RCVDAV => HRSL = "SUCCESS" /\ (pc = "result" \/ HXFRDN)
           /\ RCVDAV <=> rtog # rcvToggle

\* From one report to the next no key moves back.
Forward(r, s) == \A j \in 1 .. Len(r), i \in 1 .. Len(s) : s[i] = r[j] => i <= j

\* The reports from the one the program has to the keys that are down, each
\* the next one's predecessor; the front of the queue is the newest one that
\* was received when the toggles differ.
Newest == IF RCVDAV THEN fifo ELSE kbdbuf
ChainInv == /\ RCVDAV => Forward(kbdbuf, fifo)
            /\ dtog # rtog => queue # <<>> /\ queue[1] = Newest
            /\ dtog = rtog => IF queue = <<>> THEN Newest = keys ELSE Forward(Newest, queue[1])
            /\ \A i \in 1 .. Len(queue) - 1 : Forward(queue[i], queue[i + 1])
            /\ queue # <<>> => queue[Len(queue)] = keys

\* The ports show the report, those not written yet the one before it.
PortsInv == /\ pc # "ports" => slot = 1
            /\ \A j \in Slot :
                 IF pc # "ports" \/ j < slot THEN port[j] = Code(kbdbuf, j)
                 ELSE \A i \in 1 .. Len(kbdbuf) : kbdbuf[i] = port[j] => i <= j

IInv == TypeOK /\ WorkingChipIsKept /\ InTime /\ ChipInv /\ ChainInv /\ PortsInv
-----------------------------------------------------------------------------
(* Sequences and reports.                                                  *)

LEMMA Bounded ==
  ASSUME NEW S, NEW n \in Nat, NEW s
  PROVE  s \in BoundedSeq(S, n) <=> s \in Seq(S) /\ Len(s) <= n
<1>1. ASSUME s \in BoundedSeq(S, n) PROVE s \in Seq(S) /\ Len(s) <= n
  <2>1. PICK m \in 0 .. n : s \in [1 .. m -> S]
    BY <1>1 DEF BoundedSeq, SeqOf
  <2>2. m \in Nat /\ m <= n
    BY <2>1
  <2>3. s \in Seq(S)
    BY <2>1, <2>2, SeqDef
  <2>4. Len(s) = m
    BY <2>1, <2>2, <2>3
  <2> QED BY <2>2, <2>3, <2>4
<1>2. ASSUME s \in Seq(S), Len(s) <= n PROVE s \in BoundedSeq(S, n)
  <2>1. Len(s) \in 0 .. n /\ s \in [1 .. Len(s) -> S]
    BY <1>2
  <2> QED BY <2>1 DEF BoundedSeq, SeqOf
<1> QED BY <1>1, <1>2

LEMMA ReportIs ==
  ASSUME NEW r
  PROVE  r \in Report <=> /\ r \in Seq(Key) /\ Len(r) <= Slots
                          /\ \A i, j \in 1 .. Len(r) : r[i] = r[j] => i = j
<1>1. r \in Report <=> r \in BoundedSeq(Key, Slots) /\ IsInjective(r)
  BY DEF Report
<1>2. r \in BoundedSeq(Key, Slots) <=> r \in Seq(Key) /\ Len(r) <= Slots
  BY Bounded, SizeAssumption
<1>3. ASSUME r \in Seq(Key)
      PROVE  IsInjective(r) <=> \A i, j \in 1 .. Len(r) : r[i] = r[j] => i = j
  <2>1. DOMAIN r = 1 .. Len(r)
    BY <1>3
  <2> QED BY <2>1 DEF IsInjective
<1> QED BY <1>1, <1>2, <1>3

LEMMA Queues ==
  ASSUME NEW q
  PROVE  q \in BoundedSeq(Report, MaxQueue) <=> q \in Seq(Report) /\ Len(q) <= MaxQueue
BY Bounded, SizeAssumption

LEMMA EmptyReport == <<>> \in Report
<1>1. <<>> \in Seq(Key) /\ Len(<<>>) = 0
  BY EmptySeq
<1>2. Len(<<>>) <= Slots
  BY <1>1, SizeAssumption
<1>3. \A i, j \in 1 .. Len(<<>>) : <<>>[i] = <<>>[j] => i = j
  BY <1>1
<1> QED BY <1>1, <1>2, <1>3, ReportIs

(* One key more or less is a report again, and no key moves back.          *)
LEMMA KeyAdded ==
  ASSUME NEW r \in Report, Len(r) < Slots, NEW k \in Key \ Range(r)
  PROVE  Append(r, k) \in Report /\ Forward(r, Append(r, k))
<1> DEFINE s == Append(r, k)
<1>1. /\ r \in Seq(Key) /\ \A i, j \in 1 .. Len(r) : r[i] = r[j] => i = j
      /\ \A i \in 1 .. Len(r) : r[i] # k
  BY ReportIs DEF Range
<1>2. s \in Seq(Key) /\ Len(s) = Len(r) + 1
  BY <1>1, AppendProperties
<1>3. \A i \in 1 .. Len(s) : s[i] = IF i <= Len(r) THEN r[i] ELSE k
  BY <1>1, AppendProperties
<1>4. Len(r) \in Nat
  BY <1>1
<1> HIDE DEF s
<1>5. \A i, j \in 1 .. Len(s) : s[i] = s[j] => i = j
  BY <1>1, <1>2, <1>3, <1>4
<1>6. Forward(r, s)
  BY <1>1, <1>2, <1>3, <1>4 DEF Forward
<1>7. Len(s) <= Slots
  BY <1>2, <1>4, SizeAssumption
<1>8. s \in Report
  BY <1>2, <1>5, <1>7, ReportIs
<1> QED BY <1>6, <1>8 DEF s

LEMMA KeyRemoved ==
  ASSUME NEW r \in Report, NEW m \in 1 .. Len(r)
  PROVE  RemoveAt(r, m) \in Report /\ Forward(r, RemoveAt(r, m))
<1> DEFINE s == RemoveAt(r, m)
           a == SubSeq(r, 1, m - 1)
           b == SubSeq(r, m + 1, Len(r))
<1>1. /\ r \in Seq(Key) /\ Len(r) <= Slots
      /\ \A i, j \in 1 .. Len(r) : r[i] = r[j] => i = j
  BY ReportIs
<1>2. Len(r) \in Nat /\ \A i \in 1 .. Len(r) : r[i] \in Key
  BY <1>1
<1>3. /\ a \in Seq(Key) /\ Len(a) = m - 1
      /\ \A i \in 1 .. m - 1 : a[i] = r[i]
  <2>1. \A i \in 1 .. m - 1 : r[i] \in Key
    BY <1>2
  <2>2. 1 \in Int /\ m - 1 \in Int
    BY <1>2
  <2>3. /\ a \in Seq(Key) /\ Len(a) = IF 1 <= m - 1 THEN m - 1 - 1 + 1 ELSE 0
        /\ \A i \in 1 .. m - 1 - 1 + 1 : a[i] = r[1 + i - 1]
    BY <2>1, <2>2, SubSeqProperties
  <2> HIDE DEF a
  <2> QED BY <1>2, <2>3
<1>4. /\ b \in Seq(Key) /\ Len(b) = Len(r) - m
      /\ \A i \in 1 .. Len(r) - m : b[i] = r[m + i]
  <2>1. \A i \in m + 1 .. Len(r) : r[i] \in Key
    BY <1>2
  <2>2. m + 1 \in Int /\ Len(r) \in Int
    BY <1>2
  <2>3. /\ b \in Seq(Key) /\ Len(b) = IF m + 1 <= Len(r) THEN Len(r) - (m + 1) + 1 ELSE 0
        /\ \A i \in 1 .. Len(r) - (m + 1) + 1 : b[i] = r[m + 1 + i - 1]
    BY <2>1, <2>2, SubSeqProperties
  <2> HIDE DEF b
  <2> QED BY <1>2, <2>3
<1>5. s = a \o b
  BY DEF RemoveAt
<1> HIDE DEF s, a, b
<1>6. /\ s \in Seq(Key) /\ Len(s) = Len(a) + Len(b)
      /\ \A i \in 1 .. Len(a) + Len(b) : s[i] = IF i <= Len(a) THEN a[i] ELSE b[i - Len(a)]
  BY <1>3, <1>4, <1>5, ConcatProperties
<1>7. Len(s) = Len(r) - 1
  BY <1>2, <1>3, <1>4, <1>6
<1>8. \A i \in 1 .. Len(s) : s[i] = r[IF i < m THEN i ELSE i + 1]
  <2> SUFFICES ASSUME NEW i \in 1 .. Len(s) PROVE s[i] = r[IF i < m THEN i ELSE i + 1]
    OBVIOUS
  <2>1. s[i] = IF i <= m - 1 THEN a[i] ELSE b[i - (m - 1)]
    BY <1>2, <1>3, <1>4, <1>6
  <2>2. CASE i < m
    BY <1>2, <1>3, <2>1, <2>2
  <2>3. CASE i >= m
    <3>1. i - (m - 1) \in 1 .. Len(r) - m /\ m + (i - (m - 1)) = i + 1
      BY <1>2, <1>7, <2>3
    <3> QED BY <1>2, <1>4, <2>1, <2>3, <3>1
  <2> QED BY <1>2, <1>7, <2>2, <2>3
<1>9. \A i \in 1 .. Len(s) : (IF i < m THEN i ELSE i + 1) \in 1 .. Len(r)
  BY <1>2, <1>7
<1>10. \A i, j \in 1 .. Len(s) : s[i] = s[j] => i = j
  <2> SUFFICES ASSUME NEW i \in 1 .. Len(s), NEW j \in 1 .. Len(s), s[i] = s[j] PROVE i = j
    OBVIOUS
  <2>1. (IF i < m THEN i ELSE i + 1) = (IF j < m THEN j ELSE j + 1)
    BY <1>1, <1>8, <1>9
  <2> QED BY <1>2, <1>7, <2>1
<1>11. Forward(r, s)
  <2> SUFFICES ASSUME NEW j \in 1 .. Len(r), NEW i \in 1 .. Len(s), s[i] = r[j] PROVE i <= j
    BY DEF Forward
  <2>1. (IF i < m THEN i ELSE i + 1) = j
    BY <1>1, <1>8, <1>9
  <2> QED BY <1>2, <1>7, <2>1
<1>12. s \in Report
  BY <1>1, <1>2, <1>6, <1>7, <1>10, ReportIs, SizeAssumption
<1> QED BY <1>11, <1>12 DEF s
-----------------------------------------------------------------------------
(* The inductive invariant.                                                *)

USE DEF keyboard, chip, clock, dispatch, driver

LEMMA InitIInv == Init => IInv
<1> SUFFICES ASSUME Init PROVE IInv
  OBVIOUS
<1>1. TypeOK
  <2>1. keys \in Report /\ fifo \in Report /\ kbdbuf \in Report
    BY EmptyReport DEF Init
  <2>2. queue \in BoundedSeq(Report, MaxQueue)
    <3>1. <<>> \in Seq(Report) /\ Len(<<>>) = 0
      BY EmptySeq
    <3>2. Len(<<>>) <= MaxQueue
      BY <3>1, SizeAssumption
    <3> QED BY <3>1, <3>2, Queues DEF Init
  <2>3. /\ reading \in 0 .. MaxReading /\ deadline \in 0 .. MaxReading + USB_XFER_TIMEOUT
        /\ nak_count \in 0 .. USB_NAK_LIMIT - 1 /\ retry_count \in 0 .. USB_RETRY_LIMIT - 1
    BY LimitAssumption, ClockAssumption DEF Init
  <2>4. slot \in Slot
    BY SizeAssumption DEF Init, Slot
  <2>5. port \in [Slot -> Key \union {"none"}]
    BY DEF Init
  <2>6. {dtog, rtog, rcvToggle} \subseteq 0 .. 1
    BY DEF Init
  <2>7. {alive, busy, HXFRDN, RCVDAV, ticked} \subseteq BOOLEAN
    BY DEF Init
  <2>8. /\ HRSL = "SUCCESS" /\ pc = "main" /\ rcode = "SUCCESS"
    BY DEF Init
  <2> QED BY <2>1, <2>2, <2>3, <2>4, <2>5, <2>6, <2>7, <2>8 DEF TypeOK
<1>2. WorkingChipIsKept /\ InTime /\ ChipInv
  BY DEF Init, WorkingChipIsKept, InTime, Dispatching, ChipInv
<1>3. ChainInv
  BY DEF Init, ChainInv, Newest
<1>4. PortsInv
  BY DEF Init, PortsInv, Code
<1> QED BY <1>1, <1>2, <1>3, <1>4 DEF IInv

(* A transaction that is under way comes to its end.                       *)
LEMMA Underway ==
  ASSUME IInv, Running
  PROVE  pc = "wait" /\ ~HXFRDN /\ ~RCVDAV /\ rtog = rcvToggle
BY DEF IInv, ChipInv, Running

LEMMA QueueStep ==
  ASSUME TypeOK, KeyEvent
  PROVE  /\ keys' \in Report /\ Forward(keys, keys')
         /\ queue' \in BoundedSeq(Report, MaxQueue)
<1>1. keys \in Report /\ queue \in Seq(Report) /\ Len(queue) < MaxQueue
  BY Queues DEF TypeOK, KeyEvent
<1>2. keys' \in Report /\ Forward(keys, keys')
  <2>1. ASSUME NEW k \in Key \ Range(keys), Len(keys) < Slots, keys' = Append(keys, k)
        PROVE  keys' \in Report /\ Forward(keys, keys')
    BY <1>1, <2>1, KeyAdded
  <2>2. ASSUME NEW i \in 1 .. Len(keys), keys' = RemoveAt(keys, i)
        PROVE  keys' \in Report /\ Forward(keys, keys')
    BY <1>1, <2>2, KeyRemoved
  <2> QED BY <2>1, <2>2 DEF KeyEvent
<1>3. queue' = Append(queue, keys')
  BY DEF KeyEvent
<1>4. queue' \in Seq(Report) /\ Len(queue') = Len(queue) + 1
  BY <1>1, <1>2, <1>3, AppendProperties
<1>5. Len(queue') <= MaxQueue
  BY <1>1, <1>4, SizeAssumption
<1> QED BY <1>2, <1>4, <1>5, Queues

LEMMA FrontStep ==
  ASSUME TypeOK, queue # <<>>
  PROVE  /\ Head(queue) \in Report /\ Head(queue) = queue[1]
         /\ Tail(queue) \in BoundedSeq(Report, MaxQueue)
<1>1. queue \in Seq(Report) /\ Len(queue) <= MaxQueue
  BY Queues DEF TypeOK
<1>2. Head(queue) \in Report /\ Tail(queue) \in Seq(Report) /\ Len(Tail(queue)) = Len(queue) - 1
  BY <1>1, HeadTailProperties
<1>3. Head(queue) = queue[1]
  BY <1>1
<1>4. Len(Tail(queue)) <= MaxQueue
  BY <1>1, <1>2, SizeAssumption
<1> QED BY <1>2, <1>3, <1>4, Queues

LEMMA TypeStep == ASSUME IInv, Next PROVE TypeOK'
<1>0. TypeOK
  BY DEF IInv
<1>1. CASE KeyEvent
  BY <1>0, <1>1, QueueStep DEF TypeOK, KeyEvent
<1>2. CASE Refused
  BY <1>0, <1>2 DEF TypeOK, Refused, Running, Finish
<1>3. CASE Lost
  BY <1>0, <1>3 DEF TypeOK, Lost, Running, Finish
<1>4. ASSUME NEW acked \in BOOLEAN, Arrive(acked) PROVE TypeOK'
  <2>1. queue' \in BoundedSeq(Report, MaxQueue) /\ fifo' \in Report
    BY <1>0, <1>4, FrontStep DEF TypeOK, Arrive
  <2>2. {dtog', rtog', rcvToggle'} \subseteq 0 .. 1
    BY <1>0, <1>4 DEF TypeOK, Arrive, Finish
  <2> QED BY <1>0, <1>4, <2>1, <2>2 DEF TypeOK, Arrive, Running, Finish
<1>5. CASE Die
  BY <1>0, <1>5 DEF TypeOK, Die
<1>6. CASE Tick
  <2>1. reading' \in 0 .. MaxReading
    BY <1>0, <1>6, ClockAssumption DEF TypeOK, Tick
  <2> QED BY <1>0, <1>6, <2>1 DEF TypeOK, Tick
<1>7. CASE Poll
  <2>1. /\ deadline' \in 0 .. MaxReading + USB_XFER_TIMEOUT
        /\ nak_count' \in 0 .. USB_NAK_LIMIT - 1 /\ retry_count' \in 0 .. USB_RETRY_LIMIT - 1
    BY <1>0, <1>7, LimitAssumption, ClockAssumption DEF TypeOK, Poll
  <2> QED BY <1>0, <1>7, <2>1 DEF TypeOK, Poll
<1>8. CASE Launch
  BY <1>0, <1>8 DEF TypeOK, Launch
<1>9. /\ 0 \in 0 .. MaxReading + USB_XFER_TIMEOUT
      /\ 0 \in 0 .. USB_NAK_LIMIT - 1 /\ 0 \in 0 .. USB_RETRY_LIMIT - 1
  BY LimitAssumption, ClockAssumption
<1>10. CASE Expire
  BY <1>0, <1>9, <1>10 DEF TypeOK, Expire, Back
<1>11. CASE Done
  BY <1>0, <1>11 DEF TypeOK, Done
<1>12. CASE Nak
  <2>1. nak_count' \in 0 .. USB_NAK_LIMIT - 1
    BY <1>0, <1>9, <1>12, LimitAssumption DEF TypeOK, Nak, Back
  <2> QED BY <1>0, <1>9, <1>12, <2>1 DEF TypeOK, Nak, Back
<1>13. CASE Retry
  <2>1. retry_count' \in 0 .. USB_RETRY_LIMIT - 1
    BY <1>0, <1>9, <1>13, LimitAssumption DEF TypeOK, Retry, Tries, Back
  <2> QED BY <1>0, <1>9, <1>13, <2>1 DEF TypeOK, Retry, Back
<1>14. CASE Fail
  BY <1>0, <1>9, <1>14 DEF TypeOK, Fail, Back
<1>15. CASE SetKeycode
  <2>1. slot' \in Slot
    BY <1>0, <1>15, SizeAssumption DEF TypeOK, SetKeycode, Slot
  <2>2. Code(kbdbuf, Target) \in Key \union {"none"}
    <3>1. kbdbuf \in Seq(Key) /\ slot \in Nat \ {0}
      BY <1>0, ReportIs, SizeAssumption DEF TypeOK, Slot
    <3>2. slot <= Len(kbdbuf) => kbdbuf[slot] \in Key
      BY <3>1
    <3> QED BY <3>2 DEF Code, Target
  <2>3. port' \in [Slot -> Key \union {"none"}]
    BY <1>0, <1>15, <2>2 DEF TypeOK, SetKeycode
  <2> QED BY <1>0, <1>15, <2>1, <2>3 DEF TypeOK, SetKeycode
<1>16. CASE Receive
  BY <1>0, <1>9, <1>16, EmptyReport DEF TypeOK, Receive, Saved
<1> QED BY <1>1, <1>2, <1>3, <1>4, <1>5, <1>6, <1>7, <1>8, <1>10, <1>11, <1>12, <1>13, <1>14,
           <1>15, <1>16 DEF Next, Complete, Driver

(* A chip that works, or has answered, is looked at before the deadline.   *)
LEMMA NotExpired ==
  ASSUME IInv, pc = "wait", alive \/ HXFRDN
  PROVE  ~Expired
<1>1. /\ reading + USB_XFER_TIMEOUT
           <= deadline + (nak_count + retry_count + 1) + (IF ticked THEN 1 ELSE 0)
  BY DEF IInv, InTime, Dispatching, Launched
<1>2. /\ nak_count \in 0 .. USB_NAK_LIMIT - 1 /\ retry_count \in 0 .. USB_RETRY_LIMIT - 1
      /\ reading \in Nat /\ deadline \in Nat
  BY ClockAssumption, LimitAssumption DEF IInv, TypeOK
<1>3. (IF ticked THEN 1 ELSE 0) \in 0 .. 1
  OBVIOUS
<1> HIDE DEF IInv
<1> QED BY <1>1, <1>2, <1>3, LimitAssumption DEF Expired

LEMMA KeptStep == ASSUME IInv, Next PROVE WorkingChipIsKept'
<1>1. CASE Expire
  BY <1>1, NotExpired DEF Expire, WorkingChipIsKept
<1>2. CASE Complete
  BY <1>2 DEF Complete, Refused, Lost, Arrive, Finish, IInv, WorkingChipIsKept
<1>3. CASE KeyEvent \/ Die \/ Tick
  BY <1>3 DEF KeyEvent, Die, Tick, IInv, WorkingChipIsKept
<1>4. CASE Driver /\ ~Expire
  BY <1>4 DEF Driver, Poll, Launch, Done, Nak, Retry, Fail, Back, SetKeycode, IInv, WorkingChipIsKept
<1>5. CASE Receive
  BY <1>5 DEF Receive, WorkingChipIsKept
<1> QED BY <1>1, <1>2, <1>3, <1>4, <1>5 DEF Next, Driver

LEMMA InTimeStep == ASSUME IInv, Next PROVE InTime'
<1>0. /\ InTime
      /\ nak_count \in Nat /\ retry_count \in Nat /\ reading \in Nat /\ deadline \in Nat
      /\ USB_XFER_TIMEOUT \in Nat
  BY ClockAssumption, LimitAssumption DEF IInv, TypeOK
<1> USE DEF InTime, Dispatching, Launched
<1>1. CASE KeyEvent \/ Die
  BY <1>0, <1>1 DEF KeyEvent, Die
<1>2. CASE Complete
  <2>1. Running /\ UNCHANGED <<alive, clock, driver>>
    BY <1>2 DEF Complete, Refused, Lost, Arrive, Finish
  <2> QED BY <1>0, <2>1, Underway DEF Running
<1>3. CASE Tick
  <2>1. /\ reading' = reading + 1 \/ reading' = 0
        /\ ticked' = TRUE /\ UNCHANGED <<alive, HXFRDN, pc, deadline, nak_count, retry_count>>
    BY <1>3 DEF Tick
  <2>2. Dispatching /\ (pc = "wait" => alive \/ HXFRDN) => ~ticked
    BY <1>3 DEF Tick
  <2> QED BY <1>0, <2>1, <2>2
<1>4. CASE Poll
  BY <1>0, <1>4 DEF Poll
<1>5. CASE Launch
  BY <1>0, <1>5 DEF Launch
<1>6. CASE Expire \/ Fail \/ SetKeycode \/ Receive
  BY <1>0, <1>6 DEF Expire, Fail, Back, SetKeycode, Receive
<1>7. CASE Done
  BY <1>0, <1>7 DEF Done
<1>8. CASE Nak
  BY <1>0, <1>8 DEF Nak, Back
<1>9. CASE Retry
  BY <1>0, <1>9 DEF Retry, Tries, Back
<1> QED BY <1>1, <1>2, <1>3, <1>4, <1>5, <1>6, <1>7, <1>8, <1>9 DEF Next, Driver

LEMMA ChipStep == ASSUME IInv, Next PROVE ChipInv'
<1>0. /\ ChipInv /\ rtog \in 0 .. 1 /\ rcvToggle \in 0 .. 1
      /\ {alive, busy, HXFRDN, RCVDAV} \subseteq BOOLEAN
  BY DEF IInv, TypeOK
<1> USE DEF ChipInv
<1>1. CASE KeyEvent \/ Die \/ Tick
  BY <1>0, <1>1 DEF KeyEvent, Die, Tick
<1>2. CASE Refused \/ Lost
  <2>1. ~RCVDAV /\ pc = "wait"
    BY <1>2, Underway DEF Refused, Lost
  <2> QED BY <1>0, <1>2, <2>1 DEF Refused, Lost, Finish
<1>3. ASSUME NEW acked \in BOOLEAN, Arrive(acked) PROVE ChipInv'
  <2>1. ~RCVDAV /\ rtog = rcvToggle /\ pc = "wait"
    BY <1>3, Underway DEF Arrive
  <2>2. CASE dtog = rtog
    BY <1>0, <1>3, <2>1, <2>2 DEF Arrive, Finish
  <2>3. CASE dtog # rtog
    BY <1>0, <1>3, <2>1, <2>3 DEF Arrive, Finish
  <2> QED BY <2>2, <2>3
<1>4. CASE Poll
  BY <1>0, <1>4 DEF Poll
<1>5. CASE Launch
  BY <1>0, <1>5 DEF Launch
<1>6. CASE Expire
  <2>1. ~alive /\ ~HXFRDN
    BY <1>6, NotExpired DEF Expire
  <2> QED BY <1>0, <1>6, <2>1 DEF Expire, Back
<1>7. CASE Done
  BY <1>0, <1>7 DEF Done
<1>8. CASE Nak \/ Retry \/ Fail
  BY <1>0, <1>8 DEF Nak, Retry, Fail, Back
<1>9. CASE SetKeycode
  BY <1>0, <1>9 DEF SetKeycode
<1>10. CASE Receive
  BY <1>0, <1>10 DEF Receive, Saved
<1> QED BY <1>1, <1>2, <1>3, <1>4, <1>5, <1>6, <1>7, <1>8, <1>9, <1>10 DEF Next, Complete, Driver

LEMMA ChainStep == ASSUME IInv, Next PROVE ChainInv'
<1>0. /\ ChainInv /\ queue \in Seq(Report) /\ keys \in Report
      /\ dtog \in 0 .. 1 /\ rtog \in 0 .. 1
  BY Queues DEF IInv, TypeOK
<1>1. CASE UNCHANGED <<keys, queue, dtog, rtog, RCVDAV, fifo, kbdbuf>>
  BY <1>0, <1>1, Zenon DEF ChainInv, Newest
<1>2. CASE KeyEvent
  <2>1. keys' \in Report /\ Forward(keys, keys') /\ queue' = Append(queue, keys')
    BY <1>2, QueueStep DEF IInv, KeyEvent
  <2>2. UNCHANGED <<dtog, rtog, RCVDAV, fifo, kbdbuf>>
    BY <1>2 DEF KeyEvent
  <2>3. /\ Len(queue') = Len(queue) + 1 /\ queue' # <<>>
        /\ \A i \in 1 .. Len(queue) : queue'[i] = queue[i]
        /\ queue'[Len(queue) + 1] = keys'
    BY <1>0, <2>1, AppendProperties
  <2>4. Len(queue) \in Nat /\ (queue = <<>> <=> Len(queue) = 0)
    BY <1>0, EmptySeq
  <2>5. \A i \in 1 .. Len(queue') - 1 : Forward(queue'[i], queue'[i + 1])
    <3> SUFFICES ASSUME NEW i \in 1 .. Len(queue') - 1 PROVE Forward(queue'[i], queue'[i + 1])
      OBVIOUS
    <3>1. CASE i < Len(queue)
      <4>1. i \in 1 .. Len(queue) - 1 /\ i \in 1 .. Len(queue) /\ i + 1 \in 1 .. Len(queue)
        BY <2>3, <2>4, <3>1
      <4> QED BY <1>0, <2>3, <4>1 DEF ChainInv
    <3>2. CASE i = Len(queue)
      <4>1. queue # <<>> /\ i \in 1 .. Len(queue)
        BY <2>4, <3>2
      <4>2. queue'[i] = keys
        BY <1>0, <2>3, <3>2, <4>1 DEF ChainInv
      <4> QED BY <2>1, <2>3, <3>2, <4>2
    <3> QED BY <2>3, <2>4, <3>1, <3>2
  <2>6. CASE queue = <<>>
    <3>1. dtog = rtog /\ Newest = keys
      BY <1>0, <2>6 DEF ChainInv
    <3>2. queue'[1] = keys' /\ Newest' = keys
      BY <2>2, <2>3, <2>4, <2>6, <3>1 DEF Newest
    <3> QED BY <1>0, <2>1, <2>2, <2>3, <2>4, <2>5, <2>6, <3>1, <3>2 DEF ChainInv
  <2>7. CASE queue # <<>>
    <3>1. queue'[1] = queue[1] /\ Newest' = Newest
      BY <2>2, <2>3, <2>4, <2>7 DEF Newest
    <3> QED BY <1>0, <2>1, <2>2, <2>3, <2>5, <2>7, <3>1 DEF ChainInv
  <2> QED BY <2>6, <2>7
<1>3. ASSUME queue # <<>>
      PROVE  /\ Head(queue) = queue[1] /\ Len(queue) \in Nat \ {0}
             /\ Tail(queue) \in Seq(Report) /\ Len(Tail(queue)) = Len(queue) - 1
             /\ \A i \in 1 .. Len(queue) - 1 : Tail(queue)[i] = queue[i + 1]
  <2>1. /\ Tail(queue) \in Seq(Report) /\ Len(Tail(queue)) = Len(queue) - 1
        /\ \A i \in 1 .. Len(Tail(queue)) : Tail(queue)[i] = queue[i + 1]
    BY <1>0, <1>3, HeadTailProperties
  <2>2. Len(queue) \in Nat \ {0}
    BY <1>0, <1>3, EmptySeq
  <2>3. Head(queue) = queue[1]
    BY <1>0, <1>3
  <2> QED BY <2>1, <2>2, <2>3
\* What is left of the queue when its front has been received.
<1>4. ASSUME queue # <<>>
      PROVE  /\ Tail(queue) = <<>> => queue[1] = keys
             /\ Tail(queue) # <<>> => /\ Forward(queue[1], Tail(queue)[1])
                                      /\ Tail(queue)[Len(Tail(queue))] = keys
             /\ \A i \in 1 .. Len(Tail(queue)) - 1 : Forward(Tail(queue)[i], Tail(queue)[i + 1])
  <2>1. /\ queue[Len(queue)] = keys
        /\ \A i \in 1 .. Len(queue) - 1 : Forward(queue[i], queue[i + 1])
    BY <1>0, <1>4 DEF ChainInv
  <2>2. Tail(queue) = <<>> <=> Len(queue) = 1
    <3>1. Tail(queue) \in Seq(Report) /\ Len(Tail(queue)) = Len(queue) - 1
          /\ Len(queue) \in Nat
      BY <1>3, <1>4
    <3>2. Tail(queue) = <<>> <=> Len(Tail(queue)) = 0
      BY <3>1, EmptySeq
    <3> QED BY <3>1, <3>2
  <2>3. Tail(queue) = <<>> => queue[1] = keys
    BY <2>1, <2>2
  <2>4. ASSUME Tail(queue) # <<>>
        PROVE  Forward(queue[1], Tail(queue)[1]) /\ Tail(queue)[Len(Tail(queue))] = keys
    <3>1. Len(queue) > 1
      BY <1>3, <1>4, <2>2, <2>4
    <3>2. 1 \in 1 .. Len(queue) - 1 /\ Len(queue) - 1 \in 1 .. Len(queue) - 1
      BY <1>3, <1>4, <3>1
    <3>3. Tail(queue)[1] = queue[2] /\ Tail(queue)[Len(queue) - 1] = queue[Len(queue)]
      BY <1>3, <1>4, <3>2
    <3> QED BY <1>3, <1>4, <2>1, <3>2, <3>3
  <2>5. \A i \in 1 .. Len(Tail(queue)) - 1 : Forward(Tail(queue)[i], Tail(queue)[i + 1])
    <3> TAKE i \in 1 .. Len(Tail(queue)) - 1
    <3>1. i \in 1 .. Len(queue) - 1 /\ i + 1 \in 1 .. Len(queue) - 1
      BY <1>3, <1>4
    <3> QED BY <1>3, <1>4, <2>1, <3>1
  <2> QED BY <2>3, <2>4, <2>5
<1>5. CASE Refused \/ Lost
  BY <1>1, <1>5 DEF Refused, Lost, Finish
<1>6. ASSUME NEW acked \in BOOLEAN, Arrive(acked) PROVE ChainInv'
  <2>1. ~RCVDAV /\ queue # <<>> /\ UNCHANGED <<keys, kbdbuf>>
    BY <1>6, Underway DEF Arrive, Finish
  <2>2. Newest = kbdbuf
    BY <2>1 DEF Newest
  <2>3. Newest' = queue[1] /\ (RCVDAV' => Forward(kbdbuf', fifo'))
    <3>1. CASE dtog = rtog
      BY <1>0, <1>3, <1>6, <2>1, <2>2, <3>1 DEF Arrive, ChainInv, Newest
    <3>2. CASE dtog # rtog
      BY <1>0, <1>6, <2>1, <2>2, <3>2 DEF Arrive, ChainInv, Newest
    <3> QED BY <3>1, <3>2
  <2>4. CASE acked
    <3>1. queue' = Tail(queue) /\ dtog' = rtog'
      BY <1>0, <1>6, <2>4 DEF Arrive
    <3> QED BY <1>4, <2>1, <2>3, <3>1, Zenon DEF ChainInv
  <2>5. CASE ~acked
    <3>1. queue' = queue /\ dtog' # rtog'
      BY <1>0, <1>6, <2>5 DEF Arrive
    <3> QED BY <1>0, <2>1, <2>3, <3>1, Zenon DEF ChainInv
  <2> QED BY <2>4, <2>5
<1>7. CASE Die \/ Tick
  BY <1>1, <1>7 DEF Die, Tick
<1>8. CASE Poll
  <2>1. rtog' = rtog
    BY <1>8 DEF IInv, ChipInv, Poll
  <2> QED BY <1>1, <1>8, <2>1 DEF Poll
<1>9. CASE Driver /\ ~Poll
  BY <1>1, <1>9 DEF Driver, Launch, Expire, Done, Nak, Retry, Fail, Back, SetKeycode
<1>10. CASE Receive
  <2>1. ~RCVDAV' /\ kbdbuf' = fifo /\ RCVDAV /\ UNCHANGED <<keys, queue, dtog, rtog>>
    BY <1>10 DEF Receive
  <2>2. Newest' = Newest
    BY <2>1 DEF Newest
  <2> QED BY <1>0, <2>1, <2>2, Zenon DEF ChainInv
<1> QED BY <1>2, <1>5, <1>6, <1>7, <1>8, <1>9, <1>10 DEF Next, Complete, Driver

(* The next report comes after the one the ports show, so what they still
   show of the old one is not behind its place in the new one.             *)
LEMMA PortsStep == ASSUME IInv, Next PROVE PortsInv'
<1>0. /\ PortsInv /\ slot \in Slot /\ slot \in 1 .. Slots /\ Slots \in Nat \ {0}
      /\ port \in [Slot -> Key \union {"none"}]
      /\ kbdbuf \in Seq(Key) /\ fifo \in Seq(Key)
  BY ReportIs, SizeAssumption DEF IInv, TypeOK, Slot
<1>1. CASE UNCHANGED <<slot, port, kbdbuf>> /\ (pc = "ports" <=> pc' = "ports")
  BY <1>0, <1>1, Zenon DEF PortsInv, Code
<1>2. CASE KeyEvent \/ Complete \/ Die \/ Tick
  BY <1>1, <1>2 DEF KeyEvent, Complete, Refused, Lost, Arrive, Finish, Die, Tick
<1>3. CASE Driver /\ ~SetKeycode
  BY <1>1, <1>3 DEF Driver, Poll, Launch, Expire, Done, Nak, Retry, Fail, Back
<1>4. CASE SetKeycode
  <2>1. /\ pc = "ports" /\ kbdbuf' = kbdbuf
        /\ port' = [port EXCEPT ![slot] = Code(kbdbuf, slot)]
        /\ IF slot = Slots THEN slot' = 1 /\ pc' = "main" ELSE slot' = slot + 1 /\ pc' = "ports"
    BY <1>4 DEF SetKeycode, Target
  <2>2. \A j \in Slot : port'[j] = IF j = slot THEN Code(kbdbuf, slot) ELSE port[j]
    BY <1>0, <2>1
  <2>3. \A r, j : Code(r, j)' = Code(r', j')
    BY DEF Code
  <2>4. ASSUME NEW j \in Slot
        PROVE  IF pc' # "ports" \/ j < slot' THEN port'[j] = Code(kbdbuf, j)
               ELSE \A i \in 1 .. Len(kbdbuf) : kbdbuf[i] = port'[j] => i <= j
    <3>1. j \in 1 .. Slots
      BY DEF Slot
    <3>2. CASE j <= slot
      <4>1. port'[j] = Code(kbdbuf, j)
        BY <1>0, <2>1, <2>2, <3>1, <3>2 DEF PortsInv
      <4>2. pc' # "ports" \/ j < slot'
        BY <1>0, <2>1, <3>1, <3>2
      <4> QED BY <4>1, <4>2
    <3>3. CASE j > slot
      <4>1. port'[j] = port[j] /\ pc' = "ports" /\ ~(j < slot') /\ ~(j < slot)
        BY <1>0, <2>1, <2>2, <3>1, <3>3
      <4> QED BY <1>0, <2>1, <4>1 DEF PortsInv
    <3> QED BY <1>0, <3>1, <3>2, <3>3
  <2> QED BY <2>1, <2>4 DEF PortsInv, Code
<1>5. CASE Receive
  <2>1. pc = "result" /\ pc' = "ports" /\ kbdbuf' = fifo /\ UNCHANGED <<slot, port>>
    BY <1>5 DEF Receive
  <2>2. slot = 1 /\ \A j \in Slot : port[j] = Code(kbdbuf, j)
    BY <1>0, <2>1 DEF PortsInv
  <2>3. Forward(kbdbuf, fifo)
    BY <1>5 DEF Receive, IInv, ChainInv
  <2>4. ASSUME NEW j \in Slot, NEW i \in 1 .. Len(fifo), fifo[i] = port[j]
        PROVE  i <= j
    <3>1. j \in 1 .. Slots /\ Len(kbdbuf) \in Nat
      BY <1>0 DEF Slot
    <3>2. fifo[i] \in Key
      BY <1>0, <2>4
    <3>3. j <= Len(kbdbuf) /\ port[j] = kbdbuf[j]
      BY <2>2, <2>4, <3>2, KeyAssumption DEF Code
    <3>4. j \in 1 .. Len(kbdbuf)
      BY <3>1, <3>3
    <3> QED BY <2>3, <2>4, <3>3, <3>4 DEF Forward
  <2>5. \A j \in Slot : ~(j < slot)
    BY <2>2 DEF Slot
  <2> QED BY <2>1, <2>2, <2>4, <2>5 DEF PortsInv
<1> QED BY <1>2, <1>3, <1>4, <1>5 DEF Next, Driver

LEMMA NextIInv == IInv /\ [Next]_vars => IInv'
<1> SUFFICES ASSUME IInv, [Next]_vars PROVE IInv'
  OBVIOUS
<1>1. CASE Next
  BY <1>1, TypeStep, KeptStep, InTimeStep, ChipStep, ChainStep, PortsStep DEF IInv
<1>2. CASE UNCHANGED vars
  <2>1. TypeOK' /\ WorkingChipIsKept' /\ InTime' /\ ChipInv'
    BY <1>2 DEF vars, IInv, TypeOK, WorkingChipIsKept, InTime, Dispatching, Launched, ChipInv
  <2>2. ChainInv'
    BY <1>2, Zenon DEF vars, IInv, ChainInv, Newest
  <2>3. PortsInv'
    BY <1>2, Zenon DEF vars, IInv, PortsInv, Code
  <2> QED BY <2>1, <2>2, <2>3 DEF IInv
<1> QED BY <1>1, <1>2

LEMMA IInvHolds == Spec => []IInv
BY InitIInv, NextIInv, PTL DEF Spec

(* The keyboard, the chip and the driver keep their types, however many
   keys, ports, refusals and losses there are.                             *)
THEOREM TransfersTypeCorrect == Spec => []TypeOK
BY IInvHolds, PTL DEF IInv

(* XferDispatchPkt never times out on a chip that works: its limits end the
   repetitions first, also across the overflow of the clock.               *)
THEOREM WorkingChipIsKeptHolds == Spec => []WorkingChipIsKept
BY IInvHolds, PTL DEF IInv

(* While main rewrites the ports one by one, a key of the old and of the new
   report is in some port all the time.                                    *)
THEOREM KeptKeysStayHolds == Spec => KeptKeysStay
<1> DEFINE Kept == \A k \in Key : (k \in Shown /\ pc = "ports" /\ k \in Range(kbdbuf)) => k \in Shown'
<1>1. IInv /\ [Next]_vars => [Kept]_vars
  <2> SUFFICES ASSUME IInv, [Next]_vars, NEW k \in Key,
                      k \in Shown, pc = "ports", k \in Range(kbdbuf)
               PROVE  k \in Shown'
    OBVIOUS
  <2>1. CASE UNCHANGED port
    BY <2>1 DEF Shown, Range
  <2>2. CASE SetKeycode
    <3>0. /\ PortsInv /\ slot \in 1 .. Slots /\ Slots \in Nat
          /\ port \in [Slot -> Key \union {"none"}]
          /\ kbdbuf \in Seq(Key) /\ Len(kbdbuf) <= Slots
      BY ReportIs, SizeAssumption DEF IInv, TypeOK, Slot
    <3>1. port' = [port EXCEPT ![slot] = Code(kbdbuf, slot)]
      BY <2>2 DEF SetKeycode, Target
    <3>2. PICK j \in Slot : port[j] = k
      BY <3>0 DEF Shown, Range
    <3>3. PICK i \in 1 .. Len(kbdbuf) : kbdbuf[i] = k
      BY <3>0 DEF Range
    <3>4. i \in Slot /\ i \in 1 .. Slots /\ j \in 1 .. Slots
      BY <3>0, <3>2, <3>3 DEF Slot
    <3>5. \E n \in Slot : port'[n] = k
      <4>1. CASE j # slot
        BY <3>0, <3>1, <3>2, <4>1
      <4>2. CASE j = slot /\ i = slot
        BY <3>0, <3>1, <3>3, <3>4, <4>2 DEF Code
      <4>3. CASE j = slot /\ i # slot
        <5>1. i < slot
          BY <3>0, <3>2, <3>3, <3>4, <4>3 DEF PortsInv
        <5>2. port[i] = Code(kbdbuf, i)
          BY <3>0, <3>4, <5>1 DEF PortsInv
        <5>3. port'[i] = k
          BY <3>0, <3>1, <3>3, <3>4, <4>3, <5>2 DEF Code
        <5> QED BY <3>4, <5>3
      <4> QED BY <4>1, <4>2, <4>3
    <3>6. k # "none" /\ DOMAIN port' = Slot
      BY <3>0, <3>1, KeyAssumption
    <3> QED BY <3>5, <3>6 DEF Shown, Range
  <2> QED BY <2>1, <2>2 DEF vars, Next, KeyEvent, Complete, Refused, Lost, Arrive, Finish, Die, Tick,
             Driver, Poll, Launch, Expire, Done, Nak, Retry, Fail, Receive
<1> QED BY <1>1, IInvHolds, PTL DEF Spec, KeptKeysStay
-----------------------------------------------------------------------------
(* From the keyboard to the program the reports are a pipe.                *)

Buffer == IF RCVDAV THEN <<fifo>> ELSE <<>>
Rest == IF dtog # rtog THEN Tail(queue) ELSE queue

LEMMA Way ==
  ASSUME IInv
  PROVE  /\ InFlight = Buffer \o Rest
         /\ Buffer \in Seq(Report) /\ Len(Buffer) <= 1
         /\ Rest \in Seq(Report) /\ Len(Rest) <= Len(queue)
         /\ queue \in Seq(Report) /\ Len(queue) <= MaxQueue
         /\ dtog # rtog => queue # <<>>
<1>1. queue \in Seq(Report) /\ Len(queue) <= MaxQueue /\ fifo \in Report
  BY Queues DEF IInv, TypeOK
<1>2. dtog # rtog => queue # <<>>
  BY DEF IInv, ChainInv
<1>3. Expected = rtog
  BY DEF IInv, ChipInv, Expected
<1>4. InFlight = Buffer \o Rest
  BY <1>2, <1>3 DEF InFlight, Buffer, Rest
<1>5. Buffer \in Seq(Report) /\ Len(Buffer) <= 1
  <2>1. <<fifo>> \in Seq(Report) /\ Len(<<fifo>>) = 1
    BY <1>1
  <2>2. <<>> \in Seq(Report) /\ Len(<<>>) = 0
    BY EmptySeq
  <2> QED BY <2>1, <2>2 DEF Buffer
<1>6. Rest \in Seq(Report) /\ Len(Rest) <= Len(queue)
  <2>1. CASE dtog # rtog
    <3>1. Tail(queue) \in Seq(Report) /\ Len(Tail(queue)) = Len(queue) - 1
      BY <1>1, <1>2, <2>1, HeadTailProperties
    <3> QED BY <1>1, <2>1, <3>1 DEF Rest
  <2>2. CASE dtog = rtog
    BY <1>1, <2>2 DEF Rest
  <2> QED BY <2>1, <2>2
<1> QED BY <1>1, <1>2, <1>4, <1>5, <1>6

LEMMA WayAfter == ASSUME IInv' PROVE InFlight' = Buffer' \o Rest'
<1>1. dtog' # rtog' => queue' # <<>>
  BY DEF IInv, ChainInv
<1>2. Expected' = rtog'
  BY DEF IInv, ChipInv, Expected
<1> QED BY <1>1, <1>2 DEF InFlight, Buffer, Rest

(* A report put at the end makes the pipe longer and changes nothing else. *)
LEMMA PutAtEnd ==
  ASSUME NEW p \in Seq(Report), NEW r \in Report
  PROVE  /\ Reports!IsStrictPrefix(p, Append(p, r))
         /\ Reports!Range(Append(p, r)) \subseteq Report
<1> DEFINE q == Append(p, r)
<1>1. /\ q \in Seq(Report) /\ Len(q) = Len(p) + 1 /\ Len(p) \in Nat
      /\ \A k \in 1 .. Len(p) : q[k] = p[k]
  BY AppendProperties
<1> HIDE DEF q
<1>2. SubSeq(p, 1, Len(p)) = SubSeq(q, 1, Len(p))
  <2>1. SubSeq(p, 1, Len(p)) = [k \in 1 .. Len(p) |-> p[k]]
    BY <1>1
  <2>2. SubSeq(q, 1, Len(p)) = [k \in 1 .. Len(p) |-> q[k]]
    BY <1>1
  <2> QED BY <1>1, <2>1, <2>2
<1>3. p # q /\ Len(p) <= Len(q)
  BY <1>1
<1>4. \A k \in DOMAIN q : q[k] \in Report
  BY <1>1
<1> QED BY <1>2, <1>3, <1>4 DEF q, Reports!IsStrictPrefix, Reports!IsPrefix, Reports!Range

LEMMA PipeStep == IInv /\ [Next]_vars => [Reports!Put \/ Reports!Get]_InFlight
<1> SUFFICES ASSUME IInv, [Next]_vars
             PROVE  Reports!Put \/ Reports!Get \/ InFlight' = InFlight
  OBVIOUS
<1>0. InFlight' = Buffer' \o Rest'
  BY NextIInv, WayAfter
<1>1. ASSUME Buffer' = Buffer, Rest' = Rest PROVE InFlight' = InFlight
  BY <1>0, <1>1, Way
<1>2. CASE UNCHANGED <<queue, dtog, RCVDAV, fifo, rtog>>
  BY <1>1, <1>2 DEF Buffer, Rest
<1>3. CASE KeyEvent
  <2>1. keys' \in Report /\ queue' = Append(queue, keys') /\ Len(queue) < MaxQueue
        /\ UNCHANGED <<dtog, RCVDAV, fifo, rtog>>
    BY <1>3, QueueStep DEF IInv, KeyEvent
  <2>2. Rest' = Append(Rest, keys')
    <3>1. CASE dtog # rtog
      BY <2>1, <3>1, Way, HeadTailAppend DEF Rest
    <3>2. CASE dtog = rtog
      BY <2>1, <3>2 DEF Rest
    <3> QED BY <3>1, <3>2
  <2>3. Buffer' = Buffer
    BY <2>1 DEF Buffer
  <2>4. InFlight' = Append(InFlight, keys')
    <3>1. Append(Rest, keys') = Rest \o <<keys'>> /\ <<keys'>> \in Seq(Report)
      BY <2>1, Way, AppendIsConcat
    <3>2. InFlight' = Buffer \o (Rest \o <<keys'>>)
      BY <1>0, <2>2, <2>3, <3>1
    <3>3. InFlight' = (Buffer \o Rest) \o <<keys'>>
      BY <3>1, <3>2, Way, ConcatAssociative
    <3>4. InFlight \in Seq(Report) /\ InFlight = Buffer \o Rest
      BY Way, ConcatProperties
    <3> QED BY <2>1, <3>3, <3>4, AppendIsConcat
  <2>5. InFlight \in Seq(Report) /\ Len(InFlight) = Len(Buffer) + Len(Rest)
    BY Way, ConcatProperties
  <2>6. Len(InFlight') <= MaxQueue + 1
    <3>1. Len(InFlight') = Len(InFlight) + 1
      BY <2>1, <2>4, <2>5, AppendProperties
    <3>2. Len(Buffer) <= 1 /\ Len(Rest) <= Len(queue)
          /\ Len(Buffer) \in Nat /\ Len(Rest) \in Nat /\ Len(queue) \in Nat
      BY Way, EmptySeq
    <3> QED BY <2>1, <2>5, <3>1, <3>2, SizeAssumption
  <2> QED BY <2>1, <2>4, <2>5, <2>6, PutAtEnd DEF Reports!Put
<1>4. CASE Refused \/ Lost
  BY <1>2, <1>4 DEF Refused, Lost, Finish
<1>5. ASSUME NEW acked \in BOOLEAN, Arrive(acked) PROVE InFlight' = InFlight
  <2>0. dtog \in 0 .. 1 /\ rtog \in 0 .. 1
    BY DEF IInv, TypeOK
  <2>1. ~RCVDAV /\ queue # <<>>
    BY <1>5, Underway DEF Arrive
  <2>2. CASE dtog = rtog
    <3>1. Buffer' = <<Head(queue)>> /\ Buffer = <<>> /\ Rest = queue
      BY <1>5, <2>1, <2>2 DEF Arrive, Buffer, Rest
    <3>2. Rest' = Tail(queue)
      BY <1>5, <2>0, <2>2 DEF Arrive, Rest
    <3>3. <<Head(queue)>> \o Tail(queue) = queue
      BY <2>1, Way
    <3>4. <<>> \o queue = queue
      BY Way, ConcatEmptySeq
    <3>5. InFlight = Buffer \o Rest
      BY Way
    <3> QED BY <1>0, <3>1, <3>2, <3>3, <3>4, <3>5, Zenon
  <2>3. CASE dtog # rtog
    <3>1. UNCHANGED <<RCVDAV, fifo, rtog>>
      BY <1>5, <2>3 DEF Arrive
    <3>2. Rest' = Rest
      BY <1>5, <2>0, <2>3, <3>1 DEF Arrive, Rest
    <3> QED BY <1>1, <3>1, <3>2 DEF Buffer
  <2> QED BY <2>2, <2>3
<1>6. CASE Die \/ Tick
  BY <1>2, <1>6 DEF Die, Tick
<1>7. CASE Poll
  <2>1. rtog' = rtog
    BY <1>7 DEF IInv, ChipInv, Poll
  <2> QED BY <1>2, <1>7, <2>1 DEF Poll
<1>8. CASE Driver /\ ~Poll
  BY <1>2, <1>8 DEF Driver, Launch, Expire, Done, Nak, Retry, Fail, Back, SetKeycode
<1>9. CASE Receive
  <2>1. Buffer = <<fifo>> /\ Buffer' = <<>> /\ Rest' = Rest /\ got' = <<fifo>>
    BY <1>9 DEF Receive, Buffer, Rest
  <2>2. InFlight' = Rest
    BY <1>0, <2>1, Way, ConcatEmptySeq
  <2>3. InFlight = got' \o InFlight'
    BY <2>1, <2>2, Way
  <2>4. InFlight' # InFlight
    <3>1. Len(InFlight) = Len(Buffer) + Len(Rest) /\ Len(Buffer) = 1 /\ Len(Rest) \in Nat
      BY <2>1, Way, ConcatProperties
    <3> QED BY <2>2, <3>1
  <2> QED BY <2>3, <2>4 DEF Reports!Get
<1>10. CASE UNCHANGED vars
  BY <1>2, <1>10 DEF vars
<1> QED BY <1>3, <1>4, <1>5, <1>6, <1>7, <1>8, <1>9, <1>10 DEF Next, Complete, Driver

(* Whatever the bus loses, a report reaches the program once and in order:
   the transfers implement Pipe.                                           *)
THEOREM ReportsAreAPipeHolds == Spec => ReportsAreAPipe
<1>1. Init => Reports!Init
  BY ConcatEmptySeq DEF Init, InFlight, Reports!Init
<1>2. IInv /\ [Next]_vars => [Reports!Put \/ Reports!Get]_InFlight
  BY PipeStep
<1> QED BY <1>1, <1>2, IInvHolds, PTL DEF Spec, ReportsAreAPipe, Reports!Spec
=============================================================================
