---------------------------- MODULE JtagUartProofs ----------------------------
(***************************************************************************)
(* Proofs about JtagUart, for rings, FIFOs, time-outs and calls of any     *)
(* size: nothing is stranded behind a mask, and both directions of the     *)
(* console implement Pipe.                                                 *)
(***************************************************************************)
EXTENDS JtagUart, SequenceTheorems, TLAPS

(* Rings.                                                                  *)

\* One turn of a pointer.
At(o, k) == IF o + k < LEN THEN o + k ELSE o + k - LEN

LEMMA Turn ==
  ASSUME NEW l \in Nat, l > 1, NEW o \in 0 .. l - 1, NEW k \in 0 .. l
  PROVE  (o + k) % l = IF o + k < l THEN o + k ELSE o + k - l
<1>1. CASE o + k < l
  BY <1>1
<1>2. CASE o + k >= l
  <2>1. (o + k) % l = o + k - l
    BY <1>2
  <2> QED BY <1>2, <2>1
<1> QED BY <1>1, <1>2

LEMMA TurnAt ==
  ASSUME NEW o \in Index, NEW k \in 0 .. LEN
  PROVE  (o + k) % LEN = At(o, k) /\ At(o, k) \in Index
<1>1. (o + k) % LEN = At(o, k)
  BY LenAssumption, Turn DEF Index, At
<1>2. At(o, k) \in Index
  BY LenAssumption DEF Index, At
<1> QED BY <1>1, <1>2

\* The characters between two pointers.
LEMMA UsedRange ==
  ASSUME NEW a \in Index, NEW b \in Index
  PROVE  /\ Used(a, b) = IF b >= a THEN b - a ELSE b - a + LEN
         /\ Used(a, b) \in 0 .. LEN - 1
         /\ Used(a, b) = 0 <=> a = b
<1>1. CASE b >= a
  <2>1. b - a \in 0 .. LEN - 1
    BY <1>1, LenAssumption DEF Index
  <2>2. \A l, x \in Nat : x < l => x % l = x
    OBVIOUS
  <2>3. (b - a) % LEN = b - a
    BY <2>1, <2>2, LenAssumption
  <2> QED BY <1>1, <2>1, <2>3, LenAssumption DEF Index, Used
<1>2. CASE b < a
  <2>1. LEN \in Nat /\ a - b \in 1 .. LEN - 1
    BY <1>2, LenAssumption DEF Index
  <2>2. \A l \in Nat : \A x \in 1 .. l - 1 : (0 - x) % l = l - x
    OBVIOUS
  <2>3. (0 - (a - b)) % LEN = LEN - (a - b)
    BY <2>1, <2>2
  <2>4. b - a = 0 - (a - b)
    BY LenAssumption DEF Index
  <2>5. Used(a, b) = LEN - (a - b)
    BY <2>3, <2>4 DEF Used
  <2> QED BY <1>2, <2>1, <2>5, LenAssumption DEF Index
<1> QED BY <1>1, <1>2, LenAssumption DEF Index

LEMMA RingType ==
  ASSUME NEW buf \in [Index -> Char], NEW o \in Index, NEW i \in Index
  PROVE  /\ Ring(buf, o, i) \in Seq(Char)
         /\ Len(Ring(buf, o, i)) = Used(o, i)
         /\ \A k \in 1 .. Used(o, i) : Ring(buf, o, i)[k] = buf[At(o, k - 1)]
<1>1. Used(o, i) \in Nat /\ Used(o, i) <= LEN - 1 /\ LEN \in Nat
  BY UsedRange, LenAssumption
<1>2. \A k \in 1 .. Used(o, i) : /\ (o + k - 1) % LEN = At(o, k - 1)
                                 /\ At(o, k - 1) \in Index
  <2> TAKE k \in 1 .. Used(o, i)
  <2>1. k - 1 \in 0 .. LEN /\ o + k - 1 = o + (k - 1)
    BY <1>1 DEF Index
  <2> QED BY <2>1, TurnAt
<1>3. Ring(buf, o, i) \in [1 .. Used(o, i) -> Char]
  BY <1>2 DEF Ring
<1>4. Ring(buf, o, i) \in Seq(Char)
  BY <1>1, <1>3, SeqDef
<1>5. Len(Ring(buf, o, i)) = Used(o, i)
  BY <1>1, <1>3, <1>4
<1> QED BY <1>2, <1>4, <1>5 DEF Ring

\* n characters leave at the front.
Oldest(buf, o, n) == [k \in 1 .. n |-> buf[At(o, k - 1)]]

LEMMA RingDrop ==
  ASSUME NEW buf \in [Index -> Char], NEW o \in Index, NEW i \in Index,
         NEW n \in 0 .. Used(o, i)
  PROVE  /\ At(o, n) \in Index
         /\ Used(At(o, n), i) = Used(o, i) - n
         /\ Oldest(buf, o, n) \in Seq(Char)
         /\ Ring(buf, o, i) = Oldest(buf, o, n) \o Ring(buf, At(o, n), i)
<1> DEFINE s == Oldest(buf, o, n)
           p == At(o, n)
           r == Ring(buf, o, i)
           t == Ring(buf, p, i)
<1>1. Used(o, i) \in 0 .. LEN - 1 /\ n \in Nat /\ LEN \in Nat /\ n <= LEN
  BY UsedRange, LenAssumption
<1>2. p \in Index
  BY <1>1, TurnAt
<1>3. Used(p, i) = Used(o, i) - n
  <2>1. Used(p, i) = IF i >= p THEN i - p ELSE i - p + LEN
    BY <1>2, UsedRange
  <2>2. Used(o, i) = IF i >= o THEN i - o ELSE i - o + LEN
    BY UsedRange
  <2>3. p = IF o + n < LEN THEN o + n ELSE o + n - LEN
    BY DEF At
  <2>4. o \in 0 .. LEN - 1 /\ i \in 0 .. LEN - 1
    BY DEF Index
  <2> HIDE DEF p
  <2> QED BY <1>1, <2>1, <2>2, <2>3, <2>4
<1>4. \A k \in 1 .. n : At(o, k - 1) \in Index
  <2> TAKE k \in 1 .. n
  <2>1. k - 1 \in 0 .. LEN
    BY <1>1
  <2> QED BY <2>1, TurnAt
<1>5. s \in Seq(Char) /\ Len(s) = n
  <2>1. s \in [1 .. n -> Char]
    BY <1>4 DEF Oldest
  <2>2. s \in Seq(Char)
    BY <1>1, <2>1, SeqDef
  <2> QED BY <1>1, <2>1, <2>2
<1>6. /\ r \in Seq(Char) /\ Len(r) = Used(o, i)
      /\ \A k \in 1 .. Used(o, i) : r[k] = buf[At(o, k - 1)]
  BY RingType
<1>7. /\ t \in Seq(Char) /\ Len(t) = Used(o, i) - n
      /\ \A k \in 1 .. Used(o, i) - n : t[k] = buf[At(p, k - 1)]
  <2> HIDE DEF p
  <2>1. /\ t \in Seq(Char) /\ Len(t) = Used(p, i)
        /\ \A k \in 1 .. Used(p, i) : t[k] = buf[At(p, k - 1)]
    BY <1>2, RingType
  <2> QED BY <1>3, <2>1
<1> HIDE DEF r, t, p, s
<1>8. /\ s \o t \in Seq(Char) /\ Len(s \o t) = Used(o, i)
      /\ \A k \in 1 .. Used(o, i) : (s \o t)[k] = IF k <= n THEN s[k] ELSE t[k - n]
  <2>1. Len(s) + Len(t) = Used(o, i)
    BY <1>1, <1>5, <1>7
  <2>2. /\ s \o t \in Seq(Char) /\ Len(s \o t) = Len(s) + Len(t)
        /\ \A k \in 1 .. Len(s) + Len(t) :
             (s \o t)[k] = IF k <= Len(s) THEN s[k] ELSE t[k - Len(s)]
    BY <1>5, <1>7, ConcatProperties
  <2> QED BY <1>5, <2>1, <2>2
<1>9. \A k \in 1 .. Used(o, i) : r[k] = (s \o t)[k]
  <2> TAKE k \in 1 .. Used(o, i)
  <2>1. CASE k <= n
    <3>1. k \in 1 .. n
      BY <1>1, <2>1
    <3>2. s[k] = buf[At(o, k - 1)]
      BY <3>1 DEF Oldest, s
    <3>3. (s \o t)[k] = s[k]
      BY <1>8, <2>1
    <3>4. r[k] = buf[At(o, k - 1)]
      BY <1>6
    <3> QED BY <3>2, <3>3, <3>4, Zenon
  <2>2. CASE k > n
    <3>1. k - n \in 1 .. Used(o, i) - n /\ k - n - 1 \in Nat
      BY <1>1, <2>2
    <3>2. At(p, k - n - 1) = At(o, k - 1)
      BY <1>1, <1>2, <2>2, LenAssumption DEF At, Index, p
    <3>3. t[k - n] = buf[At(o, k - 1)]
      BY <1>7, <3>1, <3>2
    <3>4. (s \o t)[k] = t[k - n]
      BY <1>1, <1>8, <2>2
    <3> QED BY <1>6, <3>3, <3>4
  <2>3. k <= n \/ k > n
    BY <1>1
  <2> QED BY <2>1, <2>2, <2>3, Zenon
<1>10. r = s \o t
  BY <1>6, <1>8, <1>9, SeqEqual
<1> QED BY <1>2, <1>3, <1>5, <1>10 DEF r, t, p, s

\* n characters come at the end, where nothing stood that is still needed.
LEMMA RingGrow ==
  ASSUME NEW buf \in [Index -> Char], NEW new \in [Index -> Char],
         NEW o \in Index, NEW i \in Index, NEW n \in 0 .. LEN - 1 - Used(o, i),
         \A k \in 0 .. Used(o, i) - 1 : new[At(o, k)] = buf[At(o, k)]
  PROVE  /\ At(i, n) \in Index
         /\ Used(o, At(i, n)) = Used(o, i) + n
         /\ Ring(new, o, At(i, n)) \in Seq(Char)
         /\ Len(Ring(new, o, At(i, n))) = Used(o, i) + n
         /\ \A k \in 1 .. Used(o, i) : Ring(new, o, At(i, n))[k] = Ring(buf, o, i)[k]
<1>1. Used(o, i) \in 0 .. LEN - 1 /\ LEN \in Nat /\ n \in 0 .. LEN
  BY UsedRange, LenAssumption
<1>2. At(i, n) \in Index
  BY <1>1, TurnAt
<1>3. Used(o, At(i, n)) = Used(o, i) + n
  <2> DEFINE p == At(i, n)
  <2>1. Used(o, p) = IF p >= o THEN p - o ELSE p - o + LEN
    BY <1>2, UsedRange
  <2>2. Used(o, i) = IF i >= o THEN i - o ELSE i - o + LEN
    BY UsedRange
  <2>3. p = IF i + n < LEN THEN i + n ELSE i + n - LEN
    BY DEF At
  <2>4. o \in 0 .. LEN - 1 /\ i \in 0 .. LEN - 1 /\ n \in 0 .. LEN - 1 - Used(o, i)
    BY DEF Index
  <2> HIDE DEF p
  <2>5. Used(o, p) = Used(o, i) + n
    BY <1>1, <2>1, <2>2, <2>3, <2>4
  <2> QED BY <2>5 DEF p
<1>4. \A k \in 1 .. Used(o, i) : Ring(new, o, At(i, n))[k] = Ring(buf, o, i)[k]
  <2> TAKE k \in 1 .. Used(o, i)
  <2>1. Ring(buf, o, i)[k] = buf[At(o, k - 1)]
    BY RingType
  <2>2. k \in 1 .. Used(o, At(i, n))
    BY <1>1, <1>3
  <2>3. Ring(new, o, At(i, n))[k] = new[At(o, k - 1)]
    BY <1>2, <2>2, RingType
  <2>4. k - 1 \in 0 .. Used(o, i) - 1
    BY <1>1
  <2> QED BY <2>1, <2>3, <2>4
<1>5. Ring(new, o, At(i, n)) \in Seq(Char) /\ Len(Ring(new, o, At(i, n))) = Used(o, i) + n
  BY <1>2, <1>3, RingType
<1> QED BY <1>2, <1>3, <1>4, <1>5
-----------------------------------------------------------------------------
(* The inductive invariant.                                                *)

\* Until the handler is registered nothing moves.
Booting == ~Registered => isr = "off" /\ tx_in = tx_out

\* A snapshot that a call has taken of a pointer is on the safe side: the
\* routine has only made room in the one ring, and added to the other.
Snapshots == /\ pc = "copy" => Used(tx_out, tx_in) <= Used(out, tx_in)
             /\ pc = "deliver" => Used(rx_out, in) <= Used(rx_out, rx_in)

\* So is the room in the FIFO that the routine has read.
Room == Len(wfifo) + space <= WDepth

IInv == TypeOK /\ Booting /\ Snapshots /\ Room /\ NothingStranded

\* The pointers and the counter of characters turn.
LEMMA Turns ==
  /\ \A x \in Index : At(x, 1) \in Index /\ (x + 1) % LEN = At(x, 1)
  /\ \A x \in Int : x % Alphabet \in Char
  /\ 0 \in Index /\ 0 \in Char
<1>1. \A a \in Nat \ {0} : \A x \in Int : x % a \in 0 .. a - 1
  OBVIOUS
<1>2. \A x \in Int : x % Alphabet \in Char
  BY <1>1, CountAssumption DEF Char
<1>3. \A x \in Index : At(x, 1) \in Index /\ (x + 1) % LEN = At(x, 1)
  <2>1. 1 \in 0 .. LEN
    BY LenAssumption
  <2> QED BY <2>1, TurnAt
<1> QED BY <1>2, <1>3, LenAssumption, CountAssumption DEF Index, Char

(* The parts of TypeOK.                                                    *)
Point == {"timer", "uart", "idle", "fill", "copy", "kick", "spin", "decide",
          "take", "deliver", "await", "reenable", "close"}
CallOK == /\ pc \in Point /\ ticking \in BOOLEAN /\ count \in 0 .. MaxCount
          /\ nonblock \in BOOLEAN /\ moved \in BOOLEAN /\ out \in Index /\ in \in Index
StateOK == /\ irq_enable \subseteq {"RE", "WE"}
           /\ timeout \in 0 .. INT_MAX /\ host_inactive \in 0 .. INT_MAX - 2
RingsOK == /\ rx_in \in Index /\ rx_out \in Index /\ tx_in \in Index /\ tx_out \in Index
           /\ rx_buf \in [Index -> Char] /\ tx_buf \in [Index -> Char]
ChipOK == /\ wfifo \in Seq(Char) /\ Len(wfifo) <= WDepth
          /\ rfifo \in Seq(Char) /\ Len(rfifo) <= RDepth
          /\ AC \in BOOLEAN /\ sent \in Char /\ rsent \in Char
RoutineOK == /\ isr \in {"off", "control", "rx", "tx"} /\ wi \in BOOLEAN /\ avail \in BOOLEAN
             /\ space \in 0 .. WDepth
GotOK == got \in Seq(Char)

LEMMA Parts ==
  /\ TypeOK <=> CallOK /\ StateOK /\ RingsOK /\ ChipOK /\ RoutineOK /\ GotOK
  /\ TypeOK' <=> CallOK' /\ StateOK' /\ RingsOK' /\ ChipOK' /\ RoutineOK' /\ GotOK'
<1>1. TypeOK <=> CallOK /\ StateOK /\ RingsOK /\ ChipOK /\ RoutineOK /\ GotOK
  BY DEF TypeOK, CallOK, StateOK, RingsOK, ChipOK, RoutineOK, GotOK, Point
<1>2. TypeOK' <=> CallOK' /\ StateOK' /\ RingsOK' /\ ChipOK' /\ RoutineOK' /\ GotOK'
  BY DEF TypeOK, CallOK, StateOK, RingsOK, ChipOK, RoutineOK, GotOK, Point
<1> QED BY <1>1, <1>2

\* What a step leaves alone keeps its type.
LEMMA Untouched ==
  /\ CallOK /\ UNCHANGED call => CallOK'
  /\ StateOK /\ UNCHANGED <<irq_enable, timeout, host_inactive>> => StateOK'
  /\ RingsOK /\ UNCHANGED <<rx_in, rx_out, tx_in, tx_out, rx_buf, tx_buf>> => RingsOK'
  /\ ChipOK /\ UNCHANGED <<chip, sent>> => ChipOK'
  /\ RoutineOK /\ UNCHANGED routine => RoutineOK'
  /\ got' = <<>> => GotOK'
<1>1. CallOK /\ UNCHANGED call => CallOK'
  BY DEF call, locals, CallOK
<1>2. StateOK /\ UNCHANGED <<irq_enable, timeout, host_inactive>> => StateOK'
  BY DEF StateOK
<1>3. RingsOK /\ UNCHANGED <<rx_in, rx_out, tx_in, tx_out, rx_buf, tx_buf>> => RingsOK'
  BY DEF RingsOK
<1>4. ChipOK /\ UNCHANGED <<chip, sent>> => ChipOK'
  BY DEF chip, ChipOK
<1>5. RoutineOK /\ UNCHANGED routine => RoutineOK'
  BY DEF routine, RoutineOK
<1>6. got' = <<>> => GotOK'
  BY DEF GotOK
<1> QED BY <1>1, <1>2, <1>3, <1>4, <1>5, <1>6

LEMMA Bounds ==
  /\ 0 \in 0 .. MaxCount /\ 1 .. MaxCount \subseteq 0 .. MaxCount
  /\ DefaultTimeout \in 0 .. INT_MAX /\ INT_MAX \in 0 .. INT_MAX /\ INT_MAX - 1 \in 0 .. INT_MAX
  /\ 0 \in 0 .. INT_MAX - 2 /\ 0 \in 0 .. WDepth
  BY CountAssumption, TimeoutAssumption, DepthAssumption

LEMMA InitIInv == Init => IInv
<1> SUFFICES ASSUME Init PROVE IInv
  OBVIOUS
<1>1. CallOK
  BY Turns, Bounds DEF Init, CallOK, Point
<1>2. StateOK /\ RoutineOK
  BY Bounds DEF Init, StateOK, RoutineOK
<1>3. RingsOK
  BY Turns DEF Init, RingsOK
<1>4. ChipOK /\ GotOK
  BY Turns, DepthAssumption DEF Init, ChipOK, GotOK
<1>5. Booting /\ Snapshots /\ NothingStranded
  BY DEF Init, Booting, Snapshots, NothingStranded, Registered
<1>6. Room
  BY DepthAssumption DEF Init, Room
<1> QED BY <1>1, <1>2, <1>3, <1>4, <1>5, <1>6, Parts DEF IInv

LEMMA UsedStep ==
  ASSUME NEW a \in Index, NEW b \in Index
  PROVE  /\ a # b => Used(At(a, 1), b) = Used(a, b) - 1
         /\ At(b, 1) # a => Used(a, At(b, 1)) = Used(a, b) + 1
<1>1. At(a, 1) \in Index /\ At(b, 1) \in Index
  BY Turns
<1>2. /\ Used(a, b) = IF b >= a THEN b - a ELSE b - a + LEN
      /\ Used(At(a, 1), b) = IF b >= At(a, 1) THEN b - At(a, 1) ELSE b - At(a, 1) + LEN
      /\ Used(a, At(b, 1)) = IF At(b, 1) >= a THEN At(b, 1) - a ELSE At(b, 1) - a + LEN
  BY <1>1, UsedRange
<1> QED BY <1>1, <1>2, LenAssumption DEF At, Index

\* The calls and the boot, as far as the rings are left alone.
LEMMA GotoType ==
  ASSUME CallOK, NEW p \in Point, Goto(p)
  PROVE  CallOK'
<1>1. CASE p = "idle"
  BY <1>1, Turns, Bounds DEF CallOK, Goto, locals
<1>2. CASE p # "idle"
  BY <1>2 DEF CallOK, Goto, locals
<1> QED BY <1>1, <1>2

CallStep == \/ Calls \/ TimerInit \/ UartInit \/ Fill \/ Kick \/ Spin \/ Decide
            \/ Take \/ Await \/ Reenable \/ Closing

LEMMA CallType ==
  ASSUME TypeOK, CallStep, got' = <<>>
  PROVE  /\ TypeOK'
         /\ UNCHANGED <<rx_in, rx_out, tx_in, tx_out, rx_buf, tx_buf, chip, sent, routine>>
<1>0. CallOK /\ StateOK
  BY Parts
<1> USE DEF state
<1>1. UNCHANGED <<rx_in, rx_out, tx_in, tx_out, rx_buf, tx_buf, chip, sent, routine>>
  BY DEF CallStep, Calls, Write, Read, Close, SetTimeout, TimerInit, UartInit, Fill, Kick, Spin,
         Decide, Take, Await, Reenable, Closing
<1>2. CallOK'
  <2>1. ASSUME NEW c \in 1 .. MaxCount, NEW nb \in Flags, Write(c, nb)
        PROVE  CallOK'
    BY <1>0, <2>1, Turns, CallAssumption, Bounds DEF Write, CallOK, Point
  <2>2. ASSUME NEW c \in 1 .. MaxCount, NEW nb \in Flags, Read(c, nb)
        PROVE  CallOK'
    BY <1>0, <2>2, Turns, CallAssumption, Bounds DEF Read, CallOK, Point
  <2>3. ASSUME NEW nb \in Flags, Close(nb)
        PROVE  CallOK'
    BY <1>0, <2>3, CallAssumption DEF Close, CallOK, Point
  <2>4. CASE \E t \in Timeouts : SetTimeout(t)
    BY <1>0, <2>4, Untouched DEF SetTimeout
  <2>5. CASE TimerInit \/ UartInit \/ Spin
    BY <1>0, <2>5 DEF TimerInit, UartInit, Spin, CallOK, Point
  <2>6. CASE Fill
    BY <1>0, <2>6, Parts DEF Fill, CallOK, Point, RingsOK
  <2>7. CASE Kick
    BY <1>0, <2>7, GotoType DEF Kick, Point
  <2>8. CASE Decide \/ Await \/ Reenable \/ Closing
    BY <1>0, <2>8, GotoType DEF Decide, Await, Reenable, Closing, Point
  <2>9. CASE Take
    <3>1. CASE count > 0 /\ Run(rx_in, rx_out) > 0
      BY <1>0, <2>9, <3>1, Parts DEF Take, CallOK, Point, RingsOK
    <3>2. CASE ~(count > 0 /\ Run(rx_in, rx_out) > 0) /\ (moved \/ nonblock)
      BY <1>0, <2>9, <3>2, GotoType DEF Take, Point
    <3>3. CASE ~(count > 0 /\ Run(rx_in, rx_out) > 0) /\ ~(moved \/ nonblock)
      BY <1>0, <2>9, <3>3, Parts DEF Take, CallOK, Point, RingsOK
    <3> QED BY <3>1, <3>2, <3>3
  <2> QED BY <2>1, <2>2, <2>3, <2>4, <2>5, <2>6, <2>7, <2>8, <2>9 DEF CallStep, Calls
<1>3. StateOK'
  <2>1. CASE Calls
    <3>1. ASSUME NEW t \in Timeouts, SetTimeout(t)
          PROVE  StateOK'
      <4>1. t \in Nat
        BY CallAssumption
      <4>2. t < INT_MAX => t \in 0 .. INT_MAX
        BY <4>1, TimeoutAssumption
      <4> QED BY <1>0, <3>1, <4>2, Bounds DEF SetTimeout, StateOK
    <3>2. CASE \E c \in 1 .. MaxCount, nb \in Flags : Write(c, nb) \/ Read(c, nb) \/ Close(nb)
      <4>1. UNCHANGED <<irq_enable, timeout, host_inactive>>
        BY <3>2 DEF Write, Read, Close
      <4> QED BY <1>0, <4>1, Untouched
    <3>3. ASSUME NEW nb \in Flags, Close(nb)
          PROVE  StateOK'
      BY <1>0, <3>3, Untouched DEF Close
    <3> QED BY <2>1, <3>1, <3>2, <3>3 DEF Calls
  <2>2. CASE UartInit
    BY <1>0, <2>2, Bounds DEF UartInit, StateOK
  <2>3. CASE Kick \/ Reenable
    BY <1>0, <2>3 DEF Kick, Reenable, Reenabled, StateOK
  <2>4. CASE TimerInit \/ Fill \/ Spin \/ Decide \/ Take \/ Await \/ Closing
    <3>1. UNCHANGED <<irq_enable, timeout, host_inactive>>
      BY <2>4 DEF TimerInit, Fill, Spin, Decide, Take, Await, Closing
    <3> QED BY <1>0, <3>1, Untouched
  <2> QED BY <2>1, <2>2, <2>3, <2>4 DEF CallStep
<1> QED BY <1>1, <1>2, <1>3, Parts, Untouched

\* A pass of the routine begins with a look at the control register.
LEMMA PassType ==
  ASSUME TypeOK, NEW ri \in BOOLEAN, NEW w \in BOOLEAN, Pass(ri, w), got' = <<>>
  PROVE  TypeOK' /\ Len(wfifo') + space' <= WDepth
<1>1. RoutineOK /\ ChipOK
  BY Parts
<1>2. WDepth - Len(wfifo) \in 0 .. WDepth /\ Len(wfifo) \in Nat
  BY <1>1, DepthAssumption DEF ChipOK
<1>3. RoutineOK'
  BY <1>1, <1>2, Bounds DEF Pass, RoutineOK
<1>4. UNCHANGED <<state, chip, sent, call>>
  BY DEF Pass
<1>5. Len(wfifo') + space' <= WDepth
  <2>1. wfifo' = wfifo /\ space' = IF w THEN WDepth - Len(wfifo) ELSE 0
    BY <1>4 DEF Pass, chip
  <2> QED BY <1>1, <1>2, <2>1, DepthAssumption DEF ChipOK
<1> QED BY <1>3, <1>4, <1>5, Parts, Untouched DEF state

LEMMA PendingBoolean == \A p \in Pending : p[1] \in BOOLEAN /\ p[2] \in BOOLEAN
  BY DEF Pending

LEMMA RoutineType ==
  ASSUME TypeOK, Room, Enter \/ Routine, got' = <<>>
  PROVE  TypeOK' /\ Room' /\ UNCHANGED <<call, sent, timeout, host_inactive, tx_in, rx_out, tx_buf>>
<1>0. RoutineOK /\ ChipOK /\ RingsOK /\ StateOK /\ CallOK
  BY Parts
<1>1. CASE Enter \/ Control
  <2>1. CASE \E p \in Pending : (p[1] \/ p[2]) /\ Pass(p[1], p[2])
    <3>1. PICK p \in Pending : Pass(p[1], p[2])
      BY <2>1
    <3>2. p[1] \in BOOLEAN /\ p[2] \in BOOLEAN
      BY PendingBoolean
    <3>3. TypeOK' /\ Room'
      BY <3>1, <3>2, PassType DEF Room
    <3> QED BY <3>1, <3>3 DEF Pass, state
  <2>2. CASE isr' = "off" /\ UNCHANGED <<state, chip, sent, call, wi, space, avail>>
    BY <1>0, <2>2, Parts, Untouched DEF state, RoutineOK, Room, chip
  <2> QED BY <1>1, <2>1, <2>2 DEF Enter, Control
<1>2. CASE RxChar
  <2>1. rfifo # <<>> /\ rfifo' = Tail(rfifo)
    BY <1>2 DEF RxChar
  <2>2. /\ Head(rfifo) \in Char /\ rfifo' \in Seq(Char) /\ Len(rfifo') = Len(rfifo) - 1
    BY <1>0, <2>1, HeadTailProperties DEF ChipOK
  <2>3. ChipOK'
    <3>1. Len(rfifo') <= RDepth
      BY <1>0, <2>2, DepthAssumption DEF ChipOK
    <3> QED BY <1>0, <1>2, <2>2, <3>1 DEF RxChar, ChipOK
  <2>4. RingsOK'
    BY <1>0, <1>2, <2>2, Turns DEF RxChar, RingsOK
  <2>5. RoutineOK' /\ Room'
    BY <1>0, <1>2 DEF RxChar, RoutineOK, Room
  <2>6. UNCHANGED <<call, sent, timeout, host_inactive, irq_enable, tx_in, rx_out, tx_buf>>
    BY <1>2 DEF RxChar
  <2> QED BY <1>0, <2>3, <2>4, <2>5, <2>6, Parts, Untouched
<1>3. CASE RxDone
  <2>1. UNCHANGED <<call, rx_in, rx_out, tx_in, tx_out, rx_buf, tx_buf, chip, sent, timeout, host_inactive>>
    BY <1>3 DEF RxDone
  <2>2. RoutineOK' /\ StateOK' /\ Room'
    BY <1>0, <1>3 DEF RxDone, RoutineOK, StateOK, Room, chip
  <2> QED BY <1>0, <2>1, <2>2, Parts, Untouched
<1>4. CASE TxChar
  <2>1. tx_buf[tx_out] \in Char /\ wfifo' = Append(wfifo, tx_buf[tx_out]) /\ space' = space - 1 /\ space > 0
    BY <1>0, <1>4 DEF TxChar, RingsOK
  <2>2. wfifo' \in Seq(Char) /\ Len(wfifo') = Len(wfifo) + 1 /\ Len(wfifo) \in Nat
    BY <1>0, <2>1 DEF ChipOK
  <2>3. space' \in 0 .. WDepth /\ Room' /\ Len(wfifo') <= WDepth
    BY <1>0, <2>1, <2>2, DepthAssumption DEF RoutineOK, Room
  <2>4. ChipOK'
    BY <1>0, <1>4, <2>2, <2>3 DEF TxChar, ChipOK
  <2>5. RingsOK' /\ RoutineOK'
    BY <1>0, <1>4, <2>3, Turns DEF TxChar, RingsOK, RoutineOK
  <2>6. UNCHANGED <<call, sent, timeout, host_inactive, irq_enable, tx_in, rx_out, tx_buf>>
    BY <1>4 DEF TxChar
  <2> QED BY <1>0, <2>3, <2>4, <2>5, <2>6, Parts, Untouched
<1>5. CASE TxDone
  <2>1. UNCHANGED <<call, rx_in, rx_out, tx_in, tx_out, rx_buf, tx_buf, chip, sent, timeout, host_inactive>>
    BY <1>5 DEF TxDone
  <2>2. RoutineOK' /\ StateOK'
    BY <1>0, <1>5, Bounds DEF TxDone, RoutineOK, StateOK
  <2>3. Room'
    BY <1>0, <1>5 DEF TxDone, Room, ChipOK, chip
  <2> QED BY <1>0, <2>1, <2>2, <2>3, Parts, Untouched
<1> QED BY <1>1, <1>2, <1>3, <1>4, <1>5 DEF Routine

LEMMA HostType ==
  ASSUME TypeOK, Room, HostTake \/ ((Timeout \/ HostSend \/ HostPoll) /\ got' = <<>>)
  PROVE  /\ TypeOK' /\ Room'
         /\ UNCHANGED <<call, sent, routine, irq_enable, timeout, rx_in, rx_out, tx_in, tx_out, rx_buf, tx_buf>>
<1>0. RoutineOK /\ ChipOK /\ RingsOK /\ StateOK /\ CallOK
  BY Parts
<1>1. UNCHANGED <<call, sent, routine, irq_enable, timeout, rx_in, rx_out, tx_in, tx_out, rx_buf, tx_buf>>
  BY DEF HostTake, Timeout, HostSend, HostPoll, state
<1>2. StateOK'
  <2>1. \A x \in 0 .. INT_MAX - 2 : x < INT_MAX - 2 => x + 1 \in 0 .. INT_MAX - 2
    BY TimeoutAssumption
  <2>2. host_inactive' \in {0, host_inactive}
          \/ (host_inactive < INT_MAX - 2 /\ host_inactive' = host_inactive + 1)
    BY DEF HostTake, Timeout, HostSend, HostPoll, state
  <2>3. host_inactive' \in 0 .. INT_MAX - 2
    BY <1>0, <2>1, <2>2, Bounds DEF StateOK
  <2> QED BY <1>0, <1>1, <2>3 DEF StateOK
<1>3. ChipOK' /\ Room' /\ GotOK'
  <2>1. CASE HostTake
    <3>1. wfifo # <<>> /\ wfifo' = Tail(wfifo) /\ got' = <<Head(wfifo)>>
      BY <2>1 DEF HostTake
    <3>2. Head(wfifo) \in Char /\ wfifo' \in Seq(Char) /\ Len(wfifo') = Len(wfifo) - 1 /\ Len(wfifo) \in Nat
      BY <1>0, <3>1, HeadTailProperties DEF ChipOK
    <3>3. Len(wfifo') <= WDepth
      BY <1>0, <3>2, DepthAssumption DEF ChipOK
    <3>4. ChipOK'
      BY <1>0, <2>1, <3>2, <3>3 DEF HostTake, ChipOK
    <3>5. Room'
      BY <1>0, <1>1, <3>2, DepthAssumption DEF Room, routine, RoutineOK
    <3>6. GotOK'
      BY <3>1, <3>2 DEF GotOK
    <3> QED BY <3>4, <3>5, <3>6
  <2>2. CASE HostSend /\ got' = <<>>
    <3>1. rfifo' \in Seq(Char) /\ Len(rfifo') = Len(rfifo) + 1
      BY <1>0, <2>2 DEF HostSend, ChipOK
    <3>2. Len(rfifo') <= RDepth
      BY <1>0, <2>2, <3>1, DepthAssumption DEF HostSend, ChipOK
    <3>3. rsent' \in Char
      <4>1. rsent + 1 \in Int
        BY <1>0, CountAssumption DEF ChipOK, Char
      <4> QED BY <2>2, <4>1, Turns DEF HostSend
    <3> QED BY <1>0, <1>1, <2>2, <3>1, <3>2, <3>3, Untouched DEF HostSend, ChipOK, Room, routine
  <2>3. CASE (Timeout \/ HostPoll) /\ got' = <<>>
    BY <1>0, <1>1, <2>3, Untouched DEF Timeout, HostPoll, ChipOK, Room, routine
  <2> QED BY <2>1, <2>2, <2>3
<1> QED BY <1>0, <1>1, <1>2, <1>3, Parts, Untouched

\* The number of characters that a copy moves.
LEMMA CopyRange ==
  ASSUME TypeOK, Snapshots, pc = "copy"
  PROVE  LET n == Least(Gap(tx_in, out), count)
         IN /\ n \in 0 .. LEN - 1 - Used(tx_out, tx_in)
            /\ tx_in + n <= LEN /\ n <= count
<1>1. tx_in \in Index /\ tx_out \in Index /\ out \in Index /\ count \in Nat
  BY CountAssumption DEF TypeOK
<1>2. Used(tx_out, tx_in) <= Used(out, tx_in)
  BY DEF Snapshots
<1>3. Used(out, tx_in) = IF tx_in >= out THEN tx_in - out ELSE tx_in - out + LEN
  BY <1>1, UsedRange
<1>4. Used(tx_out, tx_in) \in 0 .. LEN - 1
  BY <1>1, UsedRange
<1>5. /\ Gap(tx_in, out) \in 0 .. LEN - 1 - Used(tx_out, tx_in)
      /\ tx_in + Gap(tx_in, out) <= LEN
  BY <1>1, <1>2, <1>3, <1>4, LenAssumption DEF Gap, Index
<1>6. \A a, b \in Nat : Least(a, b) \in 0 .. a /\ Least(a, b) <= b
  BY DEF Least
<1>7. Gap(tx_in, out) \in Nat
  BY <1>4, <1>5, LenAssumption
<1>8. Least(Gap(tx_in, out), count) \in 0 .. Gap(tx_in, out) /\ Least(Gap(tx_in, out), count) <= count
  BY <1>1, <1>6, <1>7
<1> QED BY <1>1, <1>4, <1>5, <1>7, <1>8, LenAssumption DEF Index

LEMMA CopyType ==
  ASSUME TypeOK, Snapshots, Copy, got' = <<>>
  PROVE  TypeOK' /\ UNCHANGED <<chip, routine, irq_enable, tx_out, rx_in, rx_out, rx_buf>>
<1>0. ChipOK /\ RingsOK /\ StateOK /\ CallOK /\ RoutineOK
  BY Parts
<1> DEFINE n == Least(Gap(tx_in, out), count)
<1>1. pc = "copy" /\ pc' = "fill"
  BY DEF Copy
<1>2. n \in 0 .. LEN - 1 - Used(tx_out, tx_in) /\ tx_in + n <= LEN /\ n <= count
  BY <1>1, CopyRange
<1>3. n \in 0 .. LEN /\ n \in Nat
  <2>1. Used(tx_out, tx_in) \in 0 .. LEN - 1
    BY <1>0, UsedRange DEF RingsOK
  <2> QED BY <1>2, <2>1, LenAssumption
<1>4. /\ tx_buf' = [i \in Index |-> IF tx_in <= i /\ i < tx_in + n
                                     THEN (sent + i - tx_in) % Alphabet ELSE tx_buf[i]]
      /\ tx_in' = (tx_in + n) % LEN
      /\ count' = count - n
      /\ sent' = (sent + n) % Alphabet
  BY DEF Copy
<1> HIDE DEF n
<1>5. RingsOK'
  <2>1. tx_in' \in Index
    BY <1>0, <1>3, <1>4, TurnAt DEF RingsOK
  <2>2. \A i \in Index : sent + i - tx_in \in Int
    BY <1>0, CountAssumption, LenAssumption DEF ChipOK, RingsOK, Char, Index
  <2>3. tx_buf' \in [Index -> Char]
    BY <1>0, <1>4, <2>2, Turns DEF RingsOK
  <2> QED BY <1>0, <2>1, <2>3 DEF Copy, RingsOK
<1>6. CallOK'
  <2>1. count' \in 0 .. MaxCount
    BY <1>0, <1>2, <1>3, <1>4, CountAssumption DEF CallOK
  <2> QED BY <1>0, <1>1, <2>1 DEF Copy, CallOK, Point
<1>7. ChipOK'
  <2>1. sent + n \in Int
    BY <1>0, <1>3, CountAssumption DEF ChipOK, Char
  <2> QED BY <1>0, <1>4, <2>1, Turns DEF Copy, ChipOK, chip
<1>8. UNCHANGED <<chip, routine, tx_out, rx_in, rx_out, rx_buf, irq_enable, timeout, host_inactive>>
  BY DEF Copy
<1> QED BY <1>0, <1>5, <1>6, <1>7, <1>8, Parts, Untouched

\* The number of characters that a read takes.
LEMMA ReadRange ==
  ASSUME TypeOK, Snapshots, pc = "deliver"
  PROVE  LET n == Least(Run(in, rx_out), count)
         IN /\ n \in 0 .. Used(rx_out, rx_in)
            /\ rx_out + n <= LEN /\ n <= count
<1>1. rx_in \in Index /\ rx_out \in Index /\ in \in Index /\ count \in Nat
  BY CountAssumption DEF TypeOK
<1>2. Used(rx_out, in) <= Used(rx_out, rx_in)
  BY DEF Snapshots
<1>3. Used(rx_out, in) = IF in >= rx_out THEN in - rx_out ELSE in - rx_out + LEN
  BY <1>1, UsedRange
<1>4. Used(rx_out, rx_in) \in 0 .. LEN - 1
  BY <1>1, UsedRange
<1>5. /\ Run(in, rx_out) \in 0 .. Used(rx_out, rx_in)
      /\ rx_out + Run(in, rx_out) <= LEN
  BY <1>1, <1>2, <1>3, <1>4, LenAssumption DEF Run, Index
<1>6. \A a, b \in Nat : Least(a, b) \in 0 .. a /\ Least(a, b) <= b
  BY DEF Least
<1>7. Run(in, rx_out) \in Nat
  BY <1>4, <1>5, LenAssumption
<1>8. Least(Run(in, rx_out), count) \in 0 .. Run(in, rx_out) /\ Least(Run(in, rx_out), count) <= count
  BY <1>1, <1>6, <1>7
<1> QED BY <1>1, <1>4, <1>5, <1>7, <1>8, LenAssumption DEF Index

\* A read takes the characters at the front of the ring.
LEMMA CopyOutDrops ==
  ASSUME TypeOK, Snapshots, CopyOut
  PROVE  /\ got' \in Seq(Char)
         /\ Ring(rx_buf, rx_out, rx_in) = got' \o Ring(rx_buf, rx_out', rx_in)
         /\ rx_out' \in Index
<1> DEFINE n == Least(Run(in, rx_out), count)
<1>0. RingsOK
  BY Parts
<1>1. n \in 0 .. Used(rx_out, rx_in) /\ rx_out + n <= LEN
  BY ReadRange DEF CopyOut
<1>2. n \in 0 .. LEN /\ n \in Nat
  <2>1. Used(rx_out, rx_in) \in 0 .. LEN - 1
    BY <1>0, UsedRange DEF RingsOK
  <2> QED BY <1>1, <2>1, LenAssumption
<1>3. got' = [i \in 1 .. n |-> rx_buf[rx_out + i - 1]] /\ rx_out' = (rx_out + n) % LEN
  BY DEF CopyOut
<1> HIDE DEF n
<1>4. rx_out' = At(rx_out, n)
  BY <1>0, <1>2, <1>3, TurnAt DEF RingsOK
<1>5. \A i \in 1 .. n : rx_out + i - 1 = At(rx_out, i - 1)
  <2> TAKE i \in 1 .. n
  <2>1. rx_out + (i - 1) < LEN /\ rx_out + i - 1 = rx_out + (i - 1)
    BY <1>0, <1>1, <1>2, LenAssumption DEF RingsOK, Index
  <2> QED BY <2>1 DEF At
<1>6. got' = Oldest(rx_buf, rx_out, n)
  BY <1>3, <1>5 DEF Oldest
<1>7. /\ At(rx_out, n) \in Index
      /\ Oldest(rx_buf, rx_out, n) \in Seq(Char)
      /\ Ring(rx_buf, rx_out, rx_in)
           = Oldest(rx_buf, rx_out, n) \o Ring(rx_buf, At(rx_out, n), rx_in)
  BY <1>0, <1>1, RingDrop DEF RingsOK
<1> QED BY <1>4, <1>6, <1>7

LEMMA CopyOutType ==
  ASSUME TypeOK, Snapshots, CopyOut
  PROVE  TypeOK' /\ UNCHANGED <<chip, sent, routine, irq_enable, rx_in, tx_in, tx_out, rx_buf, tx_buf>>
<1>0. ChipOK /\ RingsOK /\ StateOK /\ CallOK /\ RoutineOK
  BY Parts
<1>1. GotOK' /\ rx_out' \in Index
  BY CopyOutDrops DEF GotOK
<1>2. UNCHANGED <<chip, sent, routine, irq_enable, timeout, host_inactive, rx_in, tx_in, tx_out, rx_buf, tx_buf>>
  BY DEF CopyOut
<1>3. count' \in 0 .. MaxCount
  <2> DEFINE n == Least(Run(in, rx_out), count)
  <2>1. n \in 0 .. Used(rx_out, rx_in) /\ n <= count
    BY ReadRange DEF CopyOut
  <2>2. count' = count - n
    BY DEF CopyOut
  <2>3. Used(rx_out, rx_in) \in Nat
    BY <1>0, UsedRange, LenAssumption DEF RingsOK
  <2> HIDE DEF n
  <2> QED BY <1>0, <2>1, <2>2, <2>3, CountAssumption DEF CallOK
<1>4. CallOK'
  BY <1>0, <1>3 DEF CopyOut, CallOK, Point
<1>5. RingsOK'
  BY <1>0, <1>1, <1>2 DEF RingsOK
<1> QED BY <1>0, <1>1, <1>2, <1>4, <1>5, Parts, Untouched

-----------------------------------------------------------------------------
(* Every step keeps the invariant.                                         *)

\* A step that keeps the rings and the place of the program.
LEMMA QuietStep ==
  ASSUME IInv, TypeOK', Room', UNCHANGED <<call, irq_enable, rx_in, rx_out, tx_in, tx_out>>,
         Registered \/ isr' = isr
  PROVE  IInv'
<1>1. Booting' /\ Snapshots' /\ NothingStranded'
  BY DEF IInv, Booting, Snapshots, NothingStranded, Registered, call, locals, Used
<1> QED BY <1>1 DEF IInv

LEMMA CallStepOK ==
  ASSUME IInv, isr = "off", CallStep, got' = <<>>
  PROVE  IInv'
<1>1. /\ TypeOK'
      /\ UNCHANGED <<rx_in, rx_out, tx_in, tx_out, rx_buf, tx_buf, chip, sent, routine>>
  BY CallType DEF IInv
<1>2. Room'
  BY <1>1 DEF IInv, Room, chip, routine
<1>3. Booting'
  <2>1. Registered' \/ ~Registered
    BY DEF CallStep, Calls, Write, Read, Close, SetTimeout, TimerInit, UartInit, Fill, Kick, Spin,
           Decide, Take, Await, Reenable, Closing, Goto, Registered, call
  <2> QED BY <1>1, <2>1 DEF IInv, Booting, routine
<1>4. Snapshots'
  <2>1. pc' = "copy" => out' = tx_out
    BY DEF CallStep, Calls, Write, Read, Close, SetTimeout, TimerInit, UartInit, Fill, Kick, Spin,
           Decide, Take, Await, Reenable, Closing, Goto, call
  <2>2. pc' = "deliver" => in' = rx_in
    BY DEF CallStep, Calls, Write, Read, Close, SetTimeout, TimerInit, UartInit, Fill, Kick, Spin,
           Decide, Take, Await, Reenable, Closing, Goto, call
  <2>3. Used(tx_out, tx_in) \in Int /\ Used(rx_out, rx_in) \in Int
    <3>1. RingsOK
      BY Parts DEF IInv
    <3> QED BY <3>1, UsedRange DEF RingsOK
  <2> QED BY <1>1, <2>1, <2>2, <2>3 DEF Snapshots
<1>5. NothingStranded'
  <2> USE DEF IInv, NothingStranded
  <2>0. UNCHANGED <<rx_in, rx_out, tx_in, tx_out>>
    BY <1>1
  <2>1. CASE Calls
    <3>1. UNCHANGED irq_enable /\ (pc = "idle" \/ UNCHANGED <<pc, moved>>)
      BY <2>1 DEF Calls, Write, Read, Close, SetTimeout, call, state
    <3>2. pc = "idle" => Registered
      BY DEF Registered
    <3> QED BY <2>0, <3>1, <3>2 DEF Registered
  <2>2. CASE TimerInit \/ UartInit
    BY <2>0, <2>2 DEF TimerInit, UartInit, Registered, Booting
  <2>3. CASE Fill
    BY <2>0, <2>3 DEF Fill, Registered, state
  <2>4. CASE Kick
    BY <2>0, <2>4 DEF Kick, Goto, Registered
  <2>5. CASE Spin \/ Decide \/ Await \/ Closing
    BY <2>0, <2>5 DEF Spin, Decide, Await, Closing, Goto, Registered, state
  <2>6. CASE Take
    <3>1. Run(rx_in, rx_out) > 0 => rx_in # rx_out
      <4>1. rx_in \in Nat /\ rx_out \in Nat
        BY LenAssumption DEF TypeOK, Index
      <4> QED BY <4>1 DEF Run
    <3> QED BY <2>0, <2>6, <3>1 DEF Take, Goto, Registered, state, locals
  <2>7. CASE Reenable
    BY <2>0, <2>7 DEF Reenable, Reenabled, Goto, Registered
  <2> QED BY <2>1, <2>2, <2>3, <2>4, <2>5, <2>6, <2>7 DEF CallStep
<1> QED BY <1>1, <1>2, <1>3, <1>4, <1>5 DEF IInv

\* The routine: it makes room in the transmit ring, adds to the receive ring,
\* and switches an interrupt off only for a ring that is empty, or full.
LEMMA RoutineStepOK ==
  ASSUME IInv, Enter \/ Routine, got' = <<>>
  PROVE  IInv'
<1>1. /\ TypeOK' /\ Room'
      /\ UNCHANGED <<call, sent, timeout, host_inactive, tx_in, rx_out, tx_buf>>
  BY RoutineType DEF IInv
<1>2. Registered /\ Registered' /\ UNCHANGED <<pc, moved, out, in>>
  <2>1. Registered
    BY DEF IInv, Booting, Enter, Routine, Control, RxChar, RxDone, TxChar, TxDone
  <2> QED BY <1>1, <2>1 DEF Registered, call, locals
<1>3. Booting'
  BY <1>2 DEF Booting
<1>4. RingsOK /\ CallOK
  BY Parts DEF IInv
<1>5. CASE Enter \/ Control
  <2>1. UNCHANGED state
    BY <1>5 DEF Enter, Control, Pass
  <2> QED BY <1>1, <1>2, <1>3, <2>1 DEF IInv, Snapshots, NothingStranded, state, Used
<1>6. CASE RxChar
  <2>1. /\ rx_in' = At(rx_in, 1) /\ rx_in' # rx_out
        /\ UNCHANGED <<irq_enable, tx_out>>
    BY <1>4, <1>6, Turns DEF RxChar, RxFull, RingsOK
  <2>2. Used(rx_out, rx_in') = Used(rx_out, rx_in) + 1 /\ Used(rx_out, rx_in) \in Int
    BY <1>4, <2>1, UsedStep, UsedRange DEF RingsOK
  <2>3. Used(rx_out, in) \in Int
    BY <1>4, UsedRange DEF RingsOK, CallOK
  <2>4. Snapshots'
    <3>1. pc = "deliver" => Used(rx_out, in) <= Used(rx_out, rx_in')
      BY <2>2, <2>3 DEF IInv, Snapshots
    <3>2. pc = "copy" => Used(tx_out, tx_in) <= Used(out, tx_in)
      BY DEF IInv, Snapshots
    <3> QED BY <1>1, <1>2, <2>1, <3>1, <3>2 DEF Snapshots
  <2>5. NothingStranded'
    BY <1>1, <1>2, <2>1 DEF IInv, NothingStranded
  <2> QED BY <1>1, <1>3, <2>4, <2>5 DEF IInv
<1>7. CASE RxDone
  <2>1. /\ UNCHANGED <<rx_in, tx_out>>
        /\ irq_enable' = irq_enable \/ (irq_enable' = irq_enable \ {"RE"} /\ RxFull)
    BY <1>7 DEF RxDone
  <2>2. RxFull => rx_in # rx_out
    <3>1. (rx_in + 1) % LEN = At(rx_in, 1)
      BY <1>4, Turns DEF RingsOK
    <3>2. At(rx_in, 1) # rx_in
      BY <1>4, LenAssumption DEF RingsOK, At, Index
    <3> QED BY <3>1, <3>2 DEF RxFull
  <2>3. NothingStranded'
    BY <1>1, <1>2, <2>1, <2>2 DEF IInv, NothingStranded
  <2>4. Snapshots'
    BY <1>1, <1>2, <2>1 DEF IInv, Snapshots, Used
  <2> QED BY <1>1, <1>3, <2>3, <2>4 DEF IInv
<1>8. CASE TxChar
  <2>1. /\ tx_out # tx_in /\ tx_out' = At(tx_out, 1)
        /\ UNCHANGED <<irq_enable, rx_in>>
    BY <1>4, <1>8, Turns DEF TxChar, RingsOK
  <2>2. Used(tx_out', tx_in) = Used(tx_out, tx_in) - 1 /\ Used(tx_out, tx_in) \in Int
    BY <1>4, <2>1, UsedStep, UsedRange DEF RingsOK
  <2>3. Used(out, tx_in) \in Int
    BY <1>4, UsedRange DEF RingsOK, CallOK
  <2>4. Snapshots'
    <3>1. pc = "copy" => Used(tx_out', tx_in) <= Used(out, tx_in)
      BY <2>2, <2>3 DEF IInv, Snapshots
    <3>2. pc = "deliver" => Used(rx_out, in) <= Used(rx_out, rx_in)
      BY DEF IInv, Snapshots
    <3> QED BY <1>1, <1>2, <2>1, <3>1, <3>2 DEF Snapshots
  <2>5. NothingStranded'
    BY <1>1, <1>2, <2>1 DEF IInv, NothingStranded
  <2> QED BY <1>1, <1>3, <2>4, <2>5 DEF IInv
<1>9. CASE TxDone
  <2>1. /\ UNCHANGED <<rx_in, tx_out>>
        /\ irq_enable' = irq_enable \/ (irq_enable' = irq_enable \ {"WE"} /\ tx_out = tx_in)
    <3>1. UNCHANGED <<rx_in, tx_out>>
      BY <1>9 DEF TxDone
    <3>2. irq_enable' = IF space > 0 THEN irq_enable \ {"WE"} ELSE irq_enable
      BY <1>9 DEF TxDone, Drained
    <3>3. space = 0 \/ tx_out = tx_in
      BY <1>9 DEF TxDone
    <3> QED BY <3>1, <3>2, <3>3
  <2>2. NothingStranded'
    BY <1>1, <1>2, <2>1 DEF IInv, NothingStranded
  <2>3. Snapshots'
    BY <1>1, <1>2, <2>1 DEF IInv, Snapshots, Used
  <2> QED BY <1>1, <1>3, <2>2, <2>3 DEF IInv
<1> QED BY <1>5, <1>6, <1>7, <1>8, <1>9 DEF Routine

LEMMA CopyStepOK ==
  ASSUME IInv, isr = "off", Copy, got' = <<>>
  PROVE  IInv'
<1>1. TypeOK' /\ UNCHANGED <<chip, routine, irq_enable, tx_out, rx_in, rx_out, rx_buf>>
  BY CopyType DEF IInv
<1>2. pc = "copy" /\ pc' = "fill"
  BY DEF Copy
<1>3. Booting' /\ Snapshots' /\ Room'
  BY <1>1, <1>2 DEF IInv, Booting, Snapshots, Room, Registered, chip, routine
<1>4. NothingStranded'
  BY <1>1, <1>2 DEF IInv, NothingStranded, Registered
<1> QED BY <1>1, <1>3, <1>4 DEF IInv

LEMMA CopyOutStepOK ==
  ASSUME IInv, isr = "off", CopyOut
  PROVE  IInv'
<1>1. TypeOK' /\ UNCHANGED <<chip, sent, routine, irq_enable, rx_in, tx_in, tx_out, rx_buf, tx_buf>>
  BY CopyOutType DEF IInv
<1>2. pc = "deliver" /\ pc' = "take" /\ moved' = TRUE
  BY DEF CopyOut
<1>3. Booting' /\ Snapshots' /\ Room' /\ NothingStranded'
  BY <1>1, <1>2 DEF IInv, Booting, Snapshots, Room, NothingStranded, Registered, chip, routine
<1> QED BY <1>1, <1>3 DEF IInv

LEMMA NextIInv == IInv /\ [Next]_vars => IInv'
<1> SUFFICES ASSUME IInv, [Next]_vars PROVE IInv'
  OBVIOUS
<1>1. CASE isr = "off" /\ CallStep /\ got' = <<>>
  BY <1>1, CallStepOK
<1>2. CASE isr = "off" /\ Copy /\ got' = <<>>
  BY <1>2, CopyStepOK
<1>3. CASE (Enter \/ Routine) /\ got' = <<>>
  BY <1>3, RoutineStepOK
<1>4. CASE HostTake \/ ((Timeout \/ HostSend \/ HostPoll) /\ got' = <<>>)
  <2>1. /\ TypeOK' /\ Room'
        /\ UNCHANGED <<call, sent, routine, irq_enable, timeout, rx_in, rx_out, tx_in, tx_out, rx_buf, tx_buf>>
    BY <1>4, HostType DEF IInv
  <2> QED BY <2>1, QuietStep DEF routine
<1>5. CASE isr = "off" /\ CopyOut
  BY <1>5, CopyOutStepOK
<1>6. CASE UNCHANGED vars
  BY <1>6 DEF vars, state, chip, call, locals, routine, IInv, TypeOK, Booting, Snapshots, Room,
              NothingStranded, Registered, Used
<1> QED BY <1>1, <1>2, <1>3, <1>4, <1>5, <1>6 DEF Next, Silent, Program, CallStep

\* The strengthened invariant of every reachable state.
THEOREM Invariance == Spec => []IInv
<1> QED BY InitIInv, NextIInv, PTL DEF Spec

\* The driver's pointers, FIFOs and counters keep their ranges, for rings and
\* FIFOs of any size.
THEOREM TypeCorrect == Spec => []TypeOK
<1>1. IInv => TypeOK
  BY DEF IInv
<1> QED BY <1>1, Invariance, PTL

\* Neither interrupt stays off while somebody waits for it
\* (_init.c:161-227 against _write.c:143 and _read.c:190).
THEOREM NothingIsStranded == Spec => []NothingStranded
<1>1. IInv => NothingStranded
  BY DEF IInv
<1> QED BY <1>1, Invariance, PTL
-----------------------------------------------------------------------------
(* Both directions implement Pipe.                                         *)

\* What it takes to be a step of Pipe.
LEMMA PutStep ==
  ASSUME NEW p \in Seq(Char), NEW q \in Seq(Char), Len(p) < Len(q),
         \A k \in 1 .. Len(p) : q[k] = p[k]
  PROVE  /\ Transmitted!IsStrictPrefix(p, q) /\ Transmitted!Range(q) \subseteq Char
         /\ Received!IsStrictPrefix(p, q) /\ Received!Range(q) \subseteq Char
<1>1. SubSeq(p, 1, Len(p)) = SubSeq(q, 1, Len(p))
  <2>1. Len(p) \in Nat /\ Len(q) \in Nat
    OBVIOUS
  <2>2. SubSeq(p, 1, Len(p)) = [k \in 1 .. Len(p) |-> p[k]]
    BY <2>1
  <2>3. SubSeq(q, 1, Len(p)) = [k \in 1 .. Len(p) |-> q[k]]
    BY <2>1
  <2> QED BY <2>2, <2>3
<1>2. p # q /\ Len(p) <= Len(q)
  OBVIOUS
<1>3. \A k \in DOMAIN q : q[k] \in Char
  OBVIOUS
<1> QED BY <1>1, <1>2, <1>3
        DEF Transmitted!IsStrictPrefix, Transmitted!IsPrefix, Transmitted!Range,
            Received!IsStrictPrefix, Received!IsPrefix, Received!Range

LEMMA EmptyPipes ==
  ASSUME Init
  PROVE  wfifo \o Ring(tx_buf, tx_out, tx_in) = <<>> /\ Ring(rx_buf, rx_out, rx_in) \o rfifo = <<>>
<1>1. RingsOK /\ wfifo = <<>> /\ rfifo = <<>> /\ tx_in = tx_out /\ rx_in = rx_out
  BY InitIInv, Parts DEF IInv, Init
<1>2. Used(tx_out, tx_in) = 0 /\ Used(rx_out, rx_in) = 0
  BY <1>1, UsedRange DEF RingsOK
<1>3. /\ Ring(tx_buf, tx_out, tx_in) \in Seq(Char) /\ Len(Ring(tx_buf, tx_out, tx_in)) = 0
      /\ Ring(rx_buf, rx_out, rx_in) \in Seq(Char) /\ Len(Ring(rx_buf, rx_out, rx_in)) = 0
  BY <1>1, <1>2, RingType DEF RingsOK
<1>4. Ring(tx_buf, tx_out, tx_in) = <<>> /\ Ring(rx_buf, rx_out, rx_in) = <<>>
  BY <1>3, EmptySeq
<1> QED BY <1>1, <1>4

TxPipe == wfifo \o Ring(tx_buf, tx_out, tx_in)
RxPipe == Ring(rx_buf, rx_out, rx_in) \o rfifo

\* The pipe that a FIFO and a ring make.
LEMMA Joined ==
  ASSUME NEW f \in Seq(Char), NEW r \in Seq(Char), NEW c \in Char
  PROVE  /\ Append(f, c) \o r = f \o (<<c>> \o r)
         /\ f # <<>> => f \o r = <<Head(f)>> \o (Tail(f) \o r)
<1>1. Append(f, c) = f \o <<c>> /\ <<c>> \in Seq(Char)
  BY AppendIsConcat
<1>2. Append(f, c) \o r = f \o (<<c>> \o r)
  BY <1>1, ConcatAssociative
<1>3. ASSUME f # <<>>
      PROVE  f \o r = <<Head(f)>> \o (Tail(f) \o r)
  <2>1. /\ Head(f) \in Char /\ Tail(f) \in Seq(Char) /\ Len(Tail(f)) = Len(f) - 1
        /\ \A k \in 1 .. Len(f) - 1 : Tail(f)[k] = f[k + 1]
    BY <1>3, HeadTailProperties
  <2>2. f = <<Head(f)>> \o Tail(f)
    BY <1>3
  <2>3. <<Head(f)>> \in Seq(Char)
    BY <2>1
  <2> QED BY <2>1, <2>2, <2>3, ConcatAssociative
<1> QED BY <1>2, <1>3

\* The program fills the ring from the end of the characters that wait in it;
\* the places between its snapshot of the out pointer and the pointer itself
\* have only become free.
LEMMA CopyGrows ==
  ASSUME TypeOK, Snapshots, Copy
  PROVE  \/ Ring(tx_buf', tx_out, tx_in') = Ring(tx_buf, tx_out, tx_in)
         \/ /\ Ring(tx_buf', tx_out, tx_in') \in Seq(Char)
            /\ Len(Ring(tx_buf', tx_out, tx_in')) \in Used(tx_out, tx_in) + 1 .. LEN - 1
            /\ \A k \in 1 .. Used(tx_out, tx_in) :
                 Ring(tx_buf', tx_out, tx_in')[k] = Ring(tx_buf, tx_out, tx_in)[k]
<1> DEFINE n == Least(Gap(tx_in, out), count)
           u == Used(tx_out, tx_in)
<1>0. RingsOK /\ ChipOK
  BY Parts
<1>1. n \in 0 .. LEN - 1 - u /\ tx_in + n <= LEN
  BY CopyRange DEF Copy
<1>2. /\ u \in 0 .. LEN - 1
      /\ u = IF tx_in >= tx_out THEN tx_in - tx_out ELSE tx_in - tx_out + LEN
  BY <1>0, UsedRange DEF RingsOK
<1>3. n \in 0 .. LEN
  BY <1>1, <1>2, LenAssumption
<1>4. /\ tx_buf' = [i \in Index |-> IF tx_in <= i /\ i < tx_in + n
                                     THEN (sent + i - tx_in) % Alphabet ELSE tx_buf[i]]
      /\ tx_in' = (tx_in + n) % LEN
  BY DEF Copy
<1> HIDE DEF n
<1>5. tx_in' = At(tx_in, n)
  BY <1>0, <1>3, <1>4, TurnAt DEF RingsOK
<1>6. tx_buf' \in [Index -> Char]
  <2>1. \A i \in Index : sent + i - tx_in \in Int
    BY <1>0, CountAssumption, LenAssumption DEF ChipOK, RingsOK, Char, Index
  <2> QED BY <1>0, <1>4, <2>1, Turns DEF RingsOK
<1>7. \A k \in 0 .. u - 1 : tx_buf'[At(tx_out, k)] = tx_buf[At(tx_out, k)]
  <2> TAKE k \in 0 .. u - 1
  <2>1. At(tx_out, k) \in Index
    <3>1. k \in 0 .. LEN
      BY <1>2, LenAssumption
    <3> QED BY <1>0, <3>1, TurnAt DEF RingsOK
  <2>2. At(tx_out, k) < tx_in \/ tx_in + n <= At(tx_out, k)
    <3>1. tx_in \in 0 .. LEN - 1 /\ tx_out \in 0 .. LEN - 1 /\ LEN \in Nat
      BY <1>0, LenAssumption DEF RingsOK, Index
    <3>2. At(tx_out, k) = IF tx_out + k < LEN THEN tx_out + k ELSE tx_out + k - LEN
      BY DEF At
    <3> HIDE DEF u
    <3> QED BY <1>1, <1>2, <3>1, <3>2
  <2>3. tx_in \in Int /\ n \in Int /\ At(tx_out, k) \in Int
    BY <1>0, <1>3, <2>1, LenAssumption DEF RingsOK, Index
  <2>4. ~(tx_in <= At(tx_out, k) /\ At(tx_out, k) < tx_in + n)
    BY <2>2, <2>3
  <2> QED BY <1>4, <2>1, <2>4
<1>8. /\ Ring(tx_buf', tx_out, tx_in') \in Seq(Char)
      /\ Len(Ring(tx_buf', tx_out, tx_in')) = u + n
      /\ \A k \in 1 .. u : Ring(tx_buf', tx_out, tx_in')[k] = Ring(tx_buf, tx_out, tx_in)[k]
  <2>1. PICK new \in [Index -> Char] : new = tx_buf'
    BY <1>6
  <2>2. tx_buf \in [Index -> Char] /\ tx_out \in Index /\ tx_in \in Index
    BY <1>0 DEF RingsOK
  <2>3. n \in 0 .. LEN - 1 - Used(tx_out, tx_in)
    BY <1>1
  <2>4. \A k \in 0 .. Used(tx_out, tx_in) - 1 : new[At(tx_out, k)] = tx_buf[At(tx_out, k)]
    BY <1>7, <2>1
  <2>5. /\ Ring(new, tx_out, At(tx_in, n)) \in Seq(Char)
        /\ Len(Ring(new, tx_out, At(tx_in, n))) = Used(tx_out, tx_in) + n
        /\ \A k \in 1 .. Used(tx_out, tx_in) :
             Ring(new, tx_out, At(tx_in, n))[k] = Ring(tx_buf, tx_out, tx_in)[k]
    BY <2>2, <2>3, <2>4, RingGrow
  <2> QED BY <1>5, <2>1, <2>5
<1>9. CASE n = 0
  <2>1. Ring(tx_buf, tx_out, tx_in) \in Seq(Char) /\ Len(Ring(tx_buf, tx_out, tx_in)) = u
    BY <1>0, RingType DEF RingsOK
  <2>2. u + n = u
    BY <1>2, <1>9
  <2> QED BY <1>8, <2>1, <2>2, SeqEqual
<1>10. CASE n # 0
  <2>1. u + n \in u + 1 .. LEN - 1
    BY <1>1, <1>2, <1>3, <1>10, LenAssumption
  <2> QED BY <1>8, <2>1
<1> QED BY <1>9, <1>10

\* What the routine sends stays in the pipe, and what the host takes is at its
\* front.
LEMMA TransmitStep == IInv /\ [Next]_vars => [Transmitted!Put \/ Transmitted!Get]_TxPipe
<1> SUFFICES ASSUME IInv, [Next]_vars
             PROVE  Transmitted!Put \/ Transmitted!Get \/ TxPipe' = TxPipe
  OBVIOUS
<1>0. RingsOK /\ ChipOK
  BY Parts DEF IInv
<1> DEFINE r == Ring(tx_buf, tx_out, tx_in)
<1>1. r \in Seq(Char) /\ Len(r) = Used(tx_out, tx_in) /\ Used(tx_out, tx_in) \in 0 .. LEN - 1
  <2>1. r \in Seq(Char) /\ Len(r) = Used(tx_out, tx_in)
    BY <1>0, RingType DEF RingsOK
  <2>2. Used(tx_out, tx_in) \in 0 .. LEN - 1
    BY <1>0, UsedRange DEF RingsOK
  <2> QED BY <2>1, <2>2
<1>2. CASE UNCHANGED <<wfifo, tx_buf, tx_out, tx_in>>
  BY <1>2 DEF TxPipe, Ring, Used
<1>3. CASE TxChar
  <2>1. /\ tx_out # tx_in /\ tx_out' = At(tx_out, 1) /\ UNCHANGED <<tx_buf, tx_in>>
        /\ wfifo' = Append(wfifo, tx_buf[tx_out])
    BY <1>0, <1>3, Turns DEF TxChar, RingsOK
  <2>2. 1 \in 0 .. Used(tx_out, tx_in)
    BY <1>0, <1>1, <2>1, UsedRange DEF RingsOK
  <2>3. r = Oldest(tx_buf, tx_out, 1) \o Ring(tx_buf, At(tx_out, 1), tx_in) /\ At(tx_out, 1) \in Index
    BY <1>0, <2>2, RingDrop DEF RingsOK
  <2>4. Oldest(tx_buf, tx_out, 1) = <<tx_buf[tx_out]>>
    <3>1. At(tx_out, 0) = tx_out
      BY <1>0, LenAssumption DEF RingsOK, Index, At
    <3>2. At(tx_out, 1 - 1) = tx_out
      BY <3>1
    <3> QED BY <3>2 DEF Oldest
  <2>5. Ring(tx_buf, At(tx_out, 1), tx_in) \in Seq(Char) /\ tx_buf[tx_out] \in Char
    BY <1>0, <2>3, RingType DEF RingsOK
  <2>6. r' = Ring(tx_buf, At(tx_out, 1), tx_in)
    BY <2>1
  <2>7. TxPipe' = wfifo \o (<<tx_buf[tx_out]>> \o Ring(tx_buf, At(tx_out, 1), tx_in))
    BY <1>0, <2>1, <2>5, <2>6, Joined DEF ChipOK, TxPipe
  <2> QED BY <2>3, <2>4, <2>7 DEF TxPipe
<1>4. CASE HostTake
  <2>1. wfifo # <<>> /\ got' = <<Head(wfifo)>> /\ wfifo' = Tail(wfifo) /\ UNCHANGED state
    BY <1>4 DEF HostTake
  <2>2. r' = r
    BY <2>1 DEF state
  <2>3. wfifo \o r = <<Head(wfifo)>> \o (Tail(wfifo) \o r)
    BY <1>0, <1>1, <2>1, Joined, Turns DEF ChipOK
  <2>4. TxPipe = got' \o TxPipe'
    BY <2>1, <2>2, <2>3 DEF TxPipe
  <2> QED BY <2>4 DEF Transmitted!Get, TxPipe
<1>5. CASE Copy
  <2>1. /\ \/ r' = r
           \/ /\ r' \in Seq(Char)
              /\ Len(r') \in Used(tx_out, tx_in) + 1 .. LEN - 1
              /\ \A k \in 1 .. Used(tx_out, tx_in) : r'[k] = r[k]
        /\ UNCHANGED <<wfifo, tx_out>>
    <3>1. UNCHANGED <<wfifo, tx_out>>
      BY <1>5 DEF Copy, chip
    <3> QED BY <1>5, <3>1, CopyGrows DEF IInv
  <2>2. CASE r' = r
    BY <2>1, <2>2 DEF TxPipe
  <2>3. CASE r' # r
    <3>1. /\ TxPipe \in Seq(Char) /\ Len(TxPipe) = Len(wfifo) + Len(r)
          /\ \A k \in 1 .. Len(wfifo) + Len(r) :
               TxPipe[k] = IF k <= Len(wfifo) THEN wfifo[k] ELSE r[k - Len(wfifo)]
      BY <1>0, <1>1, ConcatProperties DEF ChipOK, TxPipe
    <3>2. /\ TxPipe' \in Seq(Char) /\ Len(TxPipe') = Len(wfifo) + Len(r')
          /\ \A k \in 1 .. Len(wfifo) + Len(r') :
               TxPipe'[k] = IF k <= Len(wfifo) THEN wfifo[k] ELSE r'[k - Len(wfifo)]
      <4>1. TxPipe' = wfifo \o r'
        BY <2>1 DEF TxPipe
      <4> QED BY <1>0, <2>1, <2>3, <4>1, ConcatProperties DEF ChipOK
    <3>3. Len(wfifo) \in Nat /\ Len(r) \in Nat /\ Len(r') \in Nat /\ Len(r) < Len(r') /\ Len(r') <= LEN - 1
      BY <1>0, <1>1, <2>1, <2>3, LenAssumption DEF ChipOK
    <3>4. Len(TxPipe) < Len(TxPipe') /\ Len(TxPipe') <= WDepth + LEN - 1
      BY <1>0, <3>1, <3>2, <3>3, DepthAssumption, LenAssumption DEF ChipOK
    <3>5. \A k \in 1 .. Len(TxPipe) : TxPipe'[k] = TxPipe[k]
      <4> TAKE k \in 1 .. Len(TxPipe)
      <4>1. k \in 1 .. Len(wfifo) + Len(r) /\ k \in 1 .. Len(wfifo) + Len(r')
        BY <3>1, <3>3
      <4>2. k > Len(wfifo) => k - Len(wfifo) \in 1 .. Used(tx_out, tx_in)
        BY <1>1, <3>3, <4>1
      <4>3. k > Len(wfifo) => r'[k - Len(wfifo)] = r[k - Len(wfifo)]
        BY <2>1, <2>3, <4>2
      <4>4. k <= Len(wfifo) \/ k > Len(wfifo)
        BY <3>3
      <4> QED BY <3>1, <3>2, <4>1, <4>3, <4>4
    <3>6. Transmitted!IsStrictPrefix(TxPipe, TxPipe') /\ Transmitted!Range(TxPipe') \subseteq Char
      BY <3>1, <3>2, <3>4, <3>5, PutStep
    <3> QED BY <3>4, <3>6 DEF Transmitted!Put, TxPipe
  <2> QED BY <2>2, <2>3
<1>6. Next => TxChar \/ HostTake \/ Copy \/ UNCHANGED <<wfifo, tx_buf, tx_out, tx_in>>
  <2>1. CASE CallStep
    BY <2>1 DEF CallStep, Calls, Write, Read, Close, SetTimeout, TimerInit, UartInit, Fill, Kick,
                Spin, Decide, Take, Await, Reenable, Closing, state, chip
  <2>2. CASE Enter \/ Control \/ RxChar \/ RxDone \/ TxDone
    BY <2>2 DEF Enter, Control, Pass, RxChar, RxDone, TxDone, state, chip
  <2>3. CASE Timeout \/ HostSend \/ HostPoll
    BY <2>3 DEF Timeout, HostSend, HostPoll, state
  <2>4. CASE CopyOut
    BY <2>4 DEF CopyOut, chip
  <2> QED BY <2>1, <2>2, <2>3, <2>4 DEF Next, Silent, Program, Routine, CallStep
<1>7. CASE UNCHANGED vars
  BY <1>2, <1>7 DEF vars, state, chip
<1> QED BY <1>2, <1>3, <1>4, <1>5, <1>6, <1>7

\* The routine moves one character from the FIFO to the end of the ring.
LEMMA RxCharPushes ==
  ASSUME TypeOK, RxChar
  PROVE  Ring(rx_buf', rx_out', rx_in') = Ring(rx_buf, rx_out, rx_in) \o <<Head(rfifo)>>
<1> DEFINE u == Used(rx_out, rx_in)
           c == Head(rfifo)
           r == Ring(rx_buf, rx_out, rx_in)
<1>0. RingsOK /\ ChipOK
  BY Parts
<1>1. /\ rx_buf' = [rx_buf EXCEPT ![rx_in] = c]
      /\ rx_in' = At(rx_in, 1) /\ At(rx_in, 1) # rx_out
      /\ rx_out' = rx_out
  BY <1>0, Turns DEF RxChar, RxFull, RingsOK
<1>2. c \in Char
  BY <1>0, HeadTailProperties DEF ChipOK, RxChar
<1>3. u \in 0 .. LEN - 1 /\ u = IF rx_in >= rx_out THEN rx_in - rx_out ELSE rx_in - rx_out + LEN
  BY <1>0, UsedRange DEF RingsOK
<1>4. rx_in \in 0 .. LEN - 1 /\ rx_out \in 0 .. LEN - 1 /\ LEN \in Nat /\ LEN > 1
  BY <1>0, LenAssumption DEF RingsOK, Index
<1>5. 1 \in 0 .. LEN - 1 - u
  <2>1. Used(rx_out, At(rx_in, 1)) = u + 1
    BY <1>0, <1>1, UsedStep DEF RingsOK
  <2>2. Used(rx_out, At(rx_in, 1)) <= LEN - 1
    <3>1. At(rx_in, 1) \in Index
      BY <1>0, Turns DEF RingsOK
    <3>2. Used(rx_out, At(rx_in, 1)) \in 0 .. LEN - 1
      BY <1>0, <3>1, UsedRange DEF RingsOK
    <3> QED BY <3>2, <1>4
  <2> QED BY <1>3, <1>4, <2>1, <2>2
<1>6. At(rx_out, u) = rx_in
  BY <1>3, <1>4 DEF At
<1>7. \A k \in 0 .. u - 1 : At(rx_out, k) \in Index /\ At(rx_out, k) # rx_in
  <2> TAKE k \in 0 .. u - 1
  <2> HIDE DEF u
  <2>1. At(rx_out, k) = IF rx_out + k < LEN THEN rx_out + k ELSE rx_out + k - LEN
    BY DEF At
  <2> QED BY <1>3, <1>4, <2>1 DEF Index
<1>8. PICK new \in [Index -> Char] : new = rx_buf' /\ new = [rx_buf EXCEPT ![rx_in] = c]
  BY <1>0, <1>1, <1>2 DEF RingsOK
<1>9. \A k \in 0 .. Used(rx_out, rx_in) - 1 : new[At(rx_out, k)] = rx_buf[At(rx_out, k)]
  BY <1>0, <1>7, <1>8 DEF RingsOK
<1>10. /\ At(rx_in, 1) \in Index
       /\ Ring(new, rx_out, At(rx_in, 1)) \in Seq(Char)
       /\ Used(rx_out, At(rx_in, 1)) = u + 1
       /\ Len(Ring(new, rx_out, At(rx_in, 1))) = u + 1
       /\ \A k \in 1 .. u : Ring(new, rx_out, At(rx_in, 1))[k] = r[k]
  <2>1. rx_buf \in [Index -> Char] /\ rx_out \in Index /\ rx_in \in Index
    BY <1>0 DEF RingsOK
  <2>2. 1 \in 0 .. LEN - 1 - Used(rx_out, rx_in)
    BY <1>5
  <2>3. /\ At(rx_in, 1) \in Index
        /\ Ring(new, rx_out, At(rx_in, 1)) \in Seq(Char)
        /\ Used(rx_out, At(rx_in, 1)) = Used(rx_out, rx_in) + 1
        /\ Len(Ring(new, rx_out, At(rx_in, 1))) = Used(rx_out, rx_in) + 1
        /\ \A k \in 1 .. Used(rx_out, rx_in) :
             Ring(new, rx_out, At(rx_in, 1))[k] = Ring(rx_buf, rx_out, rx_in)[k]
    BY <1>9, <2>1, <2>2, RingGrow
  <2> QED BY <2>3
<1>11. PICK q \in Seq(Char) : q = Ring(new, rx_out, At(rx_in, 1))
  BY <1>10
<1>12. q[u + 1] = c
  <2>1. PICK m \in 1 .. Used(rx_out, At(rx_in, 1)) : m = u + 1 /\ m - 1 = u
    BY <1>3, <1>4, <1>10
  <2>2. q[m] = new[At(rx_out, m - 1)]
    <3>1. rx_out \in Index /\ At(rx_in, 1) \in Index
      BY <1>0, <1>10 DEF RingsOK
    <3>2. \A k \in 1 .. Used(rx_out, At(rx_in, 1)) :
            Ring(new, rx_out, At(rx_in, 1))[k] = new[At(rx_out, k - 1)]
      BY <3>1, RingType
    <3> QED BY <1>11, <3>2, Zenon
  <2>3. q[m] = new[rx_in]
    BY <1>6, <2>1, <2>2
  <2>4. new[rx_in] = c
    BY <1>0, <1>8 DEF RingsOK
  <2> QED BY <2>1, <2>3, <2>4
<1>13. r \in Seq(Char) /\ Len(r) = u
  BY <1>0, RingType DEF RingsOK
<1>14. /\ r \o <<c>> \in Seq(Char) /\ Len(r \o <<c>>) = u + 1
       /\ \A k \in 1 .. u + 1 : (r \o <<c>>)[k] = IF k <= u THEN r[k] ELSE c
  <2> HIDE DEF r, c, u
  <2>1. r \o <<c>> = Append(r, c)
    BY <1>2, <1>13, AppendIsConcat
  <2> QED BY <1>2, <1>3, <1>4, <1>13, <2>1
<1>15. q = r \o <<c>>
  <2>1. Len(q) = u + 1
    BY <1>10, <1>11
  <2>2. \A k \in 1 .. u + 1 : q[k] = (r \o <<c>>)[k]
    <3> TAKE k \in 1 .. u + 1
    <3>1. k \in 1 .. u => q[k] = r[k]
      BY <1>10, <1>11
    <3>2. (k \in 1 .. u /\ k <= u) \/ (k = u + 1 /\ ~(k <= u))
      BY <1>3, <1>4
    <3> HIDE DEF r, c, u
    <3> QED BY <1>12, <1>14, <3>1, <3>2
  <2> HIDE DEF r, c, u
  <2> QED BY <1>14, <2>1, <2>2, SeqEqual
<1> QED BY <1>1, <1>8, <1>11, <1>15

\* What the routine receives stays in the pipe, and what a read takes is at its
\* front.
LEMMA ReceiveStep == IInv /\ [Next]_vars => [Received!Put \/ Received!Get]_RxPipe
<1> SUFFICES ASSUME IInv, [Next]_vars
             PROVE  Received!Put \/ Received!Get \/ RxPipe' = RxPipe
  OBVIOUS
<1>0. RingsOK /\ ChipOK
  BY Parts DEF IInv
<1> DEFINE r == Ring(rx_buf, rx_out, rx_in)
<1>1. r \in Seq(Char) /\ Len(r) = Used(rx_out, rx_in) /\ Used(rx_out, rx_in) \in 0 .. LEN - 1
  <2>1. r \in Seq(Char) /\ Len(r) = Used(rx_out, rx_in)
    BY <1>0, RingType DEF RingsOK
  <2>2. Used(rx_out, rx_in) \in 0 .. LEN - 1
    BY <1>0, UsedRange DEF RingsOK
  <2> QED BY <2>1, <2>2
<1>2. CASE UNCHANGED <<rfifo, rx_buf, rx_out, rx_in>>
  BY <1>2 DEF RxPipe, Ring, Used
<1>3. CASE RxChar
  <2>1. rfifo # <<>> /\ rfifo' = Tail(rfifo)
    BY <1>3 DEF RxChar
  <2>2. /\ Head(rfifo) \in Char /\ rfifo' \in Seq(Char)
        /\ rfifo = <<Head(rfifo)>> \o rfifo'
    BY <1>0, <2>1, HeadTailProperties DEF ChipOK
  <2>3. r' = r \o <<Head(rfifo)>>
    BY <1>3, RxCharPushes DEF IInv
  <2>4. <<Head(rfifo)>> \in Seq(Char)
    BY <2>2
  <2>5. RxPipe' = r \o (<<Head(rfifo)>> \o rfifo')
    <3>1. RxPipe' = (r \o <<Head(rfifo)>>) \o rfifo'
      BY <2>3 DEF RxPipe
    <3> HIDE DEF r
    <3> QED BY <1>1, <2>2, <2>4, <3>1, ConcatAssociative
  <2> QED BY <2>2, <2>5 DEF RxPipe
<1>4. CASE CopyOut
  <2>1. /\ got' \in Seq(Char) /\ rx_out' \in Index
        /\ r = got' \o Ring(rx_buf, rx_out', rx_in)
    BY <1>4, CopyOutDrops DEF IInv
  <2>2. UNCHANGED <<rfifo, rx_buf, rx_in>>
    BY <1>4 DEF CopyOut, chip
  <2>3. PICK t \in Seq(Char) : t = Ring(rx_buf, rx_out', rx_in)
    <3>1. PICK o \in Index : o = rx_out'
      BY <2>1
    <3>2. Ring(rx_buf, o, rx_in) \in Seq(Char)
      BY <1>0, RingType DEF RingsOK
    <3> QED BY <3>1, <3>2
  <2>4. r' = t
    BY <2>2, <2>3
  <2>5. RxPipe' = t \o rfifo
    BY <2>2, <2>4 DEF RxPipe
  <2>6. RxPipe = (got' \o t) \o rfifo
    BY <2>1, <2>3 DEF RxPipe
  <2>7. RxPipe = got' \o RxPipe'
    <3>1. PICK g \in Seq(Char) : g = got'
      BY <2>1
    <3>2. (g \o t) \o rfifo = g \o (t \o rfifo)
      BY <1>0, <2>3, ConcatAssociative DEF ChipOK
    <3> QED BY <2>5, <2>6, <3>1, <3>2
  <2> QED BY <2>7 DEF Received!Get, RxPipe
<1>5. CASE HostSend
  <2>1. UNCHANGED <<rx_buf, rx_out, rx_in>> /\ rfifo' = Append(rfifo, rsent) /\ Len(rfifo) < RDepth
    BY <1>5 DEF HostSend, state
  <2>2. rsent \in Char /\ rfifo \in Seq(Char)
    BY <1>0 DEF ChipOK
  <2>3. /\ rfifo' \in Seq(Char) /\ Len(rfifo') = Len(rfifo) + 1 /\ Len(rfifo) \in Nat
        /\ \A k \in 1 .. Len(rfifo) : rfifo'[k] = rfifo[k]
    BY <2>1, <2>2
  <2>4. RxPipe' = r \o rfifo'
    BY <2>1 DEF RxPipe, Ring, Used
  <2> HIDE DEF r
  <2>5. /\ RxPipe \in Seq(Char) /\ Len(RxPipe) = Len(r) + Len(rfifo)
        /\ \A k \in 1 .. Len(r) + Len(rfifo) :
             RxPipe[k] = IF k <= Len(r) THEN r[k] ELSE rfifo[k - Len(r)]
    BY <1>1, <2>2, ConcatProperties DEF RxPipe, r
  <2>6. /\ RxPipe' \in Seq(Char) /\ Len(RxPipe') = Len(r) + Len(rfifo')
        /\ \A k \in 1 .. Len(r) + Len(rfifo') :
             RxPipe'[k] = IF k <= Len(r) THEN r[k] ELSE rfifo'[k - Len(r)]
    BY <1>1, <2>3, <2>4, ConcatProperties
  <2>7. Len(r) \in Nat /\ Len(r) <= LEN - 1
    BY <1>1, LenAssumption
  <2>8. Len(RxPipe) < Len(RxPipe') /\ Len(RxPipe') <= RDepth + LEN - 1
    BY <2>1, <2>3, <2>5, <2>6, <2>7, DepthAssumption, LenAssumption
  <2>9. \A k \in 1 .. Len(RxPipe) : RxPipe'[k] = RxPipe[k]
    <3> TAKE k \in 1 .. Len(RxPipe)
    <3>1. k \in 1 .. Len(r) + Len(rfifo) /\ k \in 1 .. Len(r) + Len(rfifo')
      BY <2>3, <2>5, <2>7
    <3>2. k > Len(r) => k - Len(r) \in 1 .. Len(rfifo)
      BY <2>3, <2>7, <3>1
    <3>3. k <= Len(r) \/ k > Len(r)
      BY <2>7
    <3> QED BY <2>3, <2>5, <2>6, <3>1, <3>2, <3>3
  <2>10. Received!IsStrictPrefix(RxPipe, RxPipe') /\ Received!Range(RxPipe') \subseteq Char
    BY <2>5, <2>6, <2>8, <2>9, PutStep
  <2> QED BY <2>8, <2>10 DEF Received!Put, RxPipe
<1>6. Next => RxChar \/ CopyOut \/ HostSend \/ UNCHANGED <<rfifo, rx_buf, rx_out, rx_in>>
  <2>1. CASE CallStep
    BY <2>1 DEF CallStep, Calls, Write, Read, Close, SetTimeout, TimerInit, UartInit, Fill, Kick,
                Spin, Decide, Take, Await, Reenable, Closing, state, chip
  <2>2. CASE Enter \/ Control \/ RxDone \/ TxChar \/ TxDone
    BY <2>2 DEF Enter, Control, Pass, RxDone, TxChar, TxDone, state, chip
  <2>3. CASE Timeout \/ HostTake \/ HostPoll
    BY <2>3 DEF Timeout, HostTake, HostPoll, state
  <2>4. CASE Copy
    BY <2>4 DEF Copy, chip
  <2> QED BY <2>1, <2>2, <2>3, <2>4 DEF Next, Silent, Program, Routine, CallStep
<1>7. CASE UNCHANGED vars
  BY <1>2, <1>7 DEF vars, state, chip
<1> QED BY <1>2, <1>3, <1>4, <1>5, <1>6, <1>7

\* From the program to the host the console is a pipe, for rings and FIFOs of
\* any size (altera_avalon_jtag_uart_write against _irq and the host).
THEOREM ConsoleTransmits == Spec => TransmitIsAPipe
<1>1. Init => Transmitted!Init
  BY EmptyPipes DEF Transmitted!Init
<1>2. IInv /\ [Next]_vars => [Transmitted!Put \/ Transmitted!Get]_(wfifo \o Ring(tx_buf, tx_out, tx_in))
  BY TransmitStep DEF TxPipe
<1> QED BY <1>1, <1>2, Invariance, PTL DEF Spec, TransmitIsAPipe, Transmitted!Spec

\* And from the host to the program (altera_avalon_jtag_uart_read against _irq).
THEOREM ConsoleReceives == Spec => ReceiveIsAPipe
<1>1. Init => Received!Init
  BY EmptyPipes DEF Received!Init
<1>2. IInv /\ [Next]_vars => [Received!Put \/ Received!Get]_(Ring(rx_buf, rx_out, rx_in) \o rfifo)
  BY ReceiveStep DEF RxPipe
<1> QED BY <1>1, <1>2, Invariance, PTL DEF Spec, ReceiveIsAPipe, Received!Spec
===============================================================================
