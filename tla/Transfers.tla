------------------------------- MODULE Transfers -------------------------------
(***************************************************************************)
(* From a key to the registers of the game: the keyboard and its reports,  *)
(* the bus, the MAX3421E that carries out one IN transaction at a time,    *)
(* XferDispatchPkt and XferInTransfer that repeat it, and main, which      *)
(* copies a report into the keycode ports that the hardware reads.         *)
(*                                                                         *)
(* A transaction may be refused, lost on its way out or back, or damaged,  *)
(* and its acknowledgement may be lost; the chip itself may fall silent.   *)
(* The keyboard stays plugged and enumerated (UsbHost has the rest).       *)
(***************************************************************************)
EXTENDS Integers, SequencesExt

CONSTANTS Key,          \* the keys of the keyboard
          Slots,        \* the keycode ports, 6, and the places of a report
          USB_NAK_LIMIT, USB_RETRY_LIMIT, USB_XFER_TIMEOUT,   \* 200, 3, 5000 ms
          MaxReading,   \* (2^32 - 1) / 1000: the clock's product overflows beyond
          MaxQueue      \* bound: the reports the keyboard holds

ASSUME KeyAssumption == "none" \notin Key
ASSUME SizeAssumption == Slots \in Nat \ {0} /\ MaxQueue \in Nat
ASSUME LimitAssumption == /\ USB_NAK_LIMIT \in Nat \ {0} /\ USB_RETRY_LIMIT \in Nat \ {0}
                          /\ USB_XFER_TIMEOUT \in Nat
                          /\ USB_NAK_LIMIT + USB_RETRY_LIMIT < USB_XFER_TIMEOUT
ASSUME ClockAssumption == MaxReading \in Nat /\ USB_XFER_TIMEOUT < MaxReading

VARIABLES
  keys,         \* the keys that are down, in the order they were pressed
  queue, dtog,  \* the keyboard's endpoint: reports to send, and its data toggle
  alive, busy, HXFRDN, HRSL, RCVDAV, fifo, rtog,    \* the chip
  reading,      \* alt_nticks() * 1000 / alt_ticks_per_second()
  ticked,       \* it has gone on since the last launch
  pc, deadline, nak_count, retry_count, rcode,
  slot,         \* the port that main writes next
  rcvToggle,    \* devtable[addr].epinfo[1].rcvToggle
  kbdbuf, port, \* the last report, and the registers
  got           \* observed only: the report that the last step read

keyboard == <<keys, queue, dtog>>
chip == <<alive, busy, HXFRDN, HRSL, RCVDAV, fifo, rtog>>
clock == <<reading, ticked>>
dispatch == <<deadline, nak_count, retry_count, rcode>>
driver == <<pc, dispatch, slot, rcvToggle>>
vars == <<keyboard, chip, clock, driver, kbdbuf, port, got>>

Slot == 1 .. Slots
\* What a report says: the keys that are down, in order, without gaps.
Report == {s \in BoundedSeq(Key, Slots) : IsInjective(s)}
\* Fault: the last key of a report is left out.
FaultCode(r, i) == IF i < Len(r) THEN r[i] ELSE "none"
\* The bytes of a report.
Code(r, i) == IF i <= Len(r) THEN r[i] ELSE "none"
-----------------------------------------------------------------------------
Init == /\ keys = <<>> /\ queue = <<>> /\ dtog = 0
        /\ alive = TRUE /\ busy = FALSE /\ HXFRDN = FALSE /\ HRSL = "SUCCESS"
        /\ RCVDAV = FALSE /\ fifo = <<>> /\ rtog = 0
        /\ reading = 0 /\ ticked = FALSE
        /\ pc = "main" /\ deadline = 0 /\ nak_count = 0 /\ retry_count = 0 /\ rcode = "SUCCESS"
        /\ slot = 1 /\ rcvToggle = 0
        /\ kbdbuf = <<>> /\ port = [i \in Slot |-> "none"]
        /\ got = <<>>
-----------------------------------------------------------------------------
(* The keyboard: a key goes to the end of the report, one that is released *)
(* leaves it and the others move up.                                       *)

KeyEvent == /\ Len(queue) < MaxQueue
            /\ \/ \E k \in Key \ Range(keys) : Len(keys) < Slots /\ keys' = Append(keys, k)
               \/ \E i \in 1 .. Len(keys) : keys' = RemoveAt(keys, i)
            /\ queue' = Append(queue, keys')
            /\ UNCHANGED <<dtog, chip, clock, driver, kbdbuf, port>>
-----------------------------------------------------------------------------
(* The bus and the chip.                                                   *)

Finish(result) == /\ busy' = FALSE /\ HXFRDN' = TRUE /\ HRSL' = result
                  /\ UNCHANGED <<alive, keys, clock, driver, kbdbuf, port>>

Running == alive /\ busy

\* The keyboard has nothing to say.
Refused == /\ Running /\ queue = <<>>
           /\ Finish("NAK")
           /\ UNCHANGED <<queue, dtog, RCVDAV, fifo, rtog>>

\* The token, the data or the refusal is lost or damaged.
Lost == /\ Running
        /\ \/ Finish("TIMEOUT")
           \/ queue # <<>> /\ Finish("PKTERR")
        /\ UNCHANGED <<queue, dtog, RCVDAV, fifo, rtog>>

\* The data arrive.  With the toggle that is expected they go into the FIFO,
\* else they are a repetition; the chip acknowledges both.
Arrive(acked) ==
  /\ Running /\ queue # <<>>
  /\ IF dtog = rtog
       THEN /\ Finish("SUCCESS")
            /\ RCVDAV' = TRUE /\ fifo' = Head(queue) /\ rtog' = 1 - rtog
     ELSE Finish("TOGERR") /\ UNCHANGED <<RCVDAV, fifo, rtog>>
  /\ IF acked THEN queue' = Tail(queue) /\ dtog' = 1 - dtog
     ELSE UNCHANGED <<queue, dtog>>

Complete == Refused \/ Lost \/ \E acked \in BOOLEAN : Arrive(acked)

\* From now on nothing is completed any more.
Die == /\ alive /\ alive' = FALSE
       /\ UNCHANGED <<keyboard, busy, HXFRDN, HRSL, RCVDAV, fifo, rtog, clock, driver, kbdbuf, port>>

\* Fault: the clock has to pass the deadline.
FaultExpired == reading > deadline
\* The time-out of the dispatch is over.
Expired == reading >= deadline

\* One millisecond.  A chip that works takes no longer for a transaction, and
\* the waiting loop looks at the clock more often than it goes on.
Tick == /\ ~ticked \/ pc \in {"main", "ports"} \/ (pc = "wait" /\ ~alive /\ ~HXFRDN)
        /\ pc = "wait" => ~Expired
        /\ reading' = IF reading = MaxReading THEN 0 ELSE reading + 1
        /\ ticked' = TRUE
        /\ UNCHANGED <<keyboard, chip, driver, kbdbuf, port>>
-----------------------------------------------------------------------------
(* kbdPoll, XferInTransfer and XferDispatchPkt.                            *)

\* A transfer begins with the toggle that the last good one has left behind.
Poll == /\ pc = "main" /\ pc' = "launch"
        /\ rtog' = rcvToggle
        /\ deadline' = reading + USB_XFER_TIMEOUT
        /\ nak_count' = 0 /\ retry_count' = 0 /\ rcode' = "SUCCESS"
        /\ UNCHANGED <<keyboard, alive, busy, HXFRDN, HRSL, RCVDAV, fifo, clock, slot, rcvToggle,
                       kbdbuf, port>>

Launch == /\ pc = "launch" /\ pc' = "wait"
          /\ busy' = TRUE
          /\ ticked' = FALSE
          /\ UNCHANGED <<keyboard, alive, HXFRDN, HRSL, RCVDAV, fifo, rtog, reading, dispatch,
                         slot, rcvToggle, kbdbuf, port>>

Back(r) == pc' = "main" /\ rcode' = r /\ deadline' = 0 /\ nak_count' = 0 /\ retry_count' = 0

\* The loop looks at the clock first, then at the chip.
Expire == /\ pc = "wait" /\ Expired
          /\ Back("EXPIRED")
          /\ UNCHANGED <<keyboard, chip, clock, slot, rcvToggle, kbdbuf, port>>

Done == /\ pc = "wait" /\ ~Expired
        /\ HXFRDN /\ HXFRDN' = FALSE
        /\ pc' = "result"
        /\ UNCHANGED <<keyboard, alive, busy, HRSL, RCVDAV, fifo, rtog, clock, dispatch,
                       slot, rcvToggle, kbdbuf, port>>

Nak == /\ pc = "result" /\ HRSL = "NAK"
       /\ IF nak_count + 1 = USB_NAK_LIMIT THEN Back("NAK")
          ELSE /\ pc' = "launch" /\ nak_count' = nak_count + 1
               /\ UNCHANGED <<deadline, retry_count, rcode>>
       /\ UNCHANGED <<keyboard, chip, clock, slot, rcvToggle, kbdbuf, port>>

\* Fault: a lost transaction is repeated without end.
FaultTries == 1
\* The attempts that were lost, with this one.
Tries == retry_count + 1

Retry == /\ pc = "result" /\ HRSL = "TIMEOUT"
         /\ IF Tries = USB_RETRY_LIMIT THEN Back("TIMEOUT")
            ELSE /\ pc' = "launch" /\ retry_count' = Tries
                 /\ UNCHANGED <<deadline, nak_count, rcode>>
         /\ UNCHANGED <<keyboard, chip, clock, slot, rcvToggle, kbdbuf, port>>

\* Every other error goes straight to main, which prints it and polls again;
\* so does a success without data.
Fail == /\ pc = "result"
        /\ HRSL \in {"TOGERR", "PKTERR"} \/ (HRSL = "SUCCESS" /\ ~RCVDAV)
        /\ Back(HRSL)
        /\ UNCHANGED <<keyboard, chip, clock, slot, rcvToggle, kbdbuf, port>>

\* Fault: the toggle is not saved.
FaultSaved == rcvToggle
\* The toggle that the chip expects next.
Saved == rtog

\* The report is read, the buffer freed and the toggle saved.
Receive == /\ pc = "result" /\ HRSL = "SUCCESS" /\ RCVDAV
           /\ kbdbuf' = fifo /\ got' = <<fifo>>
           /\ RCVDAV' = FALSE /\ fifo' = <<>>
           /\ rcvToggle' = Saved
           /\ pc' = "ports" /\ rcode' = "SUCCESS"
           /\ deadline' = 0 /\ nak_count' = 0 /\ retry_count' = 0
           /\ UNCHANGED <<keyboard, alive, busy, HXFRDN, HRSL, rtog, clock, slot, port>>

\* Fault: the ports are written from the last to the first.
FaultTarget == Slots + 1 - slot
\* The ports are written one after the other.
Target == slot

\* main, setKeycode.
SetKeycode == /\ pc = "ports"
              /\ port' = [port EXCEPT ![Target] = Code(kbdbuf, Target)]
              /\ IF slot = Slots THEN slot' = 1 /\ pc' = "main"
                 ELSE slot' = slot + 1 /\ pc' = pc
              /\ UNCHANGED <<keyboard, chip, clock, dispatch, rcvToggle, kbdbuf>>
-----------------------------------------------------------------------------
Driver == Poll \/ Launch \/ Expire \/ Done \/ Nak \/ Retry \/ Fail \/ SetKeycode

Next == \/ /\ KeyEvent \/ Complete \/ Die \/ Tick \/ Driver
           /\ got' = <<>>
        \/ Receive

\* The processor runs, a working chip completes what it was given, and the
\* bus lets a transaction through again and again.
Fairness == /\ WF_vars((Driver /\ got' = <<>>) \/ Receive)
            /\ WF_vars(Tick /\ got' = <<>>)
            /\ WF_vars(Complete /\ got' = <<>>)
            /\ SF_vars(Arrive(TRUE) /\ got' = <<>>)

Spec == Init /\ [][Next]_vars /\ Fairness
-----------------------------------------------------------------------------
Dispatching == pc \in {"launch", "wait", "result"}

TypeOK ==
  /\ keys \in Report /\ queue \in BoundedSeq(Report, MaxQueue)
  /\ {dtog, rtog, rcvToggle} \subseteq 0 .. 1
  /\ {alive, busy, HXFRDN, RCVDAV, ticked} \subseteq BOOLEAN
  /\ HRSL \in {"SUCCESS", "NAK", "TIMEOUT", "TOGERR", "PKTERR"}
  /\ fifo \in Report /\ kbdbuf \in Report
  /\ reading \in 0 .. MaxReading /\ deadline \in 0 .. MaxReading + USB_XFER_TIMEOUT
  /\ pc \in {"main", "launch", "wait", "result", "ports"} /\ slot \in Slot
  /\ nak_count \in 0 .. USB_NAK_LIMIT - 1 /\ retry_count \in 0 .. USB_RETRY_LIMIT - 1
  /\ rcode \in {"SUCCESS", "NAK", "TIMEOUT", "TOGERR", "PKTERR", "EXPIRED"}
  /\ port \in [Slot -> Key \union {"none"}]

\* Reports that the keyboard has and the program has not.  The one at the
\* front of the queue is a repetition when the keyboard's toggle is behind
\* the last one that was received.
Expected == IF pc \in {"main", "ports"} THEN rcvToggle ELSE rtog
InFlight == (IF RCVDAV THEN <<fifo>> ELSE <<>>)
            \o (IF queue # <<>> /\ dtog # Expected THEN Tail(queue) ELSE queue)
Reports == INSTANCE Pipe WITH pipe <- InFlight, Char <- Report, Capacity <- MaxQueue + 1

\* Every report reaches the program once and in order, whatever the bus loses:
\* an acknowledgement that is lost makes the keyboard repeat its report, and
\* the toggle, rewritten before each transfer and saved only after a good one,
\* makes the chip drop the repetition.
ReportsAreAPipe == Reports!Spec

\* A chip that works is never given up: the 203 transactions that the limits
\* allow at most are over long before the time-out, even across the overflow
\* of the clock's product.
WorkingChipIsKept == rcode = "EXPIRED" => ~alive

\* XferDispatchPkt ends, even when the chip never answers; but a time-out
\* beyond the overflow of the clock is never reached, and then it does not.
DispatchEnds == (Dispatching /\ deadline <= MaxReading) ~> ~Dispatching

\* While main copies a report into the ports one by one, a key that is down in
\* the old report and in the new one is to be seen in some port all the time:
\* a tank does not stop because another key is pressed or released.
Shown == Range(port) \ {"none"}
KeptKeysStay ==
  [][\A k \in Key : (k \in Shown /\ pc = "ports" /\ k \in Range(kbdbuf)) => k \in Shown']_vars

\* While the keyboard rests and the chip works, the ports come to show the
\* keys that are down.
PortsFollow ==
  []alive => \/ []<><<KeyEvent>>_vars
             \/ []<>(Shown = Range(keys))
===============================================================================
