------------------------------- MODULE JtagUart -------------------------------
(***************************************************************************)
(* The console of the processor: the interrupt-driven JTAG UART driver,    *)
(* from the boot code that installs it to the calls that printf makes.     *)
(*                                                                         *)
(* Three parties share its state.  The program copies characters between   *)
(* its buffers and two rings and waits, spinning, for the interrupt        *)
(* routine to move them between the rings and the chip's FIFOs.  The       *)
(* routine switches its own two interrupts off and the program switches    *)
(* them on again.  Once a second an alarm looks whether the host has been  *)
(* there.  There is one processor: while the interrupt routine runs the    *)
(* program stands still, but the chip and the host do not.                 *)
(*                                                                         *)
(* Characters are numbered modulo Alphabet in the order they are sent.     *)
(***************************************************************************)
EXTENDS Integers, SequencesExt

CONSTANTS LEN,          \* ALTERA_AVALON_JTAG_UART_BUF_LEN, 2048
          WDepth, RDepth,   \* the chip's FIFOs, 64 each
          DefaultTimeout,   \* ALTERA_AVALON_JTAG_UART_DEFAULT_TIMEOUT, 10
          INT_MAX,
          MaxCount,     \* bound: characters of one call
          Flags,        \* bound: whether descriptors are O_NONBLOCK; the program's are not
          Timeouts,     \* bound: what TIOCSTIMEOUT is called with
          Alphabet      \* bound: characters that are told apart

ASSUME LenAssumption == LEN \in Nat /\ LEN > 1
ASSUME DepthAssumption == WDepth \in Nat \ {0} /\ RDepth \in Nat \ {0}
ASSUME TimeoutAssumption ==
  DefaultTimeout \in Nat /\ INT_MAX \in Nat /\ 2 <= DefaultTimeout /\ DefaultTimeout < INT_MAX - 1
ASSUME CountAssumption == MaxCount \in Nat \ {0} /\ Alphabet \in Nat \ {0}
ASSUME CallAssumption == Flags \subseteq BOOLEAN /\ Timeouts \subseteq Nat

VARIABLES
  \* altera_avalon_jtag_uart_state
  irq_enable,           \* {"RE", "WE"}, and with it the chip's control register
  timeout, host_inactive,
  rx_in, rx_out, tx_in, tx_out, rx_buf, tx_buf,
  \* the chip and the host
  wfifo, rfifo, AC,
  sent, rsent,          \* the next character of the program, of the host
  \* the program: where it is, and the locals of the call it is in
  pc, ticking, count, nonblock, moved, out, in,
  \* the interrupt routine: where it is, and its locals
  isr, wi, space, avail,
  got                   \* observed only: what the last step handed over

state == <<irq_enable, timeout, host_inactive, rx_in, rx_out, tx_in, tx_out, rx_buf, tx_buf>>
chip == <<wfifo, rfifo, AC, rsent>>
locals == <<count, nonblock, moved, out, in>>
call == <<pc, ticking, locals>>
routine == <<isr, wi, space, avail>>
vars == <<state, chip, sent, call, routine, got>>

Char == 0 .. Alphabet - 1
Index == 0 .. LEN - 1
Least(a, b) == IF a < b THEN a ELSE b
Used(first, last) == (last - first) % LEN
\* The locals of a call end with it.
Goto(p) == /\ pc' = p
           /\ IF p = "idle" THEN /\ count' = 0 /\ out' = 0 /\ in' = 0
                                 /\ nonblock' = FALSE /\ moved' = FALSE
              ELSE UNCHANGED locals
           /\ UNCHANGED ticking
\* The characters of a ring that starts at first and ends before last.
Ring(buf, first, last) == [i \in 1 .. Used(first, last) |-> buf[(first + i - 1) % LEN]]
-----------------------------------------------------------------------------
(* Boot: alt_main, alt_irq_init, alt_sys_init.                             *)

Init == /\ irq_enable = {} /\ timeout = DefaultTimeout /\ host_inactive = 0
        /\ rx_in = 0 /\ rx_out = 0 /\ tx_in = 0 /\ tx_out = 0
        /\ rx_buf = [i \in Index |-> 0] /\ tx_buf = [i \in Index |-> 0]
        /\ wfifo = <<>> /\ rfifo = <<>> /\ AC = FALSE
        /\ sent = 0 /\ rsent = 0
        /\ pc = "timer" /\ ticking = FALSE
        /\ count = 0 /\ nonblock = FALSE /\ moved = FALSE /\ out = 0 /\ in = 0
        /\ isr = "off" /\ wi = FALSE /\ space = 0 /\ avail = FALSE
        /\ got = <<>>

\* alt_avalon_timer_sc_init: from now on there is a tick rate, and alarms.
TimerInit == /\ pc = "timer" /\ pc' = "uart"
             /\ ticking' = TRUE
             /\ UNCHANGED <<state, chip, sent, count, nonblock, moved, out, in, routine>>

\* altera_avalon_jtag_uart_init: reads are enabled, the handler is registered
\* and the alarm is started.  Without a clock the host counts as present.
UartInit == /\ pc = "uart" /\ pc' = "idle"
            /\ irq_enable' = {"RE"}
            /\ host_inactive' = 0
            /\ timeout' = IF ticking THEN timeout ELSE INT_MAX
            /\ UNCHANGED <<rx_in, rx_out, tx_in, tx_out, rx_buf, tx_buf, chip, sent,
                           ticking, count, nonblock, moved, out, in, routine>>

\* alt_ic_isr_register unmasks the interrupt when the handler is in place.
Registered == pc \notin {"timer", "uart"}
-----------------------------------------------------------------------------
(* altera_avalon_jtag_uart_write.                                          *)

\* Fault: a ring whose first character stands at 0 is filled completely.
FaultGap(i, o) == IF i < o THEN o - 1 - i ELSE LEN - i
\* The places from i on that can be filled without wrapping, where o is the
\* first to be sent; one place is always left empty.
Gap(i, o) == IF i < o THEN o - 1 - i
             ELSE IF o > 0 THEN LEN - i
             ELSE LEN - 1 - i

\* alt_write of c characters, through a descriptor that may be non-blocking.
Write(c, nb) == /\ pc = "idle" /\ pc' = "fill"
                /\ count' = c /\ nonblock' = nb /\ moved' = FALSE /\ out' = 0
                /\ UNCHANGED <<state, chip, sent, ticking, in, routine>>

\* A stable value of the out pointer: the routine may move it at once.
Fill == /\ pc = "fill"
        /\ out' = IF count > 0 THEN tx_out ELSE out
        /\ pc' = IF count > 0 /\ Gap(tx_in, tx_out) > 0 THEN "copy" ELSE "kick"
        /\ UNCHANGED <<state, chip, sent, ticking, count, nonblock, moved, in, routine>>

Copy == /\ pc = "copy" /\ pc' = "fill"
        /\ LET n == Least(Gap(tx_in, out), count)
           IN /\ tx_buf' = [i \in Index |-> IF tx_in <= i /\ i < tx_in + n
                                              THEN (sent + i - tx_in) % Alphabet
                                              ELSE tx_buf[i]]
              /\ tx_in' = (tx_in + n) % LEN
              /\ count' = count - n
              /\ sent' = (sent + n) % Alphabet
        /\ UNCHANGED <<irq_enable, timeout, host_inactive, rx_in, rx_out, tx_out, rx_buf,
                       chip, ticking, nonblock, moved, out, in, routine>>

\* Interrupts are off while the shared irq_enable is changed.
Kick == /\ pc = "kick"
        /\ irq_enable' = irq_enable \union {"WE"}
        /\ Goto(IF count = 0 \/ nonblock THEN "idle" ELSE "spin")
        /\ UNCHANGED <<timeout, host_inactive, rx_in, rx_out, tx_in, tx_out, rx_buf, tx_buf,
                       chip, sent, routine>>

Spin == /\ pc = "spin"
        /\ out # tx_out \/ host_inactive >= timeout
        /\ pc' = "decide"
        /\ UNCHANGED <<state, chip, sent, ticking, count, nonblock, moved, out, in, routine>>

\* One second without the host, and a call that had to wait gives up.
Decide == /\ pc = "decide"
          /\ Goto(IF host_inactive # 0 THEN "idle" ELSE "fill")
          /\ UNCHANGED <<state, chip, sent, routine>>
-----------------------------------------------------------------------------
(* altera_avalon_jtag_uart_read.                                           *)

Read(c, nb) == /\ pc = "idle" /\ pc' = "take"
               /\ count' = c /\ nonblock' = nb /\ moved' = FALSE /\ in' = 0
               /\ UNCHANGED <<state, chip, sent, ticking, out, routine>>

\* The characters that can be read without wrapping.
Run(i, o) == IF i >= o THEN i - o ELSE LEN - o

\* Leaving the copying loop: what was read is returned; else the call waits.
Take == /\ pc = "take"
        /\ IF count > 0 /\ Run(rx_in, rx_out) > 0
             THEN pc' = "deliver" /\ in' = rx_in
                  /\ UNCHANGED <<ticking, count, nonblock, moved, out>>
           ELSE IF moved \/ nonblock THEN Goto(IF moved THEN "reenable" ELSE "idle")
           ELSE pc' = "await" /\ in' = rx_in
                /\ UNCHANGED <<ticking, count, nonblock, moved, out>>
        /\ UNCHANGED <<state, chip, sent, routine>>

CopyOut == /\ pc = "deliver" /\ pc' = "take"
           /\ LET n == Least(Run(in, rx_out), count)
              IN /\ got' = [i \in 1 .. n |-> rx_buf[rx_out + i - 1]]
                 /\ rx_out' = (rx_out + n) % LEN
                 /\ count' = count - n
           /\ moved' = TRUE
           /\ UNCHANGED <<irq_enable, timeout, host_inactive, rx_in, tx_in, tx_out, rx_buf,
                          tx_buf, chip, sent, ticking, nonblock, out, in, routine>>

Await == /\ pc = "await"
         /\ in # rx_in \/ host_inactive >= timeout
         /\ Goto(IF in = rx_in THEN "idle" ELSE "take")
         /\ UNCHANGED <<state, chip, sent, routine>>

\* Fault: the receive interrupt stays as the routine left it.
FaultReenabled == irq_enable
\* There is space in the ring again.
Reenabled == irq_enable \union {"RE"}

Reenable == /\ pc = "reenable" /\ Goto("idle")
            /\ irq_enable' = Reenabled
            /\ UNCHANGED <<timeout, host_inactive, rx_in, rx_out, tx_in, tx_out, rx_buf, tx_buf,
                           chip, sent, routine>>
-----------------------------------------------------------------------------
(* The other calls.                                                        *)

\* altera_avalon_jtag_uart_close waits for the ring to drain.
Close(nb) == /\ pc = "idle" /\ pc' = "close"
             /\ nonblock' = nb
             /\ UNCHANGED <<state, chip, sent, ticking, count, moved, out, in, routine>>

Closing == /\ pc = "close" /\ Goto("idle")
           /\ tx_out = tx_in \/ host_inactive >= timeout \/ nonblock
           /\ UNCHANGED <<state, chip, sent, routine>>

\* altera_avalon_jtag_uart_ioctl, TIOCSTIMEOUT (TIOCGCONNECTED only reads).
SetTimeout(t) == /\ pc = "idle" /\ timeout # INT_MAX
                 /\ timeout' = IF t >= 2 /\ t < INT_MAX THEN t ELSE INT_MAX - 1
                 /\ UNCHANGED <<irq_enable, host_inactive, rx_in, rx_out, tx_in, tx_out, rx_buf,
                                tx_buf, chip, sent, call, routine>>

-----------------------------------------------------------------------------
(* The chip.  RI and WI are pending only while RE and WE allow them; when  *)
(* exactly depends on thresholds and on the pauses of the host, but a full *)
(* receive FIFO and an empty transmit FIFO always raise them.              *)

RiPossible == "RE" \in irq_enable /\ rfifo # <<>>
RiForced == "RE" \in irq_enable /\ Len(rfifo) = RDepth
WiPossible == "WE" \in irq_enable /\ Len(wfifo) < WDepth
WiForced == "WE" \in irq_enable /\ wfifo = <<>>
Forced == RiForced \/ WiForced

\* What one read of the control register can show.
Pending == {p \in BOOLEAN \X BOOLEAN : /\ p[1] \in {RiForced, RiPossible}
                                       /\ p[2] \in {WiForced, WiPossible}}
-----------------------------------------------------------------------------
(* altera_avalon_jtag_uart_irq.                                            *)

\* A pass over a control register that shows RI = ri or WI = w.
Pass(ri, w) == /\ isr' = IF ri THEN "rx" ELSE "tx"
               /\ wi' = w
               /\ space' = IF w THEN WDepth - Len(wfifo) ELSE 0
               /\ avail' = ri
               /\ UNCHANGED <<state, chip, sent, call>>

\* alt_irq_handler calls the routine for a pending interrupt.
Enter == /\ isr = "off" /\ Registered
         /\ \E p \in Pending : (p[1] \/ p[2]) /\ Pass(p[1], p[2])

\* The routine returns only once it finds nothing pending.
Control == /\ isr = "control"
           /\ \E p \in Pending :
                IF p[1] \/ p[2] THEN Pass(p[1], p[2])
                ELSE isr' = "off" /\ UNCHANGED <<state, chip, sent, call, wi, space, avail>>

\* Fault: characters are read from the chip without a look at the ring.
FaultRxFull == FALSE
RxFull == (rx_in + 1) % LEN = rx_out

RxChar == /\ isr = "rx" /\ ~RxFull /\ rfifo # <<>>
          /\ rx_buf' = [rx_buf EXCEPT ![rx_in] = Head(rfifo)]
          /\ rx_in' = (rx_in + 1) % LEN
          /\ rfifo' = Tail(rfifo)
          /\ avail' = (Len(rfifo) > 1)
          /\ UNCHANGED <<irq_enable, timeout, host_inactive, rx_out, tx_in, tx_out, tx_buf,
                         wfifo, AC, rsent, sent, call, isr, wi, space>>

\* Characters that the ring has no place for stay in the chip, silently.
RxDone == /\ isr = "rx" /\ (RxFull \/ rfifo = <<>>)
          /\ isr' = IF wi THEN "tx" ELSE "control"
          /\ avail' = FALSE
          /\ irq_enable' = IF RxFull /\ avail THEN irq_enable \ {"RE"} ELSE irq_enable
          /\ UNCHANGED <<timeout, host_inactive, rx_in, rx_out, tx_in, tx_out, rx_buf, tx_buf,
                         chip, sent, call, wi, space>>

TxChar == /\ isr = "tx" /\ space > 0 /\ tx_out # tx_in
          /\ wfifo' = Append(wfifo, tx_buf[tx_out])
          /\ tx_out' = (tx_out + 1) % LEN
          /\ space' = space - 1
          /\ UNCHANGED <<irq_enable, timeout, host_inactive, rx_in, rx_out, tx_in, rx_buf, tx_buf,
                         rfifo, AC, rsent, sent, call, isr, wi, avail>>

\* Fault: the transmit interrupt is never switched off.
FaultDrained == FALSE
\* There was room for more: the ring is empty, and nothing asks for the routine.
Drained == space > 0

TxDone == /\ isr = "tx" /\ (space = 0 \/ tx_out = tx_in)
          /\ isr' = "control"
          /\ wi' = FALSE /\ space' = 0
          /\ irq_enable' = IF Drained THEN irq_enable \ {"WE"} ELSE irq_enable
          /\ UNCHANGED <<timeout, host_inactive, rx_in, rx_out, tx_in, tx_out, rx_buf, tx_buf,
                         chip, sent, call, avail>>

Routine == Control \/ RxChar \/ RxDone \/ TxChar \/ TxDone
-----------------------------------------------------------------------------
(* altera_avalon_jtag_uart_timeout, once a second.  The UART's interrupt   *)
(* has the lower number, so a pending one is served first.                 *)

\* Fault: characters that nobody has taken count as a sign of life.
FaultHostSeen == AC \/ wfifo # <<>>
HostSeen == AC

Timeout == /\ isr = "off" /\ Registered /\ ticking /\ ~Forced
           /\ AC' = FALSE
           /\ host_inactive' = IF HostSeen THEN 0
                               ELSE IF host_inactive < INT_MAX - 2 THEN host_inactive + 1
                               ELSE host_inactive
           /\ UNCHANGED <<irq_enable, timeout, rx_in, rx_out, tx_in, tx_out, rx_buf, tx_buf,
                          wfifo, rfifo, rsent, sent, call, routine>>
-----------------------------------------------------------------------------
(* The host, which may come, go, poll, read and type as it likes.          *)

HostTake == /\ wfifo # <<>>
            /\ got' = <<Head(wfifo)>>
            /\ wfifo' = Tail(wfifo)
            /\ AC' = TRUE
            /\ UNCHANGED <<state, rfifo, rsent, sent, call, routine>>

HostSend == /\ Len(rfifo) < RDepth
            /\ rfifo' = Append(rfifo, rsent)
            /\ rsent' = (rsent + 1) % Alphabet
            /\ AC' = TRUE
            /\ UNCHANGED <<state, wfifo, sent, call, routine>>

HostPoll == AC' = TRUE /\ UNCHANGED <<state, wfifo, rfifo, rsent, sent, call, routine>>
-----------------------------------------------------------------------------
Calls == \/ \E c \in 1 .. MaxCount, nb \in Flags : Write(c, nb) \/ Read(c, nb)
         \/ \E nb \in Flags : Close(nb)
         \/ \E t \in Timeouts : SetTimeout(t)
Program == \/ TimerInit \/ UartInit \/ Fill \/ Copy \/ Kick \/ Spin \/ Decide
           \/ Take \/ Await \/ Reenable \/ Closing

\* There is one processor.
Silent == \/ isr = "off" /\ (Calls \/ Program)
          \/ Enter \/ Routine \/ Timeout \/ HostSend \/ HostPoll
Next == \/ Silent /\ got' = <<>>
        \/ isr = "off" /\ CopyOut
        \/ HostTake

ProgramStep == isr = "off" /\ ((Program /\ got' = <<>>) \/ CopyOut)

\* The processor runs, the chip raises the interrupts it must raise, and
\* the alarm has its turn again and again.  The host owes nothing.
Fairness == /\ WF_vars(ProgramStep)
            /\ WF_vars(Forced /\ Enter /\ got' = <<>>)
            /\ WF_vars(Routine /\ got' = <<>>)
            /\ SF_vars(Timeout /\ got' = <<>>)

Spec == Init /\ [][Next]_vars /\ Fairness
-----------------------------------------------------------------------------
TypeOK ==
  /\ irq_enable \subseteq {"RE", "WE"}
  /\ timeout \in 0 .. INT_MAX /\ host_inactive \in 0 .. INT_MAX - 2
  /\ {rx_in, rx_out, tx_in, tx_out, out, in} \subseteq Index
  /\ rx_buf \in [Index -> Char] /\ tx_buf \in [Index -> Char]
  /\ wfifo \in Seq(Char) /\ Len(wfifo) <= WDepth
  /\ rfifo \in Seq(Char) /\ Len(rfifo) <= RDepth
  /\ AC \in BOOLEAN /\ sent \in Char /\ rsent \in Char
  /\ pc \in {"timer", "uart", "idle", "fill", "copy", "kick", "spin", "decide",
             "take", "deliver", "await", "reenable", "close"}
  /\ ticking \in BOOLEAN /\ count \in 0 .. MaxCount /\ nonblock \in BOOLEAN /\ moved \in BOOLEAN
  /\ isr \in {"off", "control", "rx", "tx"} /\ wi \in BOOLEAN /\ avail \in BOOLEAN
  /\ space \in 0 .. WDepth
  /\ got \in Seq(Char)

\* No character waits where nobody will come for it: while the transmit ring
\* holds one, its interrupt is on or the call that wrote it is about to switch
\* it on; while the receive interrupt is off, the ring has something to read,
\* and the read that empties it is about to switch the interrupt on again.
\* (The two masks in the routine against the two in the calls, _write.c:143
\* and _read.c:190.)
NothingStranded ==
  /\ tx_in # tx_out => "WE" \in irq_enable \/ pc \in {"fill", "copy", "kick"}
  /\ Registered /\ "RE" \notin irq_enable =>
       rx_in # rx_out \/ (moved /\ pc \in {"take", "reenable"})

Transmitted == INSTANCE Pipe WITH pipe <- wfifo \o Ring(tx_buf, tx_out, tx_in),
                                  Capacity <- WDepth + LEN - 1
Received == INSTANCE Pipe WITH pipe <- Ring(rx_buf, rx_out, rx_in) \o rfifo,
                               Capacity <- RDepth + LEN - 1

\* What the program writes goes through the ring and the chip's FIFO to the
\* host as a pipe: nothing is lost, doubled or overtaken, whatever the
\* interleaving of copies, interrupts and the host, and however often a call
\* gives up half-way.
TransmitIsAPipe == Transmitted!Spec

\* The same of what the host types, up to the buffers of the read calls.
ReceiveIsAPipe == Received!Spec

\* The routine loops until it finds nothing pending; it comes to an end even
\* against a host that types and reads without a pause, because a full ring
\* switches reading off and an empty one writing.
RoutineReturns == isr # "off" ~> isr = "off"

\* Once the host is gone for good every call comes back, by the alarm: no
\* call spins for ever, unless the time-out was switched off.
EveryCallReturns ==
  <>[](~AC) /\ <>[](timeout <= INT_MAX - 2) => []<>(pc = "idle")
===============================================================================
