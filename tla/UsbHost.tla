------------------------------- MODULE UsbHost -------------------------------
(***************************************************************************)
(* The USB keyboard host: main's loop, MAX3421E_Task with its interrupt    *)
(* handler and USB_Task's enumeration, polling a MAX3421E chip.            *)
(*                                                                         *)
(* The software never waits: each turn of main's loop looks at the chip    *)
(* once and moves usb_task_state on by at most one step, while devices are *)
(* plugged and unplugged, resets end, frames start and milliseconds pass.  *)
(* What the chip does is taken from how the code uses it.  A transfer may  *)
(* succeed when a device is there and is spoken to at its speed, and may   *)
(* fail at any time; its bytes are not modelled.                           *)
(***************************************************************************)
EXTENDS Naturals

CONSTANTS Devices,          \* what can be plugged in
          LowSpeed,         \* the devices that speak at low speed
          Class,            \* Class[d]: "keyboard", "mouse" or "other"
          USB_NUMDEVICES,   \* 8: addresses 1 .. 7
          Settle,           \* 200, in milliseconds
          Wrap              \* nticks * 1000 overflows: (2^32 - 1) \div 1000 + 1

ASSUME DevicesAssumption ==
  /\ Devices \cap {"SE0", "SE1"} = {} /\ LowSpeed \subseteq Devices
  /\ Class \in [Devices -> {"keyboard", "mouse", "other"}]
ASSUME NumDevicesAssumption == USB_NUMDEVICES \in Nat /\ USB_NUMDEVICES > 1
ASSUME ClockAssumption == Settle \in Nat /\ Wrap \in Nat \ {0}

VARIABLES
  bus,              \* the device plugged in, "SE0" (nothing) or "SE1" (illegal)
  HIRQ,             \* pending interrupts
  BUSRST,           \* the chip is resetting the bus
  lowspeed, sofs,   \* rMODE: LOWSPEED and SOFKAENAB
  osc,              \* the chip's oscillator is stable (OSCOKIRQ)
  ms,               \* (alt_nticks() * 1000) / alt_ticks_per_second()
  usb_task_state, usb_delay, tmp_addr,
  devtable,         \* per address: NULL, or the class of the entry
  runningdebugflag, device,     \* of main
  pc,               \* where main's loop is
  served,           \* the interrupts the handler has read and will acknowledge
  stale             \* observed only: the bus changed since a probe acted on it

mode == <<lowspeed, sofs>>
taskVars == <<usb_task_state, usb_delay, tmp_addr, devtable>>
mainVars == <<runningdebugflag, device>>
vars == <<bus, HIRQ, BUSRST, mode, osc, ms, taskVars, mainVars, pc, served, stale>>

\* USB.h: the values of usb_task_state; its high nibble is the main state.
INITIALIZE == 1
WAIT_FOR_DEVICE == 3
ILLEGAL == 4
ATTACHED == 16
SETTLE == 17
RESET_DEVICE == 18
WAIT_RESET_COMPLETE == 19
WAIT_SOF == 20
GET_DEVICE_DESCRIPTOR_SIZE == 21
ADDRESSING == 32
CONFIGURING == 48
RUNNING == 64
ERROR == 255

Main(s) == s - (s % 16)
Detached(s) == Main(s) = 0

Addresses == 1 .. USB_NUMDEVICES - 1
NULL == "NULL"
NoDevices == [i \in Addresses |-> NULL]
Sampled == Devices \union {"SE0", "SE1"}
-----------------------------------------------------------------------------
(* MAX_busprobe, called in task state s: the next task state and rMODE.    *)

\* A probe in WAIT_RESET_COMPLETE takes no notice of a device.
Ignored(s) == bus \in Devices /\ s = WAIT_RESET_COMPLETE

Probed(s) == CASE bus \in Devices -> IF Ignored(s) THEN s ELSE ATTACHED
               [] bus = "SE1" -> ILLEGAL
               [] bus = "SE0" -> IF Detached(s) THEN WAIT_FOR_DEVICE ELSE INITIALIZE

\* The bus idles in state K when the device's speed is not the chip's.
KStatus(low) == (bus \in LowSpeed) # low

\* Fault: K starts a low-speed host whatever the speed was.
FaultProbedSpeed(s, low) ==
  IF bus \in Devices /\ ~Ignored(s) THEN low \/ KStatus(low)
                                    ELSE low /\ ~(bus = "SE0" /\ Detached(s))
\* J keeps the speed and K changes it; an empty bus is watched at full speed.
ProbedSpeed(s, low) ==
  IF bus \in Devices /\ ~Ignored(s) THEN low # KStatus(low)
                                    ELSE low /\ ~(bus = "SE0" /\ Detached(s))

ProbedSofs(s, on) ==
  on \/ (bus \in Devices /\ ~Ignored(s)) \/ (bus = "SE0" /\ Detached(s))
-----------------------------------------------------------------------------
\* MAX3421E_init up to the oscillator loop: the chip forgets everything.
ChipReset == /\ pc' = "oscillator"
             /\ osc' = FALSE /\ HIRQ' = {} /\ BUSRST' = FALSE
             /\ lowspeed' = FALSE /\ sofs' = FALSE

\* The loop ends when the oscillator is stable, and only then; the chip becomes
\* a host, which may detect a connection, and the bus is probed.
InitProbe == /\ pc = "oscillator" /\ osc
             /\ pc' = "initAck"
             /\ HIRQ' \in {{}, {"CONDET"}}
             /\ usb_task_state' = Probed(usb_task_state)
             /\ lowspeed' = ProbedSpeed(usb_task_state, FALSE)
             /\ sofs' = ProbedSofs(usb_task_state, FALSE)
             /\ stale' = (stale /\ Ignored(usb_task_state))
             /\ UNCHANGED <<bus, BUSRST, osc, ms, usb_delay, tmp_addr, devtable,
                            mainVars, served>>

\* MAX3421E_init clears the connection interrupt; USB_init clears the table.
InitAck == /\ pc = "initAck" /\ pc' = "task"
           /\ HIRQ' = HIRQ \ {"CONDET"}
           /\ devtable' = NoDevices
           /\ UNCHANGED <<bus, BUSRST, mode, osc, ms, usb_task_state, usb_delay,
                          tmp_addr, mainVars, served, stale>>

\* Only a connection change is enabled in HIEN.
Interrupt == "CONDET" \in HIRQ

\* Fault: an unplugged device is only noticed once it was configured.
FaultAfterProbe(s) ==
  IF bus = "SE0" /\ Main(s) = ATTACHED THEN s ELSE Probed(s)
\* Task state after the probe, if the interrupt calls for one.
AfterProbe(s) == IF "CONDET" \in HIRQ THEN Probed(s) ELSE s

\* MaxIntHandler up to its acknowledgement: a bus event is read as "reset
\* done" and moves the task state on.
MaxIntHandler ==
  /\ pc = "task" /\ Interrupt
  /\ pc' = "ack"
  /\ served' = HIRQ
  /\ LET s == AfterProbe(usb_task_state)
     IN usb_task_state' = IF "BUSEVENT" \in HIRQ THEN (s + 1) % 256 ELSE s
  /\ lowspeed' = ProbedSpeed(usb_task_state, lowspeed)
  /\ sofs' = ProbedSofs(usb_task_state, sofs)
  /\ stale' = (stale /\ Ignored(usb_task_state))
  /\ UNCHANGED <<bus, HIRQ, BUSRST, osc, ms, usb_delay, tmp_addr, devtable, mainVars>>

NoInterrupt == /\ pc = "task" /\ ~Interrupt
               /\ pc' = "usb"
               /\ UNCHANGED <<bus, HIRQ, BUSRST, mode, osc, ms, taskVars, mainVars,
                              served, stale>>

\* The write back to HIRQ: what was read, also when it has come again since.
Ack == /\ pc = "ack" /\ pc' = "usb"
       /\ HIRQ' = HIRQ \ served
       /\ served' = {}
       /\ UNCHANGED <<bus, BUSRST, mode, osc, ms, taskVars, mainVars, stale>>
-----------------------------------------------------------------------------
(* USB_Task, one switch branch per action.                                 *)

\* Outcomes of a transfer.
Answers == IF bus \in Devices /\ lowspeed = (bus \in LowSpeed) THEN BOOLEAN ELSE {FALSE}

At(s) == pc = "usb" /\ usb_task_state = s /\ pc' = "main"
Chip == <<bus, HIRQ, BUSRST, mode, osc, ms>>
Rest == <<mainVars, served, stale>>

Initialize == /\ At(INITIALIZE)
              /\ devtable' = NoDevices
              /\ usb_task_state' = WAIT_FOR_DEVICE
              /\ UNCHANGED <<Chip, usb_delay, tmp_addr, Rest>>

Attach == /\ At(ATTACHED)
          /\ usb_delay' = ms + Settle
          /\ usb_task_state' = SETTLE
          /\ UNCHANGED <<Chip, tmp_addr, devtable, Rest>>

Settling == /\ At(SETTLE)
            /\ usb_task_state' = IF ms > usb_delay THEN RESET_DEVICE ELSE SETTLE
            /\ UNCHANGED <<Chip, usb_delay, tmp_addr, devtable, Rest>>

\* Fault: an old bus event is not cleared before the reset is issued.
FaultCleared == HIRQ
Cleared == HIRQ \ {"BUSEVENT"}

ResetDevice == /\ At(RESET_DEVICE)
               /\ HIRQ' = Cleared
               /\ BUSRST' = TRUE
               /\ usb_task_state' = WAIT_RESET_COMPLETE
               /\ UNCHANGED <<bus, mode, osc, ms, usb_delay, tmp_addr, devtable, Rest>>

WaitReset == /\ At(WAIT_RESET_COMPLETE)
             /\ usb_task_state' = IF BUSRST THEN WAIT_RESET_COMPLETE ELSE WAIT_SOF
             /\ sofs' = (sofs \/ ~BUSRST)
             /\ UNCHANGED <<bus, HIRQ, BUSRST, lowspeed, osc, ms, usb_delay, tmp_addr,
                            devtable, Rest>>

\* HIRQ | bmFRAMEIRQ, not &.
WaitSof == /\ At(WAIT_SOF)
           /\ usb_task_state' = IF HIRQ \union {"FRAME"} # {}
                                  THEN GET_DEVICE_DESCRIPTOR_SIZE ELSE WAIT_SOF
           /\ UNCHANGED <<Chip, usb_delay, tmp_addr, devtable, Rest>>

\* Only the first of up to six transfers decides; the others' rcodes are lost.
GetDescriptor == /\ At(GET_DEVICE_DESCRIPTOR_SIZE)
                 /\ \E ok \in Answers : usb_task_state' = IF ok THEN ADDRESSING ELSE ERROR
                 /\ UNCHANGED <<Chip, usb_delay, tmp_addr, devtable, Rest>>

\* The first free entry is taken before the device is told its address, and
\* stays taken when that fails.
Free(i) == devtable[i] = NULL /\ \A j \in 1 .. i - 1 : devtable[j] # NULL

Address == /\ At(ADDRESSING)
           /\ \/ \E i \in Addresses, ok \in Answers :
                    /\ Free(i)
                    /\ devtable' = [devtable EXCEPT ![i] = "uninitialized"]
                    /\ IF ok THEN tmp_addr' = i /\ usb_task_state' = CONFIGURING
                             ELSE usb_task_state' = ERROR /\ UNCHANGED tmp_addr
              \/ /\ \A i \in Addresses : ~Free(i)
                 /\ usb_task_state' = ERROR
                 /\ UNCHANGED <<devtable, tmp_addr>>
           /\ UNCHANGED <<Chip, usb_delay, Rest>>

\* HIDMProbe and HIDKProbe: the interface found fills in the class before the
\* device is configured (which may fail); other probes always return FALSE.
Configure == /\ At(CONFIGURING)
             /\ \/ /\ TRUE \in Answers /\ Class[bus] \in {"keyboard", "mouse"}
                   /\ devtable' = [devtable EXCEPT ![tmp_addr] = Class[bus]]
                   /\ usb_task_state' \in {RUNNING, ERROR}
                \/ usb_task_state' = ERROR /\ UNCHANGED devtable
             /\ UNCHANGED <<Chip, usb_delay, tmp_addr, Rest>>

\* RUNNING, ERROR (by the default branch), and detached states but INITIALIZE.
Nothing == /\ pc = "usb" /\ pc' = "main"
           /\ \/ usb_task_state \in {RUNNING, ERROR}
              \/ Detached(usb_task_state) /\ usb_task_state # INITIALIZE
           /\ UNCHANGED <<Chip, taskVars, Rest>>

USB_Task == \/ Initialize \/ Attach \/ Settling \/ ResetDevice \/ WaitReset
            \/ WaitSof \/ GetDescriptor \/ Address \/ Configure \/ Nothing
-----------------------------------------------------------------------------
(* The rest of main's loop.                                                *)

\* Fault: the search stops at the first entry.
FaultReported(i) == devtable[i] # NULL /\ \A j \in 1 .. i - 1 : devtable[j] = NULL
\* GetDriverandReport runs through the whole table: its last entry counts.
Reported(i) == devtable[i] # NULL /\ \A j \in i + 1 .. USB_NUMDEVICES - 1 : devtable[j] = NULL

\* The device has just been found: which driver will be polled?
Found == /\ pc = "main" /\ pc' = "task"
         /\ usb_task_state = RUNNING /\ ~runningdebugflag
         /\ runningdebugflag' = TRUE
         /\ device' \in {devtable[i] : i \in {j \in Addresses : Reported(j)}}
         /\ UNCHANGED <<Chip, taskVars, served, stale>>

\* kbdPoll or mousePoll, the error state, or not running and nothing to undo.
Poll == /\ pc = "main" /\ pc' = "task"
        /\ \/ usb_task_state = RUNNING /\ runningdebugflag
           \/ usb_task_state = ERROR
           \/ usb_task_state # RUNNING /\ ~runningdebugflag
        /\ UNCHANGED <<Chip, taskVars, Rest>>

\* Not running any more: everything is initialised again.
Reinit == /\ pc = "main" /\ usb_task_state \notin {RUNNING, ERROR} /\ runningdebugflag
          /\ runningdebugflag' = FALSE
          /\ ChipReset
          /\ UNCHANGED <<bus, ms, taskVars, device, served, stale>>

Software == \/ InitProbe \/ InitAck \/ MaxIntHandler \/ NoInterrupt \/ Ack
            \/ USB_Task \/ Found \/ Poll \/ Reinit
-----------------------------------------------------------------------------
(* The chip and the world.                                                 *)
Machine == <<taskVars, mainVars, pc, served>>

BusChange == /\ bus' \in Sampled \ {bus}
             /\ HIRQ' = IF pc = "oscillator" THEN HIRQ ELSE HIRQ \union {"CONDET"}
             /\ stale' = TRUE
             /\ UNCHANGED <<BUSRST, mode, osc, ms, Machine>>

\* "bus reset causes connection detect interrupt" (MAX3421E.c:141), or may.
ResetEnds == /\ BUSRST /\ BUSRST' = FALSE
             /\ HIRQ' \in {HIRQ \union {"BUSEVENT"}, HIRQ \union {"BUSEVENT", "CONDET"}}
             /\ UNCHANGED <<bus, mode, osc, ms, Machine, stale>>

FrameStarts == /\ sofs /\ ~BUSRST /\ "FRAME" \notin HIRQ
               /\ HIRQ' = HIRQ \union {"FRAME"}
               /\ UNCHANGED <<bus, BUSRST, mode, osc, ms, Machine, stale>>

OscillatorStable == /\ ~osc /\ osc' = TRUE
                    /\ UNCHANGED <<bus, HIRQ, BUSRST, mode, ms, Machine, stale>>

Tick == /\ ms' = (ms + 1) % Wrap
        /\ UNCHANGED <<bus, HIRQ, BUSRST, mode, osc, Machine, stale>>

World == BusChange \/ ResetEnds \/ FrameStarts \/ OscillatorStable \/ Tick

\* main has just called MAX3421E_init, with or without a device.
Init == /\ bus \in Sampled
        /\ HIRQ = {} /\ BUSRST = FALSE /\ lowspeed = FALSE /\ sofs = FALSE
        /\ osc = FALSE /\ ms = 0
        /\ usb_task_state = INITIALIZE /\ usb_delay = 0 /\ tmp_addr = 0
        /\ devtable = NoDevices
        /\ runningdebugflag = FALSE /\ device = NULL
        /\ pc = "oscillator" /\ served = {} /\ stale = TRUE

Next == Software \/ World

\* The processor runs and time passes; nothing else has to happen.
Spec == Init /\ [][Next]_vars /\ WF_vars(Software) /\ WF_vars(Tick)
-----------------------------------------------------------------------------
Classes == {"uninitialized", "keyboard", "mouse"}
Transferring == {WAIT_SOF, GET_DEVICE_DESCRIPTOR_SIZE, ADDRESSING, CONFIGURING, RUNNING}

\* A bus event after a probe can also leave INITIALIZE + 1 and ILLEGAL + 1.
TaskStates == {INITIALIZE, 2, WAIT_FOR_DEVICE, ILLEGAL, 5, ATTACHED, SETTLE,
               RESET_DEVICE, WAIT_RESET_COMPLETE, ERROR} \union Transferring

\* Types, and the values that the one-byte task state can reach: counting it
\* on never leads outside them.
TypeOK == /\ bus \in Sampled
          /\ HIRQ \subseteq {"CONDET", "BUSEVENT", "FRAME"} /\ served \subseteq HIRQ
          /\ {BUSRST, lowspeed, sofs, osc, runningdebugflag, stale} \subseteq BOOLEAN
          /\ ms \in 0 .. Wrap - 1 /\ usb_delay \in 0 .. Wrap - 1 + Settle
          /\ usb_task_state \in TaskStates
          /\ tmp_addr \in {0} \union Addresses
          /\ devtable \in [Addresses -> {NULL} \union Classes]
          /\ device \in {NULL} \union Classes
          /\ pc \in {"oscillator", "initAck", "task", "ack", "usb", "main"}

\* The device is spoken to only when its reset is over, also when the interrupt
\* handler, not USB_Task, moves the state on.
NoTransferInReset == BUSRST => usb_task_state \notin Transferring

\* As long as the bus is what the last probe saw, transfers go out at the speed
\* of the device.
SpeedMatches ==
  usb_task_state \in Transferring /\ ~stale => bus \in Devices /\ lowspeed = (bus \in LowSpeed)

\* main polls the driver of the device that is plugged in, whatever earlier
\* enumerations have left in the table (lines 35-41).
PollsWhatIsPlugged ==
  usb_task_state = RUNNING /\ runningdebugflag /\ ~stale => device = Class[bus]

\* A change of the bus that was acknowledged without being looked at: it came
\* between the sample and the write to HIRQ, or while a reset was awaited.
Overlooked == stale /\ "CONDET" \notin HIRQ /\ pc # "oscillator"
\* A bus that stays as it is is noticed by the task state, if its last change
\* was not overlooked (it can be: nothing then makes up for it until the next
\* change) and the oscillator starts: detached if and only if nothing is there.
ChangeNoticed ==
  []<>(pc # "oscillator")
    => /\ <>[](bus = "SE0" /\ ~Overlooked) => <>[]Detached(usb_task_state)
       /\ <>[](bus \in Devices /\ ~Overlooked) => <>[](~Detached(usb_task_state))
=============================================================================
