--------------------------- MODULE UsbHostProofs ---------------------------
(***************************************************************************)
(* Proofs about UsbHost: the type invariant, and the three safety          *)
(* invariants of the enumeration, for any devices, table size and clock.   *)
(***************************************************************************)
EXTENDS UsbHost, TLAPS

DetachedStates == {INITIALIZE, 2, WAIT_FOR_DEVICE, ILLEGAL, 5}
\* What a probe, and a bus event read with it, can leave behind.
ProbedStates == DetachedStates \union {ATTACHED, SETTLE}

(* Outside the handler no interrupt waits to be acknowledged.             *)
ServedInv == pc # "ack" => served = {}

(* What can be true of the task state while the chip resets the bus.       *)
ResetInv == BUSRST => "BUSEVENT" \notin HIRQ /\ usb_task_state \notin Transferring

(* Where the task state can be at each point of main's loop: once the      *)
(* device has been running, an enumeration cannot get further than the     *)
(* first reset before main notices and initialises the chip again.         *)
LoopInv ==
  /\ pc \in {"oscillator", "initAck"} =>
       ~runningdebugflag /\ usb_task_state \in ProbedStates \union {RESET_DEVICE}
  /\ runningdebugflag =>
       /\ pc = "task" => usb_task_state \in {RUNNING, ERROR}
       /\ pc \in {"ack", "usb"} => usb_task_state \in ProbedStates \union {RUNNING, ERROR}
       /\ pc = "main" => usb_task_state \in ProbedStates \union {RESET_DEVICE, RUNNING, ERROR}

(* Since the last probe nothing changed, and the chip was not reset: an    *)
(* attached task state means a device, spoken to at its speed.             *)
SpeedInv ==
  pc # "oscillator" /\ ~stale /\ usb_task_state \notin DetachedStates \union {ERROR}
    => bus \in Devices /\ lowspeed = (bus \in LowSpeed)

(* The table fills from the front, so the entry just taken is its last.    *)
TableInv ==
  /\ \A i, j \in Addresses : i < j /\ devtable[j] # NULL => devtable[i] # NULL
  /\ usb_task_state \in {CONFIGURING, RUNNING} => tmp_addr \in Addresses /\ Reported(tmp_addr)
  /\ usb_task_state = RUNNING /\ ~stale => devtable[tmp_addr] = Class[bus]

IInv == TypeOK /\ ServedInv /\ ResetInv /\ LoopInv /\ SpeedInv /\ TableInv /\ PollsWhatIsPlugged
-----------------------------------------------------------------------------
(* The kinds of task states that the invariants tell apart are disjoint.   *)
LEMMA TaskStateValues ==
  /\ \A s \in DetachedStates \union {ATTACHED, SETTLE, RESET_DEVICE, WAIT_RESET_COMPLETE, ERROR} :
        s \notin Transferring
  /\ WAIT_RESET_COMPLETE \notin ProbedStates \union {RESET_DEVICE, RUNNING, ERROR}
  /\ \A s \in {RESET_DEVICE, WAIT_SOF, GET_DEVICE_DESCRIPTOR_SIZE, ADDRESSING, CONFIGURING} :
        s \notin ProbedStates \union {RUNNING, ERROR}
  /\ \A s \in {ATTACHED, SETTLE, RESET_DEVICE, WAIT_RESET_COMPLETE} \union Transferring :
        s \notin DetachedStates \union {ERROR}
BY DEF Transferring, ProbedStates, DetachedStates, INITIALIZE, WAIT_FOR_DEVICE, ILLEGAL, ATTACHED,
       SETTLE, RESET_DEVICE, WAIT_RESET_COMPLETE, WAIT_SOF, GET_DEVICE_DESCRIPTOR_SIZE, ADDRESSING,
       CONFIGURING, RUNNING, ERROR

(* What a probe makes of a task state.                                     *)
LEMMA ProbeLeads ==
  ASSUME TypeOK
  PROVE  /\ Ignored(usb_task_state) => /\ Probed(usb_task_state) = WAIT_RESET_COMPLETE
                                       /\ usb_task_state = WAIT_RESET_COMPLETE
         /\ ~Ignored(usb_task_state) =>
              /\ bus \in Devices => Probed(usb_task_state) = ATTACHED
              /\ bus \notin Devices => Probed(usb_task_state) \in {INITIALIZE, WAIT_FOR_DEVICE, ILLEGAL}
BY DevicesAssumption DEF TypeOK, Sampled, Ignored, Probed

LEMMA ProbeSpeed ==
  ASSUME TypeOK, NEW low \in BOOLEAN
  PROVE  /\ ProbedSpeed(usb_task_state, low) \in BOOLEAN
         /\ Ignored(usb_task_state) => ProbedSpeed(usb_task_state, low) = low
         /\ bus \in Devices /\ ~Ignored(usb_task_state) =>
               ProbedSpeed(usb_task_state, low) = (bus \in LowSpeed)
<1>1. CASE bus \in Devices /\ ~Ignored(usb_task_state)
  <2>1. ProbedSpeed(usb_task_state, low) = (low # KStatus(low))
    BY <1>1 DEF ProbedSpeed
  <2> QED BY <1>1, <2>1 DEF KStatus
<1>2. CASE Ignored(usb_task_state)
  BY <1>2, DevicesAssumption DEF ProbedSpeed, Ignored
<1>3. CASE bus \notin Devices
  BY <1>3 DEF ProbedSpeed, Ignored
<1> QED BY <1>1, <1>2, <1>3

LEMMA ProbeSofs ==
  ASSUME TypeOK, NEW on \in BOOLEAN
  PROVE  ProbedSofs(usb_task_state, on) \in BOOLEAN
BY DEF ProbedSofs
-----------------------------------------------------------------------------
(* The task state stays in its table when the interrupt handler counts it  *)
(* on.                                                                     *)
LEMMA HandlerStates ==
  ASSUME TypeOK, MaxIntHandler
  PROVE  \/ usb_task_state = WAIT_RESET_COMPLETE /\ Ignored(usb_task_state)
            /\ usb_task_state' = IF "BUSEVENT" \in HIRQ THEN WAIT_SOF ELSE WAIT_RESET_COMPLETE
         \/ ~Ignored(usb_task_state) /\ bus \in Devices /\ usb_task_state' \in {ATTACHED, SETTLE}
         \/ ~Ignored(usb_task_state) /\ bus \notin Devices /\ usb_task_state' \in DetachedStates
<1>1. AfterProbe(usb_task_state) = Probed(usb_task_state)
  BY DEF MaxIntHandler, Interrupt, AfterProbe
<1>2. usb_task_state' = IF "BUSEVENT" \in HIRQ THEN (Probed(usb_task_state) + 1) % 256
                                              ELSE Probed(usb_task_state)
  BY <1>1 DEF MaxIntHandler
<1>3. /\ (WAIT_RESET_COMPLETE + 1) % 256 = WAIT_SOF /\ (ATTACHED + 1) % 256 = SETTLE
      /\ (INITIALIZE + 1) % 256 \in DetachedStates /\ (WAIT_FOR_DEVICE + 1) % 256 \in DetachedStates
      /\ (ILLEGAL + 1) % 256 \in DetachedStates
  BY DEF WAIT_RESET_COMPLETE, WAIT_SOF, ATTACHED, SETTLE, INITIALIZE, WAIT_FOR_DEVICE, ILLEGAL,
         DetachedStates
<1>4. CASE Ignored(usb_task_state)
  BY <1>2, <1>3, <1>4, ProbeLeads
<1>5. CASE ~Ignored(usb_task_state) /\ bus \in Devices
  BY <1>2, <1>3, <1>5, ProbeLeads
<1>6. CASE ~Ignored(usb_task_state) /\ bus \notin Devices
  <2>1. Probed(usb_task_state) \in {INITIALIZE, WAIT_FOR_DEVICE, ILLEGAL}
    BY <1>6, ProbeLeads
  <2> QED BY <1>2, <1>3, <1>6, <2>1 DEF DetachedStates
<1> QED BY <1>4, <1>5, <1>6

LEMMA InitialTypes == Init => TypeOK /\ ServedInv
<1>1. 0 \in 0 .. Wrap - 1 /\ 0 \in 0 .. Wrap - 1 + Settle
  BY ClockAssumption
<1>2. NoDevices \in [Addresses -> {NULL} \union Classes]
  BY DEF NoDevices
<1> QED BY <1>1, <1>2 DEF Init, TypeOK, ServedInv, TaskStates

LEMMA TypeStep ==
  ASSUME TypeOK, ServedInv, [Next]_vars
  PROVE  TypeOK' /\ ServedInv'
<1> USE DEF TypeOK, ServedInv
<1>0. ProbedStates \union {WAIT_RESET_COMPLETE} \subseteq TaskStates
  BY DEF TaskStates, ProbedStates, DetachedStates
<1>1. CASE InitProbe
  <2>1. usb_task_state' \in TaskStates
    BY <1>1, <1>0, ProbeLeads DEF InitProbe, ProbedStates, DetachedStates
  <2>2. lowspeed' \in BOOLEAN /\ sofs' \in BOOLEAN
    BY <1>1, ProbeSpeed, ProbeSofs DEF InitProbe
  <2>3. stale' \in BOOLEAN
    BY <1>1 DEF InitProbe
  <2> QED BY <1>1, <2>1, <2>2, <2>3 DEF InitProbe, mainVars
<1>2. CASE InitAck
  BY <1>2 DEF InitAck, mode, mainVars, NoDevices
<1>3. CASE MaxIntHandler
  <2>1. usb_task_state' \in TaskStates
    BY <1>3, <1>0, HandlerStates DEF ProbedStates, TaskStates, Transferring
  <2>2. lowspeed' \in BOOLEAN /\ sofs' \in BOOLEAN
    BY <1>3, ProbeSpeed, ProbeSofs DEF MaxIntHandler
  <2>3. stale' \in BOOLEAN
    BY <1>3 DEF MaxIntHandler
  <2> QED BY <1>3, <2>1, <2>2, <2>3 DEF MaxIntHandler, mainVars
<1>4. CASE NoInterrupt \/ Ack
  BY <1>4 DEF NoInterrupt, Ack, mode, taskVars, mainVars
<1>5. CASE Attach
  <2>1. usb_delay' \in 0 .. Wrap - 1 + Settle
    BY <1>5, ClockAssumption DEF Attach
  <2> QED BY <1>5, <2>1 DEF Attach, At, Chip, Rest, mode, mainVars, TaskStates
<1>15. CASE Initialize \/ Settling \/ Nothing
  BY <1>15 DEF Initialize, Settling, Nothing, At, Chip, Rest, mode, mainVars, taskVars, NoDevices,
    TaskStates
<1>6. CASE ResetDevice \/ WaitReset \/ WaitSof \/ GetDescriptor
  BY <1>6 DEF ResetDevice, WaitReset, WaitSof, GetDescriptor, Cleared, At, Chip, Rest, mode, mainVars,
    TaskStates, Transferring
<1>7. CASE Address
  <2>1. usb_task_state' \in {CONFIGURING, ERROR} /\ tmp_addr' \in {0} \union Addresses
    BY <1>7 DEF Address
  <2>2. devtable' \in [Addresses -> {NULL} \union Classes]
    BY <1>7 DEF Address, Classes
  <2> QED BY <1>7, <2>1, <2>2 DEF Address, At, Chip, Rest, mode, mainVars, TaskStates, Transferring
<1>8. CASE Configure
  <2>1. devtable' \in [Addresses -> {NULL} \union Classes]
    BY <1>8 DEF Configure, Classes
  <2>2. usb_task_state' \in {RUNNING, ERROR}
    BY <1>8 DEF Configure
  <2> QED BY <1>8, <2>1, <2>2 DEF Configure, At, Chip, Rest, mode, mainVars, TaskStates, Transferring
<1>9. CASE Found
  <2>1. device' \in {NULL} \union Classes
    BY <1>9 DEF Found
  <2> QED BY <1>9, <2>1 DEF Found, Chip, mode, taskVars
<1>10. CASE Poll \/ Reinit
  BY <1>10 DEF Poll, Reinit, ChipReset, Chip, Rest, mode, taskVars, mainVars
<1>11. CASE BusChange
  BY <1>11 DEF BusChange, mode, Machine, taskVars, mainVars
<1>12. CASE ResetEnds \/ FrameStarts \/ OscillatorStable
  BY <1>12 DEF ResetEnds, FrameStarts, OscillatorStable, mode, Machine, taskVars, mainVars
<1>13. CASE Tick
  <2>1. ms' \in 0 .. Wrap - 1
    BY <1>13, ClockAssumption DEF Tick
  <2> QED BY <1>13, <2>1 DEF Tick, mode, Machine, taskVars, mainVars
<1>14. CASE UNCHANGED vars
  BY <1>14 DEF vars, mode, taskVars, mainVars
<1> QED BY <1>1, <1>2, <1>3, <1>4, <1>5, <1>6, <1>7, <1>8, <1>9, <1>10, <1>11, <1>12, <1>13, <1>14, <1>15
  DEF Next, Software, World, USB_Task

(* The registers and variables keep their types; the task state, a byte    *)
(* that the handler increments, stays one of the states of USB.h (or one   *)
(* past a detached one).                                                   *)
THEOREM UsbHostTypeCorrect == Spec => [](TypeOK /\ ServedInv)
BY InitialTypes, TypeStep, PTL DEF Spec
-----------------------------------------------------------------------------
(* While the bus is being reset no bus event is pending, so nothing moves  *)
(* the task state past the wait: RESET_DEVICE clears the old event first.  *)
LEMMA ResetStep ==
  ASSUME TypeOK, ResetInv, [Next]_vars
  PROVE  ResetInv'
<1> USE DEF ResetInv
<1>1. CASE InitProbe
  <2>1. usb_task_state' \in {WAIT_RESET_COMPLETE, ATTACHED, INITIALIZE, WAIT_FOR_DEVICE, ILLEGAL}
    BY <1>1, ProbeLeads DEF InitProbe
  <2>2. usb_task_state' \notin Transferring
    BY <2>1, TaskStateValues DEF DetachedStates
  <2> QED BY <1>1, <2>2 DEF InitProbe
<1>2. CASE MaxIntHandler
  <2>1. BUSRST => usb_task_state' \in {WAIT_RESET_COMPLETE, ATTACHED, SETTLE} \union DetachedStates
    BY <1>2, HandlerStates
  <2>2. BUSRST => usb_task_state' \notin Transferring
    BY <2>1, TaskStateValues
  <2> QED BY <1>2, <2>2 DEF MaxIntHandler
<1>3. CASE InitAck \/ NoInterrupt \/ Ack \/ Found \/ Poll \/ Reinit
  BY <1>3 DEF InitAck, NoInterrupt, Ack, Found, Poll, Reinit, ChipReset, Chip, taskVars
<1>4. CASE ResetDevice
  <2>1. "BUSEVENT" \notin HIRQ'
    BY <1>4 DEF ResetDevice, Cleared
  <2>2. usb_task_state' = WAIT_RESET_COMPLETE
    BY <1>4 DEF ResetDevice
  <2> QED BY <2>1, <2>2, TaskStateValues
<1>5. CASE Initialize \/ Attach \/ Settling
  <2>1. usb_task_state' \in {WAIT_FOR_DEVICE, SETTLE, RESET_DEVICE} /\ UNCHANGED <<HIRQ, BUSRST>>
    BY <1>5 DEF Initialize, Attach, Settling, Chip
  <2> QED BY <2>1, TaskStateValues DEF DetachedStates
<1>6. CASE WaitReset
  <2>1. BUSRST => usb_task_state' = WAIT_RESET_COMPLETE
    BY <1>6 DEF WaitReset
  <2> QED BY <1>6, <2>1, TaskStateValues DEF WaitReset
<1>7. CASE WaitSof \/ GetDescriptor \/ Address \/ Configure
  <2>1. usb_task_state \in Transferring /\ UNCHANGED BUSRST
    BY <1>7 DEF WaitSof, GetDescriptor, Address, Configure, At, Chip, Transferring
  <2> QED BY <2>1
<1>8. CASE Nothing
  BY <1>8 DEF Nothing, Chip, taskVars
<1>9. CASE ResetEnds
  BY <1>9 DEF ResetEnds
<1>10. CASE BusChange \/ FrameStarts \/ OscillatorStable \/ Tick
  <2>1. "BUSEVENT" \in HIRQ' => "BUSEVENT" \in HIRQ
    BY <1>10 DEF BusChange, FrameStarts, OscillatorStable, Tick
  <2> QED BY <1>10, <2>1 DEF BusChange, FrameStarts, OscillatorStable, Tick, Machine, taskVars
<1>11. CASE UNCHANGED vars
  BY <1>11 DEF vars, taskVars
<1> QED BY <1>1, <1>2, <1>3, <1>4, <1>5, <1>6, <1>7, <1>8, <1>9, <1>10, <1>11
  DEF Next, Software, World, USB_Task

(* Once running, the loop notices any other task state, except ERROR, in   *)
(* the turn that brings it: no second enumeration starts behind its back.  *)
LEMMA LoopStep ==
  ASSUME TypeOK, LoopInv, [Next]_vars
  PROVE  LoopInv'
<1> USE DEF LoopInv
<1>1. CASE InitProbe
  <2>1. usb_task_state # WAIT_RESET_COMPLETE
    BY <1>1, TaskStateValues DEF InitProbe
  <2>2. usb_task_state' \in {ATTACHED, INITIALIZE, WAIT_FOR_DEVICE, ILLEGAL}
    BY <1>1, <2>1, ProbeLeads DEF InitProbe
  <2> QED BY <1>1, <2>2 DEF InitProbe, ProbedStates, DetachedStates, mainVars
<1>2. CASE MaxIntHandler
  <2>1. CASE runningdebugflag
    <3>1. usb_task_state \in {RUNNING, ERROR}
      BY <1>2, <2>1 DEF MaxIntHandler
    <3>2. usb_task_state' \in ProbedStates
      BY <1>2, <3>1, HandlerStates, TaskStateValues DEF ProbedStates, Transferring
    <3> QED BY <1>2, <3>2 DEF MaxIntHandler, mainVars
  <2>2. CASE ~runningdebugflag
    BY <1>2, <2>2 DEF MaxIntHandler, mainVars
  <2> QED BY <2>1, <2>2
<1>3. CASE InitAck \/ NoInterrupt \/ Ack
  BY <1>3 DEF InitAck, NoInterrupt, Ack, taskVars, mainVars
<1>4. CASE Initialize \/ Attach \/ Settling
  <2>1. usb_task_state' \in ProbedStates \union {RESET_DEVICE} /\ pc' = "main" /\ UNCHANGED runningdebugflag
    BY <1>4 DEF Initialize, Attach, Settling, At, Rest, mainVars, ProbedStates, DetachedStates
  <2> QED BY <2>1
<1>5. CASE ResetDevice \/ WaitReset \/ WaitSof \/ GetDescriptor \/ Address \/ Configure
  <2>1. /\ pc = "usb" /\ pc' = "main" /\ UNCHANGED runningdebugflag
        /\ usb_task_state \in {RESET_DEVICE, WAIT_RESET_COMPLETE, WAIT_SOF,
                             GET_DEVICE_DESCRIPTOR_SIZE, ADDRESSING, CONFIGURING}
    BY <1>5 DEF ResetDevice, WaitReset, WaitSof, GetDescriptor, Address, Configure, At, Rest, mainVars
  <2>2. ~runningdebugflag
    BY <2>1, TaskStateValues
  <2> QED BY <2>1, <2>2
<1>6. CASE Nothing
  BY <1>6 DEF Nothing, taskVars, Rest, mainVars
<1>7. CASE Found \/ Poll
  BY <1>7 DEF Found, Poll, taskVars, Rest, mainVars
<1>8. CASE Reinit
  BY <1>8 DEF Reinit, ChipReset, taskVars
<1>9. CASE World
  BY <1>9 DEF World, BusChange, ResetEnds, FrameStarts, OscillatorStable, Tick, Machine, taskVars, mainVars
<1>10. CASE UNCHANGED vars
  BY <1>10 DEF vars, taskVars, mainVars
<1> QED BY <1>1, <1>2, <1>3, <1>4, <1>5, <1>6, <1>7, <1>8, <1>9, <1>10
  DEF Next, Software, USB_Task
-----------------------------------------------------------------------------
(* Only a probe ends staleness, and it leaves the chip at the speed of the *)
(* device it saw; the speed register is not written again but by a probe   *)
(* or when the chip is reset.                                              *)
LEMMA SpeedStep ==
  ASSUME TypeOK, LoopInv, SpeedInv, [Next]_vars
  PROVE  SpeedInv'
<1> USE DEF SpeedInv
<1>1. CASE InitProbe
  <2>1. ~Ignored(usb_task_state)
    BY <1>1, TaskStateValues, ProbeLeads DEF InitProbe, LoopInv
  <2>2. CASE bus \in Devices
    BY <1>1, <2>1, <2>2, ProbeSpeed DEF InitProbe
  <2>3. CASE bus \notin Devices
    BY <1>1, <2>1, <2>3, ProbeLeads DEF InitProbe, DetachedStates
  <2> QED BY <2>2, <2>3
<1>2. CASE MaxIntHandler
  <2>1. CASE Ignored(usb_task_state)
    <3>1. lowspeed' = lowspeed /\ stale' = stale /\ bus' = bus /\ bus \in Devices
      BY <1>2, <2>1, ProbeSpeed DEF MaxIntHandler, TypeOK, Ignored
    <3>2. pc # "oscillator" /\ usb_task_state \notin DetachedStates \union {ERROR}
      BY <1>2, <2>1, TaskStateValues DEF MaxIntHandler, Ignored, ProbedStates
    <3> QED BY <3>1, <3>2
  <2>2. CASE ~Ignored(usb_task_state) /\ bus \in Devices
    BY <1>2, <2>2, ProbeSpeed DEF MaxIntHandler, TypeOK
  <2>3. CASE ~Ignored(usb_task_state) /\ bus \notin Devices
    BY <1>2, <2>3, HandlerStates, TaskStateValues DEF MaxIntHandler, ProbedStates
  <2> QED BY <2>1, <2>2, <2>3
<1>3. CASE InitAck \/ NoInterrupt \/ Ack
  BY <1>3 DEF InitAck, NoInterrupt, Ack, taskVars, mode
<1>4. CASE Initialize
  BY <1>4 DEF Initialize, DetachedStates
<1>5. CASE \/ Attach \/ Settling \/ ResetDevice \/ WaitReset \/ WaitSof \/ GetDescriptor
           \/ Address \/ Configure
  <2>1. /\ pc # "oscillator" /\ UNCHANGED <<bus, lowspeed, stale>>
        /\ usb_task_state \in {ATTACHED, SETTLE, RESET_DEVICE, WAIT_RESET_COMPLETE, WAIT_SOF,
                             GET_DEVICE_DESCRIPTOR_SIZE, ADDRESSING, CONFIGURING}
    BY <1>5 DEF Attach, Settling, ResetDevice, WaitReset, WaitSof, GetDescriptor, Address, Configure,
      At, Chip, mode, Rest
  <2>2. usb_task_state \notin DetachedStates \union {ERROR}
    BY <2>1, TaskStateValues DEF Transferring
  <2> QED BY <2>1, <2>2
<1>6. CASE Nothing \/ Found \/ Poll
  BY <1>6 DEF Nothing, Found, Poll, Chip, mode, Rest, taskVars
<1>7. CASE Reinit
  BY <1>7 DEF Reinit, ChipReset
<1>8. CASE BusChange
  BY <1>8 DEF BusChange
<1>9. CASE ResetEnds \/ FrameStarts \/ OscillatorStable \/ Tick
  BY <1>9 DEF ResetEnds, FrameStarts, OscillatorStable, Tick, Machine, taskVars, mode
<1>10. CASE UNCHANGED vars
  BY <1>10 DEF vars, taskVars, mode
<1> QED BY <1>1, <1>2, <1>3, <1>4, <1>5, <1>6, <1>7, <1>8, <1>9, <1>10
  DEF Next, Software, World, USB_Task

(* The first free entry comes after all the others.                        *)
LEMMA FreeIsLast ==
  ASSUME TypeOK, TableInv, NEW i \in Addresses, Free(i), NEW c \in Classes
  PROVE  LET table == [devtable EXCEPT ![i] = c]
         IN  /\ \A j \in Addresses : j > i => table[j] = NULL
             /\ \A j, k \in Addresses : j < k /\ table[k] # NULL => table[j] # NULL
             /\ table[i] # NULL
<1> DEFINE table == [devtable EXCEPT ![i] = c]
<1>1. c # NULL
  BY DEF Classes, NULL
<1>2. table[i] = c /\ \A j \in Addresses \ {i} : table[j] = devtable[j]
  BY DEF TypeOK
<1>3. \A j \in Addresses : j < i => devtable[j] # NULL
  BY DEF Free, Addresses
<1>4. \A j \in Addresses : j > i => devtable[j] = NULL
  BY DEF Free, TableInv
<1>5. Addresses \subseteq Nat
  BY NumDevicesAssumption DEF Addresses
<1> QED
  <2>1. \A j \in Addresses : j > i => table[j] = NULL
    BY <1>2, <1>4, <1>5
  <2>2. ASSUME NEW j \in Addresses, NEW k \in Addresses, j < k, table[k] # NULL
        PROVE  table[j] # NULL
    <3>1. k <= i
      BY <1>5, <2>1, <2>2
    <3>2. j < i
      BY <1>5, <2>2, <3>1
    <3> QED BY <1>2, <1>3, <1>5, <3>2
  <2>3. table[i] # NULL
    BY <1>1, <1>2
  <2> HIDE DEF table
  <2>4. /\ \A j \in Addresses : j > i => table[j] = NULL
        /\ \A j, k \in Addresses : j < k /\ table[k] # NULL => table[j] # NULL
        /\ table[i] # NULL
    BY <2>1, <2>2, <2>3
  <2> QED BY <2>4 DEF table

(* The entry that ADDRESSING takes is the table's last until everything is *)
(* initialised again, and CONFIGURING fills in the class of the device.    *)
LEMMA TableStep ==
  ASSUME TypeOK, LoopInv, TableInv, [Next]_vars
  PROVE  TableInv'
<1> DEFINE Prefix == \A i, j \in Addresses : i < j /\ devtable[j] # NULL => devtable[i] # NULL
<1>0. CASE /\ UNCHANGED <<devtable, tmp_addr>>
           /\ \/ usb_task_state' = usb_task_state /\ (stale' \/ (bus' = bus /\ stale' = stale))
              \/ usb_task_state' \notin {CONFIGURING, RUNNING}
  BY <1>0 DEF TableInv, Reported
<1>1. CASE InitProbe
  <2>1. usb_task_state' \in {WAIT_RESET_COMPLETE, ATTACHED, INITIALIZE, WAIT_FOR_DEVICE, ILLEGAL}
    BY <1>1, ProbeLeads DEF InitProbe
  <2>2. usb_task_state' \notin {CONFIGURING, RUNNING}
    BY <2>1, TaskStateValues DEF DetachedStates, Transferring
  <2> QED BY <1>0, <1>1, <2>2 DEF InitProbe
<1>2. CASE MaxIntHandler
  <2>1. usb_task_state' \in {WAIT_RESET_COMPLETE, WAIT_SOF, ATTACHED, SETTLE} \union DetachedStates
    BY <1>2, HandlerStates
  <2>2. WAIT_SOF \notin {CONFIGURING, RUNNING}
    BY DEF WAIT_SOF, CONFIGURING, RUNNING
  <2>3. usb_task_state' \notin {CONFIGURING, RUNNING}
    BY <2>1, <2>2, TaskStateValues DEF Transferring
  <2> QED BY <1>0, <1>2, <2>3 DEF MaxIntHandler
<1>3. CASE InitAck \/ Initialize
  <2>1. devtable' = NoDevices
    BY <1>3 DEF InitAck, Initialize
  <2>2. usb_task_state' \in ProbedStates \union {RESET_DEVICE}
    BY <1>3 DEF InitAck, Initialize, LoopInv, ProbedStates, DetachedStates
  <2>3. usb_task_state' \notin {CONFIGURING, RUNNING}
    BY <2>2, TaskStateValues DEF ProbedStates, Transferring
  <2> QED BY <2>1, <2>3 DEF TableInv, NoDevices
<1>4. CASE \/ Attach \/ Settling \/ ResetDevice \/ WaitReset \/ WaitSof \/ GetDescriptor
  <2>1. usb_task_state' \in {SETTLE, RESET_DEVICE, WAIT_RESET_COMPLETE, WAIT_SOF,
                           GET_DEVICE_DESCRIPTOR_SIZE, ADDRESSING, ERROR}
    BY <1>4 DEF Attach, Settling, ResetDevice, WaitReset, WaitSof, GetDescriptor
  <2>2. usb_task_state' \notin {CONFIGURING, RUNNING}
    BY <2>1 DEF SETTLE, RESET_DEVICE, WAIT_RESET_COMPLETE, WAIT_SOF, GET_DEVICE_DESCRIPTOR_SIZE,
      ADDRESSING, ERROR, CONFIGURING, RUNNING
  <2> QED BY <1>0, <1>4, <2>2
      DEF Attach, Settling, ResetDevice, WaitReset, WaitSof, GetDescriptor
<1>5. CASE Address
  <2>0. ERROR \notin {CONFIGURING, RUNNING} /\ CONFIGURING # RUNNING
    BY DEF ERROR, CONFIGURING, RUNNING
  <2>1. CASE \A i \in Addresses : ~Free(i)
    BY <1>0, <1>5, <2>0, <2>1 DEF Address
  <2>2. ASSUME NEW i \in Addresses, Free(i),
               devtable' = [devtable EXCEPT ![i] = "uninitialized"],
               \/ tmp_addr' = i /\ usb_task_state' = CONFIGURING
               \/ usb_task_state' = ERROR
        PROVE  TableInv'
    <3>1. /\ \A j \in Addresses : j > i => devtable'[j] = NULL
          /\ \A j, k \in Addresses : j < k /\ devtable'[k] # NULL => devtable'[j] # NULL
          /\ devtable'[i] # NULL
      BY <2>2, FreeIsLast DEF Classes
    <3>2. \A j \in i + 1 .. USB_NUMDEVICES - 1 : j \in Addresses /\ j > i
      BY NumDevicesAssumption DEF Addresses
    <3>3. CASE tmp_addr' = i /\ usb_task_state' = CONFIGURING
      BY <2>0, <3>1, <3>2, <3>3 DEF TableInv, Reported
    <3>4. CASE usb_task_state' = ERROR
      BY <2>0, <3>1, <3>4 DEF TableInv
    <3> QED BY <2>2, <3>3, <3>4
  <2> QED BY <1>5, <2>1, <2>2 DEF Address
<1>6. CASE Configure
  <2>0. ERROR \notin {CONFIGURING, RUNNING}
    BY DEF ERROR, CONFIGURING, RUNNING
  <2>1. CASE usb_task_state' = ERROR /\ UNCHANGED devtable
    BY <1>0, <1>6, <2>0, <2>1 DEF Configure
  <2>2. CASE /\ TRUE \in Answers /\ Class[bus] \in {"keyboard", "mouse"}
             /\ devtable' = [devtable EXCEPT ![tmp_addr] = Class[bus]]
    <3>1. tmp_addr \in Addresses /\ Reported(tmp_addr) /\ tmp_addr' = tmp_addr /\ bus' = bus
      BY <1>6 DEF Configure, At, Chip, TableInv
    <3>2. devtable'[tmp_addr] = Class[bus] /\ \A j \in Addresses \ {tmp_addr} : devtable'[j] = devtable[j]
      BY <2>2, <3>1 DEF TypeOK
    <3>3. Class[bus] # NULL /\ devtable[tmp_addr] # NULL
      BY <2>2, <3>1 DEF NULL, Reported
    <3>4. \A j \in Addresses : devtable'[j] # NULL <=> devtable[j] # NULL
      BY <3>2, <3>3
    <3>5. \A j \in tmp_addr + 1 .. USB_NUMDEVICES - 1 : j \in Addresses
      BY <3>1, NumDevicesAssumption DEF Addresses
    <3>6. Prefix'
      BY <3>4 DEF TableInv
    <3>7. Reported(tmp_addr)'
      BY <3>1, <3>4, <3>5 DEF Reported
    <3> QED BY <3>1, <3>2, <3>6, <3>7 DEF TableInv
  <2> QED BY <1>6, <2>1, <2>2 DEF Configure
<1>7. CASE NoInterrupt \/ Ack \/ Nothing \/ Found \/ Poll \/ Reinit
  BY <1>0, <1>7 DEF NoInterrupt, Ack, Nothing, Found, Poll, Reinit, Chip, Rest, taskVars
<1>8. CASE World
  BY <1>0, <1>8 DEF World, BusChange, ResetEnds, FrameStarts, OscillatorStable, Tick, Machine, taskVars
<1>9. CASE UNCHANGED vars
  BY <1>0, <1>9 DEF vars, taskVars
<1> QED BY <1>1, <1>2, <1>3, <1>4, <1>5, <1>6, <1>7, <1>8, <1>9 DEF Next, Software, USB_Task

(* main looks for the driver only when the device has come to run, and     *)
(* finds it in the last entry of the table; a device cannot come to run    *)
(* again while main polls.                                                 *)
LEMMA PollStep ==
  ASSUME IInv, [Next]_vars
  PROVE  PollsWhatIsPlugged'
<1> USE DEF PollsWhatIsPlugged, IInv
<1>1. CASE Found
  <2>1. tmp_addr \in Addresses /\ Reported(tmp_addr) /\ (~stale => devtable[tmp_addr] = Class[bus])
    BY <1>1 DEF Found, TableInv
  <2>2. PICK i \in Addresses : Reported(i) /\ device' = devtable[i]
    BY <1>1 DEF Found
  <2>3. i = tmp_addr
    BY <2>1, <2>2, NumDevicesAssumption DEF Reported, Addresses
  <2> QED BY <1>1, <2>1, <2>2, <2>3 DEF Found, Chip
<1>2. CASE Configure
  <2>1. pc = "usb" /\ usb_task_state = CONFIGURING /\ UNCHANGED runningdebugflag
    BY <1>2 DEF Configure, At, Rest, mainVars
  <2>2. ~runningdebugflag
    BY <2>1, TaskStateValues DEF LoopInv
  <2> QED BY <2>1, <2>2
<1>3. CASE InitProbe \/ MaxIntHandler
  <2>1. CASE Ignored(usb_task_state)
    <3>1. usb_task_state = WAIT_RESET_COMPLETE
      BY <2>1 DEF Ignored
    <3>2. ~runningdebugflag /\ UNCHANGED runningdebugflag
      BY <1>3, <3>1, TaskStateValues DEF InitProbe, MaxIntHandler, LoopInv, mainVars
    <3> QED BY <3>2
  <2>2. CASE ~Ignored(usb_task_state)
    <3>1. usb_task_state' \in {ATTACHED, INITIALIZE, WAIT_FOR_DEVICE, ILLEGAL, SETTLE}
                              \union DetachedStates
      BY <1>3, <2>2, ProbeLeads, HandlerStates DEF InitProbe
    <3>2. usb_task_state' # RUNNING
      BY <3>1, TaskStateValues DEF DetachedStates, Transferring
    <3> QED BY <3>2
  <2> QED BY <2>1, <2>2
<1>4. CASE Reinit
  BY <1>4 DEF Reinit
<1>5. CASE Initialize \/ Attach \/ Settling \/ ResetDevice \/ WaitReset \/ WaitSof \/ GetDescriptor
           \/ Address
  <2>1. usb_task_state' \in {WAIT_FOR_DEVICE, SETTLE, RESET_DEVICE, WAIT_RESET_COMPLETE, WAIT_SOF,
                           GET_DEVICE_DESCRIPTOR_SIZE, ADDRESSING, CONFIGURING, ERROR}
    BY <1>5 DEF Initialize, Attach, Settling, ResetDevice, WaitReset, WaitSof, GetDescriptor, Address
  <2>2. usb_task_state' # RUNNING
    BY <2>1 DEF WAIT_FOR_DEVICE, SETTLE, RESET_DEVICE, WAIT_RESET_COMPLETE, WAIT_SOF,
      GET_DEVICE_DESCRIPTOR_SIZE, ADDRESSING, CONFIGURING, ERROR, RUNNING
  <2> QED BY <2>2
<1>6. CASE InitAck \/ NoInterrupt \/ Ack \/ Nothing \/ Poll
  BY <1>6 DEF InitAck, NoInterrupt, Ack, Nothing, Poll, Chip, Rest, taskVars, mainVars
<1>7. CASE World
  BY <1>7 DEF World, BusChange, ResetEnds, FrameStarts, OscillatorStable, Tick, Machine, taskVars, mainVars
<1>8. CASE UNCHANGED vars
  BY <1>8 DEF vars, taskVars, mainVars
<1> QED BY <1>1, <1>2, <1>3, <1>4, <1>5, <1>6, <1>7, <1>8 DEF Next, Software, USB_Task

LEMMA UsbHostInvariant == Spec => []IInv
<1>1. Init => IInv
  <2> SUFFICES ASSUME Init PROVE ResetInv /\ LoopInv /\ SpeedInv /\ TableInv /\ PollsWhatIsPlugged
                                 /\ TypeOK /\ ServedInv
    BY DEF IInv
  <2>1. TypeOK /\ ServedInv
    BY InitialTypes
  <2>2. usb_task_state \in DetachedStates
    BY DEF Init, DetachedStates
  <2>3. usb_task_state \notin {CONFIGURING, RUNNING}
    BY <2>2, TaskStateValues DEF Transferring
  <2> QED BY <2>1, <2>2, <2>3
      DEF Init, ResetInv, LoopInv, SpeedInv, TableInv, PollsWhatIsPlugged, NoDevices, ProbedStates
<1>2. ASSUME IInv, [Next]_vars PROVE IInv'
  <2>1. TypeOK' /\ ServedInv'
    BY <1>2, TypeStep DEF IInv
  <2>2. ResetInv' /\ LoopInv' /\ SpeedInv' /\ TableInv'
    BY <1>2, ResetStep, LoopStep, SpeedStep, TableStep DEF IInv
  <2>3. PollsWhatIsPlugged'
    BY <1>2, PollStep
  <2> QED BY <2>1, <2>2, <2>3 DEF IInv
<1> QED BY <1>1, <1>2, PTL DEF Spec

(* The device is spoken to only when its reset is over, also when the      *)
(* interrupt handler moves the task state on.                              *)
THEOREM NoTransferInResetHolds == Spec => []NoTransferInReset
<1>1. IInv => NoTransferInReset
  BY DEF IInv, ResetInv, NoTransferInReset
<1> QED BY <1>1, UsbHostInvariant, PTL

(* While the bus is what the last probe saw, transfers go out at the speed *)
(* of the device, whatever was plugged in and out before.                  *)
THEOREM SpeedMatchesHolds == Spec => []SpeedMatches
<1>1. IInv => SpeedMatches
  <2> SUFFICES ASSUME IInv, usb_task_state \in Transferring, ~stale
               PROVE  bus \in Devices /\ lowspeed = (bus \in LowSpeed)
    BY DEF SpeedMatches
  <2>1. usb_task_state \notin DetachedStates \union {ATTACHED, SETTLE, RESET_DEVICE, ERROR}
    BY TaskStateValues
  <2>2. pc # "oscillator"
    BY <2>1 DEF IInv, LoopInv, ProbedStates
  <2> QED BY <2>1, <2>2 DEF IInv, SpeedInv
<1> QED BY <1>1, UsbHostInvariant, PTL

(* main polls the driver of the device that is plugged in.                 *)
THEOREM PollsWhatIsPluggedHolds == Spec => []PollsWhatIsPlugged
<1>1. IInv => PollsWhatIsPlugged
  BY DEF IInv
<1> QED BY <1>1, UsbHostInvariant, PTL
=============================================================================
