# Tank Trouble on an FPGA: a TLA+ model

The repository is a two-player Tank Trouble for a MAX10 board. The game itself is hardware
(`src/files/*.sv`), clocked by the vertical sync of its own picture; a Nios II processor runs
`src/files/software/Tank_Trouble_app/main.c`, which polls a USB keyboard through a MAX3421E chip and
draws the mazes, on top of the small runtime in `Tank_Trouble_app_bsp` (system clock, file descriptors, the
JTAG UART console that `printf` writes to). These modules model the control of all three and the places where they
meet. They are checked by TLC on small instances and, where the prover reaches, proved with TLAPS for every value of
the constants.

## 1. Inventory

| Part | State it keeps | Operations | What makes it correct |
|---|---|---|---|
| Screen state machine (`screen_control.sv`) | `State`, the space-bar edge flip-flop | one step per frame edge, reset by KEY0 | every path through the tables is a match to three points |
| Bullets (`bullet.sv`, six instances) | in flight or parked, reflection flags, lifetime timer in a second clock domain | frame edge, timer edge, asynchronous reset | exact lifetime, no half-reset bullet, no bullet stuck in a wall or through it |
| Fire control (`Tank_Trouble_TL.sv` 232-365) | fire-key flip-flops per slot, edge detectors, triggers | frame edge; no reset at all | one launch per key press, of the right tank, of a free bullet |
| Hit detection (`death.sv`) | none | bullet within nine pixels of a tank | only bullets in flight hit |
| Tanks (`tank_one.sv`, `tank_two.sv`) | position, angle | frame edge, reset | angle in range, no way through walls |
| Geometry (`tank_col`, `bullet_col`, `check_for_col`, `transform_matrix`, `trig`) | none | fixed-point functions | agree with the real geometry |
| Maze (`main.c` generateMaze/setWall, `maze.sv` latches) | wall memory, three port registers, loop state | byte-by-byte writes; the arena reads at any time | closed border, both copies of a wall agree |
| Frame clock (`VGA_controller.sv`) | pixel and line counters, registered syncs | pixel clock, reset | one edge a frame, outside the picture, and one more after a reset |
| USB host (`main.c` loop, `MAX3421E.c`, `transfer.c` USB_Task, `HID.c` probes) | task state, settle deadline, device table, pending interrupts | one look and one step per turn of the loop | never speaks to a device in reset or at the wrong speed, polls the right driver |
| USB transfers (`HID.c` kbdPoll, `transfer.c` XferInTransfer, XferDispatchPkt) | retry and NAK counts, deadline, toggles at both ends, the report buffer | launch, wait, look at the result, retry | every report arrives once and in order, a working chip is not given up, a dispatch ends |
| Keyboard ports (`main.c` 271-276, six registers) | last report | six separate writes | no held key disappears, the ports follow the keyboard |
| Console (`altera_avalon_jtag_uart_*.c`) | two rings, interrupt masks, time-out; FIFOs in the chip | write, read, close, ioctl, the interrupt routine, the one-second alarm | both directions are pipes, nothing waits behind a mask, every call and the routine come to an end |
| System clock (`alt_tick.c`, `alt_alarm_start.c`, `alt_alarm.h`, `alt_llist.h`) | tick counter, linked list of alarms | start, stop, tick with a walk and callbacks | each alarm is called at its tick, across overflow |
| File descriptors (`HAL/src/alt_open.c`, `_close`, `_read`, `_write`, `_ioctl`, `_fcntl`, `_fd_lock`...) | descriptor table, highest descriptor, two devices | each call; the redirection of the three streams at boot | exclusive locks, the console is never lost, errors change nothing |
| Picture (`Color_Mapper`, `priority_encoder`, `HexDriver`, ROM wrappers), number display | none | drawing | not modelled |
| Rest of the board support package, Quartus databases | - | generated or vendored | not modelled |

**How the parts meet.** Everything in the game samples everything else at the rising edge of `VGA_VS`. The state
machine's `screenreset`, or KEY0, parks the bullets asynchronously and in both of their clock domains. The fire
control watches which bullets fly and raises triggers; the bullets' positions feed `death.sv`, whose `redwin` and
`greenwin` move the state machine. The processor meets the game only in registers: six key codes and three
maze registers towards the game, `SCREEN_RESET` back. Nothing is handshaken. Inside the processor, `main`'s loop calls the
USB driver, which reads the tick counter for its deadlines, and `printf`, which goes through descriptor 1 to the console; the
console's driver keeps one alarm of the system clock to notice that nobody is listening.

**What is hard here.** Two unrelated clocks in one bullet; asynchronous resets that must reach every register
they should; registers that no reset reaches; multi-byte data written one byte at a time under a reader; pulses of
one frame that are polled; a USB chip whose state changes between any two instructions; lost and repeated packets; an interrupt
routine that shares a ring and two masks with the code it interrupts; callbacks that change the list that is being walked; clock
arithmetic that overflows. `PROJECT.json` lists these as hazards, each at its line with the property that watches it.

## 2. Modules

| Module | Models | Role |
|---|---|---|
| `Match` | - | what a match promises: first to `Goal` points, one point per decided round |
| `ScreenControl` | `screen_control.sv`, `pos_edge_det.v` | state machine; implements `Match` by a refinement mapping |
| `Bullet` | life of the bullets in `bullet.sv` | shared by the next two; no specification of its own |
| `BulletFlight` | the reflection registers of `bullet.sv` | extends `Bullet` |
| `BulletLife` | bullets closed by an arbitrary environment | the two-clock interleavings in full |
| `Arena` | the walls of a point (`maze.sv`), the sine tables (`trig.sv`) | shared by `BulletPath` and `Tank` |
| `BulletPath`, `MCBulletPath` | positions and headings of `bullet.sv`, `bullet_col.sv` | extends `BulletFlight` and `Arena`: bullets against walls, bit by bit |
| `FireControl` | fire keys, edge detectors, triggers | part of `Game` |
| `Duel` | - | what the whole game promises: a `Match` in which every round is decided once, by a shot of its own |
| `Game`, `MCGame`, `GameProofs` | the wiring of a round | composes `ScreenControl`, `FireControl`, `Bullet`; implements `Duel` by a refinement mapping |
| `Maze` | maze generation and wall memory | processor against game |
| `VGA` | `VGA_controller.sv` | the frame clock |
| `Tank`, `MCTank` | `tank_one.sv`, `tank_two.sv`, `tank_col`, `check_for_col`, `transform_matrix` | keys, motion and hull of a tank, bit by bit |
| `UsbHost`, `MCUsbHost`, `UsbHostProofs` | main's loop, chip driver, enumeration | processor against chip and user |
| `Transfers`, `TransfersProofs` | kbdPoll, XferInTransfer, XferDispatchPkt, main's port writes | processor against chip, bus, keyboard and clock; implements `Pipe` for reports |
| `Pipe` | - | what one direction of the console, and the keyboard's reports, promise; what is put is the writer's choice, so it speaks of loss, repetition and order from there on |
| `JtagUart`, `JtagUartProofs` | the JTAG UART driver and how the HAL installs it | program, interrupt routine, alarm, chip and host; implements `Pipe` twice |
| `Alarms`, `AlarmsProofs` | the system clock | tick against starts, stops and callbacks |
| `Files`, `FilesProofs` | the descriptor table and every call on it | sequential; what fails half-way |
| `ArenaProofs` | - | the proofs about `BulletLife`, `BulletPath` and `Tank` |
| `ScreenProofs` | - | the proofs about `ScreenControl`, `Maze` and `VGA` |

State and actions keep the code's names; a prefix (`TankFrame`, `PathInit`, `VGATypeOK`) keeps apart what modules that
one proof module extends would otherwise both define. One TLA+ step is one edge of one clock, one asynchronous reset, one
port write, or one stretch of software between two moments at which something else can be noticed.
Definitions whose name starts with `Fault` are plausible bugs: each replaces the definition that follows it to
show that a property can fail; nothing else refers to them.

* **ScreenControl.** `Frame` is the clock edge: `Next_state` is the `always_comb` case, with the tables
  `OnRedWin`, `OnGreenWin`, `AfterReset`. `Key0` is the asynchronous reset, which the edge detector does
  not have. Alone, the module lets its inputs change freely (`Environment`); in `Game` they are the bullets' and keyboard's.
  While KEY0 is held the VGA controller is reset too, so no frame edge comes and one step stands for the whole press.
* **Bullet / BulletFlight / BulletLife.** `BulletFrame` is the block clocked by `VGA_VS`, `BulletTimer` the one
  clocked by the divider, `BulletParked` the reset branch of both. The blocking assignments to `tempshot` and `flag` are
  registers once synthesised and are modelled so. In `BulletLife` triggers, walls and the reset level are
  arbitrary. `age` counts timer edges since a launch and is only observed.
* **BulletPath.** The same frame and timer edges with the positions: `PlaceFrame` is what a frame edge does to `cur_x`, `cur_y` and `angle`,
  in sixteenths of a pixel and 14 bits; `xcol` and `ycol` are `bullet_col`, which `xwall` and `ywall` read at the pixel the bullet is in;
  `Muzzle` is the start 14 pixels ahead of the tank's centre. A launch takes any pose of `Shots`. `astray` (the walls a bullet was fired across and
  is still behind) and `flown` (frames since the launch) are only observed. A wall here is the side of the cell as that cell's byte has it.
* **FireControl / Game.** A slot shows a tank's name when it shows that tank's fire key. `Post` is the
  edge detectors' output, `Raised` both if-chains. `Game.Frame` gives every part the values all others had before
  the edge; `BulletEdge` adds that the reset is asynchronous and so already takes effect at the
  edge that raises it. Where bullets fly is left open: any bullet in flight may be near any tank, a parked one
  (y = 461, the arena ends at 447) near none. `fired`, `heard` and `picked` are only observed.
  `ImplementsDuel` maps the round's phase and points as `ScreenControl` maps them to `Match`, and `live` to `fired`: that a stale hit
  decides no second round is a matter of the screens, the asynchronous reset and the bullets together, and of no part alone.
* **Maze.** `WALLS_VRAM` follows the port registers while write enable is high. `SetAddr`, `SetData`,
  `SetHigh`, `SetLow` are the four writes of `setWall`; `HasWall` is the computation of `wall_val`, side by side;
  the coins of `rand()` are arbitrary although the program has four seeds.
* **VGA.** One step is a rising edge of the 25 MHz pixel clock. Sizes are parameters. `uncounted` is no register: it remembers for the properties
  that no pixel was counted since KEY0 or power-up.
* **Tank.** The variable `tank` says which of the two modules this is. `TankFrame` is one `VGA_VS` edge with any report in
  the ports; `motion`, `rotation` and `NextAngle` are the code's, with its widths (a turn of -1 is 127). `Turned` is
  `transform_matrix` in sixteenths of a pixel, with the wrapping of coordinates and the odd rounding of `x_out` (the last bit is
  an or of two); `Sines` and `Cosines` (in `Arena`) are the tables, which are not symmetric. Reset is one step, because
  no edge matters while it lasts. `Corridor` and `Yard` are no part of the code: they say of a maze, and of the bound `Lane`, what the
  theorems about the hull need, and `MCTank` asserts both of the run (`CorridorAssumption`). In the same way `NoseInside` and `WallsGoOn` in `BulletPath` say
  what the theorem about a shot through a wall needs of the poses and the maze (`ComeBackAssumption` in `MCBulletPath`).
* **UsbHost.** `MaxIntHandler` and `Ack` split the interrupt handler where the chip can interfere (between the sample
  of the bus and the write that acknowledges); each branch of `USB_Task` is an action; `Found`, `Poll`
  and `Reinit` are main's branches; `ChipReset`, `InitProbe`, `InitAck` are `MAX3421E_init` and `USB_init`.
  Task states keep their numbers, because the handler adds one to them. The chip
  (`BusChange`, `ResetEnds`, `FrameStarts`, `OscillatorStable`) and the clock (`Tick`) are external and taken from how the code uses
  them: in particular a finished bus reset may raise CONDETIRQ, as a comment in `MAX3421E.c` says, and status bits
  show the bus as it is. A transfer's outcome is any, but success needs a device and its speed.
  The model lets a transfer to a device that has just been swapped succeed, which only adds behaviours.
  The polling of SCREEN_RESET at the head of the loop is in `Maze`, the transfers of a plugged keyboard are in `Transfers`.
* **Transfers.** The keyboard is plugged and enumerated. `KeyEvent` changes the report, which the keyboard queues; `Poll` starts
  a transfer with the saved toggle; `Launch`, `Done`, `Expire` are the loops of `XferDispatchPkt`, and `Nak`, `Retry`, `Fail`, `Receive` what it and
  `XferInTransfer` make of the result; `SetKeycode` is one of main's port writes. A transaction may be refused (`Refused`), lost or
  damaged on either way (`Lost`), arrive with its acknowledgement lost (`Arrive(FALSE)`), and the chip may fall silent (`Die`). `reading` is the
  millisecond clock, which overflows at `MaxReading`; `Tick` lets it go on at most once per transaction of a chip that works
  (a transaction of the full-speed bus is far shorter than a millisecond) and without limit once the chip is dead.
* **JtagUart / Pipe.** `TimerInit` and `UartInit` are the two boot steps in the order of `alt_sys_init.c`. `Write`, `Read`, `Close`, `SetTimeout`
  start a call; `Fill`, `Copy`, `Kick`, `Spin`, `Decide` are `_write.c`, `Take`, `CopyOut`, `Await`, `Reenable` are `_read.c`, `Closing` is
  `_fd.c`, cut at every read of a variable the routine writes. `Enter` and `Control` are the head of the routine's loop, `RxChar`, `RxDone`,
  `TxChar`, `TxDone` its two inner loops. The build compiles without optimisation (`-O0`), so that every access is one to memory
  although not every variable is `volatile`. The chip raises its interrupts when its FIFOs pass a threshold or the host pauses; the model lets it raise them
  any time it may (`RiPossible`, `WiPossible`) and makes it only when the FIFO is full or empty (`RiForced`, `WiForced`). `HostTake`, `HostSend`, `HostPoll` are the host, external.
* **Alarms.** `Start`, `Stop` are the two calls, from the program or from a callback; `Tick`, `Pass`, `Call`, `Return` are `alt_tick`, cut
  between the look at one alarm and its callback, which may start and stop others before it asks for its next call (`Again`) or is done (`Last`). `Insert`
  and `Remove` are `alt_llist.h`. `left` (the ticks still to go) and `older` (the order of starting) are only observed.
* **Files.** One action per call, which is atomic: one program, and no interrupt routine touches the table. `Attempt` is `open` from
  its search for the device to the clean-up of a late failure; `Redirect` is one line of `alt_io_redirect`. The loop of `alt_get_fd` is `Lowest`, the
  set that holds the lowest free descriptor. `blind` remembers which descriptor a lock overlooked and is only observed.

## 3. Runs

| Run | Bounds | Shows |
|---|---|---|
| `screen_control` | none, the machine is finite | `ImplementsMatch`: the tables are a match to three; `PointsHaveACause`; `MatchEnds`: no cycle of rounds without a winner |
| `bullet_life` | one bullet (bullets do not interact here), the real limit of 4 | `LifetimeExact`, `NeverStuck`, `EveryBulletReturns` |
| `game` | one tank, 2 bullets, 2 slots, limit 1 | `ArenaClear`, `TriggerHasCause`, `ShotAnswered`, `QuietArena`; `ImplementsDuel`: the parts together play matches in which each round is fought |
| `maze` | 2 x 2 bytes, that is 4 x 2 tiles | `BorderClosed`, `SharedWallsAgree`, `OneByteAtATime` |
| `vga` | 11 x 14 pixels with blanking | `FrameEdge`: one rising edge in each turn of the counters, at its place outside the picture (`EdgeInPlace`), no other but one after each reset, and it keeps coming (`EdgeComes`) |
| `usb_host` | a low-speed keyboard and a full-speed mouse, 2 addresses, clock of 3 readings, settle of 1 | `NoTransferInReset`, `SpeedMatches`, `PollsWhatIsPlugged`, `ChangeNoticed` |
| `tank` | a corridor in the outer columns, y within one pixel of its start, two ports, every chord that makes a difference | `HullStaysInside`, `WedgedOnlyAlongside` |
| `bullet_path` | one bullet, flights of 40 frames, shots from every pixel across a vertical and a horizontal corridor and every ninth of a closed cell, all 90 headings | `LooksFirst`, `StraightWallsHold`, `ShotsComeBack` |
| `transfers` | 2 keys, 2 ports, NAK and retry limits of 2, time-out of 5 on a clock of 7 readings, 2 reports queued | `ReportsAreAPipe`: each report once and in order, whatever is lost; `WorkingChipIsKept`; `DispatchEnds`; `KeptKeysStay`; `PortsFollow` |
| `console` | rings of 3 places, FIFOs of 1, calls of up to 2 characters, time-out of 2 seconds | `TransmitIsAPipe`, `ReceiveIsAPipe`, `NothingStranded`, `RoutineReturns`, `EveryCallReturns` |
| `alarms` | 3 alarms, a counter of 4 ticks, periods of 1 and 2 | `ListSound`, `OnTime`, `AlarmsGoOff` |
| `files` | 6 descriptors, the flags `O_NONBLOCK` and the lock | `LockedIsAlone`, `StreamsStay`, `FailureLeavesNoTrace` |

Every module with variables also states its type invariant, `TypeOK` or that name with the module's prefix (`BulletPath` leaves it to `PathOK` of its proofs and the parts it extends). It was model-checked everywhere with the bounds above; where a proof module proves it (section 4),
it holds for every value of the constants.

Why the bounds suffice. Two bullets of a tank are the first at which the if-chain chooses and a held bullet can be
passed over; two slots the first at which a key can move or be shown twice. Two tanks meet only in the slots (a slot shows the key of one of them);
the theorems of `GameProofs` hold for both, and every property of the run was checked once with two tanks of two bullets and one slot, which takes longer than the run. The lifetime limit matters only in `bullet_life`, which has the real one. Two rows and two columns of bytes contain
every kind of byte the maze code distinguishes (corner, edge, last column, last row); two devices of different
speed and class are enough for every swap, two addresses for a leaked entry, a fresh one and an exhausted table. `Limit + 2`
(`MaxAge`) and `LongAgo` cap observed counters beyond the values any property asks about.

For `tank`, nothing in the corridor depends on y, so that `Lane`, the bound on y, may be small; with one pixel
(16) every pair of x and angle that a longer lane reaches is reached already (a shorter lane misses some, among them
the wedged ones). Of three and more keys at once only the pairs that cancel or combine matter.

For `bullet_path`, the maze is large enough that no flight of 40 frames meets a wall it was not meant for; 40 frames at up to four pixels are two
crossings of a corridor, that is more than one reflection on either side. The poses are those a tank can have: its hull no deeper in a wall than `HullStaysInside`
allows. Along a corridor nothing changes, so one place along it is enough; the fractions of a pixel come from the 90 headings. The timer's edges,
which in the game come every 120 frames, come when a flight has reached the bound, so that the recall and the next shot are in the run as well.

For `transfers`, limits of two are the first at which each counter is seen both below and at its limit, and a time-out of five is the smallest
above their sum, which is what the code's 200, 3 and 5000 satisfy (`LimitAssumption`); the clock of seven readings puts deadlines
before and beyond the overflow; two queued reports let a repeated one stand in front of a new one; two keys are the first at which a
released key moves the other to another port. For `console`, three places are the smallest ring with a copy that wraps and one that does not, and a call of
two characters fills it; one-character FIFOs are full and empty all the time, which is where interrupts are lost. Non-blocking
descriptors and every time-out were checked as well, on a ring of two. For `alarms`, three alarms are the walked one, the saved one and a third that
callbacks change; a counter of four lets sums wrap between start and call. For `files`, three descriptors above the streams are
the lock's owner, another one, and the highest.

**Fairness.** Weak fairness of `Frame` and `Timer`: the two clocks are free-running. Of `Pixel`: the 50 MHz oscillator. Of
`Software`, `Driver`, `ProgramStep`, `Routine`, `Return`: the processor executes; it never blocks except in loops the model has. Of `Tick` and `Elapse`: the system
timer; of the timer's and the console's forced interrupts: nothing masks them for good. Strong fairness of the console's `Timeout`: the timer's interrupt waits behind the
console's, which keeps coming up, but never for a whole second. Of the chip only that it completes what it was given, as long as it works, and
of the bus that it lets a transaction through again and again (strong fairness of `Arrive(TRUE)`, used by `PortsFollow` alone).
Nothing a player or the host does and no reset is assumed; where a property needs it, it says so itself
(`QuietArena`: keyboard left alone; `ChangeNoticed`: the oscillator comes up, the bus is left alone, and its last change was not overlooked;
`EdgeComes`: KEY0 is left alone; `PortsFollow`: the chip works and the keyboard rests; `EveryCallReturns`: the host
is gone for good and the time-out was not switched off). Frame and timer edges interleave freely except that two timer edges never
come without a frame edge in between (two seconds against a sixtieth).

`CHECK_DEADLOCK FALSE` stands only where the system may stop: a dispatch whose chip is dead and whose deadline lies beyond the overflow
(`transfers`); a clock with no alarm (`alarms`); a console without a host (`console`).

## 4. Proofs

TLAPS proves, for every value of the constants their `ASSUME`s allow:

* `ScreenProofs`, screen state machine: `TypeCorrect`; `ScreenControlImplementsMatch`, the refinement, by cases over the
  transition tables (`RedWinCounts`, `GreenWinCounts` say what each row of the tables does to the mapped
  score; `FrameIsMatchStep` maps a frame edge to a step of `Match` or a stutter); `PointsHaveACauseHolds`.
* `ScreenProofs`, maze: `MazeTypeCorrect`, `BorderClosedHolds`, `SharedWallsAgreeHolds`, `OneByteAtATimeHolds`, for mazes of any number of rows and
  of bytes in a row. None of the three properties is inductive. `RegisterInv` says which of the three port registers hold the present byte's
  values at each of the four writes, so that the open latch can only see address and data of one byte (`OneByteAtATime`); `ContentInv` that every tile of a byte that is
  already written shows the walls the arrays give it. That the arrays are filled while the bytes are written is the hard part: no later
  coin may touch an entry a written byte was computed from. `AddressOrder` turns the order of addresses into that of rows and columns for it, and
  `SharedWallsAgree` follows from `ContentInv` for both neighbours of a wall, because both read the same array entry.
* `ScreenProofs`, frame clock: `EdgeInPlaceHolds`, the safety half of `FrameEdge`, for every screen timing. The outputs are registers and lag the counters by a clock;
  `SyncInv` says at which counter values `vs` is low, across the line change at which the two counters step at different times.
* `ArenaProofs`, life of a bullet: `BulletLifeTypeCorrect`, `CountsThisFlightHolds`, `LifetimeExactHolds`, `NeverStuckHolds` and two more (`ResetParks`: a reset leaves nothing in
  either domain; `TimedWhileFlying`) from one inductive invariant `IInv`, for any set of bullets and any limit. `CountsThisFlight` is not
  inductive: that a recalled bullet's counter is zero before it can be launched again depends on the hold
  (`timer_done` is up until a timer edge has cleared the counter), which the conjuncts `Ready`, `Counted`, `Due`
  and `Held` of `IInv` state.
* `ArenaProofs`, tanks: `TankTypeCorrect`, for every maze, every length of the lane and every keyboard: the angle never leaves the 90 entries
  of the sine tables and the positions keep their 14 bits. `TankTypeOK` is inductive; the argument is the case split of `NextAngle`.
* `ArenaProofs`, the hull: `HullStaysInsideHolds`, `WedgedOnlyAlongsideHolds` and `NoseStaysInside` (the point ten pixels ahead of the centre never leaves the
  corridor at all), for every keyboard and every maze in which `Corridor` holds (the cells the tanks start in have both side walls, which their
  neighbours show as well) and every `Lane` up to `Yard` (the tank stays clear of what lies above and below). Nothing is assumed of any other wall. None of the
  three is inductive: `HullInv` adds that a tank touched on both sides stands alongside, and all three follow from it. The proof looks at the corridor from
  above and keeps only the coordinate across it. `Turned` is rounded, wrapped and turned by the opposite angle (`Opposite`); the lemmas from `TurnedIs` to
  `PointIs` show that in spite of it a point touches exactly where `16 * n + u` says it, because the wall test's thresholds lie where the rounding does not
  matter and a centre at least seven pixels from x = 0 does not wrap. What remains is arithmetic about two poses of a tank. `StraightStep`: who only drives,
  drives away from what he touches. `FreeStep`, `FreeStepUnwedged`: who drives and turns at once touches nothing before, and the tables (`EveryPose`,
  `EveryTurn`) say that he is longer across the corridor than the way he goes while he turns, so that the end that follows stays clear.
* `ArenaProofs`, way of a bullet: `PathOKHolds`, every position keeps its 14 bits and every heading its place in the tables; `LooksFirstHolds`, for every maze, any number of
  bullets and every pose they are fired from. `StepInCell` is the arithmetic: a step of at most four pixels cannot cross an edge of the cell that
  is more than six pixels away, whatever the fraction and across the wrap of 14 bits; `Tables` and `Motion` bound the step by the sine
  tables, `Clear` says that an edge with a wall is that far from a bullet that is not mirrored.
* `ArenaProofs`, shots through a wall: `ShotsComeBackHolds`, for every maze and every set of poses with `NoseInside` (where a cell has a wall, the point ten pixels
  ahead of the tank is still in the cell) and `WallsGoOn` (the cell the muzzle lies in shows the other half of the wall the shot is fired across). The first is not an
  assumption about tanks: across a corridor it is what `NoseStaysInside` proves of them; TLC evaluates both for the poses of the run. Ten pixels
  are the muzzle's fourteen less the four of a frame, so that such a muzzle is less than four pixels behind the wall, where the wall's other half
  mirrors the bullet at its first look (`StrayTouches`) and the blind frame after it crosses the wall again (`StrayReturns`). `StrayInv` carries the pose the shot was
  fired from through the two frames, and that a parked bullet has forgotten its reflections, without which the first look could mirror it the wrong way.
* `GameProofs`: `GameTypeCorrect`, `ArenaClearHolds`, `TriggerHasCauseHolds`, `PointNeedsAShotHolds`, `NoShotUnaskedHolds`, `ShotAnsweredHolds` and the refinement `GameImplementsDuel`
  (of which `PointNeedsAShot`, stated there, is the part about deciding a round). The
  inductive invariant links the pipeline stages of a key press (slot flip-flop, edge detector, trigger) to the age of the press,
  a hit to a bullet in flight to a launch in this round, and the bullet that was picked to the one whose trigger is up (`PickTriggered`, what
  `ShotAnswered` needs of the frame before). For the refinement `FiredInRound` adds that no shot is remembered outside a round; `RedRound` and `GreenRound` count the points of a
  decided round, and that the round was live comes from the invariant before the step: the hit needs a bullet in flight, the bullet a launch in this round.
* `UsbHostProofs`: `UsbHostTypeCorrect`, `NoTransferInResetHolds`, `SpeedMatchesHolds`, `PollsWhatIsPluggedHolds`, for any devices and any number of
  addresses. The three properties speak of the task state alone, which the interrupt handler moves between any two looks at it, so each
  needs what holds at the other points of the loop: `ResetInv` that during a bus reset the task state is one that sends nothing and no stale event can
  push it on (it adds one to the state); `LoopInv` that with the running flag set an enumeration gets no further than its first reset before main
  notices, which keeps `Found` from meeting a half-enumerated device; `SpeedInv` that from the probe on the speed is that of the device on the bus;
  `TableInv` that the table fills from the front and is never emptied in the middle, so that main's search, which takes the last entry, finds the one just enumerated
  (`FreeIsLast`).
* `TransfersProofs`: `TransfersTypeCorrect`, `WorkingChipIsKeptHolds`, `KeptKeysStayHolds` and the refinement `ReportsAreAPipeHolds`, for any keys, any number of ports, any
  queue and any limits whose sum is below the time-out. `InTime` bounds the clock's advance since the poll by the transactions launched
  since then, which the two counters bound in turn; a reading that has overflowed to zero is below the bound all the more. `ChipInv` says when the buffer and the busy flag can be set, in particular
  that a filled buffer is exactly a toggle that differs; `ChainInv` is the heart of the pipe: the front of the queue is the report that the other side already has if and only if the two toggles
  differ, and from the program's report to the keys that are down each report is the next one's predecessor, in which no key moves to a
  higher port (`Forward`). With `PortsInv`, what the ports show half-way through the six writes, that gives `KeptKeysStay`: the writes go up, keys only come down.
* `AlarmsProofs`: `TypeCorrect`, `ListCorrect`, `CalledOnTime`, for any set of alarms and any width of the counter. The list is shown sound through the order of
  starting: `ListOK` says that `older` orders the linked alarms totally and that every link goes to the next older one, which both `Insert` and `Remove`
  keep; `Walk` that the walk stands on a running alarm, or in a callback with a saved link that is still one; `InTime` relates `time`, `rollover` and `nticks` to the
  ticks left, with the flag one tick old for alarms the walk has not come to yet. `OnTime` alone is not inductive, because
  nothing in it says how the flag and the counter stand between two calls.
* `FilesProofs`: `TypeCorrect`, `LockExcludes`, `StreamsKept`, `FailuresLeaveNoTrace`, for any number of descriptors. Besides the
  properties the invariant has `Booting` (what is redirected already), `Table` (no descriptor above `alt_max_fd` is in use, a lock is a device's) and `Streams`.
* `JtagUartProofs`: `TypeCorrect`, `NothingIsStranded`, and the two refinements `ConsoleTransmits` and `ConsoleReceives`, for rings and FIFOs
  of any size. `IInv` adds to `NothingStranded` that nothing moves before the handler is registered (`Booting`), that a call's copy of a pointer
  errs on the safe side (`Snapshots`) and that the room the interrupt routine has read is still there (`Room`). The refinements rest on two
  lemmas about rings, `RingDrop` and `RingGrow`: a step grows the ring at its end, drops its front, or moves one character between ring and
  FIFO, which leaves the pipe as it is.

Assumptions of the proofs are those the modules name with `ASSUME`: sizes are positive numbers, names that stand for nothing are
not members of the sets, and the relations between limits that the code's numbers satisfy. TLC evaluates each of them in the runs.

Only model-checked: all liveness (`EdgeComes` in `FrameEdge`, `MatchEnds`, `EveryBulletReturns`, `QuietArena`, `ChangeNoticed`, `DispatchEnds`,
`PortsFollow`, `RoutineReturns`, `EveryCallReturns`, `AlarmsGoOff`), which is beyond the prover; and `StraightWallsHold` of `BulletPath`, which holds for the maze of the
run and not for any: TLC shows a bullet that goes round the free end of a wall as an exception (section 5). A theorem would have to assume walls without ends, which no maze has. For corners, `HullStaysInside` and `WedgedOnlyAlongside` are neither proved nor checked. That a nonempty set of descriptors has a least one would need an induction, so
`Files` picks from the set of least ones and TLC shows that it is never empty. For the same reason `Transfers` takes a released key out of the report by its place (`RemoveAt`):
a filter over a sequence is defined by recursion, of which the prover can show nothing.

## 5. What the code does otherwise than it says

* `alt_fd_lock.c` 61 scans with `<` where `alt_open.c` 79 has `<=`: a device is locked although the highest descriptor ever given has
  it open, against the comment of `alt_fd_lock.c` 43-45. `LockedIsAlone` names that descriptor (`blind`) as its only exception.
* `bullet.sv` 62-66: while `flag` is set a bullet moves without looking ("stop glitching through the walls", line 63), and `flag` stays set as long as it
  touches any wall. Mirrored by one wall of a corner while it flies along it, a bullet goes blindly through the other one: take `Cornered` out of
  `StraightWallsHold` and TLC shows it in the closed cell. Along a wall without end it does not happen; the free end of a wall is an item of its own below.
* `VGA_controller.sv`: the vertical sync is low in lines 489 and 490; the comment says 490-491. Harmless: `FrameEdge` holds.
* `transfer.c` 277-281: a device attached within 200 ms of the overflow of `alt_nticks()*1000` (once in about 72
  minutes) is never enumerated, because the deadline is a reading that cannot come.
* `transfer.c` 153: in the same way a dispatch begun within 5 seconds of the overflow has no time-out; if the chip falls silent in it, main's loop stands for ever. `DispatchEnds`
  exempts exactly this; a chip that works is not affected (`WorkingChipIsKept`).
* `transfer.c` 298: `|` for `&`, so the first start of frame is not waited for.
* `MAX3421E.c` 141/153: the connection interrupt of the device's own reset restarts the attachment if the reset
  ends between the two tasks of one loop turn.
* The wait for the oscillator has no timeout although `MAX3421E.c:115` counts one (`InitProbe`
  is the only way on), and `USB_STATE_ERROR` (0xff, masked to 0xf0) is served by the `default` branch that
  "should never" be reached (`Nothing`).
* `Tank_Trouble_TL.sv` 401 reads `screenreset`, an undeclared net, for `screen_reset`; so `screenreset_pe` is constant and `SCREEN_RESET`
  is plainly the reset level, which is how `Maze` models it.

Not said anywhere, but good to know:

* Alongside a wall (`cos` within a sixteenth of zero) a tank can turn into a pose
  where front and back touch at once and stays there until the round ends (`WedgedOnlyAlongside` says that this is the only way at
  a straight wall). The wall at x = 0 has no other half, and a point left of it reads column 5 of the row below:
  take the wall of column 5 out of `CorridorWalls` and TLC finds `HullStaysInside` violated within a few dozen frames, by a
  tank that backs and turns at once.
* A shot fired with the tank's nose at a wall starts behind the wall and is mirrored back through it at once (`ShotsComeBack`), provided it starts across one wall only:
  one that starts across the corner post of two walls may stay outside. At the outer border the
  muzzle reads what lies there: left of x = 0 positions wrap to 1023, above y = 0 the address is beyond the 35 bytes of the memory, and the shot may not come back.
* A bullet that passes the free end of a wall slantwise may look for the first time when it is already on the far side, within five pixels of the wall: it is
  mirrored there, although it is on its way from the wall, and the blind frame takes it back through the wall. (A maze with one such wall violates
  `StraightWallsHold`; the run's flights meet an end of a wall only where it is a corner.)
* A keyboard unplugged with a key down leaves its last report in the ports (`main.c` 259).
* Without a host `printf` fills the ring, then one call waits for up to the time-out (ten seconds), and the following ones fail at
  once; all of this in main's loop. A host that polls the UART but does not read keeps `write` waiting for ever, and so does
  `TIOCSTIMEOUT` with a value out of range: both are outside the premise of `EveryCallReturns`.
* An alarm must be started with less than `W - 1` ticks (2^32 - 1): the tick under way is added, and the sum of a full turn fires at the next tick
  (`DelayAssumption`). A callback must not stop the alarm after it in the list: the walk would follow a link that points to itself. The timer has one bit for
  the ticks nobody has taken, so ticks are lost while interrupts are off longer than one.
* A `close` that fails (a non-blocking console with characters to send) has given its descriptor away all the same; a lock taken through a standard stream is not freed
  by closing it; a call on a closed descriptor follows a null pointer, so `Files` keeps to open ones.
* `alt_settod.c` computes in 32 bits what `alt_gettod.c` computes in 64: after 71.6 minutes the two disagree. Seen in reading, not modelled.

## 6. Plan

1. (done) `Match`, `ScreenControl`, bullets, fire control, `Game`, with their proofs; `Maze`, `VGA`, `UsbHost`, `Tank` checked.
2. (done) `Transfers`; the runtime below main: `JtagUart` implementing `Pipe`, `Alarms` and `Files`, each with its proofs.
3. `Tank` in a corner and at a wall end, where two dimensions matter: needs a coarser grid that keeps the rounding.
4. (done) `BulletPath`: the way of a bullet, with the proof that the band of a wall cannot be crossed in one frame. Left: two bullets' hits with real
   distances (`pos_diff`), and corners as tank and bullet meet in them.
5. `UsbHost`, `Transfers` and `FireControl` composed: reports torn and left behind by an unplug, up to the shot they cause.
6. (done) Proofs of the safety properties of `UsbHost`, `Transfers`, `Maze` and `VGA`, of `NeverStuck` and `ShotAnswered`.
7. (done) `Game` implements `Duel`, a match with rounds that are fought; the hull of a tank in every corridor; shots through a wall in every maze. Left of the proofs: what of
   `StraightWallsHold` is true near the ends of walls.

## 7. Not modelled

Drawing (colours, sprites, score digits), the LED and hexadecimal number display, vendor and generated code, `ball.sv` (never
instantiated), descriptor parsing, the bytes of USB control transfers and reads of more than one packet (no device here needs one).
Of the runtime: `alt_log_printf` and `alt_gmon`, which the build leaves out; headers of register addresses and of flash and DMA
devices this system does not have; `alt_gettod`, `alt_settod`, `alt_times`, `usleep`, `alt_sbrk` and the SPI driver, which are sequential
helpers without a state machine. Together they are most of the lines of the repository, and they have no behaviour that
could go wrong by an order of steps. Analogue behaviour, metastability between the clocks and the time
the processor takes are outside TLA+'s view here: a register is sampled before or after, never in between.
