# Super Smash Bros on an FPGA: a verification project

The repository is a two-player fighting game for a DE10-Lite board. The game
itself is SystemVerilog (`src/*.sv`): a referee, two fighters and a pixel
pipeline on a VGA clock. A Nios II processor in the same FPGA runs a C program
(`src/software/final_project`) that drives a MAX3421E USB host chip, polls a
USB keyboard and writes the keys into four parallel ports that the game reads.
The program runs on the board support package of its vendor
(`src/software/final_project_bsp`): drivers, file descriptors, interrupts,
tick and alarms.

This directory holds TLA+ modules translated from that code, TLC
configurations that check them on small instances, and theorems checked by
TLAPS for every value of the constants.

To check a model: `tlc -config MCGame.cfg MCGame`. To check proofs:
`tlapm GameProofs.tla`.

## 1. The system

### Components

| component | source | state | operations |
|---|---|---|---|
| Referee | `control.sv` | match FSM (ready, play, endgame), two 2-bit life counters, two 12-bit damage counters, two death-flag debouncers | one clock edge, reset button |
| Fighters | `ball.sv`, `ball2.sv` | 10-bit position and motion, death flag | one frame, reset button |
| Game composition | `lab62.sv` | the wires between them, pixel clock and vertical sync | |
| VGA controller | `VGA_controller.sv` | clock divider, row and column counters, sync flip-flops | one 50 MHz edge |
| Pixel pipeline | `Color_Mapper.sv`, `*_example.sv` | none (palette and ROM registers) | colour of the current pixel |
| USB host task | `main.c`, `MAX3421E.c`, `transfer.c`, `HID.c` | `usb_task_state`, `devtable`, `hid_device`, `tmp_addr` and `usb_delay`, main's `runningdebugflag` and `device`, the chip's mode, flags and bus reset | interrupt handler, bus probe, one state of `USB_Task`, one turn of `main` |
| USB transfers | `transfer.c`, `HID.c` | toggles, NAK and retry counters, the chip's receive FIFO | interrupt poll, control request with or without data |
| Keycode ports | `main.c` | the last report, four 8-bit PIO registers | `setKeycode` |
| Settle timer | `transfer.c` | `usb_delay` against `alt_nticks()` | arm, test |
| Chip register access | `MAX3421E.c`, `altera_avalon_spi.c` | the call's counters, the SPI core | read and write a register or a FIFO |
| Chip reset | `MAX3421E.c` | none | wait for the oscillator |
| Console driver | `altera_avalon_jtag_uart_*.c` | two rings, interrupt enables, host timeout | read, write, close, ioctl, interrupt routine, alarm |
| File descriptors | `HAL/src/alt_open.c` and others | `alt_fd_list`, `alt_max_fd` | open, close, redirect, lock, fcntl |
| Interrupts, tick, alarms, boot | `HAL/src/alt_irq_handler.c`, `alt_tick.c`, `alt_alarm_start.c`, `alt_main.c` and others | handler table, mask, PIE, tick count, alarm list | interrupt, register, disable and enable, start and stop an alarm, boot |
| Legacy hit logic | `hitlogic.sv` | its own FSM | not instantiated by `lab62.sv` |
| HEX display | `HexDriver.sv` | none | a constant table |
| SoC, sprite ROMs | `lab62_soc/`, `*_rom.sv`, `*_palette.sv` | generated | |

### How they interact

    keyboard --USB--> MAX3421E --SPI--> USB_Task / main.c --4 PIO ports--+
                          |                  ^   |                       |
                          +---- INT pin -----+   | printf, alt_nticks    |
                                                 v                       |
      host PC <--JTAG UART-- descriptors, console driver, tick, alarms   |
                                                                         v
                                                      +------ keys ------+------+
                                                      v                         v
     50 MHz --> VGA controller --pixel clock--> Referee <--death, position-- Fighters
                     |                            |  damage (launch_dist)  -->  ^
                     +------- vertical sync ------|-----------------------------+
                                                  +--> screen --> pixel pipeline

Two clock domains meet in the referee. The fighters move on the vertical sync
(60 Hz) and raise a *level* `death` that lasts a frame; the referee looks at
it on every pixel clock (25 MHz) and has to count it once. The processor is a
third domain: its ports change at any moment relative to both.

The C program is a single loop: `MAX3421E_Task`, `USB_Task`, then `main`'s own
body. The handler of the USB chip is called from that loop when the INT pin is
low, and not by an interrupt; but the chip, the bus and the player who plugs
devices go on between any two register accesses. Below the loop two interrupts
do preempt it: the timer, which counts the tick and runs the alarms, and the
JTAG UART, through which every `printf` of the loop goes to a host that may not
be there. The build: Nios II/e at 50 MHz, no caches, no external interrupt
controller, `-O0`; `ALT_MAX_FD` 32; console `/dev/jtag_uart_0` on interrupt 1;
the system clock is `TIMER_0` on interrupt 2, 1000 ticks a second.

### What is hard here, and what would make it correct

* **Counting a level once.** A death must cost exactly one life, although the
  flag is up for 420000 clocks and another clock drops it; the 2-bit counter
  must not wrap during play. *A death is a life; the verdict names a loser; a
  match starts fresh; a match with a dead player ends.*
* **Modular geometry.** Positions are unsigned and wrap; a launch of up to 127
  columns can carry a fighter over the border. *Nobody reappears alive on the
  far side; a fall cannot slip through a seven-row platform; a death is one
  frame long and is not followed by another at once.*
* **A state machine that others step.** `usb_task_state` is written by
  `USB_Task`, by the bus probe, and incremented by the interrupt handler.
  *The polled record is a HID record of the right class; a running task talks
  to the device that is there; a new device is noticed; the task settles.*
* **An unreliable wire.** A lost acknowledgement makes the device send a packet
  twice; NAKs and timeouts are retried; a control request may fail half way.
  *Reports arrive once and in order; a request reads only its own answer; every
  transfer returns.*
* **Registers written one by one.** The game may look between two of the four
  writes. *A key held down is never missing from all four ports.*
* **Rings between a program and its interrupt routine.** Each side moves one
  index and works from a stale copy of the other. *Each direction is a lossless
  pipe; no enable bit is lost; a host that has gone hangs no call.*
* **Brackets of disabled interrupts,** one inside another, over tables that the
  interrupt entry reads. *No interrupt inside a bracket; no handler of NULL is
  called; alarms ring at their tick, past the wrap of the count too.*
* **A table with a high water mark.** Descriptors are taken before it is known
  whether a device is locked or its driver agrees. *Nothing leaks; locks are
  seen; the standard streams survive.*
* **A full-duplex bus.** Every byte sent brings one back. *No byte lost, no
  stale one returned, one selection of the chip for each access.*
* **Time that wraps.** Milliseconds are computed from a product that wraps at
  2^32. *A delay is neither cut short nor endless* (the second one fails).

`PROJECT.json` lists each hazard at its line with the properties that watch it.

## 2. Modules and their correspondence to the code

| module | models | role |
|---|---|---|
| `Control` | `control.sv` | the referee alone, in an arbitrary environment |
| `Respawn` | | what a fighter promises (abstract specification) |
| `Fighter` | `ball.sv`, `ball2.sv` | one fighter; refines `Respawn` |
| `Game` | `lab62.sv` and the clocks | `Control` composed with two `Respawn`s and two clocks |
| `UsbHost` | `main.c`, `MAX3421E.c`, `transfer.c`, `HID.c` | the main loop, the chip and the plug |
| `Transfer` | `transfer.c`, `HID.c` | one endpoint pair, the wire and the device |
| `Keys` | `main.c` | `Transfer` composed with `setKeycode` and the four ports |
| `SettleTimer` | `transfer.c` | the 32-bit millisecond arithmetic |
| `Spi` | `MAX3421E.c`, `altera_avalon_spi.c` | one register or FIFO access, byte by byte |
| `Pipe` | | what each direction of the console promises (abstract specification) |
| `JtagUart` | `altera_avalon_jtag_uart_*.c` | the console driver, its device and host; refines `Pipe` twice |
| `Files` | `alt_open.c`, `alt_close.c` and the calls around them | the descriptor table |
| `Runtime` | interrupt entry, tick, alarms, boot | composed with `SettleTimer` on one tick count |
| `*Proofs` | | theorems about the module of that name (`GameProofs`: `Control` and `Game`; `KeysProofs`: `Transfer` and `Keys`) |
| `MC*` | | instances for TLC |

**Control.** `Tick` is a rising edge of the pixel clock: all registers take the
value computed from the old ones (`NextState`, `NextLives`, `NextHp`,
`NextDebounce` are the `always_comb` blocks). Keys, death flags and positions
are inputs that change between edges. `Reset` is KEY[0]: it clears only the
registers that have an asynchronous reset, and because the pixel clock stands
still while it is held, press, hold and release are a single step. Lives,
damage and death flags have no reset, so they start with any value. Keys are
names; the order of the four ports is irrelevant to the referee, which looks
for a key in any of them.

**Fighter and Respawn.** `Frame` is a rising edge of the vertical sync. As in
the code the position moves by the motion of the frame before. The two source
files differ only in numbers and keys, which are constants here: `MCMario.cfg`
holds those of `ball.sv`, and the proofs cover those of both. `Key` is the
priority of the if-chain. A launch is any value from `Launches`, because the
damage register counts clocks while the attack key is down and its value is
close to arbitrary.

**Game.** `clock` counts pixel clocks until the vertical sync rises; at 0 the
fighters run a frame. Each fighter is a `Respawn`, so whatever holds in `Game`
holds for every arena. `deaths` is a history variable.

**UsbHost.** `pc` says where the loop is; an action ends at each place where a
move of the chip or of the bus could matter. `Handle` and `Acknowledge` are the
two ends of `MaxIntHandler`: flags are read, and cleared only afterwards.
`Probed` and `Speed` are `MAX_busprobe`; one action per `case` of `USB_Task`;
`FirstRun`, `Poll` and `Restart` are `main`. A transfer is here a choice
between its outcomes, success only if the attached device answers to that
address and speed. The chip and the plug (`Plug`, `Unplug`, `ResetDone`,
`ResetEcho`, `Sof`) are external: they are modelled from the way the code uses
them and from its comments ("bus reset causes connection detect interrupt").
`missed` is a history variable: the bus changed between a probe and the write
that clears its flag.

**Transfer.** `Launch` writes `rHXFR`, `Transact` is the chip and the wire, and
`Continue` what `XferDispatchPkt` and its callers do with the result. The
device keeps its own toggles, so a lost acknowledgement really leads to a
repeated packet. `Expire` is the 5 s limit. Packets carry data; what a packet
without data does is the business of `Spi`.

**Keys.** `HandOver` is the end of a poll in which `main` calls `setKeycode`,
which then writes one port per step. The game samples on clocks of its own, so
every state is one it may see. `KeysAssumption` is about the keyboard: it lists
a key that stays down no later than in its last report, because the keys after
a released one move up and new ones come last. A keyboard that sends a
roll-over report, or sorts its keys, is outside of it.

**SettleTimer.** `Time` is `(alt_nticks()*1000)/alt_ticks_per_second()` with the
wrap of the product; `usb_delay` is that plus 200, which does not wrap there.

**Spi.** `Call` is one of `MAXreg_wr`, `MAXreg_rd`, `MAXbytes_wr`,
`MAXbytes_rd`; each is two commands of `alt_avalon_spi_command`, whose polling
loop is `Poll`, `Send`, `Receive`. The core (`Load`, `Exchange`) is external: a
transmit register, a shift register and a receive register that the next byte
overwrites. Bytes are their numbers, so a lost or stale one shows.

**JtagUart.** Each ring has the index of the program and that of the interrupt
routine; the routine (`Service` to `TxDone`) and the program take turns byte by
byte, and `WLook`, `WCopy`, `WPublish`, `WKick` are the places of `write()` at
which an interrupt may come in (the same for `read()`). A stretch between
`alt_irq_disable_all` and `alt_irq_enable_all` is one step. `Alarm` is the
once-a-second timeout routine. `written`, `heard`, `sent`, `got` count bytes
and are the mapping to `Pipe`.

**Files.** One action per call; a call is one step, because the program has one
thread and no interrupt routine opens files. `Open` holds all its exits: no
descriptor free, device locked, driver refuses. A descriptor the program does
not hold is not passed to a call, since the calls do not check it.

**Runtime.** The brackets are steps of their own here: `RegDisable` to
`LeaveBracket` is `alt_iic_isr_register` with the bracket of
`alt_ic_irq_enable` inside, `Start` to `StartInsert` is `alt_alarm_start`.
`Enter`, `Dispatch`, `Leave` are the interrupt entry and the loop of
`alt_irq_handler`; `Tick` is `alt_tick`; `Boot` is the order of
`alt_main` and `alt_sys_init`. A device raises its line at most once more
before interrupt level is left (`again`). The timer's handler stays registered
and an alarm that is on the list is not started again: nothing in this program
does either. `Settle` is `SettleTimer` on the same count.

## 3. Runs

| run | checks | bounds |
|---|---|---|
| `game` | `OneLifePerDeath` `NoDamageWhileDead` `DyingEndsMatch` `NoWrapInPlay` `FreshMatch` `JustVerdict` | frames of 3 clocks, damage has 2 values, a touching and a distant pair of positions, 4 chords |
| `fighters` | `NoTeleport` `RespawnSpec` `Landing` | the numbers of `ball.sv`, ten bits, real borders and platforms; one launch distance, 126 |
| `usb_host` | `UsbTypeOK` `PollSafe` `RunningTalks` `SpeedMatches` `Detected` `TableDense` `Settles` | two addresses; a low-speed mouse, a full-speed keyboard and the illegal bus state |
| `transfer` | `NoGlitch` `InOrder` `CtrlIntact` `Returns` | limits of 3 for NAKs and retries, requests of 0 to 3 packets, three reports: three keys, the first released and two new ones, none |
| `console` | `UartTypeOK` `RxArmed` `TxInOrder` `RxInOrder` `Drains` `WriteReturns` `ReadReturns` | rings of 3, FIFOs of 1, calls of up to 2 bytes, 4 bytes out and 3 in, timeouts of 2 seconds and for ever |
| `files` | `NoLeak` `FlagsHonest` `StdioWorks` `LockRespected` | 6 descriptors, 2 devices, 1 file system |
| `runtime` | `Dispatchable` `Excluded` `OnTime` `ConsoleWatched` `NeverShort` `AlarmsRing` | two interrupts, two alarms, a tick count of 3 bits |
| `spi` | `WholeFrame` `ReadsAnswers` `CallReturns` | calls of 1, 2 and 8 bytes |
| `settle_ends` | `SettleEnds`, violated | DWORDs of 6 bits, delay 2 |
| `usb_first_sof` | `WaitsForSof`, violated | one address, one keyboard |
| `usb_detach_clears` | `DetachClears`, violated | same |
| `spi_short_packet` | `ShortPacketEnds`, violated | calls of 0, 1, 2 and 8 bytes |

What the properties say stands above each of them in its module.

**Why the bounds are enough.** The referee compares damage with nothing, so two
values show the wrap and the reset of the register; it uses positions through
`Touching` only, so a touching and a distant pair are all cases. Lives,
debouncers and the FSM have their full range. A frame of 3 clocks is the
shortest one for which the debouncer can see a flag fall; the proofs cover
every longer one, the real 420000 among them. The fighter runs with its real
numbers: position arithmetic is the hazard, and a smaller arena would be
another arena. A single launch distance still generates a dense set of columns,
because walking is in steps of 3 and 126 is close to the largest launch of 127.
In `UsbHost`, two addresses are enough to run out of addresses, to have a
device at address 2 while `main` asks address 1, and to return to an empty
table; one low-speed and one full-speed device of different classes are enough
for every sequence of speeds and classes. In `Transfer`, limits of 3 allow NAKs
and timeouts to alternate before either limit is hit, and reports modulo 3 keep
a repeated report (the one before), the expected one and one that was skipped
apart; the three reports move two keys up, add two and release all. A ring of 3
has two usable places: it is empty, half full, full, and wraps in every
position of both indices; a FIFO of 1 is full as soon as it is used; the bounds
on bytes cover more than one turn of each ring. Six
descriptors leave three beyond the standard streams: two for a lock and its
rival, one above the high water mark. A tick count of 3 bits wraps every eight
ticks, inside the longer of the two intervals (6) and around the console's (2),
and UART and timer are the interrupts whose handlers matter here. In `Spi`, one byte is
a register, two the shortest packet in which sending overtakes receiving, eight
a keyboard report.

`CHECK_DEADLOCK` is off in `spi_short_packet` only, whose subject is a program
that hangs.

**Fairness.** A clock edge is always followed by another (`WF` of `PixelClock`
and of `Frame` in `Game`, of `Tick` in `SettleTimer`): the oscillator runs, and
the reset button, the only thing that halts the pixel clock, is released at
some time. Each of these steps changes a counter, so fairness asks for edges
and nothing else. A frame of `Fighter` changes nothing when the fighter stands
and no key is down; fairness of all frames would forbid exactly the rest that
`Landing` is about. Its fairness is `WF` of `Idle` alone: a fighter left alone
gets the frames that move it, and one at rest may rest for ever (`FallsEnd`
proves that `Idle` changes nothing there). Players who never let go of the keys
are left out by this, and `Landing` says nothing of them. The C loop never
blocks, so `Program` is weakly fair; the chip ends a bus reset it began, and
the settle timer elapses. In `Transfer` and `Keys` the program does not stop
within a transfer or within `setKeycode`, and the chip reports each packet as
done. In `SettleTimer` the loop tests the timer many times per tick, so a timer
that is found expired again and again is seen (`SF` of `Expire`); the violation
of `SettleEnds` holds in spite of that. In `Spi` the program goes on within a
call and the core's clock runs. In `JtagUart` the interrupt routine, the alarm
and the call in progress are each weakly fair; the host is not: `Drains` says
of a host that keeps polling what `ReadReturns` says of one that has gone. In
`Runtime` the boot sequence, a call and an interrupt that was entered go on,
and the timer raises its line again and again; `Enter` is strongly fair,
because the processor samples its lines at every instruction while PIE is set,
many times between two brackets. Apart from `Idle`, nothing is assumed of
players, keys, plugs or of the wire.

`Settles` is about behaviours in which the plug is left alone from some time on
and no echo of the bus reset arrives between the look at the INT pin and
`USB_Task` of the same turn; in that window the task has already left
`WAIT_RESET_COMPLETE` when the echo is handled and the attachment starts over.

No liveness property holds because its condition cannot: for each one that has
a condition, TLC asked for the negation of the condition finds a fair behaviour
that meets it.

## 4. Findings

Four comments of the code are not true of it; each has a run whose
counterexample shows it.

1. `transfer.c:281`, "waiting for settle timer to expire": a delay armed in the
   last 200 ms before the millisecond time wraps (every 71 minutes) never
   expires (`settle_ends`). The safe half does hold: no delay is cut short.
2. `transfer.c:298`, "when first SOF received we can continue": the condition
   uses `|` for `&` and is always true (`usb_first_sof`).
3. `MAX3421E.c:171`, "clear device data structures": the interrupt handler
   increments `usb_task_state` when a bus event is flagged (229), including one
   left over from the last bus reset. A detach then goes from `INITIALIZE` to
   2, a state nobody handles, and the device table keeps its entries; after
   seven such detaches no address is free (`usb_detach_clears`). By the same
   increment a new attachment can be stepped over the arming of the settle
   timer.
4. `transfer.c:214`, "The transfer is complete under two conditions: 1. The
   device sent a short packet": a packet of length 0 is read with
   `MAXbytes_rd(rRCVFIFO, 0, data)`, and `alt_avalon_spi_command` with both
   lengths 0 has no way out of its loop (`spi_short_packet`).

Observations without a text they contradict, all visible in the models:

* A death during the end screen wraps the loser's lives from 0 to 3 and
  exchanges the verdict shown (`control.sv:76`). `JustVerdict` is therefore
  about the moment the screen comes up.
* An unplugged keyboard leaves its last report in the ports (`main.c:174`).
* A host that reads the console less than once a second makes `write()` give up
  with EIO although it has just taken bytes (`altera_avalon_jtag_uart_write.c:187`).
* The search for other descriptors of a device to lock leaves out the last one
  (`alt_fd_lock.c:61`); ioctl is not linked into this program.
* An alarm asked for in 2^32 - 1 ticks rings at once, and ticks are lost while
  interrupts are off for longer than a period (`alt_alarm_start.c:82`,
  `altera_avalon_timer_sc.c:59`); a callback that stops the alarm after its own
  breaks the walk of `alt_tick` (`alt_tick.c:102`). `RuntimeAssumption` and the
  callbacks of this program exclude the first and the third.

## 5. Proofs

All theorems follow the same pattern: an inductive invariant, one step per
action, and `PTL` for the temporal conclusion.

* **FighterProofs** (for every arena and launch that `FighterAssumption`
  allows: borders at least a launch away from the wrap and from the respawn
  point). The invariant is `TypeOK` and `Fresh`: while the death flag is up the
  fighter is at its respawn point, or at its reset point without motion, so the
  motion that killed it cannot kill it again. Theorems: `TypeCorrect`,
  `BordersHold`, and the refinement `FighterImplementsRespawn`.
  `FallsEnd` is `Landing` frame by frame, under `LandingAssumption` (a platform
  has more than two steps of rows, because a motion is one frame late, and one
  lies below the respawn point; both source files satisfy it). `Rank` orders
  the stages of a fall: a fighter that still moves sideways or upwards, one
  that falls past the platforms, one that is out, and one that is `Caught`,
  over rows that will stop it. A frame left alone lowers it by one at least,
  and changes nothing at rest. `FallsAreCaught` says of every frame, played
  or not, that it does not jump over a platform's rows.
* **GameProofs**, the referee alone (for every damage range, every set of
  positions and of chords). The invariant is `TypeOK` and `Quiet`: in play, a
  player with no lives left has no second trigger pending. `TypeOK` alone does
  not give `NoWrapInPlay`, because play lasts one clock longer than the last
  life. Theorems: `TypeCorrect`, `LivesNeverWrap`, `MatchesStartFresh`,
  `VerdictsAreJust`.
* **GameProofs**, the composed game (for every frame of at least 3 clocks). The
  invariant `GameInv` adds `InStep` to the properties, which ties each debouncer to the
  clock of the other domain: while a death flag is up its fighter is in bounds,
  the debouncer does not fire, and it has seen the rise before the frame ends;
  a fall is unseen only on the first clock of a frame, and the debouncer fires
  on the clock after it. Without it a death could end before it was counted, or
  be counted again. Theorems: `GameTypeCorrect`,
  `DeathsAreCountedOnce`, `DamageDiesToo`, and `GameImplementsControl`, by
  which the theorems of `Control` hold in the game (`GameLivesNeverWrap`,
  `GameIsFair`). `DeathsShortenTheMatch` is what `DyingEndsMatch` rests on step
  by step: a rising flag finds its debouncer idle, the death it reports takes
  one life, and the first edge that sees a player without lives ends the match.
* **UsbHostProofs** (for every number of addresses, every set of gadgets, with
  or without the illegal bus state). `TableInv`: the entries in use are 1 to m
  and the device at work is entry m, which is why the report of the *last*
  entry is the right one. `TurnInv`: main cannot see two devices run without
  dropping `runningdebugflag` in between, because every way from one to the
  next passes a state that `Restart` sees. `TalkInv`, `SpeedInv` and
  `DetectInv` extend the three properties about the bus to the places inside
  the handler, between probe and clearing of the flag. Theorems:
  `TypeCorrect`, `PollingIsSafe`, `RunningDeviceIsThere`, `SpeedIsRight`,
  `DevicesAreDetected`, `TableHasNoGap`. `SettlingIsMonotone` is `Settles` step
  by step. `Rank` orders what has still to happen before the task stays where
  it is: a bus reset about to start for a device that has gone (`Ghost`), a
  running reset that is not that of the device at work (`Stale`), a flagged
  change of the bus (`Disturbed`), a restart of the chip (`Restarting`), then
  the states of `USB_Task` in their order. While the plug is left alone no step
  raises it, and the steps in `Helpful`, of which there is one at each rank
  above 0, lower it. The order of the first three is the point: an echo of a
  stale reset does throw the task back, but only until that reset ends.
* **KeysProofs** (for every limit, every number of packets and reports, and
  every keyboard that `KeysAssumption` allows). `InStep` ties the device's
  toggle of the interrupt endpoint to the host's saved one: they agree, or the
  acknowledgement of the last report was lost (`Behind`), or a report is in the
  FIFO and the device already went on (`Ahead`). `Answering` does the same for
  the control endpoint and the number of packets read. `MovesUp` carries the
  keyboard's order through the ports. Theorems: `TransferTypes`,
  `ReportsInOrder`, `RequestsAreIntact`, `KeysDoNotGlitch`, and the refinement
  `KeysImplementTransfer`, by which the promises of `Transfer` hold in `Keys`
  (`PortsShowTheLastReport`, which adds that the ports then show the last
  report as a whole). Behind `Returns` stand `EveryResultIsHandled` (with the
  interrupt flag set, one of the reactions of the code applies) and
  `RetriesAreBounded` (the packets left, and then the tries left of the packet,
  fall with every step of a transfer, and the limits bound both).
* **JtagUartProofs** (for every length of buffer, FIFO and call, without the
  bounds on bytes mattering). `Holds` describes a ring from its read index: the
  byte at distance k is the one that comes k bytes later, whatever the indices
  wrapped to. `TxOK` and `RxOK` add that a copy in progress keeps room, or
  bytes, for itself while only the other side's index moves. Theorems:
  `TypeCorrect`, `ReceiverIsArmed`, and the refinements `ConsoleWritesInOrder`
  and `ConsoleReadsInOrder` of `Pipe`. `NothingIsLost`: no byte is overwritten
  in a ring or dropped at a full FIFO. `WInv` carries what a waiting call saw
  of the other side's index up to the moment it waits, and what interrupts it
  may rely on: `TransmitterIsArmed` (a byte in the transmit ring has its
  interrupt on, or a writer about to turn it on) and `WaitsAreNotInVain`.
* **FilesProofs** (for every size of the table, every set of devices). `Kept`:
  the standard streams always have a device, so the pool never hands them out.
  `Marked`: the high water mark is at or above every descriptor that can hold
  a lock. Theorems: `TypeCorrect`, `DescriptorsAreNotLost`, `FlagsStayHonest`,
  `StreamsSurvive`, `LocksAreRespected`.
* **RuntimeProofs** (for every set of interrupts and of alarms, every width of
  the count). `Masked` says what each location knows of PIE; `Handled` relates
  the handler table to the mask at each step of a change of either; `Timed`
  ties an alarm's time and rollover flag to the ticks it has still to wait;
  `Deadlines` does so for the settle timer. Theorems: `TypeCorrect`,
  `HandlersAreThere`, `BracketsExclude`, `AlarmsRingOnTime`,
  `ConsoleIsWatched`, `SettleIsNeverShort`. `Watched` adds where the timer's
  interrupt is enabled and where PIE is set, and gives `TicksReachTheAlarms`:
  nothing but a bracket keeps a tick from the alarms on the list, and each tick
  brings each of them one closer.
* **SpiProofs** (for every set of lengths, 0 included unless it is excluded
  below). The driver has one credit, so that at most one byte is on its way:
  waiting to be sent, being exchanged, or answered and not yet read
  (`OneInFlight`). From the driver's counters and the place of that byte follow
  the bytes the chip has (`FrameOK`) and the answers kept (`AnswersOK`).
  Theorems: `FramesAreWhole`, `ReadsAreAnswers`; and where no call is empty,
  `CallsGoOn` (the polling loop always finds something to do) and
  `CallsAreBounded` (at most 11 n + 23 steps for n bytes). With an empty call
  the last two fail: that is the finding about `altera_avalon_spi.c:101`.

The constants' assumptions are evaluated by TLC for the instances of the runs,
among them the real numbers of `ball.sv`.

**Model-checked only.** The liveness properties themselves (`DyingEndsMatch`,
`Landing`, `Settles`, `Returns`, `Drains`, `WriteReturns`, `ReadReturns`,
`AlarmsRing`, `CallReturns`): fairness and ENABLED are outside what the prover
supports. What they rest on is proved for every value of the constants, as far
as it can be said of single steps: measures that fall (`FallsEnd`,
`SettlingIsMonotone`, `RetriesAreBounded`, `CallsAreBounded`,
`TicksReachTheAlarms`), the absence of a dead end (`EveryResultIsHandled`,
`CallsGoOn`), interrupts that are on while somebody depends on them
(`TransmitterIsArmed`, `ReceiverIsArmed`, `WaitsAreNotInVain`) and
`DeathsShortenTheMatch`. TLC adds that the fairness stated is enough to take
those steps. `Landing` is checked for `ball.sv` only; `ball2.sv` has other
platforms of the same height, to which `FallsEnd` applies as well.

## 6. Not modelled, and why

* `Color_Mapper.sv`, the sprite modules and `HexDriver.sv`: combinational
  selection and tables; the ROMs, palettes and the SoC are generated.
* The counters and the blanking of `VGA_controller.sv`: the game sees only the
  pixel clock and the vertical sync, which `Game` has as a countdown.
* The LEDs of `control.sv:148-197`: a decoding of `lives`.
* `hitlogic.sv`: not instantiated.
* Printing, error codes, LEDs and the content of descriptors in the C program.
* `MAX3421E_reset`: two writes and a loop without another exit than the chip's
  flag (`MAX3421E.c:116`, where a comment promises a timeout after 256
  attempts); a model could only restate it.
* A packet still in flight when the 5 s limit passes: the reaction of the chip
  to a second write of `rHXFR` is not determined by this repository.
* The rest of the board support package: headers of register addresses and of
  types (`system.h`, `*_regs.h`), which hold no behaviour; `crt0.S` and the
  emulation of multiply and divide; stubs that do nothing in this build (caches,
  DMA, flash, `alt_log_printf.c`, `alt_gmon.c`); time of day, environment,
  lseek, fstat and isatty, which nothing here calls with an effect. Together
  these are more than half of the repository's C lines. The small variant of
  the UART driver and the branches for an operating system are not compiled.

## 7. Plan

What a next step could add, in order: a measure for `write()` and `read()` of
the console against a host that keeps reading; the counters of
`VGA_controller.sv` as a refinement of the two clocks of `Game`; `Landing` with the platforms of `ball2.sv`; `UsbHost`
and `Transfer` joined, with the outcomes of transfers no longer chosen but
computed.
