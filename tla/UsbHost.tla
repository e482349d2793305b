------------------------------ MODULE UsbHost ------------------------------
(***************************************************************************)
(* The USB host software: main() of main.c, the interrupt side of          *)
(* MAX3421E.c, the task state machine of transfer.c and the HID probes of  *)
(* HID.c, on the MAX3421E chip and whatever is plugged into it.            *)
(*                                                                         *)
(* The program is one loop without preemption: MAX3421E_Task, USB_Task and *)
(* the body of main, each turn.  It talks to the chip over SPI, and the    *)
(* chip and the bus move on between two accesses: an action ends wherever  *)
(* such a move can change what follows.  A transfer is a nondeterministic  *)
(* outcome, which can be a success only if the attached device answers to  *)
(* the address and at the speed the host uses.                             *)
(*                                                                         *)
(* The chip is modelled from how the code uses it: HIRQ keeps a flag until *)
(* a 1 is written to it, the INT pin follows CONDETIRQ alone (HIEN), and   *)
(* HRSL reports the device on the bus (SAMPLEBUS is on).  Printing, LEDs,  *)
(* the error codes and the contents of descriptors are left out.           *)
(***************************************************************************)
EXTENDS Integers

CONSTANTS
  NumDevices,  \* USB_NUMDEVICES: addresses are 1 .. NumDevices - 1
  Gadgets,     \* devices that may be plugged in
  Faults       \* {SE1} if the bus may show the illegal state, else {}

\* What the bus shows without a device.
SE0 == [kind |-> "SE0", low |-> FALSE]
SE1 == [kind |-> "SE1", low |-> FALSE]

ASSUME UsbAssumption ==
  /\ NumDevices \in Nat /\ NumDevices > 1
  /\ Gadgets \subseteq [kind : {"mouse", "keyboard", "other"}, low : BOOLEAN]
  /\ Faults \subseteq {SE1}

\* Values of usb_task_state (one byte); the high nibble is the state.
INITIALIZE == 1
WAIT_FOR_DEVICE == 3
ILLEGAL == 4
ATTACHED == 16
SETTLE == 17
RESET_DEVICE == 18
WAIT_RESET_COMPLETE == 19
WAIT_SOF == 20
GET_DESCRIPTOR_SIZE == 21
ADDRESSING == 32
CONFIGURING == 48
RUNNING == 64
ERROR == 255

Detached(t) == t < 16   \* (t & USB_STATE_MASK) == USB_STATE_DETACHED

Addresses == 1 .. NumDevices - 1
Nobody == -1            \* address of a device that was not reset yet
Unknown == 255          \* device before a report, 0xFF
Flags == {"CONDET", "BUSEVENT", "FRAME"}

VARIABLES
  pc,         \* where main() is
  task,       \* usb_task_state
  devtable,   \* devtable[1 ..]: epinfo and devclass
  tmp_addr,   \* address given to the device being configured
  hid_addr,   \* hid_device.addr
  debugflag,  \* runningdebugflag of main()
  device,     \* device class that main() polls
  settling,   \* usb_delay is still ahead
  sendback,   \* HIRQ_sendback of the handler
  low,        \* LOWSPEED bit of rMODE
  hirq,       \* flags set in rHIRQ
  busreset,   \* BUSRST bit of rHCTL
  bus,        \* what is attached
  daddr,      \* address the attached device answers to
  missed      \* history: the bus changed after the probe, before its flag
              \* was cleared

program == <<pc, task, devtable, tmp_addr, hid_addr, debugflag, device, sendback>>
chip    == <<low, hirq, busreset>>
world   == <<bus, daddr>>
vars    == <<program, settling, chip, world, missed>>

Attached == bus \in Gadgets

-----------------------------------------------------------------------------
(* MAX3421E.c: the bus probe, the initialisation and the interrupt.        *)

\* Plausible bugs: the probe does not know of the bus reset, or takes every
\* connection after it for an echo of the reset.
Probed_Always(t) ==
  CASE Attached  -> ATTACHED
    [] bus = SE1 -> ILLEGAL
    [] OTHER     -> IF Detached(t) THEN WAIT_FOR_DEVICE ELSE INITIALIZE

Probed_Deaf(t) ==
  CASE Attached  -> IF t >= WAIT_RESET_COMPLETE THEN t ELSE ATTACHED
    [] bus = SE1 -> ILLEGAL
    [] OTHER     -> IF Detached(t) THEN WAIT_FOR_DEVICE ELSE INITIALIZE

\* usb_task_state after MAX_busprobe in state t.  A reset of the bus raises a
\* connection interrupt of its own, which is ignored.
Probed(t) ==
  CASE Attached  -> IF t = WAIT_RESET_COMPLETE THEN t ELSE ATTACHED
    [] bus = SE1 -> ILLEGAL
    [] OTHER     -> IF Detached(t) THEN WAIT_FOR_DEVICE ELSE INITIALIZE

\* The chip shows a device of the set speed as J, one of the other as K.
J(l) == Attached /\ bus.low = l
K(l) == Attached /\ bus.low # l

\* Plausible bug: K always means low speed.
Speed_NoToggle(t, l) ==
  CASE Attached /\ t = WAIT_RESET_COMPLETE -> l
    [] J(l) /\ t # WAIT_RESET_COMPLETE     -> l
    [] K(l) /\ t # WAIT_RESET_COMPLETE     -> TRUE
    [] bus = SE0 /\ Detached(t)             -> FALSE
    [] OTHER                               -> l

\* LOWSPEED after MAX_busprobe in state t with LOWSPEED = l: J keeps the speed,
\* K inverts it.
Speed(t, l) ==
  CASE Attached /\ t = WAIT_RESET_COMPLETE -> l
    [] J(l) /\ t # WAIT_RESET_COMPLETE     -> l
    [] K(l) /\ t # WAIT_RESET_COMPLETE     -> ~l
    [] bus = SE0 /\ Detached(t)             -> FALSE
    [] OTHER                               -> l

\* Plausible bug: MAX3421E_init does not probe the bus.
InitProbe_Blind ==
  /\ pc = "init" /\ pc' = "clear"
  /\ low' = FALSE
  /\ hirq' = {} /\ busreset' = FALSE /\ missed' = FALSE
  /\ UNCHANGED <<task, devtable, tmp_addr, hid_addr, debugflag, device,
                 sendback, settling, world>>

\* MAX3421E_init up to MAX_busprobe: the chip reset drops every flag and the
\* bus reset, and the mode register starts at full speed.
InitProbe ==
  /\ pc = "init" /\ pc' = "clear"
  /\ task' = Probed(task) /\ low' = Speed(task, FALSE)
  /\ hirq' = {} /\ busreset' = FALSE /\ missed' = FALSE
  /\ UNCHANGED <<devtable, tmp_addr, hid_addr, debugflag, device, sendback,
                 settling, world>>

\* USB_init.
EmptyTable == [a \in Addresses |-> [epinfo |-> "null", devclass |-> 0]]

\* MAX3421E_init clears the connection flag after the probe; main() goes on
\* with USB_init and the loop.
InitClear ==
  /\ pc = "clear" /\ pc' = "irq"
  /\ hirq' = hirq \ {"CONDET"}
  /\ devtable' = EmptyTable
  /\ UNCHANGED <<task, tmp_addr, hid_addr, debugflag, device, sendback,
                 settling, low, busreset, world, missed>>

\* The INT pin is low: MAX3421E_Task calls MaxIntHandler.
INT == "CONDET" \in hirq

NoInterrupt ==
  /\ pc = "irq" /\ pc' = "usb" /\ ~INT
  /\ UNCHANGED <<task, devtable, tmp_addr, hid_addr, debugflag, device,
                 sendback, settling, chip, world, missed>>

\* MaxIntHandler reads HIRQ, probes the bus, counts the bus event and keeps
\* the flags it saw.
Handle ==
  /\ pc = "irq" /\ pc' = "ack" /\ INT
  /\ LET t == IF "CONDET" \in hirq THEN Probed(task) ELSE task
     IN task' = IF "BUSEVENT" \in hirq THEN (t + 1) % 256 ELSE t
  /\ low' = IF "CONDET" \in hirq THEN Speed(task, low) ELSE low
  /\ sendback' = hirq
  /\ missed' = FALSE
  /\ UNCHANGED <<devtable, tmp_addr, hid_addr, debugflag, device, settling,
                 hirq, busreset, world>>

\* ... and clears them at its end, with whatever was raised meanwhile.
Acknowledge ==
  /\ pc = "ack" /\ pc' = "usb"
  /\ hirq' = hirq \ sendback /\ sendback' = {}
  /\ UNCHANGED <<task, devtable, tmp_addr, hid_addr, debugflag, device,
                 settling, low, busreset, world, missed>>

-----------------------------------------------------------------------------
(* transfer.c: USB_Task, one action per state.                             *)

\* The device answers transfers to address a.
Answers(a) == Attached /\ daddr = a /\ bus.low = low /\ ~busreset

\* USB_Task is called in state t.
InTask(t) == pc = "usb" /\ pc' = "app" /\ task = t

CleanUp ==
  /\ InTask(INITIALIZE)
  /\ devtable' = EmptyTable /\ task' = WAIT_FOR_DEVICE
  /\ UNCHANGED <<tmp_addr, hid_addr, debugflag, device, sendback, settling,
                 chip, world, missed>>

StartSettle ==
  /\ InTask(ATTACHED)
  /\ settling' = TRUE /\ task' = SETTLE
  /\ UNCHANGED <<devtable, tmp_addr, hid_addr, debugflag, device, sendback,
                 chip, world, missed>>

EndSettle ==
  /\ InTask(SETTLE) /\ ~settling
  /\ task' = RESET_DEVICE
  /\ UNCHANGED <<devtable, tmp_addr, hid_addr, debugflag, device, sendback,
                 settling, chip, world, missed>>

ResetDevice ==
  /\ InTask(RESET_DEVICE)
  /\ hirq' = hirq \ {"BUSEVENT"} /\ busreset' = TRUE
  /\ daddr' = Nobody
  /\ task' = WAIT_RESET_COMPLETE
  /\ UNCHANGED <<devtable, tmp_addr, hid_addr, debugflag, device, sendback,
                 settling, low, bus, missed>>

ResetComplete ==
  /\ InTask(WAIT_RESET_COMPLETE) /\ ~busreset
  /\ task' = WAIT_SOF
  /\ UNCHANGED <<devtable, tmp_addr, hid_addr, debugflag, device, sendback,
                 settling, chip, world, missed>>

\* The condition of the code is MAXreg_rd( rHIRQ ) | bmFRAMEIRQ, never zero.
FirstSof ==
  /\ InTask(WAIT_SOF)
  /\ task' = GET_DESCRIPTOR_SIZE
  /\ UNCHANGED <<devtable, tmp_addr, hid_addr, debugflag, device, sendback,
                 settling, chip, world, missed>>

GetDescriptor ==
  /\ InTask(GET_DESCRIPTOR_SIZE)
  /\ task' \in {ERROR} \cup (IF Answers(0) THEN {ADDRESSING} ELSE {})
  /\ UNCHANGED <<devtable, tmp_addr, hid_addr, debugflag, device, sendback,
                 settling, chip, world, missed>>

Free == {a \in Addresses : devtable[a].epinfo = "null"}

\* Plausible bug: addresses are given from the top down.
IsFirstFree_Last(a) == a \in Free /\ \A b \in Free : a >= b

\* The address loop stops at entry a.
IsFirstFree(a) == a \in Free /\ \A b \in Free : a <= b

\* The device may take the address although its answer is lost.
SetAddress(a) ==
  /\ InTask(ADDRESSING) /\ IsFirstFree(a)
  /\ devtable' = [devtable EXCEPT ![a].epinfo = "dev0"]
  /\ \/ /\ Answers(0)
        /\ daddr' = a /\ tmp_addr' = a /\ task' = CONFIGURING
     \/ /\ daddr' \in {daddr} \cup (IF Answers(0) THEN {a} ELSE {})
        /\ task' = ERROR /\ UNCHANGED tmp_addr
  /\ UNCHANGED <<hid_addr, debugflag, device, sendback, settling, chip, bus,
                 missed>>

NoAddress ==
  /\ InTask(ADDRESSING) /\ Free = {}
  /\ task' = ERROR
  /\ UNCHANGED <<devtable, tmp_addr, hid_addr, debugflag, device, sendback,
                 settling, chip, world, missed>>

\* A HID probe recognises the device as of class c; setting the configuration
\* or the protocol may still fail, with the record already changed.
Adopt(c) ==
  /\ devtable' = [devtable EXCEPT ![tmp_addr] = [epinfo |-> "hid", devclass |-> c]]
  /\ hid_addr' = tmp_addr
  /\ task' \in {RUNNING, ERROR}

HIDMProbe == bus.kind = "mouse" /\ Adopt(2)
HIDKProbe == bus.kind = "keyboard" /\ Adopt(1)

Recognised ==
  /\ InTask(CONFIGURING) /\ Answers(tmp_addr)
  /\ HIDMProbe \/ HIDKProbe
  /\ UNCHANGED <<tmp_addr, debugflag, device, sendback, settling, chip, world,
                 missed>>

\* No driver takes the device.
NoDriver ==
  /\ InTask(CONFIGURING)
  /\ task' = ERROR
  /\ UNCHANGED <<devtable, tmp_addr, hid_addr, debugflag, device, sendback,
                 settling, chip, world, missed>>

\* USB_Task changes nothing: a timer or a reset is not over, the device runs
\* or has failed, nothing is attached, or the value has no case.
Stay ==
  /\ pc = "usb" /\ pc' = "app"
  /\ task \notin {INITIALIZE, ATTACHED, RESET_DEVICE, WAIT_SOF,
                  GET_DESCRIPTOR_SIZE, ADDRESSING, CONFIGURING}
  /\ task = SETTLE => settling
  /\ task = WAIT_RESET_COMPLETE => busreset
  /\ UNCHANGED <<task, devtable, tmp_addr, hid_addr, debugflag, device,
                 sendback, settling, chip, world, missed>>

-----------------------------------------------------------------------------
(* main.c: the body of the loop.                                           *)

InUse == Addresses \ Free

\* Plausible bug: the loop stops at the first entry in use.
Report_First ==
  IF InUse = {} THEN Unknown
  ELSE devtable[CHOOSE a \in InUse : \A b \in InUse : a <= b].devclass

\* The class GetDriverandReport returns: that of the last entry in use.
Report ==
  IF InUse = {} THEN Unknown
  ELSE devtable[CHOOSE a \in InUse : \A b \in InUse : a >= b].devclass

FirstRun ==
  /\ pc = "app" /\ pc' = "irq"
  /\ task = RUNNING /\ ~debugflag
  /\ debugflag' = TRUE /\ device' = Report
  /\ UNCHANGED <<task, devtable, tmp_addr, hid_addr, sendback, settling, chip,
                 world, missed>>

\* kbdPoll or mousePoll at hid_device.addr.  Also the turns that do nothing.
Poll ==
  /\ pc = "app" /\ pc' = "irq"
  /\ \/ task = RUNNING /\ debugflag
     \/ task = ERROR
     \/ task \notin {RUNNING, ERROR} /\ ~debugflag
  /\ UNCHANGED <<task, devtable, tmp_addr, hid_addr, debugflag, device,
                 sendback, settling, chip, world, missed>>

\* Not running any more: the chip and the tables are set up again.
Restart ==
  /\ pc = "app" /\ pc' = "init"
  /\ task \notin {RUNNING, ERROR} /\ debugflag
  /\ debugflag' = FALSE
  /\ UNCHANGED <<task, devtable, tmp_addr, hid_addr, device, sendback,
                 settling, chip, world, missed>>

-----------------------------------------------------------------------------
(* The chip, the timer and the player at the plug.                         *)

Rewire(b) ==
  /\ bus' = b /\ daddr' = Nobody
  /\ hirq' = hirq \cup {"CONDET"}
  /\ missed' = \/ missed
               \/ pc = "clear"
               \/ pc = "ack" /\ "CONDET" \in sendback
  /\ UNCHANGED <<program, settling, low, busreset>>

Plug == bus = SE0 /\ \E b \in Gadgets \cup Faults : Rewire(b)
Unplug == bus # SE0 /\ Rewire(SE0)

\* The end of a bus reset is a bus event, and the device answers to address 0.
ResetDone ==
  /\ busreset /\ busreset' = FALSE
  /\ hirq' = hirq \cup {"BUSEVENT"}
  /\ daddr' = IF Attached THEN 0 ELSE Nobody
  /\ UNCHANGED <<program, settling, low, bus, missed>>

\* "bus reset causes connection detect interrupt".
ResetEcho ==
  /\ busreset /\ hirq' = hirq \cup {"CONDET"}
  /\ UNCHANGED <<program, settling, low, busreset, world, missed>>

Sof ==
  /\ ~busreset /\ hirq' = hirq \cup {"FRAME"}
  /\ UNCHANGED <<program, settling, low, busreset, world, missed>>

SettleElapses ==
  /\ settling /\ settling' = FALSE
  /\ UNCHANGED <<program, chip, world, missed>>

-----------------------------------------------------------------------------
Init ==
  /\ pc = "init" /\ task = INITIALIZE
  /\ devtable = EmptyTable /\ tmp_addr = 0 /\ hid_addr = 0
  /\ debugflag = FALSE /\ device = Unknown
  /\ settling = FALSE /\ sendback = {}
  /\ low = FALSE /\ hirq = {} /\ busreset = FALSE
  /\ bus \in {SE0} \cup Gadgets /\ daddr = Nobody
  /\ missed = FALSE

Interrupts == NoInterrupt \/ Handle \/ Acknowledge
USB_Task ==
  \/ CleanUp \/ StartSettle \/ EndSettle \/ ResetDevice \/ ResetComplete
  \/ FirstSof \/ GetDescriptor \/ (\E a \in Addresses : SetAddress(a))
  \/ NoAddress \/ Recognised \/ NoDriver \/ Stay
Main == InitProbe \/ InitClear \/ FirstRun \/ Poll \/ Restart
Program == Interrupts \/ USB_Task \/ Main

Environment == Plug \/ Unplug \/ ResetDone \/ ResetEcho \/ Sof \/ SettleElapses

Next == Program \/ Environment
Spec == Init /\ [][Next]_vars

\* The loop never stops, the chip ends a reset it began, the timer runs.
FairSpec ==
  /\ Spec
  /\ WF_vars(Program) /\ WF_vars(ResetDone) /\ WF_vars(SettleElapses)
-----------------------------------------------------------------------------
(* Properties.                                                             *)

States == {INITIALIZE, 2, WAIT_FOR_DEVICE, ILLEGAL, 5, ATTACHED, SETTLE,
           RESET_DEVICE, WAIT_RESET_COMPLETE, WAIT_SOF, GET_DESCRIPTOR_SIZE,
           ADDRESSING, CONFIGURING, RUNNING, ERROR}

\* The handler's usb_task_state++ can take the task from INITIALIZE to 2 and
\* from ILLEGAL to 5, and to no other value that has no name.
UsbTypeOK ==
  /\ pc \in {"init", "clear", "irq", "ack", "usb", "app"}
  /\ task \in States
  /\ devtable \in [Addresses -> [epinfo : {"null", "dev0", "hid"}, devclass : 0 .. 2]]
  /\ tmp_addr \in 0 .. NumDevices - 1 /\ hid_addr \in 0 .. NumDevices - 1
  /\ debugflag \in BOOLEAN /\ device \in (0 .. 2) \cup {Unknown}
  /\ settling \in BOOLEAN /\ low \in BOOLEAN /\ busreset \in BOOLEAN
  /\ sendback \subseteq Flags /\ hirq \subseteq Flags
  /\ bus \in {SE0} \cup Gadgets \cup Faults
  /\ daddr \in Nobody .. NumDevices - 1
  /\ missed \in BOOLEAN

\* Polling is safe: in a turn that polls, the record at hid_device.addr is the
\* HID endpoint record, and the poll routine chosen from the report is the one
\* of the class the probe wrote there (kbdPoll for a keyboard's report).
PollSafe ==
  pc = "app" /\ task = RUNNING =>
    /\ hid_addr \in Addresses /\ devtable[hid_addr].epinfo = "hid"
    /\ debugflag => device = devtable[hid_addr].devclass

\* RUNNING is never a state about a device that is gone: unless a change of
\* the bus is still flagged, the device attached is the one that was
\* configured, at the address that is polled, at its speed.  This holds even
\* if the host lost the flag of an earlier change.
RunningTalks ==
  task = RUNNING /\ ~INT =>
    Attached /\ daddr = hid_addr /\ bus.low = low

\* When the host starts to reset an attached device, LOWSPEED is the device's
\* own speed, whatever sequence of devices was plugged in before.
SpeedMatches ==
  task \in {ATTACHED, SETTLE, RESET_DEVICE} /\ Attached /\ ~INT /\ ~missed =>
    bus.low = low

\* A device that is attached is noticed: once no change of the bus is flagged,
\* the host is not in a detached state, except when the change fell between
\* a probe and the clearing of its flag.
Detected ==
  Detached(task) /\ Attached /\ ~INT /\ pc \notin {"init", "clear"} => missed

\* Entries of the device table are taken from 1 on without a gap, so that the
\* hard-wired address 1 of GetDriverandReport has an endpoint record when the
\* device runs, even if it was given a higher address.
TableDense ==
  /\ \A a \in InUse : (1 .. a) \subseteq InUse
  /\ task = RUNNING => 1 \in InUse

\* An echo of the bus reset that comes after this turn's look at the INT pin.
LateEcho == ResetEcho /\ pc = "usb"

\* Once the plug is left alone, the task reaches a state it stays in: it waits
\* for a device, runs one or has given one up.  An echo of the reset may come
\* with every reset, except between the interrupt check and USB_Task.
Settled == task \in {2, WAIT_FOR_DEVICE, ILLEGAL, 5, RUNNING, ERROR}
Settles == <>[][~Plug /\ ~Unplug /\ ~LateEcho]_vars => <>[]Settled

-----------------------------------------------------------------------------
(* What comments of the code say, and the code does not do.                *)

\* "when first SOF received we can continue": WAIT_SOF is left for the
\* descriptor only after a frame was flagged.
WaitsForSof == [][FirstSof => "FRAME" \in hirq]_vars

\* "clear device data structures": after a detach was noticed and USB_Task has
\* run, no entry of the device table is in use.
DetachClears ==
  pc = "app" /\ task \in {INITIALIZE, 2, WAIT_FOR_DEVICE} => devtable = EmptyTable
=============================================================================
