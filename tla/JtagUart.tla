------------------------------ MODULE JtagUart ------------------------------
(***************************************************************************)
(* The console: the interrupt-driven JTAG UART driver of the BSP           *)
(* (altera_avalon_jtag_uart_init.c, _read.c, _write.c and _ioctl.c).  The  *)
(* program's single thread is inside at most one call of write, read or    *)
(* close; the interrupt routine, the once-a-second alarm and the host run  *)
(* between any two of its steps.  A stretch that the code brackets with    *)
(* alt_irq_disable_all and alt_irq_enable_all is one step.  The device     *)
(* raises its interrupts by the levels of its two FIFOs; the host sets the *)
(* activity bit whenever it polls.  The BSP is compiled with -O0, so every *)
(* test of a wait loop reads the variables again.                          *)
(***************************************************************************)
EXTENDS Naturals, Sequences

CONSTANTS
    BufLen,      \* ALTERA_AVALON_JTAG_UART_BUF_LEN
    FifoLen,     \* depth of each FIFO of the device
    Threshold,   \* WI is raised when at most so many bytes are left to send
    Default,     \* ALTERA_AVALON_JTAG_UART_DEFAULT_TIMEOUT
    Never,       \* INT_MAX, the timeout that means "no alarm"
    MaxCall,     \* longest buffer of a call
    Timeouts,    \* arguments of TIOCSTIMEOUT
    MaxWritten, MaxSent  \* bounds on the bytes of each direction, for TLC

ASSUME UartAssumption ==
    /\ BufLen \in Nat \ {0, 1}
    /\ FifoLen \in Nat \ {0}
    /\ Threshold \in 0..(FifoLen - 1)
    /\ Never \in Nat /\ Default \in 2..(Never - 2)
    /\ {MaxCall, MaxWritten, MaxSent} \subseteq Nat /\ Timeouts \subseteq Nat

VARIABLES
    tx_in, tx_out, tx_buf, rx_in, rx_out, rx_buf,
    irq_enable, host_inactive, timeout,
    isr,                            \* where the interrupt routine is
    wi, space,                      \* its copy of WI and WSPACE
    tx_fifo, rx_fifo, control, ac,  \* the device
    pc, todo, done, nonblock,       \* the call of the program
    seen, n, j,                     \* its copy of the other side's index; run, bytes copied
    written, heard, heardLast,      \* bytes put into tx_buf, taken by the host
    sent, got, gotLast              \* bytes sent by the host, given to the program

txRing == <<tx_in, tx_out, tx_buf>>
rxRing == <<rx_in, rx_out, rx_buf>>
state  == <<irq_enable, host_inactive, timeout>>
isrVars == <<isr, wi, space>>
device == <<tx_fifo, rx_fifo, control, ac>>
call   == <<pc, todo, done, nonblock, seen, n, j>>
txCount == <<written, heard, heardLast>>
rxCount == <<sent, got, gotLast>>
vars == <<txRing, rxRing, state, isrVars, device, call, txCount, rxCount>>

Wrap_OffByOne(i) == i % (BufLen + 1)
Wrap(i) == i % BufLen
Least(a, b) == IF a <= b THEN a ELSE b

\* The interrupts the device asserts.
RI == "RE" \in control /\ rx_fifo # <<>>
WI == "WE" \in control /\ Len(tx_fifo) <= Threshold

HostGone_Unheeded == FALSE
\* Too many seconds without a poll; ioctl(TIOCGCONNECTED) reports the contrary.
HostGone == host_inactive >= timeout

\* Mutants: the mask replaces the set; both interrupts go off.
Enable_Overwrites(mask) == irq_enable' = {mask} /\ control' = irq_enable'
Disable_Both(mask) == irq_enable' = {} /\ control' = irq_enable'

\* irq_enable |= / &= ~ mask, and the write of the control register.
Enable(mask) == irq_enable' = irq_enable \cup {mask} /\ control' = irq_enable'
Disable(mask) == irq_enable' = irq_enable \ {mask} /\ control' = irq_enable'

Init ==
    /\ tx_in = 0 /\ tx_out = 0 /\ tx_buf = [i \in 0..BufLen-1 |-> 0]
    /\ rx_in = 0 /\ rx_out = 0 /\ rx_buf = [i \in 0..BufLen-1 |-> 0]
    /\ irq_enable = {"RE"} /\ host_inactive = 0 /\ timeout = Default
    /\ isr = "off" /\ wi = FALSE /\ space = 0
    /\ tx_fifo = <<>> /\ rx_fifo = <<>> /\ control = {"RE"} /\ ac = FALSE
    /\ pc = "idle" /\ todo = 0 /\ done = 0 /\ nonblock = FALSE
    /\ seen = 0 /\ n = 0 /\ j = 0
    /\ written = 0 /\ heard = 0 /\ heardLast = 0
    /\ sent = 0 /\ got = 0 /\ gotLast = 0

-----------------------------------------------------------------------------
(* The interrupt routine.  The program does not step while it runs.        *)

\* One turn of the outer loop; when neither bit is set the routine returns.
Service ==
    /\ isr = "off" /\ (RI \/ WI)
    /\ isr' = IF RI THEN "rx" ELSE "tx"
    /\ wi' = (RI /\ WI)
    /\ space' = FifoLen - Len(tx_fifo)
    /\ UNCHANGED <<txRing, rxRing, state, device, call, txCount, rxCount>>

\* A character is moved from the FIFO to the buffer.
RxByte ==
    /\ isr = "rx" /\ Wrap(rx_in + 1) # rx_out /\ rx_fifo # <<>>
    /\ rx_buf' = [rx_buf EXCEPT ![rx_in] = Head(rx_fifo)]
    /\ rx_in' = Wrap(rx_in + 1)
    /\ rx_fifo' = Tail(rx_fifo)
    /\ UNCHANGED <<txRing, rx_out, state, isrVars, tx_fifo, control, ac, call, txCount, rxCount>>

\* The last read found characters left over: the buffer is full.  One that comes
\* after that read counts as well: the routine would look again and find it.
LeftOver == rx_fifo # <<>>

\* The inner loop ends; with characters left over the receive interrupt goes off.
RxDone ==
    /\ isr = "rx" /\ (Wrap(rx_in + 1) = rx_out \/ rx_fifo = <<>>)
    /\ IF LeftOver THEN Disable("RE") ELSE UNCHANGED <<irq_enable, control>>
    /\ isr' = IF wi THEN "tx" ELSE "off"
    /\ wi' = FALSE
    /\ space' = IF wi THEN space ELSE 0
    /\ UNCHANGED <<txRing, rxRing, host_inactive, timeout,
                   tx_fifo, rx_fifo, ac, call, txCount, rxCount>>

TxByte ==
    /\ isr = "tx" /\ space > 0 /\ tx_out # tx_in
    /\ tx_fifo' = Append(tx_fifo, tx_buf[tx_out])
    /\ tx_out' = Wrap(tx_out + 1)
    /\ space' = space - 1
    /\ UNCHANGED <<tx_in, tx_buf, rxRing, state, isr, wi, rx_fifo, control, ac, call, txCount, rxCount>>

TxDone ==
    /\ isr = "tx" /\ (space = 0 \/ tx_out = tx_in)
    /\ IF space > 0 THEN Disable("WE") ELSE UNCHANGED <<irq_enable, control>>
    /\ isr' = "off" /\ space' = 0
    /\ UNCHANGED <<txRing, rxRing, host_inactive, timeout, wi,
                   tx_fifo, rx_fifo, ac, call, txCount, rxCount>>

\* altera_avalon_jtag_uart_timeout: once a second, from the tick interrupt.
Alarm ==
    /\ isr = "off"
    /\ ac' = FALSE
    /\ IF ac THEN control' = irq_enable /\ host_inactive' = 0
             ELSE /\ host_inactive' = IF host_inactive < Never - 2 THEN host_inactive + 1 ELSE host_inactive
                  /\ UNCHANGED control
    /\ UNCHANGED <<txRing, rxRing, irq_enable, timeout, isrVars, tx_fifo, rx_fifo, call, txCount, rxCount>>

-----------------------------------------------------------------------------
(* The program.                                                            *)

\* A step of the call, taken while no interrupt is being served.
CallStep(from) ==
    /\ isr = "off" /\ pc = from
    /\ UNCHANGED <<host_inactive, timeout, isrVars, tx_fifo, rx_fifo, ac, sent, heard, heardLast>>

locals == <<todo, done, nonblock, seen, n, j>>

Goto(to) == pc' = to /\ UNCHANGED locals

\* The end of a call; the locals die.
Return == /\ pc' = "idle"
          /\ todo' = 0 /\ done' = 0 /\ nonblock' = FALSE /\ seen' = 0 /\ n' = 0 /\ j' = 0

Start(to) ==
    /\ isr = "off" /\ pc = "idle" /\ pc' = to
    /\ todo' \in 1..MaxCall /\ nonblock' \in BOOLEAN
    /\ UNCHANGED <<done, seen, n, j, txRing, rxRing, state, isrVars, device, txCount, rxCount>>

StartWrite == Start("wlook") /\ written + todo' <= MaxWritten
StartRead  == Start("rlook")
StartClose == Start("close") /\ todo' = 1

\* Mutant: the gap that tells full from empty is not kept when out is 0.
Room_NoGap(out) == IF tx_in < out THEN out - 1 - tx_in ELSE BufLen - tx_in

\* The contiguous free run of tx_buf, given the index of the interrupt routine.
Room(out) ==
    IF tx_in < out THEN out - 1 - tx_in
    ELSE IF out > 0 THEN BufLen - tx_in
    ELSE BufLen - 1 - tx_in

WLook ==
    /\ CallStep("wlook")
    /\ n' = Least(Room(tx_out), todo)
    /\ seen' = tx_out
    /\ pc' = IF n' = 0 THEN "wkick" ELSE "wcopy"
    /\ UNCHANGED <<txRing, rxRing, irq_enable, control, todo, done, nonblock, j, written, got, gotLast>>

\* memcpy, byte by byte.
WCopy ==
    /\ CallStep("wcopy")
    /\ tx_buf' = [tx_buf EXCEPT ![tx_in + j] = written + j + 1]
    /\ j' = j + 1
    /\ pc' = IF j + 1 = n THEN "wpublish" ELSE "wcopy"
    /\ UNCHANGED <<tx_in, tx_out, rxRing, irq_enable, control, todo, done, nonblock, seen, n,
                   written, got, gotLast>>

\* The run is handed over: the count moves and the copy starts again.
Handed == done' = done + n /\ todo' = todo - n /\ n' = 0 /\ j' = 0

WPublish ==
    /\ CallStep("wpublish")
    /\ tx_in' = Wrap(tx_in + n)
    /\ written' = written + n
    /\ Handed
    /\ pc' = "wlook"
    /\ UNCHANGED <<tx_out, tx_buf, rxRing, irq_enable, control, nonblock, seen, got, gotLast>>

\* Kick the interrupt routine, then return, or wait for room.
WKick ==
    /\ CallStep("wkick")
    /\ Enable("WE")
    /\ IF todo > 0 /\ ~nonblock THEN Goto("wspin") ELSE Return
    /\ UNCHANGED <<txRing, rxRing, written, got, gotLast>>

WSpin ==
    /\ CallStep("wspin")
    /\ seen # tx_out \/ HostGone
    /\ Goto("wcheck")
    /\ UNCHANGED <<txRing, rxRing, irq_enable, control, written, got, gotLast>>

WCheck ==
    /\ CallStep("wcheck")
    /\ IF host_inactive > 0 THEN Return ELSE Goto("wlook")
    /\ UNCHANGED <<txRing, rxRing, irq_enable, control, written, got, gotLast>>

\* Mutant: an empty ring reads as a full one.
Ready_EmptyIsFull(in) == IF in > rx_out THEN in - rx_out ELSE BufLen - rx_out

\* The contiguous filled run of rx_buf.
Ready(in) == IF in >= rx_out THEN in - rx_out ELSE BufLen - rx_out

\* Look for data; with none, return what there is, or wait.
RLook ==
    /\ CallStep("rlook")
    /\ IF Ready(rx_in) > 0
       THEN /\ n' = Least(Ready(rx_in), todo)
            /\ pc' = "rcopy" /\ UNCHANGED <<todo, done, nonblock, seen, j>>
       ELSE IF done > 0 THEN Goto("rkick")
       ELSE IF nonblock THEN Return
       ELSE seen' = rx_in /\ pc' = "rspin" /\ UNCHANGED <<todo, done, nonblock, n, j>>
    /\ UNCHANGED <<txRing, rxRing, irq_enable, control, written, got, gotLast>>

RCopy ==
    /\ CallStep("rcopy")
    /\ got' = got + 1 /\ gotLast' = rx_buf[rx_out + j]
    /\ j' = j + 1
    /\ pc' = IF j + 1 = n THEN "rpublish" ELSE "rcopy"
    /\ UNCHANGED <<txRing, rxRing, irq_enable, control, todo, done, nonblock, seen, n, written>>

RPublish ==
    /\ CallStep("rpublish")
    /\ rx_out' = Wrap(rx_out + n)
    /\ Handed
    /\ pc' = IF todo' > 0 THEN "rlook" ELSE "rkick"
    /\ UNCHANGED <<txRing, rx_in, rx_buf, irq_enable, control, nonblock, seen, written, got, gotLast>>

RSpin ==
    /\ CallStep("rspin")
    /\ \/ seen # rx_in /\ Goto("rlook")
       \/ seen = rx_in /\ HostGone /\ Return
    /\ UNCHANGED <<txRing, rxRing, irq_enable, control, written, got, gotLast>>

\* There is space in the buffer now: receive again.
RKick ==
    /\ CallStep("rkick")
    /\ Enable("RE")
    /\ Return
    /\ UNCHANGED <<txRing, rxRing, written, got, gotLast>>

\* close() waits until the buffer is drained or the host has gone.
Close ==
    /\ CallStep("close")
    /\ tx_out = tx_in \/ HostGone \/ nonblock
    /\ Return
    /\ UNCHANGED <<txRing, rxRing, irq_enable, control, written, got, gotLast>>

\* ioctl(TIOCSTIMEOUT)
SetTimeout ==
    /\ isr = "off" /\ pc = "idle" /\ timeout # Never
    /\ \E t \in Timeouts : timeout' = IF 2 <= t /\ t < Never THEN t ELSE Never - 1
    /\ UNCHANGED <<txRing, rxRing, irq_enable, host_inactive, isrVars, device, call, txCount, rxCount>>

-----------------------------------------------------------------------------
(* The host.                                                               *)

\* A poll is seen by the device and takes a byte if there is one.
HostPoll ==
    /\ ac' = TRUE
    /\ IF tx_fifo = <<>>
       THEN UNCHANGED <<tx_fifo, heard, heardLast>>
       ELSE tx_fifo' = Tail(tx_fifo) /\ heard' = heard + 1 /\ heardLast' = Head(tx_fifo)
    /\ UNCHANGED <<txRing, rxRing, state, isrVars, rx_fifo, control, call, written, rxCount>>

HostSend ==
    /\ Len(rx_fifo) < FifoLen /\ sent < MaxSent
    /\ ac' = TRUE
    /\ rx_fifo' = Append(rx_fifo, sent + 1) /\ sent' = sent + 1
    /\ UNCHANGED <<txRing, rxRing, state, isrVars, tx_fifo, control, call, txCount, got, gotLast>>

-----------------------------------------------------------------------------
Isr  == Service \/ RxByte \/ RxDone \/ TxByte \/ TxDone
Steps == WLook \/ WCopy \/ WPublish \/ WKick \/ WSpin \/ WCheck
         \/ RLook \/ RCopy \/ RPublish \/ RSpin \/ RKick \/ Close
Host == HostPoll \/ HostSend

Next == Isr \/ Alarm \/ Steps \/ StartWrite \/ StartRead \/ StartClose \/ SetTimeout \/ Host

Spec == Init /\ [][Next]_vars

\* Interrupts are taken, the alarm goes off every second, the program runs.
FairSpec == Spec /\ WF_vars(Isr) /\ WF_vars(Alarm) /\ WF_vars(Steps)

-----------------------------------------------------------------------------
(* Properties.                                                             *)

Slots == 0..(BufLen - 1)

\* The bytes in use between two indices of a ring.
Used(in, out) == IF in >= out THEN in - out ELSE in + BufLen - out

WritePc == {"wlook", "wcopy", "wpublish", "wkick", "wspin", "wcheck", "close"}
ReadPc  == {"rlook", "rcopy", "rpublish", "rspin", "rkick"}

DriverTypes ==
    /\ tx_in \in Slots /\ tx_out \in Slots /\ tx_buf \in [Slots -> Nat]
    /\ rx_in \in Slots /\ rx_out \in Slots /\ rx_buf \in [Slots -> Nat]
    /\ irq_enable \subseteq {"RE", "WE"}
    /\ host_inactive \in 0..(Never - 2) /\ timeout \in 2..Never

DeviceTypes ==
    /\ isr \in {"off", "rx", "tx"} /\ wi \in BOOLEAN /\ space \in 0..FifoLen
    /\ tx_fifo \in Seq(Nat) /\ Len(tx_fifo) <= FifoLen
    /\ rx_fifo \in Seq(Nat) /\ Len(rx_fifo) <= FifoLen
    /\ control \subseteq {"RE", "WE"} /\ ac \in BOOLEAN

CallTypes ==
    /\ pc \in {"idle"} \cup WritePc \cup ReadPc
    /\ todo \in 0..MaxCall /\ done \in 0..MaxCall /\ nonblock \in BOOLEAN
    /\ seen \in Slots /\ n \in Slots /\ j \in Slots
    /\ written \in Nat /\ heard \in Nat /\ heardLast \in Nat
    /\ sent \in Nat /\ got \in Nat /\ gotLast \in Nat

\* The type invariant: the indices stay inside their rings, the runs inside
\* their buffers, and the FIFOs never overflow.
UartTypeOK == DriverTypes /\ DeviceTypes /\ CallTypes

\* Every byte the program puts into the buffer reaches the host once and in
\* order, whatever the interrupt routine does between the steps of write().
TxPipe == INSTANCE Pipe WITH Capacity <- BufLen - 1 + FifoLen,
                             accepted <- written, delivered <- heard, last <- heardLast
TxInOrder == TxPipe!Spec

\* Every byte the host sends is read once and in order; when the buffer is
\* full it waits in the FIFO.
RxPipe == INSTANCE Pipe WITH Capacity <- BufLen - 1 + FifoLen,
                             accepted <- sent, delivered <- got, last <- gotLast
RxInOrder == RxPipe!Spec

\* No lost wake-up from the host: the receive interrupt is off only while the
\* buffer is full, or while read() has made room and is on its way to turn it on.
RxArmed ==
    "RE" \notin control => \/ Used(rx_in, rx_out) = BufLen - 1
                           \/ done > 0 /\ pc \in {"rlook", "rcopy", "rpublish", "rkick"}

\* As long as the host keeps polling, every byte written gets to it.
Drains == []<>ac => \A k \in 1..MaxWritten : (written >= k) ~> (heard >= k)

\* write() and close() return, host or no host, if the timeout can be reached.
WriteReturns == (pc \in WritePc /\ timeout < Never - 1) ~> (pc = "idle")

\* read() returns when the host has gone for good.
ReadReturns == <>[](~ac /\ timeout < Never - 1) => []<>(pc = "idle")

=============================================================================
