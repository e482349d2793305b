------------------------------ MODULE Runtime ------------------------------
(***************************************************************************)
(* What the program runs on: the interrupt dispatch of the HAL, its tick   *)
(* and its alarms, and the boot sequence that brings them up               *)
(* (alt_irq_handler.c, alt_iic_isr_register.c, alt_tick.c,                 *)
(* alt_alarm_start.c, altera_avalon_timer_sc.c, alt_sys_init.c), together  *)
(* with the settle timer of the USB host, which reads the same tick count. *)
(*                                                                         *)
(* The program is one thread.  An interrupt is taken between any two of    *)
(* its steps while PIE is set, so each call that brackets its work with    *)
(* alt_irq_disable_all and alt_irq_enable_all is several steps here, and   *)
(* what the brackets are for can be checked.  The order of the alarm list  *)
(* decides nothing but the order of the callbacks of one tick: it is a set. *)
(***************************************************************************)
EXTENDS Naturals

CONSTANTS
    Ids,         \* interrupt numbers; the lowest has priority
    Timer,       \* TIMER_0_IRQ
    Alarms,      \* alarm structures of the program and its drivers
    Console,     \* the one the JTAG UART driver starts
    Word,        \* values of an alt_u32: 2^32
    Second,      \* alt_ticks_per_second(), the console's interval
    Intervals,   \* the other intervals the program asks for
    Rate, Delay  \* those of the settle timer

ASSUME RuntimeAssumption ==
    /\ Ids \subseteq Nat /\ Timer \in Ids /\ Console \in Alarms
    /\ Word \in Nat /\ Second \in 1..(Word - 2) /\ Intervals \subseteq 1..(Word - 2)

Devices == Ids \ {Timer}

VARIABLES
    pie, ienable, line,    \* PIE, the IENABLE register, the asserted lines
    alt_irq_active,        \* the software copy of IENABLE
    handler,               \* alt_irq[id].handler is not NULL
    isr, current, again,   \* interrupt level, the id it serves, a second raise
    ticking,               \* _alt_tick_rate # 0: the system clock runs
    nticks,                \* _alt_nticks
    list, time, rollover,  \* alt_alarm_list and the fields of the alarms
    due,                   \* history: ticks until each alarm should ring; 0 when overdue
    pc, back,              \* where the program is; where its call returns to
    saved,                 \* the contexts of its brackets, outer and inner
    id, set, alarm,        \* the arguments of its call
    usb_delay, waiting, waited

cpu     == <<pie, ienable, line>>
table   == <<alt_irq_active, handler>>
level   == <<isr, current, again>>
clock   == <<ticking, nticks>>
alarms  == <<list, time, rollover, due>>
program == <<pc, back, saved, id, set, alarm>>
settle  == <<usb_delay, waiting, waited>>
vars == <<cpu, table, level, clock, alarms, program, settle>>

Settle == INSTANCE SettleTimer

ASSUME SettleAssumption == Settle!TimerConstants

Pending == ienable \cap line

Init ==
    /\ pie = FALSE /\ ienable \in SUBSET Ids /\ line \in SUBSET Ids
    /\ alt_irq_active = {} /\ handler = [i \in Ids |-> FALSE]
    /\ isr = "off" /\ current = Timer /\ again = FALSE
    /\ ticking = FALSE /\ list = {}
    /\ time = [a \in Alarms |-> 0] /\ rollover = [a \in Alarms |-> FALSE]
    /\ due = [a \in Alarms |-> 0]
    /\ pc = "irq_init" /\ back = "main" /\ saved = [d \in {1, 2} |-> FALSE]
    /\ id = Timer /\ set = FALSE /\ alarm = Console
    /\ Settle!Init

-----------------------------------------------------------------------------
(* Interrupt level *)

\* A device asserts its line.  It does so at most once more before the
\* interrupt level is left: a host is slower than the interrupt routine.
Raise(i) ==
    /\ i \notin line /\ line' = line \cup {i}
    /\ IF i = Timer
       THEN ticking /\ UNCHANGED again
       ELSE (isr = "off" \/ ~again) /\ again' = (isr # "off")
    /\ UNCHANGED <<pie, ienable, table, isr, current, clock, alarms, program, settle>>

\* The exception: estatus keeps PIE, which was set, and PIE is cleared.
Enter ==
    /\ isr = "off" /\ pie /\ Pending # {}
    /\ isr' = "enter" /\ pie' = FALSE
    /\ UNCHANGED <<ienable, line, table, current, again, clock, alarms, program, settle>>

\* alt_irq_handler calls the handler of the lowest pending interrupt.
Dispatch(i) ==
    /\ isr \in {"enter", "look"}
    /\ i \in Pending /\ \A k \in Pending : i <= k
    /\ isr' = "serve" /\ current' = i
    /\ UNCHANGED <<cpu, table, again, clock, alarms, program, settle>>

\* None is pending any more: eret restores the status.
Leave ==
    /\ isr = "look" /\ Pending = {}
    /\ isr' = "off" /\ pie' = TRUE /\ again' = FALSE
    /\ UNCHANGED <<ienable, line, table, current, clock, alarms, program, settle>>

\* A device's interrupt routine removes the cause.
ServeDevice ==
    /\ isr = "serve" /\ current # Timer
    /\ isr' = "look" /\ current' = Timer /\ line' = line \ {current}
    /\ UNCHANGED <<pie, ienable, table, again, clock, alarms, program, settle>>

\* alt_avalon_timer_sc_irq clears the interrupt first...
ServeTimer ==
    /\ isr = "serve" /\ current = Timer
    /\ isr' = "tick" /\ line' = line \ {Timer}
    /\ UNCHANGED <<pie, ienable, table, current, again, clock, alarms, program, settle>>

\* The wrap of the tick count clears the flag...
Cleared(a, now) == rollover[a] /\ now # 0
\* ... and the alarm is due at or after its time, unless that lies past the wrap.
Rings(a, now) == ~Cleared(a, now) /\ time[a] <= now

\* The ticks an alarm is started with, or a callback returns; then zero takes
\* the alarm off the list.  The console's is the same each time.
Asks(a) == IF a = Console THEN {Second} ELSE Intervals \cup {0}

\* alarm->time lies before the tick it is computed at: it is past the wrap.
Wraps(t, now) == t < now

\* alt_u32 arithmetic.
Later(t, n) == (t + n) % Word

\* What enable_all leaves in PIE, given the context; mutants: always set, never.
Restored_Always(context) == TRUE
Restored_Never(context) == FALSE
Restored(context) == context

\* ... and calls alt_tick in a bracket of its own.
Tick ==
    /\ isr = "tick" /\ isr' = "look"
    /\ pie' = Restored(pie)
    /\ Settle!Tick
    /\ LET rung == {a \in list : Rings(a, nticks')} IN
       \E ret \in [Alarms -> Intervals \cup {0, Second}] :
          /\ \A a \in Alarms : IF a \in rung THEN ret[a] \in Asks(a) ELSE ret[a] = 0
          /\ list' = list \ {a \in rung : ret[a] = 0}
          /\ time' = [a \in Alarms |-> Later(time[a], ret[a])]
          /\ rollover' = [a \in Alarms |->
                IF a \notin list THEN rollover[a]
                ELSE Cleared(a, nticks') \/ (ret[a] # 0 /\ Wraps(time'[a], nticks'))]
          /\ due' = [a \in Alarms |->
                IF a \in rung THEN ret[a] ELSE IF due[a] = 0 THEN 0 ELSE due[a] - 1]
    /\ UNCHANGED <<ienable, line, table, current, again, ticking, program>>

-----------------------------------------------------------------------------
(* The program *)

Goto(next) == pc' = next
At(here) == isr = "off" /\ pc = here

DisableAll(depth) == saved' = [saved EXCEPT ![depth] = pie] /\ pie' = FALSE
EnableAll(depth)  == pie' = Restored(saved[depth]) /\ saved' = [saved EXCEPT ![depth] = FALSE]

\* alt_irq_init: the controller's driver clears IENABLE; mutant: it does not.
ClearIenable_Skip == UNCHANGED ienable
ClearIenable == ienable' = {}

IrqInit ==
    /\ At("irq_init") /\ Goto("cpu_enable")
    /\ ClearIenable
    /\ UNCHANGED <<pie, line, table, level, clock, alarms, back, saved, id, set, alarm, settle>>

CpuEnable ==
    /\ At("cpu_enable") /\ Goto("timer_init")
    /\ pie' = TRUE
    /\ UNCHANGED <<ienable, line, table, level, clock, alarms, back, saved, id, set, alarm, settle>>

\* alt_ic_isr_register(irq, isr) is called, to return to `next`.
Register(i, on, next) ==
    /\ id' = i /\ set' = on /\ back' = next /\ Goto("register")
    /\ UNCHANGED <<cpu, table, level, alarms, saved, alarm, settle>>

\* alt_sysclk_init sets the rate the alarms ask for; mutant: it is not called.
SysclkInit_Not == UNCHANGED ticking
SysclkInit == ticking' = TRUE

\* alt_sys_init, in its order: the timer, then the UART.
TimerInit ==
    /\ At("timer_init") /\ SysclkInit
    /\ Register(Timer, TRUE, "uart_init") /\ UNCHANGED nticks

UartInit ==
    /\ At("uart_init")
    /\ \E i \in Devices : Register(i, TRUE, "uart_alarm")
    /\ UNCHANGED clock

\* alt_iic_isr_register, and alt_irq_enable or alt_irq_disable inside it.
RegDisable ==
    /\ At("register") /\ Goto("reg_set") /\ DisableAll(1)
    /\ UNCHANGED <<ienable, line, table, level, clock, alarms, back, id, set, alarm, settle>>

RegSet ==
    /\ At("reg_set") /\ Goto("reg_inner")
    /\ handler' = [handler EXCEPT ![id] = set]
    /\ UNCHANGED <<cpu, alt_irq_active, level, clock, alarms, back, saved, id, set, alarm, settle>>

RegInner ==
    /\ At("reg_inner") /\ Goto("reg_mask") /\ DisableAll(2)
    /\ UNCHANGED <<ienable, line, table, level, clock, alarms, back, id, set, alarm, settle>>

RegMask ==
    /\ At("reg_mask") /\ Goto("reg_leave")
    /\ alt_irq_active' = IF set THEN alt_irq_active \cup {id} ELSE alt_irq_active \ {id}
    /\ ienable' = alt_irq_active'
    /\ UNCHANGED <<pie, line, handler, level, clock, alarms, back, saved, id, set, alarm, settle>>

RegLeave ==
    /\ At("reg_leave") /\ Goto("leave") /\ EnableAll(2)
    /\ UNCHANGED <<ienable, line, table, level, clock, alarms, back, id, set, alarm, settle>>

\* The end of an outer bracket, and the return: the arguments are gone.
LeaveBracket ==
    /\ At("leave") /\ Goto(back) /\ EnableAll(1)
    /\ back' = "main" /\ id' = Timer /\ set' = FALSE /\ alarm' = Console
    /\ UNCHANGED <<ienable, line, table, level, clock, alarms, settle>>

\* alt_alarm_start(a, n) and alt_alarm_stop(a) are called.
Call(a, entry) ==
    /\ alarm' = a /\ back' = "main" /\ Goto(entry)
    /\ UNCHANGED <<cpu, table, level, clock, alarms, saved, id, set, settle>>

UartAlarm == At("uart_alarm") /\ Call(Console, "start")

\* Mutant: alt_alarm_start does not disable interrupts.
Bracket_None(depth) == saved' = [saved EXCEPT ![depth] = pie] /\ UNCHANGED pie
Bracket(depth) == DisableAll(depth)

\* Without a system clock alt_alarm_start fails with ENOTSUP.
Start ==
    /\ At("start")
    /\ IF ticking
       THEN Goto("start_time") /\ Bracket(1)
       ELSE Goto(back) /\ UNCHANGED <<pie, saved>>
    /\ UNCHANGED <<ienable, line, table, level, clock, alarms, back, id, set, alarm, settle>>

StartTime ==
    /\ At("start_time") /\ Goto("start_insert")
    /\ \E n \in Asks(alarm) :
          /\ time' = [time EXCEPT ![alarm] = Later(n + 1, nticks)]
          /\ due' = [due EXCEPT ![alarm] = n + 1]
    /\ rollover' = [rollover EXCEPT ![alarm] = Wraps(time'[alarm], nticks)]
    /\ UNCHANGED <<cpu, table, level, clock, list, back, saved, id, set, alarm, settle>>

StartInsert ==
    /\ At("start_insert") /\ Goto("leave")
    /\ list' = list \cup {alarm}
    /\ UNCHANGED <<cpu, table, level, clock, time, rollover, due, back, saved, id, set, alarm, settle>>

StopDisable ==
    /\ At("stop") /\ Goto("stop_remove") /\ DisableAll(1)
    /\ UNCHANGED <<ienable, line, table, level, clock, alarms, back, id, set, alarm, settle>>

StopRemove ==
    /\ At("stop_remove") /\ Goto("leave")
    /\ list' = list \ {alarm} /\ due' = [due EXCEPT ![alarm] = 0]
    /\ UNCHANGED <<cpu, table, level, clock, time, rollover, back, saved, id, set, alarm, settle>>

\* main() calls what the HAL offers: an alarm is not started twice, and the
\* timer's handler stays.
MainStart == At("main") /\ \E a \in Alarms \ list : Call(a, "start")
MainStop  == At("main") /\ \E a \in Alarms \ {Console} : Call(a, "stop")
MainRegister ==
    /\ At("main") /\ \E i \in Devices, on \in BOOLEAN : Register(i, on, "main")
    /\ UNCHANGED clock
MainSettle ==
    /\ At("main") /\ (Settle!Arm \/ Settle!Expire)
    /\ UNCHANGED <<cpu, table, level, ticking, alarms, program>>

Boot == IrqInit \/ CpuEnable \/ TimerInit \/ UartInit \/ UartAlarm
Calls ==
    \/ RegDisable \/ RegSet \/ RegInner \/ RegMask \/ RegLeave \/ LeaveBracket
    \/ Start \/ StartTime \/ StartInsert
    \/ StopDisable \/ StopRemove
Main == MainStart \/ MainStop \/ MainRegister \/ MainSettle
Service == (\E i \in Ids : Dispatch(i)) \/ ServeDevice \/ ServeTimer \/ Tick \/ Leave

Next == (\E i \in Ids : Raise(i)) \/ Enter \/ Service \/ Boot \/ Calls \/ Main

Spec == Init /\ [][Next]_vars

\* The processor runs, the timer period elapses again and again, and the
\* processor looks at the interrupt lines between any two instructions.
FairSpec ==
    /\ Spec
    /\ WF_vars(Service) /\ WF_vars(Boot \/ Calls)
    /\ WF_vars(Raise(Timer)) /\ SF_vars(Enter)

-----------------------------------------------------------------------------

Locations == {"irq_init", "cpu_enable", "timer_init", "uart_init", "uart_alarm", "main",
              "register", "reg_set", "reg_inner", "reg_mask", "reg_leave", "leave",
              "start", "start_time", "start_insert", "stop", "stop_remove"}

\* The type invariant.
RuntimeTypeOK ==
    /\ pie \in BOOLEAN /\ ienable \subseteq Ids /\ line \subseteq Ids
    /\ alt_irq_active \subseteq Ids /\ handler \in [Ids -> BOOLEAN]
    /\ isr \in {"off", "enter", "look", "serve", "tick"} /\ current \in Ids
    /\ again \in BOOLEAN /\ ticking \in BOOLEAN /\ nticks \in 0..(Word - 1)
    /\ list \subseteq Alarms /\ time \in [Alarms -> 0..(Word - 1)]
    /\ rollover \in [Alarms -> BOOLEAN] /\ due \in [Alarms -> 0..(Word - 1)]
    /\ pc \in Locations /\ back \in Locations /\ saved \in [{1, 2} -> BOOLEAN]
    /\ id \in Ids /\ set \in BOOLEAN /\ alarm \in Alarms

\* A started interrupt finds a pending line, and no line that may be dispatched
\* has a NULL handler: neither while the program boots with devices that
\* already interrupt, nor while a handler is replaced.
Dispatchable ==
    /\ isr = "enter" => Pending # {}
    /\ isr # "off" => \A i \in Pending : handler[i]

InBracket == pc \in {"reg_set", "reg_inner", "reg_mask", "reg_leave", "leave",
                     "start_time", "start_insert", "stop_remove"}

\* Neither a bracket, with another one inside it or not, nor interrupt level
\* itself can be interrupted.
Excluded == InBracket \/ isr # "off" => ~pie

\* An alarm rings at the tick it was asked for, not one early or late, also
\* when the tick count wraps between the call and the tick.
OnTime == \A a \in list : Rings(a, (nticks + 1) % Word) <=> due[a] = 1

\* The UART driver's alarm runs when main() starts: without it a write to a
\* console that nobody reads would wait for ever.
ConsoleWatched == pc = "main" => Console \in list

\* An alarm that stays on the list rings again and again.
AlarmsRing ==
    \A a \in Alarms :
        <>[](a \in list) => []<><<Tick /\ a \in list /\ Rings(a, nticks')>>_vars

\* The settle timer is not cut short by the wrap of the tick count it shares.
NeverShort == Settle!NeverShort

=============================================================================
