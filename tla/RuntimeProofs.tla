--------------------------- MODULE RuntimeProofs ---------------------------
(***************************************************************************)
(* Proofs about Runtime for every set of interrupts and of alarms, every   *)
(* width of the tick count and every delay.                                *)
(*                                                                         *)
(* Masked says what each location of the program knows of PIE; it is what  *)
(* makes the brackets exclusive, nested or not.  Handled relates the table *)
(* of handlers to IENABLE, at every step of a change of either.  Timed     *)
(* ties an alarm's time and its wrap flag to the ticks it has still to     *)
(* wait; the tick that reaches zero is the one the flag is cleared at.     *)
(***************************************************************************)
EXTENDS Runtime, TLAPS

BootPc  == {"irq_init", "cpu_enable", "timer_init", "uart_init", "uart_alarm"}
Unset   == {"reg_inner", "reg_mask"}
Starting == {"start", "start_time", "start_insert"}
Stopping == {"stop", "stop_remove"}

\* What the program knows of PIE, of the interrupt level and of its contexts.
Masked ==
    /\ back \in {"main", "uart_init", "uart_alarm"}
    /\ InBracket \/ isr # "off" \/ pc \in {"irq_init", "cpu_enable"} => ~pie
    /\ InBracket \/ pc \in {"irq_init", "cpu_enable"} => isr = "off"
    /\ pc \in {"reg_mask", "reg_leave"} => ~saved[2]

\* An interrupt that is enabled has a handler, but for the one that is about
\* to be disabled.
Handled ==
    /\ isr = "enter" => Pending # {}
    /\ pc = "irq_init" => alt_irq_active = {}
    /\ pc # "irq_init" =>
          /\ alt_irq_active = ienable
          /\ \A i \in ienable : handler[i] \/ (pc \in Unset /\ i = id)
    /\ pc \in Unset => handler[id] = set

\* The alarm rings due[a] ticks from now, past the wrap or before it.
Timed(a) ==
    /\ due[a] \in 1..(Word - 1)
    /\ time[a] = (nticks + due[a]) % Word
    /\ rollover[a] <=> nticks + due[a] >= Word

AlarmsTimed ==
    /\ \A a \in list : Timed(a)
    /\ pc \in Starting => alarm \notin list
    /\ pc = "start_insert" => Timed(alarm)

\* The alarms come after the clock, and main() after the console's alarm.
Booted ==
    /\ pc \in BootPc \/ back # "main" => list = {}
    /\ pc \notin {"irq_init", "cpu_enable", "timer_init"} => ticking
    /\ pc \in Stopping => alarm # Console
    /\ pc \in Starting \cup Stopping \cup BootPc \cup {"main"} => back = "main"
    /\ \/ Console \in list \/ pc \in BootPc \/ back # "main"
       \/ pc \in Starting /\ alarm = Console

\* While the settle timer runs, the deadline lies Delay ticks after its start.
Deadlines ==
    /\ usb_delay \in Nat /\ waited \in Nat /\ waiting \in BOOLEAN
    /\ waiting /\ waited <= Delay => Settle!Time + Delay <= usb_delay + waited

IInv == RuntimeTypeOK /\ Masked /\ Handled /\ AlarmsTimed /\ Booted

-----------------------------------------------------------------------------
(* Arithmetic *)

LEMMA WrapOnce ==
  ASSUME NEW w \in Nat, w > 0, NEW x \in Nat, x < 2 * w
  PROVE  x % w = IF x < w THEN x ELSE x - w
  OBVIOUS

\* An alarm that is due d ticks from now rings at the next tick if d is 1...
LEMMA RingsWhenDue ==
  ASSUME NEW a \in Alarms, nticks \in 0..(Word - 1), Timed(a)
  PROVE  Rings(a, (nticks + 1) % Word) <=> due[a] = 1
<1> DEFINE now == (nticks + 1) % Word
           d == due[a]
           t == time[a]
           r == rollover[a]
<1>1. /\ Word \in Nat /\ Word > 0 /\ nticks \in Nat /\ nticks < Word
      /\ d \in Nat /\ d > 0 /\ d < Word
  BY RuntimeAssumption DEF Timed
<1>2. now = IF nticks + 1 < Word THEN nticks + 1 ELSE nticks + 1 - Word
  BY <1>1, WrapOnce
<1>3. t = IF nticks + d < Word THEN nticks + d ELSE nticks + d - Word
  <2>1. t = (nticks + d) % Word
    BY DEF Timed
  <2> QED
    BY <1>1, <2>1, WrapOnce
<1>4. r <=> nticks + d >= Word
  BY DEF Timed
<1> HIDE DEF d, t, r, now
<1>5. (~(r /\ now # 0) /\ t <= now) <=> d = 1
  BY <1>1, <1>2, <1>3, <1>4
<1> QED
  BY <1>5 DEF Rings, Cleared, now, d, t, r

\* ... and is due one tick less after it otherwise.
LEMMA TicksCounted ==
  ASSUME NEW a \in Alarms, nticks \in 0..(Word - 1), Timed(a), due[a] # 1,
         nticks' = (nticks + 1) % Word, due'[a] = due[a] - 1,
         time'[a] = Later(time[a], 0), rollover'[a] <=> Cleared(a, nticks')
  PROVE  Timed(a)'
<1> DEFINE d == due[a]
           t == time[a]
           r == rollover[a]
           now == nticks'
<1>1. /\ Word \in Nat /\ Word > 0 /\ nticks \in Nat /\ nticks < Word
      /\ d \in Nat /\ d > 1 /\ d < Word
  BY RuntimeAssumption DEF Timed
<1>2. now = IF nticks + 1 < Word THEN nticks + 1 ELSE nticks + 1 - Word
  BY <1>1, WrapOnce
<1>3. t = IF nticks + d < Word THEN nticks + d ELSE nticks + d - Word
  <2>1. t = (nticks + d) % Word
    BY DEF Timed
  <2> QED
    BY <1>1, <2>1, WrapOnce
<1>4. r <=> nticks + d >= Word
  BY DEF Timed
<1>5. time'[a] = t
  <2>1. t \in Nat /\ t < Word
    BY <1>1, <1>3
  <2> QED
    BY <2>1, <1>1, WrapOnce DEF Later
<1>6. due'[a] = d - 1 /\ (rollover'[a] <=> r /\ now # 0)
  BY DEF Cleared
<1> HIDE DEF d, t, r, now
<1>7. /\ d - 1 \in 1..(Word - 1)
      /\ (r /\ now # 0) <=> now + (d - 1) >= Word
  BY <1>1, <1>2, <1>4
<1>8. t = (now + (d - 1)) % Word
  BY <1>1, <1>2, <1>3, WrapOnce
<1> QED
  BY <1>5, <1>6, <1>7, <1>8 DEF Timed, now

\* An alarm that is set d ticks ahead of the count, with the flag that tells
\* whether its time lies past the wrap, is due in d ticks.
LEMMA SetAhead ==
  ASSUME NEW now \in 0..(Word - 1), NEW d \in 1..(Word - 1)
  PROVE  /\ (now + d) % Word \in 0..(Word - 1)
         /\ Wraps((now + d) % Word, now) <=> now + d >= Word
<1>1. Word \in Nat /\ Word > 0 /\ now \in Nat /\ now < Word /\ d \in Nat /\ d < Word /\ d > 0
  BY RuntimeAssumption
<1>2. (now + d) % Word = IF now + d < Word THEN now + d ELSE now + d - Word
  BY <1>1, WrapOnce
<1> QED
  BY <1>1, <1>2 DEF Wraps

\* A time that has come is the count itself.
LEMMA TimeComes ==
  ASSUME NEW a \in Alarms, nticks \in 0..(Word - 1), Timed(a), due[a] = 1,
         nticks' = (nticks + 1) % Word
  PROVE  time[a] = nticks' /\ ~Cleared(a, nticks')
<1>1. time[a] = nticks'
  BY DEF Timed
<1>2. Word \in Nat /\ Word > 0 /\ nticks \in Nat /\ nticks < Word
  BY RuntimeAssumption
<1>3. rollover[a] => nticks' = 0
  BY <1>2, WrapOnce DEF Timed
<1> QED
  BY <1>1, <1>3 DEF Cleared

-----------------------------------------------------------------------------
(* The inductive invariant *)

LEMMA InitInv == Init => IInv
<1> SUFFICES ASSUME Init PROVE IInv
  OBVIOUS
<1>1. RuntimeTypeOK
  <2>1. 0 \in 0..(Word - 1)
    BY RuntimeAssumption
  <2> QED
    BY <2>1, RuntimeAssumption DEF Init, Settle!Init, RuntimeTypeOK, Locations
<1>2. Masked /\ Handled
  BY DEF Init, Masked, InBracket, Handled, Pending, Unset
<1>3. AlarmsTimed /\ Booted
  BY DEF Init, AlarmsTimed, Starting, Booted, BootPc, Stopping
<1> QED
  BY <1>1, <1>2, <1>3 DEF IInv

\* The clock and the program stand still: so do the alarms.
LEMMA AlarmsKept ==
  ASSUME AlarmsTimed, Booted, UNCHANGED <<clock, alarms, program>>
  PROVE  AlarmsTimed' /\ Booted'
  BY DEF clock, alarms, program, AlarmsTimed, Timed, Booted

\* Interrupt level, but for the tick.
LEMMA LevelStep ==
  ASSUME IInv, \/ \E i \in Ids : Raise(i) \/ Dispatch(i)
               \/ Enter \/ Leave \/ ServeDevice \/ ServeTimer
  PROVE  IInv'
<1> USE DEF IInv, RuntimeTypeOK, Masked, InBracket, Handled, Pending,
            cpu, table, level, clock, alarms, program, settle
<1>1. ASSUME NEW i \in Ids, Raise(i) PROVE IInv'
  BY <1>1, AlarmsKept DEF Raise
<1>2. ASSUME NEW i \in Ids, Dispatch(i) PROVE IInv'
  BY <1>2, AlarmsKept DEF Dispatch
<1>3. CASE Enter
  BY <1>3, AlarmsKept DEF Enter
<1>4. CASE Leave
  BY <1>4, AlarmsKept DEF Leave
<1>5. CASE ServeDevice
  BY <1>5, AlarmsKept, RuntimeAssumption DEF ServeDevice
<1>6. CASE ServeTimer
  BY <1>6, AlarmsKept DEF ServeTimer
<1> QED
  BY <1>1, <1>2, <1>3, <1>4, <1>5, <1>6

LEMMA TickStep == IInv /\ Tick => IInv'
<1> SUFFICES ASSUME IInv, Tick PROVE IInv'
  OBVIOUS
<1> DEFINE rung == {a \in list : Rings(a, nticks')}
<1>1. PICK ret \in [Alarms -> Intervals \cup {0, Second}] :
        /\ \A a \in Alarms : IF a \in rung THEN ret[a] \in Asks(a) ELSE ret[a] = 0
        /\ list' = list \ {a \in rung : ret[a] = 0}
        /\ time' = [a \in Alarms |-> Later(time[a], ret[a])]
        /\ rollover' = [a \in Alarms |->
              IF a \notin list THEN rollover[a]
              ELSE Cleared(a, nticks') \/ (ret[a] # 0 /\ Wraps(time'[a], nticks'))]
        /\ due' = [a \in Alarms |->
              IF a \in rung THEN ret[a] ELSE IF due[a] = 0 THEN 0 ELSE due[a] - 1]
  BY DEF Tick
<1>2. /\ isr = "tick" /\ isr' = "look" /\ pie' = pie
      /\ nticks' = (nticks + 1) % Word
      /\ UNCHANGED <<ienable, line, table, current, again, ticking, program>>
  BY DEF Tick, Settle!Tick, Restored
<1>3. /\ nticks \in 0..(Word - 1) /\ nticks' \in 0..(Word - 1)
      /\ Word \in Nat /\ Intervals \subseteq 1..(Word - 2) /\ Second \in 1..(Word - 2)
  BY <1>2, RuntimeAssumption DEF IInv, RuntimeTypeOK
<1>4. \A a \in Alarms : ret[a] \in 0..(Word - 2)
  <2>1. Intervals \cup {0, Second} \subseteq 0..(Word - 2)
    BY <1>3
  <2> QED
    BY <2>1
<1>5. RuntimeTypeOK'
  <2>1. time' \in [Alarms -> 0..(Word - 1)]
    BY <1>1, <1>3, <1>4, RuntimeAssumption DEF Later, IInv, RuntimeTypeOK
  <2>2. due' \in [Alarms -> 0..(Word - 1)]
    <3>1. \A a \in Alarms : due[a] \in 0..(Word - 1)
      BY DEF IInv, RuntimeTypeOK
    <3> QED
      BY <1>1, <1>3, <1>4, <3>1
  <2>3. rollover' \in [Alarms -> BOOLEAN]
    BY <1>1 DEF IInv, RuntimeTypeOK, Cleared
  <2> QED
    BY <1>1, <1>2, <1>3, <2>1, <2>2, <2>3 DEF IInv, RuntimeTypeOK, table, program
<1>6. Masked' /\ Handled'
  BY <1>2 DEF IInv, Masked, InBracket, Handled, table, program
<1>7. AlarmsTimed'
  <2>1. ASSUME NEW a \in list, a \notin rung PROVE Timed(a)'
    <3>1. a \in Alarms /\ Timed(a) /\ due[a] # 1 /\ ret[a] = 0
      BY <1>1, <1>2, <1>3, <2>1, RingsWhenDue DEF IInv, RuntimeTypeOK, AlarmsTimed
    <3>2. due'[a] = due[a] - 1
      <4>1. due[a] # 0
        BY <3>1 DEF Timed
      <4> QED
        BY <1>1, <2>1, <3>1, <4>1
    <3>3. time'[a] = Later(time[a], 0)
      BY <1>1, <3>1
    <3>4. rollover'[a] <=> Cleared(a, nticks')
      BY <1>1, <2>1, <3>1
    <3> QED
      BY <1>2, <1>3, <3>1, <3>2, <3>3, <3>4, TicksCounted
  <2>2. ASSUME NEW a \in rung, ret[a] # 0 PROVE Timed(a)'
    <3>1. /\ a \in Alarms /\ Timed(a) /\ due[a] = 1
          /\ time[a] = nticks' /\ ~Cleared(a, nticks')
      BY <1>2, <1>3, RingsWhenDue, TimeComes DEF IInv, RuntimeTypeOK, AlarmsTimed
    <3>2. ret[a] \in 1..(Word - 1)
      BY <1>3, <1>4, <2>2, <3>1
    <3>3. /\ due'[a] = ret[a] /\ time'[a] = (nticks' + ret[a]) % Word
          /\ rollover'[a] <=> Wraps(time'[a], nticks')
      BY <1>1, <2>2, <3>1 DEF Later
    <3> QED
      BY <1>3, <3>2, <3>3, SetAhead DEF Timed
  <2>3. \A a \in list' : Timed(a)'
    BY <1>1, <2>1, <2>2
  <2> QED
    BY <1>1, <1>2, <2>3 DEF IInv, Masked, InBracket, AlarmsTimed, Starting, program
<1>8. Booted'
  <2>1. Console \in list => Console \in list'
    BY <1>1, <1>3, RuntimeAssumption DEF Asks
  <2> QED
    BY <1>1, <1>2, <2>1 DEF IInv, Booted, program
<1> QED
  BY <1>5, <1>6, <1>7, <1>8 DEF IInv


-----------------------------------------------------------------------------
(* The program *)

\* The steps of the boot, which come before any alarm.
LEMMA BootStep == IInv /\ Boot => IInv'
<1> SUFFICES ASSUME IInv, Boot PROVE IInv'
  OBVIOUS
<1> USE DEF IInv, RuntimeTypeOK, Locations, Masked, InBracket, Handled, Pending, Unset,
            Booted, BootPc, Starting, Stopping, At, Goto, Devices,
            cpu, table, level, clock, alarms, settle
<1>1. CASE IrqInit
  <2>1. AlarmsTimed'
    BY <1>1 DEF IrqInit, AlarmsTimed, Timed
  <2> QED
    BY <1>1, <2>1 DEF IrqInit, ClearIenable
<1>2. CASE CpuEnable
  <2>1. AlarmsTimed'
    BY <1>2 DEF CpuEnable, AlarmsTimed, Timed
  <2> QED
    BY <1>2, <2>1 DEF CpuEnable
<1>3. CASE TimerInit
  <2>1. AlarmsTimed'
    BY <1>3 DEF TimerInit, Register, AlarmsTimed, Timed
  <2> QED
    BY <1>3, <2>1, RuntimeAssumption DEF TimerInit, Register, SysclkInit
<1>4. CASE UartInit
  <2>1. AlarmsTimed'
    BY <1>4 DEF UartInit, Register, AlarmsTimed, Timed
  <2> QED
    BY <1>4, <2>1 DEF UartInit, Register
<1>5. CASE UartAlarm
  <2>1. AlarmsTimed'
    BY <1>5, RuntimeAssumption DEF UartAlarm, Call, AlarmsTimed, Timed
  <2> QED
    BY <1>5, <2>1, RuntimeAssumption DEF UartAlarm, Call
<1> QED
  BY <1>1, <1>2, <1>3, <1>4, <1>5 DEF Boot

\* The change of a handler, and the return of a bracketed call.
LEMMA RegisterStep == IInv /\ (RegDisable \/ RegSet \/ RegInner \/ RegMask \/ RegLeave \/ LeaveBracket) => IInv'
<1> SUFFICES ASSUME IInv, RegDisable \/ RegSet \/ RegInner \/ RegMask \/ RegLeave \/ LeaveBracket PROVE IInv'
  OBVIOUS
<1> USE DEF IInv, RuntimeTypeOK, Locations, Masked, InBracket, Handled, Pending, Unset,
            Booted, BootPc, Starting, Stopping, At, Goto, DisableAll, EnableAll, Restored,
            cpu, table, level, clock, alarms, program, settle
<1>1. CASE RegDisable
  <2>1. AlarmsTimed'
    BY <1>1 DEF RegDisable, AlarmsTimed, Timed
  <2> QED
    BY <1>1, <2>1 DEF RegDisable
<1>2. CASE RegSet
  <2>1. AlarmsTimed'
    BY <1>2 DEF RegSet, AlarmsTimed, Timed
  <2> QED
    BY <1>2, <2>1 DEF RegSet
<1>3. CASE RegInner
  <2>1. AlarmsTimed'
    BY <1>3 DEF RegInner, AlarmsTimed, Timed
  <2> QED
    BY <1>3, <2>1 DEF RegInner
<1>4. CASE RegMask
  <2>1. AlarmsTimed'
    BY <1>4 DEF RegMask, AlarmsTimed, Timed
  <2> QED
    BY <1>4, <2>1 DEF RegMask
<1>5. CASE RegLeave
  <2>1. AlarmsTimed'
    BY <1>5 DEF RegLeave, AlarmsTimed, Timed
  <2> QED
    BY <1>5, <2>1 DEF RegLeave
<1>6. CASE LeaveBracket
  <2>1. AlarmsTimed'
    BY <1>6, RuntimeAssumption DEF LeaveBracket, AlarmsTimed, Timed
  <2> QED
    BY <1>6, <2>1, RuntimeAssumption DEF LeaveBracket
<1> QED
  BY <1>1, <1>2, <1>3, <1>4, <1>5, <1>6

\* The start and the stop of an alarm.
LEMMA AlarmStep == IInv /\ (Start \/ StartTime \/ StartInsert \/ StopDisable \/ StopRemove) => IInv'
<1> SUFFICES ASSUME IInv, Start \/ StartTime \/ StartInsert \/ StopDisable \/ StopRemove PROVE IInv'
  OBVIOUS
<1> USE DEF IInv, RuntimeTypeOK, Locations, Masked, InBracket, Handled, Pending, Unset,
            Booted, BootPc, Starting, Stopping, At, Goto, DisableAll, EnableAll, Restored,
            cpu, table, level, clock, alarms, program, settle
<1>1. CASE Start
  <2>1. AlarmsTimed'
    BY <1>1 DEF Start, Bracket, AlarmsTimed, Timed
  <2>2. /\ pc' = "start_time" /\ pc = "start" /\ isr = "off" /\ pie' = FALSE
        /\ saved' = [saved EXCEPT ![1] = pie]
        /\ UNCHANGED <<ienable, line, table, level, clock, alarms, back, id, set, alarm, settle>>
    BY <1>1 DEF Start, Bracket
  <2>3. RuntimeTypeOK'
    BY <2>2
  <2>4. Masked' /\ Handled'
    BY <2>2
  <2>5. Booted'
    BY <2>2
  <2> QED
    BY <2>1, <2>3, <2>4, <2>5
<1>2. CASE StartTime
  <2>1. PICK n \in Asks(alarm) :
          /\ time' = [time EXCEPT ![alarm] = Later(n + 1, nticks)]
          /\ due' = [due EXCEPT ![alarm] = n + 1]
    BY <1>2 DEF StartTime
  <2>2. /\ pc = "start_time" /\ pc' = "start_insert" /\ isr = "off" /\ alarm \notin list
        /\ rollover' = [rollover EXCEPT ![alarm] = Wraps(time'[alarm], nticks)]
        /\ UNCHANGED <<cpu, table, level, clock, list, back, saved, id, set, alarm, settle>>
    BY <1>2 DEF StartTime, AlarmsTimed
  <2>3. n + 1 \in 1..(Word - 1) /\ n \in Nat /\ nticks \in 0..(Word - 1) /\ nticks \in Nat
    BY RuntimeAssumption DEF Asks
  <2>4. Later(n + 1, nticks) = (nticks + (n + 1)) % Word
    BY <2>3 DEF Later
  <2>5. /\ Later(n + 1, nticks) \in 0..(Word - 1)
        /\ Wraps(Later(n + 1, nticks), nticks) <=> nticks + (n + 1) >= Word
    BY <2>3, <2>4, SetAhead
  <2>6. /\ time'[alarm] = Later(n + 1, nticks) /\ due'[alarm] = n + 1
        /\ rollover'[alarm] <=> nticks + (n + 1) >= Word
    BY <2>1, <2>2, <2>5
  <2>7. RuntimeTypeOK'
    <3>1. /\ time' \in [Alarms -> 0..(Word - 1)] /\ due' \in [Alarms -> 0..(Word - 1)]
          /\ rollover' \in [Alarms -> BOOLEAN]
      BY <2>1, <2>2, <2>3, <2>5 DEF Wraps
    <3> QED
      BY <2>2, <3>1
  <2>8. Masked' /\ Handled' /\ Booted'
    BY <2>2
  <2>9. AlarmsTimed'
    <3>1. Timed(alarm)'
      BY <2>2, <2>3, <2>4, <2>6 DEF Timed
    <3>2. \A a \in list : /\ time'[a] = time[a] /\ due'[a] = due[a]
                          /\ rollover'[a] = rollover[a]
      BY <2>1, <2>2
    <3> QED
      BY <2>2, <3>1, <3>2 DEF AlarmsTimed, Timed
  <2> QED
    BY <2>7, <2>8, <2>9
<1>3. CASE StartInsert
  <2>1. AlarmsTimed'
    BY <1>3 DEF StartInsert, AlarmsTimed, Timed
  <2> QED
    BY <1>3, <2>1 DEF StartInsert
<1>4. CASE StopDisable
  <2>1. AlarmsTimed'
    BY <1>4 DEF StopDisable, AlarmsTimed, Timed
  <2> QED
    BY <1>4, <2>1 DEF StopDisable
<1>5. CASE StopRemove
  <2>1. AlarmsTimed'
    BY <1>5 DEF StopRemove, AlarmsTimed, Timed
  <2>2. due' \in [Alarms -> 0..(Word - 1)]
    <3>1. 0 \in 0..(Word - 1)
      BY RuntimeAssumption
    <3> QED
      BY <1>5, <3>1 DEF StopRemove
  <2>3. RuntimeTypeOK'
    BY <1>5, <2>2 DEF StopRemove
  <2>4. Masked' /\ Handled' /\ Booted'
    BY <1>5 DEF StopRemove
  <2> QED
    BY <2>1, <2>3, <2>4
<1> QED
  BY <1>1, <1>2, <1>3, <1>4, <1>5

\* The calls of main().
LEMMA MainStep == IInv /\ (MainStart \/ MainStop \/ MainRegister \/ MainSettle) => IInv'
<1> SUFFICES ASSUME IInv, MainStart \/ MainStop \/ MainRegister \/ MainSettle PROVE IInv'
  OBVIOUS
<1> USE DEF IInv, RuntimeTypeOK, Locations, Masked, InBracket, Handled, Pending, Unset,
            Booted, BootPc, Starting, Stopping, At, Goto, DisableAll, EnableAll, Restored,
            cpu, table, level, clock, alarms, program, settle
<1>1. CASE MainStart
  <2>1. AlarmsTimed'
    BY <1>1 DEF MainStart, Call, AlarmsTimed, Timed
  <2>2. RuntimeTypeOK'
    BY <1>1 DEF MainStart, Call
  <2>3. Masked' /\ Handled'
    BY <1>1 DEF MainStart, Call
  <2>4. Booted'
    BY <1>1 DEF MainStart, Call
  <2> QED
    BY <2>1, <2>2, <2>3, <2>4
<1>2. CASE MainStop
  <2>1. AlarmsTimed'
    BY <1>2 DEF MainStop, Call, AlarmsTimed, Timed
  <2>2. RuntimeTypeOK'
    BY <1>2 DEF MainStop, Call
  <2>3. Masked' /\ Handled'
    BY <1>2 DEF MainStop, Call
  <2>4. Booted'
    BY <1>2 DEF MainStop, Call
  <2> QED
    BY <2>1, <2>2, <2>3, <2>4
<1>3. CASE MainRegister
  <2>1. AlarmsTimed'
    BY <1>3 DEF MainRegister, Register, Devices, AlarmsTimed, Timed
  <2>2. RuntimeTypeOK'
    BY <1>3 DEF MainRegister, Register, Devices
  <2>3. Masked' /\ Handled'
    BY <1>3 DEF MainRegister, Register, Devices
  <2>4. Booted'
    BY <1>3 DEF MainRegister, Register, Devices
  <2> QED
    BY <2>1, <2>2, <2>3, <2>4
<1>4. CASE MainSettle
  <2>1. AlarmsTimed'
    BY <1>4 DEF MainSettle, Settle!Arm, Settle!Expire, AlarmsTimed, Timed
  <2> QED
    BY <1>4, <2>1 DEF MainSettle, Settle!Arm, Settle!Expire
<1> QED
  BY <1>1, <1>2, <1>3, <1>4

-----------------------------------------------------------------------------
(* The theorems *)

LEMMA StepInv == IInv /\ [Next]_vars => IInv'
<1> SUFFICES ASSUME IInv, [Next]_vars PROVE IInv'
  OBVIOUS
<1>1. CASE UNCHANGED vars
  BY <1>1 DEF vars, cpu, table, level, clock, alarms, program, settle, IInv, RuntimeTypeOK,
              Masked, InBracket, Handled, Pending, AlarmsTimed, Timed, Booted
<1>2. CASE Next
  BY <1>2, LevelStep, TickStep, BootStep, RegisterStep, AlarmStep, MainStep
  DEF Next, Service, Calls, Main
<1> QED
  BY <1>1, <1>2

LEMMA Invariant == Spec => []IInv
  BY InitInv, StepInv, PTL DEF Spec

\* Every variable has its type: the CPU's bits and the handlers' table, the
\* tick count and the times of the alarms stay within their width.
THEOREM TypeCorrect == Spec => []RuntimeTypeOK
<1>1. IInv => RuntimeTypeOK
  BY DEF IInv
<1> QED
  BY <1>1, Invariant, PTL

\* alt_irq_handler never calls a NULL handler and is never entered for nothing.
THEOREM HandlersAreThere == Spec => []Dispatchable
<1>1. IInv => Dispatchable
  BY DEF IInv, Masked, InBracket, Handled, Unset, Pending, Dispatchable
<1> QED
  BY <1>1, Invariant, PTL

\* No interrupt is taken inside a bracket of alt_irq_disable_all, nested or
\* not, nor at interrupt level.
THEOREM BracketsExclude == Spec => []Excluded
<1>1. IInv => Excluded
  BY DEF IInv, Masked, Excluded
<1> QED
  BY <1>1, Invariant, PTL

\* An alarm rings at the tick it was asked for, for every width of the count
\* and every interval, across the wrap too.
THEOREM AlarmsRingOnTime == Spec => []OnTime
<1>1. IInv => OnTime
  BY RingsWhenDue DEF IInv, RuntimeTypeOK, AlarmsTimed, OnTime
<1> QED
  BY <1>1, Invariant, PTL

\* The console's alarm runs when main() does.
THEOREM ConsoleIsWatched == Spec => []ConsoleWatched
<1>1. IInv => ConsoleWatched
  BY DEF IInv, Booted, BootPc, Starting, ConsoleWatched
<1> QED
  BY <1>1, Invariant, PTL

-----------------------------------------------------------------------------
(* The settle timer, whose time is the tick count modulo Word \div Rate *)

\* Modulo a word, a sum grows by no more than what is added.
LEMMA ModStep ==
  ASSUME NEW w \in Nat, w > 0, NEW p \in Nat, NEW r \in Nat
  PROVE  (p + r) % w \in Nat /\ (p + r) % w <= (p % w) + r
<1>1. p % w \in 0..(w - 1) /\ (p + r) % w \in 0..(w - 1)
  OBVIOUS
<1>2. CASE (p % w) + r < w
  <2>1. PICK q \in Nat : p = w * q + (p % w)
    <3>1. p = w * (p \div w) + (p % w) /\ p \div w \in Nat
      OBVIOUS
    <3> QED
      BY <3>1
  <2>2. p + r = w * q + ((p % w) + r)
    BY <1>1, <2>1
  <2>3. (w * q + ((p % w) + r)) % w = (p % w) + r
    BY <1>1, <1>2
  <2> QED
    BY <1>1, <2>2, <2>3
<1>3. CASE ~((p % w) + r < w)
  BY <1>1, <1>3
<1> QED
  BY <1>2, <1>3

\* The time advances by one a tick at most; it falls when the product wraps.
LEMMA TimeStep ==
  ASSUME nticks \in 0..(Word - 1), Settle!Tick
  PROVE  Settle!Time \in Nat /\ Settle!Time' \in Nat /\ Settle!Time' <= Settle!Time + 1
<1>1. Word \in Nat /\ Word > 0 /\ Rate \in Nat /\ Rate > 0 /\ nticks \in Nat /\ nticks < Word
  BY SettleAssumption, RuntimeAssumption DEF Settle!TimerConstants
<1>2. nticks' = IF nticks + 1 < Word THEN nticks + 1 ELSE 0
  BY <1>1, WrapOnce DEF Settle!Tick
<1> DEFINE p == nticks * Rate
<1>3. p \in Nat /\ (nticks + 1) * Rate = p + Rate
  BY <1>1
<1>4. Settle!Time = (p % Word) \div Rate
  BY DEF Settle!Time
<1>5. nticks' * Rate = IF nticks + 1 < Word THEN p + Rate ELSE 0
  BY <1>1, <1>2, <1>3
<1>6. Settle!Time' = (nticks' * Rate % Word) \div Rate
  BY DEF Settle!Time
<1> HIDE DEF p
<1>7. p % Word \in Nat /\ (p % Word) \div Rate \in Nat
  BY <1>1, <1>3
<1>8. CASE nticks + 1 < Word
  <2> DEFINE s == (p + Rate) % Word
  <2>1. s \in Nat /\ s <= (p % Word) + Rate
    BY <1>1, <1>3, ModStep
  <2>2. Settle!Time' = s \div Rate
    BY <1>5, <1>6, <1>8
  <2> HIDE DEF s
  <2> QED
    BY <1>1, <1>4, <1>7, <2>1, <2>2
<1>9. CASE ~(nticks + 1 < Word)
  <2>1. Settle!Time' = 0
    BY <1>1, <1>5, <1>6, <1>9
  <2> QED
    BY <1>4, <1>7, <2>1
<1> QED
  BY <1>8, <1>9

\* The deadline itself does not wrap.
LEMMA DeadlineFits ==
  ASSUME nticks \in 0..(Word - 1)
  PROVE  Settle!Time \in Nat /\ Settle!Deadline = Settle!Time + Delay
<1>1. /\ Word \in Nat /\ Rate \in Nat /\ Rate > 1 /\ Delay \in Nat
      /\ Word \div Rate > 2 * Delay /\ Word > 0 /\ nticks \in Nat
  BY SettleAssumption, RuntimeAssumption DEF Settle!TimerConstants
<1>2. nticks * Rate \in Nat
  BY <1>1
<1> DEFINE m == (nticks * Rate) % Word
<1>3. m \in Nat /\ m < Word
  BY <1>1, <1>2
<1>4. Settle!Time = m \div Rate
  BY DEF Settle!Time
<1> HIDE DEF m
<1>5. m \div Rate \in Nat /\ 2 * (m \div Rate) <= m
  BY <1>1, <1>3
<1>6. Word \div Rate \in Nat /\ 2 * (Word \div Rate) <= Word
  BY <1>1
<1>7. (m \div Rate) + Delay < Word
  BY <1>1, <1>3, <1>5, <1>6
<1>8. ((m \div Rate) + Delay) % Word = (m \div Rate) + Delay
  <2> DEFINE s == (m \div Rate) + Delay
  <2>1. s \in Nat /\ s < Word
    BY <1>1, <1>5, <1>7
  <2> HIDE DEF s
  <2>2. s % Word = s
    BY <1>1, <2>1
  <2> QED
    BY <2>2 DEF s
<1> QED
  BY <1>4, <1>5, <1>8 DEF Settle!Deadline

\* The deadline lies Delay ticks after the start, whatever the time did since.
LEMMA SettleStep ==
  ASSUME nticks \in 0..(Word - 1), Deadlines,
         Settle!Tick \/ Settle!Arm \/ Settle!Expire \/ UNCHANGED <<nticks, settle>>
  PROVE  Deadlines' /\ (Settle!Expire => waited >= Delay)
<1> DEFINE now == Settle!Time
           then == Settle!Time'
<1>1. Delay \in Nat /\ now \in Nat
  BY SettleAssumption, DeadlineFits DEF Settle!TimerConstants
<1>2. /\ usb_delay \in Nat /\ waited \in Nat /\ waiting \in BOOLEAN
      /\ waiting /\ waited <= Delay => now + Delay <= usb_delay + waited
  BY DEF Deadlines
<1>3. Settle!Expire => waiting /\ now > usb_delay /\ waiting' = FALSE /\ UNCHANGED <<usb_delay, waited>>
  BY DEF Settle!Expire, Settle!Expired
<1>4. Settle!Tick => /\ then \in Nat /\ then <= now + 1
                     /\ waited' = (IF waited > Delay THEN waited ELSE waited + 1)
                     /\ UNCHANGED <<usb_delay, waiting>>
  BY TimeStep DEF Settle!Tick
<1>5. Settle!Arm => /\ then = now /\ usb_delay' = now + Delay
                    /\ waiting' = TRUE /\ waited' = 0
  BY DeadlineFits DEF Settle!Arm, Settle!Time
<1>6. UNCHANGED <<nticks, settle>> => then = now /\ UNCHANGED <<usb_delay, waiting, waited>>
  BY DEF Settle!Time, settle
<1>7. Deadlines' <=> /\ usb_delay' \in Nat /\ waited' \in Nat /\ waiting' \in BOOLEAN
                     /\ waiting' /\ waited' <= Delay => then + Delay <= usb_delay' + waited'
  BY DEF Deadlines
<1> HIDE DEF now, then
<1>8. Settle!Expire => waited >= Delay
  BY <1>1, <1>2, <1>3
<1>9. CASE Settle!Tick
  <2>1. CASE waited > Delay
    BY <1>1, <1>2, <1>4, <1>7, <1>8, <1>9, <2>1
  <2>2. CASE ~(waited > Delay)
    <3>1. /\ then \in Nat /\ then <= now + 1 /\ waited' = waited + 1
          /\ usb_delay' = usb_delay /\ waiting' = waiting
      BY <1>4, <1>9, <2>2
    <3>2. waiting => then + Delay <= usb_delay + (waited + 1)
      BY <1>1, <1>2, <2>2, <3>1
    <3> QED
      BY <1>2, <1>7, <1>8, <3>1, <3>2
  <2> QED
    BY <2>1, <2>2
<1>10. CASE Settle!Arm
  BY <1>1, <1>2, <1>5, <1>7, <1>8, <1>10
<1>11. CASE Settle!Expire
  BY <1>1, <1>2, <1>3, <1>7, <1>8, <1>11
<1>12. CASE UNCHANGED <<nticks, settle>>
  BY <1>1, <1>2, <1>6, <1>7, <1>8, <1>12
<1> QED
  BY <1>9, <1>10, <1>11, <1>12

\* Only the tick and the calls of main() touch the timer.
LEMMA SettleMoves ==
  ASSUME [Next]_vars
  PROVE  Settle!Tick \/ Settle!Arm \/ Settle!Expire \/ UNCHANGED <<nticks, settle>>
<1>1. CASE UNCHANGED vars
  BY <1>1 DEF vars, clock, settle
<1>2. CASE \E i \in Ids : Raise(i) \/ Dispatch(i)
  BY <1>2 DEF Raise, Dispatch, clock, settle
<1>3. CASE Enter \/ Leave \/ ServeDevice \/ ServeTimer
  BY <1>3 DEF Enter, Leave, ServeDevice, ServeTimer, clock, settle
<1>4. CASE Tick
  BY <1>4 DEF Tick
<1>5. CASE Boot
  BY <1>5 DEF Boot, IrqInit, CpuEnable, TimerInit, UartInit, UartAlarm, Register, Call, clock, settle
<1>6. CASE Calls
  BY <1>6 DEF Calls, RegDisable, RegSet, RegInner, RegMask, RegLeave, LeaveBracket,
              Start, StartTime, StartInsert, StopDisable, StopRemove, clock, settle
<1>7. CASE Main
  BY <1>7 DEF Main, MainStart, MainStop, MainRegister, MainSettle, Register, Call, clock, settle
<1> QED
  BY <1>1, <1>2, <1>3, <1>4, <1>5, <1>6, <1>7 DEF Next, Service

LEMMA SettleInvariant == Spec => []Deadlines
<1>1. Init => Deadlines
  <2> SUFFICES ASSUME Init PROVE Deadlines
    OBVIOUS
  <2>1. usb_delay = 0 /\ waited = 0 /\ waiting = FALSE
    BY DEF Init, Settle!Init
  <2>2. usb_delay \in Nat /\ waited \in Nat /\ waiting \in BOOLEAN
    BY <2>1
  <2>3. ~waiting
    BY <2>1
  <2> QED
    BY <2>2, <2>3 DEF Deadlines
<1>2. IInv /\ Deadlines /\ [Next]_vars => Deadlines'
  <2> SUFFICES ASSUME IInv, Deadlines, [Next]_vars PROVE Deadlines'
    OBVIOUS
  <2>1. nticks \in 0..(Word - 1)
    BY DEF IInv, RuntimeTypeOK
  <2>2. Settle!Tick \/ Settle!Arm \/ Settle!Expire \/ UNCHANGED <<nticks, settle>>
    BY SettleMoves
  <2> QED
    BY <2>1, <2>2, SettleStep
<1> QED
  BY <1>1, <1>2, Invariant, PTL DEF Spec

\* The settle timer of the USB host is not cut short, whenever it is armed,
\* interrupted and read.
THEOREM SettleIsNeverShort == Spec => NeverShort
<1>1. IInv /\ Deadlines /\ [Next]_vars => [Settle!Expire => waited >= Delay]_(Settle!vars)
  <2> SUFFICES ASSUME IInv, Deadlines, [Next]_vars
               PROVE  (Settle!Expire => waited >= Delay) \/ UNCHANGED Settle!vars
    OBVIOUS
  <2>1. nticks \in 0..(Word - 1)
    BY DEF IInv, RuntimeTypeOK
  <2> QED
    BY <2>1, SettleMoves, SettleStep
<1> QED
  BY <1>1, Invariant, SettleInvariant, PTL DEF Spec, NeverShort, Settle!NeverShort

-----------------------------------------------------------------------------
(* Nothing keeps the timer from the alarms: Watched says where the timer's  *)
(* interrupt is enabled and where the program can be interrupted.           *)

TimerSet == pc \in {"register", "reg_set", "reg_inner", "reg_mask"} /\ back = "uart_init" /\ id = Timer /\ set

Watched ==
    /\ Timer \in ienable \/ pc \in {"irq_init", "cpu_enable", "timer_init"} \/ TimerSet
    /\ pc \in {"register", "reg_set", "reg_inner", "reg_mask"} /\ id = Timer => set
    /\ InBracket => saved[1]
    /\ isr = "off" /\ ~InBracket /\ pc \notin {"irq_init", "cpu_enable"} => pie

LEMMA WatchedStep == IInv /\ Watched /\ [Next]_vars => Watched'
<1> SUFFICES ASSUME IInv, Watched, [Next]_vars PROVE Watched'
  OBVIOUS
<1> USE DEF Watched, TimerSet, InBracket, At, Goto, cpu, table, level, clock, alarms, program, settle
<1>1. ASSUME NEW i \in Ids, Raise(i) \/ Dispatch(i) PROVE Watched'
  BY <1>1 DEF Raise, Dispatch
<1>2. CASE Enter \/ Leave \/ ServeDevice \/ ServeTimer
  BY <1>2 DEF Enter, Leave, ServeDevice, ServeTimer
<1>3. CASE Tick
  BY <1>3 DEF Tick, Restored
<1>4. CASE IrqInit
  BY <1>4 DEF IrqInit
<1>5. CASE CpuEnable
  BY <1>5 DEF CpuEnable
<1>6. CASE TimerInit
  BY <1>6 DEF TimerInit, Register
<1>7. CASE UartInit
  BY <1>7 DEF UartInit, Register, Devices
<1>8. CASE UartAlarm
  BY <1>8 DEF UartAlarm, Call
<1>9. CASE RegDisable
  BY <1>9 DEF RegDisable, DisableAll, IInv, RuntimeTypeOK
<1>10. CASE RegSet
  BY <1>10 DEF RegSet
<1>11. CASE RegInner
  BY <1>11 DEF RegInner, DisableAll, IInv, RuntimeTypeOK
<1>12. CASE RegMask
  BY <1>12 DEF RegMask, IInv, Handled
<1>13. CASE RegLeave
  BY <1>13 DEF RegLeave, EnableAll, Restored, IInv, RuntimeTypeOK
<1>14. CASE LeaveBracket
  BY <1>14 DEF LeaveBracket, EnableAll, Restored, IInv, RuntimeTypeOK, Masked
<1>15. CASE Start
  BY <1>15 DEF Start, Bracket, DisableAll, IInv, RuntimeTypeOK, Booted, Starting, BootPc
<1>16. CASE StartTime
  BY <1>16 DEF StartTime
<1>17. CASE StartInsert
  BY <1>17 DEF StartInsert
<1>18. CASE StopDisable
  BY <1>18 DEF StopDisable, DisableAll, IInv, RuntimeTypeOK
<1>19. CASE StopRemove
  BY <1>19 DEF StopRemove
<1>20. CASE MainStart
  BY <1>20 DEF MainStart, Call
<1>21. CASE MainStop
  BY <1>21 DEF MainStop, Call
<1>22. CASE MainRegister
  BY <1>22 DEF MainRegister, Register, Devices
<1>23. CASE MainSettle
  BY <1>23 DEF MainSettle
<1>24. CASE UNCHANGED vars
  BY <1>24 DEF vars
<1> QED
  BY <1>1, <1>2, <1>3, <1>4, <1>5, <1>6, <1>7, <1>8, <1>9, <1>10, <1>11, <1>12, <1>13, <1>14, <1>15,
     <1>16, <1>17, <1>18, <1>19, <1>20, <1>21, <1>22, <1>23, <1>24 DEF Next, Service, Boot, Calls, Main

\* A tick rings the alarms that are due and brings the others one tick closer.
LEMMA TickCounts ==
  ASSUME IInv, Tick, NEW a \in list
  PROVE  IF due[a] = 1 THEN Rings(a, nticks') ELSE due[a] > 1 /\ due'[a] = due[a] - 1
<1>1. nticks' = (nticks + 1) % Word
  BY DEF Tick, Settle!Tick
<1>2. a \in Alarms /\ Timed(a) /\ nticks \in 0..(Word - 1)
  BY DEF IInv, AlarmsTimed, RuntimeTypeOK
<1>3. Rings(a, nticks') <=> due[a] = 1
  BY <1>1, <1>2, RingsWhenDue
<1>4. due[a] # 1 => due[a] > 1
  BY <1>2, RuntimeAssumption DEF Timed
<1>5. due[a] # 1 => due'[a] = due[a] - 1
  <2> SUFFICES ASSUME due[a] # 1 PROVE due'[a] = due[a] - 1
    OBVIOUS
  <2>1. due[a] # 0
    BY <1>2 DEF Timed
  <2> QED
    BY <1>2, <1>3, <2>1 DEF Tick
<1> QED
  BY <1>3, <1>4, <1>5

\* The part of AlarmsRing that holds step by step: while an alarm is on the
\* list the clock runs, its interrupt is enabled and has its handler, and the
\* program can be interrupted outside its short brackets; and each tick brings
\* the alarm one closer to the tick it rings at, so that no interval takes
\* more ticks than it was asked for (alt_alarm_start.c; alt_tick.c, alt_tick).
THEOREM TicksReachTheAlarms ==
  Spec => /\ [](list # {} => ticking /\ Timer \in ienable /\ handler[Timer]
                            /\ (isr = "off" /\ ~InBracket => pie))
          /\ [][Tick => \A a \in list :
                  IF due[a] = 1 THEN Rings(a, nticks')
                  ELSE due[a] > 1 /\ due'[a] = due[a] - 1]_vars
<1>1. Init => Watched
  BY DEF Init, Watched, InBracket
<1>2. IInv /\ Watched =>
        (list # {} => ticking /\ Timer \in ienable /\ handler[Timer]
                        /\ (isr = "off" /\ ~InBracket => pie))
  <2> SUFFICES ASSUME IInv, Watched, list # {}
               PROVE  ticking /\ Timer \in ienable /\ handler[Timer]
                        /\ (isr = "off" /\ ~InBracket => pie)
    OBVIOUS
  <2>1. pc \notin BootPc /\ back = "main"
    BY DEF IInv, Booted
  <2>2. ticking /\ Timer \in ienable
    BY <2>1 DEF IInv, Booted, BootPc, Watched, TimerSet
  <2>3. pc \in Unset /\ id = Timer => set
    BY DEF Watched, Unset
  <2>4. handler[Timer]
    BY <2>1, <2>2, <2>3 DEF IInv, Handled, BootPc, Unset
  <2>5. isr = "off" /\ ~InBracket => pie
    BY <2>1 DEF Watched, BootPc
  <2> QED
    BY <2>2, <2>4, <2>5
<1>3. IInv /\ [Next]_vars =>
        [Tick => \A a \in list :
           IF due[a] = 1 THEN Rings(a, nticks')
           ELSE due[a] > 1 /\ due'[a] = due[a] - 1]_vars
  BY TickCounts
<1> QED
  BY <1>1, <1>2, <1>3, WatchedStep, Invariant, PTL DEF Spec
=============================================================================
