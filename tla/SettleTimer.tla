----------------------------- MODULE SettleTimer -----------------------------
(***************************************************************************)
(* The settle timer of USB_Task in transfer.c.                             *)
(*                                                                         *)
(* The time is (alt_nticks() * 1000) / alt_ticks_per_second(), computed in *)
(* DWORDs of 32 bits: the product wraps before it is divided, so the time  *)
(* runs from 0 to (2^32 - 1) / 1000 and starts again, after 71 minutes,    *)
(* while usb_delay, the time plus 200, may lie beyond that last value.     *)
(***************************************************************************)
EXTENDS Integers

CONSTANTS
  Word,       \* values of a DWORD: 2^32
  Rate,       \* alt_ticks_per_second(); 1000, and equal to the factor 1000
  Delay       \* 200

\* What the delays assume of the numbers.
TimerConstants ==
  /\ {Word, Rate, Delay} \subseteq Nat \ {0} /\ Rate > 1
  /\ Word \div Rate > 2 * Delay

VARIABLES
  nticks,     \* alt_nticks()
  usb_delay,
  waiting,    \* usb_task_state is SETTLE
  waited      \* history: ticks since the timer was armed, up to Delay + 1

vars == <<nticks, usb_delay, waiting, waited>>

Time == ((nticks * Rate) % Word) \div Rate

Init == nticks = 0 /\ usb_delay = 0 /\ waiting = FALSE /\ waited = 0

\* The timer interrupt.
Tick ==
  /\ nticks' = (nticks + 1) % Word
  /\ waited' = IF waited > Delay THEN waited ELSE waited + 1
  /\ UNCHANGED <<usb_delay, waiting>>

\* The deadline, a DWORD.  Plausible bug: the deadline is wrapped as the time
\* is, and the comparison left as it was.
Deadline_Wrapped == (Time + Delay) % (Word \div Rate)
Deadline == (Time + Delay) % Word

\* USB_Task in state ATTACHED.
Arm ==
  /\ ~waiting /\ waiting' = TRUE
  /\ usb_delay' = Deadline /\ waited' = 0
  /\ UNCHANGED nticks

\* USB_Task in state SETTLE.  The comparison is strict.
Expired == Time > usb_delay
Expire ==
  /\ waiting /\ Expired /\ waiting' = FALSE
  /\ UNCHANGED <<nticks, usb_delay, waited>>

Next == Tick \/ Arm \/ Expire
Spec == Init /\ [][Next]_vars

\* Ticks keep coming.  The loop that tests the timer runs many times a tick,
\* so a timer that expires again and again is seen expired.
FairSpec == Spec /\ WF_vars(Tick) /\ SF_vars(Expire)

-----------------------------------------------------------------------------

\* A settle that was armed is never cut short: between arming and expiry lie
\* at least Delay ticks, also when the time wraps in between.
NeverShort == [][Expire => waited >= Delay]_vars

\* "waiting for settle timer to expire": the wait ends.
SettleEnds == waiting ~> ~waiting
=============================================================================
