-------------------------------- MODULE Keys --------------------------------
(***************************************************************************)
(* From a keyboard report to the keys the game sees: Transfer, the body of *)
(* main() that hands a report to setKeycode, and the four keycode ports.   *)
(*                                                                         *)
(* The fighters and the referee read the four ports on clocks of their own *)
(* and take a key as pressed when any port shows it, so every state is one *)
(* that they may see: setKeycode writes one port after another.            *)
(***************************************************************************)
EXTENDS Transfer

CONSTANT Contents  \* Contents[r]: keycode[0 .. 3] of the keyboard's report r

Codes == 1..4
NoKey == 0
Released == [i \in Codes |-> NoKey]

Following(r) == (r + 1) % Reports

\* A keyboard lists a key that is held no later than in its last report: the
\* keys after one that was released move up.
ASSUME KeysAssumption ==
  /\ Contents \in [0 .. Reports - 1 -> [Codes -> Nat]]
  /\ \A r \in 0 .. Reports - 1 : \A i, k \in Codes :
        Contents[r][i] = Contents[Following(r)][k] /\ Contents[r][i] # NoKey => k <= i

VARIABLES
  kbdbuf,   \* kbdbuf.keycode[0 .. 3] of main()
  next,     \* the port setKeycode writes next, 0 outside it
  port,     \* keycode_1 .. keycode_4
  before    \* history: the report before kbdbuf

keyVars == <<kbdbuf, next, port, before>>

KInit ==
  /\ Init
  /\ kbdbuf = Released /\ next = 0 /\ port = Released /\ before = Released

\* kbdPoll has read a report: main() calls setKeycode.
HandOver ==
  /\ next = 0
  /\ ReadLast /\ stage = "report"
  /\ kbdbuf' = Contents[fifo] /\ before' = kbdbuf
  /\ next' = 1 /\ UNCHANGED port

\* Plausible bug: the ports are written from the last to the first.
Port_Reversed(k) == 5 - k
Port(k) == k

setKeycode ==
  /\ next # 0
  /\ port' = [port EXCEPT ![Port(next)] = kbdbuf[Port(next)]]
  /\ next' = IF next = 4 THEN 0 ELSE next + 1
  /\ UNCHANGED <<kbdbuf, before, vars>>

\* Everything that hands over no report; a transfer waits for setKeycode.
Transferring ==
  /\ next = 0
  /\ Next /\ ~(ReadLast /\ stage = "report")
  /\ UNCHANGED keyVars

KNext == HandOver \/ setKeycode \/ Transferring

KSpec == KInit /\ [][KNext]_<<vars, keyVars>>

\* The program does not stop in a transfer or in setKeycode.
KFairSpec == KSpec /\ Fairness /\ WF_keyVars(setKeycode)

-----------------------------------------------------------------------------
(* Properties.                                                             *)

KeysOf(codes) == {codes[i] : i \in Codes} \ {NoKey}

KeysTypeOK ==
  /\ kbdbuf \in [Codes -> Nat] /\ before \in [Codes -> Nat]
  /\ port \in [Codes -> Nat] /\ next \in 0 .. 4

\* Between two reports the game sees no key come or go that did not: a key in
\* both reports is in some port at every moment, a key in neither is in none,
\* although setKeycode shifts the keys through the ports one by one.
NoGlitch ==
  /\ KeysOf(kbdbuf) \cap KeysOf(before) \subseteq KeysOf(port)
  /\ KeysOf(port) \subseteq KeysOf(kbdbuf) \cup KeysOf(before)
  /\ next = 0 => port = kbdbuf

=============================================================================
