----------------------------- MODULE GameProofs -----------------------------
(***************************************************************************)
(* Proofs about Control, for every hp width, every set of positions and    *)
(* every set of chords, and about Game, for every frame period of at least *)
(* three clock edges.                                                      *)
(*                                                                         *)
(* NoWrapInPlay is not inductive by itself: a clock edge in the play state *)
(* with a player at zero lives would wrap the counter if that player's     *)
(* trigger were up.  Quiet is the missing half: it cannot be, because the  *)
(* edge that took the last life also sent the debouncer back to 0.         *)
(*                                                                         *)
(* OneLifePerDeath is not inductive: a state in which a flag is up while   *)
(* the debouncer is about to fire, or one in which a flag is about to fall *)
(* before the debouncer has seen it, would lose a death.  InStep rules     *)
(* them out by tying each debouncer to the frame clock.                    *)
(***************************************************************************)
EXTENDS Game, TLAPS

-----------------------------------------------------------------------------
(* The referee *)

\* In play, a player without lives has no second loss in the pipeline.
Quiet ==
  \A p \in Players : state = "play" /\ lives[p] = 0 => debounce[p] # 2

IInv == TypeOK /\ Quiet

-----------------------------------------------------------------------------

\* The life counter keeps its two bits, and counts 1 down to 0.
LEMMA LivesDown ==
  ASSUME NEW n \in 0..3
  PROVE  /\ (n + 3) % 4 \in 0..3
         /\ n > 0 => (n + 3) % 4 = n - 1
<1>1. n = 0 \/ n = 1 \/ n = 2 \/ n = 3
  OBVIOUS
<1> QED
  BY <1>1

\* A register of a given width holds a value of that width after counting.
LEMMA HpWrap ==
  ASSUME NEW n \in 0..HpWord-1
  PROVE  (n + 1) % HpWord \in 0..HpWord-1
<1>1. HpWord \in Nat \ {0} /\ n + 1 \in Nat
  BY ControlAssumption
<1> QED
  BY <1>1

\* What a clock edge does to each player's registers, from well-typed ones.
LEMMA TickTypes ==
  ASSUME TypeOK, NEW p \in Players
  PROVE  /\ NextState \in {"ready", "play", "endgame"}
         /\ NextLives(p) \in 0..3
         /\ NextHp(p) \in 0..HpWord-1
         /\ NextDebounce(p) \in 0..2
<1>1. /\ state \in {"ready", "play", "endgame"}
      /\ lives[p] \in 0..3
      /\ hp[p] \in 0..HpWord-1
      /\ debounce[p] \in 0..2
  BY DEF TypeOK
<1>2. NextState \in {"ready", "play", "endgame"}
  BY <1>1 DEF NextState
<1>3. NextLives(p) \in 0..3
  BY <1>1, LivesDown DEF NextLives
<1>4. NextHp(p) \in 0..HpWord-1
  <2>1. (hp[p] + 1) % HpWord \in 0..HpWord-1
    BY <1>1, HpWrap
  <2>2. 0 \in 0..HpWord-1
    BY ControlAssumption
  <2> QED
    BY <1>1, <2>1, <2>2 DEF NextHp
<1>5. NextDebounce(p) \in 0..2
  BY <1>1 DEF NextDebounce
<1> QED
  BY <1>2, <1>3, <1>4, <1>5

-----------------------------------------------------------------------------

LEMMA InitInv == Init => IInv
  BY DEF Init, IInv, TypeOK, Quiet

LEMMA TypeStep == TypeOK /\ [Next]_vars => TypeOK'
<1> SUFFICES ASSUME TypeOK, [Next]_vars
             PROVE  TypeOK'
  OBVIOUS
<1> USE DEF TypeOK
<1>1. CASE Tick
  <2>1. state' \in {"ready", "play", "endgame"}
    BY <1>1, TickTypes DEF Tick, Players
  <2>2. lives' \in [Players -> 0..3]
    BY <1>1, TickTypes DEF Tick
  <2>3. hp' \in [Players -> 0..HpWord-1]
    BY <1>1, TickTypes DEF Tick
  <2>4. debounce' \in [Players -> 0..2]
    BY <1>1, TickTypes DEF Tick
  <2> QED
    BY <1>1, <2>1, <2>2, <2>3, <2>4 DEF Tick, inputs
<1>2. CASE Reset
  BY <1>2 DEF Reset, inputs
<1>3. ASSUME NEW k \in Chords, WriteKeys(k)
      PROVE  TypeOK'
  BY <1>3, ControlAssumption DEF WriteKeys, registers
<1>4. ASSUME NEW d \in [Players -> BOOLEAN], NEW q \in [Players -> Positions],
             MoveFighters(d, q)
      PROVE  TypeOK'
  BY <1>4 DEF MoveFighters, registers
<1>5. CASE UNCHANGED vars
  BY <1>5 DEF vars, registers, inputs
<1> QED
  BY <1>1, <1>2, <1>3, <1>4, <1>5 DEF Next

LEMMA QuietStep == TypeOK /\ Quiet /\ [Next]_vars => Quiet'
<1> SUFFICES ASSUME TypeOK, Quiet, [Next]_vars, NEW p \in Players,
                    state' = "play", lives'[p] = 0
             PROVE  debounce'[p] # 2
  BY DEF Quiet
<1>1. CASE Tick
  <2>1. lives'[p] = NextLives(p) /\ debounce'[p] = NextDebounce(p)
    BY <1>1 DEF Tick
  <2>2. state = "play" /\ ~ Dead(p)
    <3>1. state # "ready"
      BY <2>1 DEF NextLives, Start
    <3>2. state # "endgame"
      BY <1>1 DEF Tick, NextState
    <3> QED
      BY <1>1, <3>1, <3>2 DEF Tick, NextState, TypeOK
  <2>3. Trigger(p)
    BY <2>1, <2>2 DEF NextLives, Dead, Start
  <2> QED
    BY <2>1, <2>3 DEF Trigger, NextDebounce
<1>2. CASE Reset
  BY <1>2 DEF Reset
<1>3. CASE \E k \in Chords : WriteKeys(k)
  BY <1>3 DEF WriteKeys, registers, Quiet
<1>4. CASE \E d \in [Players -> BOOLEAN], q \in [Players -> Positions] :
             MoveFighters(d, q)
  BY <1>4 DEF MoveFighters, registers, Quiet
<1>5. CASE UNCHANGED vars
  BY <1>5 DEF vars, registers, Quiet
<1> QED
  BY <1>1, <1>2, <1>3, <1>4, <1>5 DEF Next

\* In play no clock edge takes a life from a player who has none left.
LEMMA NoLoss ==
  ASSUME IInv, NEW p \in Players, state = "play", lives[p] = 0
  PROVE  NextLives(p) = 0
  BY DEF IInv, Quiet, NextLives, Trigger, Start

-----------------------------------------------------------------------------

\* The inductive invariant holds in every reachable state.
LEMMA Invariance == Spec => []IInv
<1>1. IInv /\ [Next]_vars => IInv'
  BY TypeStep, QuietStep DEF IInv
<1> QED
  BY InitInv, <1>1, PTL DEF Spec

\* Every register of the referee keeps its width (control.sv, all registers).
THEOREM TypeCorrect == Spec => []TypeOK
<1>1. IInv => TypeOK
  BY DEF IInv
<1> QED
  BY Invariance, <1>1, PTL

\* The two-bit life counters never wrap while a match is on, although
\* life_counter has no guard against it.
THEOREM LivesNeverWrap == Spec => NoWrapInPlay
<1>1. IInv /\ [Next]_vars =>
        [state = "play" =>
           \A p \in Players : lives'[p] \in {lives[p], lives[p] - 1}]_vars
  <2> SUFFICES ASSUME IInv, [Next]_vars, state = "play", NEW p \in Players
               PROVE  lives'[p] \in {lives[p], lives[p] - 1}
    OBVIOUS
  <2>1. CASE Tick
    <3>1. lives'[p] = NextLives(p)
      BY <2>1 DEF Tick
    <3>2. lives[p] \in 0..3
      BY DEF IInv, TypeOK
    <3>3. CASE lives[p] = 0
      BY <3>1, <3>3, NoLoss
    <3>4. CASE lives[p] > 0
      BY <3>1, <3>2, <3>4, LivesDown DEF NextLives, Start
    <3> QED
      BY <3>2, <3>3, <3>4
  <2>2. CASE ~ Tick
    BY <2>2 DEF Next, Reset, WriteKeys, MoveFighters, registers, vars
  <2> QED
    BY <2>1, <2>2
<1> QED
  BY Invariance, <1>1, PTL DEF Spec, NoWrapInPlay

\* Every match begins with three lives and no damage on both sides.
THEOREM MatchesStartFresh == Spec => FreshMatch
<1>1. IInv /\ [Next]_vars =>
        [state # "play" /\ state' = "play" =>
           \A p \in Players : lives'[p] = 3 /\ hp'[p] = 0]_vars
  <2> SUFFICES ASSUME IInv, [Next]_vars, state # "play", state' = "play",
                      NEW p \in Players
               PROVE  lives'[p] = 3 /\ hp'[p] = 0
    OBVIOUS
  <2>1. Tick
    BY DEF Next, Reset, WriteKeys, MoveFighters, registers, vars
  <2>2. Start
    BY <2>1 DEF Tick, NextState, Start, IInv, TypeOK
  <2> QED
    BY <2>1, <2>2 DEF Tick, NextLives, NextHp
<1> QED
  BY Invariance, <1>1, PTL DEF Spec, FreshMatch

\* The player named as the loser when a match ends has no lives left.
THEOREM VerdictsAreJust == Spec => JustVerdict
<1>1. IInv /\ [Next]_vars =>
        [state = "play" /\ state' = "endgame" =>
           /\ Screen' = 2 => lives'[1] = 0
           /\ Screen' = 3 => lives'[2] = 0]_vars
  <2> SUFFICES ASSUME IInv, [Next]_vars, state = "play", state' = "endgame"
               PROVE  /\ Screen' = 2 => lives'[1] = 0
                      /\ Screen' = 3 => lives'[2] = 0
    OBVIOUS
  <2>1. Tick
    BY DEF Next, Reset, WriteKeys, MoveFighters, registers, vars
  <2>2. PICK p \in Players : Dead(p)
    BY <2>1 DEF Tick, NextState
  <2>3. lives'[p] = 0
    BY <2>1, <2>2, NoLoss DEF Tick, Dead
  <2>4. Screen' = IF lives'[1] = 0 THEN 2 ELSE 3
    BY DEF Screen, Dead
  <2> QED
    BY <2>3, <2>4 DEF Players
<1> QED
  BY Invariance, <1>1, PTL DEF Spec, JustVerdict

-----------------------------------------------------------------------------
(* The referee and the fighters *)

\* The debouncer has seen a flag before the next frame drops it (the flag is
\* new on the first edge of a frame, or a leftover when the reset is
\* released), and it has settled before the next frame can raise it.
InStep ==
  \A p \in Players :
    /\ death[p] => ~ out[p] /\ debounce[p] # 2
    /\ death[p] /\ debounce[p] = 0 => clock > 0
    /\ ~ death[p] /\ debounce[p] = 1 => clock = FramePeriod
    /\ debounce[p] = 2 => clock = FramePeriod - 1

GameInv == GameTypeOK /\ InStep /\ OneLifePerDeath /\ NoDamageWhileDead

-----------------------------------------------------------------------------

\* Every step of the game is a step of the referee, so that whatever holds
\* of Control holds of the game.
THEOREM GameImplementsControl == GameSpec => Spec
<1>1. GameInit => Init
  BY DEF GameInit
<1>2. [GameNext]_gameVars => [Next]_vars
  BY DEF GameNext, PixelClock, Frame, ResetButton, Type, Next, gameVars
<1> QED
  BY <1>1, <1>2, PTL DEF GameSpec, Spec

-----------------------------------------------------------------------------

\* Arithmetic of the two-bit counters.
LEMMA Count ==
  ASSUME NEW n \in 0..3, NEW d \in 0..3
  PROVE  /\ (n + d) % 4 = 0 => (((n + 3) % 4) + d) % 4 = 3
         /\ (n + d) % 4 = 3 => (n + ((d + 1) % 4)) % 4 = 0
         /\ (d + 1) % 4 \in 0..3
<1>1. n = 0 \/ n = 1 \/ n = 2 \/ n = 3
  OBVIOUS
<1>2. d = 0 \/ d = 1 \/ d = 2 \/ d = 3
  OBVIOUS
<1> QED
  BY <1>1, <1>2

\* What a pixel clock edge does to the debouncer, by its value.
LEMMA DebounceStep ==
  ASSUME TypeOK, NEW p \in Players, Tick
  PROVE  /\ debounce[p] = 0 => debounce'[p] = IF death[p] THEN 1 ELSE 0
         /\ debounce[p] = 1 => debounce'[p] = IF death[p] THEN 1 ELSE 2
         /\ debounce[p] = 2 => debounce'[p] = 0
         /\ debounce[p] \in 0..2
         /\ death'[p] = death[p]
BY DEF Tick, NextDebounce, TypeOK, inputs

\* What the start of a frame does to the debouncer and the flag.
LEMMA FrameStep ==
  ASSUME GameTypeOK, NEW p \in Players, Frame
  PROVE  /\ debounce' = debounce /\ lives' = lives /\ hp' = hp
         /\ state' = state
         /\ death'[p] = out[p]
         /\ death'[p] => ~ out'[p]
BY DEF Frame, MoveFighters, registers, GameTypeOK, TypeOK,
       Fighter!Frame, Fighter!Die, Fighter!Survive

-----------------------------------------------------------------------------

LEMMA GameInitInv == GameInit => GameInv
<1> SUFFICES ASSUME GameInit
             PROVE  GameInv
  OBVIOUS
<1>1. TypeOK
  BY InitInv DEF GameInit, IInv
<1>2. GameTypeOK
  BY <1>1, GameAssumption DEF GameInit, GameTypeOK
<1>3. InStep
  BY DEF GameInit, Init, InStep
<1>4. OneLifePerDeath /\ NoDamageWhileDead
  BY DEF GameInit, Init, OneLifePerDeath, NoDamageWhileDead
<1> QED
  BY <1>2, <1>3, <1>4 DEF GameInv

LEMMA GameTypeStep == GameTypeOK /\ [GameNext]_gameVars => GameTypeOK'
<1> SUFFICES ASSUME GameTypeOK, [GameNext]_gameVars
             PROVE  GameTypeOK'
  OBVIOUS
<1> USE GameAssumption DEF GameTypeOK
<1>1. TypeOK'
  <2>1. [Next]_vars
    BY DEF GameNext, PixelClock, Frame, ResetButton, Type, Next, gameVars
  <2> QED
    BY <2>1, TypeStep
<1>2. CASE PixelClock
  BY <1>1, <1>2 DEF PixelClock
<1>3. CASE Frame
  BY <1>1, <1>3, Count DEF Frame
<1>4. CASE ResetButton
  BY <1>1, <1>4 DEF ResetButton
<1>5. CASE \E k \in Chords : Type(k)
  BY <1>1, <1>5 DEF Type
<1>6. CASE UNCHANGED gameVars
  BY <1>1, <1>6 DEF gameVars
<1> QED
  BY <1>2, <1>3, <1>4, <1>5, <1>6 DEF GameNext

LEMMA InStepStep ==
  GameTypeOK /\ InStep /\ [GameNext]_gameVars => InStep'
<1> SUFFICES ASSUME GameTypeOK, InStep, [GameNext]_gameVars,
                    NEW p \in Players
             PROVE  /\ death'[p] => ~ out'[p] /\ debounce'[p] # 2
                    /\ death'[p] /\ debounce'[p] = 0 => clock' > 0
                    /\ ~ death'[p] /\ debounce'[p] = 1 => clock' = FramePeriod
                    /\ debounce'[p] = 2 => clock' = FramePeriod - 1
  BY DEF InStep
<1> USE GameAssumption
<1>0. /\ clock \in 0..FramePeriod
      /\ debounce[p] \in 0..2
      /\ death[p] => ~ out[p] /\ debounce[p] # 2
      /\ death[p] /\ debounce[p] = 0 => clock > 0
      /\ ~ death[p] /\ debounce[p] = 1 => clock = FramePeriod
      /\ debounce[p] = 2 => clock = FramePeriod - 1
  BY DEF GameTypeOK, TypeOK, InStep
<1>1. CASE PixelClock
  BY <1>0, <1>1, DebounceStep DEF PixelClock, GameTypeOK
<1>2. CASE Frame
  <2>1. clock = 0 /\ clock' = FramePeriod
    BY <1>2 DEF Frame
  <2> QED
    BY <1>0, <1>2, <2>1, FrameStep
<1>3. CASE ResetButton
  BY <1>3 DEF ResetButton, Reset
<1>4. CASE \E k \in Chords : Type(k)
  BY <1>0, <1>4 DEF Type, WriteKeys, registers
<1>5. CASE UNCHANGED gameVars
  BY <1>0, <1>5 DEF gameVars, vars, registers, inputs
<1> QED
  BY <1>1, <1>2, <1>3, <1>4, <1>5 DEF GameNext

\* A clock edge outside the start screen: a life goes when, and only when, a
\* pending death is settled.
LEMMA LossStep ==
  ASSUME GameTypeOK, InStep, OneLifePerDeath, PixelClock, state # "ready",
         NEW p \in Players
  PROVE  (lives'[p] + deaths'[p]) % 4 = IF Pending(p)' THEN 0 ELSE 3
<1>1. /\ lives[p] \in 0..3 /\ deaths[p] \in 0..3
      /\ deaths'[p] = deaths[p]
      /\ lives'[p] = IF debounce[p] = 2 THEN (lives[p] + 3) % 4 ELSE lives[p]
      /\ (lives[p] + deaths[p]) % 4 = IF Pending(p) THEN 0 ELSE 3
  BY DEF GameTypeOK, TypeOK, PixelClock, Tick, NextLives, Start, Trigger,
         OneLifePerDeath
<1>2. /\ debounce[p] = 0 => debounce'[p] = IF death[p] THEN 1 ELSE 0
      /\ debounce[p] = 1 => debounce'[p] = IF death[p] THEN 1 ELSE 2
      /\ debounce[p] = 2 => debounce'[p] = 0 /\ ~ death[p]
      /\ debounce[p] \in 0..2
      /\ death'[p] = death[p]
  BY DebounceStep DEF PixelClock, GameTypeOK, InStep
<1>3. CASE debounce[p] = 2
  <2>1. Pending(p) /\ ~ Pending(p)'
    BY <1>2, <1>3 DEF Pending
  <2> QED
    BY <1>1, <1>3, <2>1, Count
<1>4. CASE debounce[p] # 2
  <2>1. Pending(p)' <=> Pending(p)
    BY <1>2, <1>4 DEF Pending
  <2> QED
    BY <1>1, <1>4, <2>1
<1> QED
  BY <1>3, <1>4

LEMMA LifeStep ==
  GameTypeOK /\ InStep /\ OneLifePerDeath /\ [GameNext]_gameVars =>
    OneLifePerDeath'
<1> SUFFICES ASSUME GameTypeOK, InStep, OneLifePerDeath,
                    [GameNext]_gameVars, state' # "ready", NEW p \in Players
             PROVE  (lives'[p] + deaths'[p]) % 4
                      = IF Pending(p)' THEN 0 ELSE 3
  BY DEF OneLifePerDeath
<1>1. CASE PixelClock
  <2>1. CASE Start
    <3>1. lives'[p] = 3 /\ deaths'[p] = IF Pending(p)' THEN 1 ELSE 0
      BY <1>1, <2>1 DEF PixelClock, Tick, NextLives
    <3> QED
      BY <3>1
  <2>2. CASE ~ Start
    BY <1>1, <2>2, LossStep DEF Start
  <2> QED
    BY <2>1, <2>2
<1>2. CASE Frame
  <2>1. /\ lives'[p] = lives[p] /\ debounce'[p] = debounce[p]
        /\ state # "ready" /\ death'[p] = out[p]
        /\ lives[p] \in 0..3 /\ deaths[p] \in 0..3
        /\ (lives[p] + deaths[p]) % 4 = IF Pending(p) THEN 0 ELSE 3
    BY <1>2, FrameStep DEF GameTypeOK, TypeOK, OneLifePerDeath
  <2>2. debounce[p] # 2 /\ (death[p] => debounce[p] = 1 /\ ~ out[p])
    BY <1>2, GameAssumption DEF Frame, InStep, GameTypeOK, TypeOK
  <2>3. ~ death[p] => debounce[p] = 0
    BY <1>2, <2>2, GameAssumption DEF Frame, InStep, GameTypeOK, TypeOK
  <2>4. CASE out[p]
    <3>1. ~ Pending(p) /\ Pending(p)'
      BY <2>1, <2>2, <2>3, <2>4 DEF Pending
    <3>2. deaths'[p] = (deaths[p] + 1) % 4
      BY <1>2, <2>1, <2>4 DEF Frame, Start
    <3> QED
      BY <2>1, <3>1, <3>2, Count
  <2>5. CASE ~ out[p]
    <3>1. Pending(p)' <=> Pending(p)
      BY <2>1, <2>2, <2>3, <2>5 DEF Pending
    <3>2. deaths'[p] = deaths[p]
      BY <1>2, <2>1, <2>5 DEF Frame
    <3> QED
      BY <2>1, <3>1, <3>2
  <2> QED
    BY <2>4, <2>5
<1>3. CASE ResetButton
  BY <1>3 DEF ResetButton, Reset
<1>4. CASE \E k \in Chords : Type(k)
  BY <1>4 DEF Type, WriteKeys, registers, OneLifePerDeath, Pending
<1>5. CASE UNCHANGED gameVars
  BY <1>5 DEF gameVars, vars, registers, inputs, OneLifePerDeath, Pending
<1> QED
  BY <1>1, <1>2, <1>3, <1>4, <1>5 DEF GameNext

LEMMA DamageStep ==
  GameTypeOK /\ InStep /\ NoDamageWhileDead /\ [GameNext]_gameVars =>
    NoDamageWhileDead'
<1> SUFFICES ASSUME GameTypeOK, InStep, NoDamageWhileDead,
                    [GameNext]_gameVars, NEW p \in Players,
                    death'[p], debounce'[p] = 1
             PROVE  hp'[p] = 0
  BY DEF NoDamageWhileDead
<1>1. CASE PixelClock
  BY <1>1, DebounceStep DEF PixelClock, GameTypeOK, Tick, NextHp
<1>2. CASE Frame
  \* The flag was down and the debouncer idle, or it would be down now.
  <2>1. ~ death[p] => debounce[p] # 1
    BY <1>2, GameAssumption DEF Frame, InStep
  <2> QED
    BY <1>2, <2>1, FrameStep DEF NoDamageWhileDead
<1>3. CASE ResetButton
  BY <1>3 DEF ResetButton, Reset
<1>4. CASE \E k \in Chords : Type(k)
  BY <1>4 DEF Type, WriteKeys, registers, NoDamageWhileDead
<1>5. CASE UNCHANGED gameVars
  BY <1>5 DEF gameVars, vars, registers, inputs, NoDamageWhileDead
<1> QED
  BY <1>1, <1>2, <1>3, <1>4, <1>5 DEF GameNext

LEMMA GameInvariance == GameSpec => []GameInv
<1>1. GameInv /\ [GameNext]_gameVars => GameInv'
  BY GameTypeStep, InStepStep, LifeStep, DamageStep DEF GameInv
<1> QED
  BY GameInitInv, <1>1, PTL DEF GameSpec

-----------------------------------------------------------------------------

\* The composition keeps its types (lab62.sv, the signals between modules).
THEOREM GameTypeCorrect == GameSpec => []GameTypeOK
<1>1. GameInv => GameTypeOK
  BY DEF GameInv
<1> QED
  BY GameInvariance, <1>1, PTL

\* Each death costs exactly one life (control.sv, signal_debounce and
\* life_counter against the flags of ball.sv and ball2.sv).
THEOREM DeathsAreCountedOnce == GameSpec => []OneLifePerDeath
<1>1. GameInv => OneLifePerDeath
  BY DEF GameInv
<1> QED
  BY GameInvariance, <1>1, PTL

\* A fighter comes back without damage (control.sv, reset_hp).
THEOREM DamageDiesToo == GameSpec => []NoDamageWhileDead
<1>1. GameInv => NoDamageWhileDead
  BY DEF GameInv
<1> QED
  BY GameInvariance, <1>1, PTL

\* While a match is on in the composed game, no life counter wraps.
THEOREM GameLivesNeverWrap == GameSpec => NoWrapInPlay
  BY GameImplementsControl, LivesNeverWrap, PTL

\* In the composed game, a match begins with three lives and no damage, and
\* the end screen names a player without lives.
THEOREM GameIsFair == GameSpec => FreshMatch /\ JustVerdict
  BY GameImplementsControl, MatchesStartFresh, VerdictsAreJust, PTL

\* The part of DyingEndsMatch that holds step by step: a flag that rises finds
\* the debouncer idle, a death that is settled within a match takes exactly one
\* life, and the first clock edge that sees a player without lives ends the
\* match.  As lives do not grow in play, the third death is the last one.
THEOREM DeathsShortenTheMatch ==
  GameSpec =>
    /\ [][Frame => \A p \in Players : death'[p] => ~ Pending(p)]_gameVars
    /\ [][state = "play" /\ state' = "play" =>
            \A p \in Players :
              Pending(p) /\ ~ Pending(p)' => lives'[p] = lives[p] - 1]_gameVars
    /\ [][state = "play" /\ PixelClock /\ (\E p \in Players : Dead(p)) =>
            state' = "endgame"]_gameVars
<1>1. ASSUME GameInv, Frame, NEW p \in Players, death'[p]
      PROVE  ~ Pending(p)
  <2>1. out[p] /\ clock = 0
    BY <1>1, FrameStep DEF GameInv, Frame
  <2>2. ~ death[p] /\ debounce[p] \in 0..2
    BY <1>1, <2>1 DEF GameInv, InStep, GameTypeOK, TypeOK
  <2> QED
    BY <1>1, <2>1, <2>2, GameAssumption DEF GameInv, InStep, Pending
<1>2. ASSUME GameInv, [GameNext]_gameVars, state = "play", state' = "play",
             NEW p \in Players, Pending(p), ~ Pending(p)'
      PROVE  lives'[p] = lives[p] - 1
  <2>1. CASE PixelClock
    <3>1. Tick /\ GameTypeOK /\ TypeOK
      BY <1>2, <2>1 DEF PixelClock, GameInv, GameTypeOK
    <3>2. debounce[p] = 2
      BY <1>2, <3>1, DebounceStep DEF Pending, GameInv, InStep
    <3>3. lives[p] \in 0..3 /\ lives[p] > 0
      BY <1>2, <3>1 DEF TypeOK, Tick, NextState, Dead
    <3>4. lives'[p] = (lives[p] + 3) % 4
      BY <1>2, <3>1, <3>2 DEF Tick, NextLives, Start, Trigger
    <3> QED
      BY <3>3, <3>4, LivesDown
  <2>2. CASE Frame
    BY <1>2, <2>2, FrameStep, GameAssumption
       DEF Pending, GameInv, InStep, Frame, GameTypeOK, TypeOK
  <2>3. CASE ResetButton
    BY <1>2, <2>3 DEF ResetButton, Reset
  <2>4. CASE \E k \in Chords : Type(k)
    BY <1>2, <2>4 DEF Type, WriteKeys, registers, Pending
  <2>5. CASE UNCHANGED gameVars
    BY <1>2, <2>5 DEF gameVars, vars, registers, inputs, Pending
  <2> QED
    BY <1>2, <2>1, <2>2, <2>3, <2>4, <2>5 DEF GameNext
<1>3. ASSUME GameInv, state = "play", PixelClock, NEW p \in Players, Dead(p)
      PROVE  state' = "endgame"
  BY <1>3 DEF PixelClock, Tick, NextState
<1>4. GameInv /\ [GameNext]_gameVars =>
        [Frame => \A p \in Players : death'[p] => ~ Pending(p)]_gameVars
  BY <1>1
<1>5. GameInv /\ [GameNext]_gameVars =>
        [state = "play" /\ state' = "play" =>
           \A p \in Players :
             Pending(p) /\ ~ Pending(p)' => lives'[p] = lives[p] - 1]_gameVars
  BY <1>2
<1>6. GameInv /\ [GameNext]_gameVars =>
        [state = "play" /\ PixelClock /\ (\E p \in Players : Dead(p)) =>
           state' = "endgame"]_gameVars
  BY <1>3
<1> QED
  BY <1>4, <1>5, <1>6, GameInvariance, PTL DEF GameSpec
=============================================================================
