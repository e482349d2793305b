----------------------------- MODULE SpiProofs -----------------------------
(***************************************************************************)
(* Proofs about Spi for every length of the data, that of an empty packet  *)
(* included: the chip gets whole frames, and a read returns its answers.   *)
(* Where no call is empty, a call also makes progress with every step.     *)
(*                                                                         *)
(* The driver has one credit, so that at most one byte is on its way:      *)
(* waiting to be sent (tx), being exchanged (shift), or answered and not   *)
(* yet read (rx).  Whatever the place of that byte, the bytes the chip has *)
(* and the answers the driver has follow from the driver's counters.       *)
(***************************************************************************)
EXTENDS Spi, SequenceTheorems, TLAPS

\* The call of the driver under way: bytes to exchange, bytes given to the
\* core, answers taken from it, and bytes of the frame before the call.
Total    == WriteLength + ReadLength
Given    == Total - left - write_zeros
Answered == WriteLength - read_ignore + Len(got)
Before   == IF command = 1 THEN 0 ELSE 1

\* Byte k of a frame, from 1 on: the command, then the data of a write or
\* fillers.
Expected(k) == IF k = 1 THEN 0 ELSE IF dir = "write" THEN k - 1 ELSE Filler

SpiTypeOK ==
    /\ pc \in {"idle", "begin", "poll", "send", "receive", "drain"}
    /\ dir \in {"read", "write"} /\ n \in Nat /\ command \in {1, 2}
    /\ pc # "idle" => n \in Lengths
    /\ left \in Nat /\ write_zeros \in Nat /\ read_ignore \in Nat /\ credits \in Int
    /\ got \in Seq(Int) /\ status \subseteq {"TRDY", "RRDY"}
    /\ sso \in BOOLEAN
    /\ tx \in Int /\ shift \in Int /\ rx \in Int
    /\ frame \in Seq(Int)

Working == pc \in {"poll", "send", "receive", "drain"}

\* The counters of the driver count towards the lengths of the call.
CountersOK ==
    /\ left <= WriteLength /\ write_zeros <= ReadLength
    /\ read_ignore <= WriteLength /\ Len(got) <= ReadLength

\* At most one byte is on its way, and it is in one place.
OneInFlight ==
    \/ /\ tx = Empty /\ shift = Empty /\ rx = Empty
       /\ Given = Answered
       /\ pc # "drain" => (credits = 1 \/ (Total = 0 /\ credits < 0))
    \/ /\ Given = Answered + 1 /\ credits = 0 /\ pc # "drain"
       /\ \/ tx # Empty /\ shift = Empty /\ rx = Empty
          \/ tx = Empty /\ shift # Empty /\ rx = Empty
          \/ tx = Empty /\ shift = Empty /\ rx = Before + Answered

\* The chip has the bytes given that are not on their way.
FrameOK ==
    /\ Len(frame) = Before + (IF tx # Empty \/ shift # Empty THEN Answered ELSE Given)
    /\ \A k \in 1..Len(frame) : frame[k] = Expected(k)
    /\ tx # Empty => tx = Expected(Len(frame) + 1)
    /\ shift # Empty => shift = Expected(Len(frame) + 1)

\* The answers kept are numbered from 1 on.
AnswersOK == \A k \in 1..Len(got) : got[k] = k

\* What the program remembers of the status is still true.
StatusOK ==
    pc \in {"send", "receive"} =>
        /\ "RRDY" \in status => rx # Empty
        /\ "TRDY" \in status /\ pc = "send" => tx = Empty
        /\ "RRDY" \notin status /\ pc = "send" => "TRDY" \in status /\ credits # 0

WorkingOK ==
    Working =>
        /\ sso = TRUE
        /\ CountersOK /\ OneInFlight /\ FrameOK /\ AnswersOK /\ StatusOK
        /\ pc = "drain" => Answered = Total /\ Total > 0
        /\ pc # "drain" /\ Total > 0 => Answered < Total

\* Between two calls of the driver nothing is on its way, and the frame holds
\* the command byte when the data follow.
BetweenOK ==
    ~Working =>
        /\ tx = Empty /\ shift = Empty
        /\ sso <=> command = 2
        /\ pc = "idle" => command = 1
        /\ command = 2 => frame = <<0>> /\ rx = Empty

IInv == SpiTypeOK /\ WorkingOK /\ BetweenOK

-----------------------------------------------------------------------------

\* The lengths of the two calls of the driver.
LEMMA Totals ==
  ASSUME SpiTypeOK
  PROVE  /\ WriteLength \in Nat /\ ReadLength \in Nat
         /\ command = 1 => WriteLength = 1 /\ ReadLength = 0
         /\ command = 2 /\ dir = "write" => WriteLength = n /\ ReadLength = 0
         /\ command = 2 /\ dir = "read" => WriteLength = 0 /\ ReadLength = n
  BY DEF SpiTypeOK, WriteLength, ReadLength

\* They do not change while a call is under way.
LEMMA SameCall ==
  ASSUME UNCHANGED call
  PROVE  /\ WriteLength' = WriteLength /\ ReadLength' = ReadLength
         /\ Total' = Total /\ Before' = Before
         /\ \A k : Expected(k)' = Expected(k)
  BY DEF call, WriteLength, ReadLength, Total, Before, Expected

LEMMA Appended ==
  ASSUME NEW s \in Seq(Int), NEW e \in Int
  PROVE  /\ Append(s, e) \in Seq(Int) /\ Len(Append(s, e)) = Len(s) + 1
         /\ \A k \in 1..Len(s) : Append(s, e)[k] = s[k]
         /\ Append(s, e)[Len(s) + 1] = e
         /\ Len(s) \in Nat
  OBVIOUS

LEMMA InitInv == Init => IInv
<1> SUFFICES ASSUME Init PROVE IInv
  OBVIOUS
<1>1. SpiTypeOK
  <2>1. <<>> \in Seq(Int) /\ {} \subseteq {"TRDY", "RRDY"} /\ Empty \in Int /\ Stale \in Int
    BY DEF Empty, Stale
  <2>2. sso \in BOOLEAN
    BY DEF Init
  <2> QED
    BY <2>1, <2>2 DEF Init, SpiTypeOK
<1>2. ~Working
  BY DEF Init, Working
<1>3. BetweenOK
  BY <1>2 DEF Init, BetweenOK
<1> QED
  BY <1>1, <1>2, <1>3 DEF IInv, WorkingOK

\* Every step keeps the types.
LEMMA TypeStep == IInv /\ [Next]_vars => SpiTypeOK'
<1> SUFFICES ASSUME IInv, [Next]_vars PROVE SpiTypeOK'
  OBVIOUS
<1> USE SpiAssumption DEF IInv, SpiTypeOK
<1>1. CASE Call
  BY <1>1 DEF Call, driver, core
<1>2. CASE Begin
  <2>1. WriteLength \in Nat /\ ReadLength \in Nat
    BY Totals
  <2>2. <<>> \in Seq(Int)
    OBVIOUS
  <2>3. frame' \in Seq(Int)
    BY <1>2, <2>2 DEF Begin
  <2> QED
    BY <1>2, <2>1, <2>2, <2>3 DEF Begin, call, Discarded, Empty
<1>3. CASE Poll
  BY <1>3 DEF Poll, call, core
<1>4. CASE Send
  <2>1. NextByte \in Int /\ Filler \in Int
    BY DEF NextByte, Filler
  <2>2. /\ left' \in Nat /\ write_zeros' \in Nat /\ credits' \in Int /\ tx' \in Int
    BY <1>4, <2>1 DEF Send, Put
  <2> QED
    BY <1>4, <2>2 DEF Send, call
<1>5. CASE Receive
  <2>1. CASE "RRDY" \notin status
    BY <1>5, <2>1 DEF Receive, call
  <2>2. CASE "RRDY" \in status
    <3>1. CASE read_ignore = 0
      <4>1. got' = Append(got, rx)
        BY <1>5, <2>2, <3>1 DEF Receive
      <4>2. got' \in Seq(Int)
        BY <4>1, Appended
      <4> QED
        BY <1>5, <2>2, <3>1, <4>2 DEF Receive, call, Empty
    <3>2. CASE read_ignore # 0
      BY <1>5, <2>2, <3>2 DEF Receive, call, Empty
    <3> QED
      BY <3>1, <3>2
  <2> QED
    BY <2>1, <2>2
<1>6. CASE Finish
  BY <1>6 DEF Finish, driver, Merge
<1>7. CASE Load
  BY <1>7 DEF Load, call, driver, Empty
<1>8. CASE Exchange
  <2>1. frame' \in Seq(Int) /\ Len(frame) \in Int
    BY <1>8, Appended DEF Exchange
  <2> QED
    BY <1>8, <2>1 DEF Exchange, call, driver, Empty
<1>9. CASE UNCHANGED vars
  BY <1>9 DEF vars, call, driver, core
<1> QED
  BY <1>1, <1>2, <1>3, <1>4, <1>5, <1>6, <1>7, <1>8, <1>9 DEF Next, Program

-----------------------------------------------------------------------------
(* The steps, one by one: from IInv to the two parts after the types. *)

Parts == WorkingOK /\ BetweenOK

LEMMA CallStep == IInv /\ Call => Parts'
<1> SUFFICES ASSUME IInv, Call PROVE Parts'
  OBVIOUS
<1>1. ~Working /\ ~Working'
  BY DEF Call, Working
<1> QED
  BY <1>1 DEF IInv, Parts, WorkingOK, BetweenOK, Call, core

LEMMA BeginStep == IInv /\ Begin => Parts'
<1> SUFFICES ASSUME IInv, Begin PROVE Parts'
  OBVIOUS
<1>1. ~Working /\ Working' /\ pc' = "poll"
  BY DEF Begin, Working
<1>2. /\ tx = Empty /\ shift = Empty
      /\ sso <=> command = 2
      /\ command = 2 => frame = <<0>>
      /\ command \in {1, 2}
  BY <1>1 DEF IInv, BetweenOK, SpiTypeOK
<1>3. UNCHANGED call
  BY DEF Begin
<1>4. /\ WriteLength \in Nat /\ ReadLength \in Nat
      /\ left' = WriteLength /\ write_zeros' = ReadLength
      /\ read_ignore' = WriteLength /\ got' = <<>> /\ credits' = 1
  BY Totals DEF Begin, IInv
<1>5. CountersOK'
  BY <1>3, <1>4, SameCall DEF CountersOK
<1>6. Given' = 0 /\ Answered' = 0 /\ Total' = WriteLength + ReadLength
  BY <1>3, <1>4, SameCall DEF Given, Answered, Total
<1>7. tx' = Empty /\ shift' = Empty /\ rx' = Empty
  BY <1>2 DEF Begin, Discarded
<1>8. OneInFlight'
  BY <1>1, <1>4, <1>6, <1>7 DEF OneInFlight
<1>9. FrameOK'
  <2>1. frame' = IF command = 1 THEN <<>> ELSE <<0>>
    BY <1>2 DEF Begin
  <2>2. Len(frame') = Before'
    BY <1>2, <1>3, <2>1, SameCall DEF Before
  <2>3. \A k \in 1..Len(frame') : frame'[k] = Expected(k)'
    BY <1>2, <2>1 DEF Expected
  <2> QED
    BY <1>2, <1>6, <1>7, <2>2, <2>3, <1>3, SameCall DEF FrameOK, Before
<1>10. AnswersOK' /\ StatusOK'
  BY <1>1, <1>4 DEF AnswersOK, StatusOK
<1>11. Working' => sso' = TRUE
  BY DEF Begin
<1>12. pc' # "drain" /\ Total' > 0 => Answered' < Total'
  BY <1>6
<1>13. WorkingOK'
  BY <1>1, <1>5, <1>8, <1>9, <1>10, <1>11, <1>12 DEF WorkingOK
<1> QED
  BY <1>1, <1>13 DEF Parts, BetweenOK

\* While a call of the driver is under way.
LEMMA AtWork ==
  ASSUME IInv, Working
  PROVE  /\ sso = TRUE /\ CountersOK /\ OneInFlight /\ FrameOK /\ AnswersOK /\ StatusOK
         /\ pc = "drain" => Answered = Total /\ Total > 0
         /\ pc # "drain" /\ Total > 0 => Answered < Total
         /\ Total \in Nat /\ Given \in Nat /\ Answered \in Nat /\ Len(frame) \in Nat
         /\ Before \in {0, 1} /\ Given <= Total
<1>1. /\ WriteLength \in Nat /\ ReadLength \in Nat /\ left \in Nat /\ write_zeros \in Nat
      /\ read_ignore \in Nat /\ Len(got) \in Nat /\ Len(frame) \in Nat
  BY Totals DEF IInv, SpiTypeOK
<1>2. CountersOK
  BY DEF IInv, WorkingOK
<1> QED
  BY <1>1, <1>2 DEF IInv, WorkingOK, CountersOK, Total, Given, Answered, Before

LEMMA PollStep == IInv /\ Poll => Parts'
<1> SUFFICES ASSUME IInv, Poll PROVE Parts'
  OBVIOUS
<1>1. Working /\ Working' /\ pc = "poll" /\ pc' = "send"
  BY DEF Poll, Working
<1>2. UNCHANGED call
  BY DEF Poll
<1>3. /\ UNCHANGED <<left, write_zeros, read_ignore, credits, got, sso, tx, shift, rx, frame>>
  BY DEF Poll, core
<1>4. Given' = Given /\ Answered' = Answered
  BY <1>2, <1>3, SameCall DEF Given, Answered
<1>5. CountersOK' /\ AnswersOK'
  BY <1>1, <1>2, <1>3, AtWork, SameCall DEF CountersOK, AnswersOK
<1>6. OneInFlight'
  BY <1>1, <1>2, <1>3, <1>4, AtWork, SameCall DEF OneInFlight
<1>7. FrameOK'
  BY <1>1, <1>2, <1>3, <1>4, AtWork, SameCall DEF FrameOK
<1>8. StatusOK'
  <2>1. (TRDY /\ credits # 0) \/ RRDY
    BY DEF Poll
  <2>2. ("TRDY" \in status' <=> TRDY) /\ ("RRDY" \in status' <=> RRDY)
    BY DEF Poll
  <2> QED
    BY <1>1, <1>3, <2>1, <2>2 DEF StatusOK, TRDY, RRDY
<1>9. WorkingOK'
  BY <1>1, <1>2, <1>3, <1>4, <1>5, <1>6, <1>7, <1>8, AtWork, SameCall DEF WorkingOK
<1> QED
  BY <1>1, <1>9 DEF Parts, BetweenOK

\* With a credit to spend nothing is on its way, and the next byte is put where
\* the frame expects it.
LEMMA SendStep == IInv /\ Send => Parts'
<1> SUFFICES ASSUME IInv, Send PROVE Parts'
  OBVIOUS
<1>1. Working /\ Working' /\ pc = "send" /\ pc' = "receive"
  BY DEF Send, Working
<1>2. UNCHANGED call /\ UNCHANGED <<read_ignore, got, status, sso, shift, rx, frame>>
  BY DEF Send
<1>3. /\ left \in Nat /\ write_zeros \in Nat /\ n \in Nat /\ command \in {1, 2} /\ credits \in Int
      /\ WriteLength \in Nat /\ ReadLength \in Nat
      /\ left <= WriteLength /\ write_zeros <= ReadLength
  BY <1>1, Totals, AtWork DEF IInv, SpiTypeOK, CountersOK
<1>4. Answered' = Answered
  BY <1>2, SameCall DEF Answered
<1>5. StatusOK' /\ AnswersOK'
  BY <1>1, <1>2, AtWork DEF StatusOK, AnswersOK
<1>6. CASE MaySend /\ (left > 0 \/ write_zeros > 0)
  <2>1. credits > 0 /\ "TRDY" \in status
    BY <1>6 DEF MaySend
  <2>2. tx = Empty /\ shift = Empty /\ rx = Empty /\ Given = Answered
    BY <1>1, <1>3, <2>1, AtWork DEF OneInFlight
  <2>3. credits = 1
    <3>1. Total > 0
      BY <1>3, <1>6 DEF Total
    <3> QED
      BY <1>1, <1>3, <2>1, AtWork, <3>1 DEF OneInFlight
  <2>4. Len(frame) = Before + Given
    BY <1>1, <2>2, AtWork DEF FrameOK
  <2>5. /\ tx' # Empty /\ tx' = Expected(Len(frame) + 1)
        /\ credits' = 0 /\ CountersOK' /\ Given' = Given + 1
    <3>1. CASE left > 0
      <4>1. tx' = NextByte /\ credits' = 0 /\ left' = left - 1 /\ write_zeros' = write_zeros
        BY <1>6, <2>3, <3>1 DEF Send, Put
      <4>2. Given' = Given + 1 /\ CountersOK'
        BY <1>1, <1>2, <1>3, <4>1, <3>1, SameCall, AtWork DEF Given, CountersOK, Total
      <4>3. CASE command = 1
        <5>1. WriteLength = 1 /\ ReadLength = 0
          BY <4>3, Totals DEF IInv
        <5>2. Len(frame) = 0
          BY <1>3, <2>4, <3>1, <4>3, <5>1 DEF Before, Given, Total
        <5>3. NextByte = 0 /\ Expected(Len(frame) + 1) = 0
          BY <4>3, <5>2 DEF NextByte, Expected
        <5> QED
          BY <4>1, <4>2, <5>3 DEF Empty
      <4>4. CASE command = 2
        <5>1. dir = "write" /\ WriteLength = n /\ ReadLength = 0
          BY <1>3, <3>1, <4>4 DEF WriteLength, ReadLength
        <5>2. Len(frame) = 1 + n - left
          BY <1>3, <2>4, <4>4, <5>1 DEF Before, Given, Total
        <5>3. NextByte = n - left + 1 /\ n - left >= 0
          BY <1>3, <4>4, <5>1 DEF NextByte
        <5>4. Expected(Len(frame) + 1) = n - left + 1
          BY <1>3, <5>1, <5>2, <5>3 DEF Expected
        <5> QED
          BY <1>3, <4>1, <4>2, <5>3, <5>4 DEF Empty
      <4> QED
        BY <1>3, <4>3, <4>4
    <3>2. CASE left = 0
      <4>1. tx' = Filler /\ credits' = 0 /\ write_zeros' = write_zeros - 1 /\ left' = left
        BY <1>3, <1>6, <2>3, <3>2 DEF Send, Put
      <4>2. Given' = Given + 1 /\ CountersOK'
        BY <1>1, <1>2, <1>3, <1>6, <4>1, <3>2, SameCall, AtWork DEF Given, CountersOK, Total
      <4>3. command = 2 /\ dir = "read" /\ Len(frame) >= 1
        BY <1>1, <1>3, <1>6, <2>4, <3>2, AtWork DEF ReadLength, Before
      <4>4. Expected(Len(frame) + 1) = Filler
        BY <1>1, <4>3, AtWork DEF Expected
      <4> QED
        BY <4>1, <4>2, <4>4 DEF Empty, Filler
    <3> QED
      BY <1>3, <3>1, <3>2
  <2>6. OneInFlight'
    BY <1>1, <1>2, <1>4, <2>2, <2>5 DEF OneInFlight
  <2>7. FrameOK'
    BY <1>1, <1>2, <1>4, <2>2, <2>4, <2>5, SameCall, AtWork DEF FrameOK
  <2>8. pc' # "drain" /\ Total' > 0 => Answered' < Total'
    BY <1>1, <1>2, <1>4, SameCall, AtWork
  <2>9. WorkingOK'
    BY <1>1, <1>2, <1>5, <2>5, <2>6, <2>7, <2>8, AtWork DEF WorkingOK
  <2> QED
    BY <1>1, <2>9 DEF Parts, BetweenOK
<1>7. CASE ~(MaySend /\ (left > 0 \/ write_zeros > 0))
  <2>1. UNCHANGED <<left, write_zeros, tx>>
    BY <1>3, <1>7 DEF Send
  <2>2. Given' = Given /\ CountersOK' /\ Total' = Total
    BY <1>1, <1>2, <2>1, SameCall, AtWork DEF Given, CountersOK
  <2>3. OneInFlight'
    <3>1. CASE MaySend
      <4>1. left = 0 /\ write_zeros = 0 /\ credits' = -1024 /\ credits > 0
        BY <1>3, <1>7, <3>1 DEF Send, MaySend
      <4>2. Given = Total
        BY <1>3, <4>1 DEF Given, Total
      <4>3. Given = Answered /\ tx = Empty /\ shift = Empty /\ rx = Empty
        BY <1>1, <1>3, <4>1, AtWork DEF OneInFlight
      <4>4. Total = 0
        BY <1>1, <4>2, <4>3, AtWork
      <4> QED
        BY <1>2, <1>4, <2>1, <2>2, <4>1, <4>3, <4>4 DEF OneInFlight
    <3>2. CASE ~MaySend
      <4>1. credits' = credits
        BY <3>2 DEF Send
      <4> QED
        BY <1>1, <1>2, <1>4, <2>1, <2>2, <4>1, SameCall, AtWork DEF OneInFlight
    <3> QED
      BY <3>1, <3>2
  <2>4. FrameOK'
    BY <1>1, <1>2, <1>4, <2>1, <2>2, SameCall, AtWork DEF FrameOK
  <2>5. pc' # "drain" /\ Total' > 0 => Answered' < Total'
    BY <1>1, <1>2, <1>4, SameCall, AtWork
  <2>6. WorkingOK'
    BY <1>1, <1>2, <1>5, <2>2, <2>3, <2>4, <2>5, AtWork DEF WorkingOK
  <2> QED
    BY <1>1, <2>6 DEF Parts, BetweenOK
<1> QED
  BY <1>6, <1>7

\* The answer taken is the one to the byte that was on its way; it is the last
\* one exactly when the program thinks so.
LEMMA ReceiveStep == IInv /\ Receive => Parts'
<1> SUFFICES ASSUME IInv, Receive PROVE Parts'
  OBVIOUS
<1>1. Working /\ Working' /\ pc = "receive" /\ pc' \in {"poll", "drain"}
  BY DEF Receive, Working
<1>2. UNCHANGED call /\ UNCHANGED <<left, write_zeros, status, sso, tx, shift, frame>>
  BY DEF Receive
<1>3. /\ read_ignore \in Nat /\ Len(got) \in Nat /\ got \in Seq(Int) /\ credits \in Int /\ rx \in Int
      /\ WriteLength \in Nat /\ ReadLength \in Nat
      /\ read_ignore <= WriteLength /\ Len(got) <= ReadLength
      /\ command \in {1, 2} /\ dir \in {"read", "write"}
  <2>1. CountersOK
    BY <1>1, AtWork
  <2>2. WriteLength \in Nat /\ ReadLength \in Nat
    BY Totals DEF IInv
  <2> QED
    BY <2>1, <2>2 DEF IInv, SpiTypeOK, CountersOK
<1>4. Given' = Given /\ Total' = Total /\ Before' = Before
  BY <1>2, SameCall DEF Given
<1>5. StatusOK' /\ sso' = TRUE
  BY <1>1, <1>2, AtWork DEF StatusOK
<1>6. CASE "RRDY" \notin status
  <2>1. UNCHANGED <<read_ignore, got, credits, rx>> /\ pc' = "poll"
    BY <1>6 DEF Receive
  <2>2. Answered' = Answered /\ CountersOK' /\ AnswersOK'
    BY <1>1, <1>2, <2>1, SameCall, AtWork DEF Answered, CountersOK, AnswersOK
  <2>3. OneInFlight' /\ FrameOK'
    BY <1>1, <1>2, <1>4, <2>1, <2>2, SameCall, AtWork DEF OneInFlight, FrameOK
  <2>4. WorkingOK'
    BY <1>1, <1>4, <1>5, <2>1, <2>2, <2>3, AtWork DEF WorkingOK
  <2> QED
    BY <1>1, <2>4 DEF Parts, BetweenOK
<1>7. CASE "RRDY" \in status
  <2>1. rx # Empty
    BY <1>1, <1>7, AtWork DEF StatusOK
  <2>2. /\ tx = Empty /\ shift = Empty /\ rx = Before + Answered
        /\ Given = Answered + 1 /\ credits = 0
    BY <1>1, <2>1, AtWork DEF OneInFlight
  <2>3. Total > 0 /\ Answered < Total
    BY <1>1, <2>2, AtWork
  <2>4. rx' = Empty /\ credits' = 1
    BY <1>7, <2>2 DEF Receive
  <2>5. Answered' = Answered + 1 /\ CountersOK' /\ AnswersOK'
    <3>1. CASE read_ignore = 0
      <4>1. got' = Append(got, rx) /\ read_ignore' = read_ignore
        BY <1>7, <3>1 DEF Receive
      <4>2. Len(got') = Len(got) + 1 /\ got'[Len(got) + 1] = rx
            /\ \A k \in 1..Len(got) : got'[k] = got[k]
        BY <1>3, <4>1, Appended
      <4>3. ReadLength > Len(got)
        BY <1>3, <2>3, <3>1 DEF Total, Answered
      <4>4. command = 2 /\ dir = "read" /\ WriteLength = 0
        BY <1>3, <4>3 DEF WriteLength, ReadLength
      <4>5. rx = Len(got) + 1
        BY <1>3, <2>2, <3>1, <4>4 DEF Before, Answered
      <4>6. AnswersOK'
        BY <1>1, <1>3, <4>2, <4>5, AtWork DEF AnswersOK
      <4>7. Answered' = Answered + 1
        BY <1>2, <1>3, <4>1, <4>2, SameCall DEF Answered
      <4>8. CountersOK'
        BY <1>1, <1>2, <1>3, <4>1, <4>2, <4>3, SameCall, AtWork DEF CountersOK
      <4> QED
        BY <4>6, <4>7, <4>8
    <3>2. CASE read_ignore # 0
      <4>1. got' = got /\ read_ignore' = read_ignore - 1
        BY <1>7, <3>2 DEF Receive
      <4>2. Answered' = Answered + 1
        BY <1>2, <1>3, <4>1, SameCall DEF Answered
      <4> QED
        BY <1>1, <1>2, <1>3, <3>2, <4>1, <4>2, SameCall, AtWork DEF AnswersOK, CountersOK
    <3> QED
      BY <3>1, <3>2
  <2>6. OneInFlight'
    BY <1>2, <1>4, <2>2, <2>4, <2>5 DEF OneInFlight
  <2>7. FrameOK'
    BY <1>1, <1>2, <1>4, <2>2, <2>5, SameCall, AtWork DEF FrameOK
  <2>8. /\ read_ignore' \in Nat /\ Len(got') \in Nat
        /\ read_ignore' <= WriteLength /\ Len(got') <= ReadLength
    <3>1. SpiTypeOK'
      BY TypeStep DEF Next, Program
    <3> QED
      BY <1>2, <2>5, <3>1, SameCall DEF SpiTypeOK, CountersOK
  <2>9. pc' = "drain" <=> Answered' = Total
    <3>1. pc' = "drain" <=> read_ignore' = 0 /\ Len(got') = ReadLength
      BY <1>7 DEF Receive, Complete
    <3>2. Answered' = WriteLength - read_ignore' + Len(got')
      BY <1>2, SameCall DEF Answered
    <3>3. PICK ri \in Nat, lg \in Nat : ri = read_ignore' /\ lg = Len(got')
      BY <2>8
    <3> QED
      BY <1>3, <2>8, <3>1, <3>2, <3>3 DEF Total
  <2>10. WorkingOK'
    BY <1>1, <1>4, <1>5, <2>3, <2>5, <2>6, <2>7, <2>9, AtWork DEF WorkingOK
  <2> QED
    BY <1>1, <2>10 DEF Parts, BetweenOK
<1> QED
  BY <1>6, <1>7

\* The frame of the first call is the command byte alone.
LEMMA FinishStep == IInv /\ Finish => Parts'
<1> SUFFICES ASSUME IInv, Finish PROVE Parts'
  OBVIOUS
<1>1. Working /\ ~Working' /\ pc = "drain" /\ command \in {1, 2}
  BY DEF Finish, Working, IInv, SpiTypeOK
<1>2. tx = Empty /\ shift = Empty /\ rx = Empty /\ Given = Answered /\ Answered = Total
  BY <1>1, AtWork DEF OneInFlight
<1>3. UNCHANGED <<tx, shift, rx, frame>> /\ (sso' <=> command = 1)
  BY DEF Finish, Merge
<1>4. CASE command = 1
  <2>1. Total = 1 /\ Before = 0
    BY <1>4, Totals DEF IInv, Total, Before
  <2>2. Len(frame) = 1 /\ frame[1] = 0 /\ frame \in Seq(Int)
    <3>1. FrameOK /\ Given = 1 /\ frame \in Seq(Int)
      BY <1>1, <1>2, <2>1, AtWork DEF IInv, SpiTypeOK
    <3>2. Len(frame) = 1
      BY <1>2, <2>1, <3>1 DEF FrameOK
    <3> QED
      BY <3>1, <3>2 DEF FrameOK, Expected
  <2>3. frame = <<0>>
    BY <2>2
  <2> QED
    BY <1>1, <1>2, <1>3, <1>4, <2>3 DEF Finish, Parts, WorkingOK, BetweenOK
<1>5. CASE command = 2
  BY <1>1, <1>2, <1>3, <1>5 DEF Finish, Parts, WorkingOK, BetweenOK
<1> QED
  BY <1>1, <1>4, <1>5

LEMMA LoadStep == IInv /\ Load => Parts'
<1> SUFFICES ASSUME IInv, Load PROVE Parts'
  OBVIOUS
<1>1. Working /\ Working'
  BY DEF Load, IInv, BetweenOK, Working
<1>2. UNCHANGED call /\ UNCHANGED <<pc, left, write_zeros, read_ignore, credits, got, status, sso, rx, frame>>
  BY DEF Load, driver
<1>3. tx # Empty /\ shift = Empty /\ shift' = tx /\ tx' = Empty
  BY DEF Load
<1>4. Given' = Given /\ Answered' = Answered /\ Total' = Total /\ Before' = Before
  BY <1>2, SameCall DEF Given, Answered
<1>5. CountersOK' /\ AnswersOK' /\ StatusOK'
  BY <1>1, <1>2, <1>3, SameCall, AtWork DEF CountersOK, AnswersOK, StatusOK
<1>6. OneInFlight' /\ FrameOK'
  BY <1>1, <1>2, <1>3, <1>4, SameCall, AtWork DEF OneInFlight, FrameOK
<1>7. WorkingOK'
  BY <1>1, <1>2, <1>4, <1>5, <1>6, AtWork DEF WorkingOK
<1> QED
  BY <1>1, <1>7 DEF Parts, BetweenOK

LEMMA ExchangeStep == IInv /\ Exchange => Parts'
<1> SUFFICES ASSUME IInv, Exchange PROVE Parts'
  OBVIOUS
<1>1. Working /\ Working'
  BY DEF Exchange, IInv, BetweenOK, Working
<1>2. UNCHANGED call /\ UNCHANGED <<pc, left, write_zeros, read_ignore, credits, got, status, sso, tx>>
  BY DEF Exchange, driver
<1>3. /\ shift # Empty /\ shift' = Empty /\ frame' = Append(frame, shift) /\ rx' = Len(frame)
  BY DEF Exchange
<1>4. Given' = Given /\ Answered' = Answered /\ Total' = Total /\ Before' = Before
  BY <1>2, SameCall DEF Given, Answered
<1>5. /\ tx = Empty /\ rx = Empty /\ Given = Answered + 1 /\ credits = 0 /\ pc # "drain"
      /\ Len(frame) = Before + Answered /\ shift = Expected(Len(frame) + 1)
  BY <1>1, <1>3, AtWork DEF OneInFlight, FrameOK
<1>6. /\ frame' \in Seq(Int) /\ Len(frame') = Len(frame) + 1
      /\ frame'[Len(frame) + 1] = shift /\ \A k \in 1..Len(frame) : frame'[k] = frame[k]
  BY <1>3, Appended DEF IInv, SpiTypeOK
<1>7. CountersOK' /\ AnswersOK'
  BY <1>1, <1>2, SameCall, AtWork DEF CountersOK, AnswersOK
<1>8. rx' # Empty /\ rx' = Before + Answered
  BY <1>1, <1>3, <1>5, AtWork DEF Empty
<1>9. StatusOK'
  BY <1>1, <1>2, <1>8, AtWork DEF StatusOK
<1>10. OneInFlight'
  BY <1>2, <1>3, <1>4, <1>5, <1>8 DEF OneInFlight
<1>11. FrameOK'
  BY <1>1, <1>2, <1>3, <1>4, <1>5, <1>6, SameCall, AtWork DEF FrameOK
<1>12. WorkingOK'
  BY <1>1, <1>2, <1>4, <1>5, <1>7, <1>9, <1>10, <1>11, AtWork DEF WorkingOK
<1> QED
  BY <1>1, <1>12 DEF Parts, BetweenOK

-----------------------------------------------------------------------------

LEMMA Invariance == Spec => []IInv
<1>1. IInv /\ [Next]_vars => IInv'
  <2> SUFFICES ASSUME IInv, [Next]_vars PROVE IInv'
    OBVIOUS
  <2>1. SpiTypeOK'
    BY TypeStep
  <2>2. CASE UNCHANGED vars
    <3>1. Parts'
      BY <2>2 DEF vars, call, driver, core, IInv, Parts, WorkingOK, BetweenOK, Working, CountersOK,
                  OneInFlight, FrameOK, AnswersOK, StatusOK, Total, Given, Answered, Before,
                  Expected, WriteLength, ReadLength
    <3> QED
      BY <2>1, <3>1 DEF IInv, Parts
  <2>3. CASE Next
    <3>1. Parts'
      BY <2>3, CallStep, BeginStep, PollStep, SendStep, ReceiveStep, FinishStep, LoadStep,
         ExchangeStep DEF Next, Program
    <3> QED
      BY <2>1, <3>1 DEF IInv, Parts
  <2> QED
    BY <2>2, <2>3
<1> QED
  BY InitInv, <1>1, PTL DEF Spec

\* What the chip was sent when it is deselected: the command and exactly the
\* data of the call, whatever its length (alt_avalon_spi_command of
\* altera_avalon_spi.c, called twice by each routine of MAX3421E.c).
THEOREM FramesAreWhole == Spec => WholeFrame
<1>1. IInv /\ [Next]_vars =>
        [sso /\ ~sso' => frame = <<0>> \o (IF dir = "write" THEN Count(n)
                                           ELSE [i \in 1..n |-> Filler])]_vars
  <2> SUFFICES ASSUME IInv, [Next]_vars, sso, ~sso'
               PROVE  frame = <<0>> \o (IF dir = "write" THEN Count(n)
                                        ELSE [i \in 1..n |-> Filler])
    OBVIOUS
  <2>1. Finish
    BY DEF Next, Program, Call, Begin, Poll, Send, Receive, Load, Exchange, vars, core
  <2>2. Working /\ pc = "drain" /\ command = 2
    BY <2>1 DEF Finish, Merge, Working, IInv, SpiTypeOK
  <2>3. FrameOK /\ n \in Nat /\ frame \in Seq(Int) /\ tx = Empty /\ shift = Empty /\ Given = Total
    BY <2>2, AtWork DEF OneInFlight, IInv, SpiTypeOK
  <2>4. Total = n
    BY <2>2, <2>3, Totals DEF IInv, Total, SpiTypeOK
  <2>5. Len(frame) = n + 1 /\ \A k \in 1..(n + 1) : frame[k] = Expected(k)
    BY <2>2, <2>3, <2>4 DEF FrameOK, Before
  <2> DEFINE data == IF dir = "write" THEN Count(n) ELSE [i \in 1..n |-> Filler]
  <2>6. data \in Seq(Int) /\ Len(data) = n /\ \A k \in 1..n : data[k] = Expected(k + 1)
    <3>1. CASE dir = "write"
      BY <2>3, <3>1 DEF Count, Expected
    <3>2. CASE dir # "write"
      BY <2>3, <3>2 DEF Expected, Filler
    <3> QED
      BY <3>1, <3>2
  <2> HIDE DEF data
  <2>7. <<0>> \o data \in Seq(Int) /\ Len(<<0>> \o data) = n + 1
    BY <2>3, <2>6
  <2>8. ASSUME NEW k \in 1..(n + 1) PROVE (<<0>> \o data)[k] = frame[k]
    <3>1. CASE k = 1
      BY <2>3, <2>5, <2>6, <3>1 DEF Expected
    <3>2. CASE k > 1
      <4>1. k - 1 \in 1..n
        BY <2>3, <3>2
      <4>2. (<<0>> \o data)[k] = data[k - 1]
        BY <2>3, <2>6, <3>2, <4>1
      <4>3. data[k - 1] = Expected(k - 1 + 1) /\ k - 1 + 1 = k
        BY <2>3, <2>6, <4>1
      <4> QED
        BY <2>5, <4>2, <4>3
    <3>3. k = 1 \/ k > 1
      BY <2>3
    <3> QED
      BY <3>1, <3>2, <3>3
  <2>9. frame = <<0>> \o data
    BY <2>3, <2>5, <2>7, <2>8, SeqEqual
  <2> QED
    BY <2>9 DEF data
<1> QED
  BY Invariance, <1>1, PTL DEF Spec, WholeFrame

\* What a read hands to its caller is the chip's answers to the fillers, all of
\* them in order and nothing else, whatever was left in RXDATA before.
THEOREM ReadsAreAnswers == Spec => ReadsAnswers
<1>1. IInv /\ [Next]_vars =>
        [pc = "drain" /\ pc' = "idle" /\ dir = "read" => got = Count(n)]_vars
  <2> SUFFICES ASSUME IInv, [Next]_vars, pc = "drain", pc' = "idle", dir = "read"
               PROVE  got = Count(n)
    OBVIOUS
  <2>1. Finish
    BY DEF Next, Program, Call, Begin, Poll, Send, Receive, Load, Exchange, vars
  <2>2. Working /\ command = 2
    BY <2>1 DEF Finish, Working, IInv, SpiTypeOK
  <2>3. CountersOK /\ AnswersOK /\ Answered = Total /\ n \in Nat /\ got \in Seq(Int)
    BY <2>2, AtWork DEF IInv, SpiTypeOK
  <2>4. WriteLength = 0 /\ ReadLength = n /\ read_ignore \in Nat
    BY <2>2, Totals DEF IInv, SpiTypeOK
  <2>5. Len(got) = n
    BY <2>3, <2>4 DEF Answered, Total, CountersOK
  <2> QED
    BY <2>3, <2>5 DEF AnswersOK, Count
<1> QED
  BY Invariance, <1>1, PTL DEF Spec, ReadsAnswers

-----------------------------------------------------------------------------
(* Why a call returns: the part of CallReturns that needs no fairness.     *)

\* Some step of the program or of the core has its guard.
CanGoOn ==
    \/ pc \in {"begin", "send", "receive"}
    \/ (pc = "poll" /\ ((TRDY /\ credits # 0) \/ RRDY))
    \/ (pc = "drain" /\ TMT)
    \/ (tx # Empty /\ shift = Empty)
    \/ shift # Empty

\* What is left to do: 11 for each byte not yet given to the core, less as the
\* byte on its way moves on and the program goes round its loop.
ToGive == IF pc = "begin" THEN Total ELSE left + write_zeros
Place  == IF tx # Empty THEN 8 ELSE IF shift # Empty THEN 7 ELSE IF rx # Empty THEN 6 ELSE 0
Where ==
    IF pc = "begin" \/ (pc = "receive" /\ "RRDY" \notin status) THEN 3
    ELSE IF pc = "poll" THEN 2
    ELSE IF pc = "receive" THEN 0 ELSE 1
Rank ==
    IF pc = "idle" THEN 0
    ELSE 11 * ToGive + Place + Where + (IF command = 1 THEN 11 * n + 3 ELSE 0)

LEMMA Positive ==
  ASSUME 0 \notin Lengths, SpiTypeOK, pc # "idle"
  PROVE  n > 0 /\ Total > 0
<1>1. n \in Nat /\ n > 0
  BY SpiAssumption DEF SpiTypeOK
<1> QED
  BY <1>1, Totals DEF Total, SpiTypeOK

LEMMA RankType == IInv => Rank \in Nat /\ ToGive \in Nat /\ n \in Nat
<1> SUFFICES ASSUME IInv PROVE Rank \in Nat /\ ToGive \in Nat /\ n \in Nat
  OBVIOUS
<1>1. ToGive \in Nat
  BY Totals DEF ToGive, Total, IInv, SpiTypeOK
<1>2. Place \in Nat /\ Where \in Nat /\ n \in Nat
  BY DEF Place, Where, IInv, SpiTypeOK
<1> QED
  BY <1>1, <1>2 DEF Rank

\* No step of a call is taken in vain, and none is left out forever: with bytes
\* to exchange, the polling loop always finds a byte to send, one to read or
\* one on its way (the inner loop of alt_avalon_spi_command).
THEOREM CallsGoOn ==
  ASSUME 0 \notin Lengths
  PROVE  Spec => [](pc # "idle" => CanGoOn)
<1>1. IInv => (pc # "idle" => CanGoOn)
  <2> SUFFICES ASSUME IInv, pc # "idle" PROVE CanGoOn
    OBVIOUS
  <2>1. CASE Working
    <3>1. Total > 0 /\ OneInFlight /\ Before + Answered >= 0
      BY <2>1, Positive, AtWork DEF IInv
    <3> QED
      BY <2>1, <3>1 DEF Working, OneInFlight, CanGoOn, TRDY, RRDY, TMT, Empty
  <2>2. CASE ~Working
    BY <2>2 DEF Working, CanGoOn, IInv, SpiTypeOK
  <2> QED
    BY <2>1, <2>2
<1> QED
  BY Invariance, <1>1, PTL

\* The sums in the two facts about Rank.
LEMMA RankSums ==
  ASSUME NEW t \in Nat, NEW p \in Nat, NEW w \in Nat, NEW a \in Nat
  PROVE  /\ p <= 6 => 11 * 1 + p + 3 + (11 * t + 3) <= 11 * t + 23
         /\ \A t2, p2, w2 \in Nat :
              11 * t2 + p2 + w2 < 11 * t + p + w =>
              11 * t2 + p2 + w2 + a < 11 * t + p + w + a
  OBVIOUS

LEMMA CallRank ==
  ASSUME IInv, Call
  PROVE  Rank' <= 11 * n' + 23
<1>1. SpiTypeOK' /\ n' \in Nat /\ command' = 1 /\ pc' = "begin"
  BY TypeStep DEF Next, Call, SpiTypeOK
<1>2. Total' = 1
  BY <1>1 DEF Total, WriteLength, ReadLength
<1>3. tx' = Empty /\ shift' = Empty
  BY DEF Call, core, IInv, BetweenOK, Working
<1>4. Place' <= 6 /\ Place' \in Nat
  BY <1>3 DEF Place
<1>5. PICK p \in 0..6, m \in Nat : p = Place' /\ m = n'
  BY <1>1, <1>4
<1>6. ToGive' = 1 /\ Where' = 3
  <2>1. ToGive' = Total'
    BY <1>1 DEF ToGive
  <2>2. Where' = 3
    BY <1>1 DEF Where
  <2> QED
    BY <1>2, <2>1, <2>2
<1>7. Rank' = 11 * 1 + p + 3 + (11 * m + 3)
  BY <1>1, <1>5, <1>6 DEF Rank
<1>8. 11 * 1 + p + 3 + (11 * m + 3) <= 11 * m + 23
  BY RankSums
<1> QED
  BY <1>5, <1>7, <1>8

LEMMA RankFalls ==
  ASSUME 0 \notin Lengths, IInv, Next, pc # "idle"
  PROVE  Rank' < Rank
<1> DEFINE after == IF command = 1 THEN 11 * n + 3 ELSE 0
<1>1. /\ SpiTypeOK /\ n \in Nat /\ n > 0 /\ command \in {1, 2} /\ Total > 0
  BY Positive DEF IInv, SpiTypeOK
<1>2. after \in Nat
  BY <1>1
<1>3. PICK t \in Nat, p \in Nat, w \in Nat :
        t = ToGive /\ p = Place /\ w = Where /\ Rank = 11 * t + p + w + after
  <2>1. Place \in Nat /\ Where \in Nat
    BY DEF Place, Where
  <2> QED
    BY <2>1, RankType DEF Rank
<1>4. ~Call
  BY DEF Call
\* Where the call does not change, the rank falls with the other three parts.
<1>5. ASSUME UNCHANGED call, pc' # "idle",
             NEW t2 \in Nat, NEW p2 \in Nat, NEW w2 \in Nat,
             t2 = ToGive', p2 = Place', w2 = Where',
             11 * t2 + p2 + w2 < 11 * t + p + w
      PROVE  Rank' < Rank
  <2>1. Rank' = 11 * t2 + p2 + w2 + after
    BY <1>5 DEF Rank, call
  <2> HIDE DEF after
  <2>2. 11 * t2 + p2 + w2 + after < 11 * t + p + w + after
    BY <1>2, <1>5, RankSums
  <2> QED
    BY <1>3, <2>1, <2>2
<1> HIDE DEF after
<1>6. CASE Begin
  <2>1. UNCHANGED call /\ pc = "begin" /\ pc' = "poll" /\ tx' = Empty /\ shift' = Empty /\ rx' = Empty
    BY <1>6 DEF Begin, Discarded, IInv, BetweenOK, Working
  <2>2. t = Total /\ w = 3 /\ ToGive' = Total
    <3>1. t = Total /\ w = 3
      BY <1>3, <2>1 DEF ToGive, Where
    <3>2. ToGive' = left' + write_zeros'
      BY <2>1 DEF ToGive
    <3>3. left' = WriteLength /\ write_zeros' = ReadLength
      BY <1>6 DEF Begin
    <3> QED
      BY <3>1, <3>2, <3>3 DEF Total
  <2>3. Place' = 0 /\ Where' = 2
    BY <2>1 DEF Place, Where
  <2> QED
    BY <1>3, <1>5, <2>1, <2>2, <2>3
<1>7. CASE Poll
  <2>1. UNCHANGED call /\ pc = "poll" /\ pc' = "send" /\ UNCHANGED <<left, write_zeros, tx, shift, rx>>
    BY <1>7 DEF Poll, core
  <2>2. ToGive' = t /\ Place' = p /\ w = 2 /\ Where' = 1
    BY <1>3, <2>1 DEF ToGive, Place, Where
  <2> QED
    BY <1>3, <1>5, <2>1, <2>2
<1>8. CASE Load
  <2>1. UNCHANGED call /\ UNCHANGED <<pc, status, left, write_zeros, rx>> /\ pc # "begin"
    BY <1>8 DEF Load, driver, IInv, BetweenOK, Working
  <2>2. ToGive' = t /\ Where' = w
    BY <1>3, <2>1 DEF ToGive, Where
  <2>3. p = 8 /\ Place' = 7
    BY <1>3, <1>8 DEF Load, Place
  <2> QED
    BY <1>3, <1>5, <2>1, <2>2, <2>3
<1>9. CASE Exchange
  <2>1. UNCHANGED call /\ UNCHANGED <<pc, status, left, write_zeros, tx>> /\ Working
    BY <1>9 DEF Exchange, driver, IInv, BetweenOK, Working
  <2>2. ToGive' = t /\ Where' = w
    BY <1>3, <2>1 DEF ToGive, Where, Working
  <2>3. p = 7 /\ tx = Empty
    BY <1>3, <1>9, <2>1, AtWork DEF Exchange, Place, OneInFlight
  <2>4. Place' <= 6 /\ Place' \in Nat
    BY <1>9, <2>1, <2>3 DEF Exchange, Place
  <2>5. PICK p2 \in Nat : p2 = Place' /\ p2 <= 6
    BY <2>4
  <2> QED
    BY <1>3, <1>5, <2>1, <2>2, <2>3, <2>5
<1>10. CASE Send
  <2>1. UNCHANGED call /\ pc = "send" /\ pc' = "receive" /\ UNCHANGED <<status, shift, rx>> /\ Working
    BY <1>10 DEF Send, Working
  <2>2. w = 1 /\ t = left + write_zeros /\ left \in Nat /\ write_zeros \in Nat /\ credits \in Int
    BY <1>1, <1>3, <2>1 DEF Where, ToGive, SpiTypeOK
  <2>3. CASE MaySend
    <3>1. credits > 0 /\ tx = Empty /\ shift = Empty /\ rx = Empty /\ Given = Answered /\ Answered < Total
      BY <1>1, <2>1, <2>2, <2>3, AtWork DEF OneInFlight, MaySend
    <3>2. left > 0 \/ write_zeros > 0
      BY <2>2, <3>1, Totals DEF Given, Total, IInv
    <3>3. ToGive' = t - 1 /\ t - 1 \in Nat
      BY <2>1, <2>2, <2>3, <3>2, <1>10 DEF Send, ToGive
    <3>4. p = 0
      BY <1>3, <3>1 DEF Place
    <3>5. PICK p2 \in Nat, w2 \in Nat : p2 = Place' /\ w2 = Where' /\ p2 <= 8 /\ w2 <= 3
      <4>1. Place' \in 0..8 /\ Where' \in 0..3
        BY DEF Place, Where
      <4> QED
        BY <4>1
    <3> QED
      BY <1>3, <1>5, <2>1, <2>2, <3>3, <3>4, <3>5
  <2>4. CASE ~MaySend
    <3>1. UNCHANGED <<left, write_zeros, tx>>
      BY <1>10, <2>4 DEF Send
    <3>2. ToGive' = t /\ Place' = p
      BY <1>3, <2>1, <2>2, <3>1 DEF ToGive, Place
    <3>3. "RRDY" \in status
      <4>1. CASE "RRDY" \notin status
        <5>1. "TRDY" \in status /\ credits # 0 /\ credits <= 0
          BY <2>1, <2>2, <2>4, <4>1, AtWork DEF StatusOK, MaySend
        <5> QED
          BY <1>1, <2>1, <5>1, AtWork DEF OneInFlight
      <4> QED
        BY <4>1
    <3>4. Where' = 0
      BY <2>1, <3>3 DEF Where
    <3> QED
      BY <1>3, <1>5, <2>1, <2>2, <3>2, <3>4
  <2> QED
    BY <2>3, <2>4
<1>11. CASE Receive
  <2>1. /\ UNCHANGED call /\ pc = "receive" /\ pc' \in {"poll", "drain"}
        /\ UNCHANGED <<left, write_zeros, tx, shift>> /\ Working
    BY <1>11 DEF Receive, Working
  <2>2. ToGive' = t
    BY <1>3, <2>1 DEF ToGive
  <2>3. CASE "RRDY" \notin status
    <3>1. w = 3 /\ pc' = "poll" /\ rx' = rx
      BY <1>3, <1>11, <2>1, <2>3 DEF Receive, Where
    <3>2. Where' = 2 /\ Place' = p
      BY <1>3, <2>1, <3>1 DEF Where, Place
    <3> QED
      BY <1>3, <1>5, <2>1, <2>2, <3>1, <3>2
  <2>4. CASE "RRDY" \in status
    <3>1. rx # Empty /\ tx = Empty /\ shift = Empty /\ rx' = Empty
      BY <1>11, <2>1, <2>4, AtWork DEF Receive, StatusOK, OneInFlight
    <3>2. p = 6 /\ Place' = 0
      BY <1>3, <2>1, <3>1 DEF Place
    <3>3. Where' = 1 \/ Where' = 2
      BY <2>1 DEF Where
    <3>4. PICK w2 \in Nat : w2 = Where' /\ w2 <= 2
      BY <3>3
    <3> QED
      BY <1>3, <1>5, <2>1, <2>2, <3>2, <3>4
  <2> QED
    BY <2>3, <2>4
<1>12. CASE Finish
  <2>1. Working /\ pc = "drain"
    BY <1>12 DEF Finish, Working
  <2>2. w = 1
    BY <1>3, <2>1 DEF Where
  <2>3. CASE command = 1
    <3>1. command' = 2 /\ pc' = "begin" /\ UNCHANGED <<dir, n, tx, shift, rx>>
      BY <1>12, <2>3 DEF Finish
    <3>2. Total' = n
      BY <1>1, <3>1 DEF Total, WriteLength, ReadLength, SpiTypeOK
    <3>3. tx = Empty /\ shift = Empty /\ rx = Empty
      BY <2>1, AtWork DEF OneInFlight
    <3>4. ToGive' = n /\ Place' = 0 /\ Where' = 3
      <4>1. ToGive' = Total'
        BY <3>1 DEF ToGive
      <4>2. Place' = 0
        BY <3>1, <3>3 DEF Place
      <4>3. Where' = 3
        BY <3>1 DEF Where
      <4> QED
        BY <3>2, <4>1, <4>2, <4>3
    <3>5. Rank' = 11 * n + 0 + 3 + 0
      BY <3>1, <3>4 DEF Rank
    <3>6. after = 11 * n + 3
      BY <2>3 DEF after
    <3> QED
      BY <1>1, <1>3, <2>2, <3>5, <3>6
  <2>4. CASE command # 1
    <3>1. Rank' = 0
      BY <1>12, <2>4 DEF Finish, Rank
    <3> QED
      BY <1>2, <1>3, <2>2, <3>1
  <2> QED
    BY <2>3, <2>4
<1> QED
  BY <1>4, <1>6, <1>7, <1>8, <1>9, <1>10, <1>11, <1>12 DEF Next, Program

\* A call on n bytes takes at most 11 n + 23 steps of the program and the core
\* together, counting as a step each turn of a loop that finds something to do.
THEOREM CallsAreBounded ==
  ASSUME 0 \notin Lengths
  PROVE  Spec => /\ [](Rank \in Nat)
                 /\ [][pc # "idle" => Rank' < Rank]_vars
                 /\ [][pc = "idle" => pc' = "idle" \/ Rank' <= 11 * n' + 23]_vars
<1>1. IInv => Rank \in Nat
  BY RankType
<1>2. IInv /\ [Next]_vars => [pc # "idle" => Rank' < Rank]_vars
  BY RankFalls
<1>3. IInv /\ [Next]_vars => [pc = "idle" => pc' = "idle" \/ Rank' <= 11 * n' + 23]_vars
  <2> SUFFICES ASSUME IInv, Next, pc = "idle" PROVE pc' = "idle" \/ Rank' <= 11 * n' + 23
    OBVIOUS
  <2>1. CASE Call
    BY <2>1, CallRank
  <2>2. CASE ~Call
    BY <2>2 DEF Next, Program, Begin, Poll, Send, Receive, Finish, Load, Exchange
  <2> QED
    BY <2>1, <2>2
<1> QED
  BY Invariance, <1>1, <1>2, <1>3, PTL DEF Spec

=============================================================================
