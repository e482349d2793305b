----------------------------- MODULE KeysProofs -----------------------------
(***************************************************************************)
(* Proofs about Transfer and Keys for every limit of NAKs and retries, any *)
(* number of reports and whatever keys they list.                          *)
(*                                                                         *)
(* InStep ties the device's data toggle to the host's.  They agree when    *)
(* the device holds the report the game waits for; they differ when the    *)
(* acknowledgement of the last one was lost (Behind) and while a report is *)
(* in the FIFO and the device already went on (Ahead).                     *)
(***************************************************************************)
EXTENDS Keys, TLAPS

Synced == report = shown /\ toggle[1] = rcvToggle[1]
Behind == shown = Following(report) /\ toggle[1] = 1 - rcvToggle[1]
Ahead  == report = Following(shown) /\ toggle[1] = 1 - rcvToggle[1]

\* A report is in the FIFO.
Received == stage = "report" /\ done /\ hrsl = "SUCCESS"

InStep ==
  /\ ~Received => Synced \/ Behind
  /\ Received => fifo = shown /\ rcvtog = 1 - rcvToggle[1] /\ (Synced \/ Ahead)
  /\ stage = "report" /\ ~Received => rcvtog = rcvToggle[1]
  /\ stage = "report" => packets = 1
  /\ stage \in {"report", "data"} => Len(data) < packets
  /\ stage = "setup" => Len(data) = 0

TInv == TransferTypeOK /\ InStep

Limits ==
  /\ NakLimit \in Nat /\ NakLimit > 0 /\ RetryLimit \in Nat /\ RetryLimit > 0
  /\ MaxPackets \in Nat /\ MaxPackets > 0 /\ Reports \in Nat /\ Reports > 2

LEMMA LimitFacts == Limits
  BY TransferAssumption DEF Limits

LEMMA FollowingRange ==
  ASSUME NEW r \in 0 .. Reports - 1
  PROVE  Following(r) \in 0 .. Reports - 1 /\ Following(r) # r
<1>1. Reports \in Nat /\ Reports > 2
  BY LimitFacts DEF Limits
<1>2. Following(r) = IF r + 1 < Reports THEN r + 1 ELSE 0
  BY <1>1 DEF Following
<1> QED
  BY <1>1, <1>2

-----------------------------------------------------------------------------
(* Transfer *)

LEMMA TransferInit == Init => TInv
<1> SUFFICES ASSUME Init PROVE TInv
  OBVIOUS
<1>1. TransferTypeOK
  BY LimitFacts DEF Limits, Init, TransferTypeOK, ProgramTypes, ChipTypes, GadgetTypes, Endpoints, Nothing
<1>2. InStep
  BY DEF Init, InStep, Received, Synced, Endpoints
<1> QED
  BY <1>1, <1>2 DEF TInv

LEMMA Zeros ==
  /\ 0 \in 0 .. NakLimit - 1 /\ 0 \in 0 .. RetryLimit - 1 /\ 1 \in 0 .. MaxPackets
  /\ 0 \in 0 .. MaxPackets /\ 0 \in 0 .. Reports - 1
  /\ <<>> \in Seq(Nat) /\ Len(<<>>) = 0
  BY LimitFacts DEF Limits

\* A packet is read within the length the caller asked for.
LEMMA ReadData ==
  ASSUME TInv, Read
  PROVE  /\ data' \in Seq(Nat) /\ Len(data') = Len(data) + 1
         /\ Len(data') <= packets /\ Len(data') <= MaxPackets
<1>1. /\ data \in Seq(Nat) /\ Len(data) \in Nat /\ fifo \in Nat /\ Len(data) < packets
      /\ packets \in Nat /\ packets <= MaxPackets /\ MaxPackets \in Nat
  BY LimitFacts DEF Limits, TInv, InStep, TransferTypeOK, ProgramTypes, ChipTypes, Read, Nothing
<1>2. data' = Append(data, fifo)
  BY DEF Read
<1>3. Append(data, fifo) \in Seq(Nat) /\ Len(Append(data, fifo)) = Len(data) + 1
  BY <1>1
<1> QED
  BY <1>1, <1>2, <1>3

\* A retry keeps its counter below the limit.
LEMMA Counts ==
  ASSUME TInv, NakAgain \/ TimeoutAgain
  PROVE  nak_count' \in 0 .. NakLimit - 1 /\ retry_count' \in 0 .. RetryLimit - 1
<1>1. /\ nak_count \in 0 .. NakLimit - 1 /\ retry_count \in 0 .. RetryLimit - 1
      /\ NakLimit \in Nat /\ RetryLimit \in Nat
  BY LimitFacts DEF Limits, TInv, TransferTypeOK, ProgramTypes
<1>2. CASE NakAgain
  <2>1. nak_count + 1 \in 0 .. NakLimit - 1
    BY <1>1, <1>2 DEF NakAgain
  <2> QED
    BY <1>1, <1>2, <2>1 DEF NakAgain
<1>3. CASE TimeoutAgain
  <2>1. retry_count + 1 \in 0 .. RetryLimit - 1
    BY <1>1, <1>3 DEF TimeoutAgain
  <2> QED
    BY <1>1, <1>3, <2>1 DEF TimeoutAgain
<1> QED
  BY <1>2, <1>3

LEMMA TransferStep == TInv /\ [Next]_vars => TInv'
<1> SUFFICES ASSUME TInv, [Next]_vars PROVE TInv'
  OBVIOUS
<1> USE Zeros DEF TInv, vars, program, chip, gadget, TransferTypeOK
<1>1. CASE StartPoll
  <2>1. ProgramTypes'
    BY <1>1 DEF StartPoll, Launch, SetToggle, ProgramTypes, Endpoints
  <2>2. ChipTypes'
    BY <1>1 DEF StartPoll, Launch, SetToggle, ProgramTypes, ChipTypes, Endpoints, Nothing
  <2>3. GadgetTypes'
    BY <1>1 DEF StartPoll, Launch, SetToggle, ProgramTypes, GadgetTypes, Endpoints
  <2>4. InStep'
    BY <1>1 DEF StartPoll, Launch, SetToggle, InStep, Received, Synced, Behind, Ahead, ProgramTypes, ChipTypes, GadgetTypes, Endpoints, Nothing
  <2> QED
    BY <2>1, <2>2, <2>3, <2>4
<1>2. ASSUME NEW n \in 0 .. MaxPackets, StartControl(n) PROVE TInv'
  <2>1. ProgramTypes'
    BY <1>2 DEF StartControl, Launch, ProgramTypes, Endpoints
  <2>2. ChipTypes'
    BY <1>2 DEF StartControl, Launch, ProgramTypes, ChipTypes, Endpoints, Nothing
  <2>3. GadgetTypes'
    BY <1>2 DEF StartControl, Launch, ProgramTypes, GadgetTypes, Endpoints
  <2>4. InStep'
    BY <1>2 DEF StartControl, Launch, InStep, Received, Synced, Behind, Ahead, ProgramTypes, ChipTypes, GadgetTypes, Endpoints, Nothing
  <2> QED
    BY <2>1, <2>2, <2>3, <2>4
<1>3. CASE Repeat
  <2>1. ProgramTypes'
    BY <1>3, Counts DEF Repeat, NakAgain, TimeoutAgain, ProgramTypes, Endpoints
  <2>2. ChipTypes'
    BY <1>3 DEF Repeat, NakAgain, TimeoutAgain, ProgramTypes, ChipTypes, Endpoints, Nothing
  <2>3. GadgetTypes'
    BY <1>3 DEF Repeat, NakAgain, TimeoutAgain, ProgramTypes, GadgetTypes, Endpoints
  <2>4. InStep'
    BY <1>3, Counts DEF Repeat, NakAgain, TimeoutAgain, InStep, Received, Synced, Behind, Ahead, ProgramTypes, ChipTypes, GadgetTypes, Endpoints, Nothing
  <2> QED
    BY <2>1, <2>2, <2>3, <2>4
<1>4. CASE Fail
  <2>1. ProgramTypes'
    BY <1>4 DEF Fail, GivesUp, Return, ProgramTypes, Endpoints
  <2>2. ChipTypes'
    BY <1>4 DEF Fail, GivesUp, Return, ProgramTypes, ChipTypes, Endpoints, Nothing
  <2>3. GadgetTypes'
    BY <1>4 DEF Fail, GivesUp, Return, ProgramTypes, GadgetTypes, Endpoints
  <2>4. InStep'
    BY <1>4 DEF Fail, GivesUp, Return, InStep, Received, Synced, Behind, Ahead, ProgramTypes, ChipTypes, GadgetTypes, Endpoints, Nothing
  <2> QED
    BY <2>1, <2>2, <2>3, <2>4
<1>5. CASE Expire
  <2>1. ProgramTypes'
    BY <1>5 DEF Expire, Return, ProgramTypes, Endpoints
  <2>2. ChipTypes'
    BY <1>5 DEF Expire, Return, ProgramTypes, ChipTypes, Endpoints, Nothing
  <2>3. GadgetTypes'
    BY <1>5 DEF Expire, Return, ProgramTypes, GadgetTypes, Endpoints
  <2>4. InStep'
    BY <1>5 DEF Expire, Return, InStep, Received, Synced, Behind, Ahead, ProgramTypes, ChipTypes, GadgetTypes, Endpoints, Nothing
  <2> QED
    BY <2>1, <2>2, <2>3, <2>4
<1>6. CASE AfterSetup
  <2>1. ProgramTypes'
    BY <1>6 DEF AfterSetup, SetupAccepted, Launch, SetToggle, ProgramTypes, Endpoints
  <2>2. ChipTypes'
    BY <1>6 DEF AfterSetup, SetupAccepted, Launch, SetToggle, ProgramTypes, ChipTypes, Endpoints, Nothing
  <2>3. GadgetTypes'
    BY <1>6 DEF AfterSetup, SetupAccepted, Launch, SetToggle, ProgramTypes, GadgetTypes, Endpoints
  <2>4. InStep'
    <3>1. rcvToggle'[1] = rcvToggle[1] /\ stage' \in {"data", "status"} /\ packets' = packets
      BY <1>6 DEF AfterSetup, Launch, ProgramTypes, Endpoints
    <3>2. UNCHANGED <<report, shown, toggle, data>> /\ ~Received /\ ~Received'
      BY <1>6, <3>1 DEF AfterSetup, SetupAccepted, Launch, Received
    <3>3. stage' = "data" => Len(data) < packets
      BY <1>6 DEF AfterSetup, SetupAccepted, Launch, InStep, ProgramTypes
    <3> QED
      BY <3>1, <3>2, <3>3 DEF InStep, Synced, Behind
  <2> QED
    BY <2>1, <2>2, <2>3, <2>4
<1>7. CASE ReadMore
  <2>1. ProgramTypes'
    BY <1>7, ReadData DEF ReadMore, Read, Launch, ProgramTypes, Endpoints
  <2>2. ChipTypes'
    <3>1. Nothing \in Nothing .. MaxPackets + Reports
      BY LimitFacts DEF Limits, Nothing
    <3>2. fifo' = Nothing /\ done' = FALSE /\ UNCHANGED <<hrsl, rcvtog>>
      BY <1>7 DEF ReadMore, Read, Launch
    <3> QED
      BY <3>1, <3>2 DEF ChipTypes
  <2>3. GadgetTypes'
    BY <1>7 DEF ReadMore, Read, Launch, ProgramTypes, GadgetTypes, Endpoints
  <2>4. InStep'
    BY <1>7, ReadData DEF ReadMore, Read, Launch, InStep, Received, Synced, Behind, Ahead, ProgramTypes, ChipTypes, GadgetTypes, Endpoints, Nothing
  <2> QED
    BY <2>1, <2>2, <2>3, <2>4
<1>8. CASE ReadLast
  <2>1. ProgramTypes'
    <3>1. rcvToggle' \in [Endpoints -> {0, 1}]
      BY <1>8 DEF ReadLast, SaveToggle, ProgramTypes, ChipTypes
    <3>2. shown' \in 0 .. Reports - 1
      <4>1. shown' = shown \/ shown' = Following(shown)
        BY <1>8 DEF ReadLast, Following
      <4> QED
        BY <4>1, FollowingRange DEF ProgramTypes
    <3>3. data' \in Seq(Nat) /\ Len(data') <= MaxPackets
      BY <1>8, ReadData DEF ReadLast
    <3> QED
      BY <1>8, <3>1, <3>2, <3>3 DEF ReadLast, Read, Launch, Return, ProgramTypes
  <2>2. ChipTypes'
    <3>1. Nothing \in Nothing .. MaxPackets + Reports
      BY LimitFacts DEF Limits, Nothing
    <3>2. fifo' = Nothing /\ done' = FALSE /\ UNCHANGED <<hrsl, rcvtog>>
      BY <1>8 DEF ReadLast, Read, Launch, Return
    <3> QED
      BY <3>1, <3>2 DEF ChipTypes
  <2>3. GadgetTypes'
    BY <1>8 DEF ReadLast, Read, SaveToggle, Endpoint, Launch, Return, ProgramTypes, GadgetTypes, Endpoints
  <2>4. InStep'
    <3>1. stage \in {"report", "data"} /\ done /\ hrsl = "SUCCESS" /\ UNCHANGED <<packets, toggle, report>>
      BY <1>8 DEF ReadLast, Read
    <3>2. CASE stage = "report"
      <4>1. rcvToggle'[1] = rcvtog /\ rcvtog = 1 - rcvToggle[1] /\ rcvToggle[1] \in {0, 1}
        BY <1>8, <3>1, <3>2 DEF ReadLast, SaveToggle, Endpoint, ProgramTypes, Endpoints, InStep, Received
      <4>2. shown' = Following(shown) /\ stage' = "idle"
        BY <1>8, <3>2 DEF ReadLast, Return, Following
      <4>3. CASE Synced
        <5>1. shown' = Following(report') /\ toggle'[1] = 1 - rcvToggle'[1]
          BY <3>1, <4>1, <4>2, <4>3 DEF Synced
        <5> QED
          BY <4>2, <5>1 DEF InStep, Received, Behind
      <4>4. CASE Ahead
        <5>1. report' = shown' /\ toggle'[1] = rcvToggle'[1]
          BY <3>1, <4>1, <4>2, <4>4 DEF Ahead
        <5> QED
          BY <4>2, <5>1 DEF InStep, Received, Synced
      <4> QED
        BY <3>1, <3>2, <4>3, <4>4 DEF InStep, Received
    <3>3. CASE stage = "data"
      <4>1. stage' = "status" /\ shown' = shown /\ rcvToggle'[1] = rcvToggle[1]
        BY <1>8, <3>3 DEF ReadLast, Launch, SaveToggle, Endpoint, ProgramTypes, Endpoints
      <4> QED
        BY <3>1, <3>3, <4>1 DEF InStep, Received, Synced, Behind
    <3> QED
      BY <3>1, <3>2, <3>3
  <2> QED
    BY <2>1, <2>2, <2>3, <2>4
<1>9. CASE AfterStatus
  <2>1. ProgramTypes'
    BY <1>9 DEF AfterStatus, Return, ProgramTypes, Endpoints
  <2>2. ChipTypes'
    BY <1>9 DEF AfterStatus, Return, ProgramTypes, ChipTypes, Endpoints, Nothing
  <2>3. GadgetTypes'
    BY <1>9 DEF AfterStatus, Return, ProgramTypes, GadgetTypes, Endpoints
  <2>4. InStep'
    BY <1>9 DEF AfterStatus, Return, InStep, Received, Synced, Behind, Ahead, ProgramTypes, ChipTypes, GadgetTypes, Endpoints, Nothing
  <2> QED
    BY <2>1, <2>2, <2>3, <2>4
<1>10. CASE Reconfigure
  <2>1. ProgramTypes'
    BY <1>10 DEF Reconfigure, HID_init, ProgramTypes, Endpoints
  <2>2. ChipTypes'
    BY <1>10 DEF Reconfigure, HID_init, ProgramTypes, ChipTypes, Endpoints, Nothing
  <2>3. GadgetTypes'
    BY <1>10 DEF Reconfigure, HID_init, ProgramTypes, GadgetTypes, Endpoints
  <2>4. InStep'
    BY <1>10 DEF Reconfigure, HID_init, InStep, Received, Synced, Behind, Ahead, ProgramTypes, ChipTypes, GadgetTypes, Endpoints, Nothing
  <2> QED
    BY <2>1, <2>2, <2>3, <2>4
<1>11. CASE NoAnswer
  <2>1. ProgramTypes'
    BY <1>11 DEF NoAnswer, Busy, ProgramTypes, Endpoints
  <2>2. ChipTypes'
    BY <1>11 DEF NoAnswer, Busy, ProgramTypes, ChipTypes, Endpoints, Nothing
  <2>3. GadgetTypes'
    BY <1>11 DEF NoAnswer, Busy, ProgramTypes, GadgetTypes, Endpoints
  <2>4. InStep'
    BY <1>11 DEF NoAnswer, Busy, InStep, Received, Synced, Behind, Ahead, ProgramTypes, ChipTypes, GadgetTypes, Endpoints, Nothing
  <2> QED
    BY <2>1, <2>2, <2>3, <2>4
<1>12. CASE TakeSetup
  <2>1. ProgramTypes'
    BY <1>12 DEF TakeSetup, Busy, ProgramTypes, Endpoints
  <2>2. ChipTypes'
    BY <1>12 DEF TakeSetup, Busy, ProgramTypes, ChipTypes, Endpoints, Nothing
  <2>3. GadgetTypes'
    BY <1>12 DEF TakeSetup, Busy, ProgramTypes, GadgetTypes, Endpoints
  <2>4. InStep'
    BY <1>12 DEF TakeSetup, Busy, InStep, Received, Synced, Behind, Ahead, ProgramTypes, ChipTypes, GadgetTypes, Endpoints, Nothing
  <2> QED
    BY <2>1, <2>2, <2>3, <2>4
<1>13. CASE TakeStatus
  <2>1. ProgramTypes'
    BY <1>13 DEF TakeStatus, Busy, ProgramTypes, Endpoints
  <2>2. ChipTypes'
    BY <1>13 DEF TakeStatus, Busy, ProgramTypes, ChipTypes, Endpoints, Nothing
  <2>3. GadgetTypes'
    BY <1>13 DEF TakeStatus, Busy, ProgramTypes, GadgetTypes, Endpoints
  <2>4. InStep'
    BY <1>13 DEF TakeStatus, Busy, InStep, Received, Synced, Behind, Ahead, ProgramTypes, ChipTypes, GadgetTypes, Endpoints, Nothing
  <2> QED
    BY <2>1, <2>2, <2>3, <2>4
<1>14. ASSUME NEW a \in BOOLEAN, Send(a) PROVE TInv'
  <2>1. ProgramTypes'
    BY <1>14 DEF Send, Busy, Endpoint, ProgramTypes, Endpoints
  <2>2. ChipTypes'
    <3>1. report \in Nothing .. MaxPackets + Reports /\ packet \in Nothing .. MaxPackets + Reports
      BY LimitFacts DEF Limits, GadgetTypes, Nothing
    <3>2. rcvtog' \in {0, 1}
      BY <1>14 DEF Send, ChipTypes
    <3> QED
      BY <1>14, <3>1, <3>2 DEF Send, Busy, ChipTypes
  <2>3. GadgetTypes'
    <3>1. toggle' \in [Endpoints -> {0, 1}]
      <4>1. \A e \in Endpoints : 1 - toggle[e] \in {0, 1}
        BY DEF GadgetTypes
      <4> QED
        BY <1>14, <4>1 DEF Send, gadget, GadgetTypes, Endpoint, Endpoints
    <3>2. report' \in 0 .. Reports - 1
      <4>1. report' = report \/ report' = Following(report)
        BY <1>14 DEF Send, Following
      <4> QED
        BY <4>1, FollowingRange DEF GadgetTypes
    <3>3. packet' \in 0 .. MaxPackets /\ length' \in 0 .. MaxPackets
      BY <1>14, LimitFacts DEF Send, Limits, GadgetTypes
    <3> QED
      BY <3>1, <3>2, <3>3 DEF GadgetTypes
  <2>4. InStep'
    <3>1. /\ stage \in {"report", "data"} /\ stage' = stage /\ ~done /\ done'
          /\ UNCHANGED <<shown, rcvToggle, packets, data>>
      BY <1>14 DEF Send, Busy
    <3>2. CASE stage = "data"
      <4>1. toggle'[1] = toggle[1] /\ report' = report
        BY <1>14, <3>2 DEF Send, Endpoint, GadgetTypes, Endpoints
      <4> QED
        BY <3>1, <3>2, <4>1 DEF InStep, Received, Synced, Behind
    <3>3. CASE stage = "report"
      <4>1. rcvtog = rcvToggle[1] /\ rcvToggle[1] \in {0, 1} /\ (Synced \/ Behind)
        BY <3>1, <3>3 DEF InStep, Received, ProgramTypes, Endpoints
      <4>2. toggle[1] \in {0, 1} /\ Endpoint = 1
        BY <3>3 DEF GadgetTypes, Endpoints, Endpoint
      <4>3. \/ report' = report /\ toggle'[1] = toggle[1]
            \/ report' = Following(report) /\ toggle'[1] = 1 - toggle[1]
        BY <1>14, <3>3, <4>2 DEF Send, Following, GadgetTypes, Endpoints
      <4>4. CASE Synced
        <5>1. hrsl' = "SUCCESS" /\ rcvtog' = 1 - rcvtog /\ fifo' = report
          BY <1>14, <3>3, <4>1, <4>2, <4>4 DEF Send, Synced
        <5>2. fifo' = shown' /\ rcvtog' = 1 - rcvToggle'[1] /\ (Synced' \/ Ahead')
          BY <3>1, <4>1, <4>3, <4>4, <5>1 DEF Synced, Ahead
        <5> QED
          BY <3>1, <3>3, <5>1, <5>2 DEF InStep, Received
      <4>5. CASE Behind
        <5>1. hrsl' = "TOGERR" /\ rcvtog' = rcvtog
          BY <1>14, <3>3, <4>1, <4>2, <4>5 DEF Send, Behind
        <5>2. Synced' \/ Behind'
          BY <3>1, <4>1, <4>3, <4>5 DEF Synced, Behind
        <5> QED
          BY <3>1, <3>3, <4>1, <5>1, <5>2 DEF InStep, Received
      <4> QED
        BY <4>1, <4>4, <4>5
    <3> QED
      BY <3>1, <3>2, <3>3
  <2> QED
    BY <2>1, <2>2, <2>3, <2>4
<1>15. CASE UNCHANGED vars
  BY <1>15 DEF ProgramTypes, ChipTypes, GadgetTypes, InStep, Received, Synced, Behind, Ahead
<1> QED
  BY <1>1, <1>2, <1>3, <1>4, <1>5, <1>6, <1>7, <1>8, <1>9, <1>10, <1>11, <1>12, <1>13, <1>14, <1>15 DEF Next, Continue, Transact

LEMMA TransferInvariant == Spec => []TInv
<1>1. Init => TInv
  BY TransferInit
<1>2. TInv /\ [Next]_vars => TInv'
  BY TransferStep
<1> QED
  BY <1>1, <1>2, PTL DEF Spec

\* The retry counters stay below their limits and the data inside the buffer.
THEOREM TransferTypes == Spec => []TransferTypeOK
<1>1. TInv => TransferTypeOK
  BY DEF TInv
<1> QED
  BY <1>1, TransferInvariant, PTL

\* A step that hands a report over hands over the one after the last.
LEMMA OrderStep == TInv /\ [Next]_vars => (shown' # shown => fifo = shown)
<1> SUFFICES ASSUME TInv, [Next]_vars, shown' # shown PROVE fifo = shown
  OBVIOUS
<1>1. ReadLast /\ stage = "report"
  BY DEF Next, Continue, Transact, vars, StartPoll, StartControl, Repeat, Fail, Expire, AfterSetup,
         ReadMore, ReadLast, AfterStatus, Reconfigure, NoAnswer, TakeSetup, TakeStatus, Send, Read
<1>2. Received
  BY <1>1 DEF ReadLast, Read, Received
<1> QED
  BY <1>2 DEF TInv, InStep

\* Every report reaches setKeycode once and in order.
THEOREM ReportsInOrder == Spec => InOrder
<1>1. TInv /\ [Next]_vars => [shown' # shown => fifo = shown]_vars
  BY OrderStep
<1> QED
  BY <1>1, TransferInvariant, PTL DEF Spec, InOrder

-----------------------------------------------------------------------------
(* Control requests                                                        *)

Succeeded == done /\ hrsl = "SUCCESS"

\* The answer is in order so far, and the device sends packet Len(data) next,
\* or sends the one before once more, with the toggle the chip has left behind.
Answering ==
  /\ length = packets
  /\ IF Succeeded
     THEN fifo = Len(data) /\ \/ packet = Len(data) + 1 /\ toggle[0] = rcvtog
                              \/ packet = Len(data) /\ toggle[0] = 1 - rcvtog
     ELSE \/ packet = Len(data) /\ toggle[0] = rcvtog
          \/ packet = Len(data) - 1 /\ toggle[0] = 1 - rcvtog

CInv ==
  /\ \A i \in 1 .. Len(data) : stage \in {"setup", "data", "status"} => data[i] = i - 1
  /\ stage = "setup" /\ Succeeded => packet = 0 /\ length = packets /\ toggle[0] = 1
  /\ stage = "data" => Answering
  /\ stage = "status" => Len(data) = packets

LEMMA CInit == Init => CInv
  BY DEF Init, CInv

LEMMA CStep == TInv /\ CInv /\ [Next]_vars => CInv'
<1> SUFFICES ASSUME TInv, CInv, [Next]_vars PROVE CInv'
  OBVIOUS
<1> USE Zeros DEF TInv, vars, program, chip, gadget
<1>1. CASE StartPoll
  BY <1>1 DEF StartPoll, Launch, SetToggle, CInv, Answering, Succeeded
<1>2. ASSUME NEW n \in 0 .. MaxPackets, StartControl(n) PROVE CInv'
  BY <1>2 DEF StartControl, Launch, CInv, Succeeded
<1>3. CASE Repeat
  BY <1>3 DEF Repeat, NakAgain, TimeoutAgain, CInv, Answering, Succeeded
<1>4. CASE Fail
  BY <1>4 DEF Fail, GivesUp, Return, CInv, Answering, Succeeded
<1>5. CASE Expire
  BY <1>5 DEF Expire, Return, CInv, Answering, Succeeded
<1>6. CASE AfterSetup
  <2>1. Len(data) = 0 /\ packet = 0 /\ length = packets /\ toggle[0] = 1
    BY <1>6 DEF AfterSetup, SetupAccepted, InStep, CInv, Succeeded
  <2>2. UNCHANGED <<data, packets, packet, length, toggle>> /\ ~done'
    BY <1>6 DEF AfterSetup, Launch
  <2>3. CASE packets > 0
    <3>1. rcvtog' = 1
      BY <1>6, <2>3 DEF AfterSetup, SetToggle, TransferTypeOK, ProgramTypes, Endpoints
    <3> QED
      BY <1>6, <2>1, <2>2, <2>3, <3>1 DEF AfterSetup, Launch, CInv, Answering, Succeeded
  <2>4. CASE ~(packets > 0)
    <3>1. packets = 0
      BY <2>4, LimitFacts DEF TransferTypeOK, ProgramTypes, Limits
    <3> QED
      BY <1>6, <2>1, <2>2, <2>4, <3>1 DEF AfterSetup, Launch, CInv
  <2> QED
    BY <2>3, <2>4
<1>7. CASE ReadMore
  <2>1. data \in Seq(Nat) /\ Len(data) \in Nat /\ data' = Append(data, fifo) /\ Succeeded
    BY <1>7 DEF ReadMore, Read, TransferTypeOK, ProgramTypes, Succeeded
  <2>2. Len(data') = Len(data) + 1 /\ \A i \in 1 .. Len(data) + 1 : data'[i] = IF i <= Len(data) THEN data[i] ELSE fifo
    BY <2>1
  <2>3. CASE stage = "data"
    <3>1. fifo = Len(data)
      BY <2>1, <2>3 DEF CInv, Answering
    <3>2. \A i \in 1 .. Len(data') : data'[i] = i - 1
      BY <2>1, <2>2, <2>3, <3>1 DEF CInv
    <3>3. stage' = "data" /\ ~done' /\ UNCHANGED <<packets, packet, length, toggle, rcvtog>>
      BY <1>7, <2>3 DEF ReadMore, Launch
    <3>4. Answering'
      BY <2>1, <2>2, <2>3, <3>3 DEF CInv, Answering, Succeeded
    <3> QED
      BY <3>2, <3>3, <3>4 DEF CInv
  <2>4. CASE stage = "report"
    BY <1>7, <2>4 DEF ReadMore, Launch, CInv
  <2> QED
    BY <1>7, <2>3, <2>4 DEF ReadMore, Read
<1>8. CASE ReadLast
  <2>1. data \in Seq(Nat) /\ Len(data) \in Nat /\ data' = Append(data, fifo) /\ Succeeded
    BY <1>8 DEF ReadLast, Read, TransferTypeOK, ProgramTypes, Succeeded
  <2>2. Len(data') = Len(data) + 1 /\ \A i \in 1 .. Len(data) + 1 : data'[i] = IF i <= Len(data) THEN data[i] ELSE fifo
    BY <2>1
  <2>3. CASE stage = "data"
    <3>1. fifo = Len(data)
      BY <2>1, <2>3 DEF CInv, Answering
    <3>2. \A i \in 1 .. Len(data') : data'[i] = i - 1
      BY <2>1, <2>2, <2>3, <3>1 DEF CInv
    <3>3. stage' = "status" /\ packets' = packets /\ Len(data') >= packets
      BY <1>8, <2>3 DEF ReadLast, Launch
    <3>4. Len(data') <= packets
      BY <1>8, ReadData DEF ReadLast
    <3>5. Len(data') = packets
      BY <2>1, <2>2, <3>3, <3>4, LimitFacts DEF TransferTypeOK, ProgramTypes, Limits
    <3> QED
      BY <3>2, <3>3, <3>5 DEF CInv
  <2>4. CASE stage = "report"
    BY <1>8, <2>4 DEF ReadLast, Return, CInv
  <2> QED
    BY <1>8, <2>3, <2>4 DEF ReadLast, Read
<1>9. CASE AfterStatus
  BY <1>9 DEF AfterStatus, Return, CInv, Answering, Succeeded
<1>10. CASE Reconfigure
  BY <1>10 DEF Reconfigure, HID_init, CInv, Answering, Succeeded
<1>11. CASE NoAnswer
  BY <1>11 DEF NoAnswer, Busy, CInv, Answering, Succeeded
<1>12. CASE TakeSetup
  BY <1>12 DEF TakeSetup, Busy, CInv, Succeeded, TransferTypeOK, GadgetTypes, Endpoints
<1>13. CASE TakeStatus
  BY <1>13 DEF TakeStatus, Busy, CInv, Answering, Succeeded
<1>14. ASSUME NEW a \in BOOLEAN, Send(a) PROVE CInv'
  <2>1. UNCHANGED <<stage, data, packets, length>> /\ done'
    BY <1>14 DEF Send
  <2>2. CASE stage = "report"
    BY <2>1, <2>2 DEF CInv
  <2>3. CASE stage = "data"
    <3>1. Endpoint = 0 /\ ~Succeeded /\ Answering
      BY <1>14, <2>3 DEF Send, Busy, Endpoint, Succeeded, CInv
    <3>2. /\ toggle[0] \in {0, 1} /\ rcvtog \in {0, 1} /\ packet \in Nat /\ Len(data) \in Nat
          /\ toggle'[0] = IF a THEN 1 - toggle[0] ELSE toggle[0]
          /\ packet' = IF a THEN packet + 1 ELSE packet
      BY <1>14, <2>3, <3>1, LimitFacts DEF Send, TransferTypeOK, ChipTypes, GadgetTypes, ProgramTypes, Endpoints, Limits
    <3>3. Answering'
      <4>1. CASE toggle[0] = rcvtog
        <5>1. packet = Len(data)
          BY <3>1, <3>2, <4>1 DEF Answering
        <5>2. hrsl' = "SUCCESS" /\ rcvtog' = 1 - rcvtog /\ fifo' = packet
          BY <1>14, <2>3, <3>1, <4>1 DEF Send
        <5> QED
          BY <2>1, <3>1, <3>2, <4>1, <5>1, <5>2 DEF Answering, Succeeded
      <4>2. CASE toggle[0] # rcvtog
        <5>1. hrsl' = "TOGERR" /\ rcvtog' = rcvtog
          BY <1>14, <2>3, <3>1, <4>2 DEF Send
        <5>2. packet = Len(data) - 1 /\ toggle[0] = 1 - rcvtog
          BY <3>1, <3>2, <4>2 DEF Answering
        <5> QED
          BY <2>1, <3>1, <3>2, <5>1, <5>2 DEF Answering, Succeeded
      <4> QED
        BY <4>1, <4>2
    <3> QED
      BY <2>1, <2>3, <3>3 DEF CInv
  <2> QED
    BY <1>14, <2>2, <2>3 DEF Send
<1>15. CASE UNCHANGED vars
  BY <1>15 DEF CInv, Answering, Succeeded
<1> QED
  BY <1>1, <1>2, <1>3, <1>4, <1>5, <1>6, <1>7, <1>8, <1>9, <1>10, <1>11, <1>12, <1>13, <1>14, <1>15 DEF Next, Continue, Transact

LEMMA CInvariant == Spec => [](TInv /\ CInv)
<1>1. Init => TInv /\ CInv
  BY TransferInit, CInit
<1>2. TInv /\ CInv /\ [Next]_vars => (TInv /\ CInv)'
  BY TransferStep, CStep
<1> QED
  BY <1>1, <1>2, PTL DEF Spec

\* A control request that ends well has read its own answer, whole and in order.
THEOREM RequestsAreIntact == Spec => CtrlIntact
<1>1. TInv /\ CInv /\ [Next]_vars => [AfterStatus => data = [i \in 1 .. packets |-> i - 1]]_vars
  <2> SUFFICES ASSUME TInv, CInv, AfterStatus PROVE data = [i \in 1 .. packets |-> i - 1]
    OBVIOUS
  <2>1. data \in Seq(Nat) /\ packets \in Nat
    BY LimitFacts DEF TInv, TransferTypeOK, ProgramTypes, Limits
  <2>2. Len(data) = packets /\ \A i \in 1 .. packets : data[i] = i - 1
    BY DEF AfterStatus, CInv
  <2>3. data = [i \in 1 .. Len(data) |-> data[i]]
    BY <2>1
  <2> QED
    BY <2>2, <2>3
<1> QED
  BY <1>1, CInvariant, PTL DEF Spec, CtrlIntact

-----------------------------------------------------------------------------
(* Why a transfer returns: what needs no fairness                          *)

\* The packets a transfer has still to bring to an end, and what is left to try
\* for the one under way.
PacketsLeft ==
  IF stage = "idle" THEN 0 ELSE IF stage = "status" THEN 1
  ELSE IF stage = "setup" THEN packets + 2 ELSE packets - Len(data) + 1
Tries ==
  2 * (NakLimit - nak_count) + 2 * (RetryLimit - retry_count) + (IF done THEN 0 ELSE 1)

\* With a result in rHRSL the program has something to do: it repeats the packet,
\* gives up, or goes on (the guards of the actions of Continue).
Decided ==
  \/ hrsl = "NAK" /\ nak_count + 1 # NakLimit
  \/ hrsl = "TIMEOUT" /\ retry_count + 1 # RetryLimit
  \/ GivesUp
  \/ SetupAccepted
  \/ stage \in {"report", "data"} /\ hrsl = "SUCCESS" /\ fifo # Nothing
  \/ stage = "status" /\ hrsl = "SUCCESS"

\* No result leaves XferDispatchPkt or XferInTransfer without a way on: in
\* particular the FIFO is never empty after a success.
THEOREM EveryResultIsHandled == Spec => [](stage # "idle" /\ done => Decided)
<1>1. TInv /\ CInv => (stage # "idle" /\ done => Decided)
  <2> SUFFICES ASSUME TInv, CInv, stage # "idle", done PROVE Decided
    OBVIOUS
  <2>1. /\ stage \in {"report", "setup", "data", "status"}
        /\ hrsl \in {"SUCCESS", "NAK", "TIMEOUT", "TOGERR"}
    BY DEF TInv, TransferTypeOK, ProgramTypes, ChipTypes
  <2>2. CASE hrsl # "SUCCESS"
    BY <2>1, <2>2 DEF Decided, GivesUp
  <2>3. CASE hrsl = "SUCCESS" /\ stage = "report"
    <3>1. fifo = shown /\ shown \in 0 .. Reports - 1
      BY <2>3 DEF TInv, InStep, Received, TransferTypeOK, ProgramTypes
    <3> QED
      BY <2>3, <3>1, LimitFacts DEF Decided, Nothing, Limits
  <2>4. CASE hrsl = "SUCCESS" /\ stage = "data"
    <3>1. fifo = Len(data) /\ Len(data) \in Nat
      BY <2>4 DEF CInv, Answering, Succeeded, TInv, TransferTypeOK, ProgramTypes
    <3> QED
      BY <2>4, <3>1 DEF Decided, Nothing
  <2>5. CASE hrsl = "SUCCESS" /\ stage \in {"setup", "status"}
    BY <2>5 DEF Decided, SetupAccepted
  <2> QED
    BY <2>1, <2>2, <2>3, <2>4, <2>5
<1> QED
  BY <1>1, CInvariant, PTL

LEMMA TriesRange ==
  ASSUME NEW nak \in 0 .. NakLimit - 1, NEW retry \in 0 .. RetryLimit - 1, NEW d \in {0, 1}
  PROVE  /\ 2 * (NakLimit - nak) + 2 * (RetryLimit - retry) + d \in 0 .. 2 * NakLimit + 2 * RetryLimit + 1
         /\ 2 * (NakLimit - (nak + 1)) + 2 * (RetryLimit - retry) + 1
              < 2 * (NakLimit - nak) + 2 * (RetryLimit - retry) + 0
         /\ 2 * (NakLimit - nak) + 2 * (RetryLimit - (retry + 1)) + 1
              < 2 * (NakLimit - nak) + 2 * (RetryLimit - retry) + 0
         /\ 2 * (NakLimit - nak) + 2 * (RetryLimit - retry) + 0
              < 2 * (NakLimit - nak) + 2 * (RetryLimit - retry) + 1
  BY LimitFacts DEF Limits

LEMMA Progress ==
  ASSUME TInv, CInv, Next, stage # "idle"
  PROVE  PacketsLeft' < PacketsLeft \/ (PacketsLeft' = PacketsLeft /\ Tries' < Tries)
<1>1. /\ packets \in Nat /\ Len(data) \in Nat
      /\ nak_count \in 0 .. NakLimit - 1 /\ retry_count \in 0 .. RetryLimit - 1
      /\ stage \in {"report", "setup", "data", "status"}
      /\ stage \in {"report", "data"} => Len(data) < packets
      /\ stage = "setup" => Len(data) = 0
      /\ NakLimit \in Nat /\ RetryLimit \in Nat
  BY LimitFacts DEF Limits, TInv, InStep, TransferTypeOK, ProgramTypes
<1>2. ~StartPoll /\ ~Reconfigure /\ \A m \in 0 .. MaxPackets : ~StartControl(m)
  BY DEF StartPoll, Reconfigure, StartControl
<1>3. CASE Fail \/ Expire \/ AfterStatus
  <2>1. PacketsLeft' = 0
    BY <1>3 DEF Fail, Expire, AfterStatus, Return, PacketsLeft
  <2>2. 0 < PacketsLeft
    BY <1>1 DEF PacketsLeft
  <2> QED
    BY <2>1, <2>2
<1>4. CASE Repeat
  <2>1. PacketsLeft' = PacketsLeft
    BY <1>4 DEF Repeat, PacketsLeft
  <2>2. done /\ ~done' /\ (NakAgain \/ TimeoutAgain)
    BY <1>4 DEF Repeat
  <2>3. CASE NakAgain
    <3>1. Tries' = 2 * (NakLimit - (nak_count + 1)) + 2 * (RetryLimit - retry_count) + 1
      BY <2>2, <2>3 DEF NakAgain, Tries
    <3>2. Tries = 2 * (NakLimit - nak_count) + 2 * (RetryLimit - retry_count) + 0
      BY <2>2 DEF Tries
    <3> QED
      BY <1>1, <2>1, <3>1, <3>2, TriesRange
  <2>4. CASE TimeoutAgain
    <3>1. Tries' = 2 * (NakLimit - nak_count) + 2 * (RetryLimit - (retry_count + 1)) + 1
      BY <2>2, <2>4 DEF TimeoutAgain, Tries
    <3>2. Tries = 2 * (NakLimit - nak_count) + 2 * (RetryLimit - retry_count) + 0
      BY <2>2 DEF Tries
    <3> QED
      BY <1>1, <2>1, <3>1, <3>2, TriesRange
  <2> QED
    BY <2>2, <2>3, <2>4
<1>5. CASE Transact
  <2>1. UNCHANGED <<stage, packets, data, nak_count, retry_count>> /\ ~done /\ done'
    BY <1>5 DEF Transact, NoAnswer, TakeSetup, TakeStatus, Send, Busy, program
  <2>2. PacketsLeft' = PacketsLeft
    BY <2>1 DEF PacketsLeft
  <2>3. /\ Tries' = 2 * (NakLimit - nak_count) + 2 * (RetryLimit - retry_count) + 0
        /\ Tries = 2 * (NakLimit - nak_count) + 2 * (RetryLimit - retry_count) + 1
    BY <2>1 DEF Tries
  <2> QED
    BY <1>1, <2>2, <2>3, TriesRange
<1>6. CASE AfterSetup
  <2>1. stage = "setup" /\ UNCHANGED <<packets, data>> /\ Len(data) = 0
        /\ stage' = IF packets > 0 THEN "data" ELSE "status"
    BY <1>1, <1>6 DEF AfterSetup, SetupAccepted, Launch
  <2>2. PacketsLeft = packets + 2
    BY <2>1 DEF PacketsLeft
  <2>3. PacketsLeft' = IF packets > 0 THEN packets + 1 ELSE 1
    BY <1>1, <2>1 DEF PacketsLeft
  <2> QED
    BY <1>1, <2>2, <2>3
<1>7. CASE ReadMore
  <2>1. stage \in {"report", "data"} /\ stage' = stage /\ packets' = packets
    BY <1>7 DEF ReadMore, Read, Launch
  <2>2. Len(data') = Len(data) + 1
    BY <1>7, ReadData DEF ReadMore
  <2>3. PacketsLeft = packets - Len(data) + 1 /\ PacketsLeft' = packets - (Len(data) + 1) + 1
    BY <2>1, <2>2 DEF PacketsLeft
  <2> QED
    BY <1>1, <2>3
<1>8. CASE ReadLast
  <2>1. stage \in {"report", "data"} /\ stage' \in {"idle", "status"}
    BY <1>8 DEF ReadLast, Read, Launch, Return
  <2>2. PacketsLeft = packets - Len(data) + 1
    BY <2>1 DEF PacketsLeft
  <2>3. PacketsLeft' = 0 \/ PacketsLeft' = 1
    BY <2>1 DEF PacketsLeft
  <2> QED
    BY <1>1, <2>1, <2>2, <2>3
<1> QED
  BY <1>2, <1>3, <1>4, <1>5, <1>6, <1>7, <1>8 DEF Next, Continue

\* However the device answers, a transfer takes at most MaxPackets + 2 packets,
\* and each of them at most 2 (USB_NAK_LIMIT + USB_RETRY_LIMIT) + 1 steps: every
\* step in a transfer brings a packet to an end or uses up one of its tries.
THEOREM RetriesAreBounded ==
  Spec => /\ [](PacketsLeft \in 0 .. MaxPackets + 2 /\ Tries \in 0 .. 2 * NakLimit + 2 * RetryLimit + 1)
          /\ [][stage # "idle" =>
                  PacketsLeft' < PacketsLeft \/ (PacketsLeft' = PacketsLeft /\ Tries' < Tries)]_vars
<1>1. TInv /\ CInv =>
        PacketsLeft \in 0 .. MaxPackets + 2 /\ Tries \in 0 .. 2 * NakLimit + 2 * RetryLimit + 1
  <2> SUFFICES ASSUME TInv
               PROVE  /\ PacketsLeft \in 0 .. MaxPackets + 2
                      /\ Tries \in 0 .. 2 * NakLimit + 2 * RetryLimit + 1
    OBVIOUS
  <2>1. /\ packets \in 0 .. MaxPackets /\ Len(data) \in Nat /\ MaxPackets \in Nat
        /\ nak_count \in 0 .. NakLimit - 1 /\ retry_count \in 0 .. RetryLimit - 1
        /\ stage \in {"report", "data"} => Len(data) < packets
        /\ stage \in {"idle", "report", "setup", "data", "status"}
    BY LimitFacts DEF Limits, TInv, InStep, TransferTypeOK, ProgramTypes
  <2>2. PacketsLeft \in 0 .. MaxPackets + 2
    BY <2>1 DEF PacketsLeft
  <2>3. Tries = 2 * (NakLimit - nak_count) + 2 * (RetryLimit - retry_count) + (IF done THEN 0 ELSE 1)
    BY DEF Tries
  <2> QED
    BY <2>1, <2>2, <2>3, TriesRange
<1>2. TInv /\ CInv /\ [Next]_vars =>
        [stage # "idle" =>
           PacketsLeft' < PacketsLeft \/ (PacketsLeft' = PacketsLeft /\ Tries' < Tries)]_vars
  BY Progress
<1> QED
  BY <1>1, <1>2, CInvariant, PTL DEF Spec

-----------------------------------------------------------------------------
(* Keys *)

\* A key that is in both lists is no later in the second one.
MovesUp(one, two) ==
  \A i, k \in Codes : one[i] = two[k] /\ one[i] # NoKey => k <= i

\* kbdbuf holds the last report, or none yet; setKeycode has written the ports
\* below next.
KInv ==
  /\ TInv /\ KeysTypeOK
  /\ kbdbuf = Released \/ \E r \in 0 .. Reports - 1 : shown = Following(r) /\ kbdbuf = Contents[r]
  /\ MovesUp(before, kbdbuf)
  /\ \A i \in Codes : port[i] = IF next # 0 /\ next <= i THEN before[i] ELSE kbdbuf[i]

LEMMA KeysInit == KInit => KInv
<1> SUFFICES ASSUME KInit PROVE KInv
  OBVIOUS
<1>1. TInv
  BY TransferInit DEF KInit
<1>2. Released \in [Codes -> Nat] /\ \A i \in Codes : Released[i] = NoKey
  BY DEF Released, NoKey
<1> QED
  BY <1>1, <1>2 DEF KInit, KInv, KeysTypeOK, MovesUp

LEMMA KeysStep == KInv /\ [KNext]_<<vars, keyVars>> => KInv'
<1> SUFFICES ASSUME KInv, [KNext]_<<vars, keyVars>> PROVE KInv'
  OBVIOUS
<1> USE DEF keyVars
<1>1. CASE HandOver
  <2>1. [Next]_vars
    BY <1>1 DEF HandOver, Next, Continue
  <2>2. TInv'
    BY <2>1, TransferStep DEF KInv
  <2>3. shown' = Following(shown) /\ shown \in 0 .. Reports - 1
    BY <1>1 DEF HandOver, ReadLast, Following, KInv, TInv, TransferTypeOK, ProgramTypes
  <2>4. fifo = shown
    BY <2>1, <2>3, FollowingRange, OrderStep DEF KInv
  <2>5. /\ kbdbuf' = Contents[shown] /\ before' = kbdbuf /\ next' = 1 /\ port' = port /\ next = 0
    BY <1>1, <2>4 DEF HandOver
  <2>6. Contents[shown] \in [Codes -> Nat]
    BY <2>3, KeysAssumption
  <2>7. MovesUp(kbdbuf, Contents[shown])
    <3>1. CASE kbdbuf = Released
      BY <3>1 DEF MovesUp, Released
    <3>2. CASE \E r \in 0 .. Reports - 1 : shown = Following(r) /\ kbdbuf = Contents[r]
      BY <3>2, KeysAssumption DEF MovesUp
    <3> QED
      BY <3>1, <3>2 DEF KInv
  <2>8. \A i \in Codes : port[i] = kbdbuf[i]
    BY <2>5 DEF KInv
  <2>9. \A i \in Codes : 1 <= i
    BY DEF Codes
  <2>10. KeysTypeOK'
    BY <2>5, <2>6 DEF KInv, KeysTypeOK
  <2>11. MovesUp(before', kbdbuf')
    BY <2>5, <2>7
  <2>12. \A i \in Codes : port'[i] = IF next' # 0 /\ next' <= i THEN before'[i] ELSE kbdbuf'[i]
    BY <2>5, <2>8, <2>9
  <2> QED
    BY <2>2, <2>3, <2>5, <2>10, <2>11, <2>12 DEF KInv, MovesUp
<1>2. CASE setKeycode
  <2>1. TInv'
    BY <1>2, TransferStep DEF setKeycode, KInv
  <2>2. next \in Codes /\ UNCHANGED <<kbdbuf, before, shown>>
    BY <1>2 DEF setKeycode, KInv, KeysTypeOK, Codes, vars
  <2>3. port' = [port EXCEPT ![next] = kbdbuf[next]] /\ next' = IF next = 4 THEN 0 ELSE next + 1
    BY <1>2 DEF setKeycode, Port
  <2>4. KeysTypeOK'
    BY <2>2, <2>3 DEF KInv, KeysTypeOK, Codes
  <2>5. \A i \in Codes : port'[i] = IF next' # 0 /\ next' <= i THEN before[i] ELSE kbdbuf[i]
    <3> SUFFICES ASSUME NEW i \in Codes
                 PROVE  port'[i] = IF next' # 0 /\ next' <= i THEN before[i] ELSE kbdbuf[i]
      OBVIOUS
    <3>1. port'[i] = IF i = next THEN kbdbuf[i] ELSE port[i]
      BY <2>2, <2>3 DEF KInv, KeysTypeOK
    <3>2. port[i] = IF next <= i THEN before[i] ELSE kbdbuf[i]
      BY <2>2 DEF KInv, Codes
    <3> QED
      BY <2>2, <2>3, <3>1, <3>2 DEF Codes
  <2> QED
    BY <2>1, <2>2, <2>4, <2>5 DEF KInv, MovesUp
<1>3. CASE Transferring
  <2>1. shown' = shown
    BY <1>3 DEF Transferring, Next, Continue, Transact, StartPoll, StartControl, Repeat, Fail, Expire,
                AfterSetup, ReadMore, ReadLast, Read, AfterStatus, Reconfigure, NoAnswer, TakeSetup,
                TakeStatus, Send
  <2>2. TInv'
    BY <1>3, TransferStep DEF Transferring, KInv
  <2> QED
    BY <1>3, <2>1, <2>2 DEF Transferring, KInv, KeysTypeOK, MovesUp
<1>4. CASE UNCHANGED <<vars, keyVars>>
  <2>1. TInv'
    BY <1>4, TransferStep DEF KInv
  <2> QED
    BY <1>4, <2>1 DEF KInv, KeysTypeOK, MovesUp, vars
<1> QED
  BY <1>1, <1>2, <1>3, <1>4 DEF KNext

LEMMA KeysInvariant == KSpec => []KInv
<1>1. KInit => KInv
  BY KeysInit
<1>2. KInv /\ [KNext]_<<vars, keyVars>> => KInv'
  BY KeysStep
<1> QED
  BY <1>1, <1>2, PTL DEF KSpec

\* Between two reports the game sees no key come or go that did not.
THEOREM KeysDoNotGlitch == KSpec => []NoGlitch
<1>1. KInv => NoGlitch
  <2> SUFFICES ASSUME KInv PROVE NoGlitch
    OBVIOUS
  <2>1. KeysOf(kbdbuf) \cap KeysOf(before) \subseteq KeysOf(port)
    <3> SUFFICES ASSUME NEW i \in Codes, NEW k \in Codes, before[i] = kbdbuf[k], before[i] # NoKey
                 PROVE  before[i] \in KeysOf(port)
      BY DEF KeysOf
    <3>1. k <= i
      BY DEF KInv, MovesUp
    <3>2. port[k] = kbdbuf[k] \/ port[i] = before[i]
      BY <3>1 DEF KInv, KeysTypeOK, Codes
    <3> QED
      BY <3>2 DEF KeysOf
  <2>2. KeysOf(port) \subseteq KeysOf(kbdbuf) \cup KeysOf(before)
    BY DEF KInv, KeysOf
  <2>3. next = 0 => port = kbdbuf
    BY DEF KInv, KeysTypeOK
  <2> QED
    BY <2>1, <2>2, <2>3 DEF NoGlitch
<1> QED
  BY <1>1, KeysInvariant, PTL

\* The composition keeps the promises of Transfer.
THEOREM KeysImplementTransfer == KSpec => Spec
<1>1. KInit => Init
  BY DEF KInit
<1>2. [KNext]_<<vars, keyVars>> => [Next]_vars
  BY DEF KNext, HandOver, setKeycode, Transferring, Next, Continue
<1> QED
  BY <1>1, <1>2, PTL DEF KSpec, Spec

\* Nothing between the keyboard and the ports loses, repeats or mixes reports:
\* they are taken in the order of the FIFO, a descriptor is put together from
\* its packets in order, and outside setKeycode the ports show one whole
\* report, the last one taken (transfer.c, XferInTransfer; main.c, setKeycode).
THEOREM PortsShowTheLastReport ==
  KSpec =>
    /\ InOrder /\ CtrlIntact
    /\ [](next = 0 =>
             \/ port = Released
             \/ \E r \in 0 .. Reports - 1 : shown = Following(r) /\ port = Contents[r])
<1>1. KInv => (next = 0 =>
                 \/ port = Released
                 \/ \E r \in 0 .. Reports - 1 : shown = Following(r) /\ port = Contents[r])
  <2> SUFFICES ASSUME KInv, next = 0
               PROVE  \/ port = Released
                      \/ \E r \in 0 .. Reports - 1 : shown = Following(r) /\ port = Contents[r]
    OBVIOUS
  <2>1. port = kbdbuf
    BY DEF KInv, KeysTypeOK
  <2> QED
    BY <2>1 DEF KInv
<1> QED
  BY <1>1, KeysInvariant, KeysImplementTransfer, ReportsInOrder, RequestsAreIntact, PTL
=============================================================================
