--------------------------- MODULE UsbHostProofs ---------------------------
(***************************************************************************)
(* Proofs about UsbHost for every number of addresses and every set of     *)
(* gadgets and faults.                                                     *)
(*                                                                         *)
(* The argument follows one turn of main().  A change of the bus leaves    *)
(* CONDET in HIRQ until a handler has probed the bus after it, or missed   *)
(* is set; so what the host believes of the bus is true at each place      *)
(* where the flag is down.  The device that runs is always the last entry  *)
(* of the table (TableInv), which is what makes the report of the last     *)
(* entry the right one, and main() cannot see two devices run without      *)
(* dropping debugflag in between (TurnInv).                                *)
(***************************************************************************)
EXTENDS UsbHost, TLAPS

\* States that MAX_busprobe leaves behind, and those after usb_task_state++.
ProbedStates  == {INITIALIZE, WAIT_FOR_DEVICE, ILLEGAL, ATTACHED, WAIT_RESET_COMPLETE}
HandledStates == ProbedStates \cup {2, 5, SETTLE, WAIT_SOF}

\* Entries 1 to m are in use, and the last of them is the device at work.
TableOf(m) ==
  /\ InUse = 1 .. m
  /\ task = CONFIGURING => m > 0 /\ tmp_addr = m
  /\ task = RUNNING => m > 0 /\ hid_addr = m /\ devtable[m].epinfo = "hid"
TableInv == \E m \in 0 .. NumDevices - 1 : TableOf(m)

TurnInv ==
  /\ pc = "init" => ~debugflag
  /\ pc = "clear" => ~debugflag /\ task \in ProbedStates
  /\ pc = "ack" => "CONDET" \in sendback /\ task \in HandledStates
  /\ debugflag /\ pc = "irq" => task \in {RUNNING, ERROR}
  /\ debugflag /\ pc \in {"ack", "usb"} =>
        task \in {RUNNING, ERROR, INITIALIZE, 2, ILLEGAL, 5, ATTACHED, SETTLE}
  /\ debugflag /\ task = RUNNING => device = devtable[hid_addr].devclass

TalkInv ==
  task = RUNNING => ~busreset /\ (INT \/ (Attached /\ daddr = hid_addr /\ bus.low = low))

SpeedInv ==
  task \in {ATTACHED, SETTLE, RESET_DEVICE} /\ Attached /\ ~missed
    /\ (~INT \/ pc \in {"ack", "clear"})
  => bus.low = low

DetectInv ==
  Detached(task) /\ Attached /\ ~missed /\ pc # "init" => INT /\ pc \notin {"ack", "clear"}

IInv == UsbTypeOK /\ TableInv /\ TurnInv /\ TalkInv /\ SpeedInv /\ DetectInv

-----------------------------------------------------------------------------
(* Facts                                                                   *)

USE DEF INITIALIZE, WAIT_FOR_DEVICE, ILLEGAL, ATTACHED, SETTLE, RESET_DEVICE, WAIT_RESET_COMPLETE, WAIT_SOF,
           GET_DESCRIPTOR_SIZE, ADDRESSING, CONFIGURING, RUNNING, ERROR

LEMMA BusTypes ==
  ASSUME UsbTypeOK
  PROVE  /\ Attached => bus.low \in BOOLEAN /\ bus # SE1 /\ bus # SE0
         /\ SE0 # SE1 /\ ~Attached => bus \in {SE0, SE1}
  BY UsbAssumption DEF Attached, SE0, SE1, UsbTypeOK

LEMMA ProbedFacts ==
  ASSUME UsbTypeOK, NEW t \in States
  PROVE  /\ Probed(t) \in ProbedStates
         /\ Attached => Probed(t) = IF t = WAIT_RESET_COMPLETE THEN t ELSE ATTACHED
         /\ ~Attached => Probed(t) \in {ILLEGAL, WAIT_FOR_DEVICE, INITIALIZE}
         /\ ~Attached /\ ~Detached(t) => Probed(t) \in {ILLEGAL, INITIALIZE}
<1>1. CASE Attached
  <2>1. Probed(t) = IF t = WAIT_RESET_COMPLETE THEN t ELSE ATTACHED
    BY <1>1, BusTypes DEF Probed
  <2> QED
    BY <1>1, <2>1 DEF ProbedStates
<1>2. CASE ~Attached /\ bus = SE1
  <2>1. Probed(t) = ILLEGAL
    BY <1>2 DEF Probed
  <2> QED
    BY <1>2, <2>1 DEF ProbedStates
<1>3. CASE ~Attached /\ bus # SE1
  <2>1. Probed(t) = IF Detached(t) THEN WAIT_FOR_DEVICE ELSE INITIALIZE
    BY <1>3 DEF Probed
  <2> QED
    BY <1>3, <2>1 DEF ProbedStates
<1> QED
  BY <1>1, <1>2, <1>3

LEMMA SpeedFacts ==
  ASSUME UsbTypeOK, NEW t \in States, NEW l \in BOOLEAN
  PROVE  /\ Speed(t, l) \in BOOLEAN
         /\ Attached /\ t # WAIT_RESET_COMPLETE => Speed(t, l) = bus.low
         /\ Attached /\ t = WAIT_RESET_COMPLETE => Speed(t, l) = l
<1>1. CASE Attached /\ t = WAIT_RESET_COMPLETE
  <2>1. bus # SE0
    BY <1>1, BusTypes DEF Attached
  <2>2. Speed(t, l) = l
    BY <1>1, <2>1 DEF Speed, J, K, Detached
  <2> QED
    BY <1>1, <2>2
<1>2. CASE Attached /\ t # WAIT_RESET_COMPLETE
  <2>1. bus.low \in BOOLEAN /\ bus # SE0
    BY <1>2, BusTypes
  <2>2. CASE bus.low = l
    <3>1. Speed(t, l) = l
      BY <1>2, <2>1, <2>2 DEF Speed, J, K, Detached
    <3> QED
      BY <1>2, <2>2, <3>1
  <2>3. CASE bus.low # l
    <3>1. Speed(t, l) = ~l
      BY <1>2, <2>1, <2>3 DEF Speed, J, K, Detached
    <3>2. bus.low = ~l /\ (~l) \in BOOLEAN
      BY <2>1, <2>3
    <3> QED
      BY <1>2, <3>1, <3>2
  <2> QED
    BY <2>2, <2>3
<1>3. CASE ~Attached
  <2>1. Speed(t, l) = IF bus = SE0 /\ Detached(t) THEN FALSE ELSE l
    BY <1>3 DEF Speed, J, K
  <2> QED
    BY <1>3, <2>1
<1> QED
  BY <1>1, <1>2, <1>3

\* A step that leaves the table alone, and the device at work if there is one.
LEMMA TableFrame ==
  ASSUME TableInv, UNCHANGED devtable,
         task' = CONFIGURING => task = CONFIGURING /\ UNCHANGED tmp_addr,
         task' = RUNNING => task = RUNNING /\ UNCHANGED hid_addr
  PROVE  TableInv'
<1>1. PICK m \in 0 .. NumDevices - 1 : TableOf(m)
  BY DEF TableInv
<1>2. TableOf(m)'
  BY <1>1 DEF TableOf, InUse, Free
<1> QED
  BY <1>2 DEF TableInv

LEMMA EmptyFacts == /\ EmptyTable \in [Addresses -> [epinfo : {"null", "dev0", "hid"}, devclass : 0 .. 2]]
                    /\ \A a \in Addresses : EmptyTable[a].epinfo = "null"
  BY DEF EmptyTable

LEMMA TableEmpty ==
  ASSUME devtable' = EmptyTable, task' \notin {CONFIGURING, RUNNING}
  PROVE  TableInv'
<1>1. InUse' = 1 .. 0
  BY EmptyFacts DEF InUse, Free
<1>2. 0 \in 0 .. NumDevices - 1
  BY UsbAssumption
<1> QED
  BY <1>1, <1>2 DEF TableInv, TableOf

LEMMA InitInv == Init => IInv
<1> SUFFICES ASSUME Init PROVE IInv
  OBVIOUS
<1>1. UsbTypeOK
  <2>1. 0 \in 0 .. NumDevices - 1 /\ Nobody \in Nobody .. NumDevices - 1
    BY UsbAssumption DEF Nobody
  <2> QED
    BY <2>1, EmptyFacts DEF Init, UsbTypeOK, States, Unknown
<1>2. TableInv
  <2>1. InUse = 1 .. 0
    BY EmptyFacts DEF Init, InUse, Free
  <2>2. 0 \in 0 .. NumDevices - 1
    BY UsbAssumption
  <2> QED
    BY <2>1, <2>2 DEF Init, TableInv, TableOf
<1>3. TurnInv /\ TalkInv /\ SpeedInv /\ DetectInv
  BY DEF Init, TurnInv, TalkInv, SpeedInv, DetectInv
<1> QED
  BY <1>1, <1>2, <1>3 DEF IInv

\* What the handler makes of the task.
LEMMA HandledTask ==
  ASSUME UsbTypeOK, Handle
  PROVE  /\ low' = Speed(task, low) /\ low' \in BOOLEAN
         /\ task' = Probed(task) \/ task' = Probed(task) + 1
         /\ task' \in HandledStates
<1>1. low' = Speed(task, low)
  BY DEF Handle, INT
<1>2. Probed(task) \in ProbedStates /\ Speed(task, low) \in BOOLEAN
  BY ProbedFacts, SpeedFacts DEF UsbTypeOK
<1>3. task' = Probed(task) \/ task' = (Probed(task) + 1) % 256
  BY DEF Handle, INT
<1>4. (Probed(task) + 1) % 256 = Probed(task) + 1
  BY <1>2 DEF ProbedStates
<1>5. task' \in HandledStates
  BY <1>2, <1>3, <1>4 DEF ProbedStates, HandledStates
<1> QED
  BY <1>1, <1>2, <1>3, <1>4, <1>5

\* The last entry in use is that of the device that runs.
LEMMA ReportFacts ==
  ASSUME TableInv, task = RUNNING
  PROVE  /\ hid_addr \in Addresses /\ devtable[hid_addr].epinfo = "hid"
         /\ Report = devtable[hid_addr].devclass
         /\ InUse = 1 .. hid_addr
<1>1. PICK m \in 0 .. NumDevices - 1 : TableOf(m)
  BY DEF TableInv
<1>2. m > 0 /\ hid_addr = m /\ devtable[m].epinfo = "hid" /\ InUse = 1 .. m
  BY <1>1 DEF TableOf
<1>3. m \in Addresses /\ m \in InUse
  BY <1>1, <1>2, UsbAssumption DEF Addresses
<1>4. \A c : c \in InUse /\ (\A b \in InUse : c >= b) <=> c = m
  BY <1>2, <1>3
<1>5. (CHOOSE c \in InUse : \A b \in InUse : c >= b) = m
  BY <1>4
<1>6. InUse # {}
  BY <1>3
<1> QED
  BY <1>2, <1>3, <1>5, <1>6 DEF Report

LEMMA InitProbeStep == IInv /\ InitProbe => IInv'
<1> SUFFICES ASSUME IInv, InitProbe PROVE IInv'
  OBVIOUS
<1> USE DEF IInv, program, chip, world
<1>0. UsbTypeOK
  OBVIOUS
<1>1. UsbTypeOK'
  <2>1. Probed(task) \in ProbedStates /\ Speed(task, FALSE) \in BOOLEAN
    BY <1>0, ProbedFacts, SpeedFacts DEF UsbTypeOK
  <2> QED
    BY <2>1 DEF InitProbe, UsbTypeOK, ProbedStates, States
<1>2. TableInv'
  <2>1. task' \in ProbedStates
    BY <1>0, ProbedFacts DEF InitProbe, UsbTypeOK
  <2> QED
    BY <2>1, TableFrame DEF InitProbe, ProbedStates
<1>3. TurnInv'
  <2>1. task' \in ProbedStates
    BY <1>0, ProbedFacts DEF InitProbe, UsbTypeOK
  <2> QED
    BY <2>1 DEF InitProbe, TurnInv, ProbedStates
<1>4. TalkInv'
  <2>1. task' \in ProbedStates
    BY <1>0, ProbedFacts DEF InitProbe, UsbTypeOK
  <2> QED
    BY <2>1 DEF TalkInv, ProbedStates
<1>5. SpeedInv'
  <2>1. ASSUME Attached, task' # WAIT_RESET_COMPLETE PROVE low' = bus.low
    <3>1. task # WAIT_RESET_COMPLETE
      BY <1>0, <2>1, ProbedFacts DEF InitProbe, UsbTypeOK
    <3> QED
      BY <1>0, <2>1, <3>1, SpeedFacts DEF InitProbe, UsbTypeOK
  <2> SUFFICES ASSUME task' \in {ATTACHED, SETTLE, RESET_DEVICE}, Attached' PROVE bus'.low = low'
    BY DEF SpeedInv
  <2>2. Attached /\ bus' = bus /\ task' # WAIT_RESET_COMPLETE
    BY DEF InitProbe, Attached
  <2> QED
    BY <2>1, <2>2
<1>6. DetectInv'
  <2>1. Attached => ~Detached(task')
    BY <1>0, ProbedFacts DEF InitProbe, UsbTypeOK, Detached
  <2> QED
    BY <2>1 DEF InitProbe, DetectInv, Attached, Detached
<1> QED
  BY <1>1, <1>2, <1>3, <1>4, <1>5, <1>6

LEMMA InitClearStep == IInv /\ InitClear => IInv'
<1> SUFFICES ASSUME IInv, InitClear PROVE IInv'
  OBVIOUS
<1> USE DEF IInv, program, chip, world
<1>1. UsbTypeOK'
  BY EmptyFacts DEF InitClear, UsbTypeOK
<1>2. TableInv'
  BY TableEmpty DEF InitClear, TurnInv, ProbedStates
<1>3. TurnInv'
  BY DEF InitClear, UsbTypeOK, TurnInv, ProbedStates, HandledStates
<1>4. TalkInv'
  BY DEF InitClear, TurnInv, TalkInv, ProbedStates
<1>5. SpeedInv'
  BY DEF InitClear, SpeedInv, INT, Attached
<1>6. DetectInv'
  BY DEF InitClear, DetectInv, Detached, INT, Attached
<1> QED
  BY <1>1, <1>2, <1>3, <1>4, <1>5, <1>6

LEMMA NoInterruptStep == IInv /\ NoInterrupt => IInv'
<1> SUFFICES ASSUME IInv, NoInterrupt PROVE IInv'
  OBVIOUS
<1> USE DEF IInv, program, chip, world
<1>1. UsbTypeOK'
  BY DEF NoInterrupt, UsbTypeOK, States, Flags
<1>2. TableInv'
  BY TableFrame DEF NoInterrupt, UsbTypeOK
<1>3. TurnInv'
  BY DEF NoInterrupt, UsbTypeOK, TurnInv, ProbedStates, HandledStates
<1>4. TalkInv'
  BY DEF NoInterrupt, TalkInv, INT, Attached
<1>5. SpeedInv'
  BY DEF NoInterrupt, SpeedInv, INT, Attached
<1>6. DetectInv'
  BY DEF NoInterrupt, DetectInv, Detached, INT, Attached
<1> QED
  BY <1>1, <1>2, <1>3, <1>4, <1>5, <1>6

LEMMA HandleStep == IInv /\ Handle => IInv'
<1> SUFFICES ASSUME IInv, Handle PROVE IInv'
  OBVIOUS
<1> USE DEF IInv, program, chip, world
<1>0. UsbTypeOK
  OBVIOUS
<1>1. UsbTypeOK'
  BY <1>0, HandledTask DEF Handle, UsbTypeOK, HandledStates, ProbedStates, States
<1>2. TableInv'
  <2>1. task' \notin {CONFIGURING, RUNNING}
    BY <1>0, HandledTask DEF HandledStates, ProbedStates
  <2>2. UNCHANGED devtable
    BY DEF Handle
  <2> QED
    BY <2>1, <2>2, TableFrame
<1>3. TurnInv'
  <2>1. ASSUME debugflag PROVE task' \in {INITIALIZE, 2, ILLEGAL, 5, ATTACHED, SETTLE}
    <3>1. task \in {RUNNING, ERROR}
      BY <2>1 DEF Handle, TurnInv
    <3>2. Probed(task) \in {INITIALIZE, ILLEGAL, ATTACHED}
      BY <1>0, <3>1, ProbedFacts DEF UsbTypeOK, Detached
    <3> QED
      BY <1>0, <3>2, HandledTask
  <2>2. task' \in HandledStates /\ "CONDET" \in sendback'
    <3>1. "CONDET" \in sendback'
      BY DEF Handle, INT
    <3> QED
      BY <1>0, <3>1, HandledTask
  <2> QED
    BY <2>1, <2>2 DEF Handle, TurnInv, HandledStates, ProbedStates
<1>4. TalkInv'
  BY <1>0, HandledTask DEF TalkInv, HandledStates, ProbedStates
<1>5. SpeedInv'
  <2>1. ASSUME Attached, task' \in {ATTACHED, SETTLE, RESET_DEVICE} PROVE low' = bus.low
    <3>1. task # WAIT_RESET_COMPLETE
      <4>1. SUFFICES ASSUME task = WAIT_RESET_COMPLETE PROVE FALSE
        OBVIOUS
      <4>2. Probed(task) = WAIT_RESET_COMPLETE
        BY <1>0, <2>1, <4>1, ProbedFacts DEF UsbTypeOK
      <4> QED
        BY <1>0, <2>1, <4>2, HandledTask
    <3> QED
      BY <1>0, <2>1, <3>1, HandledTask, SpeedFacts DEF UsbTypeOK
  <2> QED
    BY <2>1 DEF Handle, SpeedInv, Attached
<1>6. DetectInv'
  <2>1. ASSUME Attached PROVE ~Detached(task')
    <3>1. Probed(task) \in {WAIT_RESET_COMPLETE, ATTACHED}
      BY <1>0, <2>1, ProbedFacts DEF UsbTypeOK
    <3> QED
      BY <1>0, <3>1, HandledTask DEF Detached
  <2> QED
    BY <2>1 DEF Handle, DetectInv, Attached, Detached
<1> QED
  BY <1>1, <1>2, <1>3, <1>4, <1>5, <1>6

LEMMA AcknowledgeStep == IInv /\ Acknowledge => IInv'
<1> SUFFICES ASSUME IInv, Acknowledge PROVE IInv'
  OBVIOUS
<1> USE DEF IInv, program, chip, world
<1>1. UsbTypeOK'
  BY DEF Acknowledge, UsbTypeOK, States, Flags
<1>2. TableInv'
  BY TableFrame DEF Acknowledge, UsbTypeOK
<1>3. TurnInv'
  BY DEF Acknowledge, UsbTypeOK, TurnInv, ProbedStates, HandledStates
<1>4. TalkInv'
  BY DEF Acknowledge, TurnInv, TalkInv, HandledStates, ProbedStates
<1>5. SpeedInv'
  BY DEF Acknowledge, SpeedInv, INT, Attached
<1>6. DetectInv'
  BY DEF Acknowledge, DetectInv, Detached, INT, Attached
<1> QED
  BY <1>1, <1>2, <1>3, <1>4, <1>5, <1>6

LEMMA CleanUpStep == IInv /\ CleanUp => IInv'
<1> SUFFICES ASSUME IInv, CleanUp PROVE IInv'
  OBVIOUS
<1> USE DEF IInv, program, chip, world
<1>1. UsbTypeOK'
  BY EmptyFacts DEF CleanUp, InTask, UsbTypeOK, States
<1>2. TableInv'
  BY TableEmpty DEF CleanUp
<1>3. TurnInv'
  BY DEF CleanUp, InTask, UsbTypeOK, TurnInv, ProbedStates, HandledStates
<1>4. TalkInv'
  BY DEF CleanUp, InTask, TalkInv, INT, Attached
<1>5. SpeedInv'
  BY DEF CleanUp, InTask, SpeedInv, INT, Attached
<1>6. DetectInv'
  BY DEF CleanUp, InTask, DetectInv, Detached, INT, Attached
<1> QED
  BY <1>1, <1>2, <1>3, <1>4, <1>5, <1>6

LEMMA StartSettleStep == IInv /\ StartSettle => IInv'
<1> SUFFICES ASSUME IInv, StartSettle PROVE IInv'
  OBVIOUS
<1> USE DEF IInv, program, chip, world
<1>1. UsbTypeOK'
  BY DEF StartSettle, InTask, UsbTypeOK, States, Flags
<1>2. TableInv'
  BY TableFrame DEF StartSettle, InTask, UsbTypeOK
<1>3. TurnInv'
  BY DEF StartSettle, InTask, UsbTypeOK, TurnInv, ProbedStates, HandledStates
<1>4. TalkInv'
  BY DEF StartSettle, InTask, TalkInv, INT, Attached
<1>5. SpeedInv'
  BY DEF StartSettle, InTask, SpeedInv, INT, Attached
<1>6. DetectInv'
  BY DEF StartSettle, InTask, DetectInv, Detached, INT, Attached
<1> QED
  BY <1>1, <1>2, <1>3, <1>4, <1>5, <1>6

LEMMA EndSettleStep == IInv /\ EndSettle => IInv'
<1> SUFFICES ASSUME IInv, EndSettle PROVE IInv'
  OBVIOUS
<1> USE DEF IInv, program, chip, world
<1>1. UsbTypeOK'
  BY DEF EndSettle, InTask, UsbTypeOK, States, Flags
<1>2. TableInv'
  BY TableFrame DEF EndSettle, InTask, UsbTypeOK
<1>3. TurnInv'
  BY DEF EndSettle, InTask, UsbTypeOK, TurnInv, ProbedStates, HandledStates
<1>4. TalkInv'
  BY DEF EndSettle, InTask, TalkInv, INT, Attached
<1>5. SpeedInv'
  BY DEF EndSettle, InTask, SpeedInv, INT, Attached
<1>6. DetectInv'
  BY DEF EndSettle, InTask, DetectInv, Detached, INT, Attached
<1> QED
  BY <1>1, <1>2, <1>3, <1>4, <1>5, <1>6

LEMMA ResetDeviceStep == IInv /\ ResetDevice => IInv'
<1> SUFFICES ASSUME IInv, ResetDevice PROVE IInv'
  OBVIOUS
<1> USE DEF IInv, program, chip, world
<1>1. UsbTypeOK'
  <2>1. Nobody \in Nobody .. NumDevices - 1
    BY UsbAssumption DEF Nobody
  <2> QED
    BY <2>1 DEF ResetDevice, InTask, UsbTypeOK, States
<1>2. TableInv'
  BY TableFrame DEF ResetDevice, InTask, UsbTypeOK
<1>3. TurnInv'
  BY DEF ResetDevice, InTask, UsbTypeOK, TurnInv, ProbedStates, HandledStates
<1>4. TalkInv'
  BY DEF ResetDevice, InTask, TalkInv, INT, Attached
<1>5. SpeedInv'
  BY DEF ResetDevice, InTask, SpeedInv, INT, Attached
<1>6. DetectInv'
  BY DEF ResetDevice, InTask, DetectInv, Detached, INT, Attached
<1> QED
  BY <1>1, <1>2, <1>3, <1>4, <1>5, <1>6

LEMMA ResetCompleteStep == IInv /\ ResetComplete => IInv'
<1> SUFFICES ASSUME IInv, ResetComplete PROVE IInv'
  OBVIOUS
<1> USE DEF IInv, program, chip, world
<1>1. UsbTypeOK'
  BY DEF ResetComplete, InTask, UsbTypeOK, States, Flags
<1>2. TableInv'
  BY TableFrame DEF ResetComplete, InTask, UsbTypeOK
<1>3. TurnInv'
  BY DEF ResetComplete, InTask, UsbTypeOK, TurnInv, ProbedStates, HandledStates
<1>4. TalkInv'
  BY DEF ResetComplete, InTask, TalkInv, INT, Attached
<1>5. SpeedInv'
  BY DEF ResetComplete, InTask, SpeedInv, INT, Attached
<1>6. DetectInv'
  BY DEF ResetComplete, InTask, DetectInv, Detached, INT, Attached
<1> QED
  BY <1>1, <1>2, <1>3, <1>4, <1>5, <1>6

LEMMA FirstSofStep == IInv /\ FirstSof => IInv'
<1> SUFFICES ASSUME IInv, FirstSof PROVE IInv'
  OBVIOUS
<1> USE DEF IInv, program, chip, world
<1>1. UsbTypeOK'
  BY DEF FirstSof, InTask, UsbTypeOK, States, Flags
<1>2. TableInv'
  BY TableFrame DEF FirstSof, InTask, UsbTypeOK
<1>3. TurnInv'
  BY DEF FirstSof, InTask, UsbTypeOK, TurnInv, ProbedStates, HandledStates
<1>4. TalkInv'
  BY DEF FirstSof, InTask, TalkInv, INT, Attached
<1>5. SpeedInv'
  BY DEF FirstSof, InTask, SpeedInv, INT, Attached
<1>6. DetectInv'
  BY DEF FirstSof, InTask, DetectInv, Detached, INT, Attached
<1> QED
  BY <1>1, <1>2, <1>3, <1>4, <1>5, <1>6

LEMMA GetDescriptorStep == IInv /\ GetDescriptor => IInv'
<1> SUFFICES ASSUME IInv, GetDescriptor PROVE IInv'
  OBVIOUS
<1> USE DEF IInv, program, chip, world
<1>1. UsbTypeOK'
  BY DEF GetDescriptor, InTask, UsbTypeOK, States, Flags
<1>2. TableInv'
  BY TableFrame DEF GetDescriptor, InTask, UsbTypeOK
<1>3. TurnInv'
  BY DEF GetDescriptor, InTask, UsbTypeOK, TurnInv, ProbedStates, HandledStates
<1>4. TalkInv'
  BY DEF GetDescriptor, InTask, TalkInv, INT, Attached
<1>5. SpeedInv'
  BY DEF GetDescriptor, InTask, SpeedInv, INT, Attached
<1>6. DetectInv'
  BY DEF GetDescriptor, InTask, DetectInv, Detached, INT, Attached
<1> QED
  BY <1>1, <1>2, <1>3, <1>4, <1>5, <1>6

LEMMA SetAddressStep == \A a \in Addresses : IInv /\ SetAddress(a) => IInv'
<1> SUFFICES ASSUME IInv, NEW a \in Addresses, SetAddress(a) PROVE IInv'
  OBVIOUS
<1> USE DEF IInv, program, chip, world
<1>0. UsbTypeOK
  OBVIOUS
<1>1. UsbTypeOK'
  <2>1. devtable' \in [Addresses -> [epinfo : {"null", "dev0", "hid"}, devclass : 0 .. 2]]
    BY DEF SetAddress, UsbTypeOK
  <2>2. a \in 0 .. NumDevices - 1 /\ a \in Nobody .. NumDevices - 1
    BY UsbAssumption DEF Addresses, Nobody
  <2>3. /\ daddr' \in {daddr, a} /\ tmp_addr' \in {tmp_addr, a}
        /\ task' \in {CONFIGURING, ERROR}
    BY DEF SetAddress
  <2>4. task' \in States
    BY <2>3 DEF States
  <2> QED
    BY <2>1, <2>2, <2>3, <2>4 DEF SetAddress, InTask, UsbTypeOK
<1>2. TableInv'
  <2>1. PICK m \in 0 .. NumDevices - 1 : TableOf(m)
    BY DEF TableInv
  <2>2. a \in Free /\ \A b \in Free : a <= b
    BY DEF SetAddress, IsFirstFree
  <2>3. a = m + 1
    <3>1. /\ a \in Nat /\ a >= 1 /\ a <= NumDevices - 1
          /\ m \in Nat /\ NumDevices \in Nat
      BY UsbAssumption DEF Addresses
    <3>2. \A c \in Addresses : c \in Free <=> c > m
      BY <2>1, <3>1 DEF TableOf, InUse, Free, Addresses
    <3>3. a > m
      BY <2>2, <3>2 
    <3>4. m + 1 \in Addresses
      BY <3>1, <3>3 DEF Addresses
    <3>5. m + 1 \in Free
      BY <3>1, <3>2, <3>4
    <3> QED
      BY <2>2, <3>1, <3>3, <3>5
  <2>4. Free' = Free \ {a}
    BY <1>0 DEF SetAddress, Free, UsbTypeOK
  <2>5. InUse' = 1 .. a
    <3>1. InUse' = InUse \cup {a}
      BY <2>4 DEF InUse
    <3> QED
      BY <2>1, <2>3, <3>1 DEF TableOf
  <2>6. a \in 0 .. NumDevices - 1 /\ a > 0
    BY UsbAssumption DEF Addresses
  <2>7. TableOf(a)'
    BY <2>5, <2>6 DEF SetAddress, TableOf
  <2> QED
    BY <2>6, <2>7 DEF TableInv
<1>3. TurnInv'
  BY DEF SetAddress, InTask, UsbTypeOK, TurnInv, ProbedStates, HandledStates
<1>4. TalkInv'
  BY DEF SetAddress, InTask, TalkInv, INT, Attached
<1>5. SpeedInv'
  BY DEF SetAddress, InTask, SpeedInv, INT, Attached
<1>6. DetectInv'
  BY DEF SetAddress, InTask, DetectInv, Detached, INT, Attached
<1> QED
  BY <1>1, <1>2, <1>3, <1>4, <1>5, <1>6

LEMMA NoAddressStep == IInv /\ NoAddress => IInv'
<1> SUFFICES ASSUME IInv, NoAddress PROVE IInv'
  OBVIOUS
<1> USE DEF IInv, program, chip, world
<1>1. UsbTypeOK'
  BY DEF NoAddress, InTask, UsbTypeOK, States, Flags
<1>2. TableInv'
  BY TableFrame DEF NoAddress, InTask, UsbTypeOK
<1>3. TurnInv'
  BY DEF NoAddress, InTask, UsbTypeOK, TurnInv, ProbedStates, HandledStates
<1>4. TalkInv'
  BY DEF NoAddress, InTask, TalkInv, INT, Attached
<1>5. SpeedInv'
  BY DEF NoAddress, InTask, SpeedInv, INT, Attached
<1>6. DetectInv'
  BY DEF NoAddress, InTask, DetectInv, Detached, INT, Attached
<1> QED
  BY <1>1, <1>2, <1>3, <1>4, <1>5, <1>6

LEMMA RecognisedStep == IInv /\ Recognised => IInv'
<1> SUFFICES ASSUME IInv, Recognised PROVE IInv'
  OBVIOUS
<1> USE DEF IInv, program, chip, world
<1>0. UsbTypeOK
  OBVIOUS
<1>1. UsbTypeOK'
  BY DEF Recognised, HIDMProbe, HIDKProbe, Adopt, InTask, UsbTypeOK, States, Flags
<1>2. TableInv'
  <2>1. PICK m \in 0 .. NumDevices - 1 : TableOf(m)
    BY DEF TableInv
  <2>2. m > 0 /\ tmp_addr = m /\ task = CONFIGURING
    BY <2>1 DEF Recognised, InTask, TableOf
  <2>3. m \in Addresses
    BY <2>1, <2>2, UsbAssumption DEF Addresses
  <2>4. /\ hid_addr' = m /\ devtable'[m].epinfo = "hid" /\ task' \in {RUNNING, ERROR}
        /\ \A c \in Addresses : c # m => devtable'[c] = devtable[c]
    BY <1>0, <2>2, <2>3 DEF Recognised, HIDMProbe, HIDKProbe, Adopt, UsbTypeOK
  <2>5. InUse' = InUse
    <3>1. m \in InUse
      BY <2>1, <2>2 DEF TableOf
    <3>2. \A c \in Addresses : devtable'[c].epinfo = "null" <=> devtable[c].epinfo = "null"
      <4> SUFFICES ASSUME NEW c \in Addresses
                   PROVE  devtable'[c].epinfo = "null" <=> devtable[c].epinfo = "null"
        OBVIOUS
      <4>1. CASE c = m
        BY <2>4, <3>1, <4>1 DEF InUse, Free
      <4>2. CASE c # m
        BY <2>4, <4>2
      <4> QED
        BY <4>1, <4>2
    <3> QED
      BY <3>2 DEF InUse, Free
  <2>6. TableOf(m)'
    BY <2>1, <2>2, <2>4, <2>5 DEF TableOf
  <2> QED
    BY <2>6 DEF TableInv
<1>3. TurnInv'
  BY DEF Recognised, HIDMProbe, HIDKProbe, Adopt, InTask, UsbTypeOK, TurnInv, ProbedStates, HandledStates
<1>4. TalkInv'
  BY DEF Recognised, HIDMProbe, HIDKProbe, Adopt, Answers, TalkInv, INT, Attached
<1>5. SpeedInv'
  BY DEF Recognised, HIDMProbe, HIDKProbe, Adopt, InTask, SpeedInv, INT, Attached
<1>6. DetectInv'
  BY DEF Recognised, HIDMProbe, HIDKProbe, Adopt, InTask, DetectInv, Detached, INT, Attached
<1> QED
  BY <1>1, <1>2, <1>3, <1>4, <1>5, <1>6

LEMMA NoDriverStep == IInv /\ NoDriver => IInv'
<1> SUFFICES ASSUME IInv, NoDriver PROVE IInv'
  OBVIOUS
<1> USE DEF IInv, program, chip, world
<1>1. UsbTypeOK'
  BY DEF NoDriver, InTask, UsbTypeOK, States, Flags
<1>2. TableInv'
  BY TableFrame DEF NoDriver, InTask, UsbTypeOK
<1>3. TurnInv'
  BY DEF NoDriver, InTask, UsbTypeOK, TurnInv, ProbedStates, HandledStates
<1>4. TalkInv'
  BY DEF NoDriver, InTask, TalkInv, INT, Attached
<1>5. SpeedInv'
  BY DEF NoDriver, InTask, SpeedInv, INT, Attached
<1>6. DetectInv'
  BY DEF NoDriver, InTask, DetectInv, Detached, INT, Attached
<1> QED
  BY <1>1, <1>2, <1>3, <1>4, <1>5, <1>6

LEMMA StayStep == IInv /\ Stay => IInv'
<1> SUFFICES ASSUME IInv, Stay PROVE IInv'
  OBVIOUS
<1> USE DEF IInv, program, chip, world
<1>1. UsbTypeOK'
  BY DEF Stay, UsbTypeOK, States, Flags
<1>2. TableInv'
  BY TableFrame DEF Stay, UsbTypeOK
<1>3. TurnInv'
  BY DEF Stay, UsbTypeOK, TurnInv, ProbedStates, HandledStates
<1>4. TalkInv'
  BY DEF Stay, TalkInv, INT, Attached
<1>5. SpeedInv'
  BY DEF Stay, SpeedInv, INT, Attached
<1>6. DetectInv'
  BY DEF Stay, DetectInv, Detached, INT, Attached
<1> QED
  BY <1>1, <1>2, <1>3, <1>4, <1>5, <1>6

LEMMA FirstRunStep == IInv /\ FirstRun => IInv'
<1> SUFFICES ASSUME IInv, FirstRun PROVE IInv'
  OBVIOUS
<1> USE DEF IInv, program, chip, world
<1>1. UsbTypeOK'
  <2>1. device' \in 0 .. 2
    <3>1. hid_addr \in Addresses /\ Report = devtable[hid_addr].devclass
      BY ReportFacts DEF FirstRun
    <3> QED
      BY <3>1 DEF FirstRun, UsbTypeOK
  <2> QED
    BY <2>1 DEF FirstRun, UsbTypeOK
<1>2. TableInv'
  BY TableFrame DEF FirstRun, UsbTypeOK
<1>3. TurnInv'
  <2>1. device' = devtable'[hid_addr'].devclass
    BY ReportFacts DEF FirstRun
  <2> QED
    BY <2>1 DEF FirstRun, TurnInv
<1>4. TalkInv'
  BY DEF FirstRun, TalkInv, INT, Attached
<1>5. SpeedInv'
  BY DEF FirstRun, SpeedInv, INT, Attached
<1>6. DetectInv'
  BY DEF FirstRun, DetectInv, Detached, INT, Attached
<1> QED
  BY <1>1, <1>2, <1>3, <1>4, <1>5, <1>6

LEMMA PollStep == IInv /\ Poll => IInv'
<1> SUFFICES ASSUME IInv, Poll PROVE IInv'
  OBVIOUS
<1> USE DEF IInv, program, chip, world
<1>1. UsbTypeOK'
  BY DEF Poll, UsbTypeOK, States, Flags
<1>2. TableInv'
  BY TableFrame DEF Poll, UsbTypeOK
<1>3. TurnInv'
  BY DEF Poll, UsbTypeOK, TurnInv, ProbedStates, HandledStates
<1>4. TalkInv'
  BY DEF Poll, TalkInv, INT, Attached
<1>5. SpeedInv'
  BY DEF Poll, SpeedInv, INT, Attached
<1>6. DetectInv'
  BY DEF Poll, DetectInv, Detached, INT, Attached
<1> QED
  BY <1>1, <1>2, <1>3, <1>4, <1>5, <1>6

LEMMA RestartStep == IInv /\ Restart => IInv'
<1> SUFFICES ASSUME IInv, Restart PROVE IInv'
  OBVIOUS
<1> USE DEF IInv, program, chip, world
<1>1. UsbTypeOK'
  BY DEF Restart, UsbTypeOK, States, Flags
<1>2. TableInv'
  BY TableFrame DEF Restart, UsbTypeOK
<1>3. TurnInv'
  BY DEF Restart, UsbTypeOK, TurnInv, ProbedStates, HandledStates
<1>4. TalkInv'
  BY DEF Restart, TalkInv, INT, Attached
<1>5. SpeedInv'
  BY DEF Restart, SpeedInv, INT, Attached
<1>6. DetectInv'
  BY DEF Restart, DetectInv, Detached, INT, Attached
<1> QED
  BY <1>1, <1>2, <1>3, <1>4, <1>5, <1>6

LEMMA PlugStep == IInv /\ Plug => IInv'
<1> SUFFICES ASSUME IInv, Plug PROVE IInv'
  OBVIOUS
<1> USE DEF IInv, program, chip, world
<1>1. UsbTypeOK'
  <2>1. bus' \in {SE0} \cup Gadgets \cup Faults
    BY DEF Plug, Rewire
  <2>2. missed' \in BOOLEAN
    BY DEF Plug, Rewire, UsbTypeOK
  <2>3. daddr' \in Nobody .. NumDevices - 1
    BY UsbAssumption DEF Plug, Rewire, Nobody
  <2> QED
    BY <2>1, <2>2, <2>3 DEF Plug, Rewire, UsbTypeOK, Flags
<1>2. TableInv'
  BY TableFrame DEF Plug, Rewire, UsbTypeOK
<1>3. TurnInv'
  BY DEF Plug, Rewire, UsbTypeOK, TurnInv, ProbedStates, HandledStates
<1>4. TalkInv'
  BY DEF Plug, Rewire, TalkInv, INT, Attached
<1>5. SpeedInv'
  BY DEF Plug, Rewire, SpeedInv, TurnInv, INT
<1>6. DetectInv'
  BY DEF Plug, Rewire, DetectInv, TurnInv, INT
<1> QED
  BY <1>1, <1>2, <1>3, <1>4, <1>5, <1>6

LEMMA UnplugStep == IInv /\ Unplug => IInv'
<1> SUFFICES ASSUME IInv, Unplug PROVE IInv'
  OBVIOUS
<1> USE DEF IInv, program, chip, world
<1>1. UsbTypeOK'
  <2>1. bus' \in {SE0} \cup Gadgets \cup Faults
    BY DEF Unplug, Rewire
  <2>2. missed' \in BOOLEAN
    BY DEF Unplug, Rewire, UsbTypeOK
  <2>3. daddr' \in Nobody .. NumDevices - 1
    BY UsbAssumption DEF Unplug, Rewire, Nobody
  <2> QED
    BY <2>1, <2>2, <2>3 DEF Unplug, Rewire, UsbTypeOK, Flags
<1>2. TableInv'
  BY TableFrame DEF Unplug, Rewire, UsbTypeOK
<1>3. TurnInv'
  BY DEF Unplug, Rewire, UsbTypeOK, TurnInv, ProbedStates, HandledStates
<1>4. TalkInv'
  BY DEF Unplug, Rewire, TalkInv, INT, Attached
<1>5. SpeedInv'
  BY DEF Unplug, Rewire, SpeedInv, TurnInv, INT
<1>6. DetectInv'
  BY DEF Unplug, Rewire, DetectInv, TurnInv, INT
<1> QED
  BY <1>1, <1>2, <1>3, <1>4, <1>5, <1>6

LEMMA ResetDoneStep == IInv /\ ResetDone => IInv'
<1> SUFFICES ASSUME IInv, ResetDone PROVE IInv'
  OBVIOUS
<1> USE DEF IInv, program, chip, world
<1>1. UsbTypeOK'
  <2>1. daddr' \in Nobody .. NumDevices - 1
    BY UsbAssumption DEF ResetDone, Nobody
  <2> QED
    BY <2>1 DEF ResetDone, UsbTypeOK, Flags
<1>2. TableInv'
  BY TableFrame DEF ResetDone, UsbTypeOK
<1>3. TurnInv'
  BY DEF ResetDone, UsbTypeOK, TurnInv, ProbedStates, HandledStates
<1>4. TalkInv'
  BY DEF ResetDone, TalkInv, INT, Attached
<1>5. SpeedInv'
  BY DEF ResetDone, SpeedInv, INT, Attached
<1>6. DetectInv'
  BY DEF ResetDone, DetectInv, Detached, INT, Attached
<1> QED
  BY <1>1, <1>2, <1>3, <1>4, <1>5, <1>6

LEMMA ResetEchoStep == IInv /\ ResetEcho => IInv'
<1> SUFFICES ASSUME IInv, ResetEcho PROVE IInv'
  OBVIOUS
<1> USE DEF IInv, program, chip, world
<1>1. UsbTypeOK'
  BY DEF ResetEcho, UsbTypeOK, States, Flags
<1>2. TableInv'
  BY TableFrame DEF ResetEcho, UsbTypeOK
<1>3. TurnInv'
  BY DEF ResetEcho, UsbTypeOK, TurnInv, ProbedStates, HandledStates
<1>4. TalkInv'
  BY DEF ResetEcho, TalkInv, INT, Attached
<1>5. SpeedInv'
  BY DEF ResetEcho, SpeedInv, INT, Attached
<1>6. DetectInv'
  BY DEF ResetEcho, DetectInv, Detached, INT, Attached
<1> QED
  BY <1>1, <1>2, <1>3, <1>4, <1>5, <1>6

LEMMA SofStep == IInv /\ Sof => IInv'
<1> SUFFICES ASSUME IInv, Sof PROVE IInv'
  OBVIOUS
<1> USE DEF IInv, program, chip, world
<1>1. UsbTypeOK'
  BY DEF Sof, UsbTypeOK, States, Flags
<1>2. TableInv'
  BY TableFrame DEF Sof, UsbTypeOK
<1>3. TurnInv'
  BY DEF Sof, UsbTypeOK, TurnInv, ProbedStates, HandledStates
<1>4. TalkInv'
  BY DEF Sof, TalkInv, INT, Attached
<1>5. SpeedInv'
  BY DEF Sof, SpeedInv, INT, Attached
<1>6. DetectInv'
  BY DEF Sof, DetectInv, Detached, INT, Attached
<1> QED
  BY <1>1, <1>2, <1>3, <1>4, <1>5, <1>6

LEMMA SettleElapsesStep == IInv /\ SettleElapses => IInv'
<1> SUFFICES ASSUME IInv, SettleElapses PROVE IInv'
  OBVIOUS
<1> USE DEF IInv, program, chip, world
<1>1. UsbTypeOK'
  BY DEF SettleElapses, UsbTypeOK
<1>2. TableInv'
  BY TableFrame DEF SettleElapses, UsbTypeOK
<1>3. TurnInv'
  BY DEF SettleElapses, UsbTypeOK, TurnInv, ProbedStates, HandledStates
<1>4. TalkInv'
  BY DEF SettleElapses, TalkInv, INT, Attached
<1>5. SpeedInv'
  BY DEF SettleElapses, SpeedInv, INT, Attached
<1>6. DetectInv'
  BY DEF SettleElapses, DetectInv, Detached, INT, Attached
<1> QED
  BY <1>1, <1>2, <1>3, <1>4, <1>5, <1>6

LEMMA StepInv == IInv /\ [Next]_vars => IInv'
<1>1. ASSUME IInv, UNCHANGED vars PROVE IInv'
  <2> USE <1>1 DEF IInv, vars, program, chip, world
  <2>1. UsbTypeOK' /\ TableInv'
    BY DEF UsbTypeOK, TableInv, TableOf, InUse, Free
  <2>2. TurnInv' /\ TalkInv' /\ SpeedInv' /\ DetectInv'
    BY DEF TurnInv, TalkInv, SpeedInv, DetectInv, INT, Attached
  <2> QED
    BY <2>1, <2>2
<1>2. IInv /\ Interrupts => IInv'
  BY NoInterruptStep, HandleStep, AcknowledgeStep DEF Interrupts
<1>3. IInv /\ USB_Task => IInv'
  BY CleanUpStep, StartSettleStep, EndSettleStep, ResetDeviceStep, ResetCompleteStep,
     FirstSofStep, GetDescriptorStep, SetAddressStep, NoAddressStep, RecognisedStep,
     NoDriverStep, StayStep
     DEF USB_Task
<1>4. IInv /\ Main => IInv'
  BY InitProbeStep, InitClearStep, FirstRunStep, PollStep, RestartStep DEF Main
<1>5. IInv /\ Environment => IInv'
  BY PlugStep, UnplugStep, ResetDoneStep, ResetEchoStep, SofStep, SettleElapsesStep
     DEF Environment
<1> QED
  BY <1>1, <1>2, <1>3, <1>4, <1>5 DEF Next, Program

LEMMA Invariant == Spec => []IInv
<1>1. Init => IInv
  BY InitInv
<1>2. IInv /\ [Next]_vars => IInv'
  BY StepInv
<1> QED
  BY <1>1, <1>2, PTL DEF Spec

-----------------------------------------------------------------------------
(* Results                                                                 *)

\* The state of the host keeps its types; the handler's usb_task_state++ makes
\* no value but 2 and 5 that has no name.
THEOREM TypeCorrect == Spec => []UsbTypeOK
<1>1. IInv => UsbTypeOK
  BY DEF IInv
<1> QED
  BY <1>1, Invariant, PTL

\* main() polls the record of a HID endpoint with the routine of its class:
\* debugflag is down whenever a new device starts to run, and the last entry
\* in use, whose class the report names, is that device.
THEOREM PollingIsSafe == Spec => []PollSafe
<1>1. IInv => PollSafe
  <2> SUFFICES ASSUME IInv, pc = "app", task = RUNNING
               PROVE  /\ hid_addr \in Addresses /\ devtable[hid_addr].epinfo = "hid"
                      /\ debugflag => device = devtable[hid_addr].devclass
    BY DEF PollSafe
  <2>1. hid_addr \in Addresses /\ devtable[hid_addr].epinfo = "hid"
    BY ReportFacts DEF IInv
  <2>2. debugflag => device = devtable[hid_addr].devclass
    BY DEF IInv, TurnInv
  <2> QED
    BY <2>1, <2>2
<1> QED
  BY <1>1, Invariant, PTL

\* Unless a change of the bus is flagged, a running device is attached, at the
\* address that is polled and at its speed.
THEOREM RunningDeviceIsThere == Spec => []RunningTalks
<1>1. IInv => RunningTalks
  BY DEF IInv, TalkInv, RunningTalks
<1> QED
  BY <1>1, Invariant, PTL

\* A bus reset starts at the speed of the device attached.
THEOREM SpeedIsRight == Spec => []SpeedMatches
<1>1. IInv => SpeedMatches
  BY DEF IInv, SpeedInv, SpeedMatches
<1> QED
  BY <1>1, Invariant, PTL

\* A device that is attached is noticed, unless its connection fell between a
\* probe and the clearing of the flag.
THEOREM DevicesAreDetected == Spec => []Detected
<1>1. IInv => Detected
  BY DEF IInv, DetectInv, Detected
<1> QED
  BY <1>1, Invariant, PTL

\* The table is filled from entry 1 on, so a running device leaves entry 1,
\* whose address is hard-wired, in use.
THEOREM TableHasNoGap == Spec => []TableDense
<1>1. IInv => TableDense
  <2> SUFFICES ASSUME IInv PROVE TableDense
    OBVIOUS
  <2>1. PICK m \in 0 .. NumDevices - 1 : TableOf(m)
    BY DEF IInv, TableInv
  <2>2. InUse = 1 .. m /\ (task = RUNNING => m > 0)
    BY <2>1 DEF TableOf
  <2>3. \A a \in InUse : (1 .. a) \subseteq InUse
    BY <2>1, <2>2
  <2>4. task = RUNNING => 1 \in InUse
    BY <2>1, <2>2
  <2> QED
    BY <2>3, <2>4 DEF TableDense
<1> QED
  BY <1>1, Invariant, PTL

-----------------------------------------------------------------------------
(* Left alone, the task settles.  Rank orders what has still to happen: a    *)
(* bus reset that was started for a device that has gone, one that still     *)
(* runs after its device was replaced, a change of the bus that is flagged,  *)
(* a restart of the chip, and the states of USB_Task in their order.         *)

\* How far a state of USB_Task is from one that the task stays in.
Stage(t) ==
  CASE t = INITIALIZE -> 9 [] t = ATTACHED -> 8 [] t = SETTLE -> 7
    [] t = RESET_DEVICE -> 6 [] t = WAIT_RESET_COMPLETE -> 5 [] t = WAIT_SOF -> 4
    [] t = GET_DESCRIPTOR_SIZE -> 3 [] t = ADDRESSING -> 2 [] t = CONFIGURING -> 1
    [] OTHER -> 0

\* USB_Task is about to reset a bus without a device.
Ghost == ~Attached /\ task \in {ATTACHED, SETTLE, RESET_DEVICE}

\* A bus reset runs that is not that of the device at work: its echoes are
\* taken for connections.
Stale == busreset /\ (task # WAIT_RESET_COMPLETE \/ ~Attached)

\* A flagged change of the bus that the next probe will act on.
Disturbed ==
  /\ INT /\ pc \in {"irq", "usb", "app"}
  /\ task # WAIT_RESET_COMPLETE \/ pc = "usb" \/ ~Attached

\* main() will set up the chip again.
Restarting == debugflag /\ task \notin {RUNNING, ERROR}

Rank ==
  IF Ghost THEN 9 + Stage(task)
  ELSE IF Stale THEN 14
  ELSE IF Disturbed THEN 13
  ELSE IF Restarting THEN 12
  ELSE IF pc = "init" THEN 11
  ELSE IF pc = "clear" THEN 10
  ELSE Stage(task)

\* The steps that bring the task closer.
Helpful ==
  \/ Rank \in 15 .. 17 /\ USB_Task /\ ~Stay
  \/ Rank = 14 /\ ResetDone
  \/ Rank = 13 /\ (Handle \/ Restart)
  \/ Rank \in 10 .. 12 /\ (Restart \/ InitProbe \/ InitClear)
  \/ Rank \in 1 .. 9 /\ USB_Task /\ ~Stay

\* The plug is left alone, as in Settles.
LeftAlone == ~Plug /\ ~Unplug /\ ~LateEcho

\* A bus reset that the task waits for has not ended before.
EventInv == busreset /\ task = WAIT_RESET_COMPLETE => "BUSEVENT" \notin hirq

Closer == EventInv' /\ Rank' <= Rank /\ (Helpful => Rank' < Rank)

LEMMA StageType ==
  ASSUME UsbTypeOK
  PROVE  Stage(task) \in 0 .. 9 /\ (Ghost => Stage(task) \in 6 .. 8)
  BY DEF Stage, Ghost

LEMMA NextStageType ==
  ASSUME UsbTypeOK'
  PROVE  Stage(task') \in 0 .. 9 /\ (Ghost' => Stage(task') \in 6 .. 8)
  BY DEF Stage, Ghost

Upset == Ghost \/ Stale \/ Disturbed \/ Restarting

\* Rank, cut into its cases.
LEMMA RankCases ==
  /\ Ghost => Rank = 9 + Stage(task)
  /\ ~Ghost /\ Stale => Rank = 14
  /\ ~Ghost /\ ~Stale /\ Disturbed => Rank = 13
  /\ ~Ghost /\ ~Stale /\ ~Disturbed /\ Restarting => Rank = 12
  /\ ~Upset /\ pc = "init" => Rank = 11
  /\ ~Upset /\ pc = "clear" => Rank = 10
  /\ ~Upset /\ pc \notin {"init", "clear"} => Rank = Stage(task)
  BY DEF Rank, Upset

LEMMA NextRankCases ==
  /\ Ghost' => Rank' = 9 + Stage(task')
  /\ ~Ghost' /\ Stale' => Rank' = 14
  /\ ~Ghost' /\ ~Stale' /\ Disturbed' => Rank' = 13
  /\ ~Ghost' /\ ~Stale' /\ ~Disturbed' /\ Restarting' => Rank' = 12
  /\ ~Upset' /\ pc' = "init" => Rank' = 11
  /\ ~Upset' /\ pc' = "clear" => Rank' = 10
  /\ ~Upset' /\ pc' \notin {"init", "clear"} => Rank' = Stage(task')
  BY DEF Rank, Upset

\* Nothing new is to be done, unless something above it was.
Orderly ==
  /\ Ghost' => Ghost /\ Stage(task') <= Stage(task)
  /\ Stale' => Ghost \/ Stale
  /\ Disturbed' => Ghost \/ Stale \/ Disturbed
  /\ Restarting' => Upset
  /\ pc' = "init" => Upset \/ pc = "init"
  /\ pc' = "clear" => Upset \/ pc \in {"init", "clear"}
  /\ Stage(task') <= Stage(task) \/ Upset \/ pc \in {"init", "clear"}

LEMMA Order ==
  ASSUME UsbTypeOK, UsbTypeOK', Orderly
  PROVE  /\ Rank \in 0 .. 17 /\ Rank' \in 0 .. 17 /\ Rank' <= Rank
         /\ Rank \in 15 .. 17 /\ Stage(task') < Stage(task) => Rank' < Rank
         /\ Rank = 14 /\ ~Stale' => Rank' < Rank
         /\ Rank = 13 /\ ~Disturbed' => Rank' < Rank
         /\ Rank = 12 /\ ~Restarting' => Rank' < Rank
         /\ Rank = 11 /\ pc' # "init" => Rank' < Rank
         /\ Rank = 10 /\ pc' \notin {"init", "clear"} => Rank' < Rank
         /\ Rank \in 1 .. 9 /\ Stage(task') < Stage(task) => Rank' < Rank
<1> DEFINE n == Stage(task)
           m == Stage(task')
<1>1. n \in 0 .. 9 /\ m \in 0 .. 9 /\ (Ghost => n \in 6 .. 8) /\ (Ghost' => m \in 6 .. 8)
  BY StageType, NextStageType
<1> HIDE DEF n, m
<1>2. Rank \in 0 .. 17
  BY <1>1, RankCases DEF Upset, n
<1>3. Rank' \in 0 .. 17
  BY <1>1, NextRankCases DEF Upset, m
<1>4. CASE Ghost'
  BY <1>1, <1>4, RankCases, NextRankCases DEF Orderly, Upset, n, m
<1>5. CASE ~Ghost' /\ Stale'
  BY <1>1, <1>5, RankCases, NextRankCases DEF Orderly, Upset, n, m
<1>6. CASE ~Ghost' /\ ~Stale' /\ Disturbed'
  BY <1>1, <1>6, RankCases, NextRankCases DEF Orderly, Upset, n, m
<1>7. CASE ~Ghost' /\ ~Stale' /\ ~Disturbed' /\ Restarting'
  BY <1>1, <1>7, RankCases, NextRankCases DEF Orderly, Upset, n, m
<1>8. CASE ~Upset' /\ pc' \in {"init", "clear"}
  BY <1>1, <1>8, RankCases, NextRankCases DEF Orderly, Upset, n, m
<1>9. CASE ~Upset' /\ pc' \notin {"init", "clear"}
  BY <1>1, <1>9, RankCases, NextRankCases DEF Orderly, Upset, n, m
<1> QED
  BY <1>2, <1>3, <1>4, <1>5, <1>6, <1>7, <1>8, <1>9 DEF Upset

\* A state of USB_Task is left for one that is closer to the end.
LEMMA TaskMoves ==
  ASSUME IInv, IInv', USB_Task, task' # task
  PROVE  /\ pc = "usb" /\ pc' = "app" /\ bus' = bus /\ (debugflag' <=> debugflag)
         /\ (INT' <=> INT) /\ ~Stay /\ Stage(task') < Stage(task)
         /\ task # WAIT_RESET_COMPLETE \/ ~busreset
         /\ task' \in {SETTLE, RESET_DEVICE} => task \in {ATTACHED, SETTLE}
         /\ \/ (busreset' <=> busreset) /\ task' # WAIT_RESET_COMPLETE /\ task' # ATTACHED
            \/ task = RESET_DEVICE /\ task' = WAIT_RESET_COMPLETE /\ "BUSEVENT" \notin hirq'
<1> USE DEF InTask, chip, world, INT, Stage, Stay
<1>1. CASE CleanUp
  BY <1>1 DEF CleanUp
<1>2. CASE StartSettle
  BY <1>2 DEF StartSettle
<1>3. CASE EndSettle
  BY <1>3 DEF EndSettle
<1>4. CASE ResetDevice
  BY <1>4 DEF ResetDevice
<1>5. CASE ResetComplete
  BY <1>5 DEF ResetComplete
<1>6. CASE FirstSof
  BY <1>6 DEF FirstSof
<1>7. CASE GetDescriptor
  BY <1>7 DEF GetDescriptor
<1>8. ASSUME NEW a \in Addresses, SetAddress(a)
      PROVE  /\ pc = "usb" /\ pc' = "app" /\ bus' = bus /\ (debugflag' <=> debugflag)
             /\ (INT' <=> INT) /\ ~Stay /\ task = ADDRESSING /\ task' \in {CONFIGURING, ERROR}
             /\ (busreset' <=> busreset)
  BY <1>8 DEF SetAddress
<1>9. CASE NoAddress
  BY <1>9 DEF NoAddress
<1>10. CASE Recognised
  BY <1>10 DEF Recognised, HIDMProbe, HIDKProbe, Adopt
<1>11. CASE NoDriver
  BY <1>11 DEF NoDriver
<1>12. CASE \E a \in Addresses : SetAddress(a)
  BY <1>8, <1>12
<1>13. ~Stay \/ task' = task
  BY DEF Stay
<1> QED
  BY <1>1, <1>2, <1>3, <1>4, <1>5, <1>6, <1>7, <1>9, <1>10, <1>11, <1>12, <1>13 DEF USB_Task

LEMMA TaskRank ==
  ASSUME IInv, IInv', EventInv, USB_Task, task' # task
  PROVE  Orderly /\ EventInv' /\ Stage(task') < Stage(task)
<1>1. Attached' <=> Attached
  BY TaskMoves DEF Attached
<1>2. Stage(task') \in 0 .. 9 /\ Stage(task) \in 0 .. 9 /\ Stage(task') < Stage(task)
  BY TaskMoves, StageType, NextStageType DEF IInv
<1>3. Ghost' => Ghost
  BY <1>1, TaskMoves DEF Ghost
<1>4. Stale' => Ghost \/ Stale
  BY <1>1, TaskMoves DEF Ghost, Stale
<1>5. Disturbed' => Disturbed
  BY TaskMoves DEF Disturbed
<1>6. Restarting' => Restarting
  <2>1. task \notin {RUNNING, ERROR}
    <3>1. Stage(task) > 0
      BY <1>2
    <3> QED
      BY <3>1 DEF Stage
  <2> QED
    BY <2>1, TaskMoves DEF Restarting
<1>7. EventInv'
  BY TaskMoves DEF EventInv
<1> QED
  BY <1>2, <1>3, <1>4, <1>5, <1>6, <1>7, TaskMoves DEF Orderly, Upset

\* Nothing of what Rank looks at has changed but the place of main() in its turn.
LEMMA TurnRank ==
  ASSUME UsbTypeOK, EventInv, task' = task, UNCHANGED <<chip, world>>,
         \/ (debugflag' <=> debugflag) \/ task = RUNNING \/ (~debugflag' /\ pc = "app"),
         pc' # "clear", pc' = "init" => Restarting,
         INT => pc \in {"usb", "app"} /\ pc' # "usb"
  PROVE  Orderly /\ EventInv'
<1>1. (Attached' <=> Attached) /\ (INT' <=> INT) /\ (busreset' <=> busreset)
  BY DEF Attached, INT, chip, world
<1>2. Stage(task') = Stage(task) /\ Stage(task) \in 0 .. 9
  BY StageType
<1>3. Ghost' <=> Ghost
  BY <1>1 DEF Ghost
<1>4. Stale' <=> Stale
  BY <1>1 DEF Stale
<1>5. Restarting' => Restarting
  BY DEF Restarting
<1>6. EventInv'
  BY <1>1 DEF EventInv, chip
<1>7. Disturbed' => Disturbed
  BY <1>1 DEF Disturbed
<1> QED
  BY <1>2, <1>3, <1>4, <1>5, <1>6, <1>7 DEF Orderly, Upset

\* What the probe makes of the task: no bus reset is about to start without a
\* device, and the one that runs is still waited for.
LEMMA ProbeFacts ==
  ASSUME IInv, EventInv, Handle
  PROVE  /\ ~Attached => task' \notin {ATTACHED, SETTLE, RESET_DEVICE, WAIT_RESET_COMPLETE}
         /\ Attached /\ task = WAIT_RESET_COMPLETE =>
              \/ task' = WAIT_RESET_COMPLETE
              \/ task' = WAIT_SOF /\ ~busreset
<1>1. UsbTypeOK
  BY DEF IInv
<1>2. ASSUME ~Attached
      PROVE  task' \notin {ATTACHED, SETTLE, RESET_DEVICE, WAIT_RESET_COMPLETE}
  <2>1. Probed(task) \in {ILLEGAL, WAIT_FOR_DEVICE, INITIALIZE}
    BY <1>1, <1>2, ProbedFacts DEF UsbTypeOK
  <2> QED
    BY <1>1, <2>1, HandledTask
<1>3. ASSUME Attached, task = WAIT_RESET_COMPLETE
      PROVE  \/ task' = WAIT_RESET_COMPLETE
             \/ task' = WAIT_SOF /\ ~busreset
  <2>1. Probed(task) = WAIT_RESET_COMPLETE
    BY <1>1, <1>3, ProbedFacts DEF UsbTypeOK
  <2>2. busreset => "BUSEVENT" \notin hirq
    BY <1>3 DEF EventInv
  <2>3. busreset => task' = WAIT_RESET_COMPLETE
    BY <2>1, <2>2 DEF Handle, INT
  <2> QED
    BY <1>1, <2>1, <2>3, HandledTask
<1> QED
  BY <1>2, <1>3

LEMMA HandleRank ==
  ASSUME IInv, IInv', EventInv, Handle
  PROVE  Orderly /\ EventInv' /\ ~Ghost' /\ ~Disturbed'
<1>1. /\ (Attached' <=> Attached) /\ (INT' <=> INT) /\ INT /\ (busreset' <=> busreset)
      /\ (debugflag' <=> debugflag) /\ pc = "irq" /\ pc' = "ack" /\ hirq' = hirq
  BY DEF Handle, Attached, INT, chip, world
<1>2. ~Ghost'
  BY <1>1, ProbeFacts DEF Ghost
<1>3. Stale' => Ghost \/ Stale
  BY <1>1, ProbeFacts DEF Stale, Ghost
<1>4. ~Disturbed'
  BY <1>1 DEF Disturbed
<1>5. EventInv'
  BY <1>1, ProbeFacts DEF EventInv, Handle, Probed, INT
<1>6. CASE task = WAIT_RESET_COMPLETE /\ Attached
  <2>1. Stage(task') <= Stage(task)
    BY <1>6, ProbeFacts DEF Stage
  <2>2. Restarting' => Restarting
    BY <1>1, <1>6 DEF Restarting
  <2> QED
    BY <1>1, <1>2, <1>3, <1>4, <1>5, <2>1, <2>2 DEF Orderly, Upset
<1>7. CASE task # WAIT_RESET_COMPLETE \/ ~Attached
  <2>1. Disturbed
    BY <1>1, <1>7 DEF Disturbed
  <2> QED
    BY <1>1, <1>2, <1>3, <1>4, <1>5, <2>1 DEF Orderly, Upset
<1> QED
  BY <1>6, <1>7

LEMMA AcknowledgeRank ==
  ASSUME IInv, IInv', EventInv, Acknowledge
  PROVE  Orderly /\ EventInv'
<1>1. /\ (Attached' <=> Attached) /\ (busreset' <=> busreset) /\ task' = task
      /\ (debugflag' <=> debugflag) /\ pc = "ack" /\ pc' = "usb" /\ hirq' \subseteq hirq
  BY DEF Acknowledge, Attached, world
<1>2. ~INT'
  BY DEF Acknowledge, INT, IInv, TurnInv
<1>3. /\ (Ghost' <=> Ghost) /\ (Stale' <=> Stale) /\ ~Disturbed' /\ (Restarting' <=> Restarting)
  BY <1>1, <1>2 DEF Ghost, Stale, Disturbed, Restarting
<1>4. Stage(task') = Stage(task) /\ Stage(task) \in 0 .. 9
  BY <1>1, StageType DEF IInv
<1>5. EventInv'
  BY <1>1 DEF EventInv
<1> QED
  BY <1>1, <1>3, <1>4, <1>5 DEF Orderly, Upset

LEMMA InitRank ==
  ASSUME IInv, IInv', EventInv, InitProbe \/ InitClear
  PROVE  Orderly /\ EventInv' /\ pc' # "init" /\ ~Disturbed' /\ ~Restarting' /\ (InitClear => pc' = "irq")
<1>1. CASE InitProbe
  <2>1. /\ (Attached' <=> Attached) /\ ~busreset' /\ ~debugflag' /\ pc = "init" /\ pc' = "clear"
    BY <1>1 DEF InitProbe, Attached, world, IInv, TurnInv
  <2>2. ~Attached => task' \notin {ATTACHED, SETTLE, RESET_DEVICE}
    BY <1>1, ProbedFacts DEF InitProbe, IInv, UsbTypeOK
  <2>3. ~Ghost' /\ ~Stale' /\ ~Disturbed' /\ ~Restarting'
    BY <2>1, <2>2 DEF Ghost, Stale, Disturbed, Restarting
  <2>4. EventInv'
    BY <2>1 DEF EventInv
  <2> QED
    BY <1>1, <2>1, <2>3, <2>4 DEF Orderly, Upset, InitClear
<1>2. CASE InitClear
  <2>1. /\ (Attached' <=> Attached) /\ (busreset' <=> busreset) /\ ~debugflag' /\ task' = task
        /\ pc = "clear" /\ pc' = "irq" /\ ~INT' /\ hirq' \subseteq hirq
    BY <1>2 DEF InitClear, Attached, INT, world, IInv, TurnInv
  <2>2. (Ghost' <=> Ghost) /\ (Stale' <=> Stale) /\ ~Disturbed' /\ ~Restarting'
    BY <2>1 DEF Ghost, Stale, Disturbed, Restarting
  <2>3. Stage(task') = Stage(task) /\ Stage(task) \in 0 .. 9
    BY <2>1, StageType DEF IInv
  <2>4. EventInv'
    BY <2>1 DEF EventInv
  <2> QED
    BY <2>1, <2>2, <2>3, <2>4 DEF Orderly, Upset
<1> QED
  BY <1>1, <1>2

\* The chip and the timer.
LEMMA ChipRank ==
  ASSUME IInv, IInv', EventInv,
         ResetDone \/ (ResetEcho /\ ~LateEcho) \/ Sof \/ SettleElapses
  PROVE  Orderly /\ EventInv' /\ (ResetDone => ~Stale')
<1>1. /\ (Attached' <=> Attached) /\ task' = task /\ pc' = pc /\ (debugflag' <=> debugflag)
      /\ (busreset' => busreset) /\ (ResetDone => ~busreset')
  BY DEF ResetDone, ResetEcho, Sof, SettleElapses, Attached, program, chip, world
<1>2. (Ghost' <=> Ghost) /\ (Stale' => Stale) /\ (Restarting' <=> Restarting) /\ (ResetDone => ~Stale')
  BY <1>1 DEF Ghost, Stale, Restarting
<1>3. Disturbed' => Stale \/ Disturbed
  <2>1. CASE ResetEcho /\ ~LateEcho
    BY <1>1, <2>1 DEF LateEcho, ResetEcho, Disturbed, Stale, Attached
  <2>2. CASE ResetDone \/ Sof \/ SettleElapses
    <3>1. INT' <=> INT
      BY <2>2 DEF ResetDone, Sof, SettleElapses, INT, chip
    <3> QED
      BY <1>1, <3>1 DEF Disturbed
  <2> QED
    BY <2>1, <2>2
<1>4. EventInv'
  <2>1. CASE ResetDone
    BY <1>1, <2>1 DEF EventInv
  <2>2. CASE ResetEcho \/ Sof \/ SettleElapses
    <3>1. "BUSEVENT" \in hirq' => "BUSEVENT" \in hirq
      BY <2>2 DEF ResetEcho, Sof, SettleElapses, chip
    <3> QED
      BY <1>1, <3>1 DEF EventInv
  <2> QED
    BY <2>1, <2>2
<1>5. Stage(task') = Stage(task) /\ Stage(task) \in 0 .. 9
  BY <1>1, StageType DEF IInv
<1> QED
  BY <1>1, <1>2, <1>3, <1>4, <1>5 DEF Orderly, Upset

LEMMA PlugEvents ==
  ASSUME EventInv, Plug \/ Unplug
  PROVE  EventInv'
<1>1. PICK b : Rewire(b)
  BY DEF Plug, Unplug
<1>2. busreset' = busreset /\ task' = task /\ hirq' = hirq \cup {"CONDET"}
  BY <1>1 DEF Rewire, program
<1> QED
  BY <1>2 DEF EventInv

LEMMA EveryStep ==
  ASSUME IInv, IInv', EventInv, [Next]_vars
  PROVE  EventInv' /\ (LeftAlone => Closer)
<1> USE DEF Closer
<1>0. UsbTypeOK /\ UsbTypeOK'
  BY DEF IInv
<1>1. CASE USB_Task /\ task' # task
  <2>1. Orderly /\ EventInv' /\ Stage(task') < Stage(task) /\ pc = "usb" /\ pc' = "app"
    BY <1>1, TaskRank, TaskMoves
  <2> QED
    BY <1>0, <2>1, Order DEF Helpful, ResetDone, Handle, Restart, InitProbe, InitClear, program
<1>2. CASE USB_Task /\ task' = task
  <2>1. Stay
    BY <1>2 DEF USB_Task, CleanUp, StartSettle, EndSettle, ResetDevice, ResetComplete, FirstSof,
                GetDescriptor, SetAddress, NoAddress, Recognised, HIDMProbe, HIDKProbe, Adopt, NoDriver,
                InTask
  <2>2. Orderly /\ EventInv' /\ pc = "usb" /\ pc' = "app"
    BY <1>0, <1>2, <2>1, TurnRank DEF Stay, chip, world
  <2> QED
    BY <1>0, <2>1, <2>2, Order DEF Helpful, ResetDone, Handle, Restart, InitProbe, InitClear, program
<1>3. CASE Handle
  <2>1. Orderly /\ EventInv' /\ ~Ghost' /\ ~Disturbed' /\ pc = "irq" /\ pc' = "ack"
    BY <1>3, HandleRank DEF Handle
  <2>2. ~USB_Task /\ ~ResetDone /\ ~Restart /\ ~InitProbe /\ ~InitClear
    BY <2>1 DEF USB_Task, CleanUp, StartSettle, EndSettle, ResetDevice, ResetComplete, FirstSof,
                GetDescriptor, SetAddress, NoAddress, Recognised, NoDriver, Stay, InTask,
                ResetDone, Restart, InitProbe, InitClear, program
  <2> QED
    BY <1>0, <2>1, <2>2, Order DEF Helpful
<1>4. CASE Acknowledge \/ NoInterrupt \/ FirstRun \/ Poll
  <2>1. Orderly /\ EventInv'
    <3>1. CASE Acknowledge
      BY <3>1, AcknowledgeRank
    <3>2. CASE NoInterrupt
      BY <1>0, <3>2, TurnRank DEF NoInterrupt, chip, world
    <3>3. CASE FirstRun
      BY <1>0, <3>3, TurnRank DEF FirstRun, chip, world
    <3>4. CASE Poll
      BY <1>0, <3>4, TurnRank DEF Poll, chip, world
    <3> QED
      BY <1>4, <3>1, <3>2, <3>3, <3>4
  <2>2. ~Helpful
    <3>1. \/ (pc = "ack" /\ pc' = "usb")
          \/ (pc = "irq" /\ pc' = "usb")
          \/ (pc = "app" /\ pc' = "irq")
      BY <1>4 DEF Acknowledge, NoInterrupt, FirstRun, Poll
    <3> QED
      BY <3>1 DEF Helpful, USB_Task, CleanUp, StartSettle, EndSettle, ResetDevice, ResetComplete, FirstSof,
                GetDescriptor, SetAddress, NoAddress, Recognised, NoDriver, Stay, InTask,
                ResetDone, Handle, Restart, InitProbe, InitClear, program
  <2> QED
    BY <1>0, <2>1, <2>2, Order
<1>5. CASE Restart
  <2>1. Orderly /\ EventInv' /\ pc = "app" /\ pc' = "init"
    BY <1>0, <1>5, TurnRank DEF Restart, Restarting, chip, world
  <2>2. ~Disturbed' /\ ~Restarting' /\ Restarting
    BY <1>5, <2>1 DEF Disturbed, Restarting, Restart
  <2>3. Rank \notin 10 .. 11
    BY <2>1, <2>2, RankCases, StageType, <1>0 DEF Upset
  <2>4. ~USB_Task /\ ~ResetDone
    BY <2>1 DEF USB_Task, CleanUp, StartSettle, EndSettle, ResetDevice, ResetComplete, FirstSof,
                GetDescriptor, SetAddress, NoAddress, Recognised, NoDriver, Stay, InTask,
                ResetDone, program
  <2>5. Rank \in 0 .. 17 /\ Rank' <= Rank
        /\ (Rank = 13 => Rank' < Rank) /\ (Rank = 12 => Rank' < Rank)
    BY <1>0, <2>1, <2>2, Order
  <2> QED
    BY <2>1, <2>3, <2>4, <2>5 DEF Helpful
<1>6. CASE InitProbe \/ InitClear
  <2>1. /\ Orderly /\ EventInv' /\ pc' # "init" /\ ~Disturbed' /\ ~Restarting'
        /\ (InitClear => pc' = "irq")
    BY <1>6, InitRank
  <2>2. ~USB_Task /\ ~ResetDone /\ ~Handle /\ ~Restart
    BY <1>6 DEF USB_Task, CleanUp, StartSettle, EndSettle, ResetDevice, ResetComplete, FirstSof,
                GetDescriptor, SetAddress, NoAddress, Recognised, NoDriver, Stay, InTask,
                ResetDone, Handle, Restart, InitProbe, InitClear, program
  <2>3. InitProbe => Rank # 10
    BY RankCases, StageType, <1>0 DEF InitProbe, Upset
  <2>4. Rank \in 0 .. 17 /\ Rank' <= Rank
        /\ (Rank = 12 => Rank' < Rank) /\ (Rank = 11 => Rank' < Rank)
        /\ (Rank = 10 /\ InitClear => Rank' < Rank)
    BY <1>0, <2>1, Order
  <2> QED
    BY <1>6, <2>1, <2>2, <2>3, <2>4 DEF Helpful
<1>7. CASE ResetDone \/ ResetEcho \/ Sof \/ SettleElapses
  <2>1. SUFFICES ASSUME ~LateEcho PROVE EventInv' /\ Closer
    BY <1>7 DEF LeftAlone, LateEcho, ResetEcho, EventInv, program
  <2>2. Orderly /\ EventInv' /\ (ResetDone => ~Stale')
    BY <1>7, <2>1, ChipRank
  <2>3. pc' = pc
    BY <1>7 DEF ResetDone, ResetEcho, Sof, SettleElapses, program
  <2>4. ~USB_Task /\ ~Handle /\ ~Restart /\ ~InitProbe /\ ~InitClear
    BY <2>3 DEF USB_Task, CleanUp, StartSettle, EndSettle, ResetDevice, ResetComplete, FirstSof,
                GetDescriptor, SetAddress, NoAddress, Recognised, NoDriver, Stay, InTask,
                Handle, Restart, InitProbe, InitClear
  <2> QED
    BY <1>0, <2>2, <2>4, Order DEF Helpful
<1>8. CASE Plug \/ Unplug
  BY <1>8, PlugEvents DEF LeftAlone
<1>9. CASE UNCHANGED vars
  <2>1. /\ (Ghost' <=> Ghost) /\ (Stale' <=> Stale) /\ (Disturbed' <=> Disturbed)
        /\ (Restarting' <=> Restarting) /\ EventInv' /\ pc' = pc /\ Stage(task') = Stage(task)
    BY <1>9 DEF vars, program, chip, world, Ghost, Stale, Disturbed, Restarting, EventInv, INT, Attached
  <2>2. Orderly
    BY <1>0, <2>1, StageType DEF Orderly, Upset
  <2>3. ~Helpful
    <3>1. busreset' = busreset /\ pc' = pc
      BY <1>9 DEF vars, program, chip
    <3> QED
      BY <3>1 DEF Helpful, USB_Task, CleanUp, StartSettle, EndSettle, ResetDevice, ResetComplete, FirstSof,
                GetDescriptor, SetAddress, NoAddress, Recognised, NoDriver, Stay, InTask,
                ResetDone, Handle, Restart, InitProbe, InitClear
  <2> QED
    BY <1>0, <2>1, <2>2, <2>3, Order
<1> QED
  BY <1>1, <1>2, <1>3, <1>4, <1>5, <1>6, <1>7, <1>8, <1>9 DEF Next, Program, Environment, Interrupts, Main

\* The part of Settles that holds step by step.  While the plug is left alone
\* the task never falls back, every step that Helpful names brings it closer,
\* and at rank 0 it is in a state that it stays in: the echoes of a bus reset
\* cannot send it round for ever (transfer.c, USB_Task; MAX3421E.c,
\* MaxIntHandler and MAX_busprobe; main.c).
THEOREM SettlingIsMonotone ==
  Spec => /\ [](Rank \in 0 .. 17 /\ (Rank = 0 => Settled))
          /\ [][LeftAlone => Rank' <= Rank /\ (Helpful => Rank' < Rank)]_vars
<1>1. Init => EventInv
  BY DEF Init, EventInv
<1>2. IInv => Rank \in 0 .. 17 /\ (Rank = 0 => Settled)
  <2> SUFFICES ASSUME IInv PROVE Rank \in 0 .. 17 /\ (Rank = 0 => Settled)
    OBVIOUS
  <2>1. UsbTypeOK
    BY DEF IInv
  <2>2. Rank \in 0 .. 17
    BY <2>1, StageType, RankCases DEF Upset
  <2>3. Rank = 0 => Stage(task) = 0
    BY <2>1, StageType, RankCases DEF Upset
  <2>4. Stage(task) = 0 => Settled
    BY <2>1 DEF Stage, Settled, UsbTypeOK, States
  <2> QED
    BY <2>2, <2>3, <2>4
<1>3. IInv /\ IInv' /\ EventInv /\ [Next]_vars => EventInv'
  BY EveryStep
<1>4. IInv /\ IInv' /\ EventInv /\ [Next]_vars =>
        [LeftAlone => Rank' <= Rank /\ (Helpful => Rank' < Rank)]_vars
  BY EveryStep DEF Closer
<1> QED
  BY <1>1, <1>2, <1>3, <1>4, Invariant, PTL DEF Spec
=============================================================================
