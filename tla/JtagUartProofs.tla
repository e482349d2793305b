--------------------------- MODULE JtagUartProofs ---------------------------
(***************************************************************************)
(* Proofs about JtagUart for every length of the buffers, every depth of   *)
(* the FIFOs and every size of a call: both directions implement Pipe, and *)
(* the receive interrupt is never left off.                                *)
(*                                                                         *)
(* A buffer is described from its read index: the byte at distance k from  *)
(* it is the one that comes k bytes later (Holds), whatever the indices    *)
(* wrapped to.  A copy in progress keeps room for itself (TxOK) or bytes   *)
(* for itself (RxOK), and only the other side's index moves meanwhile.     *)
(***************************************************************************)
EXTENDS JtagUart, TLAPS

\* The bytes of a ring are numbered from base + 1 on, and those of a FIFO too.
Holds(buf, in, out, base) ==
    \A i \in Slots : Used(i, out) < Used(in, out) => buf[i] = base + Used(i, out) + 1
Queues(fifo, base) == \A i \in 1..Len(fifo) : fifo[i] = base + i

Copying == {"wcopy", "wpublish", "rcopy", "rpublish"}

\* The locals of a call: a run lies within the call, a copy within its run.
CallOK ==
    /\ done + todo <= MaxCall
    /\ pc \in Copying => n \in 1..todo
    /\ pc \notin Copying => n = 0 /\ j = 0
    /\ pc = "idle" => done = 0 /\ todo = 0
    /\ pc \in {"wcopy", "rcopy"} => j < n
    /\ pc \in {"wpublish", "rpublish"} => j = n
    /\ pc \in {"rlook", "rspin"} => todo > 0

\* The bytes between write() and the host.
TxOK ==
    /\ Queues(tx_fifo, heard)
    /\ Holds(tx_buf, tx_in, tx_out, heard + Len(tx_fifo))
    /\ written = heard + Len(tx_fifo) + Used(tx_in, tx_out)
    /\ heardLast = heard
    /\ isr # "off" => space + Len(tx_fifo) <= FifoLen
    /\ pc \in {"wcopy", "wpublish"} =>
          /\ tx_in + n <= BufLen /\ Used(tx_in, tx_out) + n < BufLen
          /\ \A i \in 0..(BufLen - 1) : i < j => tx_buf[tx_in + i] = written + i + 1

\* The bytes between the host and read(); those copied are counted already.
RxBase == IF pc \in {"rcopy", "rpublish"} THEN got - j ELSE got
RxOK ==
    /\ RxBase \in Nat
    /\ Holds(rx_buf, rx_in, rx_out, RxBase)
    /\ Queues(rx_fifo, RxBase + Used(rx_in, rx_out))
    /\ sent = RxBase + Used(rx_in, rx_out) + Len(rx_fifo)
    /\ gotLast = got
    /\ pc \in {"rcopy", "rpublish"} =>
          rx_out + n <= BufLen /\ n <= Used(rx_in, rx_out)

Armed == control = irq_enable /\ RxArmed

IInv == UartTypeOK /\ CallOK /\ TxOK /\ RxOK /\ Armed

-----------------------------------------------------------------------------
(* The arithmetic of the rings *)

LEMMA WrapOnce ==
  ASSUME NEW x \in Nat, x < 2 * BufLen
  PROVE  Wrap(x) = IF x < BufLen THEN x ELSE x - BufLen
  BY UartAssumption DEF Wrap

LEMMA UsedRange ==
  ASSUME NEW in \in Slots, NEW out \in Slots
  PROVE  Used(in, out) \in Slots
  BY UartAssumption DEF Used, Slots

\* The write index moves over a run of k: k more bytes are in use, and those
\* are the ones at and after the old index.
LEMMA InMoves ==
  ASSUME NEW in \in Slots, NEW out \in Slots, NEW k \in 1..(BufLen - 1),
         in + k <= BufLen, Used(in, out) + k < BufLen
  PROVE  /\ Wrap(in + k) \in Slots
         /\ Used(Wrap(in + k), out) = Used(in, out) + k
         /\ \A i \in Slots : /\ Used(i, out) >= Used(in, out)
                             /\ Used(i, out) < Used(in, out) + k
                             => i = in + (Used(i, out) - Used(in, out))
<1>1. BufLen \in Nat /\ in \in Nat /\ out \in Nat /\ k \in Nat /\ in < BufLen /\ out < BufLen
  BY UartAssumption DEF Slots
<1>2. Wrap(in + k) = IF in + k < BufLen THEN in + k ELSE in + k - BufLen
  BY <1>1, WrapOnce
<1> QED
  BY <1>1, <1>2 DEF Used, Slots

\* The read index moves over a run of k bytes in use: every other byte in use
\* is k nearer to it, and the k bytes are free.
LEMMA OutMoves ==
  ASSUME NEW in \in Slots, NEW out \in Slots, NEW k \in 1..(BufLen - 1),
         out + k <= BufLen, k <= Used(in, out)
  PROVE  /\ Wrap(out + k) \in Slots
         /\ Used(in, Wrap(out + k)) = Used(in, out) - k
         /\ \A i \in Slots :
               Used(i, Wrap(out + k)) < Used(in, out) - k
               => Used(i, out) = Used(i, Wrap(out + k)) + k
<1>1. BufLen \in Nat /\ in \in Nat /\ out \in Nat /\ k \in Nat /\ in < BufLen /\ out < BufLen
  BY UartAssumption DEF Slots
<1>2. Wrap(out + k) = IF out + k < BufLen THEN out + k ELSE out + k - BufLen
  BY <1>1, WrapOnce
<1> QED
  BY <1>1, <1>2 DEF Used, Slots

\* A slot of a free run is not in use.
LEMMA FreeRun ==
  ASSUME NEW in \in Slots, NEW out \in Slots, NEW k \in Nat,
         in + k < BufLen, Used(in, out) + k < BufLen
  PROVE  in + k \in Slots /\ Used(in + k, out) = Used(in, out) + k
  BY UartAssumption DEF Used, Slots

\* A slot of a filled run is the byte at its distance.
LEMMA FilledRun ==
  ASSUME NEW in \in Slots, NEW out \in Slots, NEW k \in Nat,
         out + k < BufLen, k < Used(in, out)
  PROVE  out + k \in Slots /\ Used(out + k, out) = k
  BY UartAssumption DEF Used, Slots

\* The runs that the driver computes.
LEMMA RoomFits ==
  ASSUME NEW out \in Slots, tx_in \in Slots
  PROVE  /\ Room(out) \in Slots /\ tx_in + Room(out) <= BufLen
         /\ Used(tx_in, out) + Room(out) < BufLen
  BY UartAssumption DEF Room, Used, Slots

LEMMA ReadyFits ==
  ASSUME NEW in \in Slots, rx_out \in Slots
  PROVE  /\ Ready(in) \in Slots /\ rx_out + Ready(in) <= BufLen
         /\ Ready(in) <= Used(in, rx_out)
  BY UartAssumption DEF Ready, Used, Slots

LEMMA LeastIs ==
  ASSUME NEW a \in Nat, NEW b \in Nat
  PROVE  Least(a, b) \in Nat /\ Least(a, b) <= a /\ Least(a, b) <= b /\ (a > 0 /\ b > 0 => Least(a, b) > 0)
  BY DEF Least

\* The FIFOs.
LEMMA FifoTail ==
  ASSUME NEW q \in Seq(Nat), q # <<>>, NEW base \in Nat, Queues(q, base)
  PROVE  /\ Head(q) = base + 1 /\ Tail(q) \in Seq(Nat)
         /\ Len(Tail(q)) = Len(q) - 1 /\ Len(q) > 0
         /\ Queues(Tail(q), base + 1)
  BY DEF Queues

LEMMA FifoAppend ==
  ASSUME NEW q \in Seq(Nat), NEW base \in Nat, Queues(q, base)
  PROVE  /\ Append(q, base + Len(q) + 1) \in Seq(Nat)
         /\ Len(Append(q, base + Len(q) + 1)) = Len(q) + 1
         /\ Queues(Append(q, base + Len(q) + 1), base)
<1> DEFINE e == base + Len(q) + 1
<1>1. e \in Nat /\ e = base + Len(q) + 1 /\ Len(q) \in Nat
  OBVIOUS
<1> HIDE DEF e
<1>2. /\ Append(q, e) \in Seq(Nat) /\ Len(Append(q, e)) = Len(q) + 1
      /\ \A i \in 1..Len(q) : Append(q, e)[i] = q[i]
      /\ Append(q, e)[Len(q) + 1] = e
  BY <1>1
<1>3. Queues(Append(q, e), base)
  BY <1>1, <1>2 DEF Queues
<1> QED
  BY <1>2, <1>3 DEF e

LEMMA NotFull ==
  ASSUME NEW in \in Slots, NEW out \in Slots, Wrap(in + 1) # out
  PROVE  Used(in, out) + 1 < BufLen /\ in + 1 <= BufLen /\ 1 \in 1..(BufLen - 1)
<1>1. BufLen \in Nat /\ BufLen > 1 /\ in \in Nat /\ out \in Nat /\ in < BufLen /\ out < BufLen
  BY UartAssumption DEF Slots
<1>2. Wrap(in + 1) = IF in + 1 < BufLen THEN in + 1 ELSE in + 1 - BufLen
  BY <1>1, WrapOnce
<1> QED
  BY <1>1, <1>2 DEF Used

LEMMA FullRing ==
  ASSUME NEW in \in Slots, NEW out \in Slots, Wrap(in + 1) = out
  PROVE  Used(in, out) = BufLen - 1
<1>1. BufLen \in Nat /\ BufLen > 1 /\ in \in Nat /\ out \in Nat /\ in < BufLen /\ out < BufLen
  BY UartAssumption DEF Slots
<1>2. Wrap(in + 1) = IF in + 1 < BufLen THEN in + 1 ELSE in + 1 - BufLen
  BY <1>1, WrapOnce
<1> QED
  BY <1>1, <1>2 DEF Used

LEMMA NotEmpty ==
  ASSUME NEW in \in Slots, NEW out \in Slots, out # in
  PROVE  Used(in, out) >= 1 /\ out + 1 <= BufLen /\ 1 \in 1..(BufLen - 1) /\ Used(out, out) = 0
  BY UartAssumption DEF Used, Slots

-----------------------------------------------------------------------------
(* The inductive invariant *)

LEMMA InitInv == Init => IInv
<1> SUFFICES ASSUME Init PROVE IInv
  OBVIOUS
<1>1. UartTypeOK
  BY UartAssumption DEF Init, UartTypeOK, DriverTypes, DeviceTypes, CallTypes, WritePc, ReadPc, Slots
<1>2. CallOK /\ Armed
  BY UartAssumption DEF Init, CallOK, Copying, Armed, RxArmed
<1>3. TxOK
  BY UartAssumption DEF Init, TxOK, Queues, Holds, Used, Slots
<1>4. RxOK
  BY UartAssumption DEF Init, RxOK, RxBase, Queues, Holds, Used, Slots
<1> QED
  BY <1>1, <1>2, <1>3, <1>4 DEF IInv

LEMMA FifoTypes ==
  ASSUME NEW q \in Seq(Nat)
  PROVE  /\ Len(q) \in Nat
         /\ q # <<>> => Head(q) \in Nat /\ Tail(q) \in Seq(Nat) /\ Len(Tail(q)) = Len(q) - 1 /\ Len(q) > 0
         /\ \A e \in Nat : Append(q, e) \in Seq(Nat) /\ Len(Append(q, e)) = Len(q) + 1
  OBVIOUS

\* Steps that move no byte of a direction, and start no copy in it.
LEMMA TxFrame ==
  ASSUME TxOK, UNCHANGED <<txRing, tx_fifo, txCount>>,
         isr' # "off" => space' + Len(tx_fifo) <= FifoLen,
         pc' \in {"wcopy", "wpublish"} => UNCHANGED <<pc, n, j>>
  PROVE  TxOK'
<1>1. /\ UNCHANGED <<tx_in, tx_out, tx_buf, tx_fifo, written, heard, heardLast>>
  BY DEF txRing, txCount
<1> QED
  BY <1>1 DEF TxOK, Holds, Queues, Used

LEMMA RxFrame ==
  ASSUME RxOK, UNCHANGED <<rxRing, rx_fifo, rxCount>>,
         pc' \in {"rcopy", "rpublish"} <=> pc \in {"rcopy", "rpublish"},
         pc \in {"rcopy", "rpublish"} => UNCHANGED <<n, j>>
  PROVE  RxOK'
<1>1. /\ UNCHANGED <<rx_in, rx_out, rx_buf, rx_fifo, sent, got, gotLast>>
      /\ RxBase' = RxBase
  BY DEF rxRing, rxCount, RxBase
<1> QED
  BY <1>1 DEF RxOK, Holds, Queues, Used

\* A byte arrives in the buffer of read().
LEMMA RxByteStep == IInv /\ RxByte => RxOK'
<1> SUFFICES ASSUME IInv, RxByte PROVE RxOK'
  OBVIOUS
<1>1. /\ rx_in \in Slots /\ rx_out \in Slots /\ rx_fifo \in Seq(Nat) /\ rx_buf \in [Slots -> Nat]
  BY DEF IInv, UartTypeOK, DriverTypes, DeviceTypes, CallTypes
<1>2. PICK b \in Nat, u \in Nat : b = RxBase /\ u = Used(rx_in, rx_out) /\ u + 1 < BufLen
  <2>1. RxBase \in Nat
    BY DEF IInv, RxOK
  <2>2. Used(rx_in, rx_out) \in Nat
    BY <1>1, UsedRange DEF Slots
  <2>3. Used(rx_in, rx_out) + 1 < BufLen
    BY <1>1, NotFull DEF RxByte
  <2> QED
    BY <2>1, <2>2, <2>3
<1>3. /\ rx_fifo # <<>> /\ rx_in' = Wrap(rx_in + 1) /\ rx_fifo' = Tail(rx_fifo)
      /\ rx_buf' = [rx_buf EXCEPT ![rx_in] = Head(rx_fifo)]
      /\ UNCHANGED <<rx_out, pc, n, j, sent, got, gotLast>>
  BY DEF RxByte, txRing, rxRing, state, isrVars, device, call, txCount, rxCount
<1>4. Queues(rx_fifo, b + u)
  BY <1>2 DEF IInv, RxOK
<1>5. /\ Head(rx_fifo) = b + u + 1 /\ Len(rx_fifo') = Len(rx_fifo) - 1
      /\ Queues(rx_fifo', b + u + 1) /\ Len(rx_fifo) \in Nat
  BY <1>1, <1>3, <1>4, FifoTail
<1>6. /\ rx_in' \in Slots /\ Used(rx_in', rx_out) = u + 1
      /\ \A i \in Slots : Used(i, rx_out) >= u /\ Used(i, rx_out) < u + 1
                         => i = rx_in + (Used(i, rx_out) - u)
  BY <1>1, <1>2, <1>3, NotFull, InMoves DEF RxByte
<1>7. Holds(rx_buf', rx_in', rx_out, b)
  <2> SUFFICES ASSUME NEW i \in Slots, Used(i, rx_out) < u + 1
               PROVE  rx_buf'[i] = b + Used(i, rx_out) + 1
    BY <1>6 DEF Holds
  <2>1. Used(i, rx_out) \in Nat /\ rx_in \in Nat
    BY <1>1, UsedRange, UartAssumption DEF Slots
  <2>2. CASE Used(i, rx_out) < u
    <3>1. i # rx_in
      BY <1>2, <2>1, <2>2
    <3>2. rx_buf[i] = b + Used(i, rx_out) + 1
      BY <1>2, <2>2 DEF IInv, RxOK, Holds
    <3> QED
      BY <1>1, <1>3, <3>1, <3>2
  <2>3. CASE ~(Used(i, rx_out) < u)
    <3>1. Used(i, rx_out) = u
      BY <2>1, <2>3
    <3>2. i = rx_in
      BY <1>6, <2>1, <3>1
    <3>3. rx_buf'[rx_in] = b + u + 1
      BY <1>1, <1>3, <1>5
    <3> QED
      BY <3>1, <3>2, <3>3
  <2> QED
    BY <2>2, <2>3
<1>8. RxBase' = b
  BY <1>2, <1>3 DEF RxBase
<1>9. sent = b + u + Len(rx_fifo)
  BY <1>2 DEF IInv, RxOK
<1>10. Used(rx_in', rx_out') = u + 1 /\ Holds(rx_buf', rx_in', rx_out', b)
  BY <1>3, <1>6, <1>7
<1>11. Queues(rx_fifo', b + (u + 1)) /\ sent' = b + (u + 1) + Len(rx_fifo')
  BY <1>3, <1>5, <1>9
<1>12. (pc' \in {"rcopy", "rpublish"} => rx_out' + n' <= BufLen /\ n' <= u + 1) /\ gotLast' = got'
  <2>1. pc \in {"rcopy", "rpublish"} => rx_out + n <= BufLen /\ n <= u
    BY <1>2 DEF IInv, RxOK
  <2>2. n \in Nat /\ gotLast = got
    BY DEF IInv, UartTypeOK, CallTypes, Slots, RxOK
  <2> QED
    BY <1>2, <1>3, <2>1, <2>2
<1> QED
  BY <1>8, <1>10, <1>11, <1>12 DEF RxOK

\* A byte leaves the buffer of write() for the device.
LEMMA TxByteStep == IInv /\ TxByte => TxOK'
<1> SUFFICES ASSUME IInv, TxByte PROVE TxOK'
  OBVIOUS
<1>1. /\ tx_in \in Slots /\ tx_out \in Slots /\ tx_fifo \in Seq(Nat) /\ tx_buf \in [Slots -> Nat]
      /\ heard \in Nat /\ Len(tx_fifo) \in Nat /\ FifoLen \in Nat /\ space \in Nat /\ n \in Nat
      /\ BufLen \in Nat
  BY UartAssumption DEF IInv, UartTypeOK, DriverTypes, DeviceTypes, CallTypes, Slots
<1>2. PICK u \in Nat : u = Used(tx_in, tx_out) /\ u >= 1
  <2>1. Used(tx_in, tx_out) \in Nat
    BY <1>1, UsedRange DEF Slots
  <2>2. Used(tx_in, tx_out) >= 1
    BY <1>1, NotEmpty DEF TxByte
  <2> QED
    BY <2>1, <2>2
<1>3. /\ tx_fifo' = Append(tx_fifo, tx_buf[tx_out]) /\ tx_out' = Wrap(tx_out + 1)
      /\ UNCHANGED <<tx_in, tx_buf, written, heard, heardLast, pc, n, j>>
      /\ isr = "tx" /\ isr' = "tx" /\ space' = space - 1
  BY DEF TxByte, txRing, rxRing, state, isrVars, device, call, txCount, rxCount
<1>4. tx_buf[tx_out] = heard + Len(tx_fifo) + 1
  <2>1. Used(tx_out, tx_out) = 0
    BY <1>1, UartAssumption DEF Used, Slots
  <2> QED
    BY <1>1, <1>2, <2>1 DEF IInv, TxOK, Holds
<1>5. Len(tx_fifo') = Len(tx_fifo) + 1 /\ Queues(tx_fifo', heard)
  BY <1>1, <1>3, <1>4, FifoAppend DEF IInv, TxOK
<1>6. /\ tx_out' \in Slots /\ Used(tx_in, tx_out') = u - 1
      /\ \A i \in Slots : Used(i, tx_out') < u - 1 => Used(i, tx_out) = Used(i, tx_out') + 1
  BY <1>1, <1>2, <1>3, NotEmpty, OutMoves DEF TxByte
<1>7. Holds(tx_buf, tx_in, tx_out', heard + Len(tx_fifo'))
  <2> SUFFICES ASSUME NEW i \in Slots, Used(i, tx_out') < u - 1
               PROVE  tx_buf[i] = heard + Len(tx_fifo') + Used(i, tx_out') + 1
    BY <1>6 DEF Holds
  <2>1. Used(i, tx_out) \in Nat /\ Used(i, tx_out') \in Nat
    BY <1>1, <1>6, UsedRange, UartAssumption DEF Slots
  <2>2. Used(i, tx_out) = Used(i, tx_out') + 1 /\ Used(i, tx_out) < u
    BY <1>2, <1>6, <2>1
  <2>3. tx_buf[i] = heard + Len(tx_fifo) + Used(i, tx_out) + 1
    BY <1>2, <2>2 DEF IInv, TxOK, Holds
  <2> QED
    BY <1>1, <1>5, <2>1, <2>2, <2>3
<1>8. written' = heard' + Len(tx_fifo') + (u - 1) /\ heardLast' = heard'
  <2>1. written = heard + Len(tx_fifo) + u /\ heardLast = heard
    BY <1>2 DEF IInv, TxOK
  <2> QED
    BY <1>1, <1>2, <1>3, <1>5, <2>1
<1>9. space' + Len(tx_fifo') <= FifoLen
  BY <1>1, <1>3, <1>5 DEF IInv, TxOK
<1>10. pc' \in {"wcopy", "wpublish"} =>
          /\ tx_in' + n' <= BufLen /\ Used(tx_in', tx_out') + n' < BufLen
          /\ \A i \in 0..(BufLen - 1) : i < j' => tx_buf'[tx_in' + i] = written' + i + 1
  BY <1>1, <1>2, <1>3, <1>6 DEF IInv, TxOK
<1> QED
  BY <1>3, <1>5, <1>6, <1>7, <1>8, <1>9, <1>10 DEF TxOK

\* The interrupt routine.
LEMMA IsrStep ==
  ASSUME IInv, Service \/ RxByte \/ RxDone \/ TxByte \/ TxDone
  PROVE  IInv'
<1> USE DEF IInv, txRing, rxRing, state, isrVars, device, call, txCount, rxCount
<1>1. CASE Service
  <2>1. DriverTypes'
    BY <1>1, UartAssumption DEF Service, RI, WI, UartTypeOK, DriverTypes, Slots
  <2>2. DeviceTypes'
    BY <1>1, UartAssumption, FifoTypes DEF Service, RI, WI, UartTypeOK, DeviceTypes
  <2>3. CallTypes'
    BY <1>1 DEF Service, RI, WI, UartTypeOK, CallTypes, WritePc, ReadPc, Slots
  <2>4. CallOK'
    BY <1>1 DEF Service, RI, WI, CallOK, Copying
  <2>5. TxOK'
    <3>1. space' + Len(tx_fifo) <= FifoLen
      BY <1>1, UartAssumption, FifoTypes DEF Service, UartTypeOK, DeviceTypes
    <3> QED
      BY <1>1, <3>1, TxFrame DEF Service
  <2>6. RxOK'
    BY <1>1, RxFrame DEF Service, RI, WI
  <2>7. Armed'
    BY <1>1 DEF Service, RI, WI, Armed, RxArmed
  <2> QED
    BY <2>1, <2>2, <2>3, <2>4, <2>5, <2>6, <2>7 DEF UartTypeOK
<1>2. CASE RxByte
  <2>1. DriverTypes'
    <3>1. rx_in' \in Slots
      BY <1>2, NotFull, UartAssumption DEF RxByte, UartTypeOK, DriverTypes, Wrap, Slots
    <3>2. Head(rx_fifo) \in Nat
      BY <1>2, FifoTypes DEF RxByte, UartTypeOK, DeviceTypes
    <3>3. rx_buf' \in [Slots -> Nat]
      BY <1>2, <3>2 DEF RxByte, UartTypeOK, DriverTypes
    <3> QED
      BY <1>2, <3>1, <3>3 DEF RxByte, UartTypeOK, DriverTypes
  <2>2. DeviceTypes'
    BY <1>2, UartAssumption, FifoTypes DEF RxByte, UartTypeOK, DeviceTypes
  <2>3. CallTypes'
    BY <1>2 DEF RxByte, UartTypeOK, CallTypes, WritePc, ReadPc, Slots
  <2>4. CallOK'
    BY <1>2 DEF RxByte, CallOK, Copying
  <2>5. TxOK'
    BY <1>2, TxFrame DEF RxByte, TxOK
  <2>6. RxOK'
    BY <1>2, RxByteStep
  <2>7. Armed'
    <3>1. Used(rx_in, rx_out) # BufLen - 1
      BY <1>2, NotFull, UartAssumption DEF RxByte, UartTypeOK, DriverTypes, Slots, Used
    <3> QED
      BY <1>2, <3>1 DEF RxByte, Armed, RxArmed
  <2> QED
    BY <2>1, <2>2, <2>3, <2>4, <2>5, <2>6, <2>7 DEF UartTypeOK
<1>3. CASE RxDone
  <2>1. DriverTypes'
    BY <1>3, UartAssumption DEF RxDone, Disable, LeftOver, UartTypeOK, DriverTypes, Slots
  <2>2. DeviceTypes'
    <3>1. 0 \in 0..FifoLen
      BY UartAssumption
    <3>2. control' \subseteq {"RE", "WE"}
      BY <1>3 DEF RxDone, Disable, UartTypeOK, DriverTypes, DeviceTypes
    <3> QED
      BY <1>3, <3>1, <3>2 DEF RxDone, UartTypeOK, DeviceTypes
  <2>3. CallTypes'
    BY <1>3 DEF RxDone, Disable, LeftOver, UartTypeOK, CallTypes, WritePc, ReadPc, Slots
  <2>4. CallOK'
    BY <1>3 DEF RxDone, Disable, LeftOver, CallOK, Copying
  <2>5. TxOK'
    BY <1>3, TxFrame DEF RxDone, Disable, LeftOver, TxOK
  <2>6. RxOK'
    BY <1>3, RxFrame DEF RxDone, Disable, LeftOver
  <2>7. Armed'
    <3>1. Wrap(rx_in + 1) = rx_out => Used(rx_in, rx_out) = BufLen - 1
      BY FullRing DEF UartTypeOK, DriverTypes
    <3> QED
      BY <1>3, <3>1 DEF RxDone, Disable, LeftOver, Armed, RxArmed
  <2> QED
    BY <2>1, <2>2, <2>3, <2>4, <2>5, <2>6, <2>7 DEF UartTypeOK
<1>4. CASE TxByte
  <2>1. DriverTypes'
    <3>1. tx_out' \in Slots
      BY <1>4, NotEmpty, UartAssumption DEF TxByte, UartTypeOK, DriverTypes, Wrap, Slots
    <3> QED
      BY <1>4, <3>1 DEF TxByte, UartTypeOK, DriverTypes
  <2>2. DeviceTypes'
    <3>1. Len(tx_fifo) < FifoLen /\ space - 1 \in 0..FifoLen
      BY <1>4, FifoTypes, UartAssumption DEF TxByte, TxOK, UartTypeOK, DeviceTypes
    <3>2. tx_buf[tx_out] \in Nat
      BY DEF UartTypeOK, DriverTypes
    <3>3. tx_fifo' \in Seq(Nat) /\ Len(tx_fifo') <= FifoLen
      BY <1>4, <3>1, <3>2, UartAssumption, FifoTypes DEF TxByte, UartTypeOK, DeviceTypes
    <3> QED
      BY <1>4, <3>1, <3>3 DEF TxByte, UartTypeOK, DeviceTypes
  <2>3. CallTypes'
    BY <1>4 DEF TxByte, UartTypeOK, CallTypes, WritePc, ReadPc, Slots
  <2>4. CallOK'
    BY <1>4 DEF TxByte, CallOK, Copying
  <2>5. TxOK'
    BY <1>4, TxByteStep
  <2>6. RxOK'
    BY <1>4, RxFrame DEF TxByte
  <2>7. Armed'
    BY <1>4 DEF TxByte, Armed, RxArmed
  <2> QED
    BY <2>1, <2>2, <2>3, <2>4, <2>5, <2>6, <2>7 DEF UartTypeOK
<1>5. CASE TxDone
  <2>1. DriverTypes'
    BY <1>5, UartAssumption DEF TxDone, Disable, UartTypeOK, DriverTypes, Slots
  <2>2. DeviceTypes'
    <3>1. 0 \in 0..FifoLen
      BY UartAssumption
    <3>2. control' \subseteq {"RE", "WE"}
      BY <1>5 DEF TxDone, Disable, UartTypeOK, DriverTypes, DeviceTypes
    <3> QED
      BY <1>5, <3>1, <3>2 DEF TxDone, UartTypeOK, DeviceTypes
  <2>3. CallTypes'
    BY <1>5 DEF TxDone, Disable, UartTypeOK, CallTypes, WritePc, ReadPc, Slots
  <2>4. CallOK'
    BY <1>5 DEF TxDone, Disable, CallOK, Copying
  <2>5. TxOK'
    BY <1>5, TxFrame DEF TxDone, Disable, TxOK
  <2>6. RxOK'
    BY <1>5, RxFrame DEF TxDone, Disable
  <2>7. Armed'
    BY <1>5 DEF TxDone, Disable, Armed, RxArmed
  <2> QED
    BY <2>1, <2>2, <2>3, <2>4, <2>5, <2>6, <2>7 DEF UartTypeOK
<1> QED
  BY <1>1, <1>2, <1>3, <1>4, <1>5

\* The next run of write().
LEMMA WLookStep == IInv /\ WLook => TxOK' /\ n' \in Slots /\ n' <= todo
<1> SUFFICES ASSUME IInv, WLook PROVE TxOK' /\ n' \in Slots /\ n' <= todo
  OBVIOUS
<1>1. tx_in \in Slots /\ tx_out \in Slots /\ todo \in Nat /\ BufLen \in Nat
  BY UartAssumption DEF IInv, UartTypeOK, DriverTypes, CallTypes
<1>2. /\ n' = Least(Room(tx_out), todo)
      /\ UNCHANGED <<tx_in, tx_out, tx_buf, tx_fifo, written, heard, heardLast, isr, space, j>>
  BY DEF WLook, CallStep, txRing, isrVars
<1>3. /\ Room(tx_out) \in Slots /\ tx_in + Room(tx_out) <= BufLen
      /\ Used(tx_in, tx_out) + Room(tx_out) < BufLen
  BY <1>1, RoomFits
<1>4. n' \in Nat /\ n' <= Room(tx_out) /\ n' <= todo
  BY <1>1, <1>2, <1>3, LeastIs DEF Slots
<1>5. tx_in + n' <= BufLen /\ Used(tx_in, tx_out) + n' < BufLen /\ n' \in Slots
  <2>1. Used(tx_in, tx_out) \in Nat /\ tx_in \in Nat /\ Room(tx_out) \in Nat
    BY <1>1, <1>3, UsedRange DEF Slots
  <2>2. n' < BufLen
    BY <1>1, <1>3, <1>4 DEF Slots
  <2>3. tx_in + n' <= BufLen
    <3>1. PICK run \in Nat, room \in Nat : run = n' /\ room = Room(tx_out)
      BY <1>4, <2>1
    <3>2. tx_in + room <= BufLen /\ run <= room
      BY <1>3, <1>4, <3>1
    <3>3. tx_in + run <= BufLen
      BY <1>1, <2>1, <3>2
    <3> QED
      BY <3>1, <3>3
  <2>4. Used(tx_in, tx_out) + n' < BufLen
    BY <1>1, <1>3, <1>4, <2>1
  <2> QED
    <3>1. n' \in Slots
      BY <1>1, <1>4, <2>2 DEF Slots
    <3> QED
      BY <2>3, <2>4, <3>1
<1>6. j' = 0
  BY <1>2 DEF IInv, CallOK, Copying, WLook, CallStep
<1>7. \A i \in 0..(BufLen - 1) : ~(i < j')
  BY <1>1, <1>6
<1> QED
  BY <1>2, <1>4, <1>5, <1>7 DEF IInv, TxOK, Holds, Queues, Used

\* A byte of the run: no byte in use is overwritten.
LEMMA WCopyStep == IInv /\ WCopy => TxOK' /\ tx_buf' \in [Slots -> Nat]
<1> SUFFICES ASSUME IInv, WCopy PROVE TxOK' /\ tx_buf' \in [Slots -> Nat]
  OBVIOUS
<1>1. /\ tx_in \in Slots /\ tx_out \in Slots /\ tx_buf \in [Slots -> Nat] /\ BufLen \in Nat
      /\ j \in Nat /\ n \in Nat /\ j < n /\ written \in Nat /\ tx_in \in Nat
      /\ tx_in + n <= BufLen /\ Used(tx_in, tx_out) + n < BufLen /\ Used(tx_in, tx_out) \in Nat
  <2>1. /\ tx_in \in Slots /\ tx_out \in Slots /\ tx_buf \in [Slots -> Nat] /\ BufLen \in Nat
        /\ j \in Nat /\ n \in Nat /\ written \in Nat /\ tx_in \in Nat
    BY UartAssumption DEF IInv, UartTypeOK, DriverTypes, CallTypes, Slots
  <2>2. pc = "wcopy" /\ j < n
    BY DEF IInv, CallOK, WCopy, CallStep
  <2>3. tx_in + n <= BufLen /\ Used(tx_in, tx_out) + n < BufLen
    BY <2>2 DEF IInv, TxOK
  <2>4. Used(tx_in, tx_out) \in Nat
    BY <2>1, UsedRange DEF Slots
  <2> QED
    BY <2>1, <2>2, <2>3, <2>4
<1>2. /\ tx_buf' = [tx_buf EXCEPT ![tx_in + j] = written + j + 1] /\ j' = j + 1
      /\ pc = "wcopy"
      /\ UNCHANGED <<tx_in, tx_out, tx_fifo, written, heard, heardLast, isr, space, n>>
  BY DEF WCopy, CallStep, isrVars
<1>3. tx_in + j \in Slots /\ Used(tx_in + j, tx_out) = Used(tx_in, tx_out) + j
  <2>1. tx_in + j < BufLen /\ Used(tx_in, tx_out) + j < BufLen
    BY <1>1
  <2> QED
    BY <1>1, <2>1, FreeRun
<1>4. /\ tx_buf' \in [Slots -> Nat] /\ tx_buf'[tx_in + j] = written + j + 1
      /\ \A i \in Slots : i # tx_in + j => tx_buf'[i] = tx_buf[i]
  BY <1>1, <1>2, <1>3
<1>5. Holds(tx_buf', tx_in, tx_out, heard + Len(tx_fifo))
  <2> SUFFICES ASSUME NEW i \in Slots, Used(i, tx_out) < Used(tx_in, tx_out)
               PROVE  tx_buf'[i] = heard + Len(tx_fifo) + Used(i, tx_out) + 1
    BY DEF Holds
  <2>1. i # tx_in + j
    BY <1>1, <1>3
  <2> QED
    BY <1>4, <2>1 DEF IInv, TxOK, Holds
<1>6. \A i \in 0..(BufLen - 1) : i < j + 1 => tx_buf'[tx_in + i] = written + i + 1
  <2> SUFFICES ASSUME NEW i \in 0..(BufLen - 1), i < j + 1
               PROVE  tx_buf'[tx_in + i] = written + i + 1
    OBVIOUS
  <2>1. CASE i = j
    BY <1>4, <2>1
  <2>2. CASE i # j
    <3>1. i < j /\ tx_in + i \in Slots /\ tx_in + i # tx_in + j
      BY <1>1, <2>2 DEF Slots
    <3>2. tx_buf[tx_in + i] = written + i + 1
      BY <1>2, <3>1 DEF IInv, TxOK
    <3> QED
      BY <1>4, <3>1, <3>2
  <2> QED
    BY <2>1, <2>2
<1>7. tx_in + n <= BufLen /\ Used(tx_in, tx_out) + n < BufLen
  BY <1>1
<1> QED
  BY <1>2, <1>4, <1>5, <1>6, <1>7 DEF IInv, TxOK, Queues, Used

\* The run becomes part of the bytes in use.
LEMMA WPublishStep == IInv /\ WPublish => TxOK' /\ tx_in' \in Slots
<1> SUFFICES ASSUME IInv, WPublish PROVE TxOK' /\ tx_in' \in Slots
  OBVIOUS
<1>1. /\ tx_in \in Slots /\ tx_out \in Slots /\ BufLen \in Nat /\ n \in 1..(BufLen - 1) /\ n \in Nat
      /\ j = n /\ heard \in Nat /\ Len(tx_fifo) \in Nat /\ written \in Nat
      /\ tx_in + n <= BufLen /\ Used(tx_in, tx_out) + n < BufLen
  BY UartAssumption DEF IInv, UartTypeOK, DriverTypes, DeviceTypes, CallTypes, CallOK, Copying, TxOK,
                        WPublish, CallStep, Slots
<1>2. PICK u \in Nat : u = Used(tx_in, tx_out)
  BY <1>1, UsedRange DEF Slots
<1>3. /\ tx_in' = Wrap(tx_in + n) /\ written' = written + n /\ pc' = "wlook" /\ pc = "wpublish"
      /\ UNCHANGED <<tx_out, tx_buf, tx_fifo, heard, heardLast, isr, space>>
  BY DEF WPublish, CallStep, isrVars
<1>4. written = heard + Len(tx_fifo) + u
  BY <1>2 DEF IInv, TxOK
<1>5. /\ tx_in' \in Slots /\ Used(tx_in', tx_out) = u + n
      /\ \A i \in Slots : Used(i, tx_out) >= u /\ Used(i, tx_out) < u + n
                         => i = tx_in + (Used(i, tx_out) - u)
  BY <1>1, <1>2, <1>3, InMoves
<1>6. Holds(tx_buf, tx_in', tx_out, heard + Len(tx_fifo))
  <2> SUFFICES ASSUME NEW i \in Slots, Used(i, tx_out) < u + n
               PROVE  tx_buf[i] = heard + Len(tx_fifo) + Used(i, tx_out) + 1
    BY <1>5 DEF Holds
  <2>1. CASE Used(i, tx_out) < u
    BY <1>2, <2>1 DEF IInv, TxOK, Holds
  <2>2. CASE ~(Used(i, tx_out) < u)
    <3>1. PICK k \in 0..(BufLen - 1) : k = Used(i, tx_out) - u /\ k < n
      <4>1. Used(i, tx_out) \in 0..(BufLen - 1)
        BY <1>1, UsedRange DEF Slots
      <4> QED
        BY <1>1, <1>2, <2>2, <4>1
    <3>2. i = tx_in + k /\ Used(i, tx_out) = u + k
      <4>1. Used(i, tx_out) \in 0..(BufLen - 1)
        BY <1>1, UsedRange DEF Slots
      <4>2. i = tx_in + (Used(i, tx_out) - u)
        BY <1>1, <1>2, <1>5, <2>2, <4>1
      <4> QED
        BY <1>1, <1>2, <3>1, <4>1, <4>2
    <3>3. tx_buf[tx_in + k] = written + k + 1
      BY <1>1, <1>3, <3>1 DEF IInv, TxOK
    <3> QED
      BY <1>1, <1>2, <1>4, <3>2, <3>3
  <2> QED
    BY <2>1, <2>2
<1>7. written' = heard + Len(tx_fifo) + (u + n)
  BY <1>1, <1>2, <1>3, <1>4
<1> QED
  BY <1>3, <1>5, <1>6, <1>7 DEF IInv, TxOK, Queues

\* A byte reaches the host.
LEMMA HostPollStep == IInv /\ HostPoll => TxOK'
<1> SUFFICES ASSUME IInv, HostPoll PROVE TxOK'
  OBVIOUS
<1>1. /\ tx_fifo \in Seq(Nat) /\ heard \in Nat /\ space \in Nat /\ FifoLen \in Nat /\ Len(tx_fifo) \in Nat
      /\ UNCHANGED <<tx_in, tx_out, tx_buf, written, isr, space, pc, n, j>>
  BY UartAssumption DEF IInv, UartTypeOK, DeviceTypes, CallTypes, HostPoll, txRing, isrVars, call
<1>2. CASE tx_fifo = <<>>
  BY <1>1, <1>2 DEF IInv, TxOK, Holds, Queues, Used, HostPoll
<1>3. CASE tx_fifo # <<>>
  <2>1. tx_fifo' = Tail(tx_fifo) /\ heard' = heard + 1 /\ heardLast' = Head(tx_fifo)
    BY <1>3 DEF HostPoll
  <2>2. /\ Head(tx_fifo) = heard + 1 /\ Len(tx_fifo') = Len(tx_fifo) - 1
        /\ Queues(tx_fifo', heard') /\ Len(tx_fifo) > 0
    BY <1>1, <1>3, <2>1, FifoTail DEF IInv, TxOK
  <2>3. heard' + Len(tx_fifo') = heard + Len(tx_fifo)
    <3>1. Len(tx_fifo') = Len(tx_fifo) - 1 /\ heard' = heard + 1
      BY <2>1, <2>2
    <3> QED
      BY <1>1, <3>1
  <2>4. Holds(tx_buf', tx_in', tx_out', heard' + Len(tx_fifo'))
    BY <1>1, <2>3 DEF IInv, TxOK, Holds, Used
  <2>5. isr' # "off" => space' + Len(tx_fifo') <= FifoLen
    BY <1>1, <2>2 DEF IInv, TxOK
  <2> QED
    BY <1>1, <2>1, <2>2, <2>3, <2>4, <2>5 DEF IInv, TxOK, Used
<1> QED
  BY <1>2, <1>3

\* A byte of a run is given to the program.
LEMMA RCopyStep == IInv /\ RCopy => RxOK'
<1> SUFFICES ASSUME IInv, RCopy PROVE RxOK'
  OBVIOUS
<1>1. /\ rx_in \in Slots /\ rx_out \in Slots /\ BufLen \in Nat /\ rx_out \in Nat
      /\ j \in Nat /\ n \in Nat /\ got \in Nat
  BY UartAssumption DEF IInv, UartTypeOK, DriverTypes, CallTypes, Slots
<1>2. /\ pc = "rcopy" /\ pc' \in {"rcopy", "rpublish"}
      /\ got' = got + 1 /\ gotLast' = rx_buf[rx_out + j] /\ j' = j + 1
      /\ UNCHANGED <<rx_in, rx_out, rx_buf, rx_fifo, sent, n>>
  BY DEF RCopy, CallStep, rxRing
<1>3. j < n /\ rx_out + n <= BufLen /\ n <= Used(rx_in, rx_out)
  BY <1>2 DEF IInv, CallOK, RxOK
<1>4. PICK b \in Nat : b = RxBase
  BY DEF IInv, RxOK
<1>5. got = b + j
  BY <1>1, <1>2, <1>4 DEF RxBase
<1>6. RxBase' = b
  <2>1. RxBase' = (got + 1) - (j + 1)
    BY <1>2 DEF RxBase
  <2> QED
    BY <1>1, <1>5, <2>1
<1>7. gotLast' = got'
  <2>1. rx_out + j < BufLen /\ j < Used(rx_in, rx_out) /\ Used(rx_in, rx_out) \in Nat
    <3>1. Used(rx_in, rx_out) \in Nat
      BY <1>1, UsedRange DEF Slots
    <3>2. j < Used(rx_in, rx_out)
      BY <1>1, <1>3, <3>1
    <3>3. rx_out + j < BufLen
      BY <1>1, <1>3
    <3> QED
      BY <3>1, <3>2, <3>3
  <2>2. rx_out + j \in Slots /\ Used(rx_out + j, rx_out) = j
    BY <1>1, <2>1, FilledRun
  <2>3. rx_buf[rx_out + j] = b + j + 1
    BY <1>4, <2>1, <2>2 DEF IInv, RxOK, Holds
  <2> QED
    BY <1>2, <1>5, <2>3
<1>8. /\ Holds(rx_buf, rx_in, rx_out, b) /\ Queues(rx_fifo, b + Used(rx_in, rx_out))
      /\ sent = b + Used(rx_in, rx_out) + Len(rx_fifo)
  BY <1>4 DEF IInv, RxOK
<1>9. /\ Holds(rx_buf', rx_in', rx_out', b) /\ Queues(rx_fifo', b + Used(rx_in', rx_out'))
      /\ sent' = b + Used(rx_in', rx_out') + Len(rx_fifo')
      /\ rx_out' + n' <= BufLen /\ n' <= Used(rx_in', rx_out')
  BY <1>2, <1>3, <1>8
<1> QED
  BY <1>4, <1>6, <1>7, <1>9 DEF RxOK

\* The room of a run is handed back.
LEMMA RPublishStep == IInv /\ RPublish => RxOK' /\ rx_out' \in Slots
<1> SUFFICES ASSUME IInv, RPublish PROVE RxOK' /\ rx_out' \in Slots
  OBVIOUS
<1>1. /\ rx_in \in Slots /\ rx_out \in Slots /\ BufLen \in Nat /\ got \in Nat /\ n \in Nat
      /\ rx_fifo \in Seq(Nat) /\ Len(rx_fifo) \in Nat
  BY UartAssumption DEF IInv, UartTypeOK, DriverTypes, DeviceTypes, CallTypes, Slots
<1>2. /\ pc = "rpublish" /\ pc' \notin {"rcopy", "rpublish"} /\ rx_out' = Wrap(rx_out + n)
      /\ UNCHANGED <<rx_in, rx_buf, rx_fifo, sent, got, gotLast>>
  BY DEF RPublish, CallStep
<1>3. /\ j = n /\ n \in 1..(BufLen - 1)
      /\ rx_out + n <= BufLen /\ n <= Used(rx_in, rx_out)
  BY <1>1, <1>2 DEF IInv, UartTypeOK, CallTypes, CallOK, Copying, RxOK, Slots
<1>4. PICK b \in Nat, u \in Nat : b = RxBase /\ u = Used(rx_in, rx_out)
  <2>1. RxBase \in Nat /\ Used(rx_in, rx_out) \in Nat
    BY <1>1, UsedRange DEF IInv, RxOK, Slots
  <2> QED
    BY <2>1
<1>5. got = b + n
  BY <1>1, <1>2, <1>3, <1>4 DEF RxBase
<1>6. /\ rx_out' \in Slots /\ Used(rx_in, rx_out') = u - n
      /\ \A i \in Slots : Used(i, rx_out') < u - n => Used(i, rx_out) = Used(i, rx_out') + n
  BY <1>1, <1>2, <1>3, <1>4, OutMoves
<1>7. n <= u
  BY <1>3, <1>4
<1>8. Holds(rx_buf, rx_in, rx_out', b + n)
  <2> SUFFICES ASSUME NEW i \in Slots, Used(i, rx_out') < u - n
               PROVE  rx_buf[i] = (b + n) + Used(i, rx_out') + 1
    BY <1>6 DEF Holds
  <2>1. Used(i, rx_out) \in Nat /\ Used(i, rx_out') \in Nat
    BY <1>1, <1>6, UsedRange DEF Slots
  <2>2. Used(i, rx_out) = Used(i, rx_out') + n /\ Used(i, rx_out) < u
    BY <1>1, <1>4, <1>6, <1>7, <2>1
  <2>3. rx_buf[i] = b + Used(i, rx_out) + 1
    BY <1>4, <2>2 DEF IInv, RxOK, Holds
  <2> QED
    BY <1>1, <2>1, <2>2, <2>3
<1>9. RxBase' = b + n
  BY <1>2, <1>5 DEF RxBase
<1>10. (b + n) + (u - n) = b + u /\ b + n \in Nat
  BY <1>1, <1>4, <1>7
<1>11. Queues(rx_fifo, b + u) /\ sent = b + u + Len(rx_fifo) /\ gotLast = got
  BY <1>4 DEF IInv, RxOK
<1> QED
  BY <1>2, <1>6, <1>8, <1>9, <1>10, <1>11 DEF RxOK

\* The host sends one more byte.
LEMMA HostSendStep == IInv /\ HostSend => RxOK'
<1> SUFFICES ASSUME IInv, HostSend PROVE RxOK'
  OBVIOUS
<1>1. /\ rx_fifo \in Seq(Nat) /\ Len(rx_fifo) \in Nat /\ rx_in \in Slots /\ rx_out \in Slots
  BY DEF IInv, UartTypeOK, DriverTypes, DeviceTypes
<1>2. /\ rx_fifo' = Append(rx_fifo, sent + 1) /\ sent' = sent + 1
      /\ UNCHANGED <<rx_in, rx_out, rx_buf, pc, n, j, got, gotLast>>
  BY DEF HostSend, rxRing, call
<1>3. PICK b \in Nat, u \in Nat : b = RxBase /\ u = Used(rx_in, rx_out)
  <2>1. RxBase \in Nat /\ Used(rx_in, rx_out) \in Nat
    BY <1>1, UsedRange, UartAssumption DEF IInv, RxOK, Slots
  <2> QED
    BY <2>1
<1>4. Queues(rx_fifo, b + u) /\ sent = b + u + Len(rx_fifo)
  BY <1>3 DEF IInv, RxOK
<1>5. Queues(rx_fifo', b + u) /\ Len(rx_fifo') = Len(rx_fifo) + 1
  <2>1. b + u \in Nat
    BY <1>3
  <2> QED
    BY <1>1, <1>2, <1>4, <2>1, FifoAppend
<1>6. sent' = b + u + Len(rx_fifo')
  BY <1>1, <1>2, <1>3, <1>4, <1>5
<1>7. RxBase' = b
  BY <1>2, <1>3 DEF RxBase
<1>8. /\ Holds(rx_buf, rx_in, rx_out, b) /\ gotLast = got
      /\ pc \in {"rcopy", "rpublish"} => rx_out + n <= BufLen /\ n <= Used(rx_in, rx_out)
  BY <1>3 DEF IInv, RxOK
<1>9. /\ Used(rx_in', rx_out') = u /\ Holds(rx_buf', rx_in', rx_out', b) /\ gotLast' = got'
      /\ pc' \in {"rcopy", "rpublish"} => rx_out' + n' <= BufLen /\ n' <= Used(rx_in', rx_out')
  BY <1>2, <1>3, <1>8
<1> QED
  BY <1>5, <1>6, <1>7, <1>9 DEF RxOK

\* The next run of read().
LEMMA RLookStep == IInv /\ RLook => RxOK' /\ n' \in Slots /\ (pc' = "rcopy" => n' \in 1..todo)
<1> SUFFICES ASSUME IInv, RLook
             PROVE  RxOK' /\ n' \in Slots /\ (pc' = "rcopy" => n' \in 1..todo)
  OBVIOUS
<1>1. /\ rx_in \in Slots /\ rx_out \in Slots /\ BufLen \in Nat /\ todo \in Nat /\ todo > 0
      /\ rx_out \in Nat /\ pc = "rlook" /\ n = 0 /\ j = 0 /\ 0 \in Slots
      /\ UNCHANGED <<rx_in, rx_out, rx_buf, rx_fifo, sent, got, gotLast>>
  BY UartAssumption DEF IInv, UartTypeOK, DriverTypes, CallTypes, CallOK, Copying, RLook, CallStep,
                        Slots, rxRing
<1>2. CASE Ready(rx_in) > 0
  <2>1. n' = Least(Ready(rx_in), todo) /\ pc' = "rcopy" /\ j' = j
    BY <1>2 DEF RLook
  <2>2. PICK run \in Nat, ready \in Nat, u \in Nat :
           run = n' /\ ready = Ready(rx_in) /\ u = Used(rx_in, rx_out)
    <3>1. Ready(rx_in) \in Slots /\ Ready(rx_in) \in Nat
      BY <1>1, ReadyFits DEF Slots
    <3>2. Used(rx_in, rx_out) \in Nat
      BY <1>1, UsedRange DEF Slots
    <3>3. n' \in Nat
      BY <1>1, <2>1, <3>1, LeastIs
    <3> QED
      BY <3>1, <3>2, <3>3
  <2>3. rx_out + ready <= BufLen /\ ready <= u /\ ready < BufLen
    BY <1>1, <2>2, ReadyFits DEF Slots
  <2>4. run <= ready /\ run <= todo /\ run > 0
    BY <1>1, <1>2, <2>1, <2>2, <2>3, LeastIs
  <2>5. rx_out + run <= BufLen /\ run <= u /\ run < BufLen
    <3>1. BufLen \in Nat /\ rx_out \in Nat
      BY <1>1
    <3> QED
      BY <3>1, <2>3, <2>4
  <2>6. RxBase' = RxBase
    <3>1. got \in Nat
      BY DEF IInv, UartTypeOK, CallTypes
    <3> QED
      BY <1>1, <2>1, <3>1 DEF RxBase
  <2>7. RxOK'
    BY <1>1, <2>1, <2>2, <2>5, <2>6 DEF IInv, RxOK, Holds, Used
  <2>8. n' \in Slots /\ n' \in 1..todo
    BY <1>1, <2>2, <2>4, <2>5 DEF Slots
  <2> QED
    BY <2>7, <2>8
<1>3. CASE ~(Ready(rx_in) > 0)
  <2>1. pc' \in {"rkick", "idle", "rspin"} /\ n' = 0
    BY <1>1, <1>3 DEF RLook, Goto, locals, Return
  <2>2. RxBase' = RxBase
    BY <1>1, <2>1 DEF RxBase
  <2> QED
    BY <1>1, <2>1, <2>2 DEF IInv, RxOK, Holds, Used
<1> QED
  BY <1>2, <1>3

\* The locals of a call.
LocalTypes ==
    /\ pc \in {"idle"} \cup WritePc \cup ReadPc
    /\ todo \in 0..MaxCall /\ done \in 0..MaxCall /\ nonblock \in BOOLEAN
    /\ seen \in Slots /\ n \in Slots /\ j \in Slots

LEMMA LocalFacts ==
  ASSUME UartTypeOK
  PROVE  /\ LocalTypes
         /\ BufLen \in Nat /\ BufLen > 0 /\ MaxCall \in Nat
         /\ todo \in Nat /\ done \in Nat /\ n \in Nat /\ j \in Nat
         /\ 0 \in Slots /\ 0 \in 0..MaxCall /\ n < BufLen
  BY UartAssumption DEF UartTypeOK, CallTypes, LocalTypes, Slots

\* The locals after each way to leave a step: the call returns, goes on with
\* the locals it has, copies a byte, or hands over its run.
LEMMA Returns ==
  ASSUME UartTypeOK, CallOK, Return
  PROVE  LocalTypes' /\ CallOK'
<1>1. LocalTypes'
  BY LocalFacts DEF Return, LocalTypes
<1>2. CallOK'
  BY LocalFacts DEF Return, CallOK, Copying
<1> QED
  BY <1>1, <1>2

LEMMA Goes ==
  ASSUME UartTypeOK, CallOK, pc \notin Copying,
         NEW to \in (WritePc \cup ReadPc) \ Copying, Goto(to),
         to \in {"rlook", "rspin"} => todo > 0
  PROVE  LocalTypes' /\ CallOK'
<1> USE DEF Goto, locals
<1>1. LocalTypes'
  BY LocalFacts DEF LocalTypes
<1>2. CallOK'
  BY DEF CallOK, Copying, WritePc, ReadPc
<1> QED
  BY <1>1, <1>2

LEMMA Copies ==
  ASSUME UartTypeOK, CallOK, pc \in {"wcopy", "rcopy"},
         NEW end \in {"wpublish", "rpublish"},
         j' = j + 1, pc' = IF j + 1 = n THEN end ELSE pc,
         UNCHANGED <<todo, done, nonblock, seen, n>>
  PROVE  LocalTypes' /\ CallOK'
<1>1. /\ LocalTypes /\ todo \in Nat /\ n \in Nat /\ j \in Nat /\ n < BufLen /\ BufLen \in Nat
      /\ j < n /\ n \in 1..todo /\ done + todo <= MaxCall
  BY LocalFacts DEF CallOK, Copying
<1>2. PICK k \in Nat : k = j + 1
  BY <1>1
<1>3. k \in Slots /\ (k # n => k < n)
  BY <1>1, <1>2 DEF Slots
<1>4. LocalTypes'
  BY <1>1, <1>2, <1>3 DEF LocalTypes, WritePc, ReadPc
<1>5. CallOK'
  BY <1>1, <1>2, <1>3 DEF CallOK, Copying
<1> QED
  BY <1>4, <1>5

LEMMA Hands ==
  ASSUME UartTypeOK, CallOK, pc \in {"wpublish", "rpublish"}, Handed,
         pc' \in {"wlook", "rlook", "rkick", "wkick"}, pc' = "rlook" => todo' > 0,
         UNCHANGED <<nonblock, seen>>
  PROVE  LocalTypes' /\ CallOK' /\ done' > 0
<1>1. /\ LocalTypes /\ todo \in Nat /\ done \in Nat /\ n \in Nat /\ MaxCall \in Nat
      /\ n \in 1..todo /\ done + todo <= MaxCall /\ 0 \in Slots
  BY LocalFacts DEF CallOK, Copying
<1>2. PICK d \in Nat, t \in Nat : d = done + n /\ t = todo - n
  BY <1>1
<1>3. d \in 0..MaxCall /\ t \in 0..MaxCall /\ d + t <= MaxCall /\ d > 0
  BY <1>1, <1>2
<1>4. done' = d /\ todo' = t /\ n' = 0 /\ j' = 0
  BY <1>2 DEF Handed
<1>5. LocalTypes'
  BY <1>1, <1>3, <1>4 DEF LocalTypes, WritePc, ReadPc
<1>6. CallOK'
  BY <1>3, <1>4 DEF CallOK, Copying
<1> QED
  BY <1>3, <1>4, <1>5, <1>6

\* The locals after write() or read() looked for its next run.
LEMMA Looks ==
  ASSUME UartTypeOK, CallOK, pc \in {"wlook", "rlook"}, n' \in Slots, seen' \in Slots,
         \/ pc' \in {"wcopy", "rcopy"} /\ n' \in 1..todo
         \/ n' = 0 /\ (pc' = "wkick" \/ (pc' = "rspin" /\ pc = "rlook")),
         UNCHANGED <<todo, done, nonblock, j>>
  PROVE  LocalTypes' /\ CallOK'
<1>1. /\ LocalTypes /\ todo \in Nat /\ done + todo <= MaxCall /\ j = 0
      /\ (pc = "rlook" => todo > 0)
  BY LocalFacts DEF CallOK, Copying
<1>2. LocalTypes'
  BY <1>1 DEF LocalTypes, WritePc, ReadPc
<1>3. n' = 0 \/ n' \in 1..todo
  OBVIOUS
<1>4. /\ pc' \in {"wcopy", "rcopy", "wkick", "rspin"}
      /\ done' = done /\ todo' = todo /\ j' = 0 /\ (pc' = "rspin" => todo > 0)
  BY <1>1
<1>5. CallOK'
  <2>1. CASE pc' \in {"wcopy", "rcopy"}
    <3>1. PICK k \in 1..todo : n' = k
      BY <2>1
    <3>2. j' < n'
      BY <1>1, <1>4, <3>1
    <3> QED
      BY <1>1, <1>4, <2>1, <3>1, <3>2 DEF CallOK, Copying
  <2>2. CASE pc' \notin {"wcopy", "rcopy"}
    BY <1>1, <1>4, <2>2 DEF CallOK, Copying
  <2> QED
    BY <2>1, <2>2
<1> QED
  BY <1>2, <1>5

\* A call starts.
LEMMA Starts ==
  ASSUME UartTypeOK, CallOK, NEW to \in {"wlook", "rlook", "close"}, Start(to)
  PROVE  LocalTypes' /\ CallOK'
<1>1. /\ LocalTypes /\ done = 0 /\ n = 0 /\ j = 0 /\ MaxCall \in Nat
  BY LocalFacts DEF Start, CallOK, Copying
<1>2. PICK k \in 1..MaxCall : todo' = k
  BY DEF Start
<1>3. LocalTypes'
  BY <1>1, <1>2 DEF Start, LocalTypes, WritePc, ReadPc
<1>4. CallOK'
  BY <1>1, <1>2 DEF Start, CallOK, Copying
<1> QED
  BY <1>3, <1>4

LEMMA EnableTypes ==
  ASSUME UartTypeOK, NEW mask \in {"RE", "WE"}, Enable(mask)
  PROVE  irq_enable' \subseteq {"RE", "WE"} /\ control' \subseteq {"RE", "WE"}
  BY DEF Enable, UartTypeOK, DriverTypes

\* The steps of write() and close().
LEMMA WriteStep ==
  ASSUME IInv, WLook \/ WCopy \/ WPublish \/ WKick \/ WSpin \/ WCheck
         \/ Close
  PROVE  IInv'
<1> USE DEF IInv, txRing, rxRing, state, isrVars, device, call, txCount, rxCount
<1>1. CASE WLook
  <2>0. LocalTypes' /\ CallOK'
    <3>1. n' \in Slots /\ n' <= todo /\ n' \in Nat /\ todo \in Nat
      BY <1>1, WLookStep, LocalFacts DEF Slots
    <3>2. PICK k \in Nat : k = n'
      BY <3>1
    <3>3. k # 0 => k \in 1..todo
      BY <3>1, <3>2
    <3>4. tx_out \in Slots
      BY DEF UartTypeOK, DriverTypes
    <3>5. pc = "wlook" /\ seen' \in Slots /\ UNCHANGED <<todo, done, nonblock, j>>
      BY <1>1, <3>4 DEF WLook, CallStep
    <3>6. pc' = IF n' = 0 THEN "wkick" ELSE "wcopy"
      BY <1>1 DEF WLook
    <3>7. CASE n' = 0
      <4>1. pc' = "wkick"
        BY <3>6, <3>7
      <4>2. n' \in Slots
        BY <3>1
      <4>3. n' = 0 /\ (pc' = "wkick" \/ (pc' = "rspin" /\ pc = "rlook"))
        BY <3>7, <4>1
      <4> QED
        BY <3>5, <4>2, <4>3, Looks
    <3>8. CASE n' # 0
      <4>1. pc' = "wcopy"
        BY <3>6, <3>8
      <4>2. n' \in 1..todo
        BY <3>2, <3>3, <3>8
      <4> QED
        BY <3>1, <3>5, <4>1, <4>2, Looks
    <3> QED
      BY <3>7, <3>8
  <2>1. DriverTypes'
    BY <1>1, UartAssumption DEF WLook, CallStep, UartTypeOK, DriverTypes, Slots
  <2>2. DeviceTypes'
    BY <1>1 DEF WLook, CallStep, UartTypeOK, DeviceTypes
  <2>3. CallTypes'
    BY <1>1, <2>0 DEF WLook, CallStep, UartTypeOK, CallTypes, LocalTypes
  <2>4. TxOK'
    BY <1>1, WLookStep
  <2>5. RxOK'
    BY <1>1, RxFrame DEF WLook, CallStep
  <2>6. Armed'
    BY <1>1 DEF WLook, CallStep, Armed, RxArmed
  <2> QED
    BY <2>0, <2>1, <2>2, <2>3, <2>4, <2>5, <2>6 DEF UartTypeOK
<1>2. CASE WCopy
  <2>0. LocalTypes' /\ CallOK'
    BY <1>2, Copies DEF WCopy, CallStep
  <2>1. DriverTypes'
    BY <1>2, WCopyStep DEF WCopy, CallStep, UartTypeOK, DriverTypes
  <2>2. DeviceTypes'
    BY <1>2 DEF WCopy, CallStep, UartTypeOK, DeviceTypes
  <2>3. CallTypes'
    BY <1>2, <2>0 DEF WCopy, CallStep, UartTypeOK, CallTypes, LocalTypes
  <2>4. TxOK'
    BY <1>2, WCopyStep
  <2>5. RxOK'
    BY <1>2, RxFrame DEF WCopy, CallStep
  <2>6. Armed'
    BY <1>2 DEF WCopy, CallStep, Armed, RxArmed
  <2> QED
    BY <2>0, <2>1, <2>2, <2>3, <2>4, <2>5, <2>6 DEF UartTypeOK
<1>3. CASE WPublish
  <2>0. LocalTypes' /\ CallOK'
    BY <1>3, Hands DEF WPublish, CallStep
  <2>1. DriverTypes'
    BY <1>3, WPublishStep DEF WPublish, CallStep, UartTypeOK, DriverTypes
  <2>2. DeviceTypes'
    BY <1>3 DEF WPublish, CallStep, Handed, UartTypeOK, DeviceTypes
  <2>3. CallTypes'
    <3>1. written' \in Nat
      BY <1>3, LocalFacts DEF WPublish, UartTypeOK, CallTypes
    <3> QED
      BY <1>3, <2>0, <3>1 DEF WPublish, CallStep, UartTypeOK, CallTypes, LocalTypes
  <2>4. TxOK'
    BY <1>3, WPublishStep
  <2>5. RxOK'
    BY <1>3, RxFrame DEF WPublish, CallStep, Handed
  <2>6. Armed'
    BY <1>3 DEF WPublish, CallStep, Handed, Armed, RxArmed
  <2> QED
    BY <2>0, <2>1, <2>2, <2>3, <2>4, <2>5, <2>6 DEF UartTypeOK
<1>4. CASE WKick
  <2>0. LocalTypes' /\ CallOK'
    BY <1>4, Goes, Returns DEF WKick, CallStep, WritePc, ReadPc, Copying
  <2>1. DriverTypes'
    BY <1>4, EnableTypes DEF WKick, Goto, locals, Return, CallStep, UartTypeOK, DriverTypes
  <2>2. DeviceTypes'
    BY <1>4, EnableTypes DEF WKick, Goto, locals, Return, CallStep, UartTypeOK, DeviceTypes
  <2>3. CallTypes'
    BY <1>4, <2>0 DEF WKick, CallStep, Enable, Goto, locals, Return, UartTypeOK, CallTypes, LocalTypes
  <2>4. TxOK'
    BY <1>4, TxFrame DEF WKick, CallStep, Enable, Goto, locals, Return, TxOK
  <2>5. RxOK'
    BY <1>4, RxFrame DEF WKick, CallStep, Enable, Goto, locals, Return
  <2>6. Armed'
    BY <1>4 DEF WKick, CallStep, Enable, Goto, locals, Return, Armed, RxArmed
  <2> QED
    BY <2>0, <2>1, <2>2, <2>3, <2>4, <2>5, <2>6 DEF UartTypeOK
<1>5. CASE WSpin
  <2>0. LocalTypes' /\ CallOK'
    BY <1>5, Goes DEF WSpin, CallStep, WritePc, ReadPc, Copying
  <2>1. DriverTypes'
    BY <1>5, UartAssumption DEF WSpin, CallStep, Goto, locals, UartTypeOK, DriverTypes, Slots
  <2>2. DeviceTypes'
    BY <1>5 DEF WSpin, CallStep, Goto, locals, UartTypeOK, DeviceTypes
  <2>3. CallTypes'
    BY <1>5, <2>0 DEF WSpin, CallStep, Goto, locals, UartTypeOK, CallTypes, LocalTypes
  <2>4. TxOK'
    BY <1>5, TxFrame DEF WSpin, CallStep, Goto, locals, TxOK
  <2>5. RxOK'
    BY <1>5, RxFrame DEF WSpin, CallStep, Goto, locals
  <2>6. Armed'
    BY <1>5 DEF WSpin, CallStep, Goto, locals, Armed, RxArmed
  <2> QED
    BY <2>0, <2>1, <2>2, <2>3, <2>4, <2>5, <2>6 DEF UartTypeOK
<1>6. CASE WCheck
  <2>0. LocalTypes' /\ CallOK'
    BY <1>6, Goes, Returns DEF WCheck, CallStep, WritePc, ReadPc, Copying
  <2>1. DriverTypes'
    BY <1>6, UartAssumption DEF WCheck, CallStep, Goto, locals, Return, UartTypeOK, DriverTypes, Slots
  <2>2. DeviceTypes'
    BY <1>6 DEF WCheck, CallStep, Goto, locals, Return, UartTypeOK, DeviceTypes
  <2>3. CallTypes'
    BY <1>6, <2>0 DEF WCheck, CallStep, Goto, locals, Return, UartTypeOK, CallTypes, LocalTypes
  <2>4. TxOK'
    BY <1>6, TxFrame DEF WCheck, CallStep, Goto, locals, Return, TxOK
  <2>5. RxOK'
    BY <1>6, RxFrame DEF WCheck, CallStep, Goto, locals, Return
  <2>6. Armed'
    BY <1>6 DEF WCheck, CallStep, Goto, locals, Return, Armed, RxArmed
  <2> QED
    BY <2>0, <2>1, <2>2, <2>3, <2>4, <2>5, <2>6 DEF UartTypeOK
<1>7. CASE Close
  <2>0. LocalTypes' /\ CallOK'
    BY <1>7, Returns DEF Close, CallStep
  <2>1. DriverTypes'
    BY <1>7, UartAssumption DEF Close, CallStep, Return, UartTypeOK, DriverTypes, Slots
  <2>2. DeviceTypes'
    BY <1>7 DEF Close, CallStep, Return, UartTypeOK, DeviceTypes
  <2>3. CallTypes'
    BY <1>7, <2>0 DEF Close, CallStep, Return, UartTypeOK, CallTypes, LocalTypes
  <2>4. TxOK'
    BY <1>7, TxFrame DEF Close, CallStep, Return, TxOK
  <2>5. RxOK'
    BY <1>7, RxFrame DEF Close, CallStep, Return
  <2>6. Armed'
    BY <1>7 DEF Close, CallStep, Return, Armed, RxArmed
  <2> QED
    BY <2>0, <2>1, <2>2, <2>3, <2>4, <2>5, <2>6 DEF UartTypeOK
<1> QED
  BY <1>1, <1>2, <1>3, <1>4, <1>5, <1>6, <1>7

\* The steps of read().
LEMMA ReadStep ==
  ASSUME IInv, RLook \/ RCopy \/ RPublish \/ RSpin \/ RKick
  PROVE  IInv'
<1> USE DEF IInv, txRing, rxRing, state, isrVars, device, call, txCount, rxCount
<1>1. CASE RLook
  <2>0. LocalTypes' /\ CallOK'
    <3>1. /\ n' \in Slots /\ (pc' = "rcopy" => n' \in 1..todo)
          /\ pc = "rlook" /\ n = 0 /\ todo > 0 /\ rx_in \in Slots /\ LocalTypes
      BY <1>1, RLookStep, LocalFacts DEF RLook, CallStep, CallOK, Copying, UartTypeOK, DriverTypes
    <3>2. CASE Ready(rx_in) > 0
      BY <1>1, <3>1, <3>2, Looks DEF RLook, LocalTypes
    <3>3. CASE ~(Ready(rx_in) > 0) /\ done > 0
      BY <1>1, <3>1, <3>3, Goes DEF RLook, WritePc, ReadPc, Copying
    <3>4. CASE ~(Ready(rx_in) > 0) /\ ~(done > 0) /\ nonblock
      BY <1>1, <3>4, Returns DEF RLook
    <3>5. CASE ~(Ready(rx_in) > 0) /\ ~(done > 0) /\ ~nonblock
      BY <1>1, <3>1, <3>5, Looks DEF RLook
    <3> QED
      BY <3>2, <3>3, <3>4, <3>5
  <2>1. DriverTypes'
    BY <1>1, UartAssumption DEF RLook, CallStep, Goto, locals, Return, UartTypeOK, DriverTypes, Slots
  <2>2. DeviceTypes'
    BY <1>1 DEF RLook, CallStep, Goto, locals, Return, UartTypeOK, DeviceTypes
  <2>3. CallTypes'
    BY <1>1, <2>0 DEF RLook, CallStep, Goto, locals, Return, UartTypeOK, CallTypes, LocalTypes
  <2>4. TxOK'
    BY <1>1, TxFrame DEF RLook, CallStep, Goto, locals, Return, TxOK
  <2>5. RxOK'
    BY <1>1, RLookStep
  <2>6. Armed'
    BY <1>1 DEF RLook, CallStep, Goto, locals, Return, Armed, RxArmed
  <2> QED
    BY <2>0, <2>1, <2>2, <2>3, <2>4, <2>5, <2>6 DEF UartTypeOK
<1>2. CASE RCopy
  <2>0. LocalTypes' /\ CallOK'
    BY <1>2, Copies DEF RCopy, CallStep
  <2>1. DriverTypes'
    BY <1>2, UartAssumption DEF RCopy, CallStep, UartTypeOK, DriverTypes, Slots
  <2>2. DeviceTypes'
    BY <1>2 DEF RCopy, CallStep, UartTypeOK, DeviceTypes
  <2>3. CallTypes'
    <3>1. got' \in Nat /\ gotLast' \in Nat
      BY <1>2, RCopyStep DEF RCopy, UartTypeOK, CallTypes, RxOK
    <3> QED
      BY <1>2, <2>0, <3>1 DEF RCopy, CallStep, UartTypeOK, CallTypes, LocalTypes
  <2>4. TxOK'
    BY <1>2, TxFrame DEF RCopy, CallStep, TxOK
  <2>5. RxOK'
    BY <1>2, RCopyStep
  <2>6. Armed'
    BY <1>2 DEF RCopy, CallStep, Armed, RxArmed
  <2> QED
    BY <2>0, <2>1, <2>2, <2>3, <2>4, <2>5, <2>6 DEF UartTypeOK
<1>3. CASE RPublish
  <2>0. LocalTypes' /\ CallOK'
    BY <1>3, Hands DEF RPublish, CallStep
  <2>1. DriverTypes'
    BY <1>3, RPublishStep DEF RPublish, CallStep, UartTypeOK, DriverTypes
  <2>2. DeviceTypes'
    BY <1>3 DEF RPublish, CallStep, Handed, UartTypeOK, DeviceTypes
  <2>3. CallTypes'
    BY <1>3, <2>0 DEF RPublish, CallStep, Handed, UartTypeOK, CallTypes, LocalTypes
  <2>4. TxOK'
    BY <1>3, TxFrame DEF RPublish, CallStep, Handed, TxOK
  <2>5. RxOK'
    BY <1>3, RPublishStep
  <2>6. Armed'
    BY <1>3, Hands DEF RPublish, CallStep, Armed, RxArmed
  <2> QED
    BY <2>0, <2>1, <2>2, <2>3, <2>4, <2>5, <2>6 DEF UartTypeOK
<1>4. CASE RSpin
  <2>0. LocalTypes' /\ CallOK'
    <3>1. todo > 0
      BY <1>4 DEF RSpin, CallStep, CallOK
    <3> QED
      BY <1>4, <3>1, Goes, Returns DEF RSpin, CallStep, WritePc, ReadPc, Copying
  <2>1. DriverTypes'
    BY <1>4, UartAssumption DEF RSpin, CallStep, Goto, locals, Return, UartTypeOK, DriverTypes, Slots
  <2>2. DeviceTypes'
    BY <1>4 DEF RSpin, CallStep, Goto, locals, Return, UartTypeOK, DeviceTypes
  <2>3. CallTypes'
    BY <1>4, <2>0 DEF RSpin, CallStep, Goto, locals, Return, UartTypeOK, CallTypes, LocalTypes
  <2>4. TxOK'
    BY <1>4, TxFrame DEF RSpin, CallStep, Goto, locals, Return, TxOK
  <2>5. RxOK'
    BY <1>4, RxFrame DEF RSpin, CallStep, Goto, locals, Return
  <2>6. Armed'
    BY <1>4 DEF RSpin, CallStep, Goto, locals, Return, Armed, RxArmed
  <2> QED
    BY <2>0, <2>1, <2>2, <2>3, <2>4, <2>5, <2>6 DEF UartTypeOK
<1>5. CASE RKick
  <2>0. LocalTypes' /\ CallOK'
    BY <1>5, Returns DEF RKick, CallStep
  <2>1. DriverTypes'
    BY <1>5, EnableTypes DEF RKick, Return, CallStep, UartTypeOK, DriverTypes
  <2>2. DeviceTypes'
    BY <1>5, EnableTypes DEF RKick, Return, CallStep, UartTypeOK, DeviceTypes
  <2>3. CallTypes'
    BY <1>5, <2>0 DEF RKick, CallStep, Enable, Return, UartTypeOK, CallTypes, LocalTypes
  <2>4. TxOK'
    BY <1>5, TxFrame DEF RKick, CallStep, Enable, Return, TxOK
  <2>5. RxOK'
    BY <1>5, RxFrame DEF RKick, CallStep, Enable, Return
  <2>6. Armed'
    BY <1>5 DEF RKick, CallStep, Enable, Return, Armed, RxArmed
  <2> QED
    BY <2>0, <2>1, <2>2, <2>3, <2>4, <2>5, <2>6 DEF UartTypeOK
<1> QED
  BY <1>1, <1>2, <1>3, <1>4, <1>5

\* The alarm, the start of a call and the host.
LEMMA OtherStep ==
  ASSUME IInv, Alarm \/ StartWrite \/ StartRead \/ StartClose \/ SetTimeout \/ HostPoll
         \/ HostSend
  PROVE  IInv'
<1> USE DEF IInv, txRing, rxRing, state, isrVars, device, call, txCount, rxCount
<1>1. CASE Alarm
  <2>0. LocalTypes' /\ CallOK'
    <3>1. UNCHANGED <<pc, todo, done, nonblock, seen, n, j>>
      BY <1>1 DEF Alarm
    <3> QED
      BY <3>1, LocalFacts DEF LocalTypes, CallOK, Copying
  <2>1. DriverTypes'
    <3>1. host_inactive' \in 0..(Never - 2)
      BY <1>1, UartAssumption DEF Alarm, UartTypeOK, DriverTypes
    <3> QED
      BY <1>1, <3>1 DEF Alarm, UartTypeOK, DriverTypes
  <2>2. DeviceTypes'
    BY <1>1 DEF Alarm, UartTypeOK, DriverTypes, DeviceTypes
  <2>3. CallTypes'
    BY <1>1, <2>0 DEF Alarm, UartTypeOK, CallTypes, LocalTypes
  <2>4. TxOK'
    BY <1>1, TxFrame DEF Alarm, TxOK
  <2>5. RxOK'
    BY <1>1, RxFrame DEF Alarm
  <2>6. Armed'
    BY <1>1 DEF Alarm, Armed, RxArmed
  <2> QED
    BY <2>0, <2>1, <2>2, <2>3, <2>4, <2>5, <2>6 DEF UartTypeOK
<1>2. CASE StartWrite
  <2>0. LocalTypes' /\ CallOK'
    BY <1>2, Starts DEF StartWrite
  <2>1. DriverTypes'
    BY <1>2, UartAssumption DEF StartWrite, Start, UartTypeOK, DriverTypes, Slots
  <2>2. DeviceTypes'
    BY <1>2 DEF StartWrite, Start, UartTypeOK, DeviceTypes
  <2>3. CallTypes'
    BY <1>2, <2>0 DEF StartWrite, Start, UartTypeOK, CallTypes, LocalTypes
  <2>4. TxOK'
    BY <1>2, TxFrame DEF StartWrite, Start, TxOK
  <2>5. RxOK'
    BY <1>2, RxFrame DEF StartWrite, Start
  <2>6. Armed'
    BY <1>2 DEF StartWrite, Start, Armed, RxArmed
  <2> QED
    BY <2>0, <2>1, <2>2, <2>3, <2>4, <2>5, <2>6 DEF UartTypeOK
<1>3. CASE StartRead
  <2>0. LocalTypes' /\ CallOK'
    BY <1>3, Starts DEF StartRead
  <2>1. DriverTypes'
    BY <1>3, UartAssumption DEF StartRead, Start, UartTypeOK, DriverTypes, Slots
  <2>2. DeviceTypes'
    BY <1>3 DEF StartRead, Start, UartTypeOK, DeviceTypes
  <2>3. CallTypes'
    BY <1>3, <2>0 DEF StartRead, Start, UartTypeOK, CallTypes, LocalTypes
  <2>4. TxOK'
    BY <1>3, TxFrame DEF StartRead, Start, TxOK
  <2>5. RxOK'
    BY <1>3, RxFrame DEF StartRead, Start
  <2>6. Armed'
    BY <1>3 DEF StartRead, Start, Armed, RxArmed
  <2> QED
    BY <2>0, <2>1, <2>2, <2>3, <2>4, <2>5, <2>6 DEF UartTypeOK
<1>4. CASE StartClose
  <2>0. LocalTypes' /\ CallOK'
    BY <1>4, Starts DEF StartClose
  <2>1. DriverTypes'
    BY <1>4, UartAssumption DEF StartClose, Start, UartTypeOK, DriverTypes, Slots
  <2>2. DeviceTypes'
    BY <1>4 DEF StartClose, Start, UartTypeOK, DeviceTypes
  <2>3. CallTypes'
    BY <1>4, <2>0 DEF StartClose, Start, UartTypeOK, CallTypes, LocalTypes
  <2>4. TxOK'
    BY <1>4, TxFrame DEF StartClose, Start, TxOK
  <2>5. RxOK'
    BY <1>4, RxFrame DEF StartClose, Start
  <2>6. Armed'
    BY <1>4 DEF StartClose, Start, Armed, RxArmed
  <2> QED
    BY <2>0, <2>1, <2>2, <2>3, <2>4, <2>5, <2>6 DEF UartTypeOK
<1>5. CASE SetTimeout
  <2>0. LocalTypes' /\ CallOK'
    <3>1. UNCHANGED <<pc, todo, done, nonblock, seen, n, j>>
      BY <1>5 DEF SetTimeout
    <3> QED
      BY <3>1, LocalFacts DEF LocalTypes, CallOK, Copying
  <2>1. DriverTypes'
    BY <1>5, UartAssumption DEF SetTimeout, UartTypeOK, DriverTypes, Slots
  <2>2. DeviceTypes'
    BY <1>5 DEF SetTimeout, UartTypeOK, DeviceTypes
  <2>3. CallTypes'
    BY <1>5, <2>0 DEF SetTimeout, UartTypeOK, CallTypes, LocalTypes
  <2>4. TxOK'
    BY <1>5, TxFrame DEF SetTimeout, TxOK
  <2>5. RxOK'
    BY <1>5, RxFrame DEF SetTimeout
  <2>6. Armed'
    BY <1>5 DEF SetTimeout, Armed, RxArmed
  <2> QED
    BY <2>0, <2>1, <2>2, <2>3, <2>4, <2>5, <2>6 DEF UartTypeOK
<1>6. CASE HostPoll
  <2>0. LocalTypes' /\ CallOK'
    <3>1. UNCHANGED <<pc, todo, done, nonblock, seen, n, j>>
      BY <1>6 DEF HostPoll
    <3> QED
      BY <3>1, LocalFacts DEF LocalTypes, CallOK, Copying
  <2>1. DriverTypes'
    BY <1>6, UartAssumption DEF HostPoll, UartTypeOK, DriverTypes, Slots
  <2>2. DeviceTypes'
    <3>1. tx_fifo' \in Seq(Nat) /\ Len(tx_fifo') <= FifoLen
      <4>1. CASE tx_fifo = <<>>
        BY <1>6, <4>1 DEF HostPoll, UartTypeOK, DeviceTypes
      <4>2. CASE tx_fifo # <<>>
        <5>1. tx_fifo' = Tail(tx_fifo) /\ tx_fifo \in Seq(Nat) /\ FifoLen \in Nat
          BY <1>6, <4>2, UartAssumption DEF HostPoll, UartTypeOK, DeviceTypes
        <5>2. Len(tx_fifo) <= FifoLen /\ Len(tx_fifo) \in Nat
          BY DEF UartTypeOK, DeviceTypes
        <5> QED
          BY <4>2, <5>1, <5>2, FifoTypes
      <4> QED
        BY <4>1, <4>2
    <3> QED
      BY <1>6, <3>1 DEF HostPoll, UartTypeOK, DeviceTypes
  <2>3. CallTypes'
    <3>1. heard' \in Nat /\ heardLast' \in Nat
      BY <1>6, FifoTypes DEF HostPoll, UartTypeOK, DeviceTypes, CallTypes
    <3> QED
      BY <1>6, <2>0, <3>1 DEF HostPoll, UartTypeOK, CallTypes, LocalTypes
  <2>4. TxOK'
    BY <1>6, HostPollStep
  <2>5. RxOK'
    BY <1>6, RxFrame DEF HostPoll
  <2>6. Armed'
    BY <1>6 DEF HostPoll, Armed, RxArmed
  <2> QED
    BY <2>0, <2>1, <2>2, <2>3, <2>4, <2>5, <2>6 DEF UartTypeOK
<1>7. CASE HostSend
  <2>0. LocalTypes' /\ CallOK'
    <3>1. UNCHANGED <<pc, todo, done, nonblock, seen, n, j>>
      BY <1>7 DEF HostSend
    <3> QED
      BY <3>1, LocalFacts DEF LocalTypes, CallOK, Copying
  <2>1. DriverTypes'
    BY <1>7, UartAssumption DEF HostSend, UartTypeOK, DriverTypes, Slots
  <2>2. DeviceTypes'
    <3>1. sent + 1 \in Nat
      BY DEF UartTypeOK, CallTypes
    <3>2. rx_fifo' \in Seq(Nat) /\ Len(rx_fifo') <= FifoLen
      BY <1>7, <3>1, FifoTypes, UartAssumption DEF HostSend, UartTypeOK, DeviceTypes
    <3> QED
      BY <1>7, <3>2 DEF HostSend, UartTypeOK, DeviceTypes
  <2>3. CallTypes'
    BY <1>7, <2>0 DEF HostSend, UartTypeOK, CallTypes, LocalTypes
  <2>4. TxOK'
    BY <1>7, TxFrame DEF HostSend, TxOK
  <2>5. RxOK'
    BY <1>7, HostSendStep
  <2>6. Armed'
    BY <1>7 DEF HostSend, Armed, RxArmed
  <2> QED
    BY <2>0, <2>1, <2>2, <2>3, <2>4, <2>5, <2>6 DEF UartTypeOK
<1> QED
  BY <1>1, <1>2, <1>3, <1>4, <1>5, <1>6, <1>7

\* Every step keeps the invariant.
LEMMA StepInv == IInv /\ [Next]_vars => IInv'
<1> SUFFICES ASSUME IInv, [Next]_vars PROVE IInv'
  OBVIOUS
<1>1. CASE Next
  BY <1>1, IsrStep, WriteStep, ReadStep, OtherStep DEF Next, Isr, Steps, Host
<1>2. CASE UNCHANGED vars
  <2> USE <1>2 DEF IInv, vars, txRing, rxRing, state, isrVars, device, call, txCount, rxCount
  <2>1. UartTypeOK'
    BY DEF UartTypeOK, DriverTypes, DeviceTypes, CallTypes
  <2>2. CallOK' /\ Armed'
    BY DEF CallOK, Armed, RxArmed, Used
  <2>3. TxOK'
    BY TxFrame DEF TxOK
  <2>4. RxOK'
    BY RxFrame
  <2> QED
    BY <2>1, <2>2, <2>3, <2>4
<1> QED
  BY <1>1, <1>2

LEMMA Invariant == Spec => []IInv
<1>1. Init => IInv
  BY InitInv
<1>2. IInv /\ [Next]_vars => IInv'
  BY StepInv
<1> QED
  BY <1>1, <1>2, PTL DEF Spec

-----------------------------------------------------------------------------
(* The theorems *)

\* The indices stay inside the rings, the runs inside the buffers, and the
\* FIFOs of the device never overflow.
THEOREM TypeCorrect == Spec => []UartTypeOK
<1>1. IInv => UartTypeOK
  BY DEF IInv
<1> QED
  BY <1>1, Invariant, PTL

\* The receive interrupt is off only while the buffer is full or read() is
\* about to turn it on: no wake-up is lost.
THEOREM ReceiverIsArmed == Spec => []RxArmed
<1>1. IInv => RxArmed
  BY DEF IInv, Armed
<1> QED
  BY <1>1, Invariant, PTL

\* A step of the driver is a step of the pipe from write() to the host: the
\* publication of a run accepts it, a poll of the host delivers a byte.
LEMMA TxSimulates == IInv /\ [Next]_vars => [TxPipe!Next]_(TxPipe!vars)
<1> SUFFICES ASSUME IInv, [Next]_vars PROVE [TxPipe!Next]_(TxPipe!vars)
  OBVIOUS
<1> USE DEF TxPipe!vars
<1>1. CASE WPublish
  <2>1. /\ n \in Nat /\ n > 0 /\ BufLen \in Nat /\ FifoLen \in Nat /\ heard \in Nat
        /\ Len(tx_fifo) \in Nat /\ Len(tx_fifo) <= FifoLen
        /\ tx_in \in Slots /\ tx_out \in Slots
    BY <1>1, UartAssumption DEF IInv, UartTypeOK, DriverTypes, DeviceTypes, CallTypes, CallOK, Copying,
                                WPublish, CallStep, Slots
  <2>2. PICK u \in Nat : u = Used(tx_in, tx_out)
    BY <2>1, UsedRange DEF Slots
  <2>3. written = heard + Len(tx_fifo) + u /\ u + n < BufLen
    BY <1>1, <2>2 DEF IInv, TxOK, WPublish, CallStep
  <2>4. n \in 1..(BufLen - 1 + FifoLen) /\ written + n <= heard + (BufLen - 1 + FifoLen)
    BY <2>1, <2>2, <2>3
  <2>5. written' = written + n /\ UNCHANGED <<heard, heardLast>>
    BY <1>1 DEF WPublish, CallStep
  <2>6. TxPipe!Accept
    BY <2>4, <2>5 DEF TxPipe!Accept
  <2> QED
    BY <2>6 DEF TxPipe!Next
<1>2. CASE HostPoll
  <2>1. CASE tx_fifo = <<>>
    BY <1>2, <2>1 DEF HostPoll
  <2>2. CASE tx_fifo # <<>>
    <3>1. /\ heard \in Nat /\ tx_fifo \in Seq(Nat) /\ Len(tx_fifo) \in Nat
          /\ Queues(tx_fifo, heard)
      BY DEF IInv, UartTypeOK, DeviceTypes, CallTypes, TxOK
    <3>2. Head(tx_fifo) = heard + 1 /\ Len(tx_fifo) > 0
      BY <2>2, <3>1, FifoTail
    <3>3. PICK u \in Nat : u = Used(tx_in, tx_out)
      <4>1. tx_in \in Slots /\ tx_out \in Slots
        BY DEF IInv, UartTypeOK, DriverTypes
      <4> QED
        BY <4>1, UsedRange DEF Slots
    <3>4. written = heard + Len(tx_fifo) + u
      BY <3>3 DEF IInv, TxOK
    <3>5. heard < written
      BY <3>1, <3>2, <3>3, <3>4
    <3>6. heard' = heard + 1 /\ heardLast' = heard + 1 /\ written' = written
      BY <1>2, <2>2, <3>2 DEF HostPoll
    <3>7. TxPipe!Deliver
      BY <3>5, <3>6 DEF TxPipe!Deliver
    <3> QED
      BY <3>7 DEF TxPipe!Next
  <2> QED
    BY <2>1, <2>2
<1>3. CASE ~WPublish /\ ~HostPoll
  <2>1. UNCHANGED <<written, heard, heardLast>>
    BY <1>3 DEF Next, vars, txCount, Isr, Steps, Host, Service, RxByte, RxDone, TxByte, TxDone,
                Alarm, WLook, WCopy, WKick, WSpin, WCheck, RLook, RCopy, RPublish, RSpin, RKick,
                Close, CallStep, StartWrite, StartRead, StartClose, Start, SetTimeout, HostSend
  <2> QED
    BY <2>1
<1> QED
  BY <1>1, <1>2, <1>3

\* Every byte written reaches the host once and in order.
THEOREM ConsoleWritesInOrder == Spec => TxInOrder
<1>1. Init => TxPipe!Init
  BY DEF Init, TxPipe!Init
<1>2. IInv /\ [Next]_vars => [TxPipe!Next]_(TxPipe!vars)
  BY TxSimulates
<1> QED
  BY <1>1, <1>2, Invariant, PTL DEF Spec, TxInOrder, TxPipe!Spec

\* A step of the driver is a step of the pipe from the host to read(): the
\* host's byte is accepted, a byte copied is delivered.
LEMMA RxSimulates == IInv /\ [Next]_vars => [RxPipe!Next]_(RxPipe!vars)
<1> SUFFICES ASSUME IInv, [Next]_vars PROVE [RxPipe!Next]_(RxPipe!vars)
  OBVIOUS
<1> USE DEF RxPipe!vars
<1>1. /\ BufLen \in Nat /\ BufLen > 1 /\ FifoLen \in Nat /\ sent \in Nat /\ got \in Nat
      /\ Len(rx_fifo) \in Nat /\ Len(rx_fifo) <= FifoLen /\ j \in Nat /\ n \in Nat
      /\ rx_in \in Slots /\ rx_out \in Slots
  BY UartAssumption DEF IInv, UartTypeOK, DriverTypes, DeviceTypes, CallTypes, Slots
<1>2. PICK u \in Nat, b \in Nat : u = Used(rx_in, rx_out) /\ u < BufLen /\ b = RxBase
  BY <1>1, UsedRange DEF Slots, IInv, RxOK
<1>3. sent = b + u + Len(rx_fifo)
  BY <1>2 DEF IInv, RxOK
<1>4. CASE HostSend
  <2>1. Len(rx_fifo) < FifoLen /\ sent' = sent + 1 /\ UNCHANGED <<got, gotLast>>
    BY <1>4 DEF HostSend
  <2>2. b <= got
    BY <1>1, <1>2 DEF RxBase
  <2>3. sent + 1 <= got + (BufLen - 1 + FifoLen) /\ 1 \in 1..(BufLen - 1 + FifoLen)
    BY <1>1, <1>2, <1>3, <2>1, <2>2
  <2>4. RxPipe!Accept
    BY <2>1, <2>3 DEF RxPipe!Accept
  <2> QED
    BY <2>4 DEF RxPipe!Next
<1>5. CASE RCopy
  <2>1. b = got - j /\ n <= u /\ j < n
    BY <1>2, <1>5 DEF RCopy, CallStep, IInv, RxOK, RxBase, CallOK
  <2>2. got < sent
    BY <1>1, <1>2, <1>3, <2>1
  <2>3. got' = got + 1 /\ gotLast' = got + 1 /\ sent' = sent
    BY <1>5, RCopyStep DEF RCopy, CallStep, RxOK
  <2>4. RxPipe!Deliver
    BY <2>2, <2>3 DEF RxPipe!Deliver
  <2> QED
    BY <2>4 DEF RxPipe!Next
<1>6. CASE ~HostSend /\ ~RCopy
  <2>1. UNCHANGED <<sent, got, gotLast>>
    BY <1>6 DEF Next, vars, rxCount, Isr, Steps, Host, Service, RxByte, RxDone, TxByte, TxDone,
                Alarm, WLook, WCopy, WPublish, WKick, WSpin, WCheck, RLook, RPublish, RSpin, RKick,
                Close, CallStep, StartWrite, StartRead, StartClose, Start, SetTimeout, HostPoll
  <2> QED
    BY <2>1
<1> QED
  BY <1>4, <1>5, <1>6

\* Every byte the host sends is read once and in order.
THEOREM ConsoleReadsInOrder == Spec => RxInOrder
<1>1. Init => RxPipe!Init
  BY DEF Init, RxPipe!Init
<1>2. IInv /\ [Next]_vars => [RxPipe!Next]_(RxPipe!vars)
  BY RxSimulates
<1> QED
  BY <1>1, <1>2, Invariant, PTL DEF Spec, RxInOrder, RxPipe!Spec

-----------------------------------------------------------------------------
(* Why the calls return and the buffer drains: what needs no fairness      *)

\* The counterpart of RxArmed: with bytes in the buffer the transmit interrupt
\* is on, or write() is on its way to turn it on.
TxArmed ==
    "WE" \notin control => tx_in = tx_out \/ pc \in {"wlook", "wcopy", "wpublish", "wkick"}

\* The index that a spinning call compares with is that of a full buffer, or of
\* an empty one.
SeenFull  == (pc = "wspin" \/ (pc = "wkick" /\ todo > 0)) => Used(tx_in, seen) = BufLen - 1
SeenEmpty == pc = "rspin" => seen = rx_out

WInv == TxArmed /\ SeenFull /\ SeenEmpty

LEMMA NoRoom ==
  ASSUME NEW out \in Slots, tx_in \in Slots, ~(Room(out) > 0)
  PROVE  Used(tx_in, out) = BufLen - 1
  BY UartAssumption DEF Room, Used, Slots

LEMMA WaitStep == IInv /\ WInv /\ [Next]_vars => WInv'
<1> SUFFICES ASSUME IInv, WInv, [Next]_vars PROVE WInv'
  OBVIOUS
<1> USE DEF WInv, TxArmed, SeenFull, SeenEmpty, Used
<1>1. control = irq_enable
  BY DEF IInv, Armed
<1>2. CASE UNCHANGED <<pc, todo, seen, tx_in, rx_out, tx_out>> /\ ("WE" \in control => "WE" \in control')
  BY <1>2
<1>3. CASE Service \/ RxByte \/ SetTimeout \/ Host \/ UNCHANGED vars
  <2>1. UNCHANGED <<pc, todo, seen, tx_in, rx_out, tx_out, control>>
    BY <1>3 DEF Service, RxByte, SetTimeout, Host, HostPoll, HostSend, vars,
                txRing, rxRing, state, isrVars, device, call
  <2> QED
    BY <1>2, <2>1
<1>4. CASE RxDone
  BY <1>1, <1>2, <1>4 DEF RxDone, Disable, txRing, rxRing, call
<1>5. CASE Alarm
  BY <1>1, <1>2, <1>5 DEF Alarm, txRing, rxRing, call
<1>6. CASE TxByte
  <2>1. UNCHANGED <<pc, todo, seen, tx_in, rx_out, control>> /\ tx_in # tx_out
    BY <1>6 DEF TxByte, rxRing, call
  <2> QED
    BY <2>1
<1>7. CASE TxDone
  <2>1. UNCHANGED <<pc, todo, seen, tx_in, tx_out, rx_out>>
    BY <1>7 DEF TxDone, txRing, rxRing, call
  <2>2. CASE space > 0
    BY <1>7, <2>1, <2>2, UartAssumption DEF TxDone, IInv, UartTypeOK, DeviceTypes
  <2>3. CASE ~(space > 0)
    BY <1>7, <2>1, <2>3 DEF TxDone
  <2> QED
    BY <2>2, <2>3
<1>8. CASE StartWrite \/ StartRead \/ StartClose
  <2>1. UNCHANGED <<tx_in, tx_out, rx_out, control>> /\ pc = "idle" /\ pc' \in {"wlook", "rlook", "close"}
    BY <1>8 DEF StartWrite, StartRead, StartClose, Start, txRing, rxRing, device
  <2> QED
    BY <2>1
<1>9. CASE WLook
  <2>1. UNCHANGED <<tx_in, tx_out, rx_out, control, todo>> /\ pc' \in {"wkick", "wcopy"} /\ seen' = tx_out
        /\ (pc' = "wkick" => Least(Room(tx_out), todo) = 0)
    BY <1>9 DEF WLook, txRing, rxRing
  <2>2. pc' = "wkick" /\ todo > 0 => ~(Room(tx_out) > 0)
    <3>1. todo \in Nat
      BY DEF IInv, UartTypeOK, CallTypes
    <3> QED
      BY <2>1, <3>1 DEF Least
  <2>3. tx_in \in Slots /\ tx_out \in Slots
    BY DEF IInv, UartTypeOK, DriverTypes
  <2>4. pc' = "wkick" /\ todo > 0 => Used(tx_in, tx_out) = BufLen - 1
    BY <2>2, <2>3, NoRoom
  <2> QED
    BY <2>1, <2>4
<1>10. CASE WCopy \/ WPublish
  BY <1>10 DEF WCopy, WPublish, rxRing
<1>11. CASE WKick
  <2>1. "WE" \in control' /\ UNCHANGED <<tx_in, tx_out, rx_out>>
    BY <1>11 DEF WKick, Enable, txRing, rxRing
  <2>2. pc' \in {"wspin", "idle"} /\ (pc' = "wspin" => todo > 0 /\ UNCHANGED <<todo, seen>>)
    BY <1>11 DEF WKick, Goto, Return, locals
  <2>3. pc = "wkick"
    BY <1>11 DEF WKick, CallStep
  <2> QED
    BY <2>1, <2>2, <2>3
<1>12. CASE WSpin \/ WCheck \/ Close
  <2>1. UNCHANGED <<tx_in, tx_out, rx_out, control>> /\ pc \in {"wspin", "wcheck", "close"}
    BY <1>12 DEF WSpin, WCheck, Close, CallStep, txRing, rxRing
  <2>2. pc' \in {"wcheck", "wlook", "idle"}
    BY <1>12 DEF WSpin, WCheck, Close, Goto, Return
  <2> QED
    BY <2>1, <2>2
<1>13. CASE RLook \/ RCopy \/ RPublish \/ RSpin \/ RKick
  <2>1. UNCHANGED <<tx_in, tx_out>> /\ pc \in ReadPc /\ ("WE" \in control => "WE" \in control')
    BY <1>1, <1>13 DEF RLook, RCopy, RPublish, RSpin, RKick, CallStep, ReadPc, Enable, txRing
  <2>2. pc' \in {"idle", "rlook", "rcopy", "rpublish", "rspin", "rkick"}
    BY <1>13 DEF RLook, RCopy, RPublish, RSpin, RKick, Goto, Return
  <2>3. pc' = "rspin" => seen' = rx_out'
    <3>1. CASE RLook
      <4>1. rx_out' = rx_out
        BY <3>1 DEF RLook, rxRing
      <4>2. rx_in \in Slots /\ rx_out \in Slots
        BY DEF IInv, UartTypeOK, DriverTypes
      <4>3. pc' = "rspin" => ~(Ready(rx_in) > 0) /\ seen' = rx_in
        BY <3>1 DEF RLook, Goto, Return
      <4>4. ~(Ready(rx_in) > 0) => rx_in = rx_out
        BY <4>2, UartAssumption DEF Ready, Slots
      <4> QED
        BY <4>1, <4>3, <4>4
    <3>2. CASE ~RLook
      BY <1>13, <3>2 DEF RCopy, RPublish, RSpin, RKick, Goto, Return
    <3> QED
      BY <3>1, <3>2
  <2> QED
    BY <2>1, <2>2, <2>3 DEF ReadPc
<1> QED
  BY <1>3, <1>4, <1>5, <1>6, <1>7, <1>8, <1>9, <1>10, <1>11, <1>12, <1>13 DEF Next, Isr, Steps

\* What a call waits for has not happened yet, and the interrupt that will bring
\* it is on: a full buffer drains under write() and close(), an empty one fills
\* under read().  In particular the index never comes back to the value that the
\* loop compares with while the loop is not looking.
NoVainWait ==
    /\ pc = "wspin" /\ seen = tx_out => Used(tx_in, tx_out) = BufLen - 1 /\ "WE" \in control
    /\ pc = "close" /\ tx_out # tx_in => "WE" \in control
    /\ pc = "rspin" /\ seen = rx_in => rx_in = rx_out /\ "RE" \in control

LEMMA WaitInvariant == Spec => [](IInv /\ WInv)
<1>1. Init => WInv
  BY DEF Init, WInv, TxArmed, SeenFull, SeenEmpty
<1>2. (IInv /\ WInv) /\ [Next]_vars => (IInv /\ WInv)'
  BY StepInv, WaitStep
<1> QED
  BY <1>1, <1>2, InitInv, PTL DEF Spec

\* No byte is left in the buffer without an interrupt to send it
\* (altera_avalon_jtag_uart_write.c, the two places that set WE in irq_enable,
\* against the interrupt routine of altera_avalon_jtag_uart_init.c).
THEOREM TransmitterIsArmed == Spec => []TxArmed
<1>1. IInv /\ WInv => TxArmed
  BY DEF WInv
<1> QED
  BY <1>1, WaitInvariant, PTL

\* The loops on tx_out and rx_in wait for nothing that has already happened or
\* cannot happen.
THEOREM WaitsAreNotInVain == Spec => []NoVainWait
<1>1. IInv /\ WInv => NoVainWait
  <2> SUFFICES ASSUME IInv, WInv PROVE NoVainWait
    OBVIOUS
  <2>1. /\ tx_in \in Slots /\ tx_out \in Slots /\ rx_in \in Slots /\ rx_out \in Slots /\ seen \in Slots
        /\ BufLen \in Nat /\ BufLen > 1
    BY UartAssumption DEF IInv, UartTypeOK, DriverTypes, CallTypes
  <2>2. \A i \in Slots : Used(i, i) # BufLen - 1
    BY <2>1 DEF Used, Slots
  <2>3. pc = "wspin" /\ seen = tx_out => Used(tx_in, tx_out) = BufLen - 1 /\ "WE" \in control
    BY <2>1, <2>2 DEF WInv, SeenFull, TxArmed
  <2>4. pc = "close" /\ tx_out # tx_in => "WE" \in control
    BY DEF WInv, TxArmed
  <2>5. pc = "rspin" /\ seen = rx_in => rx_in = rx_out /\ "RE" \in control
    BY <2>1, <2>2 DEF WInv, SeenEmpty, IInv, Armed, RxArmed
  <2> QED
    BY <2>3, <2>4, <2>5 DEF NoVainWait
<1> QED
  BY <1>1, WaitInvariant, PTL

\* Between the program and the host there are never more bytes than the ring
\* and the FIFO of the direction hold, and the byte delivered last is the one
\* whose turn it was.
InTransit ==
    /\ heard <= written /\ written <= heard + (BufLen - 1 + FifoLen) /\ heardLast = heard
    /\ got <= sent /\ sent <= got + (BufLen - 1 + FifoLen) /\ gotLast = got

LEMMA Sums ==
  ASSUME NEW r \in Nat, NEW f \in Nat, NEW u \in 0..(r - 1), NEW l \in 0..f,
         NEW from \in Nat, NEW out \in Nat, from <= out, out <= from + u
  PROVE  /\ out <= from + u + l /\ from + u + l <= out + (r - 1 + f)
         /\ from <= from + l + u /\ from + l + u <= from + (r - 1 + f)
  OBVIOUS

\* No byte is overwritten in a ring or lost at a full FIFO, in either direction.
THEOREM NothingIsLost == Spec => []InTransit
<1>1. IInv => InTransit
  <2> SUFFICES ASSUME IInv PROVE InTransit
    OBVIOUS
  <2>1. /\ tx_in \in Slots /\ tx_out \in Slots /\ rx_in \in Slots /\ rx_out \in Slots
        /\ BufLen \in Nat /\ FifoLen \in Nat /\ heard \in Nat /\ got \in Nat /\ j \in Nat
        /\ Len(tx_fifo) \in 0..FifoLen /\ Len(rx_fifo) \in 0..FifoLen
    BY UartAssumption DEF IInv, UartTypeOK, DriverTypes, DeviceTypes, CallTypes, Slots
  <2>2. PICK u \in Slots, v \in Slots : u = Used(tx_in, tx_out) /\ v = Used(rx_in, rx_out)
    BY <2>1, UsedRange
  <2>3. PICK b \in Nat : b = RxBase
    BY DEF IInv, RxOK
  <2>4. b <= got /\ got <= b + v
    <3>1. CASE pc \in {"rcopy", "rpublish"}
      <4>1. b = got - j /\ n <= v /\ j <= n /\ n \in Nat
        BY <2>2, <2>3, <3>1 DEF RxBase, IInv, RxOK, CallOK, UartTypeOK, CallTypes, Slots
      <4> QED
        BY <2>1, <2>2, <4>1 DEF Slots
    <3>2. CASE pc \notin {"rcopy", "rpublish"}
      BY <2>1, <2>2, <2>3, <3>2 DEF RxBase, Slots
    <3> QED
      BY <3>1, <3>2
  <2>5. written = heard + Len(tx_fifo) + u /\ sent = b + v + Len(rx_fifo)
    BY <2>2, <2>3 DEF IInv, TxOK, RxOK
  <2>6. u \in 0..(BufLen - 1) /\ v \in 0..(BufLen - 1)
    BY <2>2 DEF Slots
  <2>7. /\ heard <= heard + Len(tx_fifo) + u
        /\ heard + Len(tx_fifo) + u <= heard + (BufLen - 1 + FifoLen)
    <3>1. heard <= heard /\ heard <= heard + u
      BY <2>1, <2>6
    <3> QED
      BY <2>1, <2>6, <3>1, Sums
  <2>8. /\ got <= b + v + Len(rx_fifo)
        /\ b + v + Len(rx_fifo) <= got + (BufLen - 1 + FifoLen)
    BY <2>1, <2>4, <2>6, Sums
  <2>9. heardLast = heard /\ gotLast = got
    BY DEF IInv, TxOK, RxOK
  <2> QED
    BY <2>5, <2>7, <2>8, <2>9, Zenon DEF InTransit
<1> QED
  BY <1>1, Invariant, PTL

=============================================================================
