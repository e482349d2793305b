------------------------------ MODULE Transfer ------------------------------
(***************************************************************************)
(* Transfers of the USB host: XferDispatchPkt, XferInTransfer, XferCtrlReq *)
(* of transfer.c and the polling of HID.c, against a device that is not    *)
(* always ready and a wire that loses packets and acknowledgements.        *)
(*                                                                         *)
(* Launch writes rHXFR; the chip carries the packet out (Transact) and     *)
(* raises HXFRDN; the program then looks at the result and repeats the     *)
(* packet, goes on to the next one, or returns.  Data are numbers: report  *)
(* i of the interrupt endpoint (modulo Reports), packet i of a request.    *)
(* A receive toggle is 0 or 1, where the code has bmRCVTOG0 and bmRCVTOG1. *)
(*                                                                         *)
(* Chip and device are modelled from how the code uses them: HRSL reports  *)
(* a packet with the wrong toggle as an error and discards it, a packet    *)
(* with the right one flips RCVTOGRD and sets RCVDAV.                      *)
(***************************************************************************)
EXTENDS Integers, Sequences

CONSTANTS
  NakLimit,     \* USB_NAK_LIMIT
  RetryLimit,   \* USB_RETRY_LIMIT
  MaxPackets,   \* bound: data packets of a control request
  Reports       \* bound: reports are numbered modulo this

ASSUME TransferAssumption ==
  /\ {NakLimit, RetryLimit, MaxPackets} \subseteq Nat \ {0}
  /\ NakLimit < 256 /\ RetryLimit < 128
  /\ Reports \in Nat /\ Reports > 2

Endpoints == {0, 1}   \* hid_ep[0] is the control, hid_ep[1] the interrupt one
Nothing == -1         \* an empty receive FIFO

VARIABLES
  stage,        \* what the packet under way belongs to
  done,         \* HXFRDNIRQ
  packets,      \* packets the transfer asks for (nbytes)
  data,         \* what was read from the FIFO in this transfer (xfrlen)
  nak_count, retry_count,
  rcvToggle,    \* epinfo[ep].rcvToggle
  hrsl,         \* result code in rHRSL
  rcvtog,       \* toggle the chip expects, RCVTOGRD
  fifo,         \* rRCVFIFO; RCVDAVIRQ is set when it is not empty
  toggle,       \* device: toggle of each endpoint
  report,       \* device: first report that was not acknowledged
  packet,       \* device: next packet of the control request
  length,       \* device: packets the request asked for
  shown         \* history: reports handed to setKeycode, modulo Reports

program == <<stage, packets, data, nak_count, retry_count, rcvToggle>>
chip    == <<done, hrsl, rcvtog, fifo>>
gadget  == <<toggle, report, packet, length>>
vars    == <<program, chip, gadget, shown>>

-----------------------------------------------------------------------------
(* The program.                                                            *)

\* Write rHXFR for stage s with fresh counters: a call of XferDispatchPkt.
Launch(s) ==
  /\ stage' = s /\ done' = FALSE
  /\ nak_count' = 0 /\ retry_count' = 0

\* XferInTransfer writes the endpoint's toggle to rHCTL before its first packet.
SetToggle(ep) == rcvtog' = rcvToggle'[ep]

\* kbdPoll: one report of eight bytes, one packet.
StartPoll ==
  /\ stage = "idle"
  /\ Launch("report") /\ packets' = 1 /\ data' = <<>>
  /\ UNCHANGED rcvToggle /\ SetToggle(1)
  /\ UNCHANGED <<hrsl, fifo, gadget, shown>>

\* XferCtrlReq: the setup packet.
StartControl(n) ==
  /\ stage = "idle"
  /\ Launch("setup") /\ packets' = n /\ data' = <<>>
  /\ UNCHANGED <<rcvToggle, hrsl, rcvtog, fifo, gadget, shown>>

\* XferDispatchPkt, with the interrupt flag set: repeat the packet after a NAK
\* or a bus timeout, as long as neither counter is at its limit.
\* Plausible bug: NAKs are not counted.
NakAgain_Unlimited == hrsl = "NAK" /\ UNCHANGED <<nak_count, retry_count>>

NakAgain ==
  hrsl = "NAK" /\ nak_count + 1 # NakLimit
    /\ nak_count' = nak_count + 1 /\ UNCHANGED retry_count
TimeoutAgain ==
  hrsl = "TIMEOUT" /\ retry_count + 1 # RetryLimit
    /\ retry_count' = retry_count + 1 /\ UNCHANGED nak_count

Repeat ==
  /\ stage # "idle" /\ done
  /\ NakAgain \/ TimeoutAgain
  /\ done' = FALSE
  /\ UNCHANGED <<stage, packets, data, rcvToggle, hrsl, rcvtog, fifo, gadget,
                 shown>>

\* The result code is an error that ends the transfer.
GivesUp ==
  \/ hrsl = "TOGERR"
  \/ hrsl = "NAK" /\ nak_count + 1 = NakLimit
  \/ hrsl = "TIMEOUT" /\ retry_count + 1 = RetryLimit

\* The transfer returns to its caller.
Return ==
  /\ stage' = "idle" /\ done' = FALSE
  /\ nak_count' = 0 /\ retry_count' = 0

Fail ==
  /\ stage # "idle" /\ done /\ GivesUp
  /\ Return
  /\ UNCHANGED <<packets, data, rcvToggle, hrsl, rcvtog, fifo, gadget, shown>>

\* USB_XFER_TIMEOUT is over before the chip reports the packet: rcode 0xff.
\* The packet is taken to have gone nowhere.
Expire ==
  /\ stage # "idle" /\ ~done
  /\ Return
  /\ UNCHANGED <<packets, data, rcvToggle, hrsl, rcvtog, fifo, gadget, shown>>

\* Plausible bug: the result of the setup packet is not looked at.
SetupAccepted_Blindly == stage = "setup" /\ done

SetupAccepted == stage = "setup" /\ done /\ hrsl = "SUCCESS"

\* XferCtrlData sets the toggle to DATA1 and reads; XferCtrlND has no data.
AfterSetup ==
  /\ SetupAccepted
  /\ IF packets > 0
     THEN /\ Launch("data")
          /\ rcvToggle' = [rcvToggle EXCEPT ![0] = 1] /\ SetToggle(0)
     ELSE Launch("status") /\ UNCHANGED <<rcvToggle, rcvtog>>
  /\ UNCHANGED <<packets, data, hrsl, fifo, gadget, shown>>

\* XferInTransfer has a packet (success without one, 0xf0, is not something
\* this chip reports): it is read and RCVDAVIRQ cleared, and either
\* the next one is launched or the transfer is complete and saves the toggle.
Endpoint == IF stage = "report" THEN 1 ELSE 0
Read ==
  /\ stage \in {"report", "data"} /\ done /\ hrsl = "SUCCESS"
  /\ fifo # Nothing
  /\ data' = Append(data, fifo) /\ fifo' = Nothing

ReadMore ==
  /\ Read /\ Len(data') < packets
  /\ Launch(stage)
  /\ UNCHANGED <<packets, rcvToggle, hrsl, rcvtog, gadget, shown>>

SaveToggle == rcvToggle' = [rcvToggle EXCEPT ![Endpoint] = rcvtog]

ReadLast ==
  /\ Read /\ Len(data') >= packets
  /\ SaveToggle
  /\ IF stage = "data"
     THEN Launch("status") /\ UNCHANGED shown
     ELSE Return /\ shown' = (shown + 1) % Reports
  /\ UNCHANGED <<packets, hrsl, rcvtog, gadget>>

AfterStatus ==
  /\ stage = "status" /\ done /\ hrsl = "SUCCESS"
  /\ Return
  /\ UNCHANGED <<packets, data, rcvToggle, hrsl, rcvtog, fifo, gadget, shown>>

\* The device is probed again: HID_init, and SET_CONFIGURATION resets it.
\* Plausible bug: HID_init leaves the toggle as it was.
HID_init_Forgets == UNCHANGED rcvToggle
HID_init == rcvToggle' = [rcvToggle EXCEPT ![1] = 0]
Reconfigure ==
  /\ stage = "idle"
  /\ HID_init
  /\ toggle' = [toggle EXCEPT ![1] = 0] /\ report' = shown
  /\ UNCHANGED <<stage, packets, data, nak_count, retry_count, chip, packet,
                 length, shown>>

-----------------------------------------------------------------------------
(* The chip and the device carry the launched packet out.                  *)

Busy == stage # "idle" /\ ~done

\* The device's answer does not come, or says that it is not ready.
NoAnswer ==
  /\ Busy /\ done' = TRUE
  /\ hrsl' \in {"TIMEOUT"} \cup (IF stage = "setup" THEN {} ELSE {"NAK"})
  /\ UNCHANGED <<program, rcvtog, fifo, gadget, shown>>

\* A setup packet resets the device's control endpoint; the device may take
\* it although its acknowledgement is lost.
TakeSetup ==
  /\ Busy /\ stage = "setup" /\ done' = TRUE
  /\ hrsl' \in {"SUCCESS", "TIMEOUT"}
  /\ toggle' = [toggle EXCEPT ![0] = 1] /\ packet' = 0 /\ length' = packets
  /\ UNCHANGED <<program, rcvtog, fifo, report, shown>>

TakeStatus ==
  /\ Busy /\ stage = "status" /\ done' = TRUE
  /\ hrsl' = "SUCCESS"
  /\ UNCHANGED <<program, rcvtog, fifo, gadget, shown>>

\* The device sends its oldest unacknowledged packet of the endpoint, and goes
\* on to the next one if the acknowledgement arrives.
Send(acked) ==
  /\ Busy /\ stage \in {"report", "data"} /\ done' = TRUE
  /\ stage = "data" => packet < length
  /\ IF toggle[Endpoint] = rcvtog
     THEN /\ hrsl' = "SUCCESS" /\ rcvtog' = 1 - rcvtog
          /\ fifo' = IF stage = "report" THEN report ELSE packet
     ELSE hrsl' = "TOGERR" /\ UNCHANGED <<rcvtog, fifo>>
  /\ IF acked
     THEN /\ toggle' = [toggle EXCEPT ![Endpoint] = 1 - @]
          /\ IF stage = "report"
             THEN report' = (report + 1) % Reports /\ UNCHANGED <<packet, length>>
             ELSE packet' = packet + 1 /\ UNCHANGED <<report, length>>
     ELSE UNCHANGED gadget
  /\ UNCHANGED <<program, shown>>

-----------------------------------------------------------------------------
Init ==
  /\ stage = "idle" /\ done = FALSE /\ packets = 0 /\ data = <<>>
  /\ nak_count = 0 /\ retry_count = 0
  /\ rcvToggle = [ep \in Endpoints |-> 0]
  /\ hrsl = "SUCCESS" /\ rcvtog = 0 /\ fifo = Nothing
  /\ toggle = [ep \in Endpoints |-> 0]
  /\ report = 0 /\ packet = 0 /\ length = 0 /\ shown = 0

Transact ==
  NoAnswer \/ TakeSetup \/ TakeStatus \/ \E acked \in BOOLEAN : Send(acked)

Continue == Repeat \/ Fail \/ AfterSetup \/ ReadMore \/ ReadLast \/ AfterStatus

Next ==
  \/ StartPoll
  \/ \E n \in 0 .. MaxPackets : StartControl(n)
  \/ Continue \/ Expire \/ Reconfigure \/ Transact

Spec == Init /\ [][Next]_vars

\* The program does not stop within a transfer; the chip finishes every packet.
Fairness == WF_vars(Continue) /\ WF_vars(Transact)

-----------------------------------------------------------------------------
(* Properties.                                                             *)

ProgramTypes ==
  /\ stage \in {"idle", "report", "setup", "data", "status"}
  /\ packets \in 0 .. MaxPackets /\ data \in Seq(Nat) /\ Len(data) <= MaxPackets
  /\ nak_count \in 0 .. NakLimit - 1 /\ retry_count \in 0 .. RetryLimit - 1
  /\ rcvToggle \in [Endpoints -> {0, 1}]
  /\ shown \in 0 .. Reports - 1

ChipTypes ==
  /\ done \in BOOLEAN /\ hrsl \in {"SUCCESS", "NAK", "TIMEOUT", "TOGERR"}
  /\ rcvtog \in {0, 1} /\ fifo \in Nothing .. MaxPackets + Reports

GadgetTypes ==
  /\ toggle \in [Endpoints -> {0, 1}] /\ report \in 0 .. Reports - 1
  /\ packet \in 0 .. MaxPackets /\ length \in 0 .. MaxPackets

\* The type invariant: the counters stay below their limits, and what a
\* transfer has read fits into the buffer of its caller.
TransferTypeOK == ProgramTypes /\ ChipTypes /\ GadgetTypes

\* Every report reaches setKeycode once and in order: the one handed over is
\* the next one, whatever was lost, repeated or given up before, and with
\* control requests in between that use the chip's one toggle.
InOrder == [][shown' # shown => fifo = shown]_vars

\* A control request that ends well has read all packets of its own answer, in
\* order, none of them a packet of an earlier request that was given up.
CtrlIntact == [][AfterStatus => data = [i \in 1 .. packets |-> i - 1]]_vars

\* A transfer returns, even from a device that answers nothing but NAK and
\* bus timeouts in any mixture.
Returns == stage # "idle" ~> stage = "idle"
=============================================================================
