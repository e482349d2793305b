-------------------------------- MODULE Spi --------------------------------
(***************************************************************************)
(* How the program reaches the MAX3421E: MAXreg_wr, MAXreg_rd, MAXbytes_wr *)
(* and MAXbytes_rd of MAX3421E.c on alt_avalon_spi_command, the polled     *)
(* driver of the SPI core.                                                 *)
(*                                                                         *)
(* All four make two calls of the driver: the command byte, which leaves   *)
(* the chip selected (MERGE), and then n bytes of data, one for a register *)
(* and a packet for a FIFO.  SPI is full duplex: the chip answers each     *)
(* byte it is sent, its status for the command byte and its data after it. *)
(* Bytes are numbers: 0 is the command and the status, 1 to n the data; a  *)
(* byte clocked out only to read one is Filler.                            *)
(*                                                                         *)
(* The core, external, has one register and one shift register to send and *)
(* one register to receive, in which a byte overwrites an unread one.      *)
(***************************************************************************)
EXTENDS Integers, Sequences

CONSTANTS
    Lengths,    \* bytes of data of a call
    MaxPacket   \* maxpktsize of the endpoint

ASSUME SpiAssumption == Lengths \subseteq Nat /\ MaxPacket \in Nat

VARIABLES
    pc,                      \* where the driver is; "idle" outside a call
    dir, n,                  \* the call: "read" or "write", bytes of data
    command,                 \* the call of the driver: 1 for the command byte
    left, write_zeros, read_ignore, credits, got,  \* its variables
    status,                  \* its copy of TRDY and RRDY
    sso, tx, shift, rx,      \* the core
    frame                    \* bytes the chip was sent since it was selected

call   == <<dir, n, command>>
driver == <<left, write_zeros, read_ignore, credits, got, status>>
core   == <<sso, tx, shift, rx>>
vars   == <<pc, call, driver, core, frame>>

Empty  == -1
Filler == -2
Stale  == -3

\* write_length, read_length and the flag of the two calls of the driver.
\* Mutant: the command byte is not merged with the data.
Merge_Never == FALSE
Merge == command = 1
WriteLength == IF command = 1 THEN 1 ELSE IF dir = "write" THEN n ELSE 0
ReadLength  == IF command = 2 /\ dir = "read" THEN n ELSE 0

\* After a restart a byte that nobody read may be left in RXDATA.
Init ==
    /\ pc = "idle" /\ dir = "read" /\ n = 0 /\ command = 1
    /\ left = 0 /\ write_zeros = 0 /\ read_ignore = 0 /\ credits = 1
    /\ got = <<>> /\ status = {}
    /\ sso = FALSE /\ tx = Empty /\ shift = Empty /\ rx \in {Empty, Stale}
    /\ frame = <<>>

\* MAXreg_rd, MAXreg_wr (one byte), MAXbytes_rd, MAXbytes_wr.
Call ==
    /\ pc = "idle" /\ pc' = "begin"
    /\ dir' \in {"read", "write"} /\ n' \in Lengths /\ command' = 1
    /\ UNCHANGED <<driver, core, frame>>

\* RXDATA is read once, for what an interrupted call left there; mutant: it
\* is not.
Discarded_Not == rx
Discarded == Empty

Begin ==
    /\ pc = "begin" /\ pc' = "poll"
    /\ left' = WriteLength /\ read_ignore' = WriteLength
    /\ write_zeros' = ReadLength /\ got' = <<>>
    /\ credits' = 1
    /\ sso' = TRUE /\ rx' = Discarded
    /\ frame' = IF sso THEN frame ELSE <<>>
    /\ UNCHANGED <<call, status, tx, shift>>

TRDY == tx = Empty
RRDY == rx # Empty
TMT  == tx = Empty /\ shift = Empty

\* The program leaves the inner loop with the status it read.
Poll ==
    /\ pc = "poll" /\ pc' = "send"
    /\ (TRDY /\ credits # 0) \/ RRDY
    /\ status' = (IF TRDY THEN {"TRDY"} ELSE {}) \cup (IF RRDY THEN {"RRDY"} ELSE {})
    /\ UNCHANGED <<call, left, write_zeros, read_ignore, credits, got, core, frame>>

\* The k-th byte of the data counts up; the one of the command is 0.
NextByte == IF command = 1 THEN 0 ELSE n - left + 1

MaySend == "TRDY" \in status /\ credits > 0

Put(byte) == tx' = byte /\ credits' = credits - 1

Send ==
    /\ pc = "send" /\ pc' = "receive"
    /\ IF MaySend
       THEN IF left > 0
            THEN Put(NextByte) /\ left' = left - 1 /\ UNCHANGED write_zeros
            ELSE IF write_zeros > 0
            THEN Put(Filler) /\ write_zeros' = write_zeros - 1 /\ UNCHANGED left
            ELSE credits' = -1024 /\ UNCHANGED <<left, write_zeros, tx>>
       ELSE UNCHANGED <<left, write_zeros, credits, tx>>
    /\ UNCHANGED <<call, read_ignore, got, status, sso, shift, rx, frame>>

\* All answers are in, the ignored ones too; mutant: one more is waited for.
Complete_OneMore(ignored, read) == ignored = 0 /\ read > ReadLength
Complete(ignored, read) == ignored = 0 /\ read = ReadLength

Receive ==
    /\ pc = "receive"
    /\ IF "RRDY" \notin status
       THEN pc' = "poll" /\ UNCHANGED <<read_ignore, got, credits, rx>>
       ELSE /\ rx' = Empty /\ credits' = credits + 1
            /\ IF read_ignore = 0
               THEN got' = Append(got, rx) /\ UNCHANGED read_ignore
               ELSE read_ignore' = read_ignore - 1 /\ UNCHANGED got
            /\ pc' = IF Complete(read_ignore', Len(got')) THEN "drain" ELSE "poll"
    /\ UNCHANGED <<call, left, write_zeros, status, sso, tx, shift, frame>>

\* The transmitter is empty: the chip stays selected for the second call.
Finish ==
    /\ pc = "drain" /\ TMT
    /\ sso' = Merge
    /\ IF command = 1
       THEN pc' = "begin" /\ command' = 2
       ELSE pc' = "idle" /\ command' = 1
    /\ UNCHANGED <<dir, n, driver, tx, shift, rx, frame>>

-----------------------------------------------------------------------------
(* The core and the chip. *)

Load ==
    /\ tx # Empty /\ shift = Empty
    /\ shift' = tx /\ tx' = Empty
    /\ UNCHANGED <<pc, call, driver, sso, rx, frame>>

\* Eight clocks: the chip has the byte, and the core the chip's answer, whose
\* number is that of the bytes before it.
Exchange ==
    /\ shift # Empty /\ shift' = Empty
    /\ frame' = Append(frame, shift)
    /\ rx' = Len(frame)
    /\ UNCHANGED <<pc, call, driver, sso, tx>>

Program == Begin \/ Poll \/ Send \/ Receive \/ Finish
Next == Call \/ Program \/ Load \/ Exchange
Spec == Init /\ [][Next]_vars

\* The program does not stop within a call; the core's clock runs.
FairSpec == Spec /\ WF_vars(Program) /\ WF_vars(Load) /\ WF_vars(Exchange)

-----------------------------------------------------------------------------

Count(k) == [i \in 1..k |-> i]

\* The chip is deselected when it has had the command and exactly the data of
\* the call, in order and in one selection.
WholeFrame ==
    [][sso /\ ~sso' => frame = <<0>> \o (IF dir = "write" THEN Count(n)
                                         ELSE [i \in 1..n |-> Filler])]_vars

\* What a read hands to its caller are the chip's answers to the filler bytes:
\* not its status, nor a byte of an earlier call.
ReadsAnswers == [][pc = "drain" /\ pc' = "idle" /\ dir = "read" => got = Count(n)]_vars

\* A call returns.
CallReturns == pc = "begin" ~> pc = "idle"

\* "The transfer is complete [when] the device sent a short packet": the read
\* of the packet returns, whatever its length.
ShortPacketEnds == (pc = "begin" /\ dir = "read" /\ n < MaxPacket) ~> pc = "idle"

=============================================================================
