----------------------------- MODULE MCUsbHost -----------------------------
(* Instances of UsbHost for TLC.                                           *)
EXTENDS UsbHost

Mouse    == [kind |-> "mouse", low |-> TRUE]
Keyboard == [kind |-> "keyboard", low |-> FALSE]

MCGadgets == {Mouse, Keyboard}
MCOne     == {Keyboard}
MCFaults  == {SE1}
=============================================================================
