SPECIFICATION FairSpec
CONSTANTS
  NumDevices = 3
  Gadgets <- MCGadgets
  Faults <- MCFaults
INVARIANTS UsbTypeOK PollSafe RunningTalks SpeedMatches Detected TableDense
PROPERTIES Settles
