SPECIFICATION Spec
CONSTANTS
  NumDevices = 2
  Gadgets <- MCOne
  Faults = {}
INVARIANTS DetachClears
