SPECIFICATION FairSpec
CONSTANTS
  Ids <- MCIds
  Timer = 2
  Console = console
  Alarms = {console, other}
  Word = 8
  Second = 2
  Intervals <- MCIntervals
  Rate = 2
  Delay = 1
INVARIANTS Dispatchable Excluded OnTime ConsoleWatched
PROPERTIES NeverShort AlarmsRing
