SPECIFICATION FairSpec
CONSTANTS
  Word = 64
  Rate = 4
  Delay = 2
PROPERTY SettleEnds
