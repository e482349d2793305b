SPECIFICATION FairSpec
CONSTANTS
  Lengths = {1, 2, 8}
  MaxPacket = 8
PROPERTIES WholeFrame ReadsAnswers CallReturns
