SPECIFICATION FairSpec
CONSTANTS
  Word = 1024
  XReset = 460
  YReset = 230
  XMax = 620
  YMax = 450
  XRespawn = 290
  YRespawn = 100
  Center = 320
  Width = 40
  Big <- MarioBig
  Small <- MarioSmall
  Ceiling = 300
  Launches = {126}
  Chords <- MCChords
PROPERTIES
  NoTeleport
  RespawnSpec
  Landing
