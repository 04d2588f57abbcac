CONSTANTS
  MinTimeout = 1
  MaxTimeout = 2
  SeqMod = 32
  Isn = 31
  Iss = 29
  PathMtu = 2
  TwoMsl = 3
  SndWins = {0, 2}
  RcvWins = {0, 4}
  MaxOut = 2
  MaxIn = 2
CHECK_DEADLOCK FALSE
SPECIFICATION Spec
INVARIANTS AssertsHold NoSilentStall
PROPERTIES Freed Streams WindowNeverShrinks
