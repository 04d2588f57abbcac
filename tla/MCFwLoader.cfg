CONSTANTS
  d1 = d1
  firmware = firmware
  libFirmware = libFirmware
  ddFirmware = ddFirmware
  Devs = {d1}
  Dirs = {firmware, libFirmware, ddFirmware}
  FwAt <- MCFwAt
  InitPath <- MCInitPath
  AddLists <- MCAddLists
  NChunks = 2
  Timeout = 1
  KillAfter = 1
  MaxPolls = 2
  MaxStarts = 2
  MaxPath = 3
  QueueMax = 1
  Telnet = FALSE
SPECIFICATION Spec
INVARIANTS TypeOK ServingDaemonCurrent OrphansKilled NoPartialFirmware
PROPERTY QuittingTakesNoMore
