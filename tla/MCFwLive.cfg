CONSTANTS
  d1 = d1
  firmware = firmware
  libFirmware = libFirmware
  ddFirmware = ddFirmware
  Devs = {d1}
  Dirs = {firmware, libFirmware, ddFirmware}
  FwAt <- MCFwAt
  InitPath <- MCInitPath
  AddLists <- MCAddLists
  NChunks = 2
  Timeout = 2
  KillAfter = 1
  MaxPolls = 2
  MaxStarts = 1
  MaxPath = 3
  QueueMax = 1
  Telnet = TRUE
SPECIFICATION FairSpec
PROPERTIES StopReturns LoadingEnds
