SPECIFICATION FairSpec
CONSTANTS
  Drives <- OneDrive
  Parts = {"hd1"}
  Exports = {"nfs1"}
  Urls = {"url1"}
  Plain = {"sr0", "sr1", "hd2"}
  MaxStack = 2
  Starts <- EveryStart
  FlagSets <- VariousOrRescue
  JunkRcs <- AnyRc
PROPERTY NoSilentLoop
CHECK_DEADLOCK FALSE
