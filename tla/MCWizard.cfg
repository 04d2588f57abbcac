SPECIFICATION Spec
CONSTANTS
  Drives <- TwoDrives
  Parts = {"hd1", "hd2"}
  Exports = {"nfs1"}
  Urls = {"url1"}
  Plain = {"sr0", "sr1", "hd2"}
  MaxStack = 2
  Starts <- EveryStart
  FlagSets <- Various
  JunkRcs <- AnyRc
INVARIANTS NetworkBeforeFetch RuntimeMatchesUrl MediumVisible NothingLeftBehind RepoFollowsStage2
CHECK_DEADLOCK FALSE
