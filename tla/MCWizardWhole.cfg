SPECIFICATION Spec
CONSTANTS
  Drives <- OneDrive
  Parts = {}
  Exports = {}
  Urls = {"url1"}
  Plain = {"sr0", "sr1", "hd2"}
  MaxStack = 2
  Starts <- UrlGiven
  FlagSets <- Plainly
  JunkRcs <- NotBack
INVARIANT WholeImage
CHECK_DEADLOCK FALSE
