CONSTANTS
  MinTimeout = 1
  MaxTimeout = 2
  FileSizes = {2, 8}
  DefaultBlk = 1
  ServerBlk = 2
  Modulus = 4
  MaxMtftpTimeouts = 2
  Schemes = {"tftp", "tftpsize", "tftm", "mtftp"}
  OptionSets = {{}, {"blksize"}, {"blksize", "tsize"}}
  Tids = {"t1", "t2"}
  MaxLate = 1
  MaxPackets = 11
  MaxPolls = 3
CHECK_DEADLOCK FALSE
SPECIFICATION Spec
INVARIANT WholeWhenDone
