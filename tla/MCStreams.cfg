\* The client sends up to 4 keys, commands or subnegotiations, the installer prints up
\* to 3 characters; two FTP replies, each in at most 3 pieces.  A dialogue may end.
CONSTANTS
  MaxItems = 4
  MaxPrinted = 3
  CodeLength = 1
  Size = 30
  MaxReplies = 2
  MaxReads = 3
SPECIFICATION Spec
INVARIANTS
  AbortsOnlyOnKeys
  KeysDelivered
  CRBeforeNL
  VerdictRight
  HangsOnlyIfCutShort
CHECK_DEADLOCK FALSE
