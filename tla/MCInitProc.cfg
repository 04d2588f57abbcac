CONSTANTS
  runtime = runtime
  source = source
  klogd = klogd
  proc = proc
  Fs <- MCFs
  OwnFs <- MCOwnFs
  Helpers <- MCHelpers
  Options <- MCOptions
  MaxKeys = 1
SPECIFICATION FairSpec
INVARIANTS DownUnmounted RequestHonoured RebootAfterSuccess
PROPERTIES LoaderEndIsNoticed
CHECK_DEADLOCK FALSE
