CONSTANTS
  MaxFds = 3
  Dfile <- MCDfile
  ByPath <- MCByPath
  Stdin = Io
  Stdout = Io
  Null = Null
  Byte <- MCByte
  MaxOs = 4
  MaxOff = 3
  MaxBytes = 1
  Page = 2
  DirentSize = 1
  Stats <- MCStats
  Setups <- MCSetups
  A = A
  Io = Io
  a = a
SPECIFICATION Spec
INVARIANTS FilesSound
PROPERTIES FailedCallsChangeNothing UnlinkedIsGone TableSpec
