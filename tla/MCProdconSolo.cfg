SPECIFICATION FairSpec
CONSTANTS
  NThreads = 1
  MaxLines = 5
  MaxSpurious = 2
INVARIANT BufferBound
PROPERTY Termination
