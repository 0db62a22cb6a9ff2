SPECIFICATION Spec
CONSTANTS
  NThreads = 2
  MaxLines = 3
  MaxSpurious = 1
INVARIANT TypeOK
INVARIANT MutualExclusion
INVARIANT PopNonEmpty
INVARIANT Conservation
INVARIANT NoHanging
INVARIANT CountersNeverOver
INVARIANT ExitAccount
INVARIANT TallyNeverOver
PROPERTY ImplementsQueue
