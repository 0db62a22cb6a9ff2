SPECIFICATION Spec
CONSTANTS
  NThreads = 2
  MaxLines = 1
  MaxSpurious = 0
INVARIANT ConsumersRunWhileProducing
