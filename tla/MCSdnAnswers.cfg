SPECIFICATION FairSpec
CONSTANTS
  NumSwitches = 3
  Again <- NotAgain
  Low <- OneLow
  High <- OneHigh
  Addresses <- OneLength
  Sources <- Source
  MaxPackets <- Inner
  MaxRelays = 2
  Start = "one_by_one"
  SocketEvents <- Polled
  Leaving = FALSE
CHECK_DEADLOCK FALSE
INVARIANTS ForwardTowards PacketsAccounted
PROPERTIES QueryAnswered ImplementsRules
