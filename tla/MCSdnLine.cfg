SPECIFICATION Spec
CONSTANTS
  NumSwitches = 2
  Again <- FirstAgain
  Low <- TwoLow
  High <- TwoLow
  Addresses <- TwoLengths
  Sources <- Source
  MaxPackets <- OneFirst
  MaxRelays = 1
  Start = "any"
  SocketEvents <- Polled
  Leaving = TRUE
CHECK_DEADLOCK FALSE
INVARIANTS TypeOK OneUnderWay
PROPERTIES ControllerOutlivesNone ImplementsRules
