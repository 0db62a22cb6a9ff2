SPECIFICATION FairSpec
CONSTANTS
  NumSwitches = 2
  Again <- NotAgain
  Low <- PairLow
  High <- PairLow
  Addresses <- PairAddresses
  Sources <- Source
  MaxPackets <- OneEach
  MaxRelays = 2
  Start = "in_order"
  SocketEvents <- Polled
  Leaving = FALSE
CHECK_DEADLOCK FALSE
PROPERTY QueryAnswered
