SPECIFICATION FairSpec
CONSTANTS
  Clients = {c1, c2}
  MaxClients = 1
  Backlog = 1
  MaxRequests = 2
  NoClient = NoClient
  Other = Other
PROPERTIES
  WaitEnds
