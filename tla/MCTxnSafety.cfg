SPECIFICATION Spec
CONSTANTS
  Clients = {c1, c2, c3}
  MaxClients = 2
  Backlog = 2
  MaxRequests = 2
  NoClient = NoClient
  Other = Other
SYMMETRY ClientSymmetry
INVARIANTS
  TypeOK
  RequestAccounted
  SummaryAgrees
  NeverAborts
  PhantomBound
PROPERTIES
  LiveKeepsSlot
  ImplementsTickets
