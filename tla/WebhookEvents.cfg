CONSTANTS
  Requests <- MCRequests
  Events <- MCEvents
  EventOf <- MCEventOf
  Signature <- MCSignature
  Source <- MCSource
  Topic <- MCTopic
  Header <- MCHeader
  Ident <- MCIdent
  Routed <- MCRouted
  Customers <- MCCustomers
  Subject <- MCSubject
  Loops <- MCLoops
  Kind <- MCKind
  Faults <- MCAllFaults
  MaxCrashes = 1
  Null = "null"
SPECIFICATION FairSpec
INVARIANTS
  AcceptedIsStored
  EventsKept
  ErasedIffRedacted
PROPERTIES
  RefinesQueue
  EveryRequestSettles
