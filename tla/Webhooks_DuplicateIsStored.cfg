CONSTANTS
  Requests <- MCMeta
  Events <- MCEvents
  EventOf <- MCMetaEventOf
  Signature <- MCMetaSignature
  Source <- MCSource
  Topic <- MCTopic
  Header <- MCHeader
  Ident <- MCIdent
  Routed <- MCRouted
  Customers <- MCCustomers
  Subject <- MCSubject
  Loops <- MCLoops
  Kind <- MCKind
  Faults <- MCAllFaults
  MaxCrashes = 1
  Null = "null"
SPECIFICATION Spec
INVARIANTS
  DuplicateIsStored
