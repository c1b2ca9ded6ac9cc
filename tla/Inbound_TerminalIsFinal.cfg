CONSTANTS
  Workers <- MCOneWorker
  Events <- MCTwoEvents
  Payload <- MCSerial2
  Routed <- MCTwoEvents
  Messages <- MCMessages
  Sender <- MCSender
  Storable <- MCAllButX
  Customers <- MCCustomers
  Stranger = "stranger"
  Convs <- MCConvs
  CustomerOf <- MCCustomerOf
  OrderOf <- MCOrderOf
  OpenedAt <- MCOpenedAt
  Orders <- MCOrders
  Responses <- MCResponses
  StartStates <- MCDecidingOrVerifying
  Closers <- MCEscalated
  Faults <- MCNone
  MaxCrashes = 0
  Nobody = "nobody"
SPECIFICATION Spec
PROPERTIES
  TerminalIsFinal
