\* The loop run_all starts, with every fault: each conversation behaves as
\* Conversation.
CONSTANTS
  Workers <- MCOneWorker
  Events <- MCFourEvents
  Payload <- MCSerialAndStatus
  Routed <- MCEvents
  Messages <- MCMessages
  Sender <- MCSender
  Storable <- MCAllButM4
  Customers <- MCCustomers
  Stranger = "stranger"
  Convs <- MCConvs
  CustomerOf <- MCCustomerOf
  OrderOf <- MCOrderOf
  OpenedAt <- MCOpenedAt
  Orders <- MCOrders
  Responses <- MCResponses
  StartStates <- MCDecidingOrVerifying
  Closers <- MCNone
  Faults <- MCAllFaults
  MaxCrashes = 1
  Nobody = "nobody"
  Watched = "c1"
SPECIFICATION Spec
INVARIANTS
  HistoryComplete
PROPERTIES
  RefinesConversation
