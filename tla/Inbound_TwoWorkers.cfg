\* Two loops, deliveries that lock rows in opposite orders, every fault.
CONSTANTS
  Workers <- MCTwoWorkers
  Events <- MCEvents
  Payload <- MCCrossed
  Routed <- MCEvents
  Messages <- MCCrossedMessages
  Sender <- MCCrossedSender
  Storable <- MCCrossedMessages
  Customers <- MCCustomers
  Stranger = "stranger"
  Convs <- MCConvs
  CustomerOf <- MCCustomerOf
  OrderOf <- MCOrderOf
  OpenedAt <- MCOpenedAt
  Orders <- MCOrders
  Responses <- MCFewResponses
  StartStates <- MCDeciding
  Closers <- MCEscalated
  Faults <- MCAllFaults
  MaxCrashes = 1
  Nobody = "nobody"
SPECIFICATION FairSpec
INVARIANTS
  OneHolder
  NoHalfDelivery
  MessageOnce
  HistoryExplainsState
  DecisionHasOutcome
  EscalationHasTicket
  TerminalImpliesClosed
PROPERTIES
  ClosedIsFinal
  RefinesQueue
  EveryEventSettles
