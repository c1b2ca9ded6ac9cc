CONSTANTS
  Workers <- MCTwoWorkers
  Rows <- MCRows
  Channel <- MCChannel
  OrderOf <- MCOrderOf
  Orders <- MCOrders
  Buyer <- MCBuyer
  Buyers <- MCBuyers
  Faults <- MCAllFaults
  MaxCrashes = 2
  Nobody = "nobody"
SPECIFICATION FairSpec
INVARIANTS
  ContactBounded
  ContactedHadConsent
  OkMeansContacted
PROPERTIES
  RefinesQueue
  EveryRowSettles
