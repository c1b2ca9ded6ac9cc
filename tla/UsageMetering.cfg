CONSTANTS
  Stores <- MCStores
  Orgs <- MCOrgs
  OrgOf <- MCOrgOf
  Conversations <- MCConversations
  StoreOf <- MCStoreOf
  Customers <- MCOrgs
  Loops <- MCLoops
  Limit = 2
  LastHour = 2
  Deciding <- MCDeciding
  Faults <- MCAllFaults
  MaxFaults = 1
SPECIFICATION FairSpec
INVARIANTS
  BilledOnce
  ReportedWasCounted
  OverReportBounded
PROPERTIES
  EveryRowReported
\* The last hour ends and every row is reported or refused.
CHECK_DEADLOCK FALSE
