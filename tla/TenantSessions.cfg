CONSTANTS
  Requests = {r1, r2, r3}
  Calls <- MCCalls
  Connections = {k1, k2}
  Users <- MCUsers
  Orgs <- MCOrgs
  Stores <- MCStores
  Slugs <- MCSlugs
  Members <- MCMembers
  Existing <- MCExisting
  Faults <- MCFail
  None = None
SYMMETRY Symmetry
SPECIFICATION Spec
INVARIANTS
  OwnContext
  EveryOrgHasOwner
  SlugsUnique
PROPERTIES
  StoresOfOwnOrg
\* Every request ends.
CHECK_DEADLOCK FALSE
