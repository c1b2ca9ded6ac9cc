CONSTANTS
  Requests <- MCRequests
  Lines <- MCLines
  Body <- MCBody
  Valid <- MCValid
  Key <- MCKey
  External <- MCExternal
  Phone <- MCPhone
  Dispatch <- MCDispatch
  Faults <- MCFail
SPECIFICATION FairSpec
INVARIANTS
  OneOrderPerKey
  AcceptedIsStored
  StoredIsQueued
PROPERTIES
  EveryRequestEnds
\* Every request ends.
CHECK_DEADLOCK FALSE
