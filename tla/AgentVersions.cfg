CONSTANTS
  Agents <- MCAgents
  Requests <- MCRequests
  AgentOf <- MCAgentOf
  Publishing <- MCPublishing
  Faults <- MCFail
  Nobody = "nobody"
SPECIFICATION Spec
INVARIANTS
  VersionsNumbered
  CurrentIsNewestPublished
\* Every request ends.
CHECK_DEADLOCK FALSE
