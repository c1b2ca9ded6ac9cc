--------------------------- MODULE MCAgentVersions ---------------------------
(* Model checking of AgentVersions: four requests for one agent, three of    *)
(* them publishing, and one for an agent that may not exist yet.             *)
EXTENDS AgentVersions

MCAgents == {"a1", "a2"}
MCRequests == {"r1", "r2", "r3", "r4", "r5"}
MCAgentOf == [r \in MCRequests |-> IF r = "r5" THEN "a2" ELSE "a1"]
MCPublishing == MCRequests \ {"r4"}
MCFail == {"fail"}
=============================================================================
