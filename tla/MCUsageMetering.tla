--------------------------- MODULE MCUsageMetering ---------------------------
(* Model checking of UsageMetering: an organisation with two stores and one  *)
(* with one, two hours to bill, so up to three rows for a LIMIT of two, any  *)
(* of them refused by Stripe; two loops.                                     *)
EXTENDS UsageMetering

MCOrgs == {1, 2}
MCStores == {"s1", "s2", "s3"}
MCOrgOf == [s \in MCStores |-> IF s = "s3" THEN 2 ELSE 1]
MCConversations == {"c1", "c2", "c3"}
MCStoreOf ==
  [c \in MCConversations |-> CASE c = "c1" -> "s1" [] c = "c2" -> "s2" [] c = "c3" -> "s3"]
MCDeciding == {"c1"}
MCLoops == {"b1", "b2"}
MCAllFaults == {"down", "fail", "timeout", "crash"}
=============================================================================
