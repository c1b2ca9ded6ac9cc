--------------------------- MODULE MCTenantSessions ---------------------------
(* Model checking of TenantSessions: two organisations with a store each,    *)
(* three requests of any kind on a pool of two connections.                  *)
EXTENDS TenantSessions, TLC

MCOrgs == {"o1", "o2"} \cup Requests
MCStores == {"s1", "s2"} \cup Requests
MCUsers == {"u1", "u2"}
MCSlugs == {"x", "y"}
MCMembers == {[org |-> "o1", user |-> "u1", role |-> "owner"],
              [org |-> "o2", user |-> "u2", role |-> "owner"]}
MCExisting == {[id |-> "s1", org |-> "o1", slug |-> "x", name |-> "old", status |-> "active"],
               [id |-> "s2", org |-> "o2", slug |-> "x", name |-> "old", status |-> "active"]}

Of(o) == [org |-> o, store |-> None, bypass |-> FALSE]
By(op, o, s) == [op |-> op, tenant |-> Of("o1"), user |-> "u1", role |-> "owner",
                 org |-> o, store |-> s, slug |-> "y"]
As(op, t) == [By(op, "o1", "s1") EXCEPT !.tenant = t]

MCCalls ==
  {By(op, "o1", "s1") : op \in Guarded}
  \cup {By("update_store", "o1", "s2"), By("delete_store", "o2", "s2"),
        [By("create_org", "o1", "s1") EXCEPT !.tenant = Of("o2"), !.user = "u2"],
        [By("create_store", "o1", "s1") EXCEPT !.slug = "x"],
        [By("create_store", "o1", "s1") EXCEPT !.role = "viewer"]}
  \cup {As("exchange", Default), As("revoke", Default), As("admin", Default),
        As("inbound", [Default EXCEPT !.store = "s1"]),
        As("outbound", [Default EXCEPT !.store = "s1", !.org = "o1"])}
MCFail == {"fail"}
Symmetry == Permutations(Requests)
=============================================================================
