---------------------------- MODULE MCOrderIntake ----------------------------
(* Model checking of OrderIntake: two uploads with the same two new orders   *)
(* in opposite order, a retried HTTP request, and an upload with a bad line. *)
EXTENDS OrderIntake

\* l1 and l3, l2 and l4 share a key; l5 has l1's external id under a new key;
\* l6 does not validate; l7 is another order of l1's customer.
MCLines == {"l1", "l2", "l3", "l4", "l5", "l6", "l7"}
MCKey == [l \in MCLines |->
  CASE l \in {"l1", "l3"} -> "k1" [] l \in {"l2", "l4"} -> "k2" [] OTHER -> l]
MCExternal == [l \in MCLines |->
  CASE l \in {"l1", "l3", "l5"} -> "x1" [] l \in {"l2", "l4"} -> "x2" [] OTHER -> l]
MCPhone == [l \in MCLines |-> IF l \in {"l2", "l4"} THEN "p2" ELSE "p1"]
MCValid == MCLines \ {"l6"}

MCRequests == {"csv1", "csv2", "http", "silent"}
MCBody == [r \in MCRequests |->
  CASE r = "csv1"   -> <<"l1", "l6", "l2", "l1">>
    [] r = "csv2"   -> <<"l4", "l3">>
    [] r = "http"   -> <<"l5">>
    [] r = "silent" -> <<"l7">>]
MCDispatch == MCRequests \ {"silent"}

MCFail == {"fail"}
=============================================================================
