--------------------------- MODULE MCOutboundQueue ---------------------------
(* Model checking of OutboundQueue: an order with the row of its first       *)
(* contact and an SMS request, and loops that race for both.                 *)
EXTENDS OutboundQueue

MCRows == {"q1", "s1"}
MCOrders == {"o1"}
MCBuyers == {"b1"}
MCChannel == [q \in MCRows |-> IF q = "s1" THEN "sms" ELSE "whatsapp"]
MCOrderOf == [q \in MCRows |-> "o1"]
MCBuyer == [o \in MCOrders |-> "b1"]

MCTwoWorkers == {"w1", "w2"}
MCAllFaults == {"fail", "timeout", "mark", "crash"}
=============================================================================
