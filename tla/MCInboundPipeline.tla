-------------------------- MODULE MCInboundPipeline --------------------------
(* Model checking of InboundPipeline: two customers, each with one open      *)
(* conversation, and deliveries of one message or of both customers'.        *)
EXTENDS InboundPipeline

MCEvents == {"e1", "e2", "e3"}
MCFourEvents == MCEvents \cup {"e4"}
MCTwoEvents == {"e1", "e2"}
MCMessages == {"m1", "m2", "m3", "m4", "x"}
MCCustomers == {"k1", "k2"}
MCConvs == {"c1", "c2"}
MCOrders == {"o1", "o2"}

MCSender == [m \in MCMessages |->
  CASE m = "x" -> "stranger" [] m \in {"m3", "m4"} -> "k2" [] OTHER -> "k1"]

MCCustomerOf == [c \in MCConvs |-> IF c = "c1" THEN "k1" ELSE "k2"]
MCOrderOf    == [c \in MCConvs |-> IF c = "c1" THEN "o1" ELSE "o2"]
MCOpenedAt   == [c \in MCConvs |-> 1]

\* Two messages of one customer, the later with a stranger's, and two of the
\* other customer in one delivery; e4 is a status update.
MCSerial == [e \in MCEvents |->
  CASE e = "e1" -> <<"m1">> [] e = "e2" -> <<"m2", "x">> [] e = "e3" -> <<"m3", "m4">>]
MCSerialAndStatus == [e \in MCFourEvents |-> IF e = "e4" THEN <<>> ELSE MCSerial[e]]

\* The two customers' messages in opposite orders; e3 repeats e1.
MCCrossed == [e \in MCEvents |->
  CASE e = "e1" -> <<"m1", "m3">> [] e = "e2" -> <<"m4", "m2">> [] e = "e3" -> <<"m1">>]
MCSerial2  == [e \in MCTwoEvents |-> MCSerial[e]]
MCCrossedMessages == {"m1", "m2", "m3", "m4"}
MCCrossedSender == [m \in MCCrossedMessages |-> IF m \in {"m1", "m2"} THEN "k1" ELSE "k2"]

MCAllButX == MCMessages \ {"x"}
MCAllButM4 == MCMessages \ {"m4"}

R(calls, text) == [calls |-> calls, text |-> text]

MCResponses ==
  {R(<<>>, TRUE), R(<<"confirm_order">>, TRUE), R(<<"escalate_to_human">>, FALSE),
   R(<<"flag_wrong_number">>, TRUE), R(<<"flag_change_request", "confirm_order">>, TRUE)}

MCFewResponses ==
  {R(<<>>, TRUE), R(<<"escalate_to_human">>, FALSE)}

MCDeciding == {"confirm_intent"}
MCDecidingOrVerifying == {"confirm_intent", "identity_verify"}
MCEscalated == {"escalated"}
MCNone == {}
MCAllFaults == {"fail", "mark", "crash"}
MCOneWorker == {"w1"}
MCTwoWorkers == {"w1", "w2"}

=============================================================================
