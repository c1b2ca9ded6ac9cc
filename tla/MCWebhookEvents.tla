--------------------------- MODULE MCWebhookEvents ---------------------------
(* Model checking of WebhookEvents.  Two Shopify events of one customer with *)
(* the same payload id and different topics, the redaction sent twice; a     *)
(* Meta message; a request that is not signed.  MCMeta: the message twice.   *)
EXTENDS WebhookEvents

MCEvents == {"redact", "order", "message"}
MCRequests == {"r1", "r2", "o1", "m1", "f1"}
MCMeta == {"m1", "m2"}
MCEventOf ==
  [r \in MCRequests |-> CASE r = "o1" -> "order"
                          [] r = "m1" -> "message"
                          [] OTHER -> "redact"]
MCMetaEventOf == [r \in MCMeta |-> "message"]
MCMetaSignature == [r \in MCMeta |-> "good"]
MCSignature == [r \in MCRequests |-> IF r = "f1" THEN "none" ELSE "good"]
MCSource ==
  [e \in MCEvents |-> IF e = "message" THEN "meta_wa" ELSE "shopify"]
MCTopic ==
  [e \in MCEvents |-> CASE e = "redact" -> "customers/redact"
                        [] e = "order" -> "orders/create"
                        [] OTHER -> "message"]
MCHeader == [e \in MCEvents |-> CASE e = "redact" -> "h1" [] e = "order" -> "h2" [] OTHER -> "null"]
MCIdent == [e \in MCEvents |-> "i1"]
MCRouted == {"message"}
MCCustomers == {"c1", "c2"}
MCSubject == [e \in MCEvents |-> IF e = "redact" THEN {"c1"} ELSE {}]
MCLoops == {"wa1", "gdpr1", "gdpr2"}
MCKind == [w \in MCLoops |-> IF w = "wa1" THEN "wa" ELSE "gdpr"]
MCAllFaults == {"fail", "mark", "crash"}
=============================================================================
