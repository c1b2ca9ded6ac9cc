---------------------------- MODULE WebhookEvents ----------------------------
(***************************************************************************)
(* The receivers of the providers' webhooks and the loops that work off    *)
(* webhook_events.  A receiver checks the signature, inserts one row under *)
(* the unique (source, event_id) and answers; a provider that gets no 2xx  *)
(* sends the event again.  wa_event_worker takes the WhatsApp rows,        *)
(* gdpr_worker the three mandatory Shopify topics, and the other rows are  *)
(* taken by nobody.  Both loops commit processed_at before they work.      *)
(*                                                                         *)
(* A receiver's transaction is that of the dependency DbAdminDep, which    *)
(* commits before the response is sent or, from FastAPI 0.118, after it:   *)
(* early, as in OrderIntake.                                               *)
(***************************************************************************)
EXTENDS Naturals, Sequences, FiniteSets

CONSTANTS
  Requests,   \* HTTP requests to a receiver
  Events,     \* what happened at a provider
  EventOf,    \* the event a request reports
  Signature,  \* [Requests -> {"good", "bad", "none"}]
  Source,     \* [Events -> Sources]
  Topic,      \* X-Shopify-Topic, X-WC-Webhook-Topic, the kind of a Meta change
  Header,     \* the id in the headers, or Null
  Ident,      \* the id in the payload, or Null
  Routed,     \* Meta events whose phone_number_id is that of an active store
  Customers,
  Subject,    \* [Events -> SUBSET Customers], whom a redaction selects
  Loops,      \* the running loops
  Kind,       \* [Loops -> {"wa", "gdpr"}]
  Faults,     \* a subset of {"fail", "mark", "crash"}
  MaxCrashes, \* bound on the number of crashes explored
  Null

Sources == {"shopify", "woocommerce", "generic", "dialog360", "twilio_wa",
            "twilio_voice_status", "twilio_voice_amd", "stripe", "meta_wa"}

GdprTopics == {"customers/data_request", "customers/redact", "shop/redact"}

\* One route each.
ShopifyTopics == {"orders/create", "orders/updated", "orders/cancelled", "app/uninstalled"}
                 \cup GdprTopics

ASSUME WebhookAssumption ==
  /\ EventOf \in [Requests -> Events]
  /\ Signature \in [Requests -> {"good", "bad", "none"}]
  /\ Source \in [Events -> Sources]
  /\ \A e \in Events : Source[e] = "shopify" => Topic[e] \in ShopifyTopics
  /\ Subject \in [Events -> SUBSET Customers]
  /\ Kind \in [Loops -> {"wa", "gdpr"}]
  /\ MaxCrashes \in Nat
  /\ Null \notin Requests

VARIABLES
  rows,      \* committed rows of webhook_events, by the request that inserted each
  processed, \* rows with processed_at
  errors,    \* rows with error
  personal,  \* customers whose name, phone and e-mail are stored
  answer,    \* the response each request was sent, or "none"
  tx,        \* its transaction: [Requests -> {"none", "open", "committed", "failed"}]
  early,     \* the response is sent before the transaction commits
  pc,        \* [Loops -> {"idle", "picking", "working", "marking"}]
  cur,       \* the row each loop holds
  outcome,   \* history: how the work on a row ended
  crashes

table == <<rows, processed, errors, personal, outcome>>
loops == <<pc, cur, crashes>>
http  == <<answer, tx, early>>
vars  == <<table, loops, http>>

Answers == {"none", "401", "500", "accepted", "duplicate"}

-----------------------------------------------------------------------------
(* The key of a row.                                                       *)

\* Receivers that verify a signature only when there is one.
Lenient == {"dialog360", "twilio_wa", "twilio_voice_status", "twilio_voice_amd"}

Authentic(r) ==
  \/ Signature[r] = "good"
  \/ Signature[r] = "none" /\ Source[EventOf[r]] \in Lenient

\* Mutant: the id of the payload without the topic.
EventIdOfPayload(e) == <<Ident[e]>>

\* x_event_id or f"{topic}:{payload id}"
ShopifyId(e) == IF Header[e] # Null THEN <<Header[e]>> ELSE <<Topic[e], Ident[e]>>
WooId(e)     == IF Header[e] # Null THEN <<Header[e]>> ELSE <<Topic[e], Ident[e]>>

\* X-Idempotency-Key or idempotency_key
GenericId(e) == IF Header[e] # Null THEN <<Header[e]>> ELSE <<Ident[e]>>

\* The first message of dialog360, MessageSid, CallSid, the id of a Stripe
\* event, the first message or status of Meta.
Dialog360Id(e) == <<Ident[e]>>
TwilioId(e)    == <<Ident[e]>>
VoiceId(e)     == <<Ident[e]>>
StripeId(e)    == <<Ident[e]>>
MetaId(e)      == <<Ident[e]>>

EventId(e) ==
  CASE Source[e] = "shopify"     -> ShopifyId(e)
    [] Source[e] = "woocommerce" -> WooId(e)
    [] Source[e] = "generic"     -> GenericId(e)
    [] Source[e] = "dialog360"   -> Dialog360Id(e)
    [] Source[e] = "twilio_wa"   -> TwilioId(e)
    [] Source[e] \in {"twilio_voice_status", "twilio_voice_amd"} -> VoiceId(e)
    [] Source[e] = "stripe"      -> StripeId(e)
    [] Source[e] = "meta_wa"     -> MetaId(e)

Key(r) == <<Source[EventOf[r]], EventId(EventOf[r])>>

Stored == {rows[i] : i \in DOMAIN rows}
Known(r) == \E q \in Stored : Key(q) = Key(r)

TypeOK ==
  /\ rows \in Seq(Requests)
  /\ processed \subseteq Stored
  /\ errors \subseteq processed
  /\ personal \subseteq Customers
  /\ answer \in [Requests -> Answers]
  /\ tx \in [Requests -> {"none", "open", "committed", "failed"}]
  /\ early \in BOOLEAN
  /\ pc \in [Loops -> {"idle", "picking", "working", "marking"}]
  /\ cur \in [Loops -> Requests \cup {Null}]
  /\ outcome \in [Requests -> {"none", "applied", "failed"}]
  /\ crashes \in Nat

Init ==
  /\ rows = <<>>
  /\ processed = {}
  /\ errors = {}
  /\ personal = Customers
  /\ answer = [r \in Requests |-> "none"]
  /\ tx = [r \in Requests |-> "none"]
  /\ early \in BOOLEAN
  /\ pc = [w \in Loops |-> "idle"]
  /\ cur = [w \in Loops |-> Null]
  /\ outcome = [r \in Requests |-> "none"]
  /\ crashes = 0

-----------------------------------------------------------------------------
(* A receiver: one transaction of db_admin.                                *)

Reply(r, a) == answer' = [answer EXCEPT ![r] = a]
Goes(r, t) == tx' = [tx EXCEPT ![r] = t]

New(r) == answer[r] = "none" /\ tx[r] = "none"

Refuse(r) ==
  /\ New(r)
  /\ ~Authentic(r)
  /\ Reply(r, "401")
  /\ UNCHANGED <<table, loops, tx, early>>

\* Either kind of INSERT waits for an uncommitted row with its key.
Ready(r) ==
  /\ New(r)
  /\ Authentic(r)
  /\ \A q \in Requests : tx[q] = "open" => Key(q) # Key(r)

FromMeta(r) == Source[EventOf[r]] = "meta_wa"

\* INSERT ... ON CONFLICT DO NOTHING
Insert(r) ==
  /\ Ready(r)
  /\ ~FromMeta(r)
  /\ IF Known(r) THEN Reply(r, "accepted") /\ UNCHANGED tx
                 ELSE Goes(r, "open") /\ UNCHANGED answer
  /\ UNCHANGED <<table, loops, early>>

\* An INSERT whose unique violation is caught.
MetaInsert(r) ==
  /\ Ready(r)
  /\ FromMeta(r)
  /\ IF Known(r) THEN Reply(r, "duplicate") /\ UNCHANGED tx
                 ELSE Goes(r, "open") /\ UNCHANGED answer
  /\ UNCHANGED <<table, loops, early>>

\* The response goes out ahead of the commit.
Answer(r) ==
  /\ tx[r] = "open"
  /\ early
  /\ answer[r] = "none"
  /\ Reply(r, "accepted")
  /\ UNCHANGED <<table, loops, tx, early>>

\* Mutant: the receiver answers and the row is written by a later task.
CommitLater(r) ==
  /\ tx[r] = "open"
  /\ early => answer[r] = "accepted"
  /\ Reply(r, "accepted")
  /\ Goes(r, "committed")
  /\ rows' = rows \/ rows' = Append(rows, r)
  /\ UNCHANGED <<processed, errors, personal, outcome, loops, early>>

\* Unless it has gone out already, the response follows.
Commit(r) ==
  /\ tx[r] = "open"
  /\ early => answer[r] = "accepted"
  /\ rows' = Append(rows, r)
  /\ Goes(r, "committed")
  /\ Reply(r, "accepted")
  /\ UNCHANGED <<processed, errors, personal, outcome, loops, early>>

\* The INSERT raises: 500, except that Meta's receiver takes every exception
\* for a duplicate.
InsertFails(r) ==
  /\ "fail" \in Faults
  /\ New(r)
  /\ Authentic(r)
  /\ Reply(r, IF FromMeta(r) THEN "duplicate" ELSE "500")
  /\ UNCHANGED <<table, loops, tx, early>>

\* The commit raises, or the process dies before it: 500, if it is not too
\* late for that.
CommitFails(r) ==
  /\ "fail" \in Faults
  /\ tx[r] = "open"
  /\ Goes(r, "failed")
  /\ Reply(r, IF answer[r] = "none" THEN "500" ELSE answer[r])
  /\ UNCHANGED <<table, loops, early>>

-----------------------------------------------------------------------------
(* The loops.                                                              *)

WhatsApp   == {"meta_wa", "dialog360", "twilio_wa"}

\* The rows the SELECT of a loop of kind k names.
Takes(k, r) ==
  IF k = "wa" THEN Source[EventOf[r]] \in WhatsApp /\ r \notin errors
  ELSE Source[EventOf[r]] = "shopify" /\ Topic[EventOf[r]] \in GdprTopics

Goto(w, p) == pc' = [pc EXCEPT ![w] = p]

\* Mutant: the pick without SKIP LOCKED.
PickableUnlocked(w) ==
  {r \in Stored : r \notin processed /\ Takes(Kind[w], r)}

Pickable(w) ==
  {r \in Stored : /\ r \notin processed
                  /\ Takes(Kind[w], r)
                  /\ \A v \in Loops : ~(pc[v] = "picking" /\ cur[v] = r)}

PickLock(w) ==
  /\ pc[w] = "idle"
  /\ \E i \in DOMAIN rows :
       /\ rows[i] \in Pickable(w)
       /\ \A j \in 1 .. i - 1 : rows[j] \notin Pickable(w)
       /\ cur' = [cur EXCEPT ![w] = rows[i]]
  /\ Goto(w, "picking")
  /\ UNCHANGED <<table, crashes, http>>

PickCommit(w) ==
  /\ pc[w] = "picking"
  /\ processed' = processed \cup {cur[w]}
  /\ Goto(w, "working")
  /\ UNCHANGED <<rows, errors, personal, outcome, cur, crashes, http>>

Poll(w) ==
  /\ pc[w] = "idle"
  /\ Pickable(w) = {}
  /\ UNCHANGED vars

Release(w) ==
  /\ Goto(w, "idle")
  /\ cur' = [cur EXCEPT ![w] = Null]

Settle(w, o) == outcome' = [outcome EXCEPT ![cur[w]] = o]

\* Mutant: the redaction runs without app.bypass_rls and sees no row.
WorkHidden(w) ==
  /\ pc[w] = "working"
  /\ Settle(w, "applied")
  /\ Release(w)
  /\ UNCHANGED <<rows, processed, errors, personal, crashes, http>>

\* handle_inbound_event returns at once for a row without a store, which is
\* every row of dialog360 and Twilio; with a store see InboundPipeline.
\* gdpr_worker erases the customers a redaction names.
Work(w) ==
  LET e == EventOf[cur[w]] IN
  /\ pc[w] = "working"
  /\ personal' = IF Topic[e] = "customers/redact" /\ Kind[w] = "gdpr"
                 THEN personal \ Subject[e] ELSE personal
  /\ Settle(w, "applied")
  /\ Release(w)
  /\ UNCHANGED <<rows, processed, errors, crashes, http>>

\* What runs a statement after the pick, and so may raise.
MayRaise(w) ==
  LET e == EventOf[cur[w]] IN
  IF Kind[w] = "wa" THEN e \in Routed ELSE Topic[e] # "customers/data_request"

\* Mutant: the exception ends the loop.
WorkFailsStop(w) ==
  /\ "fail" \in Faults
  /\ pc[w] = "working"
  /\ MayRaise(w)
  /\ Goto(w, "marking")
  /\ UNCHANGED <<table, cur, crashes, http>>

\* wa_event_worker records the error; gdpr_worker logs it and goes on.
WorkFails(w) ==
  /\ "fail" \in Faults
  /\ pc[w] = "working"
  /\ MayRaise(w)
  /\ IF Kind[w] = "wa"
     THEN Goto(w, "marking") /\ UNCHANGED <<cur, outcome>>
     ELSE Release(w) /\ Settle(w, "failed")
  /\ UNCHANGED <<rows, processed, errors, personal, crashes, http>>

MarkError(w) ==
  /\ pc[w] = "marking"
  /\ Kind[w] = "wa"
  /\ errors' = errors \cup {cur[w]}
  /\ Settle(w, "failed")
  /\ Release(w)
  /\ UNCHANGED <<rows, processed, personal, crashes, http>>

MarkErrorFails(w) ==
  /\ "mark" \in Faults
  /\ pc[w] = "marking"
  /\ Kind[w] = "wa"
  /\ Release(w)
  /\ UNCHANGED <<table, crashes, http>>

Crash(w) ==
  /\ "crash" \in Faults
  /\ crashes < MaxCrashes
  /\ pc[w] # "idle"
  /\ Release(w)
  /\ crashes' = crashes + 1
  /\ UNCHANGED <<table, http>>

Serve(r) == Refuse(r) \/ Insert(r) \/ MetaInsert(r) \/ Answer(r) \/ Commit(r)
Advance(w) == PickLock(w) \/ PickCommit(w) \/ Work(w) \/ MarkError(w)

Next ==
  \/ \E r \in Requests : Serve(r) \/ InsertFails(r) \/ CommitFails(r)
  \/ \E w \in Loops :
       Advance(w) \/ WorkFails(w) \/ MarkErrorFails(w) \/ Crash(w) \/ Poll(w)

Fairness ==
  /\ \A r \in Requests : WF_vars(Answer(r) \/ Commit(r))
  /\ \A w \in Loops : WF_vars(Advance(w))

Spec == Init /\ [][Next]_vars
FairSpec == Spec /\ Fairness
-----------------------------------------------------------------------------
(* An event that was answered with "accepted" is in webhook_events, also     *)
(* when the same event is on its way twice and one of the two fails.  Only   *)
(* an early answer may be wrong, while its own commit is to come or once it  *)
(* failed: then, and with Meta's "duplicate", a provider may stop repeating  *)
(* what is stored nowhere.                                                   *)
AcceptedIsStored ==
  \A r \in Requests :
    answer[r] = "accepted" => \/ Known(r)
                              \/ early /\ tx[r] \in {"open", "failed"}

\* Requests whose id names the event and not the thing it happened to.
Identifying(r) ==
  LET e == EventOf[r] IN
  IF Source[e] \in {"shopify", "generic"} THEN Header[e] # Null
  ELSE Source[e] \in {"stripe", "meta_wa", "dialog360"} /\ Ident[e] # Null

(* Where the id is the event's own, no accepted event disappears behind the  *)
(* row of another, and no event has two rows, however often it is repeated;  *)
(* an early answer counts when its transaction has committed.                *)
EventsKept ==
  \A r \in Requests :
    Identifying(r) /\ answer[r] = "accepted" /\ tx[r] \in {"none", "committed"} =>
      Cardinality({q \in Stored : EventOf[q] = EventOf[r]}) = 1

(* A row that a loop handles is processed by one loop, once, and settles.    *)
JobOf(r) ==
  CASE r \notin Stored -> "absent"
    [] r \in Stored \ processed -> "ready"
    [] r \in processed /\ outcome[r] # "none" -> outcome[r]
    [] r \in processed /\ outcome[r] = "none" ->
         IF \E w \in Loops : cur[w] = r THEN "claimed" ELSE "lost"

Queue == INSTANCE AtMostOnceQueue WITH Jobs <- Requests, job <- [r \in Requests |-> JobOf(r)]

(* webhook_events is the queue of both loops: their SELECTs name disjoint    *)
(* rows, SKIP LOCKED keeps loops of one kind apart, processed_at is final.   *)
RefinesQueue == Queue!Spec

(* Every stored row of WhatsApp and every GDPR request is worked on and      *)
(* settles, unless its loop died or could not record the error; rows of the  *)
(* other sources and topics stay as they are.                                *)
EveryRequestSettles ==
  \A r \in Requests :
    r \in Stored ~> \/ JobOf(r) \in {"applied", "failed", "lost"}
                    \/ \A w \in Loops : ~Takes(Kind[w], r)

(* COMPLIANCE.md, delete customer data: a customer's data are erased exactly *)
(* when a stored redaction that names the customer was applied, by one loop  *)
(* or another.  One whose work raised or whose loop died erases nothing, and *)
(* gdpr_worker, unlike the other loop, records nowhere that it did not.      *)
Redactions(c) ==
  {r \in Stored : /\ Takes("gdpr", r)
                  /\ Topic[EventOf[r]] = "customers/redact"
                  /\ c \in Subject[EventOf[r]]}

ErasedIffRedacted ==
  \A c \in Customers :
    c \notin personal <=> \E r \in Redactions(c) : JobOf(r) = "applied"

(* webhooks_meta_wa.py:79, "idempotent: duplicate event id is fine": what    *)
(* Meta is told is a duplicate is stored.                                    *)
DuplicateIsStored ==
  \A r \in Requests : answer[r] = "duplicate" => Known(r)
=============================================================================
